---------------------------- MODULE SpecServing ----------------------------
(***************************************************************************)
(* The API server serving specs from the screens table (spec-serving.ts    *)
(* and the routes of server.ts): /api/app/:id and /api/screens/:id, with   *)
(* authentication configured.  Which screens need no token is worked out   *)
(* once, when the server starts; the table goes on changing.               *)
(***************************************************************************)
EXTENDS FiniteSets

CONSTANTS ScreenId, Absent

VARIABLES screens, \* the table: what is stored under an id
          running,
          public,  \* the ids served without a token
          known    \* the table as it was at the start (not in the code)

servingVars == <<screens, running, public, known>>

\* A spec is a screen, an API spec or an app, which may name a login screen.
Document == [type : {"screen", "api"}, login : {Absent}] \cup [type : {"app"}, login : ScreenId \cup {Absent}]
NoSpec == [type |-> "none", login |-> Absent]
Tables == [ScreenId -> Document \cup {NoSpec}]

ServingInit == screens \in Tables /\ running = FALSE /\ public = {} /\ known = screens

\* The ids of the apps and of their login screens.
Discover ==
    LET apps == {id \in ScreenId : screens[id].type = "app"}
    IN  apps \cup ({screens[id].login : id \in apps} \ {Absent})

\* start: an unreadable table leaves the apps unknown.
StartServing ==
    /\ ~running
    /\ running' = TRUE
    /\ public' = Discover
    /\ known' = screens
    /\ UNCHANGED screens

StopServing ==
    /\ running
    /\ running' = FALSE /\ public' = {}
    /\ UNCHANGED <<screens, known>>

\* A spec is pushed or deleted by the command line tool.
PushSpec ==
    /\ \E id \in ScreenId, spec \in Document \cup {NoSpec} : screens' = [screens EXCEPT ![id] = spec]
    /\ UNCHANGED <<running, public, known>>

ServingNext == StartServing \/ StopServing \/ PushSpec
-----------------------------------------------------------------------------
\* loadScreen: API specs never leave the server.
LoadScreen(id) == IF screens[id].type \in {"none", "api"} THEN NoSpec ELSE screens[id]

\* GET /api/screens/:id
ScreenStatus(id, token) ==
    IF id \notin public /\ ~token THEN 401
    ELSE IF LoadScreen(id) = NoSpec THEN 404 ELSE 200

\* GET /api/app/:id, whole with a valid token, without its access rules otherwise.
AppStatus(id) == IF LoadScreen(id).type = "app" THEN 200 ELSE 404

\* The login screen an app names can be loaded before anyone is signed in.
Bootstraps(id) ==
    LET login == screens[id].login IN
    (AppStatus(id) = 200 /\ login # Absent /\ LoadScreen(login) # NoSpec) =>
        ScreenStatus(login, FALSE) = 200

\* An app the server is asked for by a signed out client can be signed in to.
LoginReachable == running => \A id \in ScreenId : Bootstraps(id)

\* So it is for every app that names the login screen it named when the server started,
\* whatever happens to the documents in between.
KnownLoginReachable ==
    running => \A id \in ScreenId :
        (known[id].type = "app" /\ known[id].login = screens[id].login) => Bootstraps(id)
=============================================================================
