--------------------------- MODULE ContractCheck ---------------------------
(***************************************************************************)
(* The contract of an app with its APIs: `mythik contract` reads the app,  *)
(* its screens and the APIs from their stores one after the other, finds   *)
(* the requests the screens may send (core/src/contract) and compares them *)
(* with the endpoints.  Meanwhile authors save other versions, and servers *)
(* are started on what is stored then.  The users of a screen send its     *)
(* requests; Express serves one with the first route that was registered   *)
(* for its method and path (packages/server).                              *)
(*                                                                         *)
(* A path is a sequence of segments; "*" is a template expression in a url *)
(* and ":id" or another name with a colon a parameter of an endpoint.      *)
(***************************************************************************)
EXTENDS Integers, Sequences, SequencesExt, FiniteSetsExt, Functions

CONSTANTS
    App,         \* the versions of the app: screens, login, access (by role), or Missing
    ScreenOf,    \* the versions of each screen: starts, sources, handlers
    ApiOf,       \* the versions of each API: endpoints, catalogs, auth, provider, policies
    ApiIds,      \* the APIs the command is given
    Unreadable,  \* the documents whose load may fail
    HasBaseUrl,  \* whether the command is given a base url
    Shown,       \* what a template expression in a url may be worth, a segment
    Parameter,   \* the segments that are parameters of endpoints
    MaxAnswers

VARIABLES
    at,       \* the version of each document that is stored
    check,    \* the command: what it has read and found
    up,       \* the version of its API each server was started on, or 0
    answer,   \* the last request of a user, and what became of it
    answers   \* a bound

contractVars == <<at, check, up, answer, answers>>

Missing == [kind |-> "missing"]
Unset == "none"
ScreenIds == DOMAIN ScreenOf
Apis == DOMAIN ApiOf
Doc(id) == IF id = "app" THEN App[at[id]] ELSE IF id \in ScreenIds THEN ScreenOf[id][at[id]] ELSE ApiOf[id][at[id]]
Versions(id) == IF id = "app" THEN Len(App) ELSE IF id \in ScreenIds THEN Len(ScreenOf[id]) ELSE Len(ApiOf[id])
-----------------------------------------------------------------------------
(* The requests of a screen *)

\* parseUrl: a host that is a template is dropped, a base url only if it is known.
PathOf(url) ==
    [i \in 1 .. Len(url.path) + (IF url.host = "absolute" /\ ~HasBaseUrl THEN 1 ELSE 0) |->
        LET segments == (IF url.host = "absolute" /\ ~HasBaseUrl THEN <<"http://host">> ELSE <<>>) \o url.path
        IN  IF segments[i] = "*" THEN ":param" ELSE segments[i]]

\* A url that is neither a string nor a template is passed over; a method that is not
\* written is taken for GET, whatever the action.
Reference(url, method, params, fields, action) ==
    [path |-> PathOf(url), method |-> IF method = Unset THEN "GET" ELSE method, params |-> params,
     fields |-> fields, url |-> url, sent |-> IF method # Unset THEN method ELSE IF action = "submitForm" THEN "POST" ELSE "GET"]

\* extractFromAction: the fetches and the forms, and those of a transaction that is written
\* as an action.
OfAction(a) ==
    CASE a.action \in {"fetch", "submitForm"} ->
           IF a.url.host = "expression" THEN {} ELSE {Reference(a.url, a.method, a.url.query, a.body, a.action)}
      [] a.action = "transaction" ->
           {Reference(s.url, s.method, s.url.query, s.body, s.action) :
              s \in {t \in UNION {ToSet(a.phases[p]) : p \in DOMAIN a.phases \cap {"confirm", "onSuccess", "onError"}} :
                       t.action \in {"fetch", "submitForm"} /\ t.url.host # "expression"}}
      [] OTHER -> {}

References(screen) ==
    UNION {OfAction(a) : a \in ToSet(screen.starts)}
      \cup {Reference(s.url, s.method, s.url.query, {}, "fetch") : s \in {t \in screen.sources : t.url.host # "expression"}}
      \cup UNION {OfAction(a) : a \in UNION {ToSet(screen.handlers[e]) : e \in DOMAIN screen.handlers}}
-----------------------------------------------------------------------------
(* The endpoints *)

Under(path, last) == Append(path, last)

\* The entries an endpoint makes, in their order: its query or handler, then its CRUD.
EntriesOf(id, e) ==
    LET entry(method, path) ==
            [method |-> method, path |-> path, params |-> e.params, crud |-> e.crud, policy |-> e.policy, source |-> id]
    IN  (IF e.serves THEN <<entry(e.method, e.path)>> ELSE <<>>)
          \o (IF e.crud = <<>> THEN <<>>
              ELSE <<entry("POST", e.path), entry("PUT", Under(e.path, ":id")), entry("DELETE", Under(e.path, ":id"))>>)
ApiEntries(id, api) == FlattenSeq([i \in DOMAIN api.endpoints |-> EntriesOf(id, api.endpoints[i])])

\* buildEndpointMap: what is set later replaces what was set before, in all APIs.
MapOf(apis) ==
    LET all == FlattenSeq([i \in DOMAIN apis |-> ApiEntries(apis[i].id, apis[i].doc)])
        last(key) == CHOOSE i \in DOMAIN all :
            /\ <<all[i].method, all[i].path>> = key
            /\ \A j \in DOMAIN all : j > i => <<all[j].method, all[j].path>> # key
    IN  [key \in {<<all[i].method, all[i].path>> : i \in DOMAIN all} |-> all[last(key)]]
CatalogsOf(apis) == UNION {apis[i].doc.catalogs : i \in DOMAIN apis}
AuthConfigured(apis) == \E i \in DOMAIN apis : apis[i].doc.auth
PoliciesOf(apis) ==
    LET named == {i \in DOMAIN apis : apis[i].doc.auth}
        names == UNION {DOMAIN apis[i].doc.policies : i \in named}
    IN  [p \in names |-> LET i == Max({j \in named : p \in DOMAIN apis[j].doc.policies}) IN apis[i].doc.policies[p]]

\* matchEndpoint: as it is written, with every template taken for :id, a catalog or a
\* builtin route, of these whatever the method.
Ids(path) == [i \in DOMAIN path |-> IF path[i] = ":param" THEN ":id" ELSE path[i]]
NoEndpoint == [source |-> Unset]
Builtin(path, apis) ==
    \/ AuthConfigured(apis) /\ path \in {<<"api", "auth", "login">>, <<"api", "auth", "refresh">>}
    \/ Ids(path) \in {<<"api", "screens", ":id">>, <<"api", "app", ":id">>}
Match(r, apis) ==
    LET endpoints == MapOf(apis)
        catalog == Len(r.path) = 3 /\ SubSeq(r.path, 1, 2) = <<"api", "catalogs">>
        found(how, endpoint) == [how |-> how, endpoint |-> endpoint]
    IN  CASE <<r.method, r.path>> \in DOMAIN endpoints -> found("exact", endpoints[<<r.method, r.path>>])
          [] <<r.method, Ids(r.path)>> \in DOMAIN endpoints -> found("exact", endpoints[<<r.method, Ids(r.path)>>])
          [] catalog -> found(IF r.path[3] \in CatalogsOf(apis) THEN "catalog" ELSE Unset, NoEndpoint)
          [] ~catalog /\ Builtin(r.path, apis) -> found("builtin", NoEndpoint)
          [] OTHER -> found(Unset, NoEndpoint)
-----------------------------------------------------------------------------
(* The rules *)

Finding(level, rule, screen, about) == [level |-> level, rule |-> rule, screen |-> screen, about |-> about]

EndpointsExist(screen, r, apis) ==
    {Finding("error", "endpoints-exist", screen, <<r.method, r.path>>) : x \in {y \in {0} : Match(r, apis).how = Unset}}

\* What a body may hold of a CRUD endpoint, as the method says.
Allowed(method, crud) == IF method = "POST" THEN crud[1].insertable ELSE crud[1].updatable

FieldsValid(screen, r, apis) ==
    LET e == Match(r, apis).endpoint
    IN  IF r.method \notin {"POST", "PUT"} \/ e = NoEndpoint \/ e.crud = <<>> THEN {}
        ELSE {Finding("error", "fields-valid", screen, <<r.method, r.path, f>>) : f \in r.fields \ Allowed(r.method, e.crud)}

ParamsMatch(screen, r, apis) ==
    LET e == Match(r, apis).endpoint
    IN  IF e = NoEndpoint \/ e.params = {} THEN {}
        ELSE {Finding("warning", "params-match", screen, <<r.method, r.path, p>>) :
                p \in r.params \ (e.params \cup {"page", "pageSize"})}

\* A role that may see a screen and not use its endpoints; policies nobody defined are passed over.
Accessible(app, role, screens) == IF "*" \in app.access[role] THEN screens ELSE app.access[role] \cap screens
PermissionsConsistent(app, screens, apis) ==
    LET policies == PoliciesOf(apis)
        denied(role, r) ==
            LET e == Match(r, apis).endpoint
            IN  /\ e # NoEndpoint
                /\ e.policy \notin {Unset, "public", "authenticated"} /\ e.policy \in DOMAIN policies
                /\ role \notin policies[e.policy]
    IN  IF app = Missing THEN {}
        ELSE UNION {UNION {{Finding("warning", "permissions-consistent", s, <<role, r.method, r.path>>) :
                              r \in {q \in References(screens[s]) : denied(role, q)}} :
                      s \in Accessible(app, role, DOMAIN screens)} : role \in DOMAIN app.access}

\* runContract.
Findings(app, screens, apis) ==
    UNION {UNION {EndpointsExist(s, r, apis) \cup FieldsValid(s, r, apis) \cup ParamsMatch(s, r, apis) :
                    r \in References(screens[s])} : s \in DOMAIN screens}
      \cup PermissionsConsistent(app, screens, apis)
      \cup {Finding("warning", "contract", Unset, <<>>) : x \in
              {y \in {0} : ~HasBaseUrl /\ \E s \in DOMAIN screens : \E r \in References(screens[s]) :
                             r.url.host = "absolute" /\ "*" \notin ToSet(r.url.path)}}
Valid(findings) == \A f \in findings : f.level # "error"
-----------------------------------------------------------------------------
(* The command *)

NoScreens == [s \in {} |-> Missing]
NotRun == [pc |-> "idle", app |-> Missing, left |-> <<>>, screens |-> NoScreens, apis |-> <<>>,
           read |-> [id \in {} |-> 0], found |-> {}, exit |-> Unset, quiet |-> TRUE, whole |-> TRUE]
Unheard == UNCHANGED <<at, up, answer, answers>>

\* The app, and from it the screens that are read after it, the login screen among them.
LoadApp ==
    /\ check.pc = "idle"
    /\ \/ /\ "app" \in Unreadable
          /\ check' = [check EXCEPT !.pc = "done", !.exit = "failed"]
       \/ LET app == Doc("app")
              listed == IF app = Missing THEN <<>> ELSE app.screens
              login == IF app = Missing \/ app.login \in ToSet(listed) \cup {Unset} THEN <<>> ELSE <<app.login>>
          IN  check' = [check EXCEPT !.pc = "loading", !.app = app, !.left = listed \o login \o ApiIds,
                                     !.read = [id \in {"app"} |-> at["app"]]]
    /\ Unheard

\* The next document. One that is not there or cannot be read is skipped.
LoadNext ==
    /\ check.pc = "loading" /\ check.left # <<>>
    /\ LET id == Head(check.left)
           rest == [check EXCEPT !.left = Tail(@)]
           known == id \in ScreenIds \cup Apis
       IN  \/ /\ ~known \/ id \in Unreadable \/ Doc(id) = Missing
              /\ check' = [rest EXCEPT !.whole = FALSE]
           \/ /\ known /\ Doc(id) # Missing
              /\ LET read == [rest EXCEPT !.read = [i \in DOMAIN @ \cup {id} |-> IF i = id THEN at[id] ELSE @[i]]]
                 IN  check' = IF id \in Apis THEN [read EXCEPT !.apis = Append(@, [id |-> id, doc |-> Doc(id)])]
                              ELSE [read EXCEPT !.screens = [s \in DOMAIN @ \cup {id} |-> IF s = id THEN Doc(id) ELSE @[s]]]
    /\ Unheard

\* Without any API the command fails; otherwise it ends with what the rules say.
RunContract ==
    /\ check.pc = "loading" /\ check.left = <<>>
    /\ LET found == Findings(check.app, check.screens, check.apis)
       IN  check' = IF check.apis = <<>> THEN [check EXCEPT !.pc = "done", !.exit = "failed"]
                    ELSE [check EXCEPT !.pc = "done", !.found = found, !.exit = IF Valid(found) THEN "valid" ELSE "invalid"]
    /\ Unheard

\* An author saves the next version of a document.
SaveDocument(id) ==
    /\ at[id] < Versions(id)
    /\ at' = [at EXCEPT ![id] = @ + 1]
    /\ check' = [check EXCEPT !.quiet = @ /\ check.pc # "loading"]
    /\ UNCHANGED <<up, answer, answers>>
-----------------------------------------------------------------------------
(* The servers *)

\* The routes of a server, in the order in which they are registered: login, catalogs, the
\* routes of specs, endpoints.
Route(kind, method, path, entry) == [kind |-> kind, method |-> method, path |-> path, entry |-> entry]
Routes(id, api) ==
    (IF api.provider THEN <<Route("builtin", "POST", <<"api", "auth", "login">>, NoEndpoint),
                            Route("builtin", "POST", <<"api", "auth", "refresh">>, NoEndpoint)>> ELSE <<>>)
      \o [i \in 1 .. Cardinality(api.catalogs) |->
            Route("catalog", "GET", <<"api", "catalogs", SetToSeq(api.catalogs)[i]>>, NoEndpoint)]
      \o <<Route("builtin", "GET", <<"api", "app", ":id">>, NoEndpoint),
           Route("builtin", "GET", <<"api", "screens", ":id">>, NoEndpoint)>>
      \o LET all == ApiEntries(id, api)
         IN  [i \in DOMAIN all |-> Route("endpoint", all[i].method, all[i].path, all[i])]

\* How Express matches: a parameter is any segment.
Fits(route, method, path) ==
    /\ route.method = method /\ Len(route.path) = Len(path)
    /\ \A i \in DOMAIN path : route.path[i] = path[i] \/ (route.path[i] \in Parameter /\ path[i] # "")
Serving(id, api, method, path) ==
    LET routes == Routes(id, api)
    IN  {routes[i] : i \in {j \in DOMAIN routes : /\ Fits(routes[j], method, path)
                                                  /\ \A k \in 1 .. j - 1 : ~Fits(routes[k], method, path)}}

\* createAuthMiddleware and evaluatePolicy, for a user with a role.
Refused(api, policy, role) ==
    /\ api.auth /\ policy \notin {Unset, "public", "authenticated"}
    /\ policy \notin DOMAIN api.policies \/ role \notin api.policies[policy]

\* registerEndpoint: what a request is answered, and which fields of its body are dropped.
Respond(id, api, role, r, path) ==
    LET routes == Serving(id, api, r.sent, path)
    IN  IF routes = {} THEN [status |-> 404, dropped |-> {}]
        ELSE LET route == CHOOSE x \in routes : TRUE
                 e == route.entry
                 writes == route.kind = "endpoint" /\ e.crud # <<>> /\ r.sent \in {"POST", "PUT"}
                 dropped == IF writes THEN r.fields \ Allowed(r.sent, e.crud) ELSE {}
             IN  IF route.kind = "endpoint" /\ Refused(api, e.policy, role) THEN [status |-> 403, dropped |-> {}]
                 ELSE [status |-> IF writes /\ dropped = r.fields THEN 400 ELSE 200, dropped |-> dropped]

\* A bound: servers are started, and users come, once the command has ended; the command
\* does not see them, and they see of it nothing.
StartServer(id) ==
    /\ check.pc = "done" /\ Doc(id) # Missing
    /\ up' = [up EXCEPT ![id] = at[id]]
    /\ UNCHANGED <<at, check, answer, answers>>

\* A user of a screen that is stored sends one of its requests to a server.
Send(s, id) ==
    /\ check.pc = "done" /\ up[id] # 0 /\ Doc(s) # Missing /\ Doc("app") # Missing /\ answers < MaxAnswers
    /\ \E r \in References(Doc(s)), role \in DOMAIN Doc("app").access, shown \in Shown :
         LET path == [i \in DOMAIN r.url.path |-> IF r.url.path[i] = "*" THEN shown ELSE r.url.path[i]]
         IN  answer' = [screen |-> s, version |-> at[s], app |-> at["app"], role |-> role, to |-> id, on |-> up[id], ref |-> r]
                         @@ Respond(id, ApiOf[id][up[id]], role, r, path)
    /\ answers' = answers + 1
    /\ UNCHANGED <<at, check, up>>
-----------------------------------------------------------------------------
NoAnswer == [screen |-> Unset]
ContractInit ==
    /\ at = [id \in {"app"} \cup ScreenIds \cup Apis |-> 1]
    /\ check = NotRun
    /\ up = [id \in Apis |-> 0]
    /\ answer = NoAnswer /\ answers = 0

ContractNext ==
    \/ LoadApp \/ LoadNext \/ RunContract
    \/ \E id \in DOMAIN at : SaveDocument(id)
    \/ \E id \in Apis : StartServer(id)
    \/ \E s \in ScreenIds, id \in Apis : Send(s, id)
-----------------------------------------------------------------------------
\* What was answered is about the versions the command read.
Read(id, version) == id \in DOMAIN check.read /\ check.read[id] = version
About ==
    /\ check.exit = "valid" /\ answer # NoAnswer
    /\ Read(answer.screen, answer.version) /\ Read(answer.to, answer.on)

\* A request of a screen that was found valid is served by the server of the API that has
\* its endpoint, and keeps all it sends; if there was no warning about its screen, it is not
\* denied to those who may see the screen.
AcceptedServed ==
    About /\ answer.ref.sent = answer.ref.method =>
        LET m == Match(answer.ref, check.apis) IN
        m.how = "exact" /\ m.endpoint.source = answer.to =>
            /\ answer.status \notin {400, 404} /\ answer.dropped = {}
            /\ (/\ Read("app", answer.app) /\ answer.screen \in Accessible(check.app, answer.role, ScreenIds)
                /\ \A f \in check.found : f.level = "warning" => f.screen # answer.screen)
               => answer.status # 403

\* What the command says is so of the documents that are stored, if none was saved while it
\* read them and it could read them all.
VerdictCurrent ==
    check.exit \in {"valid", "invalid"} /\ check.quiet /\ check.whole =>
        \/ \E id \in DOMAIN check.read : check.read[id] # at[id]
        \/ check.found = Findings(Doc("app"), [s \in DOMAIN check.read \cap ScreenIds |-> Doc(s)],
                                  [i \in DOMAIN ApiIds |-> [id |-> ApiIds[i], doc |-> Doc(ApiIds[i])]])

\* Every request of a screen that was found valid is served, those of forms whose method is
\* not written and of catalogs and builtin routes too.
EverythingServed ==
    About /\ (Match(answer.ref, check.apis).how = "exact" => Match(answer.ref, check.apis).endpoint.source = answer.to) =>
        answer.status # 404
=============================================================================
