----------------------------- MODULE AppScreens -----------------------------
(***************************************************************************)
(* The shell of an application: MythikApp, which joins the app engine      *)
(* (core/src/app/app-engine.ts) and the auth engine, and the screen-outlet *)
(* that loads and shows the current screen.  What the auth engine does is  *)
(* in AuthSession; here a user comes, changes and goes, and the engine     *)
(* tells the store.  The navigation guard is in NavigationGuard.           *)
(*                                                                         *)
(* An event and what follows it before the next task of the browser (store *)
(* listeners, promise continuations, the effects of React) is one step.    *)
(***************************************************************************)
EXTENDS Integers, Sequences, SequencesExt, FiniteSets

CONSTANTS
    Screen, InitialScreen, LoginScreen,
    Menu,          \* the screens of the menu in order
    Protected,     \* protectedScreens, with "*" for all
    RoleAccess,    \* roles to sets of screens, or NoMap
    ScreenRoles,   \* the roles of each screen
    Policy,        \* "preserve", "reset" or "reload"
    Parent,        \* the parent of each screen, or Nowhere
    BreadcrumbMode,
    User,          \* [role |-> r, roles |-> set of roles or NoRoles]
    MaxHistory, MaxLoads, MaxTokens    \* bounds

VARIABLES
    user,        \* whose session it is, or Nobody
    current,     \* /navigation/currentScreen
    history,     \* /navigation/history
    breadcrumb,  \* /navigation/breadcrumb
    menu,        \* /app/screens
    content,     \* /screens/{id}: "none", "used" or "reload"
    life,        \* "restoring", "mounted", "unmounted" (to be cleaned up) or "gone"
    listening,   \* whether the subscriptions of MythikApp are in place
    outlet,      \* what screen-outlet shows: [status, screen]
    loads,       \* calls of getScreenSpec under way: [screen, live]
    passed,      \* the screens that were loading when the current one was asked for
    cached,      \* the screens in specCache
    token,       \* the access token of the auth engine, 0 for none
    storeToken   \* the one createAuthSpecStore sends

appVars == <<user, current, history, breadcrumb, menu, content, life, listening,
             outlet, loads, passed, cached, token, storeToken>>
sessionVars == <<user, menu, token, storeToken>>
placeVars == <<current, history, breadcrumb, content>>

Nobody == [role |-> "none", roles |-> {"none"}]
ASSUME NobodyIsNone == Nobody \notin User
NoRoles == {"no roles"}
NoMap == <<>>
Nowhere == "nowhere"
LoadingOutlet == [status |-> "loading", screen |-> Nowhere]
Showing(status, screen) == [status |-> status, screen |-> screen]
-----------------------------------------------------------------------------
(* Access and the menu *)

CanAccess(screen, role) ==
    /\ screen \in Screen
    /\ IF RoleAccess # NoMap
       THEN role \in DOMAIN RoleAccess /\ RoleAccess[role] \cap {"*", screen} # {}
       ELSE ScreenRoles[screen] \cap {"*", role} # {}

RolesOf(u) == IF u.roles = NoRoles THEN {u.role} ELSE u.roles
Accessible(screen, u) == \E r \in RolesOf(u) : CanAccess(screen, r)

\* refreshScreenList; before a login it has all screens.
MenuFor(u) ==
    SelectSeq(Menu, LAMBDA s : /\ s \in Screen /\ s # LoginScreen
                               /\ u = Nobody \/ Accessible(s, u))

\* The listener of MythikApp: the menu follows every change below /auth/user.
MenuAfter(u) == IF listening THEN MenuFor(u) ELSE menu
-----------------------------------------------------------------------------
(* The outlet, there while someone is signed in *)

OutletShown(u, l) == l = "mounted" /\ u # Nobody

outletVars == <<outlet, loads, passed>>
Answered(i) == [n \in 1 .. Len(loads) - 1 |-> IF n < i THEN loads[n] ELSE loads[n + 1]]
\* Fault: the effect's cleanup does not cancel.
KeptLive == loads
Dropped == [n \in DOMAIN loads |-> [loads[n] EXCEPT !.live = FALSE]]

\* loadScreen: what the cache has is shown at once.
LoadScreen(screen, running) ==
    IF screen \in cached
    THEN outlet' = Showing("ready", screen) /\ loads' = running
    ELSE /\ Len(running) < MaxLoads
         /\ outlet' = LoadingOutlet /\ loads' = Append(running, [screen |-> screen, live |-> TRUE])

\* The screens whose answers are still to be shown.
ScreensAsked == {loads[i].screen : i \in {n \in DOMAIN loads : loads[n].live}}

\* What the outlet does when user, current and life have their next values: its effects
\* run when it appears, its listener when the screen is another one; when it disappears
\* the answers under way no longer reach it (and the login screen it has just asked for
\* goes to the cache alone).
OutletFollows ==
    LET was == OutletShown(user, life)
        is == OutletShown(user', life')
    IN  CASE ~is -> outlet' = LoadingOutlet /\ loads' = Dropped /\ passed' = {}
          [] is /\ ~was -> LoadScreen(current', Dropped) /\ passed' = {}
          [] is /\ was /\ current' # current -> LoadScreen(current', loads) /\ passed' = ScreensAsked
          [] OTHER -> UNCHANGED outletVars

Settling == \A i \in DOMAIN loads : ~loads[i].live
-----------------------------------------------------------------------------
(* Navigation *)

\* computeBreadcrumb.  Mode history keeps the first occurrence of a screen (its comment
\* says the last: BreadcrumbEndsHere).
Ancestors(screen) ==
    LET up[n \in 0 .. Cardinality(Screen)] ==
            IF n = 0 THEN <<screen>>
            ELSE LET above == Parent[Head(up[n - 1])] IN
                 IF above = Nowhere \/ above \in ToSet(up[n - 1]) THEN up[n - 1] ELSE <<above>> \o up[n - 1]
    IN  up[Cardinality(Screen)]
Firsts(h) ==
    LET seen[n \in 0 .. Len(h)] ==
            IF n = 0 THEN <<>>
            ELSE IF h[n] \in ToSet(seen[n - 1]) THEN seen[n - 1] ELSE Append(seen[n - 1], h[n])
    IN  seen[Len(h)]
Crumbs(h) ==
    CASE BreadcrumbMode = "none" -> <<>>
      [] BreadcrumbMode = "hierarchy" -> Ancestors(Last(h))
      [] OTHER -> Firsts(h)

Stay == UNCHANGED placeVars

\* The screen is entered: its state by its policy, then the paths below /navigation.
Enter(screen) ==
    /\ Len(history) < MaxHistory
    /\ content' = IF Policy[screen] = "preserve" THEN content
                  ELSE [content EXCEPT ![screen] = IF Policy[screen] = "reset" THEN "none" ELSE "reload"]
    /\ current' = screen
    /\ history' = Append(history, screen)
    /\ breadcrumb' = Crumbs(history')

\* The redirection to the login screen; no policy, parameters stay.
ToLogin ==
    /\ Len(history) < MaxHistory
    /\ current' = LoginScreen
    /\ history' = Append(history, LoginScreen)
    /\ breadcrumb' = Crumbs(history')
    /\ UNCHANGED content

IsProtected(screen) == screen # LoginScreen /\ Protected \cap {"*", screen} # {}

\* navigate, for the user u.
NavigateAs(u, screen) ==
    IF ~IsProtected(screen) \/ (u # Nobody /\ Accessible(screen, u)) THEN Enter(screen)
    ELSE IF u # Nobody THEN Stay
    ELSE ToLogin

\* Where a login or a restored session leads away from the login screen.
LeaveLogin(u) ==
    IF current # LoginScreen THEN Stay
    ELSE IF CanAccess(InitialScreen, u.role) THEN NavigateAs(u, InitialScreen)
    ELSE IF MenuAfter(u) # <<>> THEN NavigateAs(u, Head(MenuAfter(u)))
    ELSE Stay

AppInit ==
    LET first == IF IsProtected(InitialScreen) THEN LoginScreen ELSE InitialScreen IN
    /\ user = Nobody /\ current = first /\ history = <<first>> /\ breadcrumb = Crumbs(<<first>>)
    /\ menu = MenuFor(Nobody) /\ content = [s \in Screen |-> "none"]
    /\ life = "restoring" /\ listening = TRUE
    /\ outlet = LoadingOutlet /\ loads = <<>> /\ passed = {} /\ cached = {} /\ token = 0 /\ storeToken = 0

Navigate(screen) ==
    /\ OutletShown(user, life)
    /\ NavigateAs(user, screen)
    /\ UNCHANGED <<sessionVars, life, listening, cached>>
    /\ OutletFollows

GoBack ==
    /\ OutletShown(user, life)
    /\ Len(history) > 1
    /\ history' = Front(history) /\ current' = Last(history') /\ breadcrumb' = Crumbs(history')
    /\ UNCHANGED <<sessionVars, content, life, listening, cached>>
    /\ OutletFollows

\* The user works on the screen.
Use ==
    /\ outlet.status = "ready" /\ life = "mounted"
    /\ content' = [content EXCEPT ![outlet.screen] = "used"]
    /\ UNCHANGED <<sessionVars, current, history, breadcrumb, life, listening, outletVars, cached>>
-----------------------------------------------------------------------------
(* The session *)

\* The token of the spec store is taken over when /auth/isAuthenticated changes.
StoreTokenAfter(u, t) == IF listening /\ (user = Nobody) # (u = Nobody) THEN t ELSE storeToken

\* The user u is in the store from now on.
Becomes(u, t) ==
    /\ user' = u /\ token' = t
    /\ menu' = MenuAfter(u) /\ storeToken' = StoreTokenAfter(u, t)

\* authEngine.mount has ended, with a session of the last visit or without.
Restored ==
    /\ life = "restoring" /\ life' = "mounted"
    /\ \/ Becomes(Nobody, 0) /\ Stay
       \/ \E u \in User : Becomes(u, 1) /\ LeaveLogin(u)
    /\ OutletFollows
    /\ UNCHANGED <<listening, cached>>

Login ==
    /\ life = "mounted" /\ user = Nobody /\ token < MaxTokens
    /\ \E u \in User : Becomes(u, token + 1) /\ LeaveLogin(u)
    /\ UNCHANGED <<life, listening, cached>>
    /\ OutletFollows

\* A refresh, which may bring other roles.
Refreshed ==
    /\ life = "mounted" /\ user # Nobody /\ token < MaxTokens
    /\ \E u \in User : Becomes(u, token + 1)
    /\ UNCHANGED <<placeVars, life, listening, outletVars, cached>>

\* The action logout, another tab's logout or an expired session: the listener, and in
\* the first case the action as well, navigates to the login screen.
SignedOut ==
    /\ life = "mounted" /\ user # Nobody
    /\ Becomes(Nobody, 0)
    /\ IF current = LoginScreen THEN Stay ELSE NavigateAs(Nobody, LoginScreen)
    /\ UNCHANGED <<life, listening, cached>>
    /\ OutletFollows
-----------------------------------------------------------------------------
(* Answers, and the end *)

\* getScreenSpec answers: an effect that is still in force shows the screen, whichever
\* is current.
Answer(i) ==
    /\ outlet' = IF loads[i].live THEN Showing("ready", loads[i].screen) ELSE outlet
    /\ loads' = Answered(i)
    /\ cached' = IF life = "gone" THEN cached ELSE cached \cup {loads[i].screen}
    /\ UNCHANGED <<sessionVars, placeVars, life, listening, passed>>

NoAnswer(i) ==
    /\ outlet' = IF loads[i].live THEN Showing("error", Nowhere) ELSE outlet
    /\ loads' = Answered(i)
    /\ UNCHANGED <<sessionVars, placeVars, life, listening, passed, cached>>

Unmount ==
    /\ life = "mounted" /\ life' = "unmounted"
    /\ UNCHANGED <<sessionVars, placeVars, listening, cached>>
    /\ OutletFollows

\* The same engines are mounted again (StrictMode): the clean-up is called off.
Remount ==
    /\ life = "unmounted" /\ life' = "mounted"
    /\ UNCHANGED <<sessionVars, placeVars, listening, cached>>
    /\ OutletFollows

\* The timer of the clean-up.
CleanUp ==
    /\ life = "unmounted" /\ life' = "gone"
    /\ listening' = FALSE /\ cached' = {}
    /\ UNCHANGED <<sessionVars, placeVars, outletVars>>

AppNext ==
    \/ \E s \in Screen : Navigate(s)
    \/ GoBack \/ Use
    \/ Restored \/ Login \/ Refreshed \/ SignedOut
    \/ \E i \in DOMAIN loads : Answer(i) \/ NoAnswer(i)
    \/ Unmount \/ Remount \/ CleanUp

AppSpec == AppInit /\ [][AppNext]_appVars
-----------------------------------------------------------------------------
\* While the application is mounted its shell is about the current user and screen: the
\* menu has the screens of the user's roles, the history ends with the current screen
\* and the breadcrumb of mode history has its screens, each once, however users come,
\* change and go, in this tab or in others, and whatever React mounts twice.
ShellTrue ==
    life = "mounted" =>
        /\ menu = MenuFor(user)
        /\ current = Last(history)
        /\ BreadcrumbMode = "history" => ToSet(breadcrumb) = ToSet(history) /\ IsInjective(breadcrumb)

\* The outlet shows the current screen, unless that is still loading or failed to load, or
\* one that was still loading when the user came to the current one and was answered
\* since; never one that was asked for by the user before, or before the outlet was
\* mounted again.
ShownIsCurrent ==
    OutletShown(user, life) =>
        /\ outlet.status = "ready" => outlet.screen \in {current} \cup passed
        /\ outlet.status = "loading" => ~Settling
        /\ Settling /\ passed = {} => outlet = Showing("ready", current) \/ outlet.status = "error"

\* "renders the active nested screen content" (docs/wiki/compiled/concept-screen-outlet.md:10-12).
ShowsTheActive ==
    OutletShown(user, life) /\ Settling =>
        outlet = Showing("ready", current) \/ outlet.status = "error"

\* The shell and its outlet are about the current user and screen.
AppShown == ShellTrue /\ ShownIsCurrent

\* "MythikApp automatically syncs the token from AuthEngine after login/refresh"
\* (MythikApp.tsx:87).
StoreTokenFollows == life = "mounted" => storeToken = token

\* The breadcrumb of mode history ends with the screen shown: "Deduplicate while
\* preserving order (last occurrence wins)" (app-engine.ts:269).
BreadcrumbEndsHere == BreadcrumbMode = "history" => Last(breadcrumb) = current

\* "State cleared" on navigating away from a screen of the policy reset
\* (docs/consumer/reference-doc.md:1685).
ResetScreensCleared ==
    \A s \in Screen \ {current} : Policy[s] = "reset" => content[s] = "none"
=============================================================================
