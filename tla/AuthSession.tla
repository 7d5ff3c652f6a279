----------------------------- MODULE AuthSession -----------------------------
(***************************************************************************)
(* The auth engine of core/src/auth (engine, refresh-engine, persistence,  *)
(* cross-tab) as MythikApp uses it: one engine per mounted app, all of one *)
(* origin sharing localStorage and a BroadcastChannel, against AuthServer. *)
(* JavaScript runs a handler to its next await without interruption: an    *)
(* action is such a piece, and the answer of a request is one of its own.  *)
(***************************************************************************)
EXTENDS AuthServer

CONSTANTS Engine,    \* the engines that may be created, one per tab or remount
          MaxCalls   \* bound: calls of login, logout and refreshSession

ASSUME CallAssumption == MaxCalls \in Nat

VARIABLES engine,   \* the closure and the auth part of the store of each engine
          pending,  \* the requests each engine waits for
          stored,   \* the refresh token in localStorage
          inbox,    \* the events each engine has not handled yet
          calls     \* calls so far

clientVars == <<engine, pending, stored, inbox, calls>>
vars == <<serverVars, clientVars>>

Absent == [phase |-> "absent", access |-> NoToken, refresh |-> NoToken, authed |-> FALSE,
           user |-> "none", loading |-> FALSE, mutex |-> FALSE, timer |-> FALSE,
           tokenRef |-> NoToken]

Live(e) == engine[e].phase = "live"
Signed(e) == engine[e].access # NoToken

\* A request: sent, checked (the server has looked the token up), and then its
\* answer ok or denied.  awaited: somebody other than the timer waits for it.
Idle == [stage |-> "idle", token |-> NoToken, got |-> NoToken, awaited |-> FALSE]
Sent(token, awaited) == [stage |-> "sent", token |-> token, got |-> NoToken, awaited |-> awaited]
\* An engine has one slot for a login and a logout, and two for refreshes: the mutex
\* makes do with one, but destroy forgets the refresh in flight.
RefreshSlot == {"refresh1", "refresh2"}
Call == {"login", "logout"} \cup RefreshSlot
Busy(e, call) == pending[e][call].stage # "idle"
\* Bound: a request is sent while the server can still issue a token for it.
Room == Issued + Cardinality({q \in Engine \X (Call \ {"logout"}) :
                   pending[q[1]][q[2]].stage \in {"sent", "checked"}}) < MaxIssued
Put(e, call, request) == pending' = [pending EXCEPT ![e][call] = request]

TypeOK ==
    /\ ServerTypeOK
    /\ engine \in [Engine ->
         [phase : {"absent", "live", "destroyed", "orphaned"}, access : {NoToken} \cup Token,
          refresh : {NoToken} \cup Token, authed : BOOLEAN, user : Account \cup {"none"},
          loading : BOOLEAN, mutex : BOOLEAN, timer : BOOLEAN, tokenRef : {NoToken} \cup Token]]
    /\ pending \in [Engine -> [Call ->
         [stage : {"idle", "sent", "checked", "ok", "denied"}, token : {NoToken} \cup Token,
          got : {NoToken} \cup Token, awaited : BOOLEAN]]]
    /\ stored \in {NoToken} \cup Token
    /\ inbox \in [Engine -> Seq({"SIGNED_OUT", "TOKEN_REFRESHED", "SESSION_EXPIRED"})]
    /\ calls \in 0..MaxCalls

Init ==
    /\ ServerInit
    /\ engine = [e \in Engine |-> Absent]
    /\ pending = [e \in Engine |-> [c \in Call |-> Idle]]
    /\ stored = NoToken
    /\ inbox = [e \in Engine |-> <<>>]
    /\ calls = 0
-----------------------------------------------------------------------------
(* The pieces the handlers are made of, as operators on an engine's record. *)

ClearTokens(s) == [s EXCEPT !.access = NoToken, !.refresh = NoToken]

\* store.set: a listener hears of a change of value only, and MythikApp's copies
\* the access token for createAuthSpecStore until the app is unmounted.
SetAuthenticated(s, value) ==
    IF s.authed = value THEN s
    ELSE [s EXCEPT !.authed = value,
                   !.tokenRef = IF s.phase = "live" THEN s.access ELSE @]

\* Fault: the user keeps being shown as signed in.
ClearAuthStateLate(s) == [s EXCEPT !.user = "none", !.loading = FALSE]

ClearAuthState(s) == [SetAuthenticated(s, FALSE) EXCEPT !.user = "none", !.loading = FALSE]

SignOut(s) == ClearAuthState(ClearTokens(s))

\* Fault: the refresh token of before is preferred to the one of the result.
ApplyAuthResultOldToken(s, token) ==
    [SetAuthenticated([s EXCEPT !.access = token,
                                !.refresh = IF @ = NoToken THEN token ELSE @], TRUE)
        EXCEPT !.user = account[token], !.timer = TRUE]

\* The part of applyAuthResult that is the engine's own; the caller persists.
ApplyAuthResult(s, token) ==
    [SetAuthenticated([s EXCEPT !.access = token, !.refresh = token], TRUE)
        EXCEPT !.user = account[token], !.timer = TRUE]

\* broadcast: every other engine with an open channel gets the event; a destroyed
\* one has closed its own.
Broadcast(e, event) ==
    inbox' = [x \in Engine |-> IF x # e /\ Live(x) /\ Live(e)
                               THEN Append(inbox[x], event) ELSE inbox[x]]

NoBroadcast == UNCHANGED inbox

\* A call of the application on an engine it has not unmounted.
Calling(e) ==
    /\ Live(e)
    /\ calls < MaxCalls
    /\ calls' = calls + 1
-----------------------------------------------------------------------------
(* requestRefresh and doRefresh *)

\* doRefresh up to its await.
SendRefresh(e, s, awaited) ==
    /\ Room
    /\ \E slot \in RefreshSlot :
         /\ ~Busy(e, slot) /\ (slot = "refresh2" => Busy(e, "refresh1"))
         /\ Put(e, slot, Sent(s.refresh, awaited))
    /\ engine' = [engine EXCEPT ![e] = [s EXCEPT !.mutex = TRUE]]
    /\ NoBroadcast
    /\ UNCHANGED stored

\* With no refresh token doRefresh fails before anything is sent.  Of a failure only
\* refreshSession takes notice.
RefreshWithoutToken(e, s, awaited) ==
    /\ UNCHANGED pending
    /\ IF awaited
       THEN /\ engine' = [engine EXCEPT ![e] = SignOut(s)]
            /\ stored' = NoToken
            /\ Broadcast(e, "SESSION_EXPIRED")
       ELSE /\ engine' = [engine EXCEPT ![e] = s]
            /\ NoBroadcast
            /\ UNCHANGED stored

\* Waiting for the refresh in flight.
JoinRefresh(e, s, awaited) ==
    /\ engine' = [engine EXCEPT ![e] = s]
    /\ pending' = [pending EXCEPT ![e] = [c \in Call |->
                     IF c \in RefreshSlot /\ Busy(e, c)
                     THEN [pending[e][c] EXCEPT !.awaited = @ \/ awaited]
                     ELSE pending[e][c]]]
    /\ NoBroadcast
    /\ UNCHANGED stored

\* requestRefresh, with s the engine as it is then.
RequestRefresh(e, s, awaited) ==
    \/ s.mutex /\ JoinRefresh(e, s, awaited)
    \/ ~s.mutex /\ s.refresh # NoToken /\ SendRefresh(e, s, awaited)
    \/ ~s.mutex /\ s.refresh = NoToken /\ RefreshWithoutToken(e, s, awaited)

\* refreshSession: an action of the app, a 401 answer, or the tab getting the focus.
RefreshSession(e) ==
    /\ Calling(e)
    /\ RequestRefresh(e, engine[e], TRUE)
    /\ UNCHANGED serverVars

\* The timer of scheduleProactive fires, also after destroy if it was set since.
ProactiveRefresh(e) ==
    /\ engine[e].timer
    /\ RequestRefresh(e, [engine[e] EXCEPT !.timer = FALSE], FALSE)
    /\ UNCHANGED <<serverVars, calls>>

\* doRefresh succeeds: the result is applied before anybody waiting goes on.
RefreshSucceeded(e, slot) ==
    LET request == pending[e][slot] IN
    /\ request.stage = "ok"
    /\ engine' = [engine EXCEPT ![e] =
                    [ApplyAuthResult(@, request.got) EXCEPT !.mutex = FALSE]]
    /\ stored' = request.got
    /\ Put(e, slot, Idle)
    /\ IF request.awaited THEN Broadcast(e, "TOKEN_REFRESHED") ELSE NoBroadcast
    /\ UNCHANGED <<serverVars, calls>>

\* Fault: the mutex is released on success only.
RefreshFailedKeepsMutex(e, slot) ==
    LET request == pending[e][slot] IN
    /\ \/ request.stage = "denied" /\ UNCHANGED serverVars
       \/ request.stage = "ok" /\ LoseAnswer
    /\ Put(e, slot, Idle)
    /\ UNCHANGED <<engine, stored, inbox, calls>>

\* doRefresh throws: the server refused, or the answer is lost.  refreshSession ends
\* the session; the timer's refresh leaves everything as it is.
RefreshFailed(e, slot) ==
    LET request == pending[e][slot] IN
    /\ \/ request.stage = "denied" /\ UNCHANGED serverVars
       \/ request.stage = "ok" /\ LoseAnswer
    /\ Put(e, slot, Idle)
    /\ IF request.awaited
       THEN /\ engine' = [engine EXCEPT ![e] = [SignOut(@) EXCEPT !.mutex = FALSE]]
            /\ stored' = NoToken
            /\ Broadcast(e, "SESSION_EXPIRED")
       ELSE /\ engine' = [engine EXCEPT ![e].mutex = FALSE]
            /\ NoBroadcast
            /\ UNCHANGED stored
    /\ UNCHANGED calls
-----------------------------------------------------------------------------
(* The engine's operations *)

\* createAuthEngine and mount: a persisted token is refreshed before the app is
\* shown as signed in.
Mount(e) ==
    /\ engine[e] = Absent
    /\ LET s == [Absent EXCEPT !.phase = "live", !.refresh = stored]
       IN  IF stored # NoToken
           THEN RequestRefresh(e, s, TRUE)
           ELSE /\ engine' = [engine EXCEPT ![e] = s]
                /\ UNCHANGED <<pending, stored, inbox>>
    /\ UNCHANGED <<serverVars, calls>>

\* login up to its await.
Login(e) ==
    /\ Calling(e)
    /\ ~Busy(e, "login") /\ Room
    /\ engine' = [engine EXCEPT ![e].loading = TRUE]
    /\ Put(e, "login", Sent(NoToken, TRUE))
    /\ UNCHANGED <<serverVars, stored, inbox>>

\* The other engines are sent SIGNED_IN, which their handler has no branch for; it
\* is left out.
LoginSucceeded(e) ==
    LET request == pending[e]["login"] IN
    /\ request.stage = "ok"
    /\ engine' = [engine EXCEPT ![e] =
                    [ApplyAuthResult(@, request.got) EXCEPT !.loading = FALSE]]
    /\ stored' = request.got
    /\ Put(e, "login", Idle)
    /\ NoBroadcast
    /\ UNCHANGED <<serverVars, calls>>

\* A failed login signs out here, whoever was signed in; what is persisted, the
\* user shown and the timer stay.
LoginFailed(e) ==
    LET request == pending[e]["login"] IN
    /\ \/ request.stage = "denied" /\ UNCHANGED serverVars
       \/ request.stage = "ok" /\ LoseAnswer
    /\ engine' = [engine EXCEPT ![e] =
                    [SetAuthenticated(ClearTokens(@), FALSE) EXCEPT !.loading = FALSE]]
    /\ Put(e, "login", Idle)
    /\ UNCHANGED <<stored, inbox, calls>>

\* logout up to the await of the provider, which tells the server nothing it keeps.
Logout(e) ==
    /\ Calling(e)
    /\ ~Busy(e, "logout")
    /\ engine' = [engine EXCEPT ![e].timer = FALSE]
    /\ Put(e, "logout", Sent(NoToken, TRUE))
    /\ UNCHANGED <<serverVars, stored, inbox>>

\* The rest of logout, whatever the provider answered.
LogoutFinishes(e) ==
    /\ Busy(e, "logout")
    /\ engine' = [engine EXCEPT ![e] = SignOut(@)]
    /\ stored' = NoToken
    /\ Put(e, "logout", Idle)
    /\ Broadcast(e, "SIGNED_OUT")
    /\ UNCHANGED <<serverVars, calls>>

\* The next event of another engine is handled.
HandleEvent(e) ==
    /\ Live(e)
    /\ inbox[e] # <<>>
    /\ inbox' = [inbox EXCEPT ![e] = Tail(@)]
    /\ engine' = [engine EXCEPT ![e] =
         IF Head(inbox[e]) # "TOKEN_REFRESHED" THEN [SignOut(@) EXCEPT !.timer = FALSE]
         ELSE [@ EXCEPT !.refresh = IF stored # NoToken THEN stored ELSE engine[e].refresh]]
    /\ UNCHANGED <<serverVars, pending, stored, calls>>

\* The app is unmounted: MythikApp's listener is removed, then destroy runs.  The
\* requests in flight are not cancelled: orphaned is an engine that has some.
Destroy(e) ==
    /\ Live(e)
    /\ engine' = [engine EXCEPT ![e] =
         [ClearTokens(@) EXCEPT !.phase = IF \E c \in Call : Busy(e, c) THEN "orphaned"
                                                                       ELSE "destroyed",
                                !.timer = FALSE, !.mutex = FALSE]]
    /\ inbox' = [inbox EXCEPT ![e] = <<>>]
    /\ UNCHANGED <<serverVars, pending, stored, calls>>
-----------------------------------------------------------------------------
(* The server at work on the requests *)

AnswerLogin(e) ==
    LET request == pending[e]["login"] IN
    /\ request.stage = "sent"
    /\ \/ /\ \E who \in Account : ServeLogin(who)
          /\ Put(e, "login", [request EXCEPT !.stage = "ok", !.got = Issued + 1])
       \/ /\ UNCHANGED serverVars
          /\ Put(e, "login", [request EXCEPT !.stage = "denied"])
    /\ UNCHANGED <<engine, stored, inbox, calls>>

\* refresh up to its first await: getUsername.
CheckRefresh(e, slot) ==
    LET request == pending[e][slot] IN
    /\ request.stage = "sent"
    /\ Put(e, slot, [request EXCEPT !.stage = IF request.token \in live
                                                   THEN "checked" ELSE "denied"])
    /\ UNCHANGED <<serverVars, engine, stored, inbox, calls>>

AnswerRefresh(e, slot) ==
    LET request == pending[e][slot] IN
    /\ request.stage = "checked"
    /\ \/ /\ Rotate(request.token)
          /\ Put(e, slot, [request EXCEPT !.stage = "ok", !.got = Issued + 1])
       \/ /\ RefuseInactive(request.token)
          /\ Put(e, slot, [request EXCEPT !.stage = "denied"])
    /\ UNCHANGED <<engine, stored, inbox, calls>>

ServerFault == (Restart \/ Expire \/ Deactivate) /\ UNCHANGED clientVars

Answer(e) == AnswerLogin(e) \/ \E slot \in RefreshSlot : CheckRefresh(e, slot) \/ AnswerRefresh(e, slot)
Continue(e) ==
    \/ \E slot \in RefreshSlot : RefreshSucceeded(e, slot) \/ RefreshFailed(e, slot)
    \/ LoginSucceeded(e) \/ LoginFailed(e) \/ LogoutFinishes(e)

Next ==
    \/ \E e \in Engine :
         \/ Mount(e) \/ Login(e) \/ Logout(e) \/ RefreshSession(e) \/ ProactiveRefresh(e)
         \/ Answer(e) \/ Continue(e) \/ HandleEvent(e) \/ Destroy(e)
    \/ ServerFault

Spec == Init /\ [][Next]_vars

\* The server answers or the request fails, and the browser runs what waits for it.
FairSpec == Spec /\ \A e \in Engine : WF_vars(Answer(e)) /\ WF_vars(Continue(e))
-----------------------------------------------------------------------------
(* What the engines promise *)

\* What the store shows is what the closure holds: an app that is not unmounted is
\* shown as signed in exactly while it has an access token, and the user shown is the
\* one the token was issued to.
SessionShown ==
    \A e \in Engine : Live(e) =>
        /\ engine[e].authed <=> Signed(e)
        /\ Signed(e) => engine[e].user = account[engine[e].access]

\* One refresh at a time: whoever asks for a refresh, a live engine has none in flight
\* or just one, and its mutex is held exactly while it has one.
OneRefresh ==
    \A e \in Engine : Live(e) =>
        /\ ~(Busy(e, "refresh1") /\ Busy(e, "refresh2"))
        /\ engine[e].mutex <=> \E slot \in RefreshSlot : Busy(e, slot)

\* Whatever is logged out, expires or is restored elsewhere: once an engine has heard
\* all events, being signed in means that the session is persisted, so a reload keeps it,
\* as long as no engine was destroyed in the middle of a call: that one tells nobody.
AuthedIsPersisted ==
    (\A x \in Engine : engine[x].phase # "orphaned") =>
    \A e \in Engine : Live(e) /\ Signed(e) /\ inbox[e] = <<>> => stored # NoToken

\* What the user sees, what is under way, what a reload would find, and that a refresh
\* token buys one session however the requests of the tabs overlap, together.
SessionConsistent == SessionShown /\ OneRefresh /\ AuthedIsPersisted /\ SpentStaysSpent

\* An engine that has the browser for itself loses its session to a fault only: the
\* refresh token it holds and has persisted is one the server accepts, unless its
\* refresh is just replacing it, and the server refuses none of its refreshes.
LoneSessionLasts ==
    \A e \in Engine :
        (faults = 0 /\ \A x \in Engine \ {e} : engine[x] = Absent) =>
            /\ \A slot \in RefreshSlot : pending[e][slot].stage # "denied"
            /\ Live(e) /\ Signed(e) /\ (\A slot \in RefreshSlot : pending[e][slot].stage # "ok") =>
                 engine[e].refresh \in live /\ stored = engine[e].refresh

\* A call ends: the loading flag of a login is reset and the mutex of a refresh is
\* released, so neither the form nor later refreshes wait for ever.
CallsSettle ==
    \A e \in Engine : /\ engine[e].loading ~> ~engine[e].loading
                      /\ engine[e].mutex ~> ~engine[e].mutex

\* What reference-doc.md says of a logout (logout in one tab = logout in all tabs): an
\* engine whose session has ended, so that it holds no refresh token, is signed in
\* again by a login only, not by the answer to a refresh sent before.
LogoutLasts ==
    [][\A e \in Engine :
         Live(e) /\ engine[e].refresh = NoToken /\ Signed(e)' =>
            pending[e]["login"] # pending'[e]["login"]]_vars

\* What MythikApp says of createAuthSpecStore: the token its requests carry is the
\* engine's, after a login as after a refresh.
TokenRefSynced == \A e \in Engine : Live(e) => engine[e].tokenRef = engine[e].access
=============================================================================
