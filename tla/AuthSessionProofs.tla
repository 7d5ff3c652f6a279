------------------------ MODULE AuthSessionProofs ------------------------
(***************************************************************************)
(* SessionConsistent is an invariant of the auth engines for any number of *)
(* engines of one browser, of accounts, of calls and of faults: what each  *)
(* shows is what it holds, it has at most one refresh in flight, and being *)
(* signed in is persisted; and the server takes no refresh token twice.    *)
(*                                                                         *)
(* IInv adds what an engine that is not live still has under way, that an  *)
(* answer names an issued token, and that an engine still signed in with   *)
(* nothing persisted has an event in its inbox that will end its session.  *)
(* TInv is about the server's tokens: the one a refresh has been checked   *)
(* for, across the server's await, has been issued.                        *)
(* LoneInv is about an engine that is alone in its browser: the tokens its *)
(* refreshes claim are distinct and accepted, and the one it holds is      *)
(* accepted still, unless a refresh in flight is about to replace it.      *)
(***************************************************************************)
EXTENDS AuthSession, TLAPS

EngineState ==
    [phase : {"absent", "live", "destroyed", "orphaned"}, access : Nat, refresh : Nat,
     authed : BOOLEAN, user : Account \cup {"none"}, loading : BOOLEAN, mutex : BOOLEAN,
     timer : BOOLEAN, tokenRef : Nat]
Request == [stage : {"idle", "sent", "checked", "ok", "denied"}, token : Nat, got : Nat,
            awaited : BOOLEAN]
Requests == [Call -> Request]
Event == {"SIGNED_OUT", "TOKEN_REFRESHED", "SESSION_EXPIRED"}

SessionType ==
    /\ account \in Seq(Account) /\ active \subseteq Account
    /\ engine \in [Engine -> EngineState]
    /\ pending \in [Engine -> Requests]
    /\ stored \in Nat
    /\ inbox \in [Engine -> Seq(Event)]

InFlight(p) == \E slot \in RefreshSlot : p[slot].stage # "idle"

\* The state s and the requests p of one engine, with the tokens issued to a.
NotLive(s, p) ==
    /\ s.phase = "absent" => s = Absent
    /\ s.phase \in {"absent", "destroyed"} => ~s.timer /\ \A c \in Call : p[c].stage = "idle"
Shown(s, a) ==
    s.phase = "live" =>
        /\ s.authed <=> s.access # NoToken
        /\ s.access # NoToken => s.access \in 1..Len(a) /\ s.user = a[s.access]
AtMostOne(s, p) ==
    s.phase = "live" =>
        /\ ~(p["refresh1"].stage # "idle" /\ p["refresh2"].stage # "idle")
        /\ s.mutex <=> InFlight(p)
AnswersIssued(p, a) ==
    \A c \in Call : p[c].stage = "ok" => p[c].got \in 1..Len(a)

Fits(s, p, a) == NotLive(s, p) /\ Shown(s, a) /\ AtMostOne(s, p) /\ AnswersIssued(p, a)

\* An event that ends the session waits in q.
Told(q) == \E i \in DOMAIN q : q[i] # "TOKEN_REFRESHED"

Warned ==
    (\A x \in Engine : engine[x].phase # "orphaned") =>
    \A e \in Engine : Live(e) /\ Signed(e) /\ stored = NoToken => Told(inbox[e])

IInv == SessionType /\ (\A e \in Engine : Fits(engine[e], pending[e], account)) /\ Warned

\* Tokens are issued, none is taken back.
Grows ==
    /\ account' \in Seq(Account) /\ active' \subseteq Account
    /\ Issued <= Len(account')
    /\ \A n \in 1..Issued : account'[n] = account[n]

\* A step of engine e: the others keep their state and their requests, and hear at most
\* one event more.
StepOf(e) ==
    /\ SessionType' /\ Grows
    /\ \A x \in Engine \ {e} :
         /\ engine'[x] = engine[x] /\ pending'[x] = pending[x]
         /\ inbox'[x] = inbox[x] \/ \E event \in Event : inbox'[x] = Append(inbox[x], event)
    /\ engine[e].phase = "orphaned" => engine'[e].phase = "orphaned"
-----------------------------------------------------------------------------
(* Facts about one engine *)

LEMMA InitFits == Init => IInv
BY DEF Init, ServerInit, IInv, SessionType, Fits, NotLive, Shown, AtMostOne, AnswersIssued,
       InFlight, Warned, Told, Live, Signed, Absent, Idle, EngineState, Request, Requests,
       Call, RefreshSlot, NoToken

\* Tokens issued meanwhile change nothing about an engine.
LEMMA GrowsFits ==
    ASSUME SessionType, Grows, NEW s \in EngineState, NEW p \in Requests, Fits(s, p, account)
    PROVE  Fits(s, p, account')
BY DEF SessionType, Grows, EngineState, Requests, Fits, NotLive, Shown, AtMostOne, AnswersIssued,
       Issued

\* Setting the flag the app looks at changes that flag, and MythikApp's token only.
LEMMA SetState ==
    ASSUME NEW s \in EngineState, NEW value \in BOOLEAN
    PROVE  LET t == SetAuthenticated(s, value)
           IN  /\ t \in EngineState /\ t.authed = value
               /\ t.phase = s.phase /\ t.access = s.access /\ t.refresh = s.refresh
               /\ t.user = s.user /\ t.timer = s.timer /\ t.mutex = s.mutex
BY DEF SetAuthenticated, EngineState

\* The request c ends; the mutex is released with a refresh, and with nothing else.
LEMMA Released ==
    ASSUME NEW s, NEW t, NEW p, NEW q, NEW c \in Call,
           AtMostOne(s, p), p[c].stage # "idle", q[c] = Idle, \A d \in Call \ {c} : q[d] = p[d],
           t.phase = s.phase,
           c \in RefreshSlot => ~t.mutex, c \notin RefreshSlot => t.mutex = s.mutex
    PROVE  AtMostOne(t, q)
<1>0. Idle.stage = "idle" /\ RefreshSlot = {"refresh1", "refresh2"} /\ RefreshSlot \subseteq Call
  BY DEF Idle, RefreshSlot, Call
<1>1. CASE c \in RefreshSlot
  BY <1>0, <1>1 DEF AtMostOne, InFlight
<1>2. CASE c \notin RefreshSlot
  <2>1. \A slot \in RefreshSlot : q[slot] = p[slot]
    BY <1>0, <1>2
  <2> QED BY <1>0, <1>2, <2>1 DEF AtMostOne, InFlight
<1> QED BY <1>1, <1>2

\* Signing out keeps an engine's state in order, whatever it was.
LEMMA SignOutState ==
    ASSUME NEW s \in EngineState
    PROVE  /\ SignOut(s) \in EngineState
           /\ SignOut(s).phase = s.phase /\ SignOut(s).timer = s.timer /\ SignOut(s).mutex = s.mutex
           /\ SignOut(s).access = NoToken /\ ~SignOut(s).authed
BY DEF SignOut, ClearAuthState, ClearTokens, SetAuthenticated, EngineState, NoToken

\* The result of a login or a refresh puts the account the token was issued to on show.
LEMMA ApplyState ==
    ASSUME SessionType, NEW s \in EngineState, NEW token \in 1..Len(account)
    PROVE  LET t == ApplyAuthResult(s, token)
           IN  /\ t \in EngineState
               /\ t.phase = s.phase /\ t.mutex = s.mutex
               /\ t.access = token /\ t.authed /\ t.user = account[token]
<1> DEFINE r == [s EXCEPT !.access = token, !.refresh = token]
           q == SetAuthenticated(r, TRUE)
<1>1. token \in Nat /\ account[token] \in Account
  BY DEF SessionType
<1>2. r \in EngineState /\ r.access = token /\ r.phase = s.phase /\ r.mutex = s.mutex
  BY <1>1 DEF EngineState
<1>3. q \in EngineState /\ q.access = token /\ q.phase = s.phase /\ q.mutex = s.mutex /\ q.authed
  BY <1>2, SetState
<1>4. ApplyAuthResult(s, token) = [q EXCEPT !.user = account[token], !.timer = TRUE]
  BY DEF ApplyAuthResult
<1> HIDE DEF q
<1> QED BY <1>1, <1>3, <1>4 DEF EngineState

\* What an engine other than the one of a step satisfies after it, and that it is
\* enough to look at the latter.
LEMMA StepFits ==
    ASSUME IInv, NEW e \in Engine, StepOf(e), Fits(engine'[e], pending'[e], account'),
           (\A x \in Engine : engine[x].phase # "orphaned" /\ engine'[x].phase # "orphaned") =>
               \A x \in Engine : Live(x)' /\ Signed(x)' /\ stored' = NoToken => Told(inbox'[x])
    PROVE  IInv'
<1>1. \A x \in Engine : Fits(engine'[x], pending'[x], account')
  <2>1. SUFFICES ASSUME NEW x \in Engine, x # e PROVE Fits(engine[x], pending[x], account')
    BY DEF StepOf
  <2>2. engine[x] \in EngineState /\ pending[x] \in Requests
    BY DEF IInv, SessionType
  <2> QED BY <2>2, GrowsFits DEF IInv, StepOf
<1>2. Warned'
  <2>1. SUFFICES ASSUME \A x \in Engine : engine'[x].phase # "orphaned"
               PROVE  \A x \in Engine : engine[x].phase # "orphaned"
    BY DEF Warned
  <2> QED BY <2>1 DEF StepOf
<1> QED BY <1>1, <1>2 DEF IInv, StepOf

\* An event more does not take back the ones that wait.
LEMMA ToldStays ==
    ASSUME NEW q \in Seq(Event), NEW event \in Event
    PROVE  /\ Append(q, event) \in Seq(Event)
           /\ Told(q) => Told(Append(q, event))
           /\ event # "TOKEN_REFRESHED" => Told(Append(q, event))
<1>1. Append(q, event) \in Seq(Event) /\ Len(Append(q, event)) = Len(q) + 1
  OBVIOUS
<1>2. Told(q) => Told(Append(q, event))
  BY <1>1 DEF Told
<1>3. Append(q, event)[Len(q) + 1] = event /\ Len(q) + 1 \in DOMAIN Append(q, event)
  OBVIOUS
<1> QED BY <1>1, <1>2, <1>3 DEF Told

\* What a broadcast does to the inboxes.
LEMMA BroadcastTells ==
    ASSUME SessionType, NEW e \in Engine, NEW event \in Event, Broadcast(e, event)
    PROVE  /\ inbox' \in [Engine -> Seq(Event)]
           /\ \A x \in Engine \ {e} : inbox'[x] = inbox[x] \/ inbox'[x] = Append(inbox[x], event)
           /\ \A x \in Engine : Told(inbox[x]) => Told(inbox'[x])
           /\ event # "TOKEN_REFRESHED" /\ Live(e) =>
                \A x \in Engine \ {e} : Live(x) => Told(inbox'[x])
<1>1. \A x \in Engine : inbox[x] \in Seq(Event)
  BY DEF SessionType
<1>2. \A x \in Engine : inbox'[x] = inbox[x] \/ inbox'[x] = Append(inbox[x], event)
  BY DEF Broadcast
<1>3. Live(e) => \A x \in Engine \ {e} : Live(x) => inbox'[x] = Append(inbox[x], event)
  BY DEF Broadcast
<1>4. DOMAIN inbox' = Engine /\ inbox' = [x \in Engine |-> inbox'[x]]
  BY DEF Broadcast
<1>5. \A x \in Engine : inbox'[x] \in Seq(Event) /\ (Told(inbox[x]) => Told(inbox'[x]))
  BY <1>1, <1>2, ToldStays
<1>6. inbox' \in [Engine -> Seq(Event)]
  BY <1>4, <1>5
<1>7. event # "TOKEN_REFRESHED" /\ Live(e) => \A x \in Engine \ {e} : Live(x) => Told(inbox'[x])
  BY <1>1, <1>3, ToldStays
<1> QED BY <1>2, <1>5, <1>6, <1>7

LEMMA SameTokens ==
    ASSUME SessionType, UNCHANGED account, active' \subseteq active
    PROVE  Grows
BY DEF SessionType, Grows, Issued

LEMMA OneToken ==
    ASSUME SessionType, NEW who \in Account, account' = Append(account, who), UNCHANGED active
    PROVE  Grows /\ Issued + 1 \in 1..Len(account')
BY DEF SessionType, Grows, Issued
-----------------------------------------------------------------------------
(* Refreshes *)

\* Whoever asks for a refresh, with the engine as s.
LEMMA RequestStep ==
    ASSUME IInv, NEW e \in Engine, NEW s \in EngineState, NEW awaited \in BOOLEAN,
           RequestRefresh(e, s, awaited), UNCHANGED <<account, active>>,
           s.phase \in {"live", "orphaned"},
           engine[e].phase = "orphaned" => s.phase = "orphaned",
           Fits(s, pending[e], account),
           s.access = NoToken \/ (s.phase = engine[e].phase /\ s.access = engine[e].access),
           awaited /\ s.refresh = NoToken => Live(e)
    PROVE  IInv'
<1> USE DEF RequestRefresh
<1>t. SessionType /\ Grows /\ Grows /\ engine[e] \in EngineState /\ pending[e] \in Requests
  BY SameTokens DEF IInv, SessionType
<1>s. s.access # NoToken => s.phase = engine[e].phase /\ Signed(e)
  BY DEF Signed
<1>1. CASE s.mutex /\ JoinRefresh(e, s, awaited)
  <2> DEFINE p == [c \in Call |-> IF c \in RefreshSlot /\ Busy(e, c)
                     THEN [pending[e][c] EXCEPT !.awaited = @ \/ awaited] ELSE pending[e][c]]
  <2>1. engine' = [engine EXCEPT ![e] = s] /\ UNCHANGED <<stored, inbox>>
    BY <1>1 DEF JoinRefresh, NoBroadcast
  <2>0. pending' = [pending EXCEPT ![e] = p]
    BY <1>1 DEF JoinRefresh
  <2>2. p \in Requests /\ \A c \in Call : p[c].stage = pending[e][c].stage /\ p[c].got = pending[e][c].got
    BY <1>t DEF Requests, Request
  <2> HIDE DEF p
  <2>3. SessionType' /\ engine'[e] = s /\ pending'[e] = p
    BY <1>t, <2>0, <2>1, <2>2 DEF SessionType
  <2>4. StepOf(e)
    BY <1>t, <2>0, <2>1, <2>3 DEF StepOf, SessionType
  <2>5. Fits(s, p, account)
    BY <2>2 DEF Fits, NotLive, AtMostOne, AnswersIssued, InFlight, Call, RefreshSlot
  <2> QED BY <2>1, <2>3, <2>4, <2>5, <1>t, <1>s, StepFits DEF IInv, Warned, Live, Signed, SessionType
<1>2. CASE ~s.mutex /\ s.refresh # NoToken /\ SendRefresh(e, s, awaited)
  <2>1. PICK slot \in RefreshSlot :
            /\ ~Busy(e, slot) /\ (slot = "refresh2" => Busy(e, "refresh1"))
            /\ Put(e, slot, Sent(s.refresh, awaited))
    BY <1>2 DEF SendRefresh
  <2> DEFINE t == [s EXCEPT !.mutex = TRUE]
             p == [pending[e] EXCEPT ![slot] = Sent(s.refresh, awaited)]
  <2>2. /\ engine' = [engine EXCEPT ![e] = t] /\ pending' = [pending EXCEPT ![e] = p]
        /\ UNCHANGED <<stored, inbox>>
    BY <1>2, <2>1 DEF SendRefresh, Put, NoBroadcast
  <2>3. /\ t \in EngineState /\ t.mutex /\ t.phase = s.phase /\ t.access = s.access
        /\ t.authed = s.authed /\ t.user = s.user
    BY DEF EngineState
  <2>4. /\ p \in Requests /\ p[slot].stage = "sent"
        /\ \A c \in Call \ {slot} : p[c] = pending[e][c]
    BY <1>t DEF Requests, Request, Sent, EngineState, NoToken, Call
  <2>5. Fits(t, p, account)
    <3>1. s.phase = "live" => slot = "refresh1" /\ p["refresh2"].stage = "idle"
      BY <1>2, <2>1, <2>4 DEF Fits, AtMostOne, InFlight, RefreshSlot, Busy, Call
    <3>2. AtMostOne(t, p)
      BY <3>1, <2>3, <2>4 DEF AtMostOne, InFlight, RefreshSlot
    <3> QED BY <3>2, <2>3, <2>4 DEF Fits, NotLive, Shown, AnswersIssued
  <2> HIDE DEF t, p
  <2>6. SessionType' /\ engine'[e] = t /\ pending'[e] = p
    BY <1>t, <2>2, <2>3, <2>4 DEF SessionType
  <2>7. StepOf(e)
    BY <1>t, <2>2, <2>3, <2>6 DEF StepOf, SessionType
  <2> QED BY <2>2, <2>3, <2>5, <2>6, <2>7, <1>t, <1>s, StepFits DEF IInv, Warned, Live, Signed, SessionType
<1>3. CASE ~s.mutex /\ s.refresh = NoToken /\ RefreshWithoutToken(e, s, awaited)
  <2>1. CASE awaited
    <3>1. /\ engine' = [engine EXCEPT ![e] = SignOut(s)] /\ stored' = NoToken
          /\ Broadcast(e, "SESSION_EXPIRED") /\ UNCHANGED pending
      BY <1>3, <2>1 DEF RefreshWithoutToken
    <3>2. Live(e)
      BY <1>3, <2>1
    <3>3. Fits(SignOut(s), pending[e], account)
      BY SignOutState DEF Fits, NotLive, Shown, AtMostOne, NoToken
    <3>4. SessionType' /\ engine'[e] = SignOut(s) /\ pending'[e] = pending[e]
      BY <1>t, <3>1, SignOutState, BroadcastTells DEF SessionType, Event, NoToken
    <3>5. StepOf(e)
      BY <1>t, <3>1, <3>4, SignOutState, BroadcastTells DEF StepOf, SessionType, Event
    <3>6. \A x \in Engine : Live(x)' /\ Signed(x)' => Told(inbox'[x])
      BY <1>t, <3>1, <3>2, <3>4, <3>5, SignOutState, BroadcastTells DEF Live, Signed, Event, StepOf
    <3> QED BY <3>3, <3>4, <3>5, <3>6, StepFits
  <2>2. CASE ~awaited
    <3>1. engine' = [engine EXCEPT ![e] = s] /\ UNCHANGED <<pending, stored, inbox>>
      BY <1>3, <2>2 DEF RefreshWithoutToken, NoBroadcast
    <3>2. SessionType' /\ engine'[e] = s /\ pending'[e] = pending[e]
      BY <1>t, <3>1 DEF SessionType
    <3>3. StepOf(e)
      BY <1>t, <3>1, <3>2 DEF StepOf, SessionType
    <3> QED BY <3>1, <3>2, <3>3, <1>t, <1>s, StepFits DEF IInv, Warned, Live, Signed, SessionType
  <2> QED BY <2>1, <2>2
<1> QED BY <1>1, <1>2, <1>3

LEMMA RefreshSessionKeeps ==
    ASSUME IInv, NEW e \in Engine, RefreshSession(e)
    PROVE  IInv'
<1>1. /\ engine[e] \in EngineState /\ RequestRefresh(e, engine[e], TRUE)
      /\ UNCHANGED <<account, active>> /\ Live(e) /\ engine[e].phase = "live"
  BY DEF RefreshSession, Calling, serverVars, IInv, SessionType, Live
<1> QED BY <1>1, RequestStep DEF IInv

LEMMA ProactiveRefreshKeeps ==
    ASSUME IInv, NEW e \in Engine, ProactiveRefresh(e)
    PROVE  IInv'
<1> DEFINE s == [engine[e] EXCEPT !.timer = FALSE]
<1>1. engine[e] \in EngineState /\ RequestRefresh(e, s, FALSE) /\ UNCHANGED <<account, active>> /\ engine[e].timer
  BY DEF ProactiveRefresh, serverVars, IInv, SessionType
<1>2. /\ s \in EngineState /\ s.phase = engine[e].phase /\ s.access = engine[e].access
      /\ s.authed = engine[e].authed /\ s.mutex = engine[e].mutex /\ s.user = engine[e].user
  BY <1>1 DEF EngineState
<1>3. engine[e].phase \in {"live", "orphaned"} /\ Fits(engine[e], pending[e], account)
  BY <1>1 DEF IInv, Fits, NotLive, EngineState
<1>4. Fits(s, pending[e], account)
  BY <1>2, <1>3 DEF Fits, NotLive, Shown, AtMostOne
<1> HIDE DEF s
<1> QED BY <1>1, <1>2, <1>3, <1>4, RequestStep

\* The result of a request is applied: the engine shows it and it is persisted.
LEMMA AppliedStep ==
    ASSUME IInv, NEW e \in Engine, NEW c \in Call, NEW s \in EngineState,
           pending[e][c].stage = "ok",
           LET t == ApplyAuthResult(engine[e], pending[e][c].got)
           IN  s.phase = t.phase /\ s.access = t.access /\ s.authed = t.authed /\ s.user = t.user,
           c \in RefreshSlot => ~s.mutex,
           c \notin RefreshSlot => s.mutex = engine[e].mutex,
           engine' = [engine EXCEPT ![e] = s], stored' = pending[e][c].got, Put(e, c, Idle),
           UNCHANGED <<account, active>>,
           Broadcast(e, "TOKEN_REFRESHED") \/ NoBroadcast
    PROVE  IInv'
<1>1. /\ SessionType /\ Grows /\ engine[e] \in EngineState /\ pending[e] \in Requests
      /\ Fits(engine[e], pending[e], account)
  BY SameTokens DEF IInv, SessionType
<1> DEFINE got == pending[e][c].got
           p == [pending[e] EXCEPT ![c] = Idle]
<1>2. got \in 1..Len(account) /\ got \in Nat /\ got # NoToken
  BY <1>1 DEF Fits, AnswersIssued, NoToken, Requests, Request
<1> HIDE DEF got
<1>3. s.phase = engine[e].phase /\ s.access = got /\ s.authed /\ s.user = account[got]
  BY <1>1, <1>2, ApplyState DEF got
<1>4. /\ p \in Requests /\ p[c] = Idle /\ \A d \in Call \ {c} : p[d] = pending[e][d]
      /\ pending' = [pending EXCEPT ![e] = p]
  BY <1>1 DEF Put, Requests, Request, Idle, NoToken
<1> HIDE DEF p
<1>5. /\ inbox' \in [Engine -> Seq(Event)]
      /\ \A x \in Engine \ {e} :
           inbox'[x] = inbox[x] \/ \E event \in Event : inbox'[x] = Append(inbox[x], event)
  BY <1>1, BroadcastTells DEF NoBroadcast, SessionType, Event
<1>6. SessionType' /\ engine'[e] = s /\ pending'[e] = p /\ stored' = got
  BY <1>1, <1>2, <1>4, <1>5 DEF SessionType, got
<1>7. StepOf(e)
  BY <1>1, <1>3, <1>4, <1>5, <1>6 DEF StepOf, SessionType
<1>8. Fits(s, p, account)
  <2>1. NotLive(s, p)
    <3>1. engine[e].phase \notin {"absent", "destroyed"}
      BY <1>1 DEF Fits, NotLive
    <3> QED BY <3>1, <1>3 DEF NotLive
  <2>2. Shown(s, account)
    BY <1>2, <1>3 DEF Shown
  <2>3. AtMostOne(s, p)
    BY <1>1, <1>3, <1>4, Released DEF Fits
  <2>4. AnswersIssued(p, account)
    BY <1>1, <1>4 DEF Fits, AnswersIssued, Idle
  <2> QED BY <2>1, <2>2, <2>3, <2>4 DEF Fits
<1> QED BY <1>2, <1>6, <1>7, <1>8, StepFits

LEMMA RefreshSucceededKeeps ==
    ASSUME IInv, NEW e \in Engine, NEW slot \in RefreshSlot, RefreshSucceeded(e, slot)
    PROVE  IInv'
<1> DEFINE t == ApplyAuthResult(engine[e], pending[e][slot].got)
           s == [t EXCEPT !.mutex = FALSE]
<1>1. /\ pending[e][slot].stage = "ok" /\ slot \in Call
      /\ engine' = [engine EXCEPT ![e] = s] /\ stored' = pending[e][slot].got
      /\ Put(e, slot, Idle) /\ UNCHANGED <<account, active>>
      /\ Broadcast(e, "TOKEN_REFRESHED") \/ NoBroadcast
  BY DEF RefreshSucceeded, Call, serverVars
<1>2. t \in EngineState
  BY <1>1, ApplyState DEF IInv, SessionType, Fits, AnswersIssued
<1> HIDE DEF t
<1>3. /\ s \in EngineState /\ ~s.mutex
      /\ s.phase = t.phase /\ s.access = t.access /\ s.authed = t.authed /\ s.user = t.user
  BY <1>2 DEF EngineState
<1> HIDE DEF s
<1> QED BY <1>1, <1>3, AppliedStep DEF t

LEMMA LoginSucceededKeeps ==
    ASSUME IInv, NEW e \in Engine, LoginSucceeded(e)
    PROVE  IInv'
<1> DEFINE t == ApplyAuthResult(engine[e], pending[e]["login"].got)
           s == [t EXCEPT !.loading = FALSE]
<1>1. /\ pending[e]["login"].stage = "ok" /\ "login" \in Call /\ "login" \notin RefreshSlot
      /\ engine' = [engine EXCEPT ![e] = s] /\ stored' = pending[e]["login"].got
      /\ Put(e, "login", Idle) /\ UNCHANGED <<account, active>> /\ NoBroadcast
  BY DEF LoginSucceeded, Call, RefreshSlot, serverVars
<1>2. t \in EngineState /\ t.mutex = engine[e].mutex
  BY <1>1, ApplyState DEF IInv, SessionType, Fits, AnswersIssued
<1> HIDE DEF t
<1>3. /\ s \in EngineState /\ s.mutex = engine[e].mutex
      /\ s.phase = t.phase /\ s.access = t.access /\ s.authed = t.authed /\ s.user = t.user
  BY <1>2 DEF EngineState
<1> HIDE DEF s
<1> QED BY <1>1, <1>3, AppliedStep DEF t
-----------------------------------------------------------------------------
(* Sessions that end, and steps that end none *)

\* An engine goes on as s, which holds no token or the one of before, and nobody is told
\* anything; c is the request that ends with this step.
LEMMA QuietStep ==
    ASSUME IInv, NEW e \in Engine, NEW c \in Call, NEW s \in EngineState, NEW p \in Requests,
           Grows, UNCHANGED <<stored, inbox>>,
           engine' = [engine EXCEPT ![e] = s], pending' = [pending EXCEPT ![e] = p],
           s.phase = engine[e].phase, s.access \in {NoToken, engine[e].access},
           Fits(s, p, account')
    PROVE  IInv'
<1>1. SessionType' /\ engine'[e] = s /\ pending'[e] = p
  BY DEF IInv, SessionType, Grows
<1>2. StepOf(e)
  BY <1>1 DEF IInv, StepOf, SessionType
<1>3. \A x \in Engine : engine[x].phase # "orphaned" =>
        (Live(x)' /\ Signed(x)' /\ stored' = NoToken => Live(x) /\ Signed(x) /\ stored = NoToken)
  BY <1>1, <1>2 DEF StepOf, Live, Signed
<1> QED BY <1>1, <1>2, <1>3, StepFits DEF IInv, Warned

\* A session ends: nothing is persisted any more, and the other engines are told.
LEMMA EndedStep ==
    ASSUME IInv, NEW e \in Engine, NEW c \in Call, NEW s \in EngineState,
           NEW event \in {"SIGNED_OUT", "SESSION_EXPIRED"},
           Busy(e, c), s.phase = engine[e].phase, s.access = NoToken, ~s.authed,
           c \in RefreshSlot => ~s.mutex,
           c \notin RefreshSlot => s.mutex = engine[e].mutex,
           engine' = [engine EXCEPT ![e] = s], stored' = NoToken, Put(e, c, Idle),
           UNCHANGED <<account, active>>, Broadcast(e, event)
    PROVE  IInv'
<1>1. /\ SessionType /\ Grows /\ engine[e] \in EngineState /\ pending[e] \in Requests
      /\ Fits(engine[e], pending[e], account) /\ event \in Event /\ event # "TOKEN_REFRESHED"
  BY SameTokens DEF IInv, SessionType, Event
<1> DEFINE p == [pending[e] EXCEPT ![c] = Idle]
<1>2. /\ p \in Requests /\ p[c] = Idle /\ \A d \in Call \ {c} : p[d] = pending[e][d]
      /\ pending' = [pending EXCEPT ![e] = p]
  BY <1>1 DEF Put, Requests, Request, Idle, NoToken
<1> HIDE DEF p
<1>3. engine[e].phase \in {"live", "orphaned"}
  BY <1>1 DEF Fits, NotLive, Busy, EngineState
<1>4. SessionType' /\ engine'[e] = s /\ pending'[e] = p
  BY <1>1, <1>2, BroadcastTells DEF SessionType, NoToken
<1>5. StepOf(e)
  BY <1>1, <1>2, <1>4, BroadcastTells DEF StepOf, SessionType
<1>6. Fits(s, p, account)
  <2>1. NotLive(s, p) /\ Shown(s, account)
    BY <1>3 DEF NotLive, Shown
  <2>2. AtMostOne(s, p)
    BY <1>1, <1>2, Released DEF Fits, Busy
  <2>3. AnswersIssued(p, account)
    BY <1>1, <1>2 DEF Fits, AnswersIssued, Idle
  <2> QED BY <2>1, <2>2, <2>3 DEF Fits
<1>7. (\A x \in Engine : engine[x].phase # "orphaned") =>
        \A x \in Engine : Live(x)' /\ Signed(x)' => Told(inbox'[x])
  BY <1>1, <1>3, <1>4, <1>5, BroadcastTells DEF Live, Signed, StepOf
<1> QED BY <1>4, <1>5, <1>6, <1>7, StepFits

LEMMA LogoutFinishesKeeps ==
    ASSUME IInv, NEW e \in Engine, LogoutFinishes(e)
    PROVE  IInv'
<1> DEFINE s == SignOut(engine[e])
<1>1. /\ engine' = [engine EXCEPT ![e] = s] /\ stored' = NoToken /\ Put(e, "logout", Idle)
      /\ UNCHANGED <<account, active>> /\ Broadcast(e, "SIGNED_OUT") /\ Busy(e, "logout")
      /\ engine[e] \in EngineState /\ "logout" \in Call /\ "logout" \notin RefreshSlot
  BY DEF LogoutFinishes, serverVars, IInv, SessionType, Call, RefreshSlot
<1>2. /\ s \in EngineState /\ s.phase = engine[e].phase /\ s.access = NoToken /\ ~s.authed
      /\ s.mutex = engine[e].mutex
  BY <1>1, SignOutState
<1> HIDE DEF s
<1> QED BY <1>1, <1>2, EndedStep

LEMMA RefreshFailedKeeps ==
    ASSUME IInv, NEW e \in Engine, NEW slot \in RefreshSlot, RefreshFailed(e, slot)
    PROVE  IInv'
<1>1. /\ UNCHANGED <<account, active>> /\ Put(e, slot, Idle) /\ Busy(e, slot) /\ slot \in Call
      /\ SessionType /\ Grows /\ engine[e] \in EngineState /\ pending[e] \in Requests
      /\ Fits(engine[e], pending[e], account)
  BY SameTokens DEF RefreshFailed, LoseAnswer, Fault, serverVars, Call, IInv, SessionType, Busy
<1>2. CASE pending[e][slot].awaited
  <2> DEFINE t == SignOut(engine[e])
             s == [t EXCEPT !.mutex = FALSE]
  <2>1. /\ engine' = [engine EXCEPT ![e] = s] /\ stored' = NoToken
        /\ Broadcast(e, "SESSION_EXPIRED")
    BY <1>2 DEF RefreshFailed
  <2>3. t \in EngineState /\ t.phase = engine[e].phase /\ t.access = NoToken /\ ~t.authed
    BY <1>1, SignOutState
  <2> HIDE DEF t
  <2>2. s \in EngineState /\ s.phase = engine[e].phase /\ s.access = NoToken /\ ~s.authed /\ ~s.mutex
    BY <2>3 DEF EngineState
  <2> HIDE DEF s
  <2> QED BY <1>1, <2>1, <2>2, EndedStep
<1>3. CASE ~pending[e][slot].awaited
  <2> DEFINE s == [engine[e] EXCEPT !.mutex = FALSE]
             p == [pending[e] EXCEPT ![slot] = Idle]
  <2>1. engine' = [engine EXCEPT ![e] = s] /\ UNCHANGED <<stored, inbox>>
    BY <1>3, <1>1 DEF RefreshFailed, NoBroadcast, SessionType
  <2>2. /\ s \in EngineState /\ s.phase = engine[e].phase /\ s.access = engine[e].access
        /\ ~s.mutex /\ s.authed = engine[e].authed /\ s.user = engine[e].user
    BY <1>1 DEF EngineState
  <2>3. /\ p \in Requests /\ p[slot] = Idle /\ \A d \in Call \ {slot} : p[d] = pending[e][d]
        /\ pending' = [pending EXCEPT ![e] = p]
    BY <1>1 DEF Put, Requests, Request, Idle, NoToken
  <2> HIDE DEF s, p
  <2>4. Fits(s, p, account)
    <3>1. NotLive(s, p)
      BY <1>1, <2>2 DEF Fits, NotLive, Busy
    <3>2. Shown(s, account) /\ AnswersIssued(p, account)
      BY <1>1, <2>2, <2>3 DEF Fits, Shown, AnswersIssued, Idle
    <3>3. AtMostOne(s, p)
      BY <1>1, <2>2, <2>3, Released DEF Fits, Busy
    <3> QED BY <3>1, <3>2, <3>3 DEF Fits
  <2> QED BY <1>1, <2>1, <2>2, <2>3, <2>4, QuietStep
<1> QED BY <1>2, <1>3

LEMMA LoginFailedKeeps ==
    ASSUME IInv, NEW e \in Engine, LoginFailed(e)
    PROVE  IInv'
<1> DEFINE q == ClearTokens(engine[e])
           t == SetAuthenticated(q, FALSE)
           s == [t EXCEPT !.loading = FALSE]
           p == [pending[e] EXCEPT !["login"] = Idle]
<1>1. /\ UNCHANGED <<account, active, stored, inbox>> /\ Busy(e, "login") /\ "login" \in Call
      /\ engine' = [engine EXCEPT ![e] = s] /\ pending' = [pending EXCEPT ![e] = p]
      /\ "login" \notin RefreshSlot
  BY DEF LoginFailed, LoseAnswer, Fault, serverVars, Call, RefreshSlot, Busy, Put, IInv, SessionType
<1>2. /\ SessionType /\ Grows /\ engine[e] \in EngineState /\ pending[e] \in Requests
      /\ Fits(engine[e], pending[e], account)
  BY <1>1, SameTokens DEF IInv, SessionType
<1>3. /\ q \in EngineState /\ q.access = NoToken /\ q.phase = engine[e].phase
      /\ q.mutex = engine[e].mutex
  BY <1>2 DEF ClearTokens, EngineState, NoToken
<1> HIDE DEF q
<1>4. /\ t \in EngineState /\ t.access = NoToken /\ t.phase = engine[e].phase
      /\ t.mutex = engine[e].mutex /\ ~t.authed
  BY <1>3, SetState
<1> HIDE DEF t
<1>5. /\ s \in EngineState /\ s.access = NoToken /\ s.phase = engine[e].phase
      /\ s.mutex = engine[e].mutex /\ ~s.authed
  BY <1>4 DEF EngineState
<1> HIDE DEF s
<1>6. /\ p \in Requests /\ p["login"] = Idle /\ \A d \in Call \ {"login"} : p[d] = pending[e][d]
  BY <1>1, <1>2 DEF Requests, Request, Idle, NoToken
<1> HIDE DEF p
<1>7. Fits(s, p, account)
  <2>1. NotLive(s, p) /\ Shown(s, account)
    BY <1>1, <1>2, <1>5 DEF Fits, NotLive, Shown, Busy
  <2>2. AtMostOne(s, p)
    BY <1>1, <1>2, <1>5, <1>6, Released DEF Fits, Busy
  <2>3. AnswersIssued(p, account)
    BY <1>2, <1>6 DEF Fits, AnswersIssued, Idle
  <2> QED BY <2>1, <2>2, <2>3 DEF Fits
<1> QED BY <1>1, <1>2, <1>5, <1>6, <1>7, QuietStep
-----------------------------------------------------------------------------
(* Requests on their way *)

\* A request of a busy slot, or a login or logout of a live engine, goes on as r.
LEMMA RequestMoves ==
    ASSUME IInv, NEW e \in Engine, NEW c \in Call, NEW r \in Request, NEW s \in EngineState,
           r.stage # "idle", r.stage = "ok" => r.got \in 1..Len(account'),
           Busy(e, c) \/ (c \notin RefreshSlot /\ Live(e)),
           s.phase = engine[e].phase, s.access = engine[e].access, s.authed = engine[e].authed,
           s.user = engine[e].user, s.mutex = engine[e].mutex,
           engine' = [engine EXCEPT ![e] = s], Put(e, c, r), Grows, UNCHANGED <<stored, inbox>>
    PROVE  IInv'
<1> DEFINE p == [pending[e] EXCEPT ![c] = r]
<1>1. /\ SessionType /\ engine[e] \in EngineState /\ pending[e] \in Requests
      /\ Fits(engine[e], pending[e], account')
  BY GrowsFits DEF IInv, SessionType
<1>2. /\ p \in Requests /\ p[c] = r /\ \A d \in Call \ {c} : p[d] = pending[e][d]
      /\ pending' = [pending EXCEPT ![e] = p]
  BY <1>1 DEF Put, Requests, SessionType
<1> HIDE DEF p
<1>3. engine[e].phase \in {"live", "orphaned"}
  BY <1>1 DEF Fits, NotLive, Busy, Live, EngineState
<1>4. \A slot \in RefreshSlot : p[slot].stage = "idle" <=> pending[e][slot].stage = "idle"
  BY <1>2 DEF Busy, RefreshSlot, Call
<1>5. NotLive(s, p) /\ Shown(s, account')
  BY <1>1, <1>3 DEF Fits, NotLive, Shown
<1>6. AtMostOne(s, p)
  BY <1>1, <1>4 DEF Fits, AtMostOne, InFlight, RefreshSlot
<1>7. AnswersIssued(p, account')
  BY <1>1, <1>2 DEF Fits, AnswersIssued
<1> QED BY <1>1, <1>2, <1>5, <1>6, <1>7, QuietStep DEF Fits

LEMMA LoginKeeps ==
    ASSUME IInv, NEW e \in Engine, Login(e)
    PROVE  IInv'
<1> DEFINE s == [engine[e] EXCEPT !.loading = TRUE]
<1>1. /\ engine' = [engine EXCEPT ![e] = s] /\ Put(e, "login", Sent(NoToken, TRUE)) /\ Live(e)
      /\ UNCHANGED <<account, active, stored, inbox>> /\ "login" \in Call \ RefreshSlot
  BY DEF Login, Calling, serverVars, Call, RefreshSlot, IInv, SessionType
<1>2. engine[e] \in EngineState /\ Grows
  BY <1>1, SameTokens DEF IInv, SessionType
<1>3. /\ s \in EngineState /\ s.phase = engine[e].phase /\ s.access = engine[e].access
      /\ s.authed = engine[e].authed /\ s.user = engine[e].user /\ s.mutex = engine[e].mutex
  BY <1>2 DEF EngineState
<1> HIDE DEF s
<1>4. Sent(NoToken, TRUE) \in Request /\ Sent(NoToken, TRUE).stage = "sent"
  BY DEF Sent, Request, NoToken
<1> QED BY <1>1, <1>2, <1>3, <1>4, RequestMoves

LEMMA LogoutKeeps ==
    ASSUME IInv, NEW e \in Engine, Logout(e)
    PROVE  IInv'
<1> DEFINE s == [engine[e] EXCEPT !.timer = FALSE]
<1>1. /\ engine' = [engine EXCEPT ![e] = s] /\ Put(e, "logout", Sent(NoToken, TRUE)) /\ Live(e)
      /\ UNCHANGED <<account, active, stored, inbox>> /\ "logout" \in Call \ RefreshSlot
  BY DEF Logout, Calling, serverVars, Call, RefreshSlot, IInv, SessionType
<1>2. engine[e] \in EngineState /\ Grows
  BY <1>1, SameTokens DEF IInv, SessionType
<1>3. /\ s \in EngineState /\ s.phase = engine[e].phase /\ s.access = engine[e].access
      /\ s.authed = engine[e].authed /\ s.user = engine[e].user /\ s.mutex = engine[e].mutex
  BY <1>2 DEF EngineState
<1> HIDE DEF s
<1>4. Sent(NoToken, TRUE) \in Request /\ Sent(NoToken, TRUE).stage = "sent"
  BY DEF Sent, Request, NoToken
<1> QED BY <1>1, <1>2, <1>3, <1>4, RequestMoves

\* The server answers, or looks a token up: the request moves on, the engine does not.
LEMMA AnswerKeeps ==
    ASSUME IInv, NEW e \in Engine, Answer(e)
    PROVE  IInv'
<1>1. /\ engine[e] \in EngineState /\ pending[e] \in Requests
      /\ engine' = [engine EXCEPT ![e] = engine[e]] /\ UNCHANGED <<stored, inbox>>
  BY DEF Answer, AnswerLogin, CheckRefresh, AnswerRefresh, IInv, SessionType
<1>2. ASSUME NEW c \in Call, NEW r \in Request, Put(e, c, r), Grows, Busy(e, c), r.stage # "idle",
             r.stage = "ok" => r.got \in 1..Len(account')
      PROVE  IInv'
  BY <1>1, <1>2, RequestMoves
<1>3. CASE AnswerLogin(e)
  <2> DEFINE request == pending[e]["login"]
  <2>1. request \in Request /\ "login" \in Call /\ Busy(e, "login") /\ SessionType
    BY <1>1, <1>3 DEF Requests, Call, AnswerLogin, Busy, IInv
  <2>2. ASSUME NEW who \in Account, ServeLogin(who),
               Put(e, "login", [request EXCEPT !.stage = "ok", !.got = Issued + 1])
        PROVE  IInv'
    <3>1. Grows /\ Issued + 1 \in 1..Len(account') /\ Issued + 1 \in Nat
      BY <2>1, <2>2, OneToken DEF ServeLogin, Issued, SessionType
    <3> DEFINE r == [request EXCEPT !.stage = "ok", !.got = Issued + 1]
    <3>2. r \in Request /\ r.stage = "ok" /\ r.got = Issued + 1
      BY <2>1, <3>1 DEF Request
    <3> HIDE DEF r
    <3> QED BY <1>2, <2>1, <2>2, <3>1, <3>2 DEF r
  <2>3. ASSUME UNCHANGED serverVars, Put(e, "login", [request EXCEPT !.stage = "denied"])
        PROVE  IInv'
    <3>1. Grows
      BY <2>1, <2>3, SameTokens DEF serverVars
    <3> DEFINE r == [request EXCEPT !.stage = "denied"]
    <3>2. r \in Request /\ r.stage = "denied"
      BY <2>1 DEF Request
    <3> HIDE DEF r
    <3> QED BY <1>2, <2>1, <2>3, <3>1, <3>2 DEF r
  <2> QED BY <1>3, <2>2, <2>3 DEF AnswerLogin
<1>4. ASSUME NEW slot \in RefreshSlot, CheckRefresh(e, slot)
      PROVE  IInv'
  <2> DEFINE request == pending[e][slot]
             r == [request EXCEPT !.stage = IF request.token \in live THEN "checked" ELSE "denied"]
  <2>1. request \in Request /\ slot \in Call /\ Busy(e, slot) /\ Put(e, slot, r)
    BY <1>1, <1>4 DEF Requests, Call, CheckRefresh, Busy
  <2>2. Grows
    BY <1>4, SameTokens DEF CheckRefresh, serverVars, IInv
  <2>3. r \in Request /\ r.stage \in {"checked", "denied"}
    BY <2>1 DEF Request
  <2> HIDE DEF r
  <2> QED BY <1>2, <2>1, <2>2, <2>3
<1>5. ASSUME NEW slot \in RefreshSlot, AnswerRefresh(e, slot)
      PROVE  IInv'
  <2> DEFINE request == pending[e][slot]
  <2>1. request \in Request /\ slot \in Call /\ Busy(e, slot) /\ SessionType
    BY <1>1, <1>5 DEF Requests, Call, AnswerRefresh, Busy, IInv
  <2>2. ASSUME Rotate(request.token),
               Put(e, slot, [request EXCEPT !.stage = "ok", !.got = Issued + 1])
        PROVE  IInv'
    <3>0. account[request.token] \in Account
      BY <2>1, <2>2 DEF Rotate, SessionType
    <3>1. Grows /\ Issued + 1 \in 1..Len(account') /\ Issued + 1 \in Nat
      BY <2>1, <2>2, <3>0, OneToken DEF Rotate, Issued, SessionType
    <3> DEFINE r == [request EXCEPT !.stage = "ok", !.got = Issued + 1]
    <3>2. r \in Request /\ r.stage = "ok" /\ r.got = Issued + 1
      BY <2>1, <3>1 DEF Request
    <3> HIDE DEF r
    <3> QED BY <1>2, <2>1, <2>2, <3>1, <3>2 DEF r
  <2>3. ASSUME RefuseInactive(request.token), Put(e, slot, [request EXCEPT !.stage = "denied"])
        PROVE  IInv'
    <3>1. Grows
      BY <2>1, <2>3, SameTokens DEF RefuseInactive
    <3> DEFINE r == [request EXCEPT !.stage = "denied"]
    <3>2. r \in Request /\ r.stage = "denied"
      BY <2>1 DEF Request
    <3> HIDE DEF r
    <3> QED BY <1>2, <2>1, <2>3, <3>1, <3>2 DEF r
  <2> QED BY <1>5, <2>2, <2>3 DEF AnswerRefresh
<1> QED BY <1>3, <1>4, <1>5 DEF Answer
-----------------------------------------------------------------------------
(* Mounting, unmounting, events and faults *)

LEMMA MountKeeps ==
    ASSUME IInv, NEW e \in Engine, Mount(e)
    PROVE  IInv'
<1> DEFINE s == [Absent EXCEPT !.phase = "live", !.refresh = stored]
<1>1. /\ engine[e] = Absent /\ UNCHANGED <<account, active>> /\ SessionType /\ Grows
      /\ pending[e] \in Requests /\ Fits(Absent, pending[e], account)
  BY SameTokens DEF Mount, serverVars, IInv, SessionType
<1>2. /\ s \in EngineState /\ s.phase = "live" /\ s.access = NoToken /\ ~s.authed /\ ~s.mutex
      /\ s.refresh = stored /\ engine[e].phase = "absent"
  <2>1. /\ Absent \in EngineState /\ Absent.access = NoToken /\ ~Absent.authed /\ ~Absent.mutex
        /\ Absent.phase = "absent"
    BY DEF Absent, EngineState, NoToken
  <2> QED BY <1>1, <2>1 DEF EngineState, SessionType
<1>3. \A c \in Call : pending[e][c].stage = "idle"
  BY <1>1, <1>2 DEF Fits, NotLive
<1>4. Fits(s, pending[e], account)
  BY <1>1, <1>2, <1>3 DEF Fits, NotLive, Shown, AtMostOne, AnswersIssued, InFlight, RefreshSlot, Call
<1>5. CASE stored # NoToken
  <2>1. RequestRefresh(e, s, TRUE)
    BY <1>5 DEF Mount
  <2> HIDE DEF s
  <2> QED BY <1>1, <1>2, <1>4, <1>5, <2>1, RequestStep
<1>6. CASE stored = NoToken
  <2>1. engine' = [engine EXCEPT ![e] = s] /\ UNCHANGED <<pending, stored, inbox>>
    BY <1>6 DEF Mount
  <2> HIDE DEF s
  <2>2. SessionType' /\ engine'[e] = s /\ pending'[e] = pending[e]
    BY <1>1, <1>2, <2>1 DEF SessionType, Grows
  <2>3. StepOf(e)
    BY <1>1, <1>2, <2>1, <2>2 DEF StepOf, SessionType
  <2>4. Fits(s, pending'[e], account')
    BY <1>1, <1>4, <2>2
  <2> QED BY <1>1, <1>2, <2>1, <2>2, <2>3, <2>4, StepFits DEF IInv, Warned, Live, Signed, StepOf
<1> QED BY <1>5, <1>6

LEMMA HandleEventKeeps ==
    ASSUME IInv, NEW e \in Engine, HandleEvent(e)
    PROVE  IInv'
<1>1. /\ SessionType /\ Grows /\ engine[e] \in EngineState /\ pending[e] \in Requests
      /\ inbox[e] \in Seq(Event) /\ inbox[e] # <<>> /\ Live(e) /\ engine[e].phase = "live"
      /\ UNCHANGED <<account, active, pending, stored>>
      /\ inbox' = [inbox EXCEPT ![e] = Tail(inbox[e])]
      /\ Fits(engine[e], pending[e], account)
  BY SameTokens DEF HandleEvent, serverVars, IInv, SessionType, Live
<1> DEFINE t == SignOut(engine[e])
           s == IF Head(inbox[e]) # "TOKEN_REFRESHED" THEN [t EXCEPT !.timer = FALSE]
                ELSE [engine[e] EXCEPT !.refresh = IF stored # NoToken THEN stored ELSE @]
<1>2. engine' = [engine EXCEPT ![e] = s]
  BY DEF HandleEvent
<1>3. Tail(inbox[e]) \in Seq(Event) /\ inbox' \in [Engine -> Seq(Event)]
  BY <1>1 DEF SessionType
<1>4. CASE Head(inbox[e]) # "TOKEN_REFRESHED"
  <2>1. /\ t \in EngineState /\ t.phase = engine[e].phase /\ t.mutex = engine[e].mutex
        /\ t.access = NoToken /\ ~t.authed
    BY <1>1, SignOutState
  <2> HIDE DEF t
  <2>2. /\ s \in EngineState /\ s.phase = "live" /\ s.mutex = engine[e].mutex
        /\ s.access = NoToken /\ ~s.authed
    BY <1>1, <1>4, <2>1 DEF EngineState
  <2> HIDE DEF s
  <2>3. Fits(s, pending[e], account)
    BY <1>1, <2>2 DEF Fits, NotLive, Shown, AtMostOne
  <2>4. SessionType' /\ engine'[e] = s /\ pending'[e] = pending[e]
    BY <1>1, <1>2, <1>3, <2>2 DEF SessionType
  <2>5. StepOf(e)
    BY <1>1, <1>2, <1>3, <2>2, <2>4 DEF StepOf, SessionType
  <2> QED BY <1>1, <1>2, <2>2, <2>3, <2>4, <2>5, StepFits DEF IInv, Warned, Live, Signed, SessionType
<1>5. CASE Head(inbox[e]) = "TOKEN_REFRESHED"
  <2>1. /\ s \in EngineState /\ s.phase = "live" /\ s.mutex = engine[e].mutex
        /\ s.access = engine[e].access /\ s.authed = engine[e].authed /\ s.user = engine[e].user
    BY <1>1, <1>5 DEF EngineState, SessionType
  <2> HIDE DEF s
  <2>2. Fits(s, pending[e], account)
    BY <1>1, <2>1 DEF Fits, NotLive, Shown, AtMostOne
  <2>3. SessionType' /\ engine'[e] = s /\ pending'[e] = pending[e]
    BY <1>1, <1>2, <1>3, <2>1 DEF SessionType
  <2>4. StepOf(e)
    BY <1>1, <1>2, <1>3, <2>1, <2>3 DEF StepOf, SessionType
  <2>5. Told(inbox[e]) => Told(Tail(inbox[e]))
    <3>1. SUFFICES ASSUME NEW i \in 1..Len(inbox[e]), inbox[e][i] # "TOKEN_REFRESHED"
                 PROVE  Told(Tail(inbox[e]))
      BY <1>1 DEF Told
    <3>2. i # 1
      BY <1>1, <1>5, <3>1
    <3>3. /\ Len(Tail(inbox[e])) = Len(inbox[e]) - 1 /\ i - 1 \in 1..Len(Tail(inbox[e]))
          /\ Tail(inbox[e])[i - 1] = inbox[e][i]
      BY <1>1, <3>1, <3>2
    <3>4. DOMAIN Tail(inbox[e]) = 1..Len(Tail(inbox[e]))
      BY <1>3
    <3> QED BY <3>1, <3>3, <3>4 DEF Told
  <2>6. \A x \in Engine : Live(x)' /\ Signed(x)' => Live(x) /\ Signed(x)
    BY <1>1, <2>1, <2>3, <2>4 DEF Live, Signed, StepOf
  <2>7. \A x \in Engine : Told(inbox[x]) => Told(inbox'[x])
    BY <1>1, <2>5 DEF SessionType
  <2> QED BY <1>1, <2>2, <2>3, <2>4, <2>6, <2>7, StepFits DEF IInv, Warned
<1> QED BY <1>4, <1>5

LEMMA DestroyKeeps ==
    ASSUME IInv, NEW e \in Engine, Destroy(e)
    PROVE  IInv'
<1>1. /\ SessionType /\ Grows /\ engine[e] \in EngineState /\ pending[e] \in Requests
      /\ engine[e].phase = "live" /\ UNCHANGED <<account, active, pending, stored>>
      /\ inbox' = [inbox EXCEPT ![e] = <<>>] /\ Fits(engine[e], pending[e], account)
  BY SameTokens DEF Destroy, serverVars, IInv, SessionType, Live
<1> DEFINE t == ClearTokens(engine[e])
           s == [t EXCEPT !.phase = IF \E c \in Call : Busy(e, c) THEN "orphaned" ELSE "destroyed",
                          !.timer = FALSE, !.mutex = FALSE]
<1>2. engine' = [engine EXCEPT ![e] = s]
  BY DEF Destroy
<1>3. t \in EngineState
  BY <1>1 DEF ClearTokens, EngineState, NoToken
<1> HIDE DEF t
<1>4. /\ s \in EngineState /\ s.phase \in {"destroyed", "orphaned"} /\ ~s.timer
      /\ s.phase = "destroyed" => \A c \in Call : ~Busy(e, c)
  BY <1>3 DEF EngineState
<1> HIDE DEF s
<1>5. Fits(s, pending[e], account)
  BY <1>1, <1>4 DEF Fits, NotLive, Shown, AtMostOne, Busy
<1>6. SessionType' /\ engine'[e] = s /\ pending'[e] = pending[e]
  BY <1>1, <1>2, <1>4 DEF SessionType
<1>7. StepOf(e)
  BY <1>1, <1>2, <1>4, <1>6 DEF StepOf, SessionType
<1>8. \A x \in Engine : Live(x)' /\ Signed(x)' => Live(x) /\ Signed(x) /\ inbox'[x] = inbox[x]
  BY <1>1, <1>4, <1>6, <1>7 DEF Live, Signed, StepOf, SessionType
<1> QED BY <1>1, <1>4, <1>5, <1>6, <1>7, <1>8, StepFits DEF IInv, Warned

\* Nothing changes here but the tokens the server takes, or nothing at all.
LEMMA ServerFaultKeeps ==
    ASSUME IInv, ServerFault \/ UNCHANGED vars
    PROVE  IInv'
<1>1. UNCHANGED <<engine, pending, stored, inbox, account>> /\ active' \subseteq active
  BY DEF ServerFault, Restart, Expire, Deactivate, Fault, clientVars, serverVars, vars
<1> QED BY <1>1 DEF IInv, SessionType, Fits, NotLive, Shown, AtMostOne, AnswersIssued, InFlight,
                    Warned, Told, Live, Signed
-----------------------------------------------------------------------------
(* The server's tokens *)

CheckedIssued ==
    \A e \in Engine, c \in Call :
        pending[e][c].stage = "checked" => pending[e][c].token \in 1..Issued

TInv ==
    /\ live \subseteq 1..Issued /\ spent \subseteq 1..Issued
    /\ SpentStaysSpent
    /\ CheckedIssued

\* A step that issues no token and has none checked.
LEMMA TokensRest ==
    ASSUME TInv, UNCHANGED <<account, spent>>, live' \subseteq live,
           \A e \in Engine, c \in Call : pending'[e][c].stage = "checked" =>
               pending[e][c].stage = "checked" /\ pending'[e][c].token = pending[e][c].token
    PROVE  TInv'
BY DEF TInv, SpentStaysSpent, CheckedIssued, Issued

\* A request of one engine moves on, to a stage other than checked.
LEMMA PutRests ==
    ASSUME IInv, TInv, UNCHANGED <<account, spent>>, live' \subseteq live,
           NEW e \in Engine, NEW c \in Call, NEW r, r.stage # "checked", Put(e, c, r)
    PROVE  TInv'
<1>1. \A x \in Engine, d \in Call : pending'[x][d] = IF x = e /\ d = c THEN r ELSE pending[x][d]
  BY DEF Put, IInv, SessionType, Requests
<1> QED BY <1>1, TokensRest

\* The same for what asks for a refresh.
LEMMA RequestRests ==
    ASSUME IInv, TInv, NEW e \in Engine, NEW s, NEW awaited, RequestRefresh(e, s, awaited),
           UNCHANGED serverVars
    PROVE  TInv'
<1>1. CASE SendRefresh(e, s, awaited)
  <2>1. PICK slot \in RefreshSlot : Put(e, slot, Sent(s.refresh, awaited))
    BY <1>1 DEF SendRefresh
  <2>2. slot \in Call /\ Sent(s.refresh, awaited).stage # "checked"
    BY DEF Call, Sent
  <2> QED BY <2>1, <2>2, PutRests DEF serverVars
<1>2. CASE RefreshWithoutToken(e, s, awaited)
  BY <1>2, TokensRest DEF RefreshWithoutToken, serverVars
<1>3. CASE JoinRefresh(e, s, awaited)
  <2> DEFINE p == [c \in Call |-> IF c \in RefreshSlot /\ Busy(e, c)
                     THEN [pending[e][c] EXCEPT !.awaited = @ \/ awaited] ELSE pending[e][c]]
  <2>1. pending' = [pending EXCEPT ![e] = p] /\ pending \in [Engine -> Requests]
    BY <1>3 DEF JoinRefresh, IInv, SessionType
  <2>2. \A c \in Call : p[c].stage = pending[e][c].stage /\ p[c].token = pending[e][c].token
    BY <2>1 DEF Requests, Request
  <2> HIDE DEF p
  <2> QED BY <2>1, <2>2, TokensRest DEF serverVars
<1> QED BY <1>1, <1>2, <1>3 DEF RequestRefresh

LEMMA AnswerTokens ==
    ASSUME IInv, TInv, NEW e \in Engine, Answer(e)
    PROVE  TInv'
<1>0. account \in Seq(Account) /\ pending[e] \in Requests
  BY DEF IInv, SessionType
<1>t. ASSUME NEW c \in Call, NEW who \in Account, NEW token, NEW r, r.stage = "ok", Put(e, c, r),
             account' = Append(account, who), live' \subseteq live \cup {Issued + 1},
             \/ UNCHANGED spent
             \/ token \in 1..Issued /\ spent' = spent \cup {token} /\ token \notin live'
      PROVE  TInv'
  <2>1. \A x \in Engine, d \in Call : pending'[x][d] = IF x = e /\ d = c THEN r ELSE pending[x][d]
    BY <1>t DEF Put, IInv, SessionType, Requests
  <2>2. Len(account') = Len(account) + 1 /\ Len(account) \in Nat
    BY <1>0, <1>t
  <2>3. CheckedIssued'
    BY <2>1, <2>2, <1>t DEF TInv, CheckedIssued, Issued
  <2>4. Issued \in Nat /\ Issued' = Issued + 1
    BY <2>2 DEF Issued
  <2>5. /\ live \subseteq 1..Issued /\ spent \subseteq 1..Issued /\ live \cap spent = {}
        /\ live' \subseteq live \cup {Issued + 1}
    BY <1>t DEF TInv, SpentStaysSpent
  <2>6. spent' \subseteq 1..Issued
    BY <1>t, <2>5
  <2>7. \A x \in live' : x \notin spent'
    <3>1. SUFFICES ASSUME NEW x \in live', x \in spent' PROVE FALSE
      OBVIOUS
    <3>2. x \in 1..Issued
      BY <2>6, <3>1
    <3>3. x # Issued + 1
      BY <2>4, <3>2
    <3>4. x \in live
      BY <2>5, <3>1, <3>3
    <3> QED BY <1>t, <2>5, <3>1, <3>4
  <2>8. live' \subseteq 1..(Issued + 1) /\ spent' \subseteq 1..(Issued + 1)
    BY <2>4, <2>5, <2>6
  <2> QED BY <2>3, <2>4, <2>7, <2>8 DEF TInv, SpentStaysSpent
<1>1. CASE AnswerLogin(e)
  <2> DEFINE request == pending[e]["login"]
  <2>1. request \in Request /\ "login" \in Call
    BY <1>0 DEF Requests, Call
  <2>2. ASSUME NEW who \in Account, ServeLogin(who),
               Put(e, "login", [request EXCEPT !.stage = "ok", !.got = Issued + 1])
        PROVE  TInv'
    <3>1. [request EXCEPT !.stage = "ok", !.got = Issued + 1].stage = "ok"
      BY <2>1 DEF Request
    <3> QED BY <1>t, <2>1, <2>2, <3>1 DEF ServeLogin
  <2>3. ASSUME UNCHANGED serverVars, Put(e, "login", [request EXCEPT !.stage = "denied"])
        PROVE  TInv'
    <3>1. [request EXCEPT !.stage = "denied"].stage # "checked"
      BY <2>1 DEF Request
    <3> QED BY <2>1, <2>3, <3>1, PutRests DEF serverVars
  <2> QED BY <1>1, <2>2, <2>3 DEF AnswerLogin
<1>2. ASSUME NEW slot \in RefreshSlot, CheckRefresh(e, slot)
      PROVE  TInv'
  <2> DEFINE request == pending[e][slot]
             r == [request EXCEPT !.stage = IF request.token \in live THEN "checked" ELSE "denied"]
  <2>1. request \in Request /\ slot \in Call /\ Put(e, slot, r) /\ UNCHANGED serverVars
    BY <1>0, <1>2 DEF Requests, Call, CheckRefresh
  <2>2. r.stage = "checked" => r.token \in live
    BY <2>1 DEF Request
  <2> HIDE DEF r
  <2>3. \A x \in Engine, d \in Call : pending'[x][d] = IF x = e /\ d = slot THEN r ELSE pending[x][d]
    BY <2>1 DEF Put, IInv, SessionType, Requests
  <2> QED BY <2>1, <2>2, <2>3, ZenonT(60) DEF TInv, CheckedIssued, SpentStaysSpent, Issued, serverVars
<1>3. ASSUME NEW slot \in RefreshSlot, AnswerRefresh(e, slot)
      PROVE  TInv'
  <2> DEFINE request == pending[e][slot]
  <2>1. request \in Request /\ slot \in Call /\ request.stage = "checked"
    BY <1>0, <1>3 DEF Requests, Call, AnswerRefresh
  <2>2. request.token \in 1..Issued
    BY <2>1 DEF TInv, CheckedIssued
  <2>3. ASSUME Rotate(request.token),
               Put(e, slot, [request EXCEPT !.stage = "ok", !.got = Issued + 1])
        PROVE  TInv'
    <3>1. [request EXCEPT !.stage = "ok", !.got = Issued + 1].stage = "ok"
      BY <2>1 DEF Request
    <3>2. account[request.token] \in Account /\ request.token \notin live'
      BY <1>0, <2>2, <2>3 DEF Rotate, Issued
    <3> QED BY <1>t, <2>1, <2>2, <2>3, <3>1, <3>2 DEF Rotate
  <2>4. ASSUME RefuseInactive(request.token), Put(e, slot, [request EXCEPT !.stage = "denied"])
        PROVE  TInv'
    <3>1. [request EXCEPT !.stage = "denied"].stage # "checked"
      BY <2>1 DEF Request
    <3> QED BY <2>1, <2>4, <3>1, PutRests DEF RefuseInactive
  <2> QED BY <1>3, <2>3, <2>4 DEF AnswerRefresh
<1> QED BY <1>1, <1>2, <1>3 DEF Answer

\* What the engine does itself issues nothing.
LEMMA EngineTokens ==
    ASSUME IInv, TInv, NEW e \in Engine,
           \/ Mount(e) \/ Login(e) \/ Logout(e) \/ RefreshSession(e) \/ ProactiveRefresh(e)
           \/ Continue(e) \/ HandleEvent(e) \/ Destroy(e)
    PROVE  TInv'
<1>0. "login" \in Call /\ "logout" \in Call /\ RefreshSlot \subseteq Call
  BY DEF Call
<1>1. CASE Mount(e) \/ RefreshSession(e) \/ ProactiveRefresh(e)
  BY <1>1, RequestRests, TokensRest DEF Mount, RefreshSession, ProactiveRefresh, serverVars
<1>2. CASE Login(e) \/ Logout(e)
  BY <1>0, <1>2, PutRests DEF Login, Logout, Sent, serverVars
<1>3. CASE Continue(e)
  BY <1>0, <1>3, PutRests DEF Continue, RefreshSucceeded, RefreshFailed, LoginSucceeded,
     LoginFailed, LogoutFinishes, LoseAnswer, Fault, Idle, serverVars
<1>4. CASE HandleEvent(e) \/ Destroy(e)
  BY <1>4, TokensRest DEF HandleEvent, Destroy, serverVars
<1> QED BY <1>1, <1>2, <1>3, <1>4

LEMMA TokensInit == Init => TInv
BY DEF Init, ServerInit, TInv, SpentStaysSpent, CheckedIssued, Issued, Idle

LEMMA TokensNext ==
    ASSUME IInv, TInv, [Next]_vars
    PROVE  TInv'
<1>1. CASE ServerFault \/ UNCHANGED vars
  BY <1>1, TokensRest DEF ServerFault, Restart, Expire, Deactivate, Fault, clientVars, serverVars, vars
<1> QED BY <1>1, EngineTokens, AnswerTokens DEF Next
-----------------------------------------------------------------------------
LEMMA NextKeeps ==
    ASSUME IInv, [Next]_vars
    PROVE  IInv'
<1>1. ASSUME NEW e \in Engine, Continue(e)
      PROVE  IInv'
  BY <1>1, RefreshSucceededKeeps, RefreshFailedKeeps, LoginSucceededKeeps, LoginFailedKeeps,
     LogoutFinishesKeeps DEF Continue
<1> QED BY <1>1, MountKeeps, LoginKeeps, LogoutKeeps, RefreshSessionKeeps, ProactiveRefreshKeeps,
           AnswerKeeps, HandleEventKeeps, DestroyKeeps, ServerFaultKeeps DEF Next

\* What the invariant says of an engine that has heard everything is what the engines promise.
LEMMA Consistent == IInv /\ TInv => SessionConsistent
<1> SUFFICES ASSUME IInv, TInv PROVE SessionConsistent
  OBVIOUS
<1>1. SessionShown
  BY DEF IInv, Fits, Shown, SessionShown, Live, Signed
<1>2. OneRefresh
  BY DEF IInv, Fits, AtMostOne, InFlight, OneRefresh, Live, Busy
<1>3. AuthedIsPersisted
  BY DEF IInv, Warned, Told, AuthedIsPersisted
<1> QED BY <1>1, <1>2, <1>3 DEF SessionConsistent, TInv

\* Whatever the engines of a browser do and whatever the server answers or forgets, what
\* each app shows is what its engine holds, no engine has two refreshes in flight, a
\* session on show is one a reload would find, and a token spent on a refresh stays spent.
THEOREM SessionsConsistent == Spec => []SessionConsistent
<1> QED BY InitFits, TokensInit, NextKeeps, TokensNext, Consistent, PTL DEF Spec
-----------------------------------------------------------------------------
(***************************************************************************)
(* An engine that has the browser for itself.  LoneInv says of it, as long *)
(* as no fault has happened, that the tokens its requests carry or bring   *)
(* (Claim) are tokens the server accepts, no two of them the same, and     *)
(* that the token it holds is accepted or is the one a refresh that has    *)
(* been answered is about to replace.                                      *)
(***************************************************************************)
Claim(r) ==
    IF r.stage \in {"sent", "checked"} THEN r.token
    ELSE IF r.stage = "ok" THEN r.got ELSE NoToken

\* The requests p, with n tokens issued and the server accepting those of L.
ClaimsOK(p, L, n) ==
    /\ \A c \in Call : Claim(p[c]) \in {NoToken} \cup L
    /\ \A c, d \in Call : c # d /\ Claim(p[c]) = Claim(p[d]) => Claim(p[c]) = NoToken
    /\ \A slot \in RefreshSlot :
         /\ p[slot].stage # "denied"
         /\ p[slot].stage \in {"sent", "checked"} => p[slot].token # NoToken
         /\ p[slot].stage = "ok" => p[slot].token \in (1..n) \ L
    /\ \A c \in Call \ RefreshSlot :
         p[c].stage # "checked" /\ (p[c].stage = "sent" => p[c].token = NoToken)

\* The refresh token t of an engine whose mutex is held or not, n tokens being issued.
HeldOK(t, mutex, p, L, n) ==
    t # NoToken =>
        /\ t \in L \/ \E slot \in RefreshSlot : p[slot].stage = "ok" /\ p[slot].token = t
        /\ t \in 1..n
        /\ \A c \in Call : p[c].stage = "ok" => p[c].got # t
        /\ ~mutex => \A slot \in RefreshSlot : p[slot].stage # "idle" => p[slot].token # t

KeptOK(s, kept) ==
    /\ s.phase = "live" /\ s.access # NoToken => s.refresh # NoToken /\ kept = s.refresh
    /\ s.phase = "absent" => kept = NoToken

LoneOK(s, p, kept, L, n) ==
    ClaimsOK(p, L, n) /\ HeldOK(s.refresh, s.mutex, p, L, n) /\ KeptOK(s, kept)

Alone(e) == faults = 0 /\ \A x \in Engine \ {e} : engine[x] = Absent

LoneInv ==
    /\ faults \in Nat
    /\ faults = 0 => active = Account
    /\ \A e \in Engine : Alone(e) =>
         LoneOK(engine[e], pending[e], stored, live, Issued) /\ inbox[e] = <<>>

\* What one engine does, the server's answers to it included.
Acts(e) ==
    \/ Mount(e) \/ Login(e) \/ Logout(e) \/ RefreshSession(e) \/ ProactiveRefresh(e)
    \/ Answer(e) \/ Continue(e) \/ HandleEvent(e) \/ Destroy(e)

\* A step of engine e alone, which is there afterwards and in order if it was alone.
Lasts(e) ==
    /\ \A x \in Engine \ {e} : engine'[x] = engine[x]
    /\ engine'[e].phase # "absent"
    /\ faults' \in Nat /\ (faults' = 0 => faults = 0 /\ active' = active)
    /\ Alone(e) /\ faults' = 0 =>
         LoneOK(engine'[e], pending'[e], stored', live', Issued') /\ inbox'[e] = <<>>

LEMMA LastsKeeps ==
    ASSUME LoneInv, NEW e \in Engine, Lasts(e)
    PROVE  LoneInv'
<1>1. Absent.phase = "absent"
  BY DEF Absent
<1>2. ASSUME NEW x \in Engine, Alone(x)'
      PROVE  x = e /\ Alone(e) /\ faults' = 0
  BY <1>1, <1>2 DEF Alone, Lasts
<1>3. ASSUME NEW x \in Engine, Alone(x)'
      PROVE  LoneOK(engine'[x], pending'[x], stored', live', Issued') /\ inbox'[x] = <<>>
  BY <1>2, <1>3 DEF Lasts
<1> QED BY <1>3 DEF LoneInv, Lasts

\* Its shape: the state and the requests of e are replaced.
LEMMA StepLasts ==
    ASSUME SessionType, NEW e \in Engine, NEW s, NEW p,
           engine' = [engine EXCEPT ![e] = s], pending' = [pending EXCEPT ![e] = p],
           s.phase # "absent",
           faults' \in Nat, faults' = 0 => faults = 0 /\ active' = active,
           Alone(e) /\ faults' = 0 => LoneOK(s, p, stored', live', Issued') /\ inbox'[e] = <<>>
    PROVE  Lasts(e)
BY DEF SessionType, Lasts

\* A broadcast is not for the engine it comes from.
LEMMA NotForOneself ==
    ASSUME NEW e \in Engine, NEW event, Broadcast(e, event) \/ NoBroadcast
    PROVE  inbox'[e] = inbox[e]
BY DEF Broadcast, NoBroadcast

\* Tokens that are the same before and after, with the requests carrying what they did.
LEMMA SameLone ==
    ASSUME NEW s, NEW t, NEW p, NEW q, NEW kept, NEW L, NEW n, LoneOK(s, p, kept, L, n),
           t.refresh = s.refresh, t.access = s.access, t.phase = s.phase, t.mutex = s.mutex,
           \A c \in Call : q[c].stage = p[c].stage /\ q[c].token = p[c].token /\ q[c].got = p[c].got
    PROVE  LoneOK(t, q, kept, L, n)
<1>1. \A c \in Call : Claim(q[c]) = Claim(p[c])
  BY DEF Claim
<1>2. RefreshSlot \subseteq Call
  BY DEF Call
<1> QED BY <1>1, <1>2 DEF LoneOK, ClaimsOK, HeldOK, KeptOK

\* An engine that holds no token, one of its requests having ended.
LEMMA EndedLone ==
    ASSUME NEW s, NEW t, NEW p, NEW q, NEW c \in Call, NEW kept, NEW next, NEW L, NEW n,
           LoneOK(s, p, kept, L, n), t.refresh = NoToken, t.access = NoToken, t.phase # "absent",
           q[c] \in {Idle, p[c]}, \A d \in Call \ {c} : q[d] = p[d]
    PROVE  LoneOK(t, q, next, L, n)
<1>1. \A d \in Call : Claim(q[d]) \in {NoToken, Claim(p[d])}
  BY DEF Claim, Idle
<1>2. \A d \in Call : q[d] = Idle \/ q[d] = p[d]
  OBVIOUS
<1>3. RefreshSlot \subseteq Call /\ Idle.stage = "idle"
  BY DEF Call, Idle
<1>4. ClaimsOK(q, L, n)
  BY <1>1, <1>2, <1>3 DEF ClaimsOK, LoneOK
<1> QED BY <1>4 DEF LoneOK, HeldOK, KeptOK

\* The engine sends the token it holds.
LEMMA SentLone ==
    ASSUME NEW s, NEW t, NEW p, NEW q, NEW slot \in RefreshSlot, NEW kept, NEW L, NEW n,
           LoneOK(s, p, kept, L, n), ~s.mutex, s.refresh # NoToken, p[slot].stage = "idle",
           t.refresh = s.refresh, t.access = s.access, t.phase = s.phase, t.mutex,
           q[slot].stage = "sent", q[slot].token = s.refresh,
           \A d \in Call \ {slot} : q[d] = p[d]
    PROVE  LoneOK(t, q, kept, L, n)
<1>0. RefreshSlot \subseteq Call /\ slot \in Call
  BY DEF Call
<1>1. /\ s.refresh \in L /\ s.refresh \in 1..n
      /\ \A c \in Call : p[c].stage = "ok" => p[c].got # s.refresh
      /\ \A x \in RefreshSlot : p[x].stage # "idle" => p[x].token # s.refresh
  BY <1>0 DEF LoneOK, HeldOK
<1>2. Claim(q[slot]) = s.refresh
  BY DEF Claim
<1>3. \A d \in Call \ {slot} : Claim(q[d]) = Claim(p[d]) /\ Claim(p[d]) # s.refresh
  BY <1>0, <1>1 DEF Claim, LoneOK, ClaimsOK
<1>4. ClaimsOK(q, L, n)
  <2>1. \A c \in Call : Claim(q[c]) \in {NoToken} \cup L
    BY <1>1, <1>2, <1>3 DEF LoneOK, ClaimsOK
  <2>2. \A c, d \in Call : c # d /\ Claim(q[c]) = Claim(q[d]) => Claim(q[c]) = NoToken
    BY <1>2, <1>3 DEF LoneOK, ClaimsOK
  <2>3. \A x \in RefreshSlot : /\ q[x].stage # "denied"
                               /\ q[x].stage \in {"sent", "checked"} => q[x].token # NoToken
                               /\ q[x].stage = "ok" => q[x].token \in (1..n) \ L
    BY <1>0 DEF LoneOK, ClaimsOK
  <2>4. \A x \in Call \ RefreshSlot :
          q[x].stage # "checked" /\ (q[x].stage = "sent" => q[x].token = NoToken)
    BY <1>0 DEF LoneOK, ClaimsOK
  <2> QED BY <2>1, <2>2, <2>3, <2>4 DEF ClaimsOK
<1>5. HeldOK(t.refresh, t.mutex, q, L, n)
  BY <1>0, <1>1 DEF HeldOK
<1> QED BY <1>4, <1>5 DEF LoneOK, KeptOK

\* The engine takes over what a request has brought.
LEMMA AppliedLone ==
    ASSUME NEW s, NEW t, NEW p \in Requests, NEW q, NEW c \in Call, NEW kept, NEW L, NEW n,
           LoneOK(s, p, kept, L, n), p[c].stage = "ok", L \subseteq 1..n,
           p[c].got # NoToken, q[c] = Idle, \A d \in Call \ {c} : q[d] = p[d],
           t.refresh = p[c].got, t.access = p[c].got, t.phase # "absent"
    PROVE  LoneOK(t, q, p[c].got, L, n)
<1>0. RefreshSlot \subseteq Call /\ Idle.stage = "idle" /\ Claim(Idle) = NoToken
  BY DEF Call, Idle, Claim
<1> DEFINE got == p[c].got
<1>1. Claim(p[c]) = got
  BY DEF Claim
<1>2. got \in L /\ \A d \in Call \ {c} : Claim(p[d]) # got
  BY <1>1 DEF LoneOK, ClaimsOK
<1>3. \A d \in Call : Claim(q[d]) \in {NoToken, Claim(p[d])}
  BY <1>0
<1>4. ClaimsOK(q, L, n)
  <2>1. \A d \in Call : q[d] = Idle \/ q[d] = p[d]
    OBVIOUS
  <2> QED BY <1>0, <1>3, <2>1 DEF ClaimsOK, LoneOK
<1> HIDE DEF got
<1>5. \A d \in Call : q[d].stage = "ok" => q[d].got # got
  BY <1>0, <1>2 DEF Claim, got
<1>6. \A d \in RefreshSlot : q[d].stage # "idle" => q[d].token # got
  <2>1. SUFFICES ASSUME NEW d \in RefreshSlot, d # c, p[d].stage # "idle" PROVE p[d].token # got
    BY <1>0
  <2>2. p[d].stage \in {"sent", "checked", "ok"} /\ d \in Call
    BY <1>0, <2>1 DEF LoneOK, ClaimsOK, Requests, Request
  <2>3. CASE p[d].stage = "ok"
    BY <1>2, <2>3 DEF LoneOK, ClaimsOK
  <2>4. CASE p[d].stage # "ok"
    BY <1>2, <2>1, <2>2, <2>4 DEF Claim
  <2> QED BY <2>3, <2>4
<1>7. HeldOK(t.refresh, t.mutex, q, L, n) /\ KeptOK(t, got)
  BY <1>2, <1>5, <1>6 DEF HeldOK, KeptOK, got
<1> QED BY <1>4, <1>7 DEF LoneOK, got

\* The server answers a request with a new token, for the one the request carried.
LEMMA AnsweredLone ==
    ASSUME NEW s, NEW p, NEW q, NEW c \in Call, NEW kept, NEW L, NEW n \in Nat, NEW M,
           LoneOK(s, p, kept, L, n), L \subseteq 1..n, p[c].stage \in {"sent", "checked"},
           q[c].stage = "ok", q[c].got = n + 1, q[c].token = p[c].token,
           \A d \in Call \ {c} : q[d] = p[d], M = (L \ {p[c].token}) \cup {n + 1}
    PROVE  LoneOK(s, q, kept, M, n + 1)
<1> DEFINE T == p[c].token
           m == n + 1
<1>0. /\ RefreshSlot \subseteq Call /\ m # NoToken /\ m \in 1..m
      /\ 1..n \subseteq 1..m /\ m \notin 1..n /\ Claim(p[c]) = T /\ Claim(q[c]) = m
  BY DEF Call, NoToken, Claim
<1>m. M = (L \ {T}) \cup {m} /\ q[c].token = T /\ q[c].got = m
  OBVIOUS
<1> HIDE DEF m, T
<1>1. /\ T \in {NoToken} \cup L
      /\ c \in RefreshSlot => T # NoToken
      /\ \A d \in Call \ {c} : Claim(p[d]) = T => T = NoToken
  BY <1>0 DEF LoneOK, ClaimsOK, T
<1>2. c \notin RefreshSlot => T = NoToken
  BY DEF LoneOK, ClaimsOK, T
<1>n. NoToken \notin L /\ T \notin M
  <2>1. NoToken \notin 1..n
    BY DEF NoToken
  <2>2. T # m
    BY <1>0, <1>1
  <2> QED BY <2>1, <2>2, <1>m
<1>3. \A d \in Call \ {c} : Claim(q[d]) = Claim(p[d])
  OBVIOUS
<1>4. \A d \in Call : Claim(q[d]) \in {NoToken} \cup M
  <2>1. SUFFICES ASSUME NEW d \in Call \ {c} PROVE Claim(p[d]) \in {NoToken} \cup M
    BY <1>0, <1>3, <1>m
  <2>2. Claim(p[d]) \in {NoToken} \cup L /\ (Claim(p[d]) = T => T = NoToken)
    BY <1>1 DEF LoneOK, ClaimsOK
  <2> QED BY <2>2, <1>m
<1>5. ClaimsOK(q, M, m)
  <2>1. \A d \in Call \ {c} : Claim(p[d]) # m
    BY <1>0 DEF LoneOK, ClaimsOK
  <2>2. \A b, d \in Call : b # d /\ Claim(q[b]) = Claim(q[d]) => Claim(q[b]) = NoToken
    BY <1>0, <1>3, <2>1 DEF LoneOK, ClaimsOK
  <2>3. ASSUME NEW x \in RefreshSlot
        PROVE  /\ q[x].stage # "denied"
               /\ q[x].stage \in {"sent", "checked"} => q[x].token # NoToken
               /\ q[x].stage = "ok" => q[x].token \in (1..m) \ M
    <3>1. CASE x = c
      <4>1. T \in L
        BY <1>1, <3>1
      <4>2. T \in 1..m
        BY <1>0, <4>1
      <4> QED BY <1>m, <1>n, <3>1, <4>2
    <3>2. CASE x # c
      <4>1. /\ p[x].stage # "denied"
            /\ p[x].stage \in {"sent", "checked"} => p[x].token # NoToken
            /\ p[x].stage = "ok" => p[x].token \in (1..n) \ L
        BY DEF LoneOK, ClaimsOK
      <4>2. q[x] = p[x] /\ M \subseteq L \cup {m}
        BY <1>0, <1>m, <3>2
      <4> QED BY <1>0, <4>1, <4>2
    <3> QED BY <3>1, <3>2
  <2>4. \A x \in Call \ RefreshSlot :
          q[x].stage # "checked" /\ (q[x].stage = "sent" => q[x].token = NoToken)
    BY DEF LoneOK, ClaimsOK
  <2> QED BY <1>4, <2>2, <2>3, <2>4 DEF ClaimsOK
<1>6. ASSUME s.refresh # NoToken
      PROVE  /\ \/ s.refresh \in M
                \/ \E slot \in RefreshSlot : q[slot].stage = "ok" /\ q[slot].token = s.refresh
             /\ s.refresh \in 1..m
             /\ \A d \in Call : q[d].stage = "ok" => q[d].got # s.refresh
             /\ ~s.mutex => \A x \in RefreshSlot : q[x].stage # "idle" => q[x].token # s.refresh
  <2>1. /\ \/ s.refresh \in L
           \/ \E slot \in RefreshSlot : p[slot].stage = "ok" /\ p[slot].token = s.refresh
        /\ s.refresh \in 1..n
        /\ \A d \in Call : p[d].stage = "ok" => p[d].got # s.refresh
        /\ ~s.mutex => \A x \in RefreshSlot : p[x].stage # "idle" => p[x].token # s.refresh
    BY <1>6 DEF LoneOK, HeldOK
  <2>2. \/ s.refresh \in M
        \/ \E slot \in RefreshSlot : q[slot].stage = "ok" /\ q[slot].token = s.refresh
    <3>1. CASE s.refresh = T
      <4>1. c \in RefreshSlot
        BY <1>2, <1>6, <3>1
      <4> QED BY <1>m, <3>1, <4>1
    <3>2. CASE s.refresh \in L /\ s.refresh # T
      BY <1>m, <3>2
    <3>3. CASE \E slot \in RefreshSlot : p[slot].stage = "ok" /\ p[slot].token = s.refresh
      <4>1. PICK x \in RefreshSlot : p[x].stage = "ok" /\ p[x].token = s.refresh
        BY <3>3
      <4>2. x \in Call /\ x # c
        BY <1>0, <4>1
      <4> QED BY <4>1, <4>2
    <3> QED BY <2>1, <3>1, <3>2, <3>3
  <2>5. s.refresh # m /\ s.refresh \in 1..m
    BY <1>0, <2>1
  <2>6. \A d \in Call : q[d].stage = "ok" => q[d].got # s.refresh
    BY <1>m, <2>1, <2>5
  <2>7. ~s.mutex => \A x \in RefreshSlot : q[x].stage # "idle" => q[x].token # s.refresh
    BY <1>0, <1>m, <2>1
  <2> QED BY <2>2, <2>5, <2>6, <2>7
<1>7. HeldOK(s.refresh, s.mutex, q, M, m)
  BY <1>6 DEF HeldOK
<1> QED BY <1>5, <1>7 DEF LoneOK, KeptOK, m

\* What is known of engine e before a step.
LEMMA BeforeStep ==
    ASSUME IInv, TInv, LoneInv, NEW e \in Engine
    PROVE  /\ SessionType /\ engine[e] \in EngineState /\ pending[e] \in Requests
           /\ Fits(engine[e], pending[e], account)
           /\ live \subseteq 1..Issued /\ Issued \in Nat /\ account \in Seq(Account)
           /\ faults \in Nat /\ (faults = 0 => active = Account)
           /\ RefreshSlot \subseteq Call /\ "login" \in Call /\ "logout" \in Call
           /\ Alone(e) => LoneOK(engine[e], pending[e], stored, live, Issued) /\ inbox[e] = <<>>
BY DEF IInv, SessionType, TInv, LoneInv, Call, Issued

\* Whoever asks for a refresh, with the engine as s.
LEMMA RequestLasts ==
    ASSUME IInv, TInv, LoneInv, NEW e \in Engine, NEW s \in EngineState, NEW awaited \in BOOLEAN,
           RequestRefresh(e, s, awaited), UNCHANGED serverVars, s.phase # "absent",
           Alone(e) => LoneOK(s, pending[e], stored, live, Issued)
    PROVE  Lasts(e)
<1>0. /\ SessionType /\ pending[e] \in Requests /\ faults' \in Nat /\ RefreshSlot \subseteq Call
      /\ faults' = 0 => faults = 0 /\ active' = active
      /\ Alone(e) => inbox[e] = <<>>
      /\ UNCHANGED <<live, account, faults, active>> /\ Issued' = Issued
  BY BeforeStep DEF serverVars, Issued
<1>1. CASE s.mutex /\ JoinRefresh(e, s, awaited)
  <2> DEFINE q == [c \in Call |-> IF c \in RefreshSlot /\ Busy(e, c)
                     THEN [pending[e][c] EXCEPT !.awaited = @ \/ awaited] ELSE pending[e][c]]
  <2>1. /\ engine' = [engine EXCEPT ![e] = s] /\ pending' = [pending EXCEPT ![e] = q]
        /\ UNCHANGED <<stored, inbox>>
    BY <1>1 DEF JoinRefresh, NoBroadcast
  <2>2. \A c \in Call : /\ q[c].stage = pending[e][c].stage /\ q[c].token = pending[e][c].token
                        /\ q[c].got = pending[e][c].got
    BY <1>0 DEF Requests, Request
  <2> HIDE DEF q
  <2>3. Alone(e) => LoneOK(s, q, stored, live, Issued)
    BY <2>2, SameLone
  <2> QED BY <1>0, <2>1, <2>3, StepLasts
<1>2. CASE ~s.mutex /\ s.refresh # NoToken /\ SendRefresh(e, s, awaited)
  <2>1. PICK slot \in RefreshSlot : ~Busy(e, slot) /\ Put(e, slot, Sent(s.refresh, awaited))
    BY <1>2 DEF SendRefresh
  <2> DEFINE t == [s EXCEPT !.mutex = TRUE]
             q == [pending[e] EXCEPT ![slot] = Sent(s.refresh, awaited)]
  <2>2. /\ engine' = [engine EXCEPT ![e] = t] /\ pending' = [pending EXCEPT ![e] = q]
        /\ UNCHANGED <<stored, inbox>>
    BY <1>2, <2>1 DEF SendRefresh, Put, NoBroadcast
  <2>3. t.mutex /\ t.phase = s.phase /\ t.access = s.access /\ t.refresh = s.refresh
    BY DEF EngineState
  <2>4. /\ q[slot].stage = "sent" /\ q[slot].token = s.refresh
        /\ \A c \in Call \ {slot} : q[c] = pending[e][c]
    BY <1>0 DEF Requests, Sent
  <2> HIDE DEF t, q
  <2>5. Alone(e) => LoneOK(t, q, stored, live, Issued)
    BY <1>2, <2>1, <2>3, <2>4, SentLone DEF Busy
  <2> QED BY <1>0, <2>2, <2>3, <2>5, StepLasts
<1>3. CASE ~s.mutex /\ s.refresh = NoToken /\ RefreshWithoutToken(e, s, awaited)
  <2>0. UNCHANGED pending /\ pending' = [pending EXCEPT ![e] = pending[e]]
    BY <1>0, <1>3 DEF RefreshWithoutToken, SessionType
  <2>1. CASE awaited
    <3> DEFINE t == SignOut(s)
    <3>1. /\ engine' = [engine EXCEPT ![e] = t] /\ stored' = NoToken
          /\ Broadcast(e, "SESSION_EXPIRED")
      BY <1>3, <2>1 DEF RefreshWithoutToken
    <3>2. t.phase = s.phase /\ t.access = NoToken /\ t.refresh = NoToken
      BY DEF SignOut, ClearAuthState, ClearTokens, SetAuthenticated, EngineState
    <3> HIDE DEF t
    <3>3. Alone(e) => LoneOK(t, pending[e], stored', live, Issued)
      <4>1. "login" \in Call
        BY DEF Call
      <4> QED BY <3>2, <4>1, EndedLone
    <3> QED BY <1>0, <2>0, <3>1, <3>2, <3>3, StepLasts, NotForOneself
  <2>2. CASE ~awaited
    <3>1. engine' = [engine EXCEPT ![e] = s] /\ UNCHANGED <<stored, inbox>>
      BY <1>3, <2>2 DEF RefreshWithoutToken, NoBroadcast
    <3> QED BY <1>0, <2>0, <3>1, StepLasts
  <2> QED BY <2>1, <2>2
<1> QED BY <1>1, <1>2, <1>3 DEF RequestRefresh

\* Mounting, refreshSession and the timer.
LEMMA AskingLasts ==
    ASSUME IInv, TInv, LoneInv, NEW e \in Engine,
           Mount(e) \/ RefreshSession(e) \/ ProactiveRefresh(e)
    PROVE  Lasts(e)
<1>0. /\ SessionType /\ engine[e] \in EngineState /\ pending[e] \in Requests
      /\ faults \in Nat
      /\ Fits(engine[e], pending[e], account)
      /\ Alone(e) => LoneOK(engine[e], pending[e], stored, live, Issued) /\ inbox[e] = <<>>
  BY BeforeStep
<1>1. CASE Mount(e)
  <2> DEFINE s == [Absent EXCEPT !.phase = "live", !.refresh = stored]
  <2>1. engine[e] = Absent /\ Absent.phase = "absent" /\ Absent \in EngineState /\ stored \in Nat
    BY <1>0, <1>1 DEF Mount, Absent, EngineState, NoToken, SessionType
  <2>2. /\ s \in EngineState /\ s.phase = "live" /\ s.refresh = stored
        /\ s.access = Absent.access /\ s.mutex = Absent.mutex
    BY <2>1 DEF EngineState
  <2>3. Alone(e) => stored = NoToken
    BY <1>0, <2>1 DEF LoneOK, KeptOK
  <2> HIDE DEF s
  <2>4. Alone(e) => LoneOK(s, pending[e], stored, live, Issued)
    <3>1. Absent.access = NoToken /\ Absent.refresh = NoToken
      BY DEF Absent
    <3> QED BY <1>0, <2>1, <2>2, <2>3, <3>1 DEF LoneOK, HeldOK, KeptOK
  <2>5. CASE stored # NoToken
    <3>1. RequestRefresh(e, s, TRUE) /\ UNCHANGED serverVars
      BY <1>1, <2>5 DEF Mount, s
    <3> QED BY <2>2, <2>4, <3>1, RequestLasts
  <2>6. CASE stored = NoToken
    <3>1. /\ engine' = [engine EXCEPT ![e] = s] /\ UNCHANGED <<pending, stored, inbox, serverVars>>
          /\ pending' = [pending EXCEPT ![e] = pending[e]]
      BY <1>0, <1>1, <2>6 DEF Mount, s, SessionType
    <3> QED BY <1>0, <2>2, <2>4, <3>1, StepLasts DEF serverVars, Issued
  <2> QED BY <2>5, <2>6
<1>2. CASE RefreshSession(e)
  <2>1. RequestRefresh(e, engine[e], TRUE) /\ UNCHANGED serverVars /\ engine[e].phase # "absent"
    BY <1>2 DEF RefreshSession, Calling, Live
  <2> QED BY <1>0, <2>1, RequestLasts
<1>3. CASE ProactiveRefresh(e)
  <2> DEFINE s == [engine[e] EXCEPT !.timer = FALSE]
  <2>1. RequestRefresh(e, s, FALSE) /\ UNCHANGED serverVars /\ engine[e].timer
    BY <1>3 DEF ProactiveRefresh
  <2>2. /\ s \in EngineState /\ s.phase = engine[e].phase /\ s.access = engine[e].access
        /\ s.refresh = engine[e].refresh /\ s.mutex = engine[e].mutex
    BY <1>0 DEF EngineState
  <2> HIDE DEF s
  <2>3. s.phase # "absent"
    BY <1>0, <2>1, <2>2 DEF Fits, NotLive
  <2>4. Alone(e) => LoneOK(s, pending[e], stored, live, Issued)
    BY <1>0, <2>2, SameLone
  <2> QED BY <2>1, <2>2, <2>3, <2>4, RequestLasts
<1> QED BY <1>1, <1>2, <1>3

\* The result of a request is applied.
LEMMA ApplyingLasts ==
    ASSUME IInv, TInv, LoneInv, NEW e \in Engine, NEW c \in Call, NEW t,
           pending[e][c].stage = "ok",
           t.refresh = pending[e][c].got, t.access = pending[e][c].got, t.phase # "absent",
           engine' = [engine EXCEPT ![e] = t], stored' = pending[e][c].got, Put(e, c, Idle),
           UNCHANGED serverVars, NEW event, Broadcast(e, event) \/ NoBroadcast
    PROVE  Lasts(e)
<1>0. /\ SessionType /\ pending[e] \in Requests /\ live \subseteq 1..Issued /\ faults \in Nat
      /\ Fits(engine[e], pending[e], account)
      /\ Alone(e) => LoneOK(engine[e], pending[e], stored, live, Issued) /\ inbox[e] = <<>>
  BY BeforeStep
<1> DEFINE q == [pending[e] EXCEPT ![c] = Idle]
<1>1. /\ pending' = [pending EXCEPT ![e] = q]
      /\ q[c] = Idle /\ \A d \in Call \ {c} : q[d] = pending[e][d]
  BY <1>0 DEF Put, Requests
<1> HIDE DEF q
<1>2. pending[e][c].got # NoToken
  BY <1>0 DEF Fits, AnswersIssued, NoToken
<1>3. Alone(e) => LoneOK(t, q, stored', live, Issued)
  BY <1>0, <1>1, <1>2, AppliedLone
<1>4. UNCHANGED <<faults, active, live>> /\ Issued' = Issued
  BY DEF serverVars, Issued
<1> QED BY <1>0, <1>1, <1>3, <1>4, StepLasts, NotForOneself

\* A request has ended and with it the session, or has been denied.
LEMMA EndingLasts ==
    ASSUME IInv, TInv, LoneInv, NEW e \in Engine, NEW c \in Call, NEW t,
           t.refresh = NoToken, t.access = NoToken, t.phase # "absent",
           engine' = [engine EXCEPT ![e] = t], NEW r \in {Idle, pending[e][c]}, Put(e, c, r),
           UNCHANGED serverVars, inbox'[e] = inbox[e] \/ inbox'[e] = <<>>
    PROVE  Lasts(e)
<1>0. /\ SessionType /\ pending[e] \in Requests /\ faults \in Nat
      /\ Alone(e) => LoneOK(engine[e], pending[e], stored, live, Issued) /\ inbox[e] = <<>>
  BY BeforeStep
<1> DEFINE q == [pending[e] EXCEPT ![c] = r]
<1>1. /\ pending' = [pending EXCEPT ![e] = q]
      /\ q[c] = r /\ \A d \in Call \ {c} : q[d] = pending[e][d]
  BY <1>0 DEF Put, Requests
<1> HIDE DEF q
<1>e. q[c] \in {Idle, pending[e][c]}
  BY <1>1
<1>2. ASSUME Alone(e)
      PROVE  LoneOK(t, q, stored', live, Issued)
  <2>1. LoneOK(engine[e], pending[e], stored, live, Issued)
    BY <1>0, <1>2
  <2>2. \A d \in Call \ {c} : q[d] = pending[e][d]
    BY <1>1
  <2>3. t.refresh = NoToken /\ t.access = NoToken /\ t.phase # "absent"
    OBVIOUS
  <2> QED BY <1>e, <2>1, <2>2, <2>3, EndedLone, SMTT(30)
<1>3. UNCHANGED <<faults, active, live>> /\ Issued' = Issued
  BY DEF serverVars, Issued
<1> QED BY <1>0, <1>1, <1>2, <1>3, StepLasts

\* A lost answer is a fault, and what comes of it nobody is promised.
LEMMA LosingLasts ==
    ASSUME IInv, TInv, LoneInv, NEW e \in Engine, NEW t, NEW c, NEW r,
           t.phase # "absent", engine' = [engine EXCEPT ![e] = t], Put(e, c, r), LoseAnswer
    PROVE  Lasts(e)
<1>1. SessionType /\ faults \in Nat
  BY BeforeStep
<1>2. faults' \in Nat /\ faults' # 0
  BY <1>1 DEF LoseAnswer, Fault
<1> DEFINE q == [pending[e] EXCEPT ![c] = r]
<1>3. pending' = [pending EXCEPT ![e] = q]
  BY <1>1 DEF Put, SessionType
<1> HIDE DEF q
<1> QED BY <1>1, <1>2, <1>3, StepLasts

\* What the engine does with the answers.
LEMMA ContinueLasts ==
    ASSUME IInv, TInv, LoneInv, NEW e \in Engine, Continue(e)
    PROVE  Lasts(e)
<1>0. /\ SessionType /\ engine[e] \in EngineState /\ pending[e] \in Requests
      /\ Fits(engine[e], pending[e], account)
      /\ faults \in Nat
      /\ RefreshSlot \subseteq Call /\ "login" \in Call /\ "logout" \in Call
      /\ Alone(e) => LoneOK(engine[e], pending[e], stored, live, Issued) /\ inbox[e] = <<>>
  BY BeforeStep
<1>1. ASSUME NEW c \in Call, pending[e][c].stage # "idle"
      PROVE  engine[e].phase # "absent"
  BY <1>0, <1>1 DEF Fits, NotLive
<1>2. ASSUME NEW c \in Call, pending[e][c].stage = "ok"
      PROVE  LET t == ApplyAuthResult(engine[e], pending[e][c].got)
             IN  /\ t \in EngineState /\ t.phase # "absent"
                 /\ t.refresh = pending[e][c].got /\ t.access = pending[e][c].got
  <2> DEFINE token == pending[e][c].got
             r == [engine[e] EXCEPT !.access = token, !.refresh = token]
             u == SetAuthenticated(r, TRUE)
  <2>1. token \in Nat /\ account[token] \in Account /\ engine[e].phase # "absent"
    BY <1>0, <1>1, <1>2 DEF Fits, AnswersIssued, SessionType, Requests, Request
  <2> HIDE DEF token
  <2>2. /\ r \in EngineState /\ r.access = token /\ r.refresh = token /\ r.phase = engine[e].phase
    BY <1>0, <2>1 DEF EngineState
  <2>3. /\ u \in EngineState /\ u.access = token /\ u.refresh = token /\ u.phase = engine[e].phase
    BY <2>2, SetState
  <2>4. ApplyAuthResult(engine[e], token) = [u EXCEPT !.user = account[token], !.timer = TRUE]
    BY DEF ApplyAuthResult
  <2> HIDE DEF u
  <2> QED BY <2>1, <2>3, <2>4 DEF EngineState, token
<1>3. /\ SignOut(engine[e]) \in EngineState
      /\ SignOut(engine[e]).phase = engine[e].phase
      /\ SignOut(engine[e]).access = NoToken /\ SignOut(engine[e]).refresh = NoToken
  <2>1. SignOut(engine[e]).refresh = NoToken
    BY <1>0 DEF SignOut, ClearAuthState, ClearTokens, SetAuthenticated, EngineState
  <2> QED BY <1>0, <2>1, SignOutState
<1>4. ASSUME NEW slot \in RefreshSlot, RefreshSucceeded(e, slot)
      PROVE  Lasts(e)
  <2> DEFINE t == ApplyAuthResult(engine[e], pending[e][slot].got)
             u == [t EXCEPT !.mutex = FALSE]
  <2>1. /\ pending[e][slot].stage = "ok" /\ slot \in Call
        /\ engine' = [engine EXCEPT ![e] = u] /\ stored' = pending[e][slot].got
        /\ Put(e, slot, Idle) /\ UNCHANGED serverVars
        /\ Broadcast(e, "TOKEN_REFRESHED") \/ NoBroadcast
    BY <1>0, <1>4 DEF RefreshSucceeded
  <2>2. /\ t \in EngineState /\ t.phase # "absent"
        /\ t.refresh = pending[e][slot].got /\ t.access = pending[e][slot].got
    BY <1>2, <2>1
  <2> HIDE DEF t
  <2>3. /\ u.phase # "absent"
        /\ u.refresh = pending[e][slot].got /\ u.access = pending[e][slot].got
    BY <2>2 DEF EngineState
  <2> HIDE DEF u
  <2> QED BY <2>1, <2>3, ApplyingLasts
<1>5. ASSUME LoginSucceeded(e)
      PROVE  Lasts(e)
  <2> DEFINE t == ApplyAuthResult(engine[e], pending[e]["login"].got)
             u == [t EXCEPT !.loading = FALSE]
  <2>1. /\ pending[e]["login"].stage = "ok"
        /\ engine' = [engine EXCEPT ![e] = u] /\ stored' = pending[e]["login"].got
        /\ Put(e, "login", Idle) /\ UNCHANGED serverVars /\ NoBroadcast
    BY <1>5 DEF LoginSucceeded
  <2>2. /\ t \in EngineState /\ t.phase # "absent"
        /\ t.refresh = pending[e]["login"].got /\ t.access = pending[e]["login"].got
    BY <1>0, <1>2, <2>1
  <2> HIDE DEF t
  <2>3. /\ u.phase # "absent"
        /\ u.refresh = pending[e]["login"].got /\ u.access = pending[e]["login"].got
    BY <2>2 DEF EngineState
  <2> HIDE DEF u
  <2> QED BY <1>0, <2>1, <2>3, ApplyingLasts
<1>6. ASSUME NEW slot \in RefreshSlot, RefreshFailed(e, slot)
      PROVE  Lasts(e)
  <2> DEFINE t == SignOut(engine[e])
             u == [t EXCEPT !.mutex = FALSE]
             v == [engine[e] EXCEPT !.mutex = FALSE]
  <2>1. /\ slot \in Call /\ Put(e, slot, Idle)
        /\ pending[e][slot].stage \in {"denied", "ok"}
        /\ pending[e][slot].stage = "denied" => UNCHANGED serverVars
        /\ pending[e][slot].stage = "ok" => LoseAnswer
        /\ \/ engine' = [engine EXCEPT ![e] = u] /\ Broadcast(e, "SESSION_EXPIRED")
           \/ engine' = [engine EXCEPT ![e] = v] /\ NoBroadcast
    BY <1>0, <1>6 DEF RefreshFailed, SessionType
  <2>2. engine[e].phase # "absent"
    BY <1>1, <2>1
  <2> HIDE DEF t
  <2>3. u.phase # "absent" /\ v.phase # "absent"
    BY <1>0, <1>3, <2>2 DEF EngineState, t
  <2> HIDE DEF u, v
  <2>4. CASE pending[e][slot].stage = "ok"
    BY <2>1, <2>3, <2>4, LosingLasts
  <2>5. CASE pending[e][slot].stage = "denied"
    <3>1. ~Alone(e)
      BY <1>0, <2>5 DEF LoneOK, ClaimsOK
    <3>2. UNCHANGED <<faults, active>>
      BY <2>1, <2>5 DEF serverVars
    <3> DEFINE q == [pending[e] EXCEPT ![slot] = Idle]
    <3>3. pending' = [pending EXCEPT ![e] = q]
      BY <1>0, <2>1 DEF Put, SessionType
    <3> HIDE DEF q
    <3> QED BY <1>0, <2>1, <2>3, <3>1, <3>2, <3>3, StepLasts
  <2> QED BY <2>1, <2>4, <2>5
<1>7. ASSUME LoginFailed(e)
      PROVE  Lasts(e)
  <2> DEFINE r == ClearTokens(engine[e])
             t == SetAuthenticated(r, FALSE)
             u == [t EXCEPT !.loading = FALSE]
  <2>1. /\ Put(e, "login", Idle) /\ UNCHANGED inbox
        /\ pending[e]["login"].stage \in {"denied", "ok"}
        /\ pending[e]["login"].stage = "denied" => UNCHANGED serverVars
        /\ pending[e]["login"].stage = "ok" => LoseAnswer
        /\ engine' = [engine EXCEPT ![e] = u]
    BY <1>7 DEF LoginFailed
  <2>2. engine[e].phase # "absent"
    BY <1>0, <1>1, <2>1
  <2>3. r \in EngineState /\ r.access = NoToken /\ r.refresh = NoToken /\ r.phase = engine[e].phase
    BY <1>0 DEF ClearTokens, EngineState, NoToken
  <2> HIDE DEF r
  <2>4. t \in EngineState /\ t.access = NoToken /\ t.refresh = NoToken /\ t.phase = engine[e].phase
    BY <2>3, SetState
  <2> HIDE DEF t
  <2>5. u.access = NoToken /\ u.refresh = NoToken /\ u.phase # "absent"
    BY <2>2, <2>4 DEF EngineState
  <2> HIDE DEF u
  <2>6. CASE pending[e]["login"].stage = "ok"
    BY <2>1, <2>5, <2>6, LosingLasts
  <2>7. CASE pending[e]["login"].stage = "denied"
    BY <1>0, <2>1, <2>5, <2>7, EndingLasts
  <2> QED BY <2>1, <2>6, <2>7
<1>8. ASSUME LogoutFinishes(e)
      PROVE  Lasts(e)
  <2> DEFINE t == SignOut(engine[e])
  <2>1. /\ Put(e, "logout", Idle) /\ Broadcast(e, "SIGNED_OUT") /\ UNCHANGED serverVars
        /\ engine' = [engine EXCEPT ![e] = t] /\ pending[e]["logout"].stage # "idle"
    BY <1>8 DEF LogoutFinishes, Busy
  <2>2. t.access = NoToken /\ t.refresh = NoToken /\ t.phase # "absent"
    BY <1>0, <1>1, <1>3, <2>1
  <2> HIDE DEF t
  <2> QED BY <1>0, <2>1, <2>2, EndingLasts, NotForOneself
<1> QED BY <1>4, <1>5, <1>6, <1>7, <1>8 DEF Continue

\* Requests that are sent or answered.
LEMMA RequestMovesLasts ==
    ASSUME IInv, TInv, LoneInv, NEW e \in Engine, Login(e) \/ Logout(e) \/ Answer(e)
    PROVE  Lasts(e)
<1>0. /\ SessionType /\ engine[e] \in EngineState /\ pending[e] \in Requests
      /\ Fits(engine[e], pending[e], account)
      /\ live \subseteq 1..Issued /\ Issued \in Nat /\ account \in Seq(Account)
      /\ faults \in Nat /\ (faults = 0 => active = Account)
      /\ RefreshSlot \subseteq Call /\ "login" \in Call /\ "logout" \in Call
      /\ Alone(e) => LoneOK(engine[e], pending[e], stored, live, Issued) /\ inbox[e] = <<>>
  BY BeforeStep
<1>1. ASSUME NEW c \in Call \ RefreshSlot, NEW s, NEW r,
             r.stage = "denied" \/ (r.stage = "sent" /\ r.token = NoToken), Put(e, c, r),
             engine' = [engine EXCEPT ![e] = s], s.phase = engine[e].phase, s.phase # "absent",
             s.refresh = engine[e].refresh, s.access = engine[e].access, s.mutex = engine[e].mutex,
             UNCHANGED <<serverVars, stored, inbox>>
      PROVE  Lasts(e)
  <2> DEFINE q == [pending[e] EXCEPT ![c] = r]
  <2>1. /\ pending' = [pending EXCEPT ![e] = q]
        /\ q[c] = r /\ \A d \in Call \ {c} : q[d] = pending[e][d]
    BY <1>0, <1>1 DEF Put, Requests
  <2> HIDE DEF q
  <2>2. Alone(e) => LoneOK(s, q, stored, live, Issued)
    <3>1. SUFFICES ASSUME LoneOK(engine[e], pending[e], stored, live, Issued)
                   PROVE  LoneOK(s, q, stored, live, Issued)
      BY <1>0
    <3>2. Claim(q[c]) = NoToken /\ \A d \in Call \ {c} : Claim(q[d]) = Claim(pending[e][d])
      BY <1>1, <2>1 DEF Claim
    <3>3. \A slot \in RefreshSlot : q[slot] = pending[e][slot]
      BY <1>0, <1>1, <2>1
    <3>4. ClaimsOK(q, live, Issued)
      BY <1>1, <2>1, <3>1, <3>2, <3>3 DEF LoneOK, ClaimsOK
    <3>5. HeldOK(s.refresh, s.mutex, q, live, Issued)
      BY <1>1, <2>1, <3>1, <3>3 DEF LoneOK, HeldOK
    <3> QED BY <1>1, <3>1, <3>4, <3>5 DEF LoneOK, KeptOK
  <2>3. UNCHANGED <<faults, active, live>> /\ Issued' = Issued
    BY <1>1 DEF serverVars, Issued
  <2> QED BY <1>0, <1>1, <2>1, <2>2, <2>3, StepLasts
<1>2. "login" \in Call \ RefreshSlot /\ "logout" \in Call \ RefreshSlot
  BY DEF Call, RefreshSlot
<1>3. CASE Login(e)
  <2> DEFINE s == [engine[e] EXCEPT !.loading = TRUE]
             r == Sent(NoToken, TRUE)
  <2>1. /\ engine' = [engine EXCEPT ![e] = s] /\ Put(e, "login", r)
        /\ UNCHANGED <<serverVars, stored, inbox>> /\ engine[e].phase # "absent"
    BY <1>0, <1>3 DEF Login, Calling, Live, SessionType
  <2>2. /\ s.phase = engine[e].phase /\ s.refresh = engine[e].refresh
        /\ s.access = engine[e].access /\ s.mutex = engine[e].mutex
        /\ r.stage = "sent" /\ r.token = NoToken
    BY <1>0 DEF EngineState, Sent
  <2> HIDE DEF s, r
  <2> QED BY <1>1, <1>2, <2>1, <2>2
<1>4. CASE Logout(e)
  <2> DEFINE s == [engine[e] EXCEPT !.timer = FALSE]
             r == Sent(NoToken, TRUE)
  <2>1. /\ engine' = [engine EXCEPT ![e] = s] /\ Put(e, "logout", r)
        /\ UNCHANGED <<serverVars, stored, inbox>> /\ engine[e].phase # "absent"
    BY <1>0, <1>4 DEF Logout, Calling, Live, SessionType
  <2>2. /\ s.phase = engine[e].phase /\ s.refresh = engine[e].refresh
        /\ s.access = engine[e].access /\ s.mutex = engine[e].mutex
        /\ r.stage = "sent" /\ r.token = NoToken
    BY <1>0 DEF EngineState, Sent
  <2> HIDE DEF s, r
  <2> QED BY <1>1, <1>2, <2>1, <2>2
<1>5. ASSUME NEW c \in Call, pending[e][c].stage # "idle"
      PROVE  engine[e].phase # "absent"
  BY <1>0, <1>5 DEF Fits, NotLive
<1>6. ASSUME NEW c \in Call, NEW r, NEW who \in Account, Put(e, c, r),
             pending[e][c].stage \in {"sent", "checked"},
             r.stage = "ok", r.got = Issued + 1, r.token = pending[e][c].token,
             account' = Append(account, who),
             Alone(e) => live' = (live \ {pending[e][c].token}) \cup {Issued + 1},
             UNCHANGED <<active, faults, engine, stored, inbox>>
      PROVE  Lasts(e)
  <2> DEFINE q == [pending[e] EXCEPT ![c] = r]
  <2>1. /\ pending' = [pending EXCEPT ![e] = q] /\ engine' = [engine EXCEPT ![e] = engine[e]]
        /\ q[c] = r /\ \A d \in Call \ {c} : q[d] = pending[e][d]
    BY <1>0, <1>6 DEF Put, Requests, SessionType
  <2> HIDE DEF q
  <2>2. Issued' = Issued + 1
    BY <1>0, <1>6 DEF Issued
  <2>3. Alone(e) => LoneOK(engine[e], q, stored, live', Issued')
    BY <1>0, <1>6, <2>1, <2>2, AnsweredLone
  <2>4. engine[e].phase # "absent"
    BY <1>5, <1>6
  <2> QED BY <1>0, <1>6, <2>1, <2>3, <2>4, StepLasts
<1>7. CASE AnswerLogin(e)
  <2> DEFINE request == pending[e]["login"]
             r == [request EXCEPT !.stage = "ok", !.got = Issued + 1]
             k == [request EXCEPT !.stage = "denied"]
  <2>1. /\ request \in Request /\ request.stage = "sent" /\ UNCHANGED <<engine, stored, inbox>>
        /\ \/ (\E who \in Account : ServeLogin(who)) /\ Put(e, "login", r)
           \/ UNCHANGED serverVars /\ Put(e, "login", k)
    BY <1>0, <1>7 DEF AnswerLogin, Requests
  <2>2. r.stage = "ok" /\ r.got = Issued + 1 /\ r.token = request.token /\ k.stage = "denied"
    BY <2>1 DEF Request
  <2> HIDE DEF r, k
  <2>3. ASSUME NEW who \in Account, ServeLogin(who), Put(e, "login", r)
        PROVE  Lasts(e)
    <3>1. Alone(e) => request.token = NoToken
      BY <1>0, <1>2, <2>1 DEF LoneOK, ClaimsOK
    <3>2. NoToken \notin live
      BY <1>0 DEF NoToken
    <3>3. Alone(e) => live' = (live \ {request.token}) \cup {Issued + 1}
      BY <2>3, <3>1, <3>2 DEF ServeLogin
    <3>4. account' = Append(account, who) /\ UNCHANGED <<active, faults>>
      BY <2>3 DEF ServeLogin
    <3> QED BY <1>0, <1>6, <2>1, <2>2, <2>3, <3>3, <3>4
  <2>4. ASSUME UNCHANGED serverVars, Put(e, "login", k)
        PROVE  Lasts(e)
    <3>1. engine' = [engine EXCEPT ![e] = engine[e]] /\ engine[e].phase # "absent"
      BY <1>0, <1>5, <2>1 DEF SessionType
    <3> QED BY <1>1, <1>2, <2>1, <2>2, <2>4, <3>1
  <2> QED BY <2>1, <2>3, <2>4
<1>8. ASSUME NEW slot \in RefreshSlot, CheckRefresh(e, slot)
      PROVE  Lasts(e)
  <2> DEFINE request == pending[e][slot]
             r == [request EXCEPT !.stage = IF request.token \in live THEN "checked" ELSE "denied"]
             q == [pending[e] EXCEPT ![slot] = r]
  <2>1. /\ request \in Request /\ request.stage = "sent" /\ slot \in Call
        /\ UNCHANGED <<engine, stored, inbox, serverVars>>
        /\ pending' = [pending EXCEPT ![e] = q] /\ engine' = [engine EXCEPT ![e] = engine[e]]
        /\ UNCHANGED <<faults, active, live>> /\ Issued' = Issued
    BY <1>0, <1>8 DEF CheckRefresh, Requests, Put, SessionType, serverVars, Issued
  <2>2. /\ r.token = request.token /\ r.got = request.got
        /\ request.token \in live => r.stage = "checked"
    BY <2>1 DEF Request
  <2> HIDE DEF r
  <2>3. q[slot] = r /\ \A d \in Call \ {slot} : q[d] = pending[e][d]
    BY <1>0, <2>1 DEF Requests
  <2> HIDE DEF q
  <2>4. Alone(e) => LoneOK(engine[e], q, stored, live, Issued)
    <3>1. SUFFICES ASSUME LoneOK(engine[e], pending[e], stored, live, Issued)
                   PROVE  LoneOK(engine[e], q, stored, live, Issued)
      BY <1>0
    <3>2. Claim(request) = request.token /\ request.token # NoToken
      BY <2>1, <3>1 DEF Claim, LoneOK, ClaimsOK
    <3>3. request.token \in live /\ r.stage = "checked"
      BY <2>1, <2>2, <3>1, <3>2 DEF LoneOK, ClaimsOK
    <3>4. \A d \in Call : Claim(q[d]) = Claim(pending[e][d])
      BY <2>1, <2>2, <2>3, <3>3 DEF Claim
    <3>5. ClaimsOK(q, live, Issued)
      BY <1>0, <2>1, <2>2, <2>3, <3>1, <3>2, <3>3, <3>4 DEF LoneOK, ClaimsOK
    <3>6. HeldOK(engine[e].refresh, engine[e].mutex, q, live, Issued)
      BY <1>0, <2>1, <2>2, <2>3, <3>1, <3>3 DEF LoneOK, HeldOK
    <3> QED BY <3>1, <3>5, <3>6 DEF LoneOK
  <2>5. engine[e].phase # "absent"
    BY <1>5, <2>1
  <2> QED BY <1>0, <2>1, <2>4, <2>5, StepLasts
<1>9. ASSUME NEW slot \in RefreshSlot, AnswerRefresh(e, slot)
      PROVE  Lasts(e)
  <2> DEFINE request == pending[e][slot]
             r == [request EXCEPT !.stage = "ok", !.got = Issued + 1]
             k == [request EXCEPT !.stage = "denied"]
  <2>1. /\ request \in Request /\ request.stage = "checked" /\ slot \in Call
        /\ UNCHANGED <<engine, stored, inbox>>
        /\ \/ Rotate(request.token) /\ Put(e, slot, r)
           \/ RefuseInactive(request.token) /\ Put(e, slot, k)
    BY <1>0, <1>9 DEF AnswerRefresh, Requests
  <2>2. r.stage = "ok" /\ r.got = Issued + 1 /\ r.token = request.token
    BY <2>1 DEF Request
  <2> HIDE DEF r, k
  <2>3. request.token \in 1..Issued /\ account[request.token] \in Account
    BY <1>0, <2>1 DEF TInv, CheckedIssued, Issued
  <2>4. CASE Rotate(request.token) /\ Put(e, slot, r)
    <3>1. /\ account' = Append(account, account[request.token]) /\ UNCHANGED <<active, faults>>
          /\ live' = (live \ {request.token}) \cup {Issued + 1}
      BY <2>4 DEF Rotate
    <3> QED BY <1>6, <2>1, <2>2, <2>3, <2>4, <3>1
  <2>5. CASE RefuseInactive(request.token) /\ Put(e, slot, k)
    <3>1. faults # 0 /\ UNCHANGED <<faults, active>>
      BY <1>0, <2>3, <2>5 DEF RefuseInactive
    <3> DEFINE q == [pending[e] EXCEPT ![slot] = k]
    <3>2. pending' = [pending EXCEPT ![e] = q] /\ engine' = [engine EXCEPT ![e] = engine[e]]
      BY <1>0, <2>1, <2>5 DEF Put, SessionType
    <3> HIDE DEF q
    <3>3. engine[e].phase # "absent"
      BY <1>5, <2>1
    <3> QED BY <1>0, <3>1, <3>2, <3>3, StepLasts
  <2> QED BY <2>1, <2>4, <2>5
<1> QED BY <1>3, <1>4, <1>7, <1>8, <1>9 DEF Answer

\* An engine that is alone hears of nobody; unmounted, it holds nothing.
LEMMA LeavingLasts ==
    ASSUME IInv, TInv, LoneInv, NEW e \in Engine, HandleEvent(e) \/ Destroy(e)
    PROVE  Lasts(e)
<1>0. /\ SessionType /\ engine[e] \in EngineState /\ pending[e] \in Requests /\ faults \in Nat
      /\ "login" \in Call
      /\ Alone(e) => LoneOK(engine[e], pending[e], stored, live, Issued) /\ inbox[e] = <<>>
  BY BeforeStep
<1>1. pending' = [pending EXCEPT ![e] = pending[e]] /\ Put(e, "login", pending[e]["login"])
  BY <1>0 DEF HandleEvent, Destroy, Put, Requests, SessionType
<1>2. CASE HandleEvent(e)
  <2> DEFINE t == SignOut(engine[e])
             u == [t EXCEPT !.timer = FALSE]
             v == [engine[e] EXCEPT !.refresh = IF stored # NoToken THEN stored ELSE @]
  <2>1. /\ engine' = [engine EXCEPT ![e] = u] \/ engine' = [engine EXCEPT ![e] = v]
        /\ UNCHANGED <<faults, active>> /\ inbox[e] # <<>> /\ engine[e].phase = "live"
    BY <1>2 DEF HandleEvent, serverVars, Live
  <2>2. t \in EngineState /\ t.phase = engine[e].phase
    BY <1>0, SignOutState
  <2> HIDE DEF t
  <2>3. u.phase # "absent" /\ v.phase # "absent"
    BY <1>0, <2>1, <2>2 DEF EngineState
  <2> HIDE DEF u, v
  <2> QED BY <1>0, <1>1, <2>1, <2>3, StepLasts
<1>3. CASE Destroy(e)
  <2> DEFINE t == ClearTokens(engine[e])
             u == [t EXCEPT !.phase = IF \E c \in Call : Busy(e, c) THEN "orphaned" ELSE "destroyed",
                            !.timer = FALSE, !.mutex = FALSE]
  <2>1. /\ engine' = [engine EXCEPT ![e] = u] /\ UNCHANGED serverVars
        /\ inbox'[e] = <<>>
    BY <1>0, <1>3 DEF Destroy, SessionType
  <2>2. t \in EngineState /\ t.access = NoToken /\ t.refresh = NoToken
    BY <1>0 DEF ClearTokens, EngineState, NoToken
  <2> HIDE DEF t
  <2>3. u.phase # "absent" /\ u.access = NoToken /\ u.refresh = NoToken
    BY <2>2 DEF EngineState
  <2> HIDE DEF u
  <2> QED BY <1>0, <1>1, <2>1, <2>3, EndingLasts
<1> QED BY <1>2, <1>3

LEMMA LoneInit == Init => LoneInv
BY DEF Init, ServerInit, LoneInv, LoneOK, ClaimsOK, HeldOK, KeptOK, Claim, Absent, Idle,
       Call, RefreshSlot, NoToken

LEMMA LoneNext ==
    ASSUME IInv, TInv, LoneInv, [Next]_vars
    PROVE  LoneInv'
<1>1. CASE ServerFault
  <2>1. faults \in Nat /\ faults' = faults + 1
    BY <1>1 DEF LoneInv, ServerFault, Restart, Expire, Deactivate, Fault
  <2> QED BY <2>1 DEF LoneInv, Alone
<1>2. CASE UNCHANGED vars
  BY <1>2 DEF vars, clientVars, serverVars, LoneInv, Alone, Issued
<1>3. ASSUME NEW e \in Engine, Acts(e)
      PROVE  LoneInv'
  BY <1>3, AskingLasts, RequestMovesLasts, ContinueLasts, LeavingLasts, LastsKeeps DEF Acts
<1> QED BY <1>1, <1>2, <1>3 DEF Next, Acts

\* An engine that has the browser for itself keeps its session until a fault or the user
\* ends it: the server refuses none of its refreshes, however they overlap with logins and
\* logouts, and while it is signed in its refresh token is one the server accepts and the
\* one a reload would find.
THEOREM LoneSessionsLast == Spec => []LoneSessionLasts
<1>1. IInv /\ LoneInv => LoneSessionLasts
  <2> SUFFICES ASSUME IInv, LoneInv, NEW e \in Engine,
                      faults = 0, \A x \in Engine \ {e} : engine[x] = Absent
               PROVE  /\ \A slot \in RefreshSlot : pending[e][slot].stage # "denied"
                      /\ Live(e) /\ Signed(e) /\ (\A slot \in RefreshSlot : pending[e][slot].stage # "ok") =>
                           engine[e].refresh \in live /\ stored = engine[e].refresh
    BY DEF LoneSessionLasts
  <2>1. LoneOK(engine[e], pending[e], stored, live, Issued)
    BY DEF LoneInv, Alone
  <2> QED BY <2>1 DEF LoneOK, ClaimsOK, HeldOK, KeptOK, Live, Signed
<1> QED BY <1>1, InitFits, TokensInit, LoneInit, NextKeeps, TokensNext, LoneNext, PTL DEF Spec
=============================================================================
