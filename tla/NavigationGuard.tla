-------------------------- MODULE NavigationGuard --------------------------
(***************************************************************************)
(* Navigation of the app engine (createAppEngine) composed with the editor *)
(* sessions of the current screen: navigateScreen and goBackScreen are     *)
(* blocked while a guarded session is dirty, and a blocked navigation is   *)
(* cancelled, retried, or continued after saving or discarding.            *)
(*                                                                         *)
(* navigate and goBack contain no await, so a navigation is one step; save *)
(* and proceed awaits one save after the other.  Access rules, parameters, *)
(* state policies and breadcrumbs are left out: they do not read or write  *)
(* what the guard uses.                                                    *)
(***************************************************************************)
EXTENDS EditorSession

CONSTANTS
    Screen,      \* the screens that are navigated to
    Home,        \* the initial screen, which holds the sessions
    Guarded,     \* navigationGuard.sessions: a list, or <<>> for all
    SessionList, \* all sessions, in the order of their metadata
    Caller,      \* concurrent calls of navigationGuardSaveAndProceed
    MaxHops      \* bound: length of the navigation history

VARIABLES
    history,  \* /navigation/history; its last element is the current screen
    pending,  \* /ui/navigationGuard/pending, or NoPending
    error,    \* whether /ui/navigationGuard/error is set
    call      \* the calls of navigationGuardSaveAndProceed

guardVars == <<history, pending, error, call>>
allVars == <<vars, guardVars>>

NoPending == [action |-> "none"]
Pending(action, screen, dirty) == [action |-> action, screen |-> screen, sessions |-> dirty]
NoCall == [pc |-> "idle"]

Watched == IF Guarded = <<>> THEN SessionList ELSE Guarded

\* The bounds leave room for what the calls under way may still do.
Active == {c \in Caller : call[c].pc \in {"next", "await"}}
RoomToNavigate == Len(history) + Cardinality(Active) < MaxHops
RoomToSave == \A s \in Session : runtime[s].attempts + Cardinality(Active) < MaxSaves[s]

\* getGuardedDirtySessions, at their places in the list: by the metadata that the sessions
\* have written.
DirtyAmong(sessions) == [i \in {i \in DOMAIN sessions : meta[sessions[i]].dirty} |-> sessions[i]]
Clean(sessions) == \A i \in DOMAIN sessions : ~meta[sessions[i]].dirty

GuardInit ==
    /\ Init
    /\ history = <<Home>> /\ pending = NoPending /\ error = FALSE
    /\ call = [c \in Caller |-> NoCall]

-----------------------------------------------------------------------------
(***************************************************************************)
(* Navigating.  The arrival at another screen is the state after any of    *)
(* the two; bypassed ones come from runPendingNavigation.                  *)
(***************************************************************************)
Arrive(screen) == history' = Append(history, screen)
\* shouldBlockNavigation: the attempt is recorded with the sessions now dirty.
Block(action, screen) ==
    /\ ~Clean(Watched)
    /\ pending' = Pending(action, screen, DirtyAmong(Watched))
    /\ error' = FALSE
    /\ UNCHANGED history

Navigate(screen) ==
    /\ RoomToNavigate
    /\ \/ Block("navigateScreen", screen)
       \/ Clean(Watched) /\ Arrive(screen) /\ UNCHANGED <<pending, error>>
    /\ UNCHANGED <<vars, call>>

Return == history' = IF Len(history) > 1 THEN Front(history) ELSE history

GoBack ==
    /\ Len(history) > 1
    /\ \/ Block("goBackScreen", Home)
       \/ Clean(Watched) /\ Return /\ UNCHANGED <<pending, error>>
    /\ UNCHANGED <<vars, call>>

\* runPendingNavigation, with the attempt p that the caller has captured.
RunPending(p) ==
    /\ pending' = NoPending /\ error' = FALSE
    /\ IF p.action = "goBackScreen" THEN Return ELSE Arrive(p.screen)

Cancel ==
    /\ pending # NoPending
    /\ pending' = NoPending /\ error' = FALSE
    /\ UNCHANGED <<vars, history, call>>

\* navigationGuardProceed.
Proceed ==
    /\ pending # NoPending /\ RoomToNavigate
    /\ \/ /\ ~Clean(pending.sessions)
          /\ error' = TRUE /\ UNCHANGED <<history, pending>>
       \/ /\ Clean(pending.sessions)
          /\ RunPending(pending)
    /\ UNCHANGED <<vars, call>>

-----------------------------------------------------------------------------
(***************************************************************************)
(* Discarding and saving.                                                  *)
(***************************************************************************)
Discarded(r) == [r EXCEPT !.undo = <<>>, !.redo = <<>>, !.revision = @ + 1,
                          !.saveStatus = IF @ = "saving" THEN @ ELSE "idle"]

\* navigationGuardDiscardAndProceed while the engine is attached: every session
\* of the attempt is discarded, then the navigation runs.
DiscardAndProceed ==
    LET lost == ToSet(pending.sessions)
        d == [p \in Path |-> IF \E s \in lost : p \in Tracked[s]
                              THEN runtime[CHOOSE s \in lost : p \in Tracked[s]].saved[p]
                              ELSE doc[p]]
        r == [s \in Session |-> IF s \in lost THEN Discarded(runtime[s]) ELSE runtime[s]]
    IN  /\ pending # NoPending /\ RoomToNavigate
        /\ \A s \in Session : Mounted(s)
        /\ \A s \in lost : runtime[s].revision < MaxRevision[s]
        /\ doc' = d /\ runtime' = r
        /\ meta' = [s \in Session |-> IF s \in lost THEN Metadata(s, r[s], d) ELSE meta[s]]
        /\ docAt' = [s \in Session |-> IF s \in lost THEN Append(docAt[s], Capture(d, s)) ELSE docAt[s]]
        /\ RunPending(pending)
        /\ UNCHANGED <<sending, server, call>>

\* navigationGuardSaveAndProceed begins: it captures the attempt.
BeginSave(c) ==
    /\ call[c].pc \in {"idle", "ended"} /\ pending # NoPending
    /\ RoomToNavigate /\ RoomToSave
    /\ \A s \in Session : Mounted(s)
    /\ call' = [call EXCEPT ![c] = [pc |-> "next", pending |-> pending, left |-> DOMAIN pending.sessions]]
    /\ UNCHANGED <<vars, history, pending, error>>

\* Both when the engine has been detached: an error, and nothing else.
NoEngine ==
    /\ pending # NoPending /\ \E s \in Session : ~Mounted(s)
    /\ error' = TRUE
    /\ UNCHANGED <<vars, history, pending, call>>

Ended == [pc |-> "ended"]
Upcoming(c) == call[c].pending.sessions[Earliest(call[c].left)]

\* The next session is saved, or the save in flight is joined; a session that
\* has been unmounted meanwhile makes save throw.
SaveNext(c) ==
    LET s == Upcoming(c)
        await == [call EXCEPT ![c].pc = "await"]
    IN  /\ call[c].pc = "next" /\ call[c].left # {}
        /\ \/ /\ ~Mounted(s)
              /\ call' = [call EXCEPT ![c] = Ended] /\ error' = TRUE
              /\ UNCHANGED vars
           \/ /\ Mounted(s) /\ sending[s] # NoSave
              /\ call' = await /\ UNCHANGED <<vars, error>>
           \/ /\ StartSave(s)
              /\ call' = await /\ UNCHANGED error
        /\ UNCHANGED <<history, pending>>

\* Fault: it waits for a success.
SaveAnsweredOk(c) ==
    /\ call[c].pc = "await" /\ sending[Upcoming(c)] = NoSave
    /\ runtime[Upcoming(c)].saveStatus = "saved"
    /\ call' = [call EXCEPT ![c].pc = "next", ![c].left = @ \ {Earliest(@)}]
    /\ UNCHANGED <<vars, history, pending, error>>

\* The save it waits for has been answered.
SaveAnswered(c) ==
    /\ call[c].pc = "await" /\ sending[Upcoming(c)] = NoSave
    /\ call' = [call EXCEPT ![c].pc = "next", ![c].left = @ \ {Earliest(@)}]
    /\ UNCHANGED <<vars, history, pending, error>>

\* Fault: the navigation runs whatever the saves have come to.
FinishSaveBlindly(c) ==
    /\ call[c].pc = "next" /\ call[c].left = {}
    /\ call' = [call EXCEPT ![c] = Ended]
    /\ RunPending(call[c].pending)
    /\ UNCHANGED vars

\* All saves are through: the sessions of the captured attempt are looked at
\* again, and the captured attempt runs.
FinishSave(c) ==
    LET p == call[c].pending
    IN  /\ call[c].pc = "next" /\ call[c].left = {}
        /\ call' = [call EXCEPT ![c] = Ended]
        /\ \/ /\ ~Clean(p.sessions)
              /\ error' = TRUE /\ UNCHANGED <<history, pending>>
           \/ /\ Clean(p.sessions)
              /\ RunPending(p)
        /\ UNCHANGED vars

\* Once the screen of the sessions has been left, the host unmounts them.
Leave == Last(history) # Home /\ Unmount /\ UNCHANGED guardVars

Guard ==
    \/ \E screen \in Screen : Navigate(screen)
    \/ GoBack \/ Cancel \/ Proceed \/ DiscardAndProceed \/ NoEngine
SaveAndProceed(c) == SaveNext(c) \/ SaveAnswered(c) \/ FinishSave(c)

GuardNext ==
    \/ Guard
    \/ \E c \in Caller : BeginSave(c) \/ SaveAndProceed(c)
    \/ \E s \in Session : (Edit(s) \/ Saving(s)) /\ UNCHANGED guardVars
    \/ \E s \in Session : RoomToSave /\ StartSave(s) /\ UNCHANGED guardVars
    \/ Leave

GuardSpec == GuardInit /\ [][GuardNext]_allVars

\* The event loop goes on with a call, and fetchWithTimeout aborts a request that
\* is not answered in time.
FairGuardSpec ==
    /\ GuardSpec
    /\ \A c \in Caller : WF_allVars(SaveAndProceed(c))
    /\ \A s \in Session : WF_allVars((Saved(s) \/ SaveFailed(s)) /\ UNCHANGED guardVars)

-----------------------------------------------------------------------------
(***************************************************************************)
(* Properties.                                                             *)
(***************************************************************************)
DirtySession(s) == Mounted(s) /\ Now(s) # runtime[s].saved

GuardTypeOK ==
    /\ history \in Seq(Screen \cup {Home}) /\ history # <<>> /\ history[1] = Home
    /\ pending # NoPending => DOMAIN pending.sessions # {}

\* No screen is left while one of its guarded sessions is dirty, whatever is
\* edited while the saves of a save-and-proceed are awaited.
LeavesClean == history' # history => \A s \in ToSet(Watched) : ~DirtySession(s)'

\* What a screen leaves behind was stored by the server or discarded.
LeavesStored ==
    history' # history /\ (\A s \in Session : Mounted(s)) =>
      \A s \in ToSet(Watched) : sending[s] = NoSave => server[s] = Now(s)'

\* Navigation keeps the edits of a guarded screen.
GuardKeepsEdits == [][LeavesClean /\ LeavesStored]_allVars

\* A save-and-proceed navigates only for an attempt that is still pending.
ProceedsOnlyWhilePending ==
    [][\A c \in Caller : call[c].pc = "next" /\ history' # history /\ call'[c] = Ended
         => pending = call[c].pending]_allVars

\* A save-and-proceed comes to an end.
CallsEnd == \A c \in Caller : call[c].pc = "next" ~> call[c].pc = "ended"
=============================================================================
