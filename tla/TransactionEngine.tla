------------------------- MODULE TransactionEngine -------------------------
(***************************************************************************)
(* The transaction engine (createTransactionEngine) over one state store:  *)
(* transactions wait in a queue and run one at a time, each through        *)
(* before, snapshot, optimistic, confirm, and onSuccess or rollback and    *)
(* onError.                                                                *)
(*                                                                         *)
(* Every dispatch awaits (middleware, fetch), so between any two actions   *)
(* of a list anything else may run: the confirm list of a transaction,     *)
(* which goes on after the engine has stopped waiting for it, and lists    *)
(* dispatched outside any transaction (events).  Each such list of actions *)
(* is a thread.                                                            *)
(***************************************************************************)
EXTENDS StateStore, FiniteSets

CONSTANTS
    Tx,       \* the transactions, each executed at most once
    Config,   \* the TransactionConfig of each: a list of actions per phase
    Event,    \* lists of actions dispatched outside transactions
    Actions,  \* the list of each event
    Slow,     \* transactions whose confirm phase may reach its timeout
    Cell      \* the cells of the state that the actions use

LastError == <<"ui", "lastError">>
Loading == <<"ui", "loading">>
TxRoot == <<"tx">>
TxError == <<"tx", "error">>
Result == <<"tx", "result">>

Phases == {"before", "optimistic", "confirm", "onSuccess", "onError"}
ASSUME ConfigForm ==
    /\ \A t \in Tx : Phases \subseteq DOMAIN Config[t]
    /\ \A t \in Tx, ph \in Phases : Config[t][ph] \in Seq(ToSet(Config[t][ph]))
    /\ \A e \in Event : Actions[e] \in Seq(ToSet(Actions[e]))
    /\ {LastError, Loading, TxError, Result} \subseteq Cell

\* The actions: setState, fetch (target Root: none), and one that throws.
SetState(path, value) == [action |-> "setState", path |-> path, value |-> value]
Fetch(target, data) == [action |-> "fetch", path |-> target, value |-> data]
Throw == [action |-> "throw", path |-> Root, value |-> None]

Data(d) == [kind |-> "data", of |-> d]
Error(who) == [kind |-> "error", of |-> who]
On == [kind |-> "on"]

NoTx == "no transaction"
ASSUME NoTxIsNone == NoTx \notin Tx
Main(t) == <<"main", t>>
Confirming(t) == <<"confirm", t>>
Thread == ({"main", "confirm"} \X Tx) \cup ({"event"} \X Event)

VARIABLES
    store,     \* the state store
    queue,     \* the transactions that wait
    running,   \* the transaction that runs, or NoTx
    phase,     \* where each transaction is
    race,      \* the promise of each confirm list
    todo,      \* the actions each thread still has to dispatch
    waiting,   \* the threads whose fetch is in flight
    snapshot,  \* the tree each transaction would restore
    order,     \* history: the transactions in the order of execute
    outcome,   \* history: how each ended
    failed,    \* history: transactions that threw, timed out, or whose last answered confirm request failed
    stray,     \* history: what was written, cell and value, by lists outside the running transaction
    crossed    \* history: what others did to lastError while a transaction's confirm was awaited

recordVars == <<order, outcome, failed, stray, crossed>>
engineVars == <<store, queue, running, phase, race, todo, waiting, snapshot, recordVars>>

State(cell) == store[cell]

EngineInit ==
    /\ store = NewStore(Cell)
    /\ queue = <<>> /\ running = NoTx
    /\ phase = [t \in Tx |-> "new"]
    /\ race = [t \in Tx |-> "none"]
    /\ todo = [th \in Thread |-> IF th[1] = "event" THEN Actions[th[2]] ELSE <<>>]
    /\ waiting = {}
    /\ snapshot = [t \in Tx |-> store]
    /\ order = <<>>
    /\ outcome = [t \in Tx |-> "open"]
    /\ failed = {} /\ stray = {} /\ crossed = [t \in Tx |-> {}]

-----------------------------------------------------------------------------
(***************************************************************************)
(* The queue.                                                              *)
(***************************************************************************)
\* Fault: the flag is not read, so a transaction starts while another runs.
ExecuteAtOnce(t) ==
    /\ phase[t] = "new"
    /\ order' = Append(order, t)
    /\ running' = t /\ queue' = queue
    /\ phase' = [phase EXCEPT ![t] = "before"]
    /\ todo' = [todo EXCEPT ![Main(t)] = Config[t].before]
    /\ UNCHANGED <<store, race, waiting, snapshot, outcome, failed, stray, crossed>>

\* execute, with the processQueue that follows.
Execute(t) ==
    /\ phase[t] = "new"
    /\ order' = Append(order, t)
    /\ \/ /\ running = NoTx
          /\ running' = t /\ queue' = queue
          /\ phase' = [phase EXCEPT ![t] = "before"]
          /\ todo' = [todo EXCEPT ![Main(t)] = Config[t].before]
       \/ /\ running # NoTx
          /\ queue' = Append(queue, t)
          /\ phase' = [phase EXCEPT ![t] = "queued"]
          /\ UNCHANGED <<running, todo>>
    /\ UNCHANGED <<store, race, waiting, snapshot, outcome, failed, stray, crossed>>

\* Fault: the queue is not processed when a transaction ends.
ReleaseNoNext(t, rest) ==
    /\ running' = NoTx /\ queue' = queue
    /\ phase' = [phase EXCEPT ![t] = "ended"]
    /\ todo' = [rest EXCEPT ![Main(t)] = <<>>]

\* runTransaction has settled: the flag is reset and the next one starts.
Release(t, rest) ==
    IF queue = <<>>
      THEN /\ running' = NoTx /\ queue' = queue
           /\ phase' = [phase EXCEPT ![t] = "ended"]
           /\ todo' = [rest EXCEPT ![Main(t)] = <<>>]
      ELSE LET next == Head(queue)
           IN  /\ running' = next /\ queue' = Tail(queue)
               /\ phase' = [phase EXCEPT ![t] = "ended", ![next] = "before"]
               /\ todo' = [rest EXCEPT ![Main(t)] = <<>>, ![Main(next)] = Config[next].before]

-----------------------------------------------------------------------------
(***************************************************************************)
(* The phases.                                                             *)
(***************************************************************************)
\* The thread has dispatched all its actions and the last one has settled.
Through(th) == todo[th] = <<>> /\ th \notin waiting

\* Fault: the snapshot is the state of before the before phase.
TakeSnapshotEarly(t) ==
    /\ phase[t] = "before" /\ Through(Main(t))
    /\ phase' = [phase EXCEPT ![t] = "optimistic"]
    /\ todo' = [todo EXCEPT ![Main(t)] = Config[t].optimistic]
    /\ UNCHANGED <<store, queue, running, race, waiting, snapshot, recordVars>>

\* After the before phase: the snapshot is taken, the optimistic phase starts.
TakeSnapshot(t) ==
    /\ phase[t] = "before" /\ Through(Main(t))
    /\ snapshot' = [snapshot EXCEPT ![t] = store]
    /\ phase' = [phase EXCEPT ![t] = "optimistic"]
    /\ todo' = [todo EXCEPT ![Main(t)] = Config[t].optimistic]
    /\ UNCHANGED <<store, queue, running, race, waiting, recordVars>>

\* Fault: an error left by an earlier fetch is not cleared.
StartConfirmKeepsError(t) ==
    /\ phase[t] = "optimistic" /\ Through(Main(t))
    /\ phase' = [phase EXCEPT ![t] = "confirm"]
    /\ race' = [race EXCEPT ![t] = "pending"]
    /\ todo' = [todo EXCEPT ![Confirming(t)] = Config[t].confirm]
    /\ UNCHANGED <<store, queue, running, waiting, snapshot, recordVars>>

\* lastError is cleared, then the confirm list and the timer start.
StartConfirm(t) ==
    /\ phase[t] = "optimistic" /\ Through(Main(t))
    /\ store' = SetTo(store, LastError, None)
    /\ phase' = [phase EXCEPT ![t] = "confirm"]
    /\ race' = [race EXCEPT ![t] = "pending"]
    /\ todo' = [todo EXCEPT ![Confirming(t)] = Config[t].confirm]
    /\ UNCHANGED <<queue, running, waiting, snapshot, recordVars>>

\* The confirm list has run to its end.
Confirmed(t) ==
    /\ race[t] = "pending" /\ Through(Confirming(t))
    /\ race' = [race EXCEPT ![t] = "resolved"]
    /\ UNCHANGED <<store, queue, running, phase, todo, waiting, snapshot, recordVars>>

\* The catch block up to onError.
RollBack(t, err, rest) ==
    /\ store' = SetTo(Set(store, Root, snapshot[t]), TxError, err)
    /\ phase' = [phase EXCEPT ![t] = "onError"]
    /\ outcome' = [outcome EXCEPT ![t] = "rolledBack"]
    /\ todo' = [rest EXCEPT ![Main(t)] = Config[t].onError]

\* The engine goes on after the race was won by the confirm list: a fetch that
\* failed has not thrown, it has left its error in lastError.
Settle(t) ==
    /\ phase[t] = "confirm" /\ race[t] = "resolved"
    /\ \/ /\ State(LastError) = None
          /\ phase' = [phase EXCEPT ![t] = "onSuccess"]
          /\ outcome' = [outcome EXCEPT ![t] = "committed"]
          /\ todo' = [todo EXCEPT ![Main(t)] = Config[t].onSuccess]
          /\ UNCHANGED store
       \/ /\ State(LastError) # None
          /\ RollBack(t, State(LastError), todo)
    /\ UNCHANGED <<queue, running, race, waiting, snapshot, order, failed, stray, crossed>>

\* An action of the confirm list threw.
Rejected(t) ==
    /\ phase[t] = "confirm" /\ race[t] = "rejected"
    /\ RollBack(t, Error(t), todo)
    /\ UNCHANGED <<queue, running, race, waiting, snapshot, order, failed, stray, crossed>>

\* The timer fires first.  Nothing stops the confirm list.
Timeout(t) ==
    /\ t \in Slow
    /\ phase[t] = "confirm" /\ race[t] = "pending"
    /\ failed' = failed \cup {t}
    /\ RollBack(t, Error(t), todo)
    /\ UNCHANGED <<queue, running, race, waiting, snapshot, order, stray, crossed>>

\* The finally block, and the end of runTransaction.
Finish(t) ==
    /\ phase[t] \in {"onSuccess", "onError"} /\ Through(Main(t))
    /\ store' = SetTo(store, TxRoot, None)
    /\ Release(t, todo)
    /\ UNCHANGED <<race, waiting, snapshot, recordVars>>

-----------------------------------------------------------------------------
(***************************************************************************)
(* The dispatcher: one action of a thread.                                 *)
(***************************************************************************)
Ready(th, action) == th \notin waiting /\ todo[th] # <<>> /\ Head(todo[th]).action = action
Advanced(th) == [todo EXCEPT ![th] = Tail(@)]

\* The list belongs to the running transaction, which has not gone on without it.
Awaited(th) == th[1] = "confirm" /\ phase[th[2]] = "confirm"
Inside(th) == th[1] = "main" \/ Awaited(th)

\* What the history keeps of a write: that it came from outside, and that lastError was
\* cleared or set while others awaited their confirm.
Strayed(th, path, value) ==
    IF Inside(th) THEN stray ELSE stray \cup ({c \in Cell : IsPrefix(path, c)} \X {value})
Crossed(awaiting, value) ==
    [t \in Tx |-> IF t \in awaiting /\ phase[t] = "confirm"
                    THEN crossed[t] \cup {IF value = None THEN "cleared" ELSE "set"}
                    ELSE crossed[t]]
OthersThan(th) == {t \in Tx : th # Confirming(t)}

RunSetState(th) ==
    LET b == Head(todo[th])
    IN  /\ Ready(th, "setState")
        /\ store' = SetTo(store, b.path, b.value)
        /\ todo' = Advanced(th)
        /\ stray' = Strayed(th, b.path, b.value)
        /\ crossed' = IF IsPrefix(b.path, LastError) THEN Crossed(Tx, b.value) ELSE crossed
        /\ UNCHANGED <<queue, running, phase, race, waiting, snapshot, order, outcome, failed>>

SendFetch(th) ==
    /\ Ready(th, "fetch")
    /\ store' = SetTo(store, Loading, On)
    /\ waiting' = waiting \cup {th}
    /\ UNCHANGED <<queue, running, phase, race, todo, snapshot, recordVars>>

\* response.ok: target, loading and lastError, in this order, without an await.
AnswerOk(th) ==
    LET b == Head(todo[th])
        stored == IF b.path = Root THEN store ELSE SetTo(store, b.path, b.value)
    IN  /\ th \in waiting
        /\ store' = SetTo(SetTo(stored, Loading, None), LastError, None)
        /\ waiting' = waiting \ {th}
        /\ todo' = Advanced(th)
        /\ failed' = IF Awaited(th) THEN failed \ {th[2]} ELSE failed
        /\ stray' = IF b.path = Root THEN stray ELSE Strayed(th, b.path, b.value)
        /\ crossed' = Crossed(OthersThan(th), None)
        /\ UNCHANGED <<queue, running, phase, race, snapshot, order, outcome>>

\* An HTTP or network error: the action records it and does not throw.
AnswerError(th) ==
    /\ th \in waiting
    /\ store' = SetTo(SetTo(store, Loading, None), LastError, Error(th[2]))
    /\ waiting' = waiting \ {th}
    /\ todo' = Advanced(th)
    /\ failed' = IF Awaited(th) THEN failed \cup {th[2]} ELSE failed
    /\ crossed' = Crossed(OthersThan(th), Error(th[2]))
    /\ UNCHANGED <<queue, running, phase, race, snapshot, order, outcome, stray>>

\* An action throws.  The list of an event goes on with its next action; the
\* list of a phase ends there.
ThrowInEvent(e) ==
    /\ Ready(<<"event", e>>, "throw")
    /\ todo' = Advanced(<<"event", e>>)
    /\ UNCHANGED <<store, queue, running, phase, race, waiting, snapshot, recordVars>>

\* In the confirm list: the promise rejects, which matters while it is awaited.
ThrowInConfirm(t) ==
    /\ Ready(Confirming(t), "throw")
    /\ race' = [race EXCEPT ![t] = "rejected"]
    /\ todo' = [todo EXCEPT ![Confirming(t)] = <<>>]
    /\ failed' = failed \cup {t}
    /\ UNCHANGED <<store, queue, running, phase, waiting, snapshot, order, outcome, stray, crossed>>

\* In before or optimistic, which lie outside the try: runTransaction rejects
\* and only the queue takes notice.
ThrowBeforeTry(t) ==
    /\ Ready(Main(t), "throw") /\ phase[t] \in {"before", "optimistic"}
    /\ outcome' = [outcome EXCEPT ![t] = "aborted"]
    /\ Release(t, todo)
    /\ UNCHANGED <<store, race, waiting, snapshot, order, failed, stray, crossed>>

\* In onSuccess, which lies inside the try.
ThrowInOnSuccess(t) ==
    /\ Ready(Main(t), "throw") /\ phase[t] = "onSuccess"
    /\ RollBack(t, Error(t), todo)
    /\ failed' = failed \cup {t}
    /\ UNCHANGED <<queue, running, race, waiting, snapshot, order, stray, crossed>>

\* In onError: caught and logged.
ThrowInOnError(t) ==
    /\ Ready(Main(t), "throw") /\ phase[t] = "onError"
    /\ todo' = [todo EXCEPT ![Main(t)] = <<>>]
    /\ UNCHANGED <<store, queue, running, phase, race, waiting, snapshot, recordVars>>

Engine(t) ==
    \/ TakeSnapshot(t) \/ StartConfirm(t) \/ Confirmed(t) \/ Settle(t) \/ Rejected(t) \/ Finish(t)
    \/ ThrowBeforeTry(t) \/ ThrowInConfirm(t) \/ ThrowInOnSuccess(t) \/ ThrowInOnError(t)

Dispatcher(th) == RunSetState(th) \/ SendFetch(th) \/ AnswerOk(th) \/ AnswerError(th)

EngineNext ==
    \/ \E t \in Tx : Execute(t) \/ Engine(t) \/ Timeout(t)
    \/ \E th \in Thread : Dispatcher(th)
    \/ \E e \in Event : ThrowInEvent(e)

EngineSpec == EngineInit /\ [][EngineNext]_engineVars

(***************************************************************************)
(* The event loop runs what can run, timers fire, and the requests of      *)
(* every phase but confirm are answered.  A confirm request may stay       *)
(* without an answer for ever.                                             *)
(***************************************************************************)
GoesOn ==
    \E t \in Tx : \/ Engine(t) \/ Timeout(t) \/ Dispatcher(Main(t))
                 \/ RunSetState(Confirming(t)) \/ SendFetch(Confirming(t))

-----------------------------------------------------------------------------
(***************************************************************************)
(* Properties.                                                             *)
(***************************************************************************)
\* The state has a value for every cell, and a thread waits on the fetch at its head.
EngineTypeOK ==
    /\ DOMAIN store = Cell
    /\ running \in Tx \cup {NoTx} /\ ToSet(queue) \cup ToSet(order) \subseteq Tx
    /\ \A th \in waiting : todo[th] # <<>> /\ Head(todo[th]).action = "fetch"
    /\ \A t \in Tx : race[t] \in {"none", "pending", "resolved", "rejected"}

Started == Len(order) - Len(queue)

\* One transaction runs at a time, and they take their turns in the order of
\* their execute: those before the running one have ended, those after it wait
\* in the queue, and nothing waits when none runs.
InTurn ==
    /\ Started \in 0 .. Len(order)
    /\ \A i \in 1 .. Len(queue) : queue[i] = order[Started + i]
    /\ \A i \in 1 .. Len(order) :
         /\ i < Started => phase[order[i]] = "ended"
         /\ i > Started => phase[order[i]] = "queued"
    /\ running = NoTx =>
         queue = <<>> /\ \A i \in 1 .. Len(order) : phase[order[i]] = "ended"
    /\ running # NoTx =>
         Started > 0 /\ order[Started] = running /\ phase[running] \in Phases

\* A list ends with its first action that throws.
UpToThrow(list) ==
    LET thrown == {i \in DOMAIN list : list[i].action = "throw"}
    IN  IF thrown = {} THEN list ELSE SubSeq(list, 1, CHOOSE i \in thrown : \A j \in thrown : i <= j)

\* The actions whose writes a transaction leaves behind, given how it ended.  One that threw in
\* its optimistic list ends outside the try block: what that list wrote stays.
Effective(t) ==
    UpToThrow(Config[t].before \o
                CASE outcome[t] = "committed" -> Config[t].optimistic \o Config[t].confirm \o Config[t].onSuccess
                  [] outcome[t] = "aborted" -> Config[t].optimistic
                  [] OTHER -> Config[t].onError)

\* What a cell holds after the transactions executed one after the other.
Replayed(cell) ==
    LET writes == SelectSeq(FlattenSeq([i \in DOMAIN order |-> Effective(order[i])]),
                            LAMBDA b : b.action = "setState" /\ b.path = cell)
    IN  IF writes = <<>> THEN None ELSE Last(writes).value

OnPath(cell) == {b \in UNION {ToSet(Config[t][ph]) : t \in Tx, ph \in Phases} : b.path = cell}
Settable(cell) == cell # Root /\ OnPath(cell) # {} /\ \A b \in OnPath(cell) : b.action = "setState"

\* However the transactions overlap, when none is left each cell holds what they would have
\* produced one after the other in the order they were dispatched (all of a committed one, of a
\* failed one only before and onError, of one that threw before its confirm what it had done
\* until then), or what a list outside them wrote: an event's, or a confirm list's that was no
\* longer awaited.
SettledState ==
    running = NoTx => \A c \in {x \in Cell : Settable(x)} : State(c) = Replayed(c) \/ <<c, State(c)>> \in stray

\* A transaction is rolled back only if its own confirm or onSuccess failed or timed out, or an
\* error of others reached lastError while its confirm was awaited.
RolledBackOnlyOnFailure ==
    \A t \in Tx : outcome[t] = "rolledBack" => t \in failed \/ "set" \in crossed[t]

\* A transaction commits only if nothing of it threw and its last request was answered well, or
\* an answer of others cleared its error while its confirm was awaited.
CommittedOnlyIfConfirmed ==
    \A t \in Tx : outcome[t] = "committed" => t \notin failed \/ "cleared" \in crossed[t]

Writes(b) == b.action = "setState" \/ (b.action = "fetch" /\ b.path # Root)
\* One of the transaction's lists writes this value to the cell.
WritesTo(t, cell, value) ==
    \E ph \in Phases : \E b \in ToSet(Config[t][ph]) :
      Writes(b) /\ IsPrefix(b.path, cell) /\ b.value = value

\* What onSuccess reads in /tx/result is of its own transaction, or was written by a list outside,
\* or is what a transaction that threw before its confirm has left.
ResultIsOwn ==
    \A t \in Tx : phase[t] = "onSuccess" /\ State(Result) # None =>
      \/ WritesTo(t, Result, State(Result))
      \/ <<Result, State(Result)>> \in stray
      \/ \E u \in Tx : outcome[u] = "aborted" /\ WritesTo(u, Result, State(Result))

\* onError finds the error of its own transaction, after the restore of the root, unless one of
\* others was in lastError or a list has overwritten it.
OnErrorHasError ==
    \A t \in Tx : phase[t] = "onError" =>
      \/ State(TxError) = Error(t)
      \/ "set" \in crossed[t]
      \/ WritesTo(t, TxError, State(TxError))
      \/ <<TxError, State(TxError)>> \in stray

\* The comment on the optimistic phase says that it is rolled back on error
\* (actions/transaction-engine.ts:104): when a transaction that threw before its confirm has ended,
\* nothing that its optimistic list wrote is left.
OptimisticRolledBack ==
    running = NoTx =>
      \A t \in Tx : outcome[t] = "aborted" =>
        \A b \in ToSet(Config[t].optimistic) : b.action = "setState" => State(b.path) # b.value
=============================================================================
