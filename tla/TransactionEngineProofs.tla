---------------------- MODULE TransactionEngineProofs ----------------------
(***************************************************************************)
(* Two theorems about the transaction engine.  TakeTurns: InTurn is an     *)
(* invariant for any transactions, actions, events and timeouts.           *)
(* OutcomesAreOwn: what a transaction ends as is its own doing, unless     *)
(* others write /ui/lastError while it awaits its confirm.                 *)
(*                                                                         *)
(* InTurn alone is not inductive: an Execute must find its transaction     *)
(* nowhere in the order, which holds because exactly the transactions that *)
(* are no longer new are in it, each once.                                 *)
(***************************************************************************)
EXTENDS TransactionEngine, TLAPS

Stage == Phases \cup {"new", "queued", "ended"}

\* The types of the variables that decide whose turn it is.
TurnType ==
    /\ queue \in Seq(Tx) /\ order \in Seq(Tx)
    /\ running \in Tx \cup {NoTx}
    /\ phase \in [Tx -> Stage]

\* The order lists the executed transactions, each once.
OrderFaithful ==
    /\ \A i, j \in 1 .. Len(order) : order[i] = order[j] => i = j
    /\ \A t \in Tx : phase[t] # "new" <=> \E i \in 1 .. Len(order) : order[i] = t

IInv == TurnType /\ OrderFaithful /\ InTurn

turn == <<queue, running, order>>

-----------------------------------------------------------------------------
\* Initially nothing has been executed.
LEMMA TurnInit == EngineInit => IInv
BY NoTxIsNone DEF EngineInit, IInv, TurnType, OrderFaithful, InTurn, Started, Stage, Phases

\* A transaction that is in a phase is the running one.
LEMMA InPhaseRuns ==
    ASSUME IInv, NEW t \in Tx, phase[t] \in Phases
    PROVE  /\ t = running /\ running # NoTx
           /\ Started > 0 /\ order[Started] = t
<1>1. phase[t] \notin {"new", "queued", "ended"}
  BY DEF Phases
<1>2. PICK i \in 1 .. Len(order) : order[i] = t
  BY <1>1 DEF IInv, OrderFaithful
<1>3. Started \in Nat /\ ~(i < Started) /\ ~(i > Started)
  BY <1>1, <1>2 DEF IInv, InTurn
<1>4. i = Started
  BY <1>3
<1>5. running # NoTx
  BY <1>1, <1>2 DEF IInv, InTurn
<1> QED
  BY <1>2, <1>4, <1>5 DEF IInv, InTurn

\* A step within the running transaction moves it from phase to phase.
LEMMA PhaseStep ==
    ASSUME IInv, UNCHANGED turn,
           NEW t \in Tx, phase[t] \in Phases,
           NEW to \in Phases, phase' = [phase EXCEPT ![t] = to]
    PROVE  IInv'
<1>1. /\ t = running /\ running # NoTx
      /\ Started > 0 /\ order[Started] = t
  BY InPhaseRuns
<1>2. \A i \in 1 .. Len(order) : order[i] \in Tx /\ (order[i] = t => i = Started)
  BY <1>1 DEF IInv, TurnType, OrderFaithful, InTurn
<1>3. to \in Stage /\ to \notin {"new", "queued", "ended"} /\ phase[t] # "new"
  BY DEF Stage, Phases
<1>4. TurnType'
  BY <1>3 DEF IInv, TurnType, turn
<1>5. OrderFaithful'
  BY <1>3 DEF IInv, TurnType, OrderFaithful, turn
<1>6. InTurn'
  BY <1>1, <1>2 DEF IInv, TurnType, InTurn, Started, turn
<1> QED
  BY <1>4, <1>5, <1>6 DEF IInv

\* A step that leaves queue and phases alone.
LEMMA Stutter ==
    ASSUME IInv, UNCHANGED turn, UNCHANGED phase
    PROVE  IInv'
BY DEF IInv, TurnType, OrderFaithful, InTurn, Started, turn

-----------------------------------------------------------------------------
\* An executed transaction comes last in the order: it starts at once when none
\* runs, and waits otherwise.
LEMMA ExecuteStep ==
    ASSUME IInv, NEW t \in Tx, Execute(t)
    PROVE  IInv'
<1> DEFINE n == Len(order)
<1>1. /\ phase[t] = "new" /\ order' = Append(order, t)
      /\ order \in Seq(Tx) /\ queue \in Seq(Tx) /\ phase \in [Tx -> Stage]
      /\ n \in Nat /\ Started \in 0 .. n
  BY DEF IInv, TurnType, InTurn, Execute
<1>2. /\ order' \in Seq(Tx) /\ Len(order') = n + 1 /\ order'[n + 1] = t
      /\ \A i \in 1 .. n : order'[i] = order[i] /\ order[i] \in Tx /\ order[i] # t
  BY <1>1 DEF IInv, OrderFaithful
<1>3. \A i, j \in 1 .. Len(order') : order'[i] = order'[j] => i = j
  BY <1>1, <1>2 DEF IInv, OrderFaithful
<1>4. CASE running = NoTx
  <2>1. /\ running' = t /\ queue' = queue /\ queue = <<>>
        /\ phase' = [phase EXCEPT ![t] = "before"]
    BY <1>4 DEF Execute, IInv, InTurn
  <2>2. Started = n /\ Started' = n + 1
    BY <1>1, <1>2, <2>1 DEF Started
  <2>3. TurnType'
    BY <1>1, <1>2, <2>1 DEF TurnType, Stage, Phases
  <2>4. OrderFaithful'
    BY <1>1, <1>2, <1>3, <2>1 DEF IInv, OrderFaithful
  <2>5. InTurn'
    <3>1. \A i \in 1 .. n : phase'[order'[i]] = "ended"
      BY <1>1, <1>2, <1>4, <2>1 DEF IInv, InTurn
    <3>2. running' # NoTx /\ phase'[running'] \in Phases
      BY <1>1, <2>1, NoTxIsNone DEF Phases
    <3> QED
      BY <1>1, <1>2, <2>1, <2>2, <3>1, <3>2 DEF InTurn
  <2> QED
    BY <2>3, <2>4, <2>5 DEF IInv
<1>5. CASE running # NoTx
  <2>1. /\ queue' = Append(queue, t) /\ running' = running
        /\ phase' = [phase EXCEPT ![t] = "queued"]
    BY <1>5 DEF Execute
  <2>2. /\ queue' \in Seq(Tx) /\ Len(queue') = Len(queue) + 1 /\ Len(queue) \in Nat
        /\ queue'[Len(queue) + 1] = t
        /\ \A i \in 1 .. Len(queue) : queue'[i] = queue[i]
    BY <1>1, <2>1
  <2>3. Started' = Started /\ Started + Len(queue) = n
    BY <1>1, <1>2, <2>2 DEF Started
  <2>4. TurnType'
    BY <1>1, <1>2, <2>1, <2>2 DEF IInv, TurnType, Stage
  <2>5. OrderFaithful'
    BY <1>1, <1>2, <1>3, <2>1 DEF IInv, OrderFaithful
  <2>6. InTurn'
    <3>1. \A i \in 1 .. Len(queue') : queue'[i] = order'[Started' + i]
      <4>1. \A i \in 1 .. Len(queue) : queue[i] = order[Started + i] /\ Started + i \in 1 .. n
        BY <1>1, <2>2, <2>3 DEF IInv, InTurn
      <4>2. \A i \in 1 .. Len(queue) : queue'[i] = order'[Started' + i]
        BY <1>2, <2>2, <2>3, <4>1
      <4>3. Started' + (Len(queue) + 1) = n + 1
        BY <1>1, <1>2, <2>2 DEF Started
      <4>4. queue'[Len(queue) + 1] = order'[Started' + (Len(queue) + 1)]
        BY <1>2, <2>2, <4>3
      <4> QED
        BY <2>2, <4>2, <4>4
    <3>2. \A i \in 1 .. n : phase'[order'[i]] = phase[order[i]]
      BY <1>1, <1>2, <2>1
    <3>3. phase'[order'[n + 1]] = "queued" /\ n + 1 > Started
      BY <1>1, <1>2, <2>1
    <3>4. \A i \in 1 .. Len(order') :
            /\ i < Started => phase'[order'[i]] = "ended"
            /\ i > Started => phase'[order'[i]] = "queued"
      BY <1>1, <1>2, <3>2, <3>3 DEF IInv, InTurn
    <3>5. Started > 0 /\ order'[Started] = running /\ phase'[running] \in Phases
      <4>1. Started > 0 /\ order[Started] = running /\ phase[running] \in Phases
        BY <1>5 DEF IInv, InTurn
      <4>2. Started \in 1 .. n
        BY <1>1, <4>1
      <4> QED
        BY <1>2, <3>2, <4>1, <4>2
    <3>6. Started' \in 0 .. Len(order')
      BY <1>1, <1>2, <2>3
    <3>7. \A i \in 1 .. Len(order') :
            /\ i < Started' => phase'[order'[i]] = "ended"
            /\ i > Started' => phase'[order'[i]] = "queued"
      BY <2>3, <3>4
    <3>8. running' # NoTx /\ Started' > 0 /\ order'[Started'] = running' /\ phase'[running'] \in Phases
      BY <1>5, <2>1, <2>3, <3>5
    <3>9. running' = NoTx => queue' = <<>> /\ \A i \in 1 .. Len(order') : phase'[order'[i]] = "ended"
      BY <3>8
    <3> QED
      BY <3>1, <3>6, <3>7, <3>8, <3>9 DEF InTurn
  <2> QED
    BY <2>4, <2>5, <2>6 DEF IInv
<1> QED
  BY <1>4, <1>5

\* The end of the running transaction: the head of the queue takes its place.
LEMMA ReleaseStep ==
    ASSUME IInv, NEW t \in Tx, phase[t] \in Phases, UNCHANGED order,
           Release(t, todo)
    PROVE  IInv'
<1> DEFINE n == Len(order)
<1>1. /\ t = running /\ running # NoTx
      /\ Started > 0 /\ order[Started] = t
  BY InPhaseRuns
<1>2. /\ order \in Seq(Tx) /\ queue \in Seq(Tx) /\ phase \in [Tx -> Stage]
      /\ n \in Nat /\ Len(queue) \in Nat /\ Started \in 1 .. n /\ Started + Len(queue) = n
      /\ \A i \in 1 .. n : order[i] \in Tx /\ (order[i] = t => i = Started)
  BY <1>1 DEF IInv, TurnType, OrderFaithful, InTurn, Started
<1>3. phase[t] # "new"
  BY DEF Phases
<1>4. CASE queue = <<>>
  <2>1. /\ running' = NoTx /\ queue' = <<>> /\ phase' = [phase EXCEPT ![t] = "ended"]
    BY <1>4 DEF Release
  <2>2. Started = n /\ Started' = n
    <3>1. Len(queue) = 0 /\ Len(queue') = 0 /\ order' = order /\ Len(order) \in Nat
      BY <1>2, <1>4, <2>1
    <3> QED
      BY <3>1 DEF Started
  <2>3. TurnType'
    BY <1>2, <2>1 DEF TurnType, Stage
  <2>4. OrderFaithful'
    BY <1>2, <1>3, <2>1 DEF IInv, OrderFaithful
  <2>5. \A i \in 1 .. n : phase'[order[i]] = "ended"
    BY <1>1, <1>2, <2>1, <2>2 DEF IInv, InTurn
  <2>6. InTurn'
    BY <1>2, <2>1, <2>2, <2>5 DEF InTurn
  <2> QED
    BY <2>3, <2>4, <2>6 DEF IInv
<1>5. CASE queue # <<>>
  <2> DEFINE next == Head(queue)
  <2>1. /\ running' = next /\ queue' = Tail(queue)
        /\ phase' = [phase EXCEPT ![t] = "ended", ![next] = "before"]
    BY <1>5 DEF Release
  <2>2. /\ next \in Tx /\ queue' \in Seq(Tx) /\ Len(queue') = Len(queue) - 1 /\ Len(queue) > 0
        /\ \A i \in 1 .. Len(queue') : queue'[i] = queue[i + 1]
        /\ next = queue[1]
    BY <1>2, <1>5, <2>1
  <2>3. next = order[Started + 1] /\ Started + 1 \in 1 .. n /\ Started' = Started + 1
    <3>1. Started + 1 \in 1 .. n
      BY <1>2, <2>2
    <3>2. queue[1] = order[Started + 1]
      BY <1>2, <2>2 DEF IInv, InTurn
    <3>3. Started' = Started + 1
      <4>1. order' = order /\ Len(queue') = Len(queue) - 1 /\ Len(queue) \in Nat /\ Len(order) \in Nat
        BY <1>2, <2>2
      <4> QED
        BY <4>1 DEF Started
    <3> QED
      BY <2>2, <3>1, <3>2, <3>3
  <2>4. \A i \in 1 .. n : order[i] = next => i = Started + 1
    BY <2>3 DEF IInv, OrderFaithful
  <2>5. next # t /\ next # NoTx /\ phase[next] # "new"
    BY <1>2, <2>2, <2>3, NoTxIsNone DEF IInv, OrderFaithful
  <2>6. TurnType'
    BY <1>2, <2>1, <2>2 DEF TurnType, Stage, Phases
  <2>7. OrderFaithful'
    BY <1>2, <1>3, <2>1, <2>5 DEF IInv, OrderFaithful
  <2>8. InTurn'
    <3>1. \A i \in 1 .. Len(queue') : queue'[i] = order[Started' + i]
      BY <1>2, <2>2, <2>3 DEF IInv, InTurn
    <3>2. \A i \in 1 .. n :
            /\ i < Started' => phase'[order[i]] = "ended"
            /\ i > Started' => phase'[order[i]] = "queued"
      BY <1>1, <1>2, <2>1, <2>3, <2>4 DEF IInv, InTurn
    <3>3. phase'[next] \in Phases
      BY <1>2, <2>1, <2>2 DEF Phases
    <3> QED
      BY <1>2, <2>1, <2>3, <2>5, <3>1, <3>2, <3>3 DEF InTurn
  <2> QED
    BY <2>6, <2>7, <2>8 DEF IInv
<1> QED
  BY <1>4, <1>5

-----------------------------------------------------------------------------
\* The steps of one transaction, action by action.
LEMMA EngineStep ==
    ASSUME IInv, NEW t \in Tx, Engine(t) \/ Timeout(t)
    PROVE  IInv'
<1> USE DEF turn
<1>1. CASE TakeSnapshot(t)
  <2>1. /\ phase[t] \in Phases /\ UNCHANGED turn
        /\ phase' = [phase EXCEPT ![t] = "optimistic"] /\ "optimistic" \in Phases
    BY <1>1 DEF TakeSnapshot, Phases, recordVars
  <2> QED
    BY <2>1, PhaseStep
<1>2. CASE StartConfirm(t)
  <2>1. /\ phase[t] \in Phases /\ UNCHANGED turn
        /\ phase' = [phase EXCEPT ![t] = "confirm"] /\ "confirm" \in Phases
    BY <1>2 DEF StartConfirm, Phases, recordVars
  <2> QED
    BY <2>1, PhaseStep
<1>3. CASE Confirmed(t)
  BY <1>3, Stutter DEF Confirmed, recordVars
<1>4. CASE Settle(t)
  <2>1. /\ phase[t] \in Phases /\ UNCHANGED turn
        /\ "onSuccess" \in Phases /\ "onError" \in Phases
        /\ \/ phase' = [phase EXCEPT ![t] = "onSuccess"]
           \/ phase' = [phase EXCEPT ![t] = "onError"]
    BY <1>4 DEF Settle, RollBack, Phases
  <2> QED
    BY <2>1, PhaseStep
<1>5. CASE Rejected(t) \/ Timeout(t)
  <2>1. /\ phase[t] \in Phases /\ UNCHANGED turn
        /\ phase' = [phase EXCEPT ![t] = "onError"] /\ "onError" \in Phases
    BY <1>5 DEF Rejected, Timeout, RollBack, Phases
  <2> QED
    BY <2>1, PhaseStep
<1>6. CASE Finish(t)
  <2>1. phase[t] \in Phases /\ UNCHANGED order /\ Release(t, todo)
    BY <1>6 DEF Finish, Phases, recordVars
  <2> QED
    BY <2>1, ReleaseStep
<1>7. CASE ThrowBeforeTry(t)
  <2>1. phase[t] \in Phases /\ UNCHANGED order /\ Release(t, todo)
    BY <1>7 DEF ThrowBeforeTry, Phases
  <2> QED
    BY <2>1, ReleaseStep
<1>8. CASE ThrowInOnSuccess(t)
  <2>1. /\ phase[t] \in Phases /\ UNCHANGED turn
        /\ phase' = [phase EXCEPT ![t] = "onError"] /\ "onError" \in Phases
    BY <1>8 DEF ThrowInOnSuccess, RollBack, Phases
  <2> QED
    BY <2>1, PhaseStep
<1>9. CASE ThrowInConfirm(t) \/ ThrowInOnError(t)
  BY <1>9, Stutter DEF ThrowInConfirm, ThrowInOnError, recordVars
<1> QED
  BY <1>1, <1>2, <1>3, <1>4, <1>5, <1>6, <1>7, <1>8, <1>9 DEF Engine

\* The actions that are dispatched, in a transaction or outside, move nobody.
LEMMA DispatchStep ==
    ASSUME IInv,
           (\E th \in Thread : Dispatcher(th)) \/ (\E e \in Event : ThrowInEvent(e))
    PROVE  IInv'
<1>1. UNCHANGED turn /\ UNCHANGED phase
  BY DEF Dispatcher, RunSetState, SendFetch, AnswerOk, AnswerError, ThrowInEvent, turn, recordVars
<1> QED
  BY <1>1, Stutter

LEMMA TurnStep == IInv /\ [EngineNext]_engineVars => IInv'
<1> SUFFICES ASSUME IInv, [EngineNext]_engineVars
             PROVE  IInv'
  OBVIOUS
<1>1. CASE \E t \in Tx : Execute(t) \/ Engine(t) \/ Timeout(t)
  BY <1>1, ExecuteStep, EngineStep
<1>2. CASE (\E th \in Thread : Dispatcher(th)) \/ (\E e \in Event : ThrowInEvent(e))
  BY <1>2, DispatchStep
<1>3. CASE UNCHANGED engineVars
  BY <1>3, Stutter DEF engineVars, turn, recordVars
<1> QED
  BY <1>1, <1>2, <1>3 DEF EngineNext

\* Transactions run one at a time and in the order of their execute, whatever
\* their actions throw, however late their requests are answered, and whatever
\* runs outside them.
THEOREM TakeTurns == EngineSpec => []InTurn
<1>1. IInv => InTurn
  BY DEF IInv
<1> QED
  BY TurnInit, TurnStep, <1>1, PTL DEF EngineSpec

-----------------------------------------------------------------------------
(***************************************************************************)
(* What a transaction ends as is its own doing, but for what others write  *)
(* to lastError while it awaits its confirm.  The invariant says, of the   *)
(* transaction that runs, where each value it may read comes from: the     *)
(* error in lastError, the result and the error below /tx.                 *)
(***************************************************************************)
Acts(t) == UNION {ToSet(Config[t][ph]) : ph \in Phases}

Unstarted == {"new", "queued", "before", "optimistic"}

WorkType ==
    /\ DOMAIN todo = Thread /\ waiting \subseteq Thread
    /\ \A th \in waiting : todo[th] # <<>> /\ Head(todo[th]).action = "fetch"
    /\ DOMAIN race = Tx /\ DOMAIN outcome = Tx /\ DOMAIN crossed = Tx
    /\ DOMAIN snapshot = Tx /\ DOMAIN store = Cell
    /\ \A e \in Event : todo[<<"event", e>>] \in Seq(ToSet(Actions[e]))

\* The lists of a transaction: the one of its phase, and its confirm list, of which nothing is
\* left when the race knows its end.
ThreadsOwn(t) ==
    /\ todo[Main(t)] \in Seq(Acts(t)) /\ todo[Confirming(t)] \in Seq(Acts(t))
    /\ todo[Main(t)] # <<>> => phase[t] \in Phases \ {"confirm"}
    /\ phase[t] \in Unstarted \/ race[t] \in {"resolved", "rejected"} => todo[Confirming(t)] = <<>>

\* How its phase, its race and its outcome go together.
StandsOwn(t) ==
    /\ phase[t] \in Unstarted => t \notin failed /\ race[t] = "none"
    /\ phase[t] \in Unstarted \cup {"confirm"} => outcome[t] = "open"
    /\ phase[t] = "onSuccess" => outcome[t] = "committed"
    /\ race[t] = "rejected" => t \in failed
    /\ outcome[t] = "rolledBack" => t \in failed \/ "set" \in crossed[t]
    /\ outcome[t] = "committed" => race[t] = "resolved" /\ (t \notin failed \/ "cleared" \in crossed[t])

\* A value of /tx/result that no running transaction answers for.
Known(value) ==
    \/ value = None \/ <<Result, value>> \in stray
    \/ \E u \in Tx : outcome[u] = "aborted" /\ WritesTo(u, Result, value)

\* Where the values come from that its next steps read.
ErrorOwn(t) ==
    IF State(LastError) = None
      THEN t \notin failed \/ "cleared" \in crossed[t]
      ELSE "set" \in crossed[t] \/ (t \in failed /\ State(LastError) = Error(t))
ReadsOwn(t) ==
    /\ phase[t] = "confirm" /\ race[t] # "rejected" => ErrorOwn(t)
    /\ phase[t] \in Phases \ {"onError"} => Known(State(Result)) \/ WritesTo(t, Result, State(Result))
    /\ phase[t] = "onError" =>
         \/ State(TxError) = Error(t) \/ "set" \in crossed[t]
         \/ WritesTo(t, TxError, State(TxError)) \/ <<TxError, State(TxError)>> \in stray

Own(t) == ThreadsOwn(t) /\ StandsOwn(t) /\ ReadsOwn(t)

OwnInv ==
    /\ WorkType
    /\ \A t \in Tx : Own(t)
    /\ running = NoTx => Known(State(Result))

\* The calls that reach the cells of the engine, and those that do not.
LEMMA Cells ==
    /\ IsPrefix(LastError, LastError) /\ ~IsPrefix(LastError, TxError) /\ ~IsPrefix(LastError, Result)
    /\ ~IsPrefix(Loading, LastError) /\ ~IsPrefix(Loading, TxError) /\ ~IsPrefix(Loading, Result)
    /\ IsPrefix(TxRoot, TxError) /\ IsPrefix(TxRoot, Result)
    /\ IsPrefix(TxError, TxError) /\ ~IsPrefix(TxError, Result)
    /\ {LastError, Loading, TxError, Result} \subseteq Cell
<1> QED
  BY ConfigForm DEF IsPrefix, LastError, Loading, TxRoot, TxError, Result

\* A value written to a path is what the cells at and below it hold.
LEMMA SetToCells ==
    ASSUME NEW s, DOMAIN s = Cell, NEW path, NEW value
    PROVE  /\ DOMAIN SetTo(s, path, value) = Cell
           /\ \A c \in Cell : SetTo(s, path, value)[c] = IF IsPrefix(path, c) THEN value ELSE s[c]
BY DEF SetTo, Set

LEMMA ErrorIsSome == \A who : Error(who) # None
<1> TAKE who
<1>1. Error(who).kind = "error" /\ None.kind = "none"
  BY DEF Error, None
<1> QED
  BY <1>1

\* The threads are told apart by their kind and their owner.
LEMMA ThreadKinds ==
    /\ \A t \in Tx : Main(t) \in Thread /\ Confirming(t) \in Thread
    /\ \A e \in Event : <<"event", e>> \in Thread
    /\ \A th \in Thread : \/ \E t \in Tx : th = Main(t) \/ th = Confirming(t)
                          \/ \E e \in Event : th = <<"event", e>>
    /\ \A t, u : Main(t) # Confirming(u) /\ (Main(t) = Main(u) => t = u)
                /\ (Confirming(t) = Confirming(u) => t = u)
                /\ Main(t) # <<"event", u>> /\ Confirming(t) # <<"event", u>>
    /\ \A t : Main(t)[1] = "main" /\ Main(t)[2] = t /\ Confirming(t)[1] = "confirm" /\ Confirming(t)[2] = t
BY DEF Main, Confirming, Thread

\* The list of a phase holds the transaction's actions.
LEMMA PhaseActs ==
    ASSUME NEW t \in Tx, NEW ph \in Phases
    PROVE  Config[t][ph] \in Seq(Acts(t))
<1>1. ToSet(Config[t][ph]) \subseteq Acts(t)
  BY DEF Acts
<1>2. Config[t][ph] \in Seq(ToSet(Config[t][ph]))
  BY ConfigForm
<1> QED
  BY <1>1, <1>2

LEMMA ActsWrite ==
    ASSUME NEW t \in Tx, NEW b \in Acts(t), Writes(b), NEW c, IsPrefix(b.path, c)
    PROVE  WritesTo(t, c, b.value)
BY DEF Acts, WritesTo

\* A transaction that is in no phase is asked for nothing that the state holds.
LEMMA AtRest ==
    ASSUME NEW t \in Tx, Own(t), phase[t] \notin Phases,
           phase'[t] = phase[t], race'[t] = race[t], outcome'[t] = outcome[t], crossed'[t] = crossed[t],
           todo'[Main(t)] = todo[Main(t)], todo'[Confirming(t)] = todo[Confirming(t)],
           t \in failed' <=> t \in failed
    PROVE  Own(t)'
<1>1. phase[t] \notin {"before", "optimistic", "confirm", "onSuccess", "onError"}
  BY DEF Phases
<1>2. ThreadsOwn(t)'
  BY DEF Own, ThreadsOwn, Main, Confirming, Acts
<1>3. StandsOwn(t)'
  BY DEF Own, StandsOwn
<1>4. ReadsOwn(t)'
  BY <1>1 DEF ReadsOwn
<1> QED
  BY <1>2, <1>3, <1>4 DEF Own

LEMMA OthersAtRest ==
    ASSUME IInv, NEW t \in Tx, phase[t] \in Phases, NEW u \in Tx, u # t
    PROVE  phase[u] \notin Phases
BY InPhaseRuns

-----------------------------------------------------------------------------
LEMMA OwnInit == EngineInit => OwnInv
<1> SUFFICES ASSUME EngineInit
             PROVE  OwnInv
  OBVIOUS
<1>1. WorkType
  <2>1. \A e \in Event : todo[<<"event", e>>] = Actions[e]
    <3> TAKE e \in Event
    <3>1. <<"event", e>> \in Thread /\ <<"event", e>>[1] = "event" /\ <<"event", e>>[2] = e
      BY ThreadKinds
    <3> QED
      BY <3>1 DEF EngineInit
  <2>2. \A e \in Event : todo[<<"event", e>>] \in Seq(ToSet(Actions[e]))
    BY <2>1, ConfigForm
  <2> QED
    BY <2>2 DEF EngineInit, WorkType, NewStore
<1>2. \A t \in Tx : Own(t)
  <2> TAKE t \in Tx
  <2>1. /\ phase[t] = "new" /\ race[t] = "none" /\ outcome[t] = "open" /\ t \notin failed
        /\ todo[Main(t)] = <<>> /\ todo[Confirming(t)] = <<>> /\ "new" \notin Phases
    BY ThreadKinds DEF EngineInit, Phases
  <2>2. ThreadsOwn(t)
    BY <2>1 DEF ThreadsOwn
  <2> QED
    BY <2>1, <2>2 DEF Own, StandsOwn, ReadsOwn, Phases
<1>3. State(Result) = None
  BY ConfigForm DEF EngineInit, NewStore, State
<1> QED
  BY <1>1, <1>2, <1>3 DEF OwnInv, Known

\* The next transaction starts.
LEMMA OwnExecute ==
    ASSUME IInv, OwnInv, NEW t \in Tx, Execute(t)
    PROVE  OwnInv'
<1>1. /\ phase[t] = "new" /\ phase \in [Tx -> Stage] /\ Own(t) /\ WorkType /\ "new" \in Unstarted
      /\ race[t] = "none" /\ outcome[t] = "open" /\ t \notin failed
      /\ todo[Main(t)] = <<>> /\ todo[Confirming(t)] = <<>>
  BY DEF Execute, IInv, TurnType, OwnInv, Own, StandsOwn, ThreadsOwn, Phases, Unstarted
<1>2. CASE running = NoTx
  <2>1. /\ running' = t /\ phase' = [phase EXCEPT ![t] = "before"]
        /\ todo' = [todo EXCEPT ![Main(t)] = Config[t].before]
        /\ UNCHANGED <<store, race, waiting, snapshot, outcome, failed, stray, crossed>>
    BY <1>2 DEF Execute
  <2>2. /\ phase'[t] = "before" /\ todo'[Main(t)] = Config[t].before
        /\ todo'[Confirming(t)] = <<>> /\ "before" \in Phases
    BY <1>1, <2>1, ThreadKinds DEF WorkType, Phases
  <2>3. Own(t)'
    <3>1. ThreadsOwn(t)'
      BY <2>2, PhaseActs DEF ThreadsOwn, Main, Confirming, Acts
    <3>2. StandsOwn(t)'
      BY <1>1, <2>1, <2>2 DEF StandsOwn
    <3>3. ReadsOwn(t)'
      BY <1>2, <2>1, <2>2 DEF OwnInv, ReadsOwn, State, Known
    <3> QED
      BY <3>1, <3>2, <3>3 DEF Own
  <2>4. \A u \in Tx : u # t => Own(u)'
    <3> TAKE u \in Tx
    <3> HAVE u # t
    <3>1. phase[u] \notin Phases
      BY <1>2, InPhaseRuns
    <3> QED
      BY <1>1, <2>1, <3>1, AtRest, ThreadKinds DEF OwnInv, WorkType
  <2>5. WorkType'
    BY <1>1, <2>1, ThreadKinds DEF WorkType
  <2> QED
    BY <2>1, <2>3, <2>4, <2>5, NoTxIsNone DEF OwnInv
<1>3. CASE running # NoTx
  <2>1. /\ running' = running /\ phase' = [phase EXCEPT ![t] = "queued"]
        /\ UNCHANGED <<store, race, waiting, snapshot, outcome, failed, stray, crossed, todo>>
    BY <1>3 DEF Execute
  <2>2. \A u \in Tx : Own(u)'
    <3> TAKE u \in Tx
    <3>1. CASE u = t
      <4>1. phase'[t] = "queued" /\ "queued" \notin Phases
        BY <1>1, <2>1 DEF Phases
      <4>2. ThreadsOwn(t)'
        BY <1>1, <2>1, <4>1 DEF ThreadsOwn, Main, Confirming, Own
      <4> QED
        BY <1>1, <2>1, <3>1, <4>1, <4>2 DEF Own, StandsOwn, ReadsOwn, Phases
    <3>2. CASE u # t
      BY <1>1, <2>1, <3>2
         DEF OwnInv, Own, ThreadsOwn, StandsOwn, ReadsOwn, ErrorOwn, Known, State, Main, Confirming, Acts
    <3> QED
      BY <3>1, <3>2
  <2>3. WorkType'
    BY <1>1, <2>1 DEF WorkType
  <2> QED
    BY <1>3, <2>1, <2>2, <2>3 DEF OwnInv
<1> QED
  BY <1>2, <1>3

\* A transaction ends, with a result that the next one need not answer for.
LEMMA OwnRelease ==
    ASSUME IInv, OwnInv, NEW t \in Tx, phase[t] \in Phases \ {"confirm"},
           Main(t) \notin waiting, Release(t, todo),
           UNCHANGED <<race, waiting, snapshot, failed, stray, crossed>>,
           DOMAIN store' = Cell, Known(State(Result))',
           DOMAIN outcome' = Tx, \A u \in Tx : u # t => outcome'[u] = outcome[u],
           \/ outcome'[t] = outcome[t]
           \/ outcome'[t] = "aborted"
    PROVE  OwnInv'
<1>1. /\ t = running /\ phase \in [Tx -> Stage] /\ queue \in Seq(Tx) /\ WorkType /\ Own(t)
  BY InPhaseRuns DEF IInv, TurnType, OwnInv
<1>2. \A u \in Tx : u # t => Own(u) /\ phase[u] \notin Phases
  BY OthersAtRest DEF OwnInv
<1>3. ASSUME phase'[t] = "ended", todo'[Main(t)] = <<>>, todo'[Confirming(t)] = todo[Confirming(t)]
      PROVE  Own(t)'
  <2>1. "ended" \notin Phases /\ "ended" \notin Unstarted
    BY DEF Phases, Unstarted
  <2>2. ThreadsOwn(t)'
    BY <1>1, <1>3, <2>1 DEF Own, ThreadsOwn, StandsOwn, Main, Confirming, Acts
  <2>3. StandsOwn(t)'
    BY <1>1, <1>3, <2>1 DEF Own, StandsOwn
  <2>4. ReadsOwn(t)'
    BY <1>3, <2>1 DEF ReadsOwn, Phases
  <2> QED
    BY <2>2, <2>3, <2>4 DEF Own
<1>4. CASE queue = <<>>
  <2>1. phase' = [phase EXCEPT ![t] = "ended"] /\ todo' = [todo EXCEPT ![Main(t)] = <<>>]
    BY <1>4 DEF Release
  <2>2. Own(t)'
    BY <1>1, <1>3, <2>1, ThreadKinds DEF WorkType
  <2>3. \A u \in Tx : u # t => Own(u)'
    <3> TAKE u \in Tx
    <3> HAVE u # t
    <3> QED
      BY <1>1, <1>2, <2>1, AtRest, ThreadKinds DEF WorkType
  <2>4. WorkType'
    BY <1>1, <2>1, ThreadKinds DEF WorkType
  <2> QED
    BY <2>2, <2>3, <2>4 DEF OwnInv
<1>5. CASE queue # <<>>
  <2>0. PICK next \in Tx : next = Head(queue)
    BY <1>1, <1>5
  <2>1. /\ phase' = [phase EXCEPT ![t] = "ended", ![next] = "before"]
        /\ todo' = [todo EXCEPT ![Main(t)] = <<>>, ![Main(next)] = Config[next].before]
    BY <1>5, <2>0 DEF Release
  <2>2. phase[next] = "queued" /\ next # t
    <3>1. 1 \in 1 .. Len(queue) /\ next = queue[1]
      BY <1>1, <1>5, <2>0
    <3>2. queue[1] = order[Started + 1] /\ Started + 1 \in 1 .. Len(order) /\ Started + 1 > Started
      BY <3>1, <1>1 DEF IInv, TurnType, InTurn, Started
    <3>3. phase[next] = "queued"
      BY <3>1, <3>2 DEF IInv, InTurn
    <3> QED
      BY <3>3 DEF Phases
  <2>3. /\ todo[Main(next)] = <<>> /\ todo[Confirming(next)] = <<>>
        /\ race[next] = "none" /\ outcome[next] = "open" /\ next \notin failed
    BY <1>2, <2>2 DEF Own, StandsOwn, ThreadsOwn, Unstarted, Phases
  <2>4. Own(t)'
    BY <1>1, <1>3, <2>1, <2>2, ThreadKinds DEF WorkType
  <2>5. Own(next)'
    <3>1. /\ phase'[next] = "before" /\ todo'[Main(next)] = Config[next].before
          /\ todo'[Confirming(next)] = <<>> /\ "before" \in Phases
      BY <1>1, <2>1, <2>2, <2>3, ThreadKinds DEF Phases, WorkType
    <3>2. ThreadsOwn(next)'
      BY <3>1, PhaseActs DEF ThreadsOwn, Main, Confirming, Acts
    <3>3. outcome'[next] = "open" /\ race'[next] = "none" /\ next \notin failed'
      BY <2>2, <2>3
    <3>4. StandsOwn(next)'
      BY <3>1, <3>3 DEF StandsOwn
    <3>5. ReadsOwn(next)'
      BY <3>1 DEF ReadsOwn
    <3> QED
      BY <3>2, <3>4, <3>5 DEF Own
  <2>6. \A u \in Tx : u # t /\ u # next => Own(u)'
    <3> TAKE u \in Tx
    <3> HAVE u # t /\ u # next
    <3> QED
      BY <1>1, <1>2, <2>1, <2>2, AtRest, ThreadKinds DEF WorkType
  <2>7. WorkType'
    <3>1. \A th \in waiting : todo'[th] = todo[th]
      BY <1>1, <2>1, <2>2, <2>3 DEF WorkType
    <3>2. \A e \in Event : todo'[<<"event", e>>] = todo[<<"event", e>>]
      <4> TAKE e \in Event
      <4>1. <<"event", e>> # Main(t) /\ <<"event", e>> # Main(next)
        BY ThreadKinds
      <4> QED
        BY <1>1, <2>1, <4>1, ThreadKinds DEF WorkType
    <3> QED
      BY <1>1, <2>1, <3>1, <3>2 DEF WorkType
  <2>8. \A u \in Tx : Own(u)'
    BY <2>4, <2>5, <2>6
  <2> QED
    BY <2>7, <2>8 DEF OwnInv
<1> QED
  BY <1>4, <1>5

-----------------------------------------------------------------------------
(***************************************************************************)
(* The steps of the engine, which move the running transaction alone.      *)
(***************************************************************************)
LEMMA OwnPhase ==
    ASSUME IInv, OwnInv, NEW t \in Tx, phase[t] \in Phases, running' = running,
           NEW th \in {Main(t), Confirming(t)},
           DOMAIN todo' = Thread, \A x \in Thread : x # th => todo'[x] = todo[x],
           waiting' = waiting, th \notin waiting,
           DOMAIN race' = Tx, DOMAIN outcome' = Tx, DOMAIN crossed' = Tx,
           DOMAIN snapshot' = Tx, DOMAIN store' = Cell,
           \A u \in Tx : u # t => /\ phase'[u] = phase[u] /\ race'[u] = race[u] /\ outcome'[u] = outcome[u]
                                 /\ crossed'[u] = crossed[u] /\ (u \in failed' <=> u \in failed),
           Own(t)'
    PROVE  OwnInv'
<1>1. t = running /\ running # NoTx
  BY InPhaseRuns
<1>2. \A u \in Tx : u # t => Own(u)'
  <2> TAKE u \in Tx
  <2> HAVE u # t
  <2>1. Own(u) /\ phase[u] \notin Phases
    BY OthersAtRest DEF OwnInv
  <2>2. todo'[Main(u)] = todo[Main(u)] /\ todo'[Confirming(u)] = todo[Confirming(u)]
    BY ThreadKinds
  <2> QED
    BY <2>1, <2>2, AtRest
<1>3. \A e \in Event : todo'[<<"event", e>>] = todo[<<"event", e>>]
  <2> TAKE e \in Event
  <2>1. <<"event", e>> \in Thread /\ <<"event", e>> # th
    BY ThreadKinds
  <2> QED
    BY <2>1
<1>4. WorkType'
  BY <1>3 DEF OwnInv, WorkType
<1> QED
  BY <1>1, <1>2, <1>4 DEF OwnInv

\* The phases up to the race.
LEMMA OwnTakeSnapshot ==
    ASSUME IInv, OwnInv, NEW t \in Tx, TakeSnapshot(t)
    PROVE  OwnInv'
<1>1. /\ phase[t] = "before" /\ phase[t] \in Phases /\ "optimistic" \in Phases /\ phase \in [Tx -> Stage]
      /\ Own(t) /\ WorkType /\ Main(t) \notin waiting /\ todo[Confirming(t)] = <<>>
      /\ snapshot' = [snapshot EXCEPT ![t] = store]
      /\ phase' = [phase EXCEPT ![t] = "optimistic"]
      /\ todo' = [todo EXCEPT ![Main(t)] = Config[t].optimistic]
      /\ UNCHANGED <<store, queue, running, race, waiting, order, outcome, failed, stray, crossed>>
  BY DEF TakeSnapshot, Through, Phases, IInv, TurnType, OwnInv, Own, ThreadsOwn, Unstarted, recordVars
<1>2. /\ phase'[t] = "optimistic" /\ todo'[Main(t)] = Config[t].optimistic /\ todo'[Confirming(t)] = <<>>
  BY <1>1, ThreadKinds DEF WorkType
<1>3. ThreadsOwn(t)'
  <2>1. Config[t].optimistic \in Seq(Acts(t)) /\ <<>> \in Seq(Acts(t))
    BY <1>1, PhaseActs
  <2> QED
    BY <1>1, <1>2, <2>1 DEF ThreadsOwn, Main, Confirming, Acts
<1>4. StandsOwn(t)'
  BY <1>1, <1>2 DEF Own, StandsOwn, Unstarted
<1>5. ReadsOwn(t)'
  BY <1>1, <1>2 DEF Own, ReadsOwn, State, Known
<1>6. \A u \in Tx : u # t => phase'[u] = phase[u]
  BY <1>1
<1>7. DOMAIN todo' = Thread /\ \A x \in Thread : x # Main(t) => todo'[x] = todo[x]
  BY <1>1 DEF WorkType
<1> QED
  BY <1>1, <1>3, <1>4, <1>5, <1>6, <1>7, OwnPhase DEF Own, WorkType

LEMMA OwnStartConfirm ==
    ASSUME IInv, OwnInv, NEW t \in Tx, StartConfirm(t)
    PROVE  OwnInv'
<1>1. /\ phase[t] = "optimistic" /\ phase[t] \in Phases /\ phase \in [Tx -> Stage]
      /\ Own(t) /\ WorkType /\ todo[Main(t)] = <<>> /\ todo[Confirming(t)] = <<>>
      /\ store' = SetTo(store, LastError, None)
      /\ phase' = [phase EXCEPT ![t] = "confirm"]
      /\ race' = [race EXCEPT ![t] = "pending"]
      /\ todo' = [todo EXCEPT ![Confirming(t)] = Config[t].confirm]
      /\ UNCHANGED <<queue, running, waiting, snapshot, order, outcome, failed, stray, crossed>>
  BY DEF StartConfirm, Through, Phases, IInv, TurnType, OwnInv, Own, ThreadsOwn, Unstarted, recordVars
<1>2. /\ phase'[t] = "confirm" /\ todo'[Confirming(t)] = Config[t].confirm
      /\ todo'[Main(t)] = <<>> /\ race'[t] = "pending" /\ Confirming(t) \notin waiting
      /\ "confirm" \in Phases
  BY <1>1, ThreadKinds DEF WorkType, Phases
<1>3. /\ DOMAIN store' = Cell /\ store'[LastError] = None /\ store'[Result] = store[Result]
  BY <1>1, SetToCells, Cells DEF WorkType
<1>4. ThreadsOwn(t)'
  <2>1. Config[t].confirm \in Seq(Acts(t)) /\ <<>> \in Seq(Acts(t))
    BY <1>2, PhaseActs
  <2> QED
    BY <1>1, <1>2, <2>1 DEF ThreadsOwn, Main, Confirming, Acts, Unstarted
<1>5. StandsOwn(t)'
  BY <1>1, <1>2 DEF Own, StandsOwn, Unstarted
<1>6. ReadsOwn(t)'
  <2>1. t \notin failed /\ (Known(State(Result)) \/ WritesTo(t, Result, State(Result)))
    BY <1>1 DEF Own, StandsOwn, ReadsOwn, Unstarted
  <2>2. State(Result)' = State(Result) /\ State(LastError)' = None
    BY <1>3 DEF State
  <2>3. Known(State(Result)) => Known(State(Result))'
    BY <1>1, <2>2 DEF Known
  <2> QED
    BY <1>1, <1>2, <2>1, <2>2, <2>3 DEF ReadsOwn, ErrorOwn, WritesTo
<1>7. DOMAIN todo' = Thread /\ \A x \in Thread : x # Confirming(t) => todo'[x] = todo[x]
  BY <1>1 DEF WorkType
<1>8. \A u \in Tx : u # t => phase'[u] = phase[u] /\ race'[u] = race[u]
  BY <1>1 DEF WorkType
<1> QED
  BY <1>1, <1>2, <1>3, <1>4, <1>5, <1>6, <1>7, <1>8, OwnPhase DEF Own, WorkType

\* The confirm list has run to its end, or throws, perhaps when nobody waits for it any more.
LEMMA OwnRace ==
    ASSUME IInv, OwnInv, NEW t \in Tx, Confirmed(t) \/ ThrowInConfirm(t)
    PROVE  OwnInv'
<1>1. /\ Own(t) /\ WorkType /\ phase[t] \notin Unstarted /\ Confirming(t) \notin waiting
      /\ UNCHANGED <<store, queue, running, phase, waiting, snapshot, order, outcome, stray, crossed>>
      /\ DOMAIN todo' = Thread /\ todo'[Confirming(t)] = <<>>
      /\ \A x \in Thread : x # Confirming(t) => todo'[x] = todo[x]
      /\ \/ race' = [race EXCEPT ![t] = "resolved"] /\ failed' = failed /\ race[t] = "pending"
         \/ race' = [race EXCEPT ![t] = "rejected"] /\ failed' = failed \cup {t} /\ race[t] \notin {"resolved", "rejected"}
  <2>1. Own(t) /\ WorkType
    BY DEF OwnInv
  <2>2. CASE Confirmed(t)
    BY <2>1, <2>2 DEF Confirmed, Through, recordVars, Own, StandsOwn, WorkType
  <2>3. CASE ThrowInConfirm(t)
    BY <2>1, <2>3, ThreadKinds DEF ThrowInConfirm, Ready, Own, ThreadsOwn, WorkType
  <2> QED
    BY <2>2, <2>3
<1>2. race'[t] \in {"resolved", "rejected"} /\ todo'[Confirming(t)] = <<>> /\ todo'[Main(t)] = todo[Main(t)]
  BY <1>1, ThreadKinds DEF WorkType
<1>3. Own(t)'
  <2>1. ThreadsOwn(t)'
    BY <1>1, <1>2 DEF Own, ThreadsOwn, Main, Confirming, Acts
  <2>2. StandsOwn(t)'
    BY <1>1 DEF Own, StandsOwn, WorkType
  <2>3. ReadsOwn(t)'
    <3>1. race'[t] # "rejected" => race[t] # "rejected" /\ failed' = failed
      BY <1>1 DEF WorkType
    <3> QED
      BY <1>1, <3>1 DEF Own, ReadsOwn, ErrorOwn, State, Known
  <2> QED
    BY <2>1, <2>2, <2>3 DEF Own
<1>4. \A u \in Tx : u # t => Own(u)'
  <2> TAKE u \in Tx
  <2> HAVE u # t
  <2>1. /\ Own(u) /\ race'[u] = race[u] /\ (u \in failed' <=> u \in failed)
        /\ todo'[Main(u)] = todo[Main(u)] /\ todo'[Confirming(u)] = todo[Confirming(u)]
    BY <1>1, ThreadKinds DEF OwnInv, WorkType
  <2>2. ThreadsOwn(u)'
    BY <1>1, <2>1 DEF Own, ThreadsOwn, Main, Confirming, Acts
  <2>3. StandsOwn(u)'
    BY <1>1, <2>1 DEF Own, StandsOwn
  <2>4. ReadsOwn(u)'
    BY <1>1, <2>1 DEF Own, ReadsOwn, ErrorOwn, State, Known
  <2> QED
    BY <2>2, <2>3, <2>4 DEF Own
<1>5. WorkType'
  <2>1. \A e \in Event : todo'[<<"event", e>>] = todo[<<"event", e>>]
    <3> TAKE e \in Event
    <3>1. <<"event", e>> # Confirming(t) /\ <<"event", e>> \in Thread
      BY ThreadKinds
    <3> QED
      BY <1>1, <3>1 DEF WorkType
  <2> QED
    BY <1>1, <2>1, ThreadKinds DEF WorkType
<1>6. running = NoTx => Known(State(Result))'
  BY <1>1 DEF OwnInv, Known, State
<1> QED
  BY <1>1, <1>3, <1>4, <1>5, <1>6 DEF OwnInv

\* The restore, with the error that follows it.
LEMMA OwnRollback ==
    ASSUME IInv, OwnInv, NEW t \in Tx, phase[t] \in {"confirm", "onSuccess"}, Main(t) \notin waiting,
           NEW err, RollBack(t, err, todo),
           err = Error(t) \/ "set" \in crossed[t], t \in failed' \/ "set" \in crossed[t],
           failed' \in {failed, failed \cup {t}},
           UNCHANGED <<queue, running, race, waiting, snapshot, order, stray, crossed>>
    PROVE  OwnInv'
<1>1. /\ phase[t] \in Phases /\ "onError" \in Phases /\ "onError" \notin Unstarted /\ phase \in [Tx -> Stage]
      /\ Own(t) /\ WorkType
      /\ store' = SetTo(Set(store, Root, snapshot[t]), TxError, err)
      /\ phase' = [phase EXCEPT ![t] = "onError"]
      /\ outcome' = [outcome EXCEPT ![t] = "rolledBack"]
      /\ todo' = [todo EXCEPT ![Main(t)] = Config[t].onError]
  BY DEF RollBack, Phases, IInv, TurnType, OwnInv, Unstarted
<1>2. /\ phase'[t] = "onError" /\ todo'[Main(t)] = Config[t].onError
      /\ todo'[Confirming(t)] = todo[Confirming(t)] /\ outcome'[t] = "rolledBack"
  BY <1>1, ThreadKinds DEF WorkType
<1>3. DOMAIN store' = Cell /\ store'[TxError] = err
  <2>1. DOMAIN Set(store, Root, snapshot[t]) = Cell
    BY <1>1 DEF WorkType, Set
  <2> QED
    BY <1>1, <2>1, SetToCells, Cells
<1>4. ThreadsOwn(t)'
  BY <1>1, <1>2, PhaseActs DEF Own, ThreadsOwn, Main, Confirming, Acts
<1>5. StandsOwn(t)'
  BY <1>1, <1>2 DEF Own, StandsOwn, Unstarted
<1>6. ReadsOwn(t)'
  BY <1>2, <1>3 DEF ReadsOwn, State
<1>7. DOMAIN todo' = Thread /\ \A x \in Thread : x # Main(t) => todo'[x] = todo[x]
  BY <1>1 DEF WorkType
<1>8. \A u \in Tx : u # t => phase'[u] = phase[u] /\ outcome'[u] = outcome[u] /\ (u \in failed' <=> u \in failed)
  BY <1>1 DEF WorkType
<1> QED
  BY <1>1, <1>3, <1>4, <1>5, <1>6, <1>7, <1>8, OwnPhase DEF Own, WorkType

\* After the race: what lastError holds is the own error, or somebody else's.
LEMMA OwnSettle ==
    ASSUME IInv, OwnInv, NEW t \in Tx, Settle(t)
    PROVE  OwnInv'
<1>1. /\ phase[t] = "confirm" /\ race[t] = "resolved" /\ phase[t] \in Phases /\ "onSuccess" \in Phases
      /\ "onSuccess" \notin Unstarted /\ phase \in [Tx -> Stage] /\ Own(t) /\ WorkType /\ todo[Main(t)] = <<>>
      /\ UNCHANGED <<queue, running, race, waiting, snapshot, order, failed, stray, crossed>>
  BY DEF Settle, Phases, IInv, TurnType, OwnInv, Own, ThreadsOwn, Unstarted
<1>2. ErrorOwn(t) /\ Main(t) \notin waiting
  BY <1>1 DEF Own, ReadsOwn, WorkType
<1>3. CASE State(LastError) # None
  <2>1. RollBack(t, State(LastError), todo)
    BY <1>3 DEF Settle
  <2>2. /\ "set" \in crossed[t] \/ (t \in failed /\ State(LastError) = Error(t))
    BY <1>2, <1>3 DEF ErrorOwn
  <2> QED
    BY <1>1, <1>2, <2>1, <2>2, OwnRollback
<1>4. CASE State(LastError) = None
  <2>1. /\ UNCHANGED store
        /\ phase' = [phase EXCEPT ![t] = "onSuccess"]
        /\ outcome' = [outcome EXCEPT ![t] = "committed"]
        /\ todo' = [todo EXCEPT ![Main(t)] = Config[t].onSuccess]
    BY <1>4 DEF Settle
  <2>2. /\ phase'[t] = "onSuccess" /\ todo'[Main(t)] = Config[t].onSuccess
        /\ todo'[Confirming(t)] = todo[Confirming(t)] /\ outcome'[t] = "committed"
    BY <1>1, <2>1, ThreadKinds DEF WorkType
  <2>3. ThreadsOwn(t)'
    BY <1>1, <2>2, PhaseActs DEF Own, ThreadsOwn, Main, Confirming, Acts
  <2>4. StandsOwn(t)'
    BY <1>1, <1>2, <1>4, <2>2 DEF Own, StandsOwn, ErrorOwn, Unstarted
  <2>5. ReadsOwn(t)'
    <3>1. \A u \in Tx : outcome[u] = "aborted" => outcome'[u] = "aborted"
      BY <1>1, <2>1 DEF Own, StandsOwn, WorkType
    <3>2. Known(State(Result)) => Known(State(Result))'
      BY <1>1, <2>1, <3>1 DEF Known, State, WritesTo
    <3> QED
      BY <1>1, <2>1, <2>2, <3>2 DEF Own, ReadsOwn, State, WritesTo
  <2>6. DOMAIN todo' = Thread /\ \A x \in Thread : x # Main(t) => todo'[x] = todo[x]
    BY <1>1, <2>1 DEF WorkType
  <2>7. \A u \in Tx : u # t => phase'[u] = phase[u] /\ outcome'[u] = outcome[u]
    BY <1>1, <2>1 DEF WorkType
  <2> QED
    BY <1>1, <1>2, <2>1, <2>3, <2>4, <2>5, <2>6, <2>7, OwnPhase DEF Own, WorkType
<1> QED
  BY <1>3, <1>4

\* In the catch block, for an action that threw or the timer.
LEMMA OwnRejected ==
    ASSUME IInv, OwnInv, NEW t \in Tx, Rejected(t) \/ Timeout(t) \/ ThrowInOnSuccess(t)
    PROVE  OwnInv'
<1>1. Own(t) /\ WorkType
  BY DEF OwnInv
<1>2. CASE Rejected(t) \/ Timeout(t)
  <2>1. todo[Main(t)] = <<>> /\ Main(t) \notin waiting /\ phase[t] = "confirm"
    BY <1>1, <1>2 DEF Rejected, Timeout, Own, ThreadsOwn, WorkType
  <2>2. RollBack(t, Error(t), todo) /\ t \in failed' /\ failed' \in {failed, failed \cup {t}}
    BY <1>1, <1>2 DEF Rejected, Timeout, Own, StandsOwn
  <2> QED
    BY <1>2, <2>1, <2>2, OwnRollback DEF Rejected, Timeout
<1>3. CASE ThrowInOnSuccess(t)
  BY <1>3, OwnRollback DEF ThrowInOnSuccess, Ready
<1> QED
  BY <1>2, <1>3

\* The two ends of a transaction: no result stays, or that of one that was aborted.
LEMMA OwnFinish ==
    ASSUME IInv, OwnInv, NEW t \in Tx, Finish(t) \/ ThrowBeforeTry(t)
    PROVE  OwnInv'
<1>1. /\ phase[t] \in Phases \ {"confirm"} /\ Main(t) \notin waiting
      /\ WorkType /\ Own(t) /\ Release(t, todo)
      /\ UNCHANGED <<race, waiting, snapshot, failed, stray, crossed>>
  BY DEF Finish, ThrowBeforeTry, Through, Ready, Phases, OwnInv, recordVars
<1>2. CASE Finish(t)
  <2>1. store' = SetTo(store, TxRoot, None) /\ UNCHANGED outcome
    BY <1>2 DEF Finish, recordVars
  <2>2. DOMAIN store' = Cell /\ State(Result)' = None
    BY <1>1, <2>1, SetToCells, Cells DEF WorkType, State
  <2>3. Known(State(Result))'
    BY <2>2 DEF Known
  <2> QED
    BY <1>1, <2>1, <2>2, <2>3, OwnRelease DEF WorkType
<1>3. CASE ThrowBeforeTry(t)
  <2>1. /\ phase[t] \in {"before", "optimistic"} /\ UNCHANGED store
        /\ outcome' = [outcome EXCEPT ![t] = "aborted"]
    BY <1>3 DEF ThrowBeforeTry
  <2>2. /\ DOMAIN outcome' = Tx /\ outcome'[t] = "aborted"
        /\ \A u \in Tx : u # t => outcome'[u] = outcome[u]
    BY <1>1, <2>1 DEF WorkType
  <2>3. Known(State(Result)) \/ WritesTo(t, Result, State(Result))
    BY <1>1, <2>1 DEF Own, ReadsOwn, Phases
  <2>4. Known(State(Result))'
    BY <1>1, <2>1, <2>2, <2>3 DEF Known, State, WritesTo
  <2> QED
    BY <1>1, <2>1, <2>2, <2>4, OwnRelease DEF WorkType
<1> QED
  BY <1>2, <1>3

-----------------------------------------------------------------------------
(***************************************************************************)
(* The steps of the lists, of whomever they are.                           *)
(***************************************************************************)
\* What such a step may do: it takes an action from the list, and what it writes is accounted
\* for.  The error: each transaction that awaits its confirm keeps lastError and its verdict, or
\* they change together, or others are on record.  The cells below /tx: kept, written from
\* outside, or written by the transaction that runs.
Accounted(u) ==
    \/ store'[LastError] = store[LastError] /\ (u \in failed' <=> u \in failed)
    \/ store'[LastError] = None /\ ("cleared" \in crossed'[u] \/ u \notin failed')
    \/ store'[LastError] # None /\ \/ "set" \in crossed'[u]
                                   \/ u \in failed' /\ store'[LastError] = Error(u)
Traced(c) ==
    \/ store'[c] = store[c]
    \/ <<c, store'[c]>> \in stray'
    \/ \E t \in Tx : phase[t] \in Phases /\ WritesTo(t, c, store'[c])

LEMMA OwnDispatch ==
    ASSUME IInv, OwnInv, NEW th \in Thread, UNCHANGED <<running, phase, race, snapshot, outcome>>,
           DOMAIN todo' = Thread, \A x \in Thread : x # th => todo'[x] = todo[x],
           todo'[th] = todo[th] \/ (todo[th] # <<>> /\ todo'[th] \in {<<>>, Tail(todo[th])}),
           waiting' \subseteq Thread, \A x \in waiting' : x \in waiting \/ x = th,
           th \in waiting' => todo'[th] # <<>> /\ Head(todo'[th]).action = "fetch", DOMAIN store' = Cell,
           DOMAIN crossed' = Tx, \A u \in Tx : crossed[u] \subseteq crossed'[u], stray \subseteq stray',
           \A u \in Tx : (u \in failed' <=> u \in failed)
                           \/ (phase[u] = "confirm" /\ th = Confirming(u) /\ todo[th] # <<>>),
           \A u \in Tx : phase[u] = "confirm" => Accounted(u),
           Traced(Result), Traced(TxError)
    PROVE  OwnInv'
<1>1. WorkType /\ \A u \in Tx : Own(u)
  BY DEF OwnInv
<1>2. \A x \in Thread : todo[x] = <<>> => todo'[x] = <<>>
  OBVIOUS
<1>3. ASSUME NEW acts, NEW x \in Thread, todo[x] \in Seq(acts)
      PROVE  todo'[x] \in Seq(acts)
  <2>1. todo'[x] \in {todo[x], <<>>} \/ (todo[x] # <<>> /\ todo'[x] = Tail(todo[x]))
    OBVIOUS
  <2>2. <<>> \in Seq(acts) /\ (todo[x] # <<>> => Tail(todo[x]) \in Seq(acts))
    BY <1>3
  <2> QED
    BY <1>3, <2>1, <2>2
<1>4. \A u \in Tx : Own(u)'
  <2> TAKE u \in Tx
  <2>0. Own(u) /\ Main(u) \in Thread /\ Confirming(u) \in Thread
    BY <1>1, ThreadKinds
  <2>1. ThreadsOwn(u)'
    <3>1. todo'[Main(u)] \in Seq(Acts(u)) /\ todo'[Confirming(u)] \in Seq(Acts(u))
      BY <1>3, <2>0 DEF Own, ThreadsOwn
    <3>2. /\ todo'[Main(u)] # <<>> => todo[Main(u)] # <<>>
          /\ todo[Confirming(u)] = <<>> => todo'[Confirming(u)] = <<>>
      BY <1>2, <2>0
    <3> QED
      BY <2>0, <3>1, <3>2 DEF Own, ThreadsOwn, Main, Confirming, Acts
  <2>2. (u \in failed' <=> u \in failed) \/ (phase[u] = "confirm" /\ race[u] # "rejected")
    <3>1. th = Confirming(u) /\ todo[th] # <<>> => race[u] # "rejected"
      BY <2>0 DEF Own, ThreadsOwn
    <3> QED
      BY <3>1
  <2>3. StandsOwn(u)'
    <3>1. CASE u \in failed' <=> u \in failed
      BY <2>0, <3>1 DEF Own, StandsOwn
    <3>2. CASE phase[u] = "confirm" /\ race[u] # "rejected"
      BY <2>0, <3>2 DEF Own, StandsOwn, Unstarted
    <3> QED
      BY <2>2, <3>1, <3>2
  <2>4. ReadsOwn(u)'
    <3>1. ASSUME phase[u] = "confirm", race[u] # "rejected" PROVE ErrorOwn(u)'
      <4>1. ErrorOwn(u) /\ Accounted(u)
        BY <2>0, <3>1 DEF Own, ReadsOwn
      <4>2. crossed[u] \subseteq crossed'[u] /\ Error(u) # None
        BY ErrorIsSome
      <4>3. CASE store'[LastError] = store[LastError] /\ (u \in failed' <=> u \in failed)
        BY <4>1, <4>2, <4>3 DEF ErrorOwn, State, Error
      <4>4. CASE ~(store'[LastError] = store[LastError] /\ (u \in failed' <=> u \in failed))
        BY <4>1, <4>2, <4>4 DEF ErrorOwn, State, Accounted, Error
      <4> QED
        BY <4>3, <4>4
    <3>2. ASSUME NEW t \in Tx, phase[t] \in Phases, phase[u] \in Phases
          PROVE  t = u
      BY <3>2, OthersAtRest
    <3>3. ASSUME phase[u] \in Phases \ {"onError"}
          PROVE  Known(State(Result))' \/ WritesTo(u, Result, State(Result))'
      <4>1. Known(State(Result)) \/ WritesTo(u, Result, State(Result))
        BY <2>0, <3>3 DEF Own, ReadsOwn
      <4>2. CASE store'[Result] = store[Result]
        BY <4>1, <4>2 DEF State, Known, WritesTo
      <4>3. CASE <<Result, store'[Result]>> \in stray'
        BY <4>3 DEF Known, State
      <4>4. CASE \E t \in Tx : phase[t] \in Phases /\ WritesTo(t, Result, store'[Result])
        BY <3>2, <3>3, <4>4 DEF State, WritesTo
      <4> QED
        BY <4>2, <4>3, <4>4 DEF Traced
    <3>4. ASSUME phase[u] = "onError"
          PROVE  \/ State(TxError)' = Error(u) \/ "set" \in crossed'[u]
                 \/ WritesTo(u, TxError, State(TxError))' \/ <<TxError, State(TxError)'>> \in stray'
      <4>1. \/ store[TxError] = Error(u) \/ "set" \in crossed[u]
            \/ WritesTo(u, TxError, store[TxError]) \/ <<TxError, store[TxError]>> \in stray
        BY <2>0, <3>4 DEF Own, ReadsOwn, State
      <4>2. CASE store'[TxError] = store[TxError]
        BY <4>1, <4>2 DEF State, WritesTo
      <4>3. CASE <<TxError, store'[TxError]>> \in stray'
        BY <4>3 DEF State
      <4>4. CASE \E t \in Tx : phase[t] \in Phases /\ WritesTo(t, TxError, store'[TxError])
        BY <3>2, <3>4, <4>4 DEF State, WritesTo, Phases
      <4> QED
        BY <4>2, <4>3, <4>4 DEF Traced
    <3> QED
      BY <3>1, <3>3, <3>4 DEF ReadsOwn, Error, WritesTo
  <2> QED
    BY <2>1, <2>3, <2>4 DEF Own
<1>5. WorkType'
  <2>1. \A e \in Event : todo'[<<"event", e>>] \in Seq(ToSet(Actions[e]))
    BY <1>1, <1>3, ThreadKinds DEF WorkType
  <2>2. \A x \in waiting' : todo'[x] # <<>> /\ Head(todo'[x]).action = "fetch"
    BY <1>1 DEF WorkType
  <2> QED
    BY <1>1, <2>1, <2>2 DEF WorkType
<1>6. running' = NoTx => Known(State(Result))'
  <2> SUFFICES ASSUME running = NoTx
               PROVE  Known(State(Result))'
    OBVIOUS
  <2>1. \A t \in Tx : phase[t] \notin Phases
    BY InPhaseRuns
  <2>2. CASE store'[Result] = store[Result]
    BY <2>2 DEF OwnInv, Known, State, WritesTo
  <2>3. CASE <<Result, store'[Result]>> \in stray'
    BY <2>3 DEF Known, State
  <2> QED
    BY <2>1, <2>2, <2>3 DEF Traced
<1> QED
  BY <1>4, <1>5, <1>6 DEF OwnInv

\* Whose action is at the head: the running transaction's, or it strays.
LEMMA HeadActs ==
    ASSUME OwnInv, NEW th \in Thread, todo[th] # <<>>, Inside(th)
    PROVE  \E t \in Tx : phase[t] \in Phases /\ Head(todo[th]) \in Acts(t)
<1>1. CASE \E t \in Tx : th = Main(t)
  BY <1>1 DEF OwnInv, Own, ThreadsOwn
<1>2. CASE \E t \in Tx : th = Confirming(t)
  <2>1. PICK t \in Tx : th = Confirming(t)
    BY <1>2
  <2>2. phase[t] = "confirm" /\ "confirm" \in Phases
    BY <2>1, ThreadKinds DEF Inside, Awaited, Phases
  <2>3. todo[th] \in Seq(Acts(t))
    BY <2>1 DEF OwnInv, Own, ThreadsOwn
  <2> QED
    BY <2>2, <2>3
<1>3. ~\E e \in Event : th = <<"event", e>>
  BY DEF Inside, Awaited
<1> QED
  BY <1>1, <1>2, <1>3, ThreadKinds

\* A write of an action to a cell is traced.
LEMMA WriteTraced ==
    ASSUME OwnInv, NEW th \in Thread, todo[th] # <<>>, Writes(Head(todo[th])),
           NEW c \in Cell,
           store'[c] = IF IsPrefix(Head(todo[th]).path, c) THEN Head(todo[th]).value ELSE store[c],
           stray' = Strayed(th, Head(todo[th]).path, Head(todo[th]).value)
    PROVE  Traced(c)
<1>1. CASE ~IsPrefix(Head(todo[th]).path, c)
  BY <1>1 DEF Traced
<1>2. CASE IsPrefix(Head(todo[th]).path, c) /\ Inside(th)
  BY <1>2, HeadActs, ActsWrite DEF Traced
<1>3. CASE IsPrefix(Head(todo[th]).path, c) /\ ~Inside(th)
  BY <1>3 DEF Traced, Strayed
<1> QED
  BY <1>1, <1>2, <1>3

LEMMA StrayedGrows ==
    ASSUME NEW th, NEW path, NEW value
    PROVE  stray \subseteq Strayed(th, path, value)
BY DEF Strayed

LEMMA CrossedGrows ==
    ASSUME DOMAIN crossed = Tx, NEW awaiting, NEW value
    PROVE  /\ DOMAIN Crossed(awaiting, value) = Tx
           /\ \A u \in Tx : crossed[u] \subseteq Crossed(awaiting, value)[u]
           /\ \A u \in Tx : u \in awaiting /\ phase[u] = "confirm" =>
                (IF value = None THEN "cleared" ELSE "set") \in Crossed(awaiting, value)[u]
BY DEF Crossed

LEMMA OwnSetState ==
    ASSUME IInv, OwnInv, NEW th \in Thread, RunSetState(th)
    PROVE  OwnInv'
<1> DEFINE b == Head(todo[th])
<1>1. /\ th \notin waiting /\ todo[th] # <<>> /\ Writes(b) /\ WorkType
      /\ store' = SetTo(store, b.path, b.value)
      /\ todo' = [todo EXCEPT ![th] = Tail(@)]
      /\ stray' = Strayed(th, b.path, b.value)
      /\ crossed' = IF IsPrefix(b.path, LastError) THEN Crossed(Tx, b.value) ELSE crossed
      /\ UNCHANGED <<queue, running, phase, race, waiting, snapshot, order, outcome, failed>>
  BY DEF RunSetState, Ready, Advanced, Writes, OwnInv
<1>2. /\ DOMAIN todo' = Thread /\ todo'[th] = Tail(todo[th])
      /\ \A x \in Thread : x # th => todo'[x] = todo[x]
      /\ waiting' \subseteq Thread /\ \A x \in waiting' : x \in waiting \/ x = th
      /\ th \notin waiting'
  BY <1>1 DEF WorkType
<1> HIDE DEF b
<1>3. /\ DOMAIN store' = Cell
      /\ \A c \in Cell : store'[c] = IF IsPrefix(b.path, c) THEN b.value ELSE store[c]
  BY <1>1, SetToCells DEF WorkType
<1>4. Traced(Result) /\ Traced(TxError)
  BY <1>1, <1>3, WriteTraced, Cells DEF b
<1>5. /\ DOMAIN crossed' = Tx /\ \A u \in Tx : crossed[u] \subseteq crossed'[u]
      /\ stray \subseteq stray'
  BY <1>1, CrossedGrows, StrayedGrows DEF WorkType
<1>6. ASSUME NEW u \in Tx, phase[u] = "confirm" PROVE Accounted(u)
  <2>1. CASE ~IsPrefix(b.path, LastError)
    BY <1>1, <1>3, <2>1, Cells DEF Accounted
  <2>2. CASE IsPrefix(b.path, LastError)
    <3>1. store'[LastError] = b.value
      BY <1>3, <2>2, Cells
    <3>2. (IF b.value = None THEN "cleared" ELSE "set") \in crossed'[u]
      BY <1>1, <1>6, <2>2, CrossedGrows DEF WorkType
    <3> QED
      BY <3>1, <3>2 DEF Accounted
  <2> QED
    BY <2>1, <2>2
<1> QED
  BY <1>1, <1>2, <1>3, <1>4, <1>5, <1>6, OwnDispatch

LEMMA OwnSendFetch ==
    ASSUME IInv, OwnInv, NEW th \in Thread, SendFetch(th)
    PROVE  OwnInv'
<1>1. /\ th \notin waiting /\ todo[th] # <<>> /\ Head(todo[th]).action = "fetch" /\ WorkType
      /\ store' = SetTo(store, Loading, On) /\ waiting' = waiting \cup {th}
      /\ UNCHANGED <<queue, running, phase, race, todo, snapshot, order, outcome, failed, stray, crossed>>
  BY DEF SendFetch, Ready, OwnInv, recordVars
<1>2. DOMAIN store' = Cell /\ \A c \in {LastError, TxError, Result} : store'[c] = store[c]
  BY <1>1, SetToCells, Cells DEF WorkType
<1>3. Traced(Result) /\ Traced(TxError) /\ \A u \in Tx : Accounted(u)
  BY <1>1, <1>2 DEF Traced, Accounted
<1> QED
  BY <1>1, <1>2, <1>3, OwnDispatch DEF WorkType

\* What an answer does to lastError, for every transaction that awaits its confirm.
LEMMA AnswerAccounted ==
    ASSUME OwnInv, NEW th \in Thread, NEW err, store'[LastError] = err,
           crossed' = Crossed(OthersThan(th), err),
           \/ err = None /\ failed' = IF Awaited(th) THEN failed \ {th[2]} ELSE failed
           \/ err = Error(th[2]) /\ failed' = IF Awaited(th) THEN failed \cup {th[2]} ELSE failed
    PROVE  /\ \A u \in Tx : phase[u] = "confirm" => Accounted(u)
           /\ \A u \in Tx : (u \in failed' <=> u \in failed) \/ (phase[u] = "confirm" /\ th = Confirming(u))
<1>1. ASSUME NEW u \in Tx, th # Confirming(u)
      PROVE  (u \in failed' <=> u \in failed) /\ (phase[u] = "confirm" => Accounted(u))
  <2>1. Awaited(th) => th[2] # u
    <3>1. ASSUME th[1] = "confirm", th[2] = u PROVE FALSE
      <4>1. \E t \in Tx : th = Confirming(t)
        BY <3>1, ThreadKinds
      <4> QED
        BY <1>1, <3>1, <4>1, ThreadKinds
    <3> QED
      BY <3>1 DEF Awaited
  <2>2. phase[u] = "confirm" => (IF err = None THEN "cleared" ELSE "set") \in crossed'[u]
    BY <1>1, CrossedGrows DEF OthersThan, OwnInv, WorkType
  <2> QED
    BY <2>1, <2>2 DEF Accounted
<1>2. ASSUME NEW u \in Tx, th = Confirming(u)
      PROVE  /\ phase[u] = "confirm" => Accounted(u)
             /\ (u \in failed' <=> u \in failed) \/ phase[u] = "confirm"
  <2>1. th[2] = u /\ (Awaited(th) <=> phase[u] = "confirm")
    BY <1>2, ThreadKinds DEF Awaited
  <2> QED
    BY <2>1, ErrorIsSome DEF Accounted
<1> QED
  BY <1>1, <1>2

LEMMA OwnAnswer ==
    ASSUME IInv, OwnInv, NEW th \in Thread, AnswerOk(th) \/ AnswerError(th)
    PROVE  OwnInv'
<1> DEFINE b == Head(todo[th])
<1>1. /\ th \in waiting /\ todo[th] # <<>> /\ WorkType
      /\ waiting' = waiting \ {th} /\ todo' = [todo EXCEPT ![th] = Tail(@)]
      /\ UNCHANGED <<queue, running, phase, race, snapshot, order, outcome>>
  BY DEF AnswerOk, AnswerError, Advanced, OwnInv, WorkType
<1>2. /\ DOMAIN todo' = Thread /\ todo'[th] = Tail(todo[th])
      /\ \A x \in Thread : x # th => todo'[x] = todo[x]
      /\ waiting' \subseteq Thread /\ \A x \in waiting' : x \in waiting \/ x = th
      /\ th \notin waiting'
  BY <1>1 DEF WorkType
<1>3. CASE AnswerOk(th)
  <2> DEFINE stored == IF b.path = Root THEN store ELSE SetTo(store, b.path, b.value)
  <2>1. /\ store' = SetTo(SetTo(stored, Loading, None), LastError, None)
        /\ failed' = IF Awaited(th) THEN failed \ {th[2]} ELSE failed
        /\ stray' = IF b.path = Root THEN stray ELSE Strayed(th, b.path, b.value)
        /\ crossed' = Crossed(OthersThan(th), None)
    BY <1>3 DEF AnswerOk
  <2>2. /\ DOMAIN stored = Cell
        /\ \A c \in Cell : stored[c] = IF b.path # Root /\ IsPrefix(b.path, c) THEN b.value ELSE store[c]
    BY <1>1, SetToCells DEF WorkType
  <2> HIDE DEF stored, b
  <2>3. /\ DOMAIN store' = Cell /\ store'[LastError] = None
        /\ \A c \in {TxError, Result} : store'[c] = stored[c]
    <3>1. /\ DOMAIN SetTo(stored, Loading, None) = Cell
          /\ \A c \in {TxError, Result} : SetTo(stored, Loading, None)[c] = stored[c]
      BY <2>2, SetToCells, Cells
    <3> QED
      BY <2>1, <3>1, SetToCells, Cells
  <2>4. ASSUME NEW c \in {TxError, Result} PROVE Traced(c)
    <3>0. c \in Cell /\ store'[c] = IF b.path # Root /\ IsPrefix(b.path, c) THEN b.value ELSE store[c]
      BY <2>2, <2>3, <2>4, Cells
    <3>1. CASE b.path = Root
      BY <3>0, <3>1 DEF Traced
    <3>2. CASE b.path # Root
      <4>1. Writes(b)
        <5>1. b.action = "fetch"
          BY <1>1 DEF b, OwnInv, WorkType
        <5> QED
          BY <3>2, <5>1 DEF Writes
      <4> QED
        BY <1>1, <2>1, <3>0, <3>2, <4>1, WriteTraced DEF b
    <3> QED
      BY <3>1, <3>2
  <2>5. /\ DOMAIN crossed' = Tx /\ \A u \in Tx : crossed[u] \subseteq crossed'[u]
        /\ stray \subseteq stray'
    BY <1>1, <2>1, CrossedGrows, StrayedGrows DEF WorkType
  <2>6. /\ \A u \in Tx : phase[u] = "confirm" => Accounted(u)
        /\ \A u \in Tx : (u \in failed' <=> u \in failed) \/ (phase[u] = "confirm" /\ th = Confirming(u))
    BY <2>1, <2>3, AnswerAccounted
  <2> QED
    BY <1>1, <1>2, <2>3, <2>4, <2>5, <2>6, OwnDispatch
<1>4. CASE AnswerError(th)
  <2>1. /\ store' = SetTo(SetTo(store, Loading, None), LastError, Error(th[2]))
        /\ failed' = IF Awaited(th) THEN failed \cup {th[2]} ELSE failed
        /\ stray' = stray /\ crossed' = Crossed(OthersThan(th), Error(th[2]))
    BY <1>4 DEF AnswerError
  <2>2. /\ DOMAIN store' = Cell /\ store'[LastError] = Error(th[2])
        /\ \A c \in {TxError, Result} : store'[c] = store[c]
    <3>1. /\ DOMAIN SetTo(store, Loading, None) = Cell
          /\ \A c \in {TxError, Result} : SetTo(store, Loading, None)[c] = store[c]
      BY <1>1, SetToCells, Cells DEF WorkType
    <3> QED
      BY <2>1, <3>1, SetToCells, Cells
  <2>3. Traced(Result) /\ Traced(TxError)
    BY <2>2 DEF Traced
  <2>4. DOMAIN crossed' = Tx /\ \A u \in Tx : crossed[u] \subseteq crossed'[u]
    BY <1>1, <2>1, CrossedGrows DEF WorkType
  <2>5. /\ \A u \in Tx : phase[u] = "confirm" => Accounted(u)
        /\ \A u \in Tx : (u \in failed' <=> u \in failed) \/ (phase[u] = "confirm" /\ th = Confirming(u))
    BY <2>1, <2>2, AnswerAccounted
  <2> QED
    BY <1>1, <1>2, <2>1, <2>2, <2>3, <2>4, <2>5, OwnDispatch
<1> QED
  BY <1>3, <1>4

\* An action that throws in a list whose end nobody takes notice of.
LEMMA OwnThrow ==
    ASSUME IInv, OwnInv,
           (\E e \in Event : ThrowInEvent(e)) \/ (\E t \in Tx : ThrowInOnError(t))
    PROVE  OwnInv'
<1>1. PICK th \in Thread :
        /\ th \notin waiting /\ todo[th] # <<>>
        /\ todo' = [todo EXCEPT ![th] = Tail(@)] \/ todo' = [todo EXCEPT ![th] = <<>>]
        /\ UNCHANGED <<store, running, phase, race, waiting, snapshot, outcome, failed, stray, crossed>>
  BY ThreadKinds DEF ThrowInEvent, ThrowInOnError, Ready, Advanced, recordVars
<1>2. WorkType
  BY DEF OwnInv
<1>3. Traced(Result) /\ Traced(TxError) /\ \A u \in Tx : Accounted(u)
  BY <1>1 DEF Traced, Accounted
<1>4. /\ DOMAIN todo' = Thread /\ todo'[th] \in {<<>>, Tail(todo[th])}
      /\ \A x \in Thread : x # th => todo'[x] = todo[x]
  BY <1>1, <1>2 DEF WorkType
<1> QED
  BY <1>1, <1>2, <1>3, <1>4, OwnDispatch DEF WorkType

-----------------------------------------------------------------------------
LEMMA OwnStep == IInv /\ OwnInv /\ [EngineNext]_engineVars => OwnInv'
<1> SUFFICES ASSUME IInv, OwnInv, [EngineNext]_engineVars
             PROVE  OwnInv'
  OBVIOUS
<1>1. ASSUME NEW t \in Tx, Execute(t) \/ Timeout(t) PROVE OwnInv'
  BY <1>1, OwnExecute, OwnRejected
<1>2. ASSUME NEW t \in Tx, Engine(t) PROVE OwnInv'
  BY <1>2, OwnTakeSnapshot, OwnStartConfirm, OwnRace, OwnSettle, OwnRejected, OwnFinish, OwnThrow
     DEF Engine
<1>3. ASSUME NEW th \in Thread, Dispatcher(th) PROVE OwnInv'
  BY <1>3, OwnSetState, OwnSendFetch, OwnAnswer DEF Dispatcher
<1>4. ASSUME NEW e \in Event, ThrowInEvent(e) PROVE OwnInv'
  BY <1>4, OwnThrow
<1>5. ASSUME UNCHANGED engineVars PROVE OwnInv'
  BY <1>5 DEF engineVars, recordVars, OwnInv, WorkType, Own, ThreadsOwn, StandsOwn, ReadsOwn, ErrorOwn,
              Known, State, Main, Confirming, Acts
<1> QED
  BY <1>1, <1>2, <1>3, <1>4, <1>5 DEF EngineNext

LEMMA OwnOutcomes ==
    OwnInv => RolledBackOnlyOnFailure /\ CommittedOnlyIfConfirmed /\ ResultIsOwn /\ OnErrorHasError
  BY DEF OwnInv, Own, StandsOwn, ReadsOwn, Known, Phases,
         RolledBackOnlyOnFailure, CommittedOnlyIfConfirmed, ResultIsOwn, OnErrorHasError

\* Whatever the transactions' lists, the events outside them and the timeouts are, and however
\* their actions interleave (actions/transaction-engine.ts): a transaction is rolled back only if
\* it failed itself, and committed only if it threw nothing and its last request was answered
\* well, unless others wrote lastError while its confirm was awaited; onSuccess reads a result
\* of its own, of a list outside or of an aborted transaction, and onError its own error, one of
\* those others or what a list has put in its place.
THEOREM OutcomesAreOwn ==
    EngineSpec => [](RolledBackOnlyOnFailure /\ CommittedOnlyIfConfirmed /\ ResultIsOwn /\ OnErrorHasError)
<1>1. EngineInit => IInv /\ OwnInv
  BY TurnInit, OwnInit
<1>2. IInv /\ OwnInv /\ [EngineNext]_engineVars => (IInv /\ OwnInv)'
  BY TurnStep, OwnStep
<1> QED
  BY <1>1, <1>2, OwnOutcomes, PTL DEF EngineSpec
=============================================================================
