--------------------------- MODULE MCTransactions ---------------------------
(***************************************************************************)
(* Transactions on a list of tasks and a modal, as in the documentation's  *)
(* templates, in two settings: in "calm" nothing times out and nothing     *)
(* happens outside the transactions, in "mixed" both do.                   *)
(***************************************************************************)
EXTENDS TransactionEngine

VARIABLE scene

Tasks == <<"tasks">>
Modal == <<"ui", "modal">>
Notice == <<"ui", "notice">>
AllCells == {Tasks, Modal, Notice, LastError, Loading, TxError, Result}

\* One template: close the modal, write the tasks, confirm, tell about errors.
Template(name, confirm, onSuccess) ==
    [before |-> <<SetState(Modal, Data(name))>>,
     optimistic |-> <<SetState(Tasks, Data(name))>>,
     confirm |-> confirm,
     onSuccess |-> onSuccess,
     onError |-> <<SetState(Notice, Data(name))>>]

Post(name) == Fetch(Result, Data(name))

\* One that confirms by two requests and refreshes after its success, one whose confirm throws
\* after its request, and one that throws before it does anything.
CalmConfigs ==
    [t \in Tx |-> CASE t = "a" -> Template(t, <<Post(t), Fetch(Root, None)>>, <<Fetch(Root, None)>>)
                    [] t = "b" -> Template(t, <<Post(t), Throw>>, <<>>)
                    [] OTHER -> [ph \in Phases |-> IF ph = "before" THEN <<Throw>> ELSE <<>>]]

\* One that writes after its request, perhaps when it is no longer awaited, one that confirms
\* without a request and throws in onSuccess and in onError, and one that throws after its
\* optimistic write.
MixedConfigs ==
    [t \in Tx |-> CASE t = "a" -> Template(t, <<Post(t), SetState(Notice, Data("sent"))>>, <<>>)
                    [] t = "b" -> [Template(t, <<SetState(Notice, Data("seen"))>>, <<Throw>>) EXCEPT !.onError = @ \o <<Throw>>]
                    [] OTHER -> [Template(t, <<>>, <<>>) EXCEPT !.optimistic = @ \o <<Throw>>]]

\* A list dispatched outside any transaction.
OutsideMixed == [e \in Event |-> <<Throw, Fetch(Root, None)>>]
NoActions == [e \in Event |-> <<>>]

Mixed == INSTANCE TransactionEngineProofs
Calm == INSTANCE TransactionEngineProofs
          WITH Config <- CalmConfigs, Actions <- NoActions, Slow <- {}

sceneVars == <<engineVars, scene>>

SceneInit ==
    \/ scene = "calm" /\ Calm!EngineInit
    \/ scene = "mixed" /\ Mixed!EngineInit

SceneNext ==
    /\ \/ scene = "calm" /\ Calm!EngineNext
       \/ scene = "mixed" /\ Mixed!EngineNext
    /\ UNCHANGED scene

\* What can go on goes on, in the setting whose confirm requests may stay unanswered.
SceneSpec == SceneInit /\ [][SceneNext]_sceneVars /\ WF_sceneVars(scene = "mixed" /\ Mixed!GoesOn /\ UNCHANGED scene)

\* TransactionEngine!SettledState in both settings: when all transactions have ended the
\* state is what they would have produced one after the other, or what a list outside them
\* wrote, although their lists interleave action by action, throw, and go on after their
\* timeouts.
Settled ==
    /\ scene = "calm" => Calm!SettledState
    /\ scene = "mixed" => EngineTypeOK /\ SettledState

\* A transaction's outcome is its own, unless others write lastError while it awaits its confirm:
\* it is rolled back only if it failed (RolledBackOnlyOnFailure), committed only if it threw
\* nothing and its last request was answered well (CommittedOnlyIfConfirmed), and the final
\* phase reads its own result (ResultIsOwn) or error (OnErrorHasError).
OutcomeIsOwn ==
    /\ scene = "calm" => /\ Calm!RolledBackOnlyOnFailure /\ Calm!CommittedOnlyIfConfirmed
                         /\ Calm!ResultIsOwn /\ Calm!OnErrorHasError
    /\ scene = "mixed" => /\ Mixed!RolledBackOnlyOnFailure /\ Mixed!CommittedOnlyIfConfirmed
                          /\ Mixed!ResultIsOwn /\ Mixed!OnErrorHasError

\* Every transaction that was executed ends, although confirm requests may never be
\* answered and actions throw in every phase.
MixedEnd == \A t \in Tx : scene = "mixed" /\ phase[t] # "new" ~> phase[t] = "ended"
-----------------------------------------------------------------------------
(* What the code does not keep *)

\* The optimistic writes of an aborted transaction are gone (TransactionEngine!OptimisticRolledBack).
ThrowUndone == scene = "mixed" => OptimisticRolledBack
=============================================================================
