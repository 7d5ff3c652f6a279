------------------------ MODULE EnvironmentPromotion ------------------------
(***************************************************************************)
(* Environments and promotion: screen_environments holds, per spec and     *)
(* environment, a pointer to a version; `mythik promote --confirm` runs    *)
(* the gate (runPromoteGate) over a batch of specs and then moves their    *)
(* pointers one by one.  The version store is used through its abstract    *)
(* history (module VersionHistory): an append-only log per spec.           *)
(*                                                                         *)
(* Promoters are separate processes.  The gate's reads and the pointer     *)
(* writes are separate statements, so other promoters, `mythik envs --set` *)
(* and pushes run between them, and a promoter may die between two writes. *)
(***************************************************************************)
EXTENDS Naturals, Sequences, Functions

CONSTANTS
    SpecId,       \* the specs
    Env,          \* the environments
    Promoter,     \* processes running `mythik promote`
    Mortal,       \* the promoters that may die or lose the database
    Serial,       \* TRUE when people run one command at a time
    SpecDoc,     \* the documents that are pushed, see DocumentForm
    Batch,        \* the spec id lists given to promote
    ApiList,      \* the lists given to --api
    Route,        \* the <<from, to>> environment pairs promoted along
    Manual,       \* the environments that `envs --set` is used on
    MaxVersion,   \* bound: versions per spec, and one more for `envs --set`
    MaxJobs       \* bound: promotions, over the whole behaviour

\* A document: whether it is an api spec, the screens it navigates to, and the
\* endpoints it fetches (a screen) or serves (an api spec).
ASSUME DocumentForm ==
    \A d \in SpecDoc : d.isApi \in BOOLEAN /\ d.refs \subseteq SpecId
ASSUME BatchForm ==
    \A ids \in Batch : ids \in Seq(SpecId) /\ ids # <<>>
ASSUME PlaceForm == Route \subseteq Env \X Env /\ Manual \subseteq Env
ASSUME BoundForm == MaxVersion \in Nat /\ MaxJobs \in Nat

VARIABLES
    log,   \* the saved documents of each spec, in version order
    pointer,   \* <<spec, environment>> -> version, partial
    job,       \* what each promoter is doing
    jobs       \* promotions started so far

promoteVars == <<log, pointer, job, jobs>>

-----------------------------------------------------------------------------
(***************************************************************************)
(* A promotion: the ids still to read and the plan built from those read   *)
(* (specsToPromote), the apis still to read and those checked, what the    *)
(* gate found, and how many pointers have moved.                           *)
(***************************************************************************)
NoJob == [pc |-> "idle", ids |-> {}, from |-> "", to |-> "", todo |-> <<>>,
          plan |-> <<>>, specValid |-> TRUE, crossScreenValid |-> TRUE,
          apis |-> <<>>, checked |-> {}, moved |-> 0]

JobAt(p, label) == job[p].pc = label
JobBecomes(p, local) == job' = [job EXCEPT ![p] = local]
Ended == {"idle", "done", "rejected", "dead"}
MayStart == Serial => \A p \in Promoter : job[p].pc \in Ended

HasPointer(id, env) == <<id, env>> \in DOMAIN pointer
Resolves(id, env) == pointer[<<id, env>>] \in DOMAIN log[id]
PointedAt(id, env) == [id |-> id, version |-> pointer[<<id, env>>]]
DocOf(e) == log[e.id][e.version]

\* promote <ids> --from --to [--api] --confirm.
Begin(p, ids, route, apis) ==
    /\ job[p].pc \in Ended /\ MayStart
    /\ jobs < MaxJobs /\ jobs' = jobs + 1
    /\ JobBecomes(p, [NoJob EXCEPT !.pc = "sources", !.ids = Range(ids), !.todo = ids,
                               !.from = route[1], !.to = route[2], !.apis = apis])
    /\ UNCHANGED <<log, pointer>>

\* The gate's first loop, one spec per step.  Without a source pointer the spec
\* is invalid and the loop goes on; a pointer to no version makes loadVersion
\* throw.  The last spec read decides whether the gate continues.
ReadSource(p) ==
    LET j == job[p]
        id == Head(j.todo)
        read(i) == [i EXCEPT !.todo = Tail(j.todo),
                             !.pc = IF Len(j.todo) > 1 THEN "sources"
                                    ELSE IF i.specValid THEN "crossScreen" ELSE "rejected"]
    IN  /\ JobAt(p, "sources")
        /\ \/ /\ ~HasPointer(id, j.from)
              /\ JobBecomes(p, read([j EXCEPT !.specValid = FALSE]))
           \/ /\ HasPointer(id, j.from) /\ ~Resolves(id, j.from)
              /\ JobBecomes(p, [j EXCEPT !.pc = "rejected"])
           \/ /\ HasPointer(id, j.from) /\ Resolves(id, j.from)
              /\ JobBecomes(p, read([j EXCEPT !.plan = Append(@, PointedAt(id, j.from))]))
        /\ UNCHANGED <<log, pointer, jobs>>

\* Layer 2: references to screens outside the batch that the destination does
\* not have are recorded, and only recorded.
CrossScreen(p) ==
    LET j == job[p]
        refs == UNION {DocOf(e).refs : e \in Range(j.plan)} \ j.ids
    IN  /\ JobAt(p, "crossScreen")
        /\ JobBecomes(p, [j EXCEPT !.pc = IF j.apis = <<>> THEN "move" ELSE "contract",
                               !.crossScreenValid = \A r \in refs : HasPointer(r, j.to)])
        /\ UNCHANGED <<log, pointer, jobs>>

\* runContract, by its endpoints-exist rule: every endpoint that a screen of
\* the batch fetches is served by one of the apis.  Nothing is checked when no
\* api was found or the batch has no screen.
Satisfied(plan, checked) ==
    LET served == UNION {DocOf(a).endpoints : a \in checked}
    IN  checked = {} \/ \A e \in Range(plan) : DocOf(e).isApi \/ DocOf(e).endpoints \subseteq served

\* Fault: the destination's version of an api is checked, even of a batched one.
ReadApiDestination(p) ==
    LET j == job[p]
        id == Head(j.apis)
        read(i) == [i EXCEPT !.apis = Tail(j.apis),
                             !.pc = IF Len(j.apis) > 1 THEN "contract"
                                    ELSE IF Satisfied(i.plan, i.checked) THEN "move"
                                    ELSE "rejected"]
    IN  /\ JobAt(p, "contract")
        /\ IF HasPointer(id, j.to) /\ Resolves(id, j.to)
             THEN JobBecomes(p, read([j EXCEPT !.checked = @ \cup {PointedAt(id, j.to)}]))
             ELSE JobBecomes(p, read(j))
        /\ UNCHANGED <<log, pointer, jobs>>

\* Layer 3, one api per step: the source environment's version when the api is
\* in the batch, read again here, else the destination's.
ReadApi(p) ==
    LET j == job[p]
        id == Head(j.apis)
        env == IF id \in j.ids THEN j.from ELSE j.to
        read(i) == [i EXCEPT !.apis = Tail(j.apis),
                             !.pc = IF Len(j.apis) > 1 THEN "contract"
                                    ELSE IF Satisfied(i.plan, i.checked) THEN "move"
                                    ELSE "rejected"]
    IN  /\ JobAt(p, "contract")
        /\ \/ /\ ~HasPointer(id, env)
              /\ JobBecomes(p, read(j))
           \/ /\ HasPointer(id, env) /\ ~Resolves(id, env)
              /\ JobBecomes(p, [j EXCEPT !.pc = "rejected"])
           \/ /\ HasPointer(id, env) /\ Resolves(id, env)
              /\ JobBecomes(p, read([j EXCEPT !.checked = @ \cup {PointedAt(id, env)}]))
        /\ UNCHANGED <<log, pointer, jobs>>

\* setEnvironment: an upsert on the key (screen_id, environment).
SetEnvironment(id, env, v) ==
    pointer' = [k \in DOMAIN pointer \cup {<<id, env>>} |->
                  IF k = <<id, env>> THEN v ELSE pointer[k]]

\* Fault: the source pointer is read again instead of using the plan's version.
MoveRereads(p) ==
    LET j == job[p]
        e == j.plan[j.moved + 1]
    IN  /\ JobAt(p, "move")
        /\ j.moved < Len(j.plan)
        /\ SetEnvironment(e.id, j.to, pointer[<<e.id, j.from>>])
        /\ JobBecomes(p, [j EXCEPT !.moved = @ + 1,
                               !.pc = IF j.moved + 1 = Len(j.plan) THEN "done" ELSE "move"])
        /\ UNCHANGED <<log, jobs>>

\* The loop of the promote command, one pointer per step.
Move(p) ==
    LET j == job[p]
        e == j.plan[j.moved + 1]
    IN  /\ JobAt(p, "move")
        /\ j.moved < Len(j.plan)
        /\ SetEnvironment(e.id, j.to, e.version)
        /\ JobBecomes(p, [j EXCEPT !.moved = @ + 1,
                               !.pc = IF j.moved + 1 = Len(j.plan) THEN "done" ELSE "move"])
        /\ UNCHANGED <<log, jobs>>

\* The process dies, or a statement fails: the pointers already moved stay moved.
Die(p) ==
    /\ p \in Mortal /\ job[p].pc \notin Ended
    /\ JobBecomes(p, [job[p] EXCEPT !.pc = "dead"])
    /\ UNCHANGED <<log, pointer, jobs>>

\* mythik envs <id> --set env=v: any number, whether or not the version exists.
SetByHand(id, env, v) ==
    /\ MayStart
    /\ SetEnvironment(id, env, v)
    /\ UNCHANGED <<log, job, jobs>>

\* A push with --author, as VersionHistory promises it.
SaveVersion(id, d) ==
    /\ MayStart
    /\ Len(log[id]) < MaxVersion
    /\ log' = [log EXCEPT ![id] = Append(@, d)]
    /\ UNCHANGED <<pointer, job, jobs>>

PromoteInit ==
    /\ log = [id \in SpecId |-> <<>>]
    /\ pointer = [k \in {} |-> 0]
    /\ job = [p \in Promoter |-> NoJob]
    /\ jobs = 0

Promote(p) ==
    \/ \E ids \in Batch, route \in Route, apis \in ApiList : Begin(p, ids, route, apis)
    \/ ReadSource(p) \/ CrossScreen(p) \/ ReadApi(p) \/ Move(p) \/ Die(p)

PromoteNext ==
    \/ \E p \in Promoter : Promote(p)
    \/ \E id \in SpecId, env \in Manual, v \in 1 .. MaxVersion + 1 : SetByHand(id, env, v)
    \/ \E id \in SpecId, d \in SpecDoc : SaveVersion(id, d)

PromoteSpec == PromoteInit /\ [][PromoteNext]_promoteVars

-----------------------------------------------------------------------------
(***************************************************************************)
(* Properties.                                                             *)
(***************************************************************************)
Entries(max) == [id : SpecId, version : 1 .. max]

\* Pointers, plans and checked apis name specs and versions that may exist.
PromoteTypeOK ==
    /\ \A id \in SpecId : log[id] \in Seq(SpecDoc)
    /\ DOMAIN pointer \subseteq SpecId \X Env
    /\ \A k \in DOMAIN pointer : pointer[k] \in 1 .. MaxVersion + 1
    /\ \A p \in Promoter :
         /\ job[p].pc \in Ended \cup {"sources", "crossScreen", "contract", "move"}
         /\ job[p].plan \in Seq(Entries(MaxVersion + 1)) /\ job[p].checked \subseteq Entries(MaxVersion + 1)
         /\ job[p].moved \in 0 .. Len(job[p].plan)
    /\ jobs \in 0 .. MaxJobs

\* An environment that is only promoted to never points at a version that does
\* not exist, although `envs --set` may leave such pointers in the sources and
\* whatever else runs between the gate's reads and the writes.
PromotedResolve ==
    \A k \in DOMAIN pointer : k[2] \notin Manual => Resolves(k[1], k[2])

\* What a promotion with a contract check leaves in the destination passes that
\* check: the environment now holds the planned version of every spec of the
\* batch, and the apis it now holds serve whatever those screens fetch.
PromotedBatchConsistent ==
    \A p \in Promoter : JobAt(p, "done") =>
      LET j == job[p]
      IN  /\ \A e \in Range(j.plan) : pointer[<<e.id, j.to>>] = e.version
          /\ Satisfied(j.plan, {PointedAt(a.id, j.to) : a \in j.checked})

\* A spec in a promoted environment was promoted there by a batch that as a
\* whole passed the gate's first layer: no batch with a missing source moves
\* even the specs whose sources it found.
WholeBatchMoves ==
    \A p \in DOMAIN job : JobAt(p, "done") => {e.id : e \in Range(job[p].plan)} = job[p].ids

\* Whatever runs between the gate's reads and the pointer writes, and whoever dies, a
\* promotion that succeeds moves its whole batch, to versions that exist.
PromotionSound == PromotedResolve /\ WholeBatchMoves

\* Every promotion that has ended moved all of its pointers or none of them.
NoPartialPromotion ==
    \A p \in Promoter : job[p].pc \in Ended => job[p].moved \in {0, Len(job[p].plan)}

\* When all promotions of one batch to one environment have succeeded, the
\* environment holds what one of them planned, not some of one and some of another.
NoMixedPromotion ==
    (\A p \in Promoter : JobAt(p, "done") /\ job[p].ids = SpecId) =>
      \E p \in Promoter : \A e \in Range(job[p].plan) :
        pointer[<<e.id, job[p].to>>] = e.version

\* A promotion whose batch refers to a screen that the destination lacks does
\* not move a pointer.
DanglingReferenceRejected ==
    \A p \in Promoter : job[p].moved > 0 => job[p].crossScreenValid

\* The contract was checked with the very version of a batched api that moves.
ContractChecksBatchVersion ==
    \A p \in Promoter : JobAt(p, "move") =>
      \A a \in job[p].checked : a.id \in job[p].ids => a \in Range(job[p].plan)
=============================================================================
