--------------------- MODULE EnvironmentPromotionProofs ---------------------
(***************************************************************************)
(* What a promotion that succeeds has moved: PromotionSound is an          *)
(* invariant for any number of promoters, mortal or not, any batches and   *)
(* routes, with pushes and envs --set at any time.                         *)
(*                                                                         *)
(* PromotionSound is about pointers and about promotions that are done.    *)
(* The invariant says of a promotion on its way that the entries of its    *)
(* plan resolve, which they go on to do because histories only grow, and   *)
(* that as long as no source was missing the plan and the ids still to     *)
(* read make up the batch.                                                 *)
(*                                                                         *)
(* BatchConsistent is about one command at a time.  Its invariant AloneInv *)
(* says that what the gate has read is still what the environments hold,   *)
(* so that the apis it has checked are those that will be there.           *)
(***************************************************************************)
EXTENDS EnvironmentPromotion, TLAPS

Fields == DOMAIN NoJob
Passed == {"crossScreen", "contract", "move", "done"}
PlanIds(plan) == {e.id : e \in Range(plan)}

\* Types of the parts of a promotion that decide what is moved.
JobType(j) ==
    /\ DOMAIN j = Fields
    /\ j.todo \in Seq(SpecId) /\ j.plan \in Seq([id : SpecId, version : Nat])
    /\ j.specValid \in BOOLEAN /\ j.moved \in Nat
    /\ (j.pc = "sources" => j.todo # <<>>)

\* The entries of a plan name versions that exist.
PlanResolves(j) ==
    \A i \in 1 .. Len(j.plan) : j.plan[i].version \in DOMAIN log[j.plan[i].id]

\* A plan that passes the first loop of the gate holds the whole batch.
PlanWhole(j) ==
    /\ j.pc = "sources" /\ j.specValid => PlanIds(j.plan) \cup Range(j.todo) = j.ids
    /\ j.pc \in Passed => PlanIds(j.plan) = j.ids

JobSound(j) == JobType(j) /\ PlanResolves(j) /\ PlanWhole(j)

\* Pointers of environments that are only promoted to resolve.
PointersResolve ==
    \A k \in DOMAIN pointer : k[2] \notin Manual => k[1] \in SpecId /\ Resolves(k[1], k[2])

\* A pointer is of a spec, and looked up by the pair it is for.
PointerKeys == \A k \in DOMAIN pointer : k = <<k[1], k[2]>> /\ k[1] \in SpecId

IInv ==
    /\ log \in [SpecId -> Seq(SpecDoc)]
    /\ DOMAIN job = Promoter /\ \A p \in Promoter : JobSound(job[p])
    /\ PointersResolve /\ PointerKeys
-----------------------------------------------------------------------------
LEMMA PromotionInit == PromoteInit => IInv
<1> SUFFICES ASSUME PromoteInit
             PROVE  IInv
  OBVIOUS
<1>1. JobSound(NoJob)
  BY DEF NoJob, JobSound, JobType, PlanResolves, PlanWhole, Fields, Passed
<1> QED
  BY <1>1 DEF PromoteInit, IInv, PointersResolve, PointerKeys

\* A promotion takes a step; histories and pointers stay.
LEMMA JobStep ==
    ASSUME IInv, NEW p \in Promoter, NEW j, JobBecomes(p, j), JobSound(j), UNCHANGED <<log, pointer>>
    PROVE  IInv'
<1>1. \A q \in Promoter : JobSound(job'[q])
  BY DEF IInv, JobBecomes
<1>2. \A q \in Promoter : JobSound(job[q])'
  BY <1>1 DEF JobSound, JobType, PlanResolves, PlanWhole
<1> QED
  BY <1>2 DEF IInv, JobBecomes, PointersResolve, PointerKeys, Resolves

\* A promotion that ends otherwise than by success.
LEMMA GivenUp ==
    ASSUME NEW j, JobSound(j), NEW pc \in {"rejected", "dead"}
    PROVE  JobSound([j EXCEPT !.pc = pc])
BY DEF JobSound, JobType, PlanResolves, PlanWhole, Fields, NoJob, Passed

\* The members of a sequence.
LEMMA Members ==
    ASSUME NEW S, NEW s \in Seq(S)
    PROVE  Len(s) \in Nat /\ DOMAIN s = 1 .. Len(s) /\ \A i \in 1 .. Len(s) : s[i] \in S
OBVIOUS

\* The entries of a plan are of specs.
LEMMA PlanOfSpecs ==
    ASSUME NEW j, JobSound(j)
    PROVE  \A i \in 1 .. Len(j.plan) : j.plan[i].id \in SpecId
<1>1. \A i \in 1 .. Len(j.plan) : j.plan[i] \in [id : SpecId, version : Nat]
  BY Members DEF JobSound, JobType
<1> QED
  BY <1>1

\* What is left to read and what has been read, as sets.
LEMMA ReadOne ==
    ASSUME NEW S, NEW todo \in Seq(S), todo # <<>>
    PROVE  /\ Head(todo) \in S /\ Tail(todo) \in Seq(S)
           /\ Range(todo) = {Head(todo)} \cup Range(Tail(todo))
           /\ Len(todo) > 1 => Tail(todo) # <<>>
           /\ ~(Len(todo) > 1) => Range(Tail(todo)) = {}
<1>1. /\ Head(todo) \in S /\ Tail(todo) \in Seq(S) /\ Head(todo) = todo[1]
      /\ Len(todo) \in Nat \ {0} /\ Len(Tail(todo)) = Len(todo) - 1
      /\ DOMAIN todo = 1 .. Len(todo) /\ DOMAIN Tail(todo) = 1 .. Len(todo) - 1
      /\ \A i \in 1 .. Len(todo) - 1 : Tail(todo)[i] = todo[i + 1]
  OBVIOUS
<1>2. \A x \in Range(todo) : x = Head(todo) \/ x \in Range(Tail(todo))
  <2> SUFFICES ASSUME NEW i \in 1 .. Len(todo), i # 1
               PROVE  todo[i] \in Range(Tail(todo))
    BY <1>1 DEF Range
  <2>1. i - 1 \in 1 .. Len(todo) - 1 /\ Tail(todo)[i - 1] = todo[i]
    BY <1>1
  <2> QED
    BY <1>1, <2>1 DEF Range
<1>3. Head(todo) \in Range(todo) /\ Range(Tail(todo)) \subseteq Range(todo)
  BY <1>1 DEF Range
<1> QED
  BY <1>1, <1>2, <1>3, SMTT(30) DEF Range

\* A plan with one more entry.
LEMMA PlanOne ==
    ASSUME NEW plan \in Seq([id : SpecId, version : Nat]), NEW e \in [id : SpecId, version : Nat]
    PROVE  PlanIds(Append(plan, e)) = PlanIds(plan) \cup {e.id}
<1>1. /\ DOMAIN Append(plan, e) = 1 .. Len(plan) + 1 /\ DOMAIN plan = 1 .. Len(plan)
      /\ \A i \in 1 .. Len(plan) : Append(plan, e)[i] = plan[i]
      /\ Append(plan, e)[Len(plan) + 1] = e
  OBVIOUS
<1>2. Range(Append(plan, e)) = Range(plan) \cup {e}
  BY <1>1 DEF Range
<1> QED
  BY <1>2 DEF PlanIds
-----------------------------------------------------------------------------
LEMMA BeginStep ==
    ASSUME IInv, NEW p \in Promoter, NEW ids \in Batch, NEW route \in Route, NEW apis \in ApiList,
           Begin(p, ids, route, apis)
    PROVE  IInv'
<1> DEFINE j == [NoJob EXCEPT !.pc = "sources", !.ids = Range(ids), !.todo = ids,
                              !.from = route[1], !.to = route[2], !.apis = apis]
<1>1. /\ DOMAIN j = Fields /\ j.pc = "sources" /\ j.ids = Range(ids) /\ j.todo = ids
      /\ j.plan = <<>> /\ j.specValid = TRUE /\ j.moved = 0
  BY DEF NoJob, Fields
<1>2. PlanIds(<<>>) = {}
  BY DEF PlanIds, Range
<1>3. JobSound(j)
  <2> HIDE DEF j
  <2> QED
    <3>1. j.plan \in Seq([id : SpecId, version : Nat]) /\ Len(j.plan) = 0
      BY <1>1
    <3>2. JobType(j)
      <4>1. ids \in Seq(SpecId) /\ ids # <<>>
        BY BatchForm
      <4>2. j.specValid \in BOOLEAN
        BY <1>1
      <4> QED
        BY <1>1, <3>1, <4>1, <4>2 DEF JobType
    <3>3. PlanResolves(j)
      BY <3>1 DEF PlanResolves
    <3>4. PlanWhole(j)
      BY <1>1, <1>2 DEF PlanWhole, Passed
    <3> QED
      BY <3>2, <3>3, <3>4 DEF JobSound
<1> QED
  BY <1>3, JobStep DEF Begin

\* One spec of the batch is read.
LEMMA ReadSourceStep ==
    ASSUME IInv, NEW p \in Promoter, ReadSource(p)
    PROVE  IInv'
<1> DEFINE j == job[p]
           id == Head(j.todo)
           left(i) == [i EXCEPT !.todo = Tail(j.todo),
                                !.pc = IF Len(j.todo) > 1 THEN "sources"
                                       ELSE IF i.specValid THEN "crossScreen" ELSE "rejected"]
<1>1. JobSound(j) /\ j.pc = "sources"
  BY DEF IInv, ReadSource, JobAt
<1>2. /\ id \in SpecId /\ Tail(j.todo) \in Seq(SpecId)
      /\ Range(j.todo) = {id} \cup Range(Tail(j.todo))
      /\ Len(j.todo) > 1 => Tail(j.todo) # <<>>
      /\ ~(Len(j.todo) > 1) => Range(Tail(j.todo)) = {}
  BY <1>1, ReadOne DEF JobSound, JobType
<1>3. CASE JobBecomes(p, left([j EXCEPT !.specValid = FALSE]))
  <2> DEFINE k == left([j EXCEPT !.specValid = FALSE])
  <2>1. /\ DOMAIN k = Fields /\ k.todo = Tail(j.todo) /\ k.plan = j.plan /\ k.specValid = FALSE
        /\ k.moved = j.moved /\ k.pc = IF Len(j.todo) > 1 THEN "sources" ELSE "rejected"
    BY <1>1 DEF JobSound, JobType, Fields, NoJob
  <2>2. JobSound(k)
    <3> HIDE DEF k, left
    <3> QED
      BY <1>1, <1>2, <2>1 DEF JobSound, JobType, PlanResolves, PlanWhole, Passed
  <2> QED
    BY <1>3, <2>2, JobStep DEF ReadSource
<1>4. CASE JobBecomes(p, [j EXCEPT !.pc = "rejected"])
  BY <1>1, <1>4, GivenUp, JobStep DEF ReadSource
<1>5. CASE /\ Resolves(id, j.from)
           /\ JobBecomes(p, left([j EXCEPT !.plan = Append(@, PointedAt(id, j.from))]))
  <2> DEFINE e == PointedAt(id, j.from)
             k == left([j EXCEPT !.plan = Append(@, e)])
  <2>1. /\ DOMAIN k = Fields /\ k.todo = Tail(j.todo) /\ k.plan = Append(j.plan, e)
        /\ k.specValid = j.specValid /\ k.moved = j.moved /\ k.ids = j.ids
        /\ k.pc = IF Len(j.todo) > 1 THEN "sources" ELSE IF j.specValid THEN "crossScreen" ELSE "rejected"
    BY <1>1 DEF JobSound, JobType, Fields, NoJob
  <2>2. e.id = id /\ e.version \in DOMAIN log[id] /\ e \in [id : SpecId, version : Nat]
    <3>1. pointer[<<id, j.from>>] \in DOMAIN log[id] /\ DOMAIN log[id] \subseteq Nat
      BY <1>2, <1>5 DEF IInv, Resolves
    <3> QED
      BY <1>2, <3>1 DEF PointedAt
  <2>3. PlanIds(k.plan) = PlanIds(j.plan) \cup {id}
    BY <1>1, <2>1, <2>2, PlanOne, ZenonT(60) DEF JobSound, JobType
  <2>4. JobType(k) /\ PlanResolves(k)
    <3> HIDE DEF k, left, e
    <3> QED
      BY <1>1, <1>2, <2>1, <2>2 DEF JobSound, JobType, PlanResolves
  <2>5. PlanWhole(k)
    <3> HIDE DEF k, left, e
    <3> QED
      BY <1>1, <1>2, <2>1, <2>3 DEF JobSound, JobType, PlanWhole, Passed
  <2>6. JobSound(k)
    BY <2>4, <2>5 DEF JobSound
  <2> QED
    BY <1>5, <2>6, JobStep DEF ReadSource
<1> QED
  BY <1>3, <1>4, <1>5 DEF ReadSource

\* The later layers of the gate and the loop of the command leave the plan as it is.
LEMMA PlanStays ==
    ASSUME NEW j, NEW k, JobSound(j), j.pc \in Passed, k.pc \in Passed \cup {"rejected"},
           DOMAIN k = Fields, k.ids = j.ids, k.todo = j.todo, k.plan = j.plan,
           k.specValid = j.specValid, k.moved \in Nat
    PROVE  JobSound(k)
BY DEF JobSound, JobType, PlanResolves, PlanWhole, Passed

Kept(j, k) ==
    /\ k.pc \in Passed \cup {"rejected"} /\ DOMAIN k = Fields
    /\ k.ids = j.ids /\ k.todo = j.todo /\ k.plan = j.plan
    /\ k.specValid = j.specValid /\ k.moved = j.moved

LEMMA GateStep ==
    ASSUME IInv, NEW p \in Promoter, CrossScreen(p) \/ ReadApi(p)
    PROVE  IInv'
<1> DEFINE j == job[p]
<1>1. JobSound(j) /\ j.pc \in Passed
  BY DEF IInv, CrossScreen, ReadApi, JobAt, Passed
<1>2. ASSUME NEW k, JobBecomes(p, k), Kept(j, k), UNCHANGED <<log, pointer>>
      PROVE  IInv'
  <2>1. JobSound(k)
    BY <1>1, <1>2, PlanStays DEF Kept, JobSound, JobType
  <2> QED
    BY <1>2, <2>1, JobStep
<1>3. CASE CrossScreen(p)
  <2> DEFINE valid == \A r \in UNION {DocOf(e).refs : e \in Range(j.plan)} \ j.ids : HasPointer(r, j.to)
             k == [j EXCEPT !.pc = IF j.apis = <<>> THEN "move" ELSE "contract", !.crossScreenValid = valid]
  <2>1. JobBecomes(p, k) /\ UNCHANGED <<log, pointer>>
    BY <1>3 DEF CrossScreen
  <2>2. Kept(j, k)
    BY <1>1 DEF Kept, JobSound, JobType, Fields, NoJob, Passed
  <2> HIDE DEF k
  <2> QED
    BY <1>2, <2>1, <2>2
<1>4. CASE ReadApi(p)
  <2> DEFINE left(i) == [i EXCEPT !.apis = Tail(j.apis),
                                  !.pc = IF Len(j.apis) > 1 THEN "contract"
                                         ELSE IF Satisfied(i.plan, i.checked) THEN "move" ELSE "rejected"]
             found(env) == [j EXCEPT !.checked = @ \cup {PointedAt(Head(j.apis), env)}]
  <2>1. UNCHANGED <<log, pointer>>
    BY <1>4 DEF ReadApi
  <2>2. \/ JobBecomes(p, left(j))
        \/ JobBecomes(p, [j EXCEPT !.pc = "rejected"])
        \/ \E env : JobBecomes(p, left(found(env)))
    BY <1>4 DEF ReadApi
  <2>3. /\ Kept(j, left(j)) /\ Kept(j, [j EXCEPT !.pc = "rejected"])
        /\ \A env : Kept(j, left(found(env)))
    BY <1>1 DEF Kept, JobSound, JobType, Fields, NoJob, Passed
  <2> HIDE DEF left, found
  <2> QED
    BY <1>2, <2>1, <2>2, <2>3
<1> QED
  BY <1>3, <1>4

\* A pointer moves to a version that exists, or by hand in an environment that allows it.
LEMMA PointerStep ==
    ASSUME IInv, NEW id \in SpecId, NEW env, NEW v, SetEnvironment(id, env, v),
           env \in Manual \/ v \in DOMAIN log[id], UNCHANGED log
    PROVE  PointersResolve' /\ PointerKeys'
<1>1. DOMAIN pointer' = DOMAIN pointer \cup {<<id, env>>}
  BY DEF SetEnvironment
<1>2. PointerKeys'
  BY <1>1 DEF IInv, PointerKeys
<1>3. ASSUME NEW k \in DOMAIN pointer', k[2] \notin Manual
      PROVE  k[1] \in SpecId /\ pointer'[<<k[1], k[2]>>] \in DOMAIN log[k[1]]
  <2>1. CASE k = <<id, env>>
    BY <1>3, <2>1 DEF SetEnvironment
  <2>2. CASE k # <<id, env>>
    <3>1. k \in DOMAIN pointer /\ k = <<k[1], k[2]>> /\ pointer'[k] = pointer[k]
      BY <1>1, <2>2 DEF IInv, PointerKeys, SetEnvironment
    <3> QED
      BY <1>3, <3>1 DEF IInv, PointersResolve, Resolves
  <2> QED
    BY <2>1, <2>2
<1> QED
  BY <1>2, <1>3 DEF PointersResolve, Resolves

LEMMA MoveStep ==
    ASSUME IInv, NEW p \in Promoter, Move(p)
    PROVE  IInv'
<1> DEFINE j == job[p]
           e == j.plan[j.moved + 1]
           k == [j EXCEPT !.moved = @ + 1, !.pc = IF j.moved + 1 = Len(j.plan) THEN "done" ELSE "move"]
<1>1. JobSound(j) /\ j.pc = "move" /\ j.moved + 1 \in 1 .. Len(j.plan)
  <2>1. JobSound(j) /\ j.pc = "move" /\ j.moved < Len(j.plan)
    BY DEF IInv, Move, JobAt
  <2> QED
    BY <2>1, Members DEF JobSound, JobType
<1>2. /\ DOMAIN k = Fields /\ k.ids = j.ids /\ k.todo = j.todo /\ k.plan = j.plan
      /\ k.specValid = j.specValid /\ k.moved \in Nat /\ k.pc \in Passed
  BY <1>1 DEF JobSound, JobType, Fields, NoJob, Passed
<1>3. JobSound(k)
  <2> HIDE DEF k
  <2> QED
    BY <1>1, <1>2, PlanStays DEF Passed
<1>4. e.id \in SpecId /\ e.version \in DOMAIN log[e.id]
  BY <1>1, PlanOfSpecs DEF JobSound, PlanResolves
<1>5. PointersResolve' /\ PointerKeys'
  BY <1>4, PointerStep DEF Move
<1>6. JobBecomes(p, k) /\ UNCHANGED log
  BY DEF Move
<1>7. \A q \in Promoter : JobSound(job'[q])
  <2> HIDE DEF k
  <2> QED
    BY <1>3, <1>6 DEF IInv, JobBecomes
<1>8. \A q \in Promoter : JobSound(job[q])'
  BY <1>6, <1>7 DEF JobSound, JobType, PlanResolves, PlanWhole
<1> QED
  BY <1>5, <1>6, <1>8 DEF IInv, JobBecomes

LEMMA CrashStep ==
    ASSUME IInv, NEW p \in Promoter, Die(p)
    PROVE  IInv'
BY GivenUp, JobStep DEF IInv, Die

\* A push: what resolved goes on to resolve.
LEMMA VersionStep ==
    ASSUME IInv, NEW id \in SpecId, NEW d \in SpecDoc, SaveVersion(id, d)
    PROVE  IInv'
<1>1. /\ log' \in [SpecId -> Seq(SpecDoc)]
      /\ \A i \in SpecId : DOMAIN log[i] \subseteq DOMAIN log'[i]
  <2>1. log[id] \in Seq(SpecDoc) /\ Append(log[id], d) \in Seq(SpecDoc)
    BY DEF IInv
  <2>2. DOMAIN log[id] \subseteq DOMAIN Append(log[id], d)
    BY <2>1
  <2> QED
    BY <2>1, <2>2 DEF IInv, SaveVersion
<1>2. ASSUME NEW q \in Promoter
      PROVE  JobSound(job[q])'
  <2>1. JobSound(job[q]) /\ UNCHANGED job
    BY DEF IInv, SaveVersion
  <2>2. \A i \in 1 .. Len(job[q].plan) : job[q].plan[i].id \in SpecId
    BY <2>1, PlanOfSpecs
  <2> QED
    BY <1>1, <2>1, <2>2 DEF JobSound, JobType, PlanResolves, PlanWhole
<1>3. PointersResolve' /\ PointerKeys'
  BY <1>1 DEF IInv, PointersResolve, PointerKeys, Resolves, SaveVersion
<1> QED
  BY <1>1, <1>2, <1>3 DEF IInv, SaveVersion

\* envs --set.
LEMMA HandStep ==
    ASSUME IInv, NEW id \in SpecId, NEW env \in Manual, NEW v, SetByHand(id, env, v)
    PROVE  IInv'
<1>1. PointersResolve' /\ PointerKeys'
  BY PointerStep DEF SetByHand
<1>2. \A q \in Promoter : JobSound(job[q])'
  BY DEF IInv, SetByHand, JobSound, JobType, PlanResolves, PlanWhole
<1> QED
  BY <1>1, <1>2 DEF IInv, SetByHand

LEMMA PromotionStep == IInv /\ [PromoteNext]_promoteVars => IInv'
<1> SUFFICES ASSUME IInv, [PromoteNext]_promoteVars
             PROVE  IInv'
  OBVIOUS
<1>1. ASSUME NEW p \in Promoter, Promote(p)
      PROVE  IInv'
  BY <1>1, BeginStep, ReadSourceStep, GateStep, MoveStep, CrashStep DEF Promote
<1>2. CASE UNCHANGED promoteVars
  <2>1. \A q \in Promoter : JobSound(job[q])'
    BY <1>2 DEF IInv, promoteVars, JobSound, JobType, PlanResolves, PlanWhole
  <2> QED
    BY <1>2, <2>1 DEF IInv, promoteVars, PointersResolve, PointerKeys, Resolves
<1> QED
  BY <1>1, <1>2, HandStep, VersionStep DEF PromoteNext

\* Whatever runs between the gate's reads and the pointer writes, and whoever dies, a
\* promotion that succeeds has moved its whole batch, and an environment that is only
\* promoted to never points at a version that does not exist.
THEOREM PromotionCorrect == PromoteSpec => []PromotionSound
<1>1. IInv => PromotionSound
  <2> SUFFICES ASSUME IInv
               PROVE  PromotionSound
    OBVIOUS
  <2>1. PromotedResolve
    BY DEF IInv, PointersResolve, PromotedResolve
  <2>2. WholeBatchMoves
    BY DEF IInv, WholeBatchMoves, JobAt, JobSound, PlanWhole, PlanIds, Passed
  <2> QED
    BY <2>1, <2>2 DEF PromotionSound
<1> QED
  BY PromotionInit, PromotionStep, <1>1, PTL DEF PromoteSpec
-----------------------------------------------------------------------------
(* The types of what promotions hold. *)

Entry == Entries(MaxVersion + 1)
TypedJob(j) ==
    /\ j.pc \in Ended \cup {"sources", "crossScreen", "contract", "move"}
    /\ j.plan \in Seq(Entry) /\ j.checked \subseteq Entry
    /\ j.moved \in 0 .. Len(j.plan)
    /\ j.pc \notin Ended => j.from \in Env /\ j.to \in Env

TypeInv ==
    /\ DOMAIN pointer \subseteq SpecId \X Env
    /\ \A k \in DOMAIN pointer : pointer[k] \in 1 .. MaxVersion + 1
    /\ \A p \in Promoter : TypedJob(job[p])
    /\ jobs \in 0 .. MaxJobs

LEMMA TypeInit == PromoteInit => TypeInv
<1> SUFFICES ASSUME PromoteInit
             PROVE  TypeInv
  OBVIOUS
<1>1. TypedJob(NoJob)
  <2>1. <<>> \in Seq(Entry) /\ Len(<<>>) = 0
    OBVIOUS
  <2> QED
    BY <2>1 DEF NoJob, TypedJob, Ended
<1> QED
  BY <1>1, BoundForm DEF PromoteInit, TypeInv

\* One promotion takes a step.
LEMMA TypeJob ==
    ASSUME IInv, TypeInv, NEW p \in Promoter, NEW j, JobBecomes(p, j), TypedJob(j)
    PROVE  \A q \in Promoter : TypedJob(job'[q])
BY DEF IInv, TypeInv, JobBecomes

\* What is read of the environments is an entry.
LEMMA EntryRead ==
    ASSUME TypeInv, NEW id, NEW env, HasPointer(id, env)
    PROVE  PointedAt(id, env) \in Entry
BY DEF TypeInv, HasPointer, PointedAt, Entry, Entries

\* A pointer is set to a version that may exist.
LEMMA TypePointer ==
    ASSUME TypeInv, NEW id \in SpecId, NEW env \in Env, NEW v \in 1 .. MaxVersion + 1, SetEnvironment(id, env, v)
    PROVE  /\ DOMAIN pointer' \subseteq SpecId \X Env
           /\ \A k \in DOMAIN pointer' : pointer'[k] \in 1 .. MaxVersion + 1
BY DEF TypeInv, SetEnvironment

LEMMA TypePromote ==
    ASSUME IInv, TypeInv, NEW p \in Promoter, Promote(p)
    PROVE  TypeInv'
<1> DEFINE j == job[p]
<1>0. TypedJob(j) /\ DOMAIN j = Fields
  BY DEF IInv, TypeInv, JobSound, JobType
<1>1. CASE \E ids \in Batch, route \in Route, apis \in ApiList : Begin(p, ids, route, apis)
  <2>1. PICK ids \in Batch, route \in Route, apis \in ApiList : Begin(p, ids, route, apis)
    BY <1>1
  <2> DEFINE i == [NoJob EXCEPT !.pc = "sources", !.ids = Range(ids), !.todo = ids,
                                !.from = route[1], !.to = route[2], !.apis = apis]
  <2>2. i.pc = "sources" /\ i.plan = <<>> /\ i.checked = {} /\ i.moved = 0 /\ i.from = route[1] /\ i.to = route[2]
    BY DEF NoJob
  <2>3. <<>> \in Seq(Entry) /\ Len(<<>>) = 0 /\ route[1] \in Env /\ route[2] \in Env
    BY PlaceForm
  <2>4. JobBecomes(p, i) /\ jobs' = jobs + 1 /\ jobs < MaxJobs /\ pointer' = pointer
    BY <2>1 DEF Begin
  <2> HIDE DEF i
  <2>5. TypedJob(i)
    BY <2>2, <2>3 DEF TypedJob
  <2> QED
    BY <2>4, <2>5, TypeJob, BoundForm DEF TypeInv
<1>2. CASE ReadSource(p)
  <2> DEFINE id == Head(j.todo)
             pc == IF Len(j.todo) > 1 THEN "sources" ELSE IF j.specValid THEN "crossScreen" ELSE "rejected"
             low == IF Len(j.todo) > 1 THEN "sources" ELSE "rejected"
             none == [[j EXCEPT !.specValid = FALSE] EXCEPT !.todo = Tail(j.todo), !.pc = low]
             read == [[j EXCEPT !.plan = Append(@, PointedAt(id, j.from))] EXCEPT !.todo = Tail(j.todo), !.pc = pc]
  <2>1. /\ JobAt(p, "sources") /\ UNCHANGED <<pointer, jobs>>
        /\ \/ JobBecomes(p, none)
           \/ JobBecomes(p, [j EXCEPT !.pc = "rejected"])
           \/ HasPointer(id, j.from) /\ JobBecomes(p, read)
    BY <1>0, <1>2 DEF ReadSource, Fields, NoJob
  <2>2. TypedJob(none)
    BY <1>0, <2>1 DEF TypedJob, Fields, NoJob, JobAt, Ended
  <2>3. TypedJob([j EXCEPT !.pc = "rejected"])
    BY <1>0 DEF TypedJob, Fields, NoJob, Ended
  <2>4. ASSUME HasPointer(id, j.from)
        PROVE  TypedJob(read)
    <3>1. PointedAt(id, j.from) \in Entry
      BY <2>4, EntryRead
    <3>2. /\ Append(j.plan, PointedAt(id, j.from)) \in Seq(Entry)
          /\ Len(Append(j.plan, PointedAt(id, j.from))) = Len(j.plan) + 1 /\ Len(j.plan) \in Nat
      BY <1>0, <3>1 DEF TypedJob
    <3> QED
      BY <1>0, <2>1, <3>2 DEF TypedJob, Fields, NoJob, JobAt, Ended
  <2> QED
    BY <2>1, <2>2, <2>3, <2>4, TypeJob DEF TypeInv
<1>3. CASE CrossScreen(p)
  <2> DEFINE pc == IF j.apis = <<>> THEN "move" ELSE "contract"
             valid == \A r \in UNION {DocOf(e).refs : e \in Range(j.plan)} \ j.ids : HasPointer(r, j.to)
             i == [j EXCEPT !.pc = pc, !.crossScreenValid = valid]
  <2>1. JobAt(p, "crossScreen") /\ JobBecomes(p, i) /\ UNCHANGED <<pointer, jobs>>
    BY <1>3 DEF CrossScreen
  <2>2. TypedJob(i)
    <3> HIDE DEF valid
    <3> QED
      BY <1>0, <2>1 DEF TypedJob, Fields, NoJob, JobAt, Ended
  <2> QED
    BY <2>1, <2>2, TypeJob DEF TypeInv
<1>4. CASE ReadApi(p)
  <2> DEFINE id == Head(j.apis)
             env == IF id \in j.ids THEN j.from ELSE j.to
             more == j.checked \cup {PointedAt(id, env)}
             low == IF Len(j.apis) > 1 THEN "contract" ELSE IF Satisfied(j.plan, j.checked) THEN "move" ELSE "rejected"
             high == IF Len(j.apis) > 1 THEN "contract" ELSE IF Satisfied(j.plan, more) THEN "move" ELSE "rejected"
             none == [j EXCEPT !.apis = Tail(j.apis), !.pc = low]
             read == [[j EXCEPT !.checked = more] EXCEPT !.apis = Tail(j.apis), !.pc = high]
  <2>1. /\ JobAt(p, "contract") /\ UNCHANGED <<pointer, jobs>>
        /\ \/ JobBecomes(p, none)
           \/ JobBecomes(p, [j EXCEPT !.pc = "rejected"])
           \/ HasPointer(id, env) /\ JobBecomes(p, read)
    BY <1>0, <1>4 DEF ReadApi, Fields, NoJob
  <2>2. TypedJob(none)
    <3>1. low \in {"contract", "move", "rejected"}
      OBVIOUS
    <3> HIDE DEF low
    <3> QED
      BY <1>0, <2>1, <3>1 DEF TypedJob, Fields, NoJob, JobAt, Ended
  <2>3. TypedJob([j EXCEPT !.pc = "rejected"])
    BY <1>0 DEF TypedJob, Fields, NoJob, Ended
  <2>4. ASSUME HasPointer(id, env)
        PROVE  TypedJob(read)
    <3>1. more \subseteq Entry
      BY <1>0, <2>4, EntryRead DEF TypedJob
    <3>2. high \in {"contract", "move", "rejected"}
      OBVIOUS
    <3> HIDE DEF more, high
    <3> QED
      BY <1>0, <2>1, <3>1, <3>2 DEF TypedJob, Fields, NoJob, JobAt, Ended
  <2> QED
    BY <2>1, <2>2, <2>3, <2>4, TypeJob DEF TypeInv
<1>5. CASE Move(p)
  <2> DEFINE e == j.plan[j.moved + 1]
             i == [j EXCEPT !.moved = @ + 1, !.pc = IF j.moved + 1 = Len(j.plan) THEN "done" ELSE "move"]
  <2>1. /\ JobAt(p, "move") /\ j.moved < Len(j.plan) /\ SetEnvironment(e.id, j.to, e.version)
        /\ JobBecomes(p, i) /\ jobs' = jobs
    BY <1>5 DEF Move
  <2>2. e \in Entry /\ j.to \in Env
    BY <1>0, <2>1 DEF TypedJob, JobAt, Ended
  <2>3. TypedJob(i)
    BY <1>0, <2>1 DEF TypedJob, Fields, NoJob, JobAt, Ended
  <2>4. \A q \in Promoter : TypedJob(job'[q])
    BY <2>1, <2>3, TypeJob
  <2>5. e.id \in SpecId /\ e.version \in 1 .. MaxVersion + 1
    BY <2>2 DEF Entry, Entries
  <2> QED
    BY <2>1, <2>2, <2>4, <2>5, TypePointer DEF TypeInv
<1>6. CASE Die(p)
  <2>1. TypedJob([j EXCEPT !.pc = "dead"])
    BY <1>0 DEF TypedJob, Fields, NoJob, Ended
  <2> QED
    BY <1>6, <2>1, TypeJob DEF Die, TypeInv
<1> QED
  BY <1>1, <1>2, <1>3, <1>4, <1>5, <1>6 DEF Promote

LEMMA TypeStep == IInv /\ TypeInv /\ [PromoteNext]_promoteVars => TypeInv'
<1> SUFFICES ASSUME IInv, TypeInv, [PromoteNext]_promoteVars
             PROVE  TypeInv'
  OBVIOUS
<1>1. ASSUME NEW id \in SpecId, NEW env \in Manual, NEW v \in 1 .. MaxVersion + 1, SetByHand(id, env, v)
      PROVE  TypeInv'
  <2>1. env \in Env
    BY PlaceForm
  <2> QED
    BY <1>1, <2>1, TypePointer DEF SetByHand, TypeInv, TypedJob
<1>2. ASSUME NEW id \in SpecId, NEW d \in SpecDoc, SaveVersion(id, d)
      PROVE  TypeInv'
  BY <1>2 DEF SaveVersion, TypeInv, TypedJob
<1>3. CASE UNCHANGED promoteVars
  BY <1>3 DEF promoteVars, TypeInv, TypedJob
<1> QED
  BY <1>1, <1>2, <1>3, TypePromote DEF PromoteNext

LEMMA TypesHold == IInv /\ TypeInv => PromoteTypeOK
BY DEF IInv, TypeInv, TypedJob, PromoteTypeOK, Entry
-----------------------------------------------------------------------------
(***************************************************************************)
(* One promoter and one command at a time: what it leaves behind.          *)
(***************************************************************************)
Gate == {"sources", "crossScreen", "contract"}
Moving == {"move", "done"}
PlannedAt(e, env, at) == <<e.id, env>> \in DOMAIN at /\ at[<<e.id, env>>] = e.version

\* What has been read is what the source environment holds, while the gate runs.
PlanCurrent(j) ==
    \A i \in 1 .. Len(j.plan) : PlannedAt(j.plan[i], j.from, pointer)

\* A spec that a batch names twice is planned twice, at one version.
PlanOneVersion(j) ==
    \A i, k \in 1 .. Len(j.plan) :
        j.plan[i].id = j.plan[k].id => j.plan[i].version = j.plan[k].version

\* A checked api is the one that moves, or the one the destination has.
ApisCurrent(j) ==
    \A a \in j.checked :
        /\ a \in [id : SpecId, version : Nat] /\ a.version \in DOMAIN log[a.id]
        /\ IF a.id \in j.ids THEN \E i \in 1 .. Len(j.plan) : j.plan[i] = a
           ELSE PlannedAt(a, j.to, pointer)

AloneSound(j) ==
    /\ j.pc \in Gate \cup Moving => j.to \notin Manual
    /\ j.pc \in Gate => PlanCurrent(j) /\ j.moved = 0
    /\ j.pc \in {"sources", "crossScreen"} => j.checked = {}
    /\ j.pc = "contract" => ApisCurrent(j)
    /\ j.pc \in Moving => PlanOneVersion(j) /\ ApisCurrent(j) /\ Satisfied(j.plan, j.checked)
    /\ j.pc \in Moving => \A i \in 1 .. j.moved : PlannedAt(j.plan[i], j.to, pointer)
    /\ j.pc = "done" => j.moved = Len(j.plan)

AloneInv == \A p \in Promoter : AloneSound(job[p])

\* What is assumed of the people: one command at a time, by one promoter, and no
\* `envs --set` on an environment that is promoted to.
OneAtATime ==
    /\ Serial /\ \E p : Promoter = {p}
    /\ \A route \in Route : route[2] \notin Manual

LEMMA AloneInit == PromoteInit => AloneInv
<1>1. NoJob.pc = "idle"
  BY DEF NoJob
<1>2. AloneSound(NoJob)
  BY <1>1 DEF AloneSound, Gate, Moving
<1> QED
  BY <1>2 DEF PromoteInit, AloneInv

\* The promoter's job is sound after a step that moves no pointer.
LEMMA AloneLocal ==
    ASSUME OneAtATime, NEW p \in Promoter, AloneSound(job'[p]), UNCHANGED <<log, pointer>>
    PROVE  AloneInv'
<1>1. Promoter = {p}
  BY DEF OneAtATime
<1>2. AloneSound(job[p])'
  <2>1. /\ PlanCurrent(job'[p]) => PlanCurrent(job[p])'
        /\ PlanOneVersion(job'[p]) => PlanOneVersion(job[p])'
    BY DEF PlanCurrent, PlanOneVersion, PlannedAt
  <2>2. ApisCurrent(job'[p]) => ApisCurrent(job[p])'
    BY DEF ApisCurrent, PlannedAt
  <2>3. Satisfied(job'[p].plan, job'[p].checked) => Satisfied(job[p].plan, job[p].checked)'
    BY DEF Satisfied, DocOf
  <2>4. (\A i \in 1 .. job'[p].moved : PlannedAt(job'[p].plan[i], job'[p].to, pointer))
         => (\A i \in 1 .. job[p].moved : PlannedAt(job[p].plan[i], job[p].to, pointer))'
    BY DEF PlannedAt
  <2> QED
    BY <2>1, <2>2, <2>3, <2>4 DEF AloneSound
<1> QED
  BY <1>1, <1>2 DEF AloneInv

LEMMA AloneJob ==
    ASSUME OneAtATime, IInv, NEW p \in Promoter, NEW j, JobBecomes(p, j), AloneSound(j),
           UNCHANGED <<log, pointer>>
    PROVE  AloneInv'
<1>1. job'[p] = j
  BY DEF IInv, JobBecomes
<1> QED
  BY <1>1, AloneLocal

\* The specs and versions of a plan.
LEMMA PlanEntries ==
    ASSUME NEW j, JobSound(j)
    PROVE  /\ Len(j.plan) \in Nat /\ DOMAIN j.plan = 1 .. Len(j.plan)
           /\ \A i \in 1 .. Len(j.plan) :
                /\ j.plan[i] \in [id : SpecId, version : Nat]
                /\ j.plan[i].version \in DOMAIN log[j.plan[i].id]
           /\ j.pc \in Passed => j.ids = {j.plan[i].id : i \in 1 .. Len(j.plan)}
<1>1. /\ Len(j.plan) \in Nat /\ DOMAIN j.plan = 1 .. Len(j.plan)
      /\ \A i \in 1 .. Len(j.plan) : j.plan[i] \in [id : SpecId, version : Nat]
  BY Members DEF JobSound, JobType
<1>2. PlanIds(j.plan) = {j.plan[i].id : i \in 1 .. Len(j.plan)}
  BY <1>1 DEF PlanIds, Range
<1> QED
  BY <1>1, <1>2 DEF JobSound, PlanResolves, PlanWhole

LEMMA AloneBegin ==
    ASSUME OneAtATime, IInv, AloneInv, NEW p \in Promoter,
           NEW ids \in Batch, NEW route \in Route, NEW apis \in ApiList, Begin(p, ids, route, apis)
    PROVE  AloneInv'
<1> DEFINE j == [NoJob EXCEPT !.pc = "sources", !.ids = Range(ids), !.todo = ids,
                              !.from = route[1], !.to = route[2], !.apis = apis]
<1>1. j.pc = "sources" /\ j.to = route[2] /\ j.plan = <<>> /\ j.moved = 0 /\ j.checked = {}
  BY DEF NoJob
<1>2. JobBecomes(p, j) /\ UNCHANGED <<log, pointer>> /\ route[2] \notin Manual
  BY DEF Begin, OneAtATime
<1> HIDE DEF j
<1>3. AloneSound(j)
  <2>1. Len(j.plan) = 0
    BY <1>1
  <2> QED
    BY <1>1, <1>2, <2>1 DEF AloneSound, Gate, Moving, PlanCurrent
<1> QED
  BY <1>2, <1>3, AloneJob

\* A promotion that is given up is no longer spoken of.
LEMMA AloneGivenUp ==
    ASSUME NEW j, JobSound(j), NEW pc \in {"rejected", "dead"}
    PROVE  AloneSound([j EXCEPT !.pc = pc])
<1>1. [j EXCEPT !.pc = pc].pc = pc
  BY DEF JobSound, JobType, Fields, NoJob
<1> QED
  BY <1>1 DEF AloneSound, Gate, Moving

LEMMA AloneReadSource ==
    ASSUME OneAtATime, IInv, AloneInv, NEW p \in Promoter, ReadSource(p)
    PROVE  AloneInv'
<1> DEFINE j == job[p]
           id == Head(j.todo)
           left(i) == [i EXCEPT !.todo = Tail(j.todo),
                                !.pc = IF Len(j.todo) > 1 THEN "sources"
                                       ELSE IF i.specValid THEN "crossScreen" ELSE "rejected"]
           next == {"sources", "crossScreen", "rejected"}
<1>1. JobSound(j) /\ j.pc = "sources" /\ AloneSound(j)
  BY DEF IInv, AloneInv, ReadSource, JobAt
<1>2. j.to \notin Manual /\ PlanCurrent(j) /\ j.moved = 0 /\ j.checked = {}
  BY <1>1 DEF AloneSound, Gate
<1>3. ASSUME NEW k, k.pc \in next, k.to = j.to, k.moved = 0, k.checked = {}, PlanCurrent(k)
      PROVE  AloneSound(k)
  BY <1>2, <1>3 DEF AloneSound, Gate, Moving
<1>4. UNCHANGED <<log, pointer>>
  BY DEF ReadSource
<1>5. CASE JobBecomes(p, left([j EXCEPT !.specValid = FALSE]))
  <2> DEFINE k == left([j EXCEPT !.specValid = FALSE])
  <2>1. /\ k.plan = j.plan /\ k.from = j.from /\ k.to = j.to /\ k.moved = j.moved
        /\ k.checked = j.checked /\ k.pc \in next
    BY <1>1 DEF JobSound, JobType, Fields, NoJob
  <2> HIDE DEF k, left, next
  <2>2. PlanCurrent(k)
    BY <1>2, <2>1 DEF PlanCurrent
  <2>3. AloneSound(k)
    BY <1>2, <1>3, <2>1, <2>2
  <2> QED
    BY <1>4, <1>5, <2>3, AloneJob DEF k
<1>6. CASE JobBecomes(p, [j EXCEPT !.pc = "rejected"])
  BY <1>1, <1>4, <1>6, AloneGivenUp, AloneJob
<1>7. CASE /\ HasPointer(id, j.from)
           /\ JobBecomes(p, left([j EXCEPT !.plan = Append(@, PointedAt(id, j.from))]))
  <2> DEFINE e == PointedAt(id, j.from)
             k == left([j EXCEPT !.plan = Append(@, e)])
  <2>1. /\ k.plan = Append(j.plan, e) /\ k.from = j.from /\ k.to = j.to /\ k.moved = j.moved
        /\ k.checked = j.checked /\ k.pc \in next
    BY <1>1 DEF JobSound, JobType, Fields, NoJob
  <2>2. PlannedAt(e, j.from, pointer)
    BY <1>7 DEF PointedAt, PlannedAt, HasPointer
  <2> HIDE DEF k, left, e, next
  <2>3. \A i \in 1 .. Len(k.plan) : k.plan[i] = e \/ (i \in 1 .. Len(j.plan) /\ k.plan[i] = j.plan[i])
    <3>1. j.plan \in Seq([id : SpecId, version : Nat])
      BY <1>1 DEF JobSound, JobType
    <3> QED
      BY <2>1, <3>1
  <2>4. PlanCurrent(k)
    <3> SUFFICES ASSUME NEW i \in 1 .. Len(k.plan)
                 PROVE  PlannedAt(k.plan[i], j.from, pointer)
      BY <2>1 DEF PlanCurrent
    <3>1. CASE k.plan[i] = e
      BY <2>2, <3>1
    <3>2. CASE i \in 1 .. Len(j.plan) /\ k.plan[i] = j.plan[i]
      BY <1>2, <3>2 DEF PlanCurrent
    <3> QED
      BY <2>3, <3>1, <3>2
  <2>5. AloneSound(k)
    BY <1>2, <1>3, <2>1, <2>4
  <2> QED
    BY <1>4, <1>7, <2>5, AloneJob DEF k, e
<1> QED
  BY <1>5, <1>6, <1>7 DEF ReadSource

\* The plan is read within one state of the source environment.
LEMMA CurrentOnce ==
    ASSUME NEW j, PlanCurrent(j)
    PROVE  PlanOneVersion(j)
BY DEF PlanCurrent, PlanOneVersion, PlannedAt

\* The layers of the gate after the first: what a promotion gets to the moves with.
LEMMA AloneGate ==
    ASSUME NEW j, NEW k, j.pc \in Gate, AloneSound(j),
           k.pc \in {"contract", "move", "rejected"},
           k.plan = j.plan, k.ids = j.ids, k.from = j.from, k.to = j.to, k.moved = j.moved,
           ApisCurrent(k), k.pc = "move" => Satisfied(k.plan, k.checked)
    PROVE  AloneSound(k)
<1>1. j.to \notin Manual /\ PlanCurrent(j) /\ j.moved = 0
  BY DEF AloneSound
<1>2. PlanCurrent(k)
  BY <1>1 DEF PlanCurrent
<1>3. PlanOneVersion(k)
  BY <1>2, CurrentOnce
<1> QED
  BY <1>1, <1>2, <1>3 DEF AloneSound, Gate, Moving

LEMMA AloneCrossScreen ==
    ASSUME OneAtATime, IInv, AloneInv, NEW p \in Promoter, CrossScreen(p)
    PROVE  AloneInv'
<1> DEFINE j == job[p]
           valid == \A r \in UNION {DocOf(e).refs : e \in Range(j.plan)} \ j.ids : HasPointer(r, j.to)
           k == [j EXCEPT !.pc = IF j.apis = <<>> THEN "move" ELSE "contract", !.crossScreenValid = valid]
<1>1. JobSound(j) /\ j.pc = "crossScreen" /\ AloneSound(j)
  BY DEF IInv, AloneInv, CrossScreen, JobAt
<1>2. JobBecomes(p, k) /\ UNCHANGED <<log, pointer>>
  BY DEF CrossScreen
<1>3. /\ k.pc \in {"contract", "move", "rejected"} /\ k.plan = j.plan /\ k.ids = j.ids
      /\ k.from = j.from /\ k.to = j.to /\ k.moved = j.moved /\ k.checked = j.checked
  BY <1>1 DEF JobSound, JobType, Fields, NoJob
<1> HIDE DEF k, valid
<1>4. k.checked = {}
  BY <1>1, <1>3 DEF AloneSound
<1>5. ApisCurrent(k) /\ Satisfied(k.plan, k.checked)
  BY <1>4 DEF ApisCurrent, Satisfied
<1>6. AloneSound(k)
  BY <1>1, <1>3, <1>5, AloneGate DEF Gate
<1> QED
  BY <1>2, <1>6, AloneJob

\* The api that is checked is the one of the plan, or the destination's.
LEMMA AloneReadApi ==
    ASSUME OneAtATime, IInv, AloneInv, NEW p \in Promoter, ReadApi(p)
    PROVE  AloneInv'
<1> DEFINE j == job[p]
           id == Head(j.apis)
           env == IF id \in j.ids THEN j.from ELSE j.to
           a == PointedAt(id, env)
           left(i) == [i EXCEPT !.apis = Tail(j.apis),
                                !.pc = IF Len(j.apis) > 1 THEN "contract"
                                       ELSE IF Satisfied(i.plan, i.checked) THEN "move" ELSE "rejected"]
           found == [j EXCEPT !.checked = @ \cup {a}]
<1>1. JobSound(j) /\ j.pc = "contract" /\ AloneSound(j)
  BY DEF IInv, AloneInv, ReadApi, JobAt
<1>2. ApisCurrent(j) /\ PlanCurrent(j) /\ UNCHANGED <<log, pointer>>
  BY <1>1 DEF AloneSound, Gate, ReadApi
<1>3. ASSUME NEW k, k.plan = j.plan, k.ids = j.ids, k.from = j.from, k.to = j.to, k.moved = j.moved,
             k.pc \in {"contract", "move", "rejected"},
             ApisCurrent(k), k.pc = "move" => Satisfied(k.plan, k.checked)
      PROVE  AloneSound(k)
  BY <1>1, <1>3, AloneGate DEF Gate
<1>4. CASE JobBecomes(p, left(j))
  <2> DEFINE k == left(j)
  <2>1. /\ k.plan = j.plan /\ k.ids = j.ids /\ k.from = j.from /\ k.to = j.to /\ k.moved = j.moved
        /\ k.checked = j.checked /\ k.pc \in {"contract", "move", "rejected"}
        /\ k.pc = "move" => Satisfied(j.plan, j.checked)
    BY <1>1 DEF JobSound, JobType, Fields, NoJob
  <2> HIDE DEF k, left
  <2>2. ApisCurrent(k) /\ (k.pc = "move" => Satisfied(k.plan, k.checked))
    BY <1>2, <2>1 DEF ApisCurrent
  <2>3. AloneSound(k)
    BY <1>3, <2>1, <2>2
  <2> QED
    BY <1>2, <1>4, <2>3, AloneJob DEF k
<1>5. CASE JobBecomes(p, [j EXCEPT !.pc = "rejected"])
  BY <1>1, <1>2, <1>5, AloneGivenUp, AloneJob
<1>6. CASE HasPointer(id, env) /\ Resolves(id, env) /\ JobBecomes(p, left(found))
  <2> DEFINE k == left(found)
  <2>1. /\ k.plan = j.plan /\ k.ids = j.ids /\ k.from = j.from /\ k.to = j.to /\ k.moved = j.moved
        /\ k.checked = j.checked \cup {a} /\ k.pc \in {"contract", "move", "rejected"}
        /\ k.pc = "move" => Satisfied(k.plan, k.checked)
    BY <1>1 DEF JobSound, JobType, Fields, NoJob
  <2>2. PlannedAt(a, env, pointer) /\ a.id = id
    BY <1>6 DEF PointedAt, PlannedAt, HasPointer
  <2>3. a \in [id : SpecId, version : Nat] /\ a.version \in DOMAIN log[id]
    <3>1. a = [id |-> id, version |-> pointer[<<id, env>>]]
      BY DEF PointedAt
    <3>2. pointer[<<id, env>>] \in DOMAIN log[id]
      BY <1>6 DEF Resolves
    <3>3. id \in SpecId
      BY <1>6 DEF HasPointer, IInv, PointerKeys
    <3>4. DOMAIN log[id] \subseteq Nat
      BY <3>3 DEF IInv
    <3> QED
      BY <3>1, <3>2, <3>3, <3>4
  <2> HIDE DEF k, left, found, a
  <2>4. IF a.id \in j.ids THEN \E i \in 1 .. Len(j.plan) : j.plan[i] = a ELSE PlannedAt(a, j.to, pointer)
    <3>1. CASE id \in j.ids
      <4>1. PICK i \in 1 .. Len(j.plan) : j.plan[i].id = id
        BY <1>1, <3>1, PlanEntries DEF Passed
      <4>2. PlannedAt(j.plan[i], j.from, pointer) /\ PlannedAt(a, j.from, pointer)
        BY <1>2, <2>2, <3>1 DEF PlanCurrent
      <4>3. j.plan[i].version = a.version /\ j.plan[i] \in [id : SpecId, version : Nat]
        BY <1>1, <2>2, <4>1, <4>2, PlanEntries DEF PlannedAt
      <4>4. j.plan[i] = a
        BY <2>2, <2>3, <4>1, <4>3
      <4> QED
        BY <2>2, <3>1, <4>4
    <3>2. CASE id \notin j.ids
      BY <2>2, <3>2
    <3> QED
      BY <3>1, <3>2
  <2>5. ApisCurrent(k)
    <3> SUFFICES ASSUME NEW b \in k.checked
                 PROVE  /\ b \in [id : SpecId, version : Nat] /\ b.version \in DOMAIN log[b.id]
                        /\ IF b.id \in j.ids THEN \E i \in 1 .. Len(j.plan) : j.plan[i] = b
                           ELSE PlannedAt(b, j.to, pointer)
      BY <2>1 DEF ApisCurrent
    <3>1. CASE b = a
      BY <2>2, <2>3, <2>4, <3>1
    <3>2. CASE b \in j.checked
      BY <1>2, <3>2 DEF ApisCurrent
    <3> QED
      BY <2>1, <3>1, <3>2
  <2>6. AloneSound(k)
    BY <1>3, <2>1, <2>5
  <2> QED
    BY <1>2, <1>6, <2>6, AloneJob DEF k
<1> QED
  BY <1>4, <1>5, <1>6 DEF ReadApi

\* Pointers are written, and documents are pushed, around a promotion that moves.
LEMMA AloneMoving ==
    ASSUME OneAtATime, IInv, NEW p \in Promoter,
           LET j == job[p]  k == job'[p]
           IN  /\ j.pc \in Moving /\ AloneSound(j) /\ k.pc \in Moving
               /\ k.plan = j.plan /\ k.ids = j.ids /\ k.to = j.to /\ k.checked = j.checked
               /\ k.pc = "done" => k.moved = Len(k.plan)
               /\ \A i \in 1 .. k.moved : PlannedAt(j.plan[i], j.to, pointer')
               /\ \A x : x.id \notin j.ids /\ PlannedAt(x, j.to, pointer) => PlannedAt(x, j.to, pointer'),
           \A id \in SpecId : \A v \in DOMAIN log[id] :
               v \in DOMAIN log'[id] /\ log'[id][v] = log[id][v]
    PROVE  AloneInv'
<1> DEFINE j == job[p]
           k == job'[p]
<1>1. JobSound(j) /\ j.pc \in Moving /\ k.pc \in Moving
      /\ k.plan = j.plan /\ k.ids = j.ids /\ k.to = j.to /\ k.checked = j.checked
  BY DEF IInv
<1>2. /\ j.to \notin Manual /\ PlanOneVersion(j) /\ ApisCurrent(j) /\ Satisfied(j.plan, j.checked)
  BY <1>1 DEF AloneSound
<1>3. PlanOneVersion(job[p])'
  BY <1>1, <1>2 DEF PlanOneVersion
<1>4. ApisCurrent(job[p])'
  <2> SUFFICES ASSUME NEW a \in j.checked
               PROVE  /\ a \in [id : SpecId, version : Nat] /\ a.version \in DOMAIN log'[a.id]
                      /\ IF a.id \in j.ids THEN \E i \in 1 .. Len(j.plan) : j.plan[i] = a
                         ELSE PlannedAt(a, j.to, pointer')
    BY <1>1 DEF ApisCurrent
  <2>1. /\ a \in [id : SpecId, version : Nat] /\ a.version \in DOMAIN log[a.id]
        /\ IF a.id \in j.ids THEN \E i \in 1 .. Len(j.plan) : j.plan[i] = a
           ELSE PlannedAt(a, j.to, pointer)
    BY <1>2 DEF ApisCurrent
  <2>2. a.id \notin j.ids => PlannedAt(a, j.to, pointer')
    BY <2>1
  <2> QED
    BY <2>1, <2>2
<1>5. Satisfied(job[p].plan, job[p].checked)'
  <2>1. \A a \in j.checked : log'[a.id][a.version] = log[a.id][a.version]
    BY <1>2 DEF ApisCurrent
  <2>2. \A e \in Range(j.plan) : log'[e.id][e.version] = log[e.id][e.version]
    BY <1>1, PlanEntries DEF Range
  <2> HIDE DEF j, k
  <2>3. Satisfied(k.plan, k.checked)
    BY <1>1, <1>2
  <2>4. CASE k.checked = {}
    BY <2>4 DEF Satisfied, k
  <2>5. CASE k.checked # {}
    <3> DEFINE served == UNION {log[a.id][a.version].endpoints : a \in k.checked}
               after == UNION {log'[a.id][a.version].endpoints : a \in k.checked}
    <3>1. after = served
      BY <1>1, <2>1
    <3>2. \A e \in Range(k.plan) : log[e.id][e.version].isApi
                                   \/ log[e.id][e.version].endpoints \subseteq served
      BY <2>3, <2>5 DEF Satisfied, DocOf
    <3> HIDE DEF served
    <3>3. \A e \in Range(k.plan) : log'[e.id][e.version].isApi
                                   \/ log'[e.id][e.version].endpoints \subseteq after
      BY <1>1, <2>2, <3>1, <3>2
    <3> QED
      BY <3>3 DEF Satisfied, DocOf, k
  <2> QED
    BY <2>4, <2>5
<1>6. (\A i \in 1 .. job[p].moved : PlannedAt(job[p].plan[i], job[p].to, pointer))'
  BY <1>1
<1>7. AloneSound(job[p])'
  BY <1>1, <1>2, <1>3, <1>4, <1>5, <1>6 DEF AloneSound, Gate, Moving
<1> QED
  BY <1>7 DEF OneAtATime, AloneInv

\* Another key is written, or the same version: what was planned there is there still.
LEMMA PlannedStays ==
    ASSUME NEW id, NEW env, NEW v, SetEnvironment(id, env, v), NEW x, NEW to,
           PlannedAt(x, to, pointer), x.id # id \/ to # env \/ x.version = v
    PROVE  PlannedAt(x, to, pointer')
BY DEF SetEnvironment, PlannedAt

LEMMA AloneMove ==
    ASSUME OneAtATime, IInv, AloneInv, NEW p \in Promoter, Move(p)
    PROVE  AloneInv'
<1> DEFINE j == job[p]
           e == j.plan[j.moved + 1]
           k == job'[p]
<1>1. JobSound(j) /\ j.pc = "move" /\ AloneSound(j) /\ j.moved \in Nat /\ j.moved < Len(j.plan)
  BY DEF IInv, AloneInv, Move, JobAt, JobSound, JobType
<1>2. PlanOneVersion(j) /\ \A i \in 1 .. j.moved : PlannedAt(j.plan[i], j.to, pointer)
  BY <1>1 DEF AloneSound, Moving
<1>3. Len(j.plan) \in Nat /\ \A i \in 1 .. Len(j.plan) : j.plan[i].id \in j.ids
  BY <1>1, PlanEntries DEF Passed
<1>4. j.moved + 1 \in 1 .. Len(j.plan)
  BY <1>1, <1>3
<1>5. k = [j EXCEPT !.moved = @ + 1, !.pc = IF j.moved + 1 = Len(j.plan) THEN "done" ELSE "move"]
  BY DEF IInv, Move, JobBecomes
<1>6. /\ k.plan = j.plan /\ k.ids = j.ids /\ k.to = j.to
      /\ k.checked = j.checked /\ k.moved = j.moved + 1
      /\ k.pc \in Moving /\ (k.pc = "done" => k.moved = Len(k.plan))
  BY <1>1, <1>5 DEF JobSound, JobType, Fields, NoJob, Moving
<1>7. SetEnvironment(e.id, j.to, e.version) /\ UNCHANGED log
  BY DEF Move
<1>8. PlannedAt(e, j.to, pointer')
  BY <1>7 DEF SetEnvironment, PlannedAt
<1>9. ASSUME NEW i \in 1 .. k.moved
      PROVE  PlannedAt(j.plan[i], j.to, pointer')
  <2>1. i \in 1 .. Len(j.plan) /\ (i = j.moved + 1 \/ i \in 1 .. j.moved)
    BY <1>1, <1>3, <1>6
  <2>2. CASE i = j.moved + 1
    BY <1>8, <2>2
  <2>3. CASE i \in 1 .. j.moved
    <3>1. j.plan[i].id # e.id \/ j.plan[i].version = e.version
      BY <1>2, <1>4, <2>1 DEF PlanOneVersion
    <3> QED
      BY <1>2, <1>7, <2>3, <3>1, PlannedStays
  <2> QED
    BY <2>1, <2>2, <2>3
<1>10. ASSUME NEW x, x.id \notin j.ids, PlannedAt(x, j.to, pointer)
       PROVE  PlannedAt(x, j.to, pointer')
  BY <1>3, <1>4, <1>7, <1>10, PlannedStays
<1>11. j.pc \in Moving
  BY <1>1 DEF Moving
<1> QED
  BY <1>1, <1>6, <1>7, <1>9, <1>10, <1>11, AloneMoving

\* A job that has ended, when it is not a promotion that succeeded, says nothing.
LEMMA AloneEnded ==
    ASSUME OneAtATime, IInv, AloneInv, MayStart, NEW p \in Promoter
    PROVE  job[p].pc = "done" \/ job[p].pc \notin Gate \cup Moving
BY DEF OneAtATime, MayStart, Ended, Gate, Moving

LEMMA AloneHand ==
    ASSUME OneAtATime, IInv, AloneInv, NEW id \in SpecId, NEW env \in Manual, NEW v,
           SetByHand(id, env, v)
    PROVE  AloneInv'
<1>1. PICK p : Promoter = {p}
  BY DEF OneAtATime
<1>2. MayStart /\ SetEnvironment(id, env, v) /\ UNCHANGED <<job, log>>
  BY DEF SetByHand
<1>3. CASE job[p].pc = "done"
  <2>1. AloneSound(job[p])
    BY <1>1 DEF AloneInv
  <2>2. /\ job[p].to # env /\ job[p].moved = Len(job[p].plan)
        /\ \A i \in 1 .. job[p].moved : PlannedAt(job[p].plan[i], job[p].to, pointer)
    BY <1>3, <2>1 DEF AloneSound, Gate, Moving
  <2>3. \A x : PlannedAt(x, job[p].to, pointer) => PlannedAt(x, job[p].to, pointer')
    BY <1>2, <2>2, PlannedStays
  <2>4. job[p].pc \in Moving
    BY <1>3 DEF Moving
  <2> QED
    BY <1>1, <1>2, <2>1, <2>2, <2>3, <2>4, AloneMoving
<1>4. CASE job[p].pc \notin Gate \cup Moving
  BY <1>1, <1>2, <1>4 DEF AloneInv, AloneSound, Gate, Moving
<1> QED
  BY <1>1, <1>2, <1>3, <1>4, AloneEnded

LEMMA AloneSave ==
    ASSUME OneAtATime, IInv, AloneInv, NEW id \in SpecId, NEW d \in SpecDoc, SaveVersion(id, d)
    PROVE  AloneInv'
<1>1. PICK p : Promoter = {p}
  BY DEF OneAtATime
<1>2. MayStart /\ UNCHANGED <<job, pointer>>
  BY DEF SaveVersion
<1>3. CASE job[p].pc = "done"
  <2>1. AloneSound(job[p])
    BY <1>1 DEF AloneInv
  <2>2. /\ job[p].moved = Len(job[p].plan)
        /\ \A i \in 1 .. job[p].moved : PlannedAt(job[p].plan[i], job[p].to, pointer)
    BY <1>3, <2>1 DEF AloneSound, Moving
  <2>3. ASSUME NEW i \in SpecId, NEW v \in DOMAIN log[i]
        PROVE  v \in DOMAIN log'[i] /\ log'[i][v] = log[i][v]
    <3>1. /\ log[id] \in Seq(SpecDoc) /\ DOMAIN log = SpecId
          /\ log' = [log EXCEPT ![id] = Append(@, d)]
      BY DEF IInv, SaveVersion
    <3>2. \A w \in DOMAIN log[id] : w \in DOMAIN Append(log[id], d)
                                        /\ Append(log[id], d)[w] = log[id][w]
      BY <3>1
    <3> QED
      BY <3>1, <3>2
  <2>4. job[p].pc \in Moving
    BY <1>3 DEF Moving
  <2> QED
    BY <1>1, <1>2, <2>1, <2>2, <2>3, <2>4, AloneMoving
<1>4. CASE job[p].pc \notin Gate \cup Moving
  BY <1>1, <1>2, <1>4 DEF AloneInv, AloneSound, Gate, Moving
<1> QED
  BY <1>1, <1>2, <1>3, <1>4, AloneEnded

LEMMA AloneStep == OneAtATime /\ IInv /\ AloneInv /\ [PromoteNext]_promoteVars => AloneInv'
<1> SUFFICES ASSUME OneAtATime, IInv, AloneInv, [PromoteNext]_promoteVars
             PROVE  AloneInv'
  OBVIOUS
<1>1. ASSUME NEW p \in Promoter, Promote(p)
      PROVE  AloneInv'
  <2>1. CASE Die(p)
    <3>1. JobSound(job[p]) /\ JobBecomes(p, [job[p] EXCEPT !.pc = "dead"]) /\ UNCHANGED <<log, pointer>>
      BY <2>1 DEF IInv, Die
    <3> QED
      BY <3>1, AloneGivenUp, AloneJob
  <2> QED
    BY <1>1, <2>1, AloneBegin, AloneReadSource, AloneCrossScreen, AloneReadApi, AloneMove DEF Promote
<1>2. CASE UNCHANGED promoteVars
  <2>1. PICK p : Promoter = {p}
    BY DEF OneAtATime
  <2>2. AloneSound(job'[p]) /\ UNCHANGED <<log, pointer>>
    BY <1>2, <2>1 DEF AloneInv, promoteVars
  <2> QED
    BY <2>1, <2>2, AloneLocal
<1> QED
  BY <1>1, <1>2, AloneHand, AloneSave DEF PromoteNext

\* When it is done, what the gate looked at is what the destination holds.
LEMMA AloneDone == IInv /\ AloneInv => PromotedBatchConsistent
<1> SUFFICES ASSUME IInv, AloneInv, NEW p \in Promoter, JobAt(p, "done")
             PROVE  /\ \A e \in Range(job[p].plan) : pointer[<<e.id, job[p].to>>] = e.version
                    /\ Satisfied(job[p].plan, {PointedAt(a.id, job[p].to) : a \in job[p].checked})
  BY DEF PromotedBatchConsistent
<1>1. JobSound(job[p]) /\ AloneSound(job[p]) /\ job[p].pc = "done"
  BY DEF IInv, AloneInv, JobAt
<1>2. /\ Satisfied(job[p].plan, job[p].checked) /\ ApisCurrent(job[p])
      /\ \A i \in 1 .. Len(job[p].plan) : PlannedAt(job[p].plan[i], job[p].to, pointer)
  BY <1>1 DEF AloneSound, Moving
<1>3. \A e \in Range(job[p].plan) : pointer[<<e.id, job[p].to>>] = e.version
  BY <1>1, <1>2, PlanEntries DEF Range, PlannedAt
<1>4. ASSUME NEW a \in job[p].checked
      PROVE  PointedAt(a.id, job[p].to) = a
  <2>1. a \in [id : SpecId, version : Nat] /\ PlannedAt(a, job[p].to, pointer)
    BY <1>2 DEF ApisCurrent
  <2> QED
    BY <2>1 DEF PointedAt, PlannedAt
<1>5. {PointedAt(a.id, job[p].to) : a \in job[p].checked} = job[p].checked
  BY <1>4
<1> QED
  BY <1>2, <1>3, <1>5

\* When people run one command at a time and set no pointer of a destination by hand, a
\* promotion that succeeds leaves in the destination exactly what the gate looked at: the
\* planned version of every spec of the batch, and apis that serve what those screens
\* fetch, be they of the batch or the destination's own.  A promotion that died before
\* changes nothing of this.
THEOREM BatchConsistent == OneAtATime => (PromoteSpec => []PromotedBatchConsistent)
<1> SUFFICES ASSUME OneAtATime
             PROVE  PromoteSpec => []PromotedBatchConsistent
  OBVIOUS
<1>1. AloneInv /\ IInv /\ [PromoteNext]_promoteVars => AloneInv'
  BY AloneStep
<1> QED
  BY PromotionInit, PromotionStep, AloneInit, AloneDone, <1>1, PTL DEF PromoteSpec
=============================================================================
