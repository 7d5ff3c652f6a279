------------------------- MODULE SpecRuntimeProofs -------------------------
(***************************************************************************)
(* The runtime of a screen forgets nothing: between two events every       *)
(* derived cell is the value of its expression (DerivedFresh), and a       *)
(* source whose newest request was answered last holds the answer to what  *)
(* it would ask now (SettledAnswer), for any number of cells, derives,     *)
(* sources and requests in flight, and for cascades of any depth.          *)
(*                                                                         *)
(* Neither holds inside a cascade.  The invariants say there that whatever *)
(* is out of date is due: some frame of the call stack has still to look   *)
(* at the cell, or at the source, for a change that touches what it reads. *)
(***************************************************************************)
EXTENDS SpecRuntime, TLAPS

Value == SUBSET (Input \X Datum)
WorkType == [do : {"evaluate", "derive", "mount", "source", "fetch", "send"},
             what : Nat \cup Derived \cup Source]
FrameType == [path : Cell \cup {<<>>}, work : Seq(WorkType)]
SourceType == [deferred : BOOLEAN, loading : BOOLEAN, failed : BOOLEAN, timer : BOOLEAN,
               current : BOOLEAN]
Request == [of : Source, newest : BOOLEAN, asked : Value]

\* What the cells are: the inputs, the derived cells and the targets are different, and
\* each source has a target of its own.
SeparateCells ==
    /\ Derived \cap (Input \cup {Target(s) : s \in Source}) = {}
    /\ Input \cap {Target(s) : s \in Source} = {}
    /\ \A s, r \in Source : Target(s) = Target(r) => s = r

\* An expression reads a derived cell as a whole: the sort compares paths for equality.
WholeReads ==
    \A reads \in DepChoices : \A dep \in ToSet(reads) : \A p \in Derived : Overlap(dep, p) => dep = p

\* No source reads what it writes, changes of which its subscription ignores.
Reads(s) == Config[s].url \cup Config[s].params
NoOwnReads ==
    \A s \in Source : \A c \in Cell :
        c = Target(s) \/ IsPrefix(Target(s), c) => \A dep \in Reads(s) : ~Overlap(dep, c)

\* A source that empties its target is the first of the spec: the sources make their
\* first fetches in that order, before any of them listens.
EmptiedFirst == \A i \in DOMAIN Sources : Config[Sources[i]].emptied => i = 1

-----------------------------------------------------------------------------
DepsOf(p) == ToSet(deps[p])
Now(s) == ReadAll(state, Reads(s))
Touches(paths, path) == \E dep \in paths : Overlap(dep, path)

\* Work that is still to be done, for a change of the path.
Has(work, w) == \E k \in DOMAIN work : work[k] = w
Carries(stack, path, w) ==
    \E i \in DOMAIN stack : stack[i].path = path /\ Has(stack[i].work, w)

DeriveDue(stack, p) ==
    \E path : Carries(stack, path, Work("derive", p)) /\ Touches(DepsOf(p), path)
FetchDue(stack, s) ==
    \E path : \/ Carries(stack, path, Work("fetch", s))
              \/ Carries(stack, path, Work("send", s))
              \/ /\ Carries(stack, path, Work("source", s))
                 /\ ~IsPrefix(Target(s), path) /\ Touches(Reads(s), path)

WorkFits(w) ==
    /\ w.do = "evaluate" => w.what \in Nat
    /\ w.do = "derive" => w.what \in Derived
    /\ w.do \in {"mount", "source", "fetch", "send"} => w.what \in Source

RuntimeType ==
    /\ deps \in [Derived -> DepChoices]
    /\ phase \in {"new", "mounting", "starting", "mounted", "failed", "gone"}
    /\ state \in [Cell -> Value]
    /\ frames \in Seq(FrameType)
    /\ source \in [Source -> SourceType]
    /\ flight \subseteq Request

\* What is on the stack is of the runtime that listens.
StackFits(stack) ==
    /\ stack \in Seq(FrameType)
    /\ \A path, w : Carries(stack, path, w) => w.do # "evaluate" /\ WorkFits(w)

\* The call stack of the first fetches: the mount of the sources below, and above it
\* what the emptying of a target started, in which only the derive engine is called.
\* Behind the source whose turn it is none empties its target.
Quiet(w) == w.do \in {"mount", "fetch", "send"} /\ ~Config[w.what].emptied
BottomFits(work) ==
    /\ \A w : Has(work, w) => w.do \in {"mount", "fetch", "send"}
    /\ EmptiedFirst => work = <<>> \/ \A w : Has(Tail(work), w) => Quiet(w)
CascadeFits(work) == \A w : Has(work, w) => w.do = "derive"
Started(stack) ==
    /\ stack # <<>>
    /\ \A i \in DOMAIN stack : IF i = Len(stack) THEN BottomFits(stack[i].work)
                               ELSE CascadeFits(stack[i].work)

\* What each phase has under way.
Running == phase \in {"starting", "mounted"}
NothingAsked == \A f \in flight : ~f.newest
PhaseSound ==
    /\ phase \in {"new", "mounting", "failed"} => NothingAsked
    /\ phase \in {"new", "mounting", "starting", "failed"} => \A s \in Source : ~source[s].current
    /\ phase # "mounted" => \A s \in Source : ~source[s].timer
    /\ phase = "mounting" =>
         \E n \in Nat \ {0} : frames = <<Frame(<<>>, <<Work("evaluate", n)>>)>>
    /\ phase = "mounting" \/ Running => ~Sort(Derives, deps).cyclic
    /\ phase # "mounting" /\ ~Running => \A path, w : ~Carries(frames, path, w)
    /\ Running => StackFits(frames)
    /\ phase = "starting" => Started(frames)

IInv == RuntimeType /\ PhaseSound

\* A derived cell is what its expression reads.
Holds(p) == state[p] = ReadAll(state, DepsOf(p))

DerivedInv ==
    /\ phase = "mounting" =>
         \A i \in DOMAIN Order : i < What => Holds(Order[i])
    /\ Running => \A p \in Derived : Holds(p) \/ DeriveDue(frames, p)

\* A source whose present reads have been asked for, or need not be.
Asked(s) ==
    /\ \A f \in flight : f.of = s /\ f.newest => f.asked = Now(s)
    /\ source[s].current /\ ~source[s].failed => state[Target(s)] = Now(s)

\* Once the first request is sent, nothing is written until the sources listen.
AllQuiet(stack) == \A path, w : Carries(stack, path, w) => Quiet(w)
Due(s) == source[s].timer \/ source[s].deferred \/ FetchDue(frames, s) \/ Asked(s)
SourceInv ==
    /\ phase = "starting" =>
         /\ \A s \in Source : Asked(s)
         /\ NothingAsked \/ AllQuiet(frames)
    /\ phase = "mounted" => \A s \in Source : Config[s].auto => Due(s)

-----------------------------------------------------------------------------
(* Stacks of frames. *)

First == Head(Head(frames).work)

\* Nothing is dropped by a step but one piece of work.
Keeps(path0, w0) ==
    \A path, w : Carries(frames, path, w) =>
        Carries(frames', path, w) \/ (path = path0 /\ w = w0)

\* Everybody has been called for a change of the cell.
Listened(c) ==
    /\ Running => \A p \in Derived : Carries(frames', c, Work("derive", p))
    /\ phase = "mounted" => \A s \in Source : Carries(frames', c, Work("source", s))

LEMMA HasFirst ==
    ASSUME NEW S, NEW work \in Seq(S), work # <<>>
    PROVE  /\ Head(work) \in S /\ Tail(work) \in Seq(S)
           /\ \A w : Has(work, w) <=> w = Head(work) \/ Has(Tail(work), w)
<1>1. /\ Head(work) \in S /\ Tail(work) \in Seq(S) /\ Head(work) = work[1]
      /\ Len(work) \in Nat \ {0} /\ DOMAIN work = 1 .. Len(work)
      /\ Len(Tail(work)) = Len(work) - 1 /\ DOMAIN Tail(work) = 1 .. Len(work) - 1
      /\ \A k \in 1 .. Len(work) - 1 : Tail(work)[k] = work[k + 1]
  OBVIOUS
<1>2. ASSUME NEW w, Has(work, w), w # Head(work)
      PROVE  Has(Tail(work), w)
  <2>1. PICK k \in 1 .. Len(work) : work[k] = w
    BY <1>1, <1>2 DEF Has
  <2>2. k - 1 \in 1 .. Len(work) - 1 /\ Tail(work)[k - 1] = w
    BY <1>1, <1>2, <2>1
  <2> QED
    BY <1>1, <2>2 DEF Has
<1>3. ASSUME NEW w, Has(Tail(work), w)
      PROVE  Has(work, w)
  <2>1. PICK k \in 1 .. Len(work) - 1 : work[k + 1] = w
    BY <1>1, <1>3 DEF Has
  <2>2. k + 1 \in 1 .. Len(work)
    BY <1>1, <2>1
  <2> QED
    BY <1>1, <2>1, <2>2 DEF Has
<1>4. Has(work, Head(work))
  BY <1>1 DEF Has
<1> QED
  BY <1>1, <1>2, <1>3, <1>4

LEMMA HasBoth ==
    ASSUME NEW S, NEW a \in Seq(S), NEW b \in Seq(S)
    PROVE  a \o b \in Seq(S) /\ \A w : Has(a \o b, w) <=> Has(a, w) \/ Has(b, w)
<1> DEFINE ab == a \o b
<1>1. /\ ab \in Seq(S) /\ DOMAIN a = 1 .. Len(a) /\ DOMAIN b = 1 .. Len(b)
      /\ Len(a) \in Nat /\ Len(b) \in Nat /\ DOMAIN ab = 1 .. Len(a) + Len(b)
      /\ \A k \in 1 .. Len(a) : ab[k] = a[k]
      /\ \A k \in Len(a) + 1 .. Len(a) + Len(b) : ab[k] = b[k - Len(a)]
  OBVIOUS
<1> HIDE DEF ab
<1>2. ASSUME NEW w, Has(ab, w)
      PROVE  Has(a, w) \/ Has(b, w)
  <2>1. PICK k \in 1 .. Len(a) + Len(b) : ab[k] = w
    BY <1>1, <1>2 DEF Has
  <2>2. CASE k \in 1 .. Len(a)
    BY <1>1, <2>1, <2>2 DEF Has
  <2>3. CASE k \in Len(a) + 1 .. Len(a) + Len(b)
    <3>1. k - Len(a) \in 1 .. Len(b) /\ b[k - Len(a)] = w
      BY <1>1, <2>1, <2>3
    <3> QED
      BY <1>1, <3>1 DEF Has
  <2> QED
    BY <1>1, <2>2, <2>3
<1>3. ASSUME NEW w, Has(a, w)
      PROVE  Has(ab, w)
  <2>1. PICK k \in 1 .. Len(a) : a[k] = w
    BY <1>1, <1>3 DEF Has
  <2>2. k \in 1 .. Len(a) + Len(b) /\ ab[k] = w
    BY <1>1, <2>1
  <2> QED
    BY <1>1, <2>2 DEF Has
<1>4. ASSUME NEW w, Has(b, w)
      PROVE  Has(ab, w)
  <2>1. PICK k \in 1 .. Len(b) : b[k] = w
    BY <1>1, <1>4 DEF Has
  <2>2. /\ Len(a) + k \in Len(a) + 1 .. Len(a) + Len(b) /\ Len(a) + k \in 1 .. Len(a) + Len(b)
        /\ (Len(a) + k) - Len(a) = k
    BY <1>1, <2>1
  <2>3. ab[Len(a) + k] = w
    BY <1>1, <2>1, <2>2
  <2> QED
    BY <1>1, <2>2, <2>3 DEF Has
<1> QED
  BY <1>1, <1>2, <1>3, <1>4 DEF ab

LEMMA HasOne == \A x, w : Has(<<x>>, w) <=> w = x
BY DEF Has

LEMMA HasNone == \A w : ~Has(<<>>, w)
BY DEF Has

\* A frame is put on a stack.
LEMMA OnTop ==
    ASSUME NEW stack \in Seq(FrameType), NEW f \in FrameType
    PROVE  /\ <<f>> \o stack \in Seq(FrameType)
           /\ \A path, w : Carries(<<f>> \o stack, path, w) <=>
                             (f.path = path /\ Has(f.work, w)) \/ Carries(stack, path, w)
<1>1. <<f>> \in Seq(FrameType)
  OBVIOUS
<1>2. /\ <<f>> \o stack \in Seq(FrameType)
      /\ \A x : Has(<<f>> \o stack, x) <=> x = f \/ Has(stack, x)
  <2> DEFINE one == <<f>>
  <2>1. one \in Seq(FrameType) /\ \A x : Has(one, x) <=> x = f
    BY <1>1, HasOne
  <2> HIDE DEF one
  <2>2. /\ one \o stack \in Seq(FrameType)
        /\ \A x : Has(one \o stack, x) <=> Has(one, x) \/ Has(stack, x)
    BY <2>1, HasBoth
  <2>3. /\ one \o stack \in Seq(FrameType)
        /\ \A x : Has(one \o stack, x) <=> x = f \/ Has(stack, x)
    BY <2>1, <2>2
  <2> QED
    BY <2>3 DEF one
<1>3. \A st, path, w : Carries(st, path, w) <=> \E x : Has(st, x) /\ x.path = path /\ Has(x.work, w)
  BY DEF Carries, Has
<1> QED
  BY <1>2, <1>3

LEMMA TwoOnTop ==
    ASSUME NEW S, NEW f \in S, NEW g \in S, NEW t \in Seq(S)
    PROVE  <<f, g>> \o t = <<f>> \o (<<g>> \o t)
<1> DEFINE gt == <<g>> \o t
           a == <<f, g>> \o t
           b == <<f>> \o gt
<1>1. /\ gt \in Seq(S) /\ Len(gt) = 1 + Len(t) /\ Len(t) \in Nat /\ gt[1] = g
      /\ \A k \in 2 .. 1 + Len(t) : gt[k] = t[k - 1]
  OBVIOUS
<1>2. /\ a \in Seq(S) /\ Len(a) = 2 + Len(t) /\ a[1] = f /\ a[2] = g
      /\ \A k \in 3 .. 2 + Len(t) : a[k] = t[k - 2]
  OBVIOUS
<1> HIDE DEF gt
<1>3. /\ b \in Seq(S) /\ Len(b) = 2 + Len(t) /\ b[1] = f
      /\ \A k \in 2 .. 2 + Len(t) : b[k] = gt[k - 1]
  BY <1>1
<1> HIDE DEF a, b
<1>4. ASSUME NEW k \in 1 .. 2 + Len(t)
      PROVE  a[k] = b[k]
  <2>1. CASE k = 1
    BY <1>2, <1>3, <2>1
  <2>2. CASE k = 2
    BY <1>1, <1>2, <1>3, <2>2
  <2>3. CASE k \in 3 .. 2 + Len(t)
    <3>1. k \in 2 .. 2 + Len(t) /\ k - 1 \in 2 .. 1 + Len(t) /\ (k - 1) - 1 = k - 2
      BY <1>1, <2>3
    <3> QED
      BY <1>1, <1>2, <1>3, <2>3, <3>1
  <2> QED
    BY <1>1, <2>1, <2>2, <2>3
<1>5. a \in [1 .. 2 + Len(t) -> S] /\ b \in [1 .. 2 + Len(t) -> S]
  BY <1>2, <1>3
<1>6. a = b
  BY <1>4, <1>5
<1> QED
  BY <1>6 DEF a, b, gt

\* The frame on top of a stack, and those below.
LEMMA TopOf ==
    ASSUME NEW stack \in Seq(FrameType), stack # <<>>
    PROVE  /\ Head(stack) \in FrameType /\ Tail(stack) \in Seq(FrameType)
           /\ \A path, w : Carries(stack, path, w) <=>
                 (Head(stack).path = path /\ Has(Head(stack).work, w)) \/ Carries(Tail(stack), path, w)
<1>1. /\ Head(stack) \in FrameType /\ Tail(stack) \in Seq(FrameType)
      /\ \A x : Has(stack, x) <=> x = Head(stack) \/ Has(Tail(stack), x)
  BY HasFirst
<1>2. \A st, path, w : Carries(st, path, w) <=> \E x : Has(st, x) /\ x.path = path /\ Has(x.work, w)
  BY DEF Carries, Has
<1> QED
  BY <1>1, <1>2

LEMMA NoneCarried == \A path, w : ~Carries(<<>>, path, w)
BY DEF Carries
-----------------------------------------------------------------------------
(* Writes and listeners. *)

LEMMA OrderSorted ==
    ASSUME RuntimeType, ~Sort(Derives, deps).cyclic
    PROVE  /\ Order \in Seq(Derived) /\ DOMAIN Order = 1 .. Len(Order) /\ Len(Order) \in Nat
           /\ \A p \in Derived : \E i \in DOMAIN Order : Order[i] = p
           /\ \A i, j \in DOMAIN Order : Order[j] \in DepsOf(Order[i]) => j < i
<1>1. SortsByReading(deps, Sort(Derives, deps))
  BY SortSorts DEF RuntimeType
<1>2. /\ Order \in Seq(Derived) /\ ToSet(Order) = Derived
      /\ \A i, j \in DOMAIN Order : Order[j] \in DepsOf(Order[i]) => j < i
  BY <1>1 DEF SortsByReading, Order, DepsOf
<1> HIDE DEF Order
<1> QED
  BY <1>2 DEF ToSet

LEMMA CellKinds ==
    /\ \A p \in Derived : p \in Cell
    /\ \A s \in Source : Target(s) \in Cell
    /\ \A c \in Input : c \in Cell
BY DEF Cell

\* The listeners of a write, each of which is called.
LEMMA ListenersCalled ==
    ASSUME IInv
    PROVE  /\ Listeners \in Seq(WorkType)
           /\ \A w : Has(Listeners, w) => w.do \in {"derive", "source"} /\ WorkFits(w)
           /\ Running => \A p \in Derived : Has(Listeners, Work("derive", p))
           /\ phase = "mounted" => \A s \in Source : Has(Listeners, Work("source", s))
           /\ phase = "starting" => CascadeFits(Listeners)
<1>1. CASE ~Running
  <2>1. Listeners = <<>>
    BY <1>1 DEF Listeners, Running
  <2> QED
    BY <1>1, <2>1, HasNone DEF Running
<1>2. CASE Running
  <2>1. /\ Order \in Seq(Derived) /\ DOMAIN Order = 1 .. Len(Order) /\ Len(Order) \in Nat
        /\ \A p \in Derived : \E i \in DOMAIN Order : Order[i] = p
        /\ \A i \in DOMAIN Order : Order[i] \in Derived
    <3>1. RuntimeType /\ ~Sort(Derives, deps).cyclic
      BY <1>2 DEF IInv, PhaseSound
    <3> HIDE DEF Order
    <3> QED
      BY <3>1, OrderSorted
  <2>2. /\ DeriveWork \in Seq(WorkType)
        /\ \A w : Has(DeriveWork, w) <=> \E p \in Derived : w = Work("derive", p)
    <3>1. \A p \in Derived : Work("derive", p) \in WorkType
      BY DEF Work, WorkType
    <3> HIDE DEF Order, Work
    <3>2. \A i \in DOMAIN Order : Work("derive", Order[i]) \in WorkType
      BY <2>1, <3>1
    <3>3. DOMAIN DeriveWork = DOMAIN Order /\ \A i \in DOMAIN Order : DeriveWork[i] = Work("derive", Order[i])
      BY DEF DeriveWork
    <3>4. DeriveWork \in Seq(WorkType)
      BY <2>1, <3>2 DEF DeriveWork
    <3> QED
      BY <2>1, <3>3, <3>4 DEF Has
  <2>3. /\ SourceWork \in Seq(WorkType)
        /\ \A w : Has(SourceWork, w) <=> \E s \in Source : w = Work("source", s)
    <3>1. \A s \in Source : Work("source", s) \in WorkType
      BY DEF Work, WorkType
    <3>2. /\ Sources \in Seq(Source) /\ DOMAIN Sources = 1 .. Len(Sources) /\ Len(Sources) \in Nat
          /\ \A s \in Source : \E i \in DOMAIN Sources : Sources[i] = s
          /\ \A i \in DOMAIN Sources : Sources[i] \in Source
      BY SourcesForm DEF Source, ToSet
    <3> HIDE DEF Source, Work
    <3>3. DOMAIN SourceWork = DOMAIN Sources
          /\ \A i \in DOMAIN Sources : SourceWork[i] = Work("source", Sources[i])
      BY DEF SourceWork
    <3>4. SourceWork \in Seq(WorkType)
      BY <3>1, <3>2 DEF SourceWork
    <3> QED
      BY <3>2, <3>3, <3>4 DEF Has
  <2>4. IF phase = "mounted" THEN Listeners = DeriveWork \o SourceWork ELSE Listeners = DeriveWork
    BY <1>2 DEF Listeners, Running
  <2>5. /\ Listeners \in Seq(WorkType)
        /\ \A w : Has(Listeners, w) => Has(DeriveWork, w) \/ (phase = "mounted" /\ Has(SourceWork, w))
        /\ \A w : Has(DeriveWork, w) => Has(Listeners, w)
        /\ phase = "mounted" => \A w : Has(SourceWork, w) => Has(Listeners, w)
    <3> DEFINE a == DeriveWork
               b == SourceWork
    <3>1. a \in Seq(WorkType) /\ b \in Seq(WorkType)
      BY <2>2, <2>3
    <3> HIDE DEF a, b
    <3>2. a \o b \in Seq(WorkType) /\ \A w : Has(a \o b, w) <=> Has(a, w) \/ Has(b, w)
      BY <3>1, HasBoth
    <3>3. IF phase = "mounted" THEN Listeners = a \o b ELSE Listeners = a
      BY <2>4 DEF a, b
    <3>4. CASE phase = "mounted"
      BY <3>2, <3>3, <3>4 DEF a, b
    <3>5. CASE phase # "mounted"
      BY <3>1, <3>3, <3>5 DEF a, b
    <3> QED
      BY <3>4, <3>5
  <2>6. /\ \A p \in Derived : Work("derive", p).do = "derive" /\ WorkFits(Work("derive", p))
        /\ \A s \in Source : Work("source", s).do = "source" /\ WorkFits(Work("source", s))
    BY DEF Work, WorkFits
  <2> QED
    BY <2>2, <2>3, <2>5, <2>6 DEF CascadeFits
<1> QED
  BY <1>1, <1>2

\* A write of a cell that is not read.
LEMMA ReadSame ==
    ASSUME state \in [Cell -> Value], NEW c \in Cell, NEW v, state' = [state EXCEPT ![c] = v],
           NEW D, v = state[c] \/ ~Touches(D, c)
    PROVE  ReadAll(state', D) = ReadAll(state, D)
<1>1. CASE v = state[c]
  <2>1. state' = state
    BY <1>1
  <2> QED
    BY <2>1
<1>2. CASE ~Touches(D, c)
  <2>1. ASSUME NEW dep \in D
        PROVE  Read(state', dep) = Read(state, dep)
    <3>1. \A x \in {x \in Cell : Overlap(x, dep)} : state'[x] = state[x]
      BY <1>2 DEF Touches, Overlap
    <3> QED
      BY <3>1 DEF Read
  <2> QED
    BY <2>1 DEF ReadAll
<1> QED
  BY <1>1, <1>2

LEMMA ReadType ==
    ASSUME state \in [Cell -> Value], NEW D
    PROVE  ReadAll(state, D) \in Value
<1>1. ASSUME NEW path
      PROVE  Read(state, path) \in Value
  BY DEF Read, Value
<1> QED
  BY <1>1 DEF ReadAll, Value

\* The listener on top has work: what the rest of the stack is without it.
LEMMA TopWork ==
    ASSUME RuntimeType, NEW do, Doing(do)
    PROVE  /\ Changed \in Cell \cup {<<>>} /\ Rest \in Seq(WorkType) /\ Tail(frames) \in Seq(FrameType)
           /\ First \in WorkType /\ First = Work(do, What) /\ Carries(frames, Changed, First)
           /\ \A path, w : Carries(frames, path, w) <=>
                \/ path = Changed /\ (w = First \/ Has(Rest, w))
                \/ Carries(Tail(frames), path, w)
<1>1. frames \in Seq(FrameType) /\ frames # <<>> /\ Head(frames).work # <<>> /\ First.do = do
  BY DEF RuntimeType, Doing, Idle, First
<1>2. /\ Head(frames) \in FrameType /\ Tail(frames) \in Seq(FrameType)
      /\ \A path, w : Carries(frames, path, w) <=>
            (Changed = path /\ Has(Head(frames).work, w)) \/ Carries(Tail(frames), path, w)
  BY <1>1, TopOf DEF Changed
<1>3. Head(frames).work \in Seq(WorkType) /\ Changed \in Cell \cup {<<>>}
  BY <1>2 DEF FrameType, Changed
<1>4. /\ First \in WorkType /\ Rest \in Seq(WorkType)
      /\ \A w : Has(Head(frames).work, w) <=> w = First \/ Has(Rest, w)
  BY <1>1, <1>3, HasFirst DEF First, Rest
<1>5. First = Work(do, What)
  BY <1>1, <1>4 DEF Work, What, First, WorkType
<1> QED
  BY <1>2, <1>3, <1>4, <1>5

\* The stack with that as the work on top.
On(rest) == <<Frame(Changed, rest)>> \o Tail(frames)

\* The call stack of the first fetches, by its top frame.
LEMMA StartedSplit ==
    ASSUME NEW f \in FrameType, NEW t \in Seq(FrameType)
    PROVE  Started(<<f>> \o t) <=>
               IF t = <<>> THEN BottomFits(f.work) ELSE CascadeFits(f.work) /\ Started(t)
<1> DEFINE a == <<f>> \o t
           Fits(st, i) == IF i = Len(st) THEN BottomFits(st[i].work) ELSE CascadeFits(st[i].work)
<1>1. /\ a \in Seq(FrameType) /\ Len(a) = 1 + Len(t) /\ Len(t) \in Nat /\ a[1] = f /\ a # <<>>
      /\ DOMAIN a = 1 .. 1 + Len(t) /\ DOMAIN t = 1 .. Len(t)
      /\ \A i \in 1 .. Len(t) : a[i + 1] = t[i]
      /\ t = <<>> <=> Len(t) = 0
  OBVIOUS
<1> HIDE DEF a
<1>2. \A i \in DOMAIN t : Fits(a, i + 1) <=> Fits(t, i)
  BY <1>1
<1>3. Fits(a, 1) <=> IF t = <<>> THEN BottomFits(f.work) ELSE CascadeFits(f.work)
  BY <1>1
<1>4. /\ Started(a) <=> \A i \in DOMAIN a : Fits(a, i)
      /\ Started(t) <=> t # <<>> /\ \A i \in DOMAIN t : Fits(t, i)
  BY <1>1 DEF Started
<1> HIDE DEF Fits
<1>5. (\A i \in DOMAIN a : Fits(a, i)) <=> Fits(a, 1) /\ \A i \in DOMAIN t : Fits(t, i)
  <2>1. \A i \in DOMAIN a : i = 1 \/ (i - 1 \in DOMAIN t /\ (i - 1) + 1 = i)
    BY <1>1
  <2>2. 1 \in DOMAIN a /\ \A i \in DOMAIN t : i + 1 \in DOMAIN a
    BY <1>1
  <2> QED
    BY <1>2, <2>1, <2>2
<1>6. t = <<>> => \A i \in DOMAIN t : Fits(t, i)
  BY <1>1
<1> QED
  BY <1>3, <1>4, <1>5, <1>6 DEF a

\* The work on top of that stack.
LEMMA StartedTop ==
    ASSUME IInv, phase = "starting", NEW do, Doing(do)
    PROVE  IF Tail(frames) = <<>>
           THEN /\ do \in {"mount", "fetch", "send"}
                /\ \A w : Has(Rest, w) => w.do \in {"mount", "fetch", "send"}
                /\ EmptiedFirst => \A w : Has(Rest, w) => Quiet(w)
           ELSE do = "derive" /\ CascadeFits(Rest) /\ Started(Tail(frames))
<1>1. /\ frames \in Seq(FrameType) /\ frames # <<>> /\ Head(frames).work # <<>>
      /\ RuntimeType /\ Started(frames)
  BY DEF IInv, RuntimeType, PhaseSound, Doing, Idle
<1>2. /\ Head(frames) \in FrameType /\ Tail(frames) \in Seq(FrameType)
      /\ frames = <<Head(frames)>> \o Tail(frames)
  BY <1>1
<1>3. IF Tail(frames) = <<>> THEN BottomFits(Head(frames).work)
      ELSE CascadeFits(Head(frames).work) /\ Started(Tail(frames))
  <2> DEFINE f == Head(frames)
             t == Tail(frames)
  <2>1. f \in FrameType /\ t \in Seq(FrameType) /\ Started(<<f>> \o t)
    BY <1>1, <1>2
  <2> HIDE DEF f, t
  <2>2. IF t = <<>> THEN BottomFits(f.work) ELSE CascadeFits(f.work) /\ Started(t)
    BY <2>1, StartedSplit
  <2> QED
    BY <2>2 DEF f, t
<1>4. /\ First.do = do /\ Rest = Tail(Head(frames).work)
      /\ \A w : Has(Head(frames).work, w) <=> w = First \/ Has(Rest, w)
  <2>1. Head(frames).work \in Seq(WorkType)
    BY <1>2 DEF FrameType
  <2> QED
    BY <1>1, <2>1, HasFirst DEF First, Rest, Doing
<1> QED
  BY <1>1, <1>3, <1>4 DEF BottomFits, CascadeFits

\* It stays such a stack when the work on top is done, and when more of it follows.
LEMMA StartedSkip ==
    ASSUME IInv, phase = "starting", NEW do, Doing(do)
    PROVE  Started(On(Rest))
<1>1. RuntimeType
  BY DEF IInv
<1> DEFINE f == Frame(Changed, Rest)
           t == Tail(frames)
<1>2. f \in FrameType /\ f.work = Rest /\ t \in Seq(FrameType) /\ Rest \in Seq(WorkType)
  BY <1>1, TopWork DEF Frame, FrameType
<1>3. IF t = <<>>
      THEN /\ \A w : Has(Rest, w) => w.do \in {"mount", "fetch", "send"}
           /\ EmptiedFirst => \A w : Has(Rest, w) => Quiet(w)
      ELSE CascadeFits(Rest) /\ Started(t)
  BY StartedTop
<1>4. Rest = <<>> \/ \A w : Has(Tail(Rest), w) => Has(Rest, w)
  BY <1>2, HasFirst
<1> HIDE DEF f, t
<1>5. IF t = <<>> THEN BottomFits(f.work) ELSE CascadeFits(f.work) /\ Started(t)
  BY <1>2, <1>3, <1>4 DEF BottomFits
<1> QED
  BY <1>2, <1>5, StartedSplit DEF f, t, On

LEMMA OneMore ==
    ASSUME NEW w0 \in WorkType, NEW rest \in Seq(WorkType)
    PROVE  /\ <<w0>> \o rest \in Seq(WorkType) /\ Tail(<<w0>> \o rest) = rest
           /\ \A w : Has(<<w0>> \o rest, w) <=> w \in {w0} \/ Has(rest, w)
<1>1. <<w0>> \in Seq(WorkType)
  OBVIOUS
<1>2. \A w : Has(<<w0>>, w) <=> w = w0
  BY HasOne
<1>3. Tail(<<w0>> \o rest) = rest
  OBVIOUS
<1> DEFINE one == <<w0>>
<1> HIDE DEF one
<1>4. one \o rest \in Seq(WorkType) /\ \A w : Has(one \o rest, w) <=> Has(one, w) \/ Has(rest, w)
  BY <1>1, HasBoth DEF one
<1> QED
  BY <1>2, <1>3, <1>4 DEF one

LEMMA StartedMore ==
    ASSUME IInv, phase = "starting", NEW do, Doing(do), do # "derive",
           NEW w0 \in WorkType, w0.do \in {"mount", "fetch", "send"}
    PROVE  Started(On(<<w0>> \o Rest))
<1>1. RuntimeType
  BY DEF IInv
<1> DEFINE more == <<w0>> \o Rest
<1>2. /\ Rest \in Seq(WorkType) /\ more \in Seq(WorkType) /\ Tail(more) = Rest
      /\ \A w : Has(more, w) <=> w = w0 \/ Has(Rest, w)
  BY <1>1, TopWork, OneMore
<1> HIDE DEF more
<1> DEFINE f == Frame(Changed, more)
           t == Tail(frames)
<1>3. f \in FrameType /\ f.work = more /\ t \in Seq(FrameType)
  BY <1>1, <1>2, TopWork DEF Frame, FrameType
<1>4. /\ t = <<>>
      /\ \A w : Has(Rest, w) => w.do \in {"mount", "fetch", "send"}
      /\ EmptiedFirst => \A w : Has(Rest, w) => Quiet(w)
  BY StartedTop
<1> HIDE DEF f, t
<1>5. BottomFits(f.work)
  BY <1>2, <1>3, <1>4 DEF BottomFits
<1>6. Started(<<f>> \o t)
  BY <1>3, <1>4, <1>5, StartedSplit
<1> QED
  BY <1>6 DEF f, t, more, On

\* The work on top is done, and more of it may follow.
LEMMA GoesOn ==
    ASSUME RuntimeType, StackFits(frames), NEW do, Doing(do), NEW rest \in Seq(WorkType),
           \A w : Has(Rest, w) => Has(rest, w),
           \A w : Has(rest, w) => Has(Rest, w) \/ (w.do # "evaluate" /\ WorkFits(w))
    PROVE  /\ StackFits(On(rest))
           /\ \A path, w : Carries(frames, path, w) =>
                 Carries(On(rest), path, w) \/ (path = Changed /\ w = First)
           /\ \A path, w : Carries(On(rest), path, w) =>
                 Carries(frames, path, w) \/ (path = Changed /\ Has(rest, w))
           /\ \A w : Has(rest, w) => Carries(On(rest), Changed, w)
<1>1. /\ Changed \in Cell \cup {<<>>} /\ Rest \in Seq(WorkType) /\ Tail(frames) \in Seq(FrameType)
      /\ \A path, w : Carries(frames, path, w) <=>
                \/ path = Changed /\ (w = First \/ Has(Rest, w))
                \/ Carries(Tail(frames), path, w)
  BY TopWork
<1>2. /\ Frame(Changed, rest) \in FrameType
      /\ Frame(Changed, rest).path = Changed /\ Frame(Changed, rest).work = rest
  BY <1>1 DEF Frame, FrameType
<1>3. /\ On(rest) \in Seq(FrameType)
      /\ \A path, w : Carries(On(rest), path, w) <=>
            (Changed = path /\ Has(rest, w)) \/ Carries(Tail(frames), path, w)
  <2> DEFINE f == Frame(Changed, rest)
             t == Tail(frames)
  <2>1. f \in FrameType /\ t \in Seq(FrameType) /\ f.path = Changed /\ f.work = rest
    BY <1>1, <1>2
  <2> HIDE DEF f, t
  <2>2. /\ <<f>> \o t \in Seq(FrameType)
        /\ \A path, w : Carries(<<f>> \o t, path, w) <=>
              (f.path = path /\ Has(f.work, w)) \/ Carries(t, path, w)
    BY <2>1, OnTop
  <2>3. On(rest) = <<f>> \o t
    BY DEF On, f, t
  <2> QED
    BY <2>1, <2>2, <2>3 DEF t
<1> QED
  BY <1>1, <1>3 DEF StackFits

\* store.set inside a listener.
LEMMA WriteThenCalls ==
    ASSUME IInv, StackFits(frames), NEW do, Doing(do), NEW path \in Cell, NEW value \in Value,
           NEW rest \in Seq(WorkType),
           \A w : Has(Rest, w) => Has(rest, w),
           \A w : Has(rest, w) => Has(Rest, w) \/ (w.do # "evaluate" /\ WorkFits(w)),
           phase = "starting" => Started(On(rest)),
           WriteThen(path, value, rest)
    PROVE  /\ state' = [state EXCEPT ![path] = value] /\ state' \in [Cell -> Value]
           /\ StackFits(frames') /\ Keeps(Changed, First)
           /\ \A w : Has(rest, w) => Carries(frames', Changed, w)
           /\ phase = "starting" => Started(frames')
           /\ value # state[path] => Listened(path)
<1> DEFINE below == On(rest)
<1>1. RuntimeType
  BY DEF IInv
<1>2. /\ StackFits(below)
      /\ \A x, w : Carries(frames, x, w) => Carries(below, x, w) \/ (x = Changed /\ w = First)
      /\ \A w : Has(rest, w) => Carries(below, Changed, w)
  BY <1>1, GoesOn
<1>3. /\ state' = [state EXCEPT ![path] = value] /\ state' \in [Cell -> Value]
      /\ IF state[path] = value THEN frames' = below
         ELSE frames' = <<Frame(path, Listeners), Frame(Changed, rest)>> \o Tail(frames)
  BY <1>1 DEF WriteThen, Changed, RuntimeType, On
<1>b. phase = "starting" => Started(below)
  OBVIOUS
<1>4. CASE state[path] = value
  <2> HIDE DEF below
  <2> QED
    BY <1>2, <1>3, <1>4, <1>b DEF Keeps
<1>5. CASE state[path] # value
  <2>1. /\ Frame(path, Listeners) \in FrameType
        /\ Frame(path, Listeners).path = path /\ Frame(path, Listeners).work = Listeners
    BY ListenersCalled DEF Frame, FrameType
  <2>2. frames' = <<Frame(path, Listeners)>> \o below
    <3>1. Frame(Changed, rest) \in FrameType /\ Tail(frames) \in Seq(FrameType)
      BY <1>1, TopWork DEF Frame, FrameType
    <3> DEFINE f == Frame(path, Listeners)
               g == Frame(Changed, rest)
    <3>2. frames' = <<f, g>> \o Tail(frames)
      BY <1>3, <1>5
    <3> HIDE DEF f, g
    <3>3. f \in FrameType /\ g \in FrameType /\ Tail(frames) \in Seq(FrameType)
      BY <2>1, <3>1 DEF f, g
    <3>4. <<f, g>> \o Tail(frames) = <<f>> \o (<<g>> \o Tail(frames))
      <4> DEFINE r == Tail(frames)
      <4>1. r \in Seq(FrameType)
        BY <3>3
      <4> HIDE DEF r
      <4>2. <<f, g>> \o r = <<f>> \o (<<g>> \o r)
        BY <3>3, <4>1, TwoOnTop, SMTT(40)
      <4> QED
        BY <4>2 DEF r
    <3> QED
      BY <3>2, <3>4 DEF f, g, On
  <2> HIDE DEF below
  <2>3. /\ frames' \in Seq(FrameType)
        /\ \A x, w : Carries(frames', x, w) <=> (path = x /\ Has(Listeners, w)) \/ Carries(below, x, w)
    BY <1>2, <2>1, <2>2, OnTop DEF StackFits
  <2>4. StackFits(frames')
    BY <1>2, <2>3, ListenersCalled DEF StackFits
  <2>5. Keeps(Changed, First) /\ \A w : Has(rest, w) => Carries(frames', Changed, w)
    BY <1>2, <2>3 DEF Keeps
  <2>6. Listened(path)
    BY <2>3, ListenersCalled DEF Listened
  <2>7. phase = "starting" => Started(frames')
    <3> DEFINE f == Frame(path, Listeners)
    <3>1. f \in FrameType /\ below \in Seq(FrameType) /\ (phase = "starting" => CascadeFits(f.work))
      BY <1>2, <2>1, ListenersCalled DEF StackFits
    <3>2. Started(below) => below # <<>>
      BY DEF Started
    <3> HIDE DEF f
    <3>3. Started(<<f>> \o below) <=>
              IF below = <<>> THEN BottomFits(f.work) ELSE CascadeFits(f.work) /\ Started(below)
      BY <3>1, StartedSplit
    <3>4. frames' = <<f>> \o below
      BY <2>2 DEF f
    <3> QED
      BY <1>b, <3>1, <3>2, <3>3, <3>4
  <2> QED
    BY <1>3, <2>4, <2>5, <2>6, <2>7
<1> QED
  BY <1>4, <1>5

\* The same for what the handlers do: go on with the rest, or with one more piece of work.
LEMMA SkipGoes ==
    ASSUME IInv, Running, NEW do, Doing(do), Skip
    PROVE  /\ StackFits(frames') /\ Keeps(Changed, First)
           /\ phase = "starting" => Started(frames')
           /\ \A path, w : Carries(frames', path, w) => Carries(frames, path, w)
<1>1. Rest \in Seq(WorkType) /\ RuntimeType /\ StackFits(frames)
  BY TopWork DEF IInv, PhaseSound
<1>2. frames' = On(Rest)
  BY DEF Skip, On
<1>3. phase = "starting" => Started(On(Rest))
  BY StartedSkip
<1>4. \A w : Has(Rest, w) => Carries(frames, Changed, w)
  BY <1>1, TopWork
<1>5. /\ StackFits(On(Rest))
      /\ \A path, w : Carries(frames, path, w) =>
            Carries(On(Rest), path, w) \/ (path = Changed /\ w = First)
      /\ \A path, w : Carries(On(Rest), path, w) =>
            Carries(frames, path, w) \/ (path = Changed /\ Has(Rest, w))
  BY <1>1, GoesOn
<1> QED
  BY <1>2, <1>3, <1>4, <1>5 DEF Keeps

\* The rest of the work with one more piece before it.
LEMMA MoreWork ==
    ASSUME IInv, NEW do, Doing(do), NEW w0 \in WorkType, w0.do # "evaluate", WorkFits(w0)
    PROVE  /\ <<w0>> \o Rest \in Seq(WorkType) /\ Has(<<w0>> \o Rest, w0)
           /\ \A w : Has(Rest, w) => Has(<<w0>> \o Rest, w)
           /\ \A w : Has(<<w0>> \o Rest, w) =>
                 (Has(Rest, w) \/ w = w0) /\ (Has(Rest, w) \/ (w.do # "evaluate" /\ WorkFits(w)))
<1>1. Rest \in Seq(WorkType)
  BY TopWork DEF IInv
<1>2. /\ <<w0>> \o Rest \in Seq(WorkType)
      /\ \A w : Has(<<w0>> \o Rest, w) <=> w \in {w0} \/ Has(Rest, w)
  BY <1>1, OneMore
<1> QED
  BY <1>2

LEMMA ReplaceGoes ==
    ASSUME IInv, Running, NEW do, Doing(do),
           NEW w0 \in WorkType, w0.do # "evaluate", WorkFits(w0), Replace(<<w0>>),
           phase = "starting" => do # "derive" /\ w0.do \in {"mount", "fetch", "send"}
    PROVE  /\ StackFits(frames') /\ Keeps(Changed, First) /\ Carries(frames', Changed, w0)
           /\ phase = "starting" => Started(frames')
           /\ \A path, w : Carries(frames', path, w) => Carries(frames, path, w) \/ w = w0
<1> DEFINE rest == <<w0>> \o Rest
<1>1. RuntimeType /\ StackFits(frames)
  BY DEF IInv, PhaseSound
<1>2. /\ rest \in Seq(WorkType) /\ Has(rest, w0)
      /\ \A w : Has(Rest, w) => Has(rest, w)
      /\ \A w : Has(rest, w) => Has(Rest, w) \/ w = w0
      /\ \A w : Has(rest, w) => Has(Rest, w) \/ (w.do # "evaluate" /\ WorkFits(w))
  BY MoreWork
<1>3. frames' = On(rest)
  BY DEF Replace, On
<1>4. phase = "starting" => Started(On(rest))
  BY StartedMore
<1>5. \A w : Has(Rest, w) => Carries(frames, Changed, w)
  BY <1>1, TopWork
<1> HIDE DEF rest
<1>6. /\ StackFits(On(rest))
      /\ \A path, w : Carries(frames, path, w) =>
            Carries(On(rest), path, w) \/ (path = Changed /\ w = First)
      /\ \A path, w : Carries(On(rest), path, w) =>
            Carries(frames, path, w) \/ (path = Changed /\ Has(rest, w))
      /\ \A w : Has(rest, w) => Carries(On(rest), Changed, w)
  BY <1>1, <1>2, GoesOn
<1> QED
  BY <1>2, <1>3, <1>4, <1>5, <1>6 DEF Keeps

LEMMA WriteThenGoes ==
    ASSUME IInv, Running, NEW do, Doing(do), NEW path \in Cell, NEW value \in Value,
           WriteThen(path, value, Rest)
    PROVE  /\ state' = [state EXCEPT ![path] = value] /\ state' \in [Cell -> Value]
           /\ StackFits(frames') /\ Keeps(Changed, First)
           /\ phase = "starting" => Started(frames')
           /\ value # state[path] => Listened(path)
<1>1. Rest \in Seq(WorkType) /\ StackFits(frames)
  BY TopWork DEF IInv, PhaseSound
<1>2. phase = "starting" => Started(On(Rest))
  BY StartedSkip
<1> QED
  BY <1>1, <1>2, WriteThenCalls

LEMMA WriteThenMore ==
    ASSUME IInv, Running, NEW do, Doing(do), NEW path \in Cell, NEW value \in Value,
           NEW w0 \in WorkType, w0.do # "evaluate", WorkFits(w0),
           phase = "starting" => do # "derive" /\ w0.do \in {"mount", "fetch", "send"},
           WriteThen(path, value, <<w0>> \o Rest)
    PROVE  /\ state' = [state EXCEPT ![path] = value] /\ state' \in [Cell -> Value]
           /\ StackFits(frames') /\ Keeps(Changed, First) /\ Carries(frames', Changed, w0)
           /\ phase = "starting" => Started(frames')
           /\ value # state[path] => Listened(path)
<1> DEFINE rest == <<w0>> \o Rest
<1>1. StackFits(frames)
  BY DEF IInv, PhaseSound
<1>2. /\ rest \in Seq(WorkType) /\ Has(rest, w0)
      /\ \A w : Has(Rest, w) => Has(rest, w)
      /\ \A w : Has(rest, w) => Has(Rest, w) \/ (w.do # "evaluate" /\ WorkFits(w))
  BY MoreWork
<1>3. phase = "starting" => Started(On(rest))
  BY StartedMore
<1>4. WriteThen(path, value, rest)
  OBVIOUS
<1> HIDE DEF rest
<1>5. /\ state' = [state EXCEPT ![path] = value] /\ state' \in [Cell -> Value]
      /\ StackFits(frames') /\ Keeps(Changed, First)
      /\ \A w : Has(rest, w) => Carries(frames', Changed, w)
      /\ phase = "starting" => Started(frames')
      /\ value # state[path] => Listened(path)
  BY <1>1, <1>2, <1>3, <1>4, WriteThenCalls
<1> QED
  BY <1>2, <1>5

\* A set from outside.
LEMMA WriteCalls ==
    ASSUME IInv, frames = <<>>, NEW path \in Cell, NEW value \in Value, Write(path, value)
    PROVE  /\ state' = [state EXCEPT ![path] = value] /\ state' \in [Cell -> Value]
           /\ StackFits(frames')
           /\ value # state[path] => Listened(path)
           /\ ~Running => \A x, w : ~Carries(frames', x, w)
<1>1. /\ state' = [state EXCEPT ![path] = value] /\ state' \in [Cell -> Value]
      /\ frames' = IF state[path] = value THEN <<>> ELSE <<Frame(path, Listeners)>>
  BY DEF Write, IInv, RuntimeType
<1>2. CASE state[path] = value
  BY <1>1, <1>2, NoneCarried DEF StackFits
<1>3. CASE state[path] # value
  <2>1. /\ Frame(path, Listeners) \in FrameType
        /\ Frame(path, Listeners).path = path /\ Frame(path, Listeners).work = Listeners
    BY ListenersCalled DEF Frame, FrameType
  <2>2. frames' = <<Frame(path, Listeners)>> \o <<>>
    BY <1>1, <1>3, <2>1
  <2>3. /\ frames' \in Seq(FrameType)
        /\ \A x, w : Carries(frames', x, w) <=> path = x /\ Has(Listeners, w)
    <3> DEFINE f == Frame(path, Listeners)
    <3>1. <<>> \in Seq(FrameType)
      OBVIOUS
    <3>2. f \in FrameType /\ f.path = path /\ f.work = Listeners /\ frames' = <<f>> \o <<>>
      BY <2>1, <2>2
    <3> HIDE DEF f
    <3> QED
      BY <3>1, <3>2, OnTop, NoneCarried
  <2>4. ~Running => \A w : ~Has(Listeners, w)
    BY HasNone DEF Listeners, Running
  <2> QED
    BY <1>1, <2>3, <2>4, ListenersCalled DEF StackFits, Listened
<1> QED
  BY <1>2, <1>3
-----------------------------------------------------------------------------
(* What a step preserves. *)

\* Work is done while mounting, which is of one kind, and afterwards.
LEMMA Working ==
    ASSUME IInv, NEW do, Doing(do)
    PROVE  /\ do = "evaluate" => phase = "mounting"
           /\ do # "evaluate" => Running /\ StackFits(frames) /\ WorkFits(First)
           /\ phase = "starting" => do \in {"derive", "mount", "fetch", "send"}
<1>1. First = Work(do, What) /\ Carries(frames, Changed, First) /\ First.do = do
  BY TopWork DEF IInv, Work
<1>2. phase = "mounting" \/ Running
  BY <1>1 DEF IInv, PhaseSound
<1>3. CASE phase = "mounting"
  <2>1. PICK n \in Nat : frames = <<Frame(<<>>, <<Work("evaluate", n)>>)>>
    BY <1>3 DEF IInv, PhaseSound
  <2>2. First = Work("evaluate", n)
    BY <2>1 DEF First, Frame
  <2> QED
    BY <1>1, <1>3, <2>2 DEF Work
<1>4. CASE Running
  <2>1. phase = "starting" => do \in {"derive", "mount", "fetch", "send"}
    BY StartedTop
  <2> QED
    BY <1>1, <1>4, <2>1 DEF IInv, PhaseSound, StackFits
<1> QED
  BY <1>2, <1>3, <1>4

\* A step of the runtime that listens.
LEMMA RunningStep ==
    ASSUME IInv, Running, UNCHANGED <<deps, phase>>, state' \in [Cell -> Value],
           StackFits(frames'), source' \in [Source -> SourceType], flight' \subseteq Request,
           phase = "starting" => /\ Started(frames')
                                 /\ \A s \in Source : ~source'[s].current /\ ~source'[s].timer
    PROVE  IInv'
<1>1. RuntimeType'
  BY DEF IInv, RuntimeType, StackFits
<1>2. StackFits(frames)' /\ (phase = "starting" => Started(frames)')
  BY DEF StackFits, Started
<1>3. PhaseSound'
  BY <1>2 DEF IInv, PhaseSound, Running
<1> QED
  BY <1>1, <1>3 DEF IInv

\* At most one cell is written, and if that changes it everybody is called.
Changes(c, v) ==
    \/ state' = state
    \/ /\ c \in Cell /\ state' = [state EXCEPT ![c] = v]
       /\ v # state[c] => Listened(c)

\* What is read is what it was, or its readers have been called.
LEMMA ReadAfter ==
    ASSUME state \in [Cell -> Value], NEW c, NEW v, Changes(c, v), NEW D
    PROVE  \/ ReadAll(state', D) = ReadAll(state, D)
           \/ c \in Cell /\ Listened(c) /\ Touches(D, c)
<1>1. CASE state' = state
  BY <1>1
<1>2. CASE c \in Cell /\ state' = [state EXCEPT ![c] = v]
  <2>1. v = state[c] \/ ~Touches(D, c) => ReadAll(state', D) = ReadAll(state, D)
    BY <1>2, ReadSame
  <2>2. CASE v = state[c] \/ ~Touches(D, c)
    BY <2>1, <2>2
  <2>3. CASE ~(v = state[c] \/ ~Touches(D, c))
    <3>1. v # state[c] /\ Touches(D, c) /\ state'[c] = v
      BY <1>2, <2>3
    <3>2. state' # state
      BY <3>1
    <3> QED
      BY <1>2, <3>1, <3>2 DEF Changes
  <2> QED
    BY <2>2, <2>3
<1> QED
  BY <1>1, <1>2 DEF Changes

\* Derived cells, after a step that does the work w0 on a change of path0.
LEMMA DerivedAfter ==
    ASSUME IInv, DerivedInv, Running, UNCHANGED <<deps, phase>>,
           NEW c, NEW v, Changes(c, v), c \in Derived => v = ReadAll(state, DepsOf(c)),
           NEW path0, NEW w0, Keeps(path0, w0),
           \A p \in Derived : w0 = Work("derive", p) =>
               \/ c = p /\ state' = [state EXCEPT ![c] = v]
               \/ ~Touches(DepsOf(p), path0)
    PROVE  DerivedInv'
<1>1. state \in [Cell -> Value] /\ \A p \in Derived : p \in Cell
  BY CellKinds DEF IInv, RuntimeType
<1>2. ASSUME NEW p \in Derived
      PROVE  state'[p] = ReadAll(state', DepsOf(p)) \/ DeriveDue(frames', p)
  <2>1. ReadAll(state', DepsOf(p)) = ReadAll(state, DepsOf(p)) \/ DeriveDue(frames', p)
    <3>1. c \in Cell /\ Listened(c) /\ Touches(DepsOf(p), c) => DeriveDue(frames', p)
      BY DEF Listened, DeriveDue
    <3> QED
      BY <1>1, <3>1, ReadAfter
  <2>2. CASE c = p /\ state' = [state EXCEPT ![c] = v]
    <3>1. state'[p] = ReadAll(state, DepsOf(p))
      BY <1>1, <2>2
    <3> QED
      BY <2>1, <3>1
  <2>3. CASE ~(c = p /\ state' = [state EXCEPT ![c] = v])
    <3>1. state'[p] = state[p]
      BY <1>1, <2>3 DEF Changes
    <3>2. CASE Holds(p)
      BY <2>1, <3>1, <3>2 DEF Holds
    <3>3. CASE DeriveDue(frames, p)
      <4>1. PICK path : Carries(frames, path, Work("derive", p)) /\ Touches(DepsOf(p), path)
        BY <3>3 DEF DeriveDue
      <4>2. CASE Carries(frames', path, Work("derive", p))
        BY <4>1, <4>2 DEF DeriveDue
      <4>3. CASE path = path0 /\ Work("derive", p) = w0
        BY <2>3, <4>1, <4>3
      <4> QED
        BY <4>1, <4>2, <4>3 DEF Keeps
    <3> QED
      BY <3>2, <3>3 DEF DerivedInv
  <2> QED
    BY <2>2, <2>3
<1> QED
  BY <1>2 DEF DerivedInv, Holds, DepsOf, DeriveDue, Running

\* A source that the step is not about.
LEMMA SourceAfter ==
    ASSUME IInv, SourceInv, NoOwnReads, phase = "mounted", NEW c, NEW v, Changes(c, v),
           NEW path0, NEW w0, Keeps(path0, w0),
           NEW s \in Source, Config[s].auto, state' = state \/ c # Target(s),
           source[s].timer => source'[s].timer, source[s].deferred => source'[s].deferred,
           source'[s].current /\ ~source'[s].failed => source[s].current /\ ~source[s].failed,
           \A f \in flight' : f.of = s /\ f.newest => f \in flight,
           w0 # Work("fetch", s), w0 # Work("send", s),
           w0 = Work("source", s) => IsPrefix(Target(s), path0) \/ ~Touches(Reads(s), path0)
    PROVE  source'[s].timer \/ source'[s].deferred \/ FetchDue(frames', s) \/ Asked(s)'
<1>1. state \in [Cell -> Value] /\ Target(s) \in Cell
  BY CellKinds DEF IInv, RuntimeType
<1>2. CASE source[s].timer \/ source[s].deferred
  BY <1>2
<1>3. CASE FetchDue(frames, s)
  <2>1. PICK path : \/ Carries(frames, path, Work("fetch", s))
                    \/ Carries(frames, path, Work("send", s))
                    \/ /\ Carries(frames, path, Work("source", s))
                       /\ ~IsPrefix(Target(s), path) /\ Touches(Reads(s), path)
    BY <1>3 DEF FetchDue
  <2> QED
    BY <2>1 DEF Keeps, FetchDue
<1>4. CASE Asked(s)
  <2>1. CASE ReadAll(state', Reads(s)) = ReadAll(state, Reads(s))
    <3>1. state'[Target(s)] = state[Target(s)]
      BY <1>1 DEF Changes
    <3>2. Asked(s)'
      BY <1>4, <2>1, <3>1 DEF Asked, Now
    <3> QED
      BY <3>2
  <2>2. CASE c \in Cell /\ Listened(c) /\ Touches(Reads(s), c)
    <3>1. ~IsPrefix(Target(s), c)
      BY <2>2 DEF NoOwnReads, Touches
    <3> QED
      BY <2>2, <3>1 DEF Listened, FetchDue
  <2> QED
    BY <1>1, <2>1, <2>2, ReadAfter
<1> QED
  BY <1>2, <1>3, <1>4 DEF SourceInv, Due

\* What a step has to show of the derived cells and the sources.
Safe ==
    /\ IInv'
    /\ WholeReads /\ DerivedInv => DerivedInv'
    /\ NoOwnReads /\ EmptiedFirst /\ SourceInv => SourceInv'

LEMMA SourcesSettled ==
    ASSUME phase' = "mounted",
           \A s \in Source : Config[s].auto =>
               source'[s].timer \/ source'[s].deferred \/ FetchDue(frames', s) \/ Asked(s)'
    PROVE  SourceInv'
BY DEF SourceInv, Due, FetchDue

\* Sources that make their first fetches: before the first request, and after it.
LEMMA StillUnasked ==
    ASSUME IInv', phase' = "starting", NothingAsked'
    PROVE  SourceInv'
BY DEF SourceInv, Asked, NothingAsked, IInv, PhaseSound

LEMMA StillQuiet ==
    ASSUME phase' = "starting", state' = state, flight' = flight, \A s \in Source : Asked(s),
           \A s \in Source : ~source'[s].current, AllQuiet(frames')
    PROVE  SourceInv'
<1>1. \A s \in Source : Asked(s)'
  BY DEF Asked, Now
<1> QED
  BY <1>1 DEF SourceInv, AllQuiet, Carries

LEMMA WorkNames ==
    ASSUME NEW do, NEW x
    PROVE  /\ Work(do, x).do = do /\ Work(do, x).what = x
           /\ \A do2, y : Work(do, x) = Work(do2, y) => do = do2 /\ x = y
BY DEF Work

\* One derived cell is looked at.
LEMMA DeriveStep ==
    ASSUME IInv, SeparateCells, Derive
    PROVE  Safe
<1> DEFINE p == What
           v == ReadAll(state, DepsOf(p))
<1>1. /\ Doing("derive") /\ UNCHANGED <<deps, phase, source, flight>>
      /\ IF Touches(DepsOf(p), Changed) THEN WriteThen(p, v, Rest) ELSE Skip /\ UNCHANGED state
  BY DEF Derive, Dirty, DepsOf, Touches
<1>2. /\ Running /\ StackFits(frames) /\ RuntimeType
      /\ First = Work("derive", p) /\ p \in Derived /\ Rest \in Seq(WorkType)
  <2>1. Running /\ StackFits(frames) /\ WorkFits(First)
    BY <1>1, Working
  <2>2. First = Work("derive", p) /\ Rest \in Seq(WorkType)
    BY <1>1, TopWork DEF IInv
  <2> HIDE DEF p
  <2> QED
    BY <2>1, <2>2, WorkNames DEF WorkFits, IInv
<1>3. p \in Cell /\ v \in Value
  BY <1>2, CellKinds, ReadType DEF RuntimeType
<1> HIDE DEF p, v
<1>4. /\ state' \in [Cell -> Value] /\ StackFits(frames') /\ Keeps(Changed, First) /\ Changes(p, v)
      /\ phase = "starting" => Started(frames')
      /\ state' = [state EXCEPT ![p] = v] \/ ~Touches(DepsOf(p), Changed)
  <2>1. CASE Touches(DepsOf(p), Changed)
    <3>1. WriteThen(p, v, Rest)
      BY <1>1, <2>1
    <3> QED
      BY <1>1, <1>2, <1>3, <3>1, WriteThenGoes DEF Changes
  <2>2. CASE ~Touches(DepsOf(p), Changed)
    <3>1. state' = state
      BY <1>1, <2>2
    <3>2. StackFits(frames') /\ Keeps(Changed, First) /\ (phase = "starting" => Started(frames'))
      BY <1>1, <1>2, <2>2, SkipGoes
    <3> QED
      BY <1>2, <2>2, <3>1, <3>2 DEF Changes, RuntimeType
  <2> QED
    BY <2>1, <2>2
<1>5. IInv'
  BY <1>1, <1>2, <1>4, RunningStep DEF RuntimeType, IInv, PhaseSound
<1>6. ASSUME DerivedInv
      PROVE  DerivedInv'
  <2>1. p \in Derived => v = ReadAll(state, DepsOf(p))
    BY DEF v
  <2>2. \A q \in Derived : First = Work("derive", q) =>
            \/ p = q /\ state' = [state EXCEPT ![p] = v]
            \/ ~Touches(DepsOf(q), Changed)
    BY <1>2, <1>4, WorkNames
  <2> QED
    BY <1>1, <1>2, <1>4, <1>6, <2>1, <2>2, DerivedAfter
<1>7. ASSUME NoOwnReads, EmptiedFirst, SourceInv
      PROVE  SourceInv'
  <2>1. ASSUME phase = "mounted", NEW s \in Source, Config[s].auto
        PROVE  source'[s].timer \/ source'[s].deferred \/ FetchDue(frames', s) \/ Asked(s)'
    <3>1. p # Target(s)
      BY <1>2 DEF SeparateCells
    <3>2. First # Work("fetch", s) /\ First # Work("send", s) /\ First # Work("source", s)
      BY <1>2, WorkNames
    <3> QED
      BY <1>1, <1>2, <1>4, <1>7, <2>1, <3>1, <3>2, SourceAfter
  <2>2. CASE phase = "starting"
    <3>1. ~Quiet(First) /\ Carries(frames, Changed, First)
      BY <1>1, <1>2, TopWork, WorkNames DEF Quiet
    <3>2. NothingAsked
      BY <1>7, <2>2, <3>1 DEF SourceInv, AllQuiet
    <3>3. NothingAsked' /\ phase' = "starting"
      BY <1>1, <2>2, <3>2 DEF NothingAsked
    <3> QED
      BY <1>5, <3>3, StillUnasked
  <2>3. CASE phase = "mounted"
    BY <1>1, <2>1, <2>3, SourcesSettled
  <2> QED
    BY <1>2, <2>2, <2>3 DEF Running
<1> QED
  BY <1>5, <1>6, <1>7 DEF Safe

\* A step that changes no derived cell, and does not look at one.
LEMMA DerivedKept ==
    ASSUME IInv, DerivedInv, Running, UNCHANGED <<deps, phase>>,
           NEW c, NEW v, Changes(c, v), c \in Derived => state' = state,
           NEW path0, NEW w0, Keeps(path0, w0), w0.do # "derive"
    PROVE  DerivedInv'
<1>1. \A p \in Derived : w0 = Work("derive", p) =>
          \/ c = p /\ state' = [state EXCEPT ![c] = v]
          \/ ~Touches(DepsOf(p), path0)
  BY WorkNames
<1>2. CASE c \notin Derived
  BY <1>1, <1>2, DerivedAfter
<1>3. CASE state' = state
  <2> DEFINE x == ReadAll(state, DepsOf(c))
  <2>1. Changes(c, x) /\ (c \in Derived => x = ReadAll(state, DepsOf(c)))
    BY <1>3 DEF Changes
  <2> HIDE DEF x
  <2>2. \A p \in Derived : w0 = Work("derive", p) =>
            \/ c = p /\ state' = [state EXCEPT ![c] = x]
            \/ ~Touches(DepsOf(p), path0)
    BY WorkNames
  <2> QED
    BY <2>1, <2>2, DerivedAfter
<1> QED
  BY <1>2, <1>3

\* The first fetch of a source.
LEMMA MountSourceStep ==
    ASSUME IInv, MountSource
    PROVE  Safe
<1> DEFINE s == What
<1>1. /\ Doing("mount") /\ UNCHANGED <<deps, phase, state, source, flight>>
      /\ Replace(<<Work("fetch", s)>>) \/ Skip
  BY DEF MountSource
<1>2. /\ Running /\ StackFits(frames) /\ RuntimeType
      /\ First = Work("mount", s) /\ s \in Source
  <2>1. Running /\ StackFits(frames) /\ WorkFits(First)
    BY <1>1, Working
  <2>2. First = Work("mount", s)
    BY <1>1, TopWork DEF IInv
  <2> HIDE DEF s
  <2> QED
    BY <2>1, <2>2, WorkNames DEF WorkFits, IInv
<1> HIDE DEF s
<1>3. /\ StackFits(frames') /\ Keeps(Changed, First)
      /\ phase = "starting" => Started(frames')
      /\ \A path, w : Carries(frames', path, w) => Carries(frames, path, w) \/ w = Work("fetch", s)
  <2>1. Work("fetch", s) \in WorkType /\ Work("fetch", s).do # "evaluate" /\ WorkFits(Work("fetch", s))
    BY <1>2 DEF Work, WorkType, WorkFits
  <2>2. CASE Replace(<<Work("fetch", s)>>)
    <3> DEFINE w == Work("fetch", s)
    <3>1. /\ w \in WorkType /\ w.do # "evaluate" /\ WorkFits(w) /\ Replace(<<w>>)
          /\ w.do \in {"mount", "fetch", "send"}
      BY <2>1, <2>2, WorkNames
    <3> HIDE DEF w
    <3>2. /\ StackFits(frames') /\ Keeps(Changed, First)
          /\ phase = "starting" => Started(frames')
          /\ \A path, x : Carries(frames', path, x) => Carries(frames, path, x) \/ x = w
      BY <1>1, <1>2, <3>1, ReplaceGoes
    <3> QED
      BY <3>2 DEF w
  <2>3. CASE Skip
    BY <1>1, <1>2, <2>3, SkipGoes
  <2> QED
    BY <1>1, <2>2, <2>3
<1>4. IInv'
  BY <1>1, <1>2, <1>3, RunningStep DEF RuntimeType, IInv, PhaseSound
<1> DEFINE c == <<>>
           v == {}
<1>5. Changes(c, v) /\ state' = state
  BY <1>1 DEF Changes
<1> HIDE DEF c, v
<1>6. First.do # "derive"
  BY <1>2, WorkNames
<1>7. ASSUME DerivedInv
      PROVE  DerivedInv'
  BY <1>1, <1>2, <1>3, <1>5, <1>6, <1>7, DerivedKept
<1>8. ASSUME NoOwnReads, EmptiedFirst, SourceInv
      PROVE  SourceInv'
  <2>1. ASSUME phase = "mounted", NEW r \in Source, Config[r].auto
        PROVE  source'[r].timer \/ source'[r].deferred \/ FetchDue(frames', r) \/ Asked(r)'
    <3>1. First # Work("fetch", r) /\ First # Work("send", r) /\ First # Work("source", r)
      BY <1>2, WorkNames
    <3> QED
      BY <1>1, <1>2, <1>3, <1>5, <1>8, <2>1, <3>1, SourceAfter
  <2>2. CASE phase = "starting" /\ NothingAsked
    <3>1. NothingAsked' /\ phase' = "starting"
      BY <1>1, <2>2 DEF NothingAsked
    <3> QED
      BY <1>4, <3>1, StillUnasked
  <2>3. CASE phase = "starting" /\ AllQuiet(frames)
    <3>1. Quiet(First)
      BY <1>1, <1>2, <2>3, TopWork DEF AllQuiet
    <3>2. Quiet(Work("fetch", s))
      BY <1>2, <3>1, WorkNames DEF Quiet
    <3>3. AllQuiet(frames')
      BY <1>3, <2>3, <3>2 DEF AllQuiet
    <3> QED
      BY <1>1, <1>8, <2>3, <3>3, StillQuiet DEF SourceInv, IInv, PhaseSound
  <2>4. CASE phase = "mounted"
    BY <1>1, <2>1, <2>4, SourcesSettled
  <2> QED
    BY <1>2, <1>8, <2>2, <2>3, <2>4 DEF Running, SourceInv
<1> QED
  BY <1>4, <1>7, <1>8 DEF Safe

\* One source looks at a change.
LEMMA LookStep ==
    ASSUME IInv, Look
    PROVE  Safe
<1> DEFINE s == What
           due == /\ Config[s].auto /\ ~IsPrefix(Target(s), Changed) /\ Touches(Reads(s), Changed)
<1>1. /\ Doing("source") /\ UNCHANGED <<deps, phase, state, flight>>
      /\ \/ due /\ Skip /\ source' = [source EXCEPT ![s].timer = TRUE]
         \/ due /\ Replace(<<Work("fetch", s)>>) /\ source' = source
         \/ ~due /\ Skip /\ source' = source
  BY DEF Look, Dirty, Touches, Reads, Target
<1>2. /\ phase = "mounted" /\ StackFits(frames) /\ RuntimeType
      /\ First = Work("source", s) /\ s \in Source
  <2>1. phase = "mounted" /\ StackFits(frames) /\ WorkFits(First)
    BY <1>1, Working DEF Running
  <2>2. First = Work("source", s)
    BY <1>1, TopWork DEF IInv
  <2> HIDE DEF s, due
  <2> QED
    BY <2>1, <2>2, WorkNames DEF WorkFits, IInv
<1>d. due => ~IsPrefix(Target(s), Changed) /\ Touches(Reads(s), Changed)
  OBVIOUS
<1>e. ~due /\ Config[s].auto => IsPrefix(Target(s), Changed) \/ ~Touches(Reads(s), Changed)
  OBVIOUS
<1> HIDE DEF s, due
<1>r. Running
  BY <1>2 DEF Running
<1>3. StackFits(frames') /\ Keeps(Changed, First)
  <2> DEFINE w == Work("fetch", s)
  <2>1. w \in WorkType /\ w.do # "evaluate" /\ WorkFits(w)
    BY <1>2 DEF Work, WorkType, WorkFits
  <2>2. CASE Replace(<<w>>)
    <3> HIDE DEF w
    <3> QED
      BY <1>1, <1>2, <1>r, <2>1, <2>2, ReplaceGoes
  <2>3. CASE Skip
    BY <1>1, <1>2, <1>r, <2>3, SkipGoes
  <2> QED
    BY <1>1, <2>2, <2>3
<1>4. /\ source' \in [Source -> SourceType]
      /\ \A r \in Source : r # s => source'[r] = source[r]
      /\ source'[s].deferred = source[s].deferred /\ source'[s].current = source[s].current
      /\ source'[s].failed = source[s].failed /\ (source[s].timer => source'[s].timer)
  <2>1. source \in [Source -> SourceType]
    BY <1>2 DEF RuntimeType
  <2>2. CASE source' = source
    BY <2>1, <2>2
  <2>3. CASE source' = [source EXCEPT ![s].timer = TRUE]
    BY <1>2, <2>1, <2>3 DEF SourceType
  <2> QED
    BY <1>1, <2>2, <2>3
<1>5. IInv'
  BY <1>1, <1>2, <1>r, <1>3, <1>4, RunningStep DEF RuntimeType
<1> DEFINE c == <<>>
           v == {}
<1>6. Changes(c, v) /\ state' = state /\ UNCHANGED <<deps, phase>>
  BY <1>1 DEF Changes
<1> HIDE DEF c, v
<1>7. First.do # "derive"
  BY <1>2, WorkNames
<1>8. ASSUME DerivedInv
      PROVE  DerivedInv'
  BY <1>2, <1>r, <1>3, <1>6, <1>7, <1>8, DerivedKept
<1>9. ASSUME NoOwnReads, EmptiedFirst, SourceInv
      PROVE  SourceInv'
  <2>1. ASSUME NEW r \in Source, Config[r].auto,
               r = s => IsPrefix(Target(s), Changed) \/ ~Touches(Reads(s), Changed)
        PROVE  source'[r].timer \/ source'[r].deferred \/ FetchDue(frames', r) \/ Asked(r)'
    <3>1. First # Work("fetch", r) /\ First # Work("send", r)
      BY <1>2, WorkNames
    <3>2. First = Work("source", r) => IsPrefix(Target(r), Changed) \/ ~Touches(Reads(r), Changed)
      BY <1>2, <2>1, WorkNames
    <3>3. /\ source[r].timer => source'[r].timer
          /\ source[r].deferred => source'[r].deferred
          /\ source'[r].current /\ ~source'[r].failed => source[r].current /\ ~source[r].failed
      <4>1. CASE r = s
        BY <1>4, <4>1
      <4>2. CASE r # s
        BY <1>4, <4>2
      <4> QED
        BY <4>1, <4>2
    <3>4. \A f \in flight' : f.of = r /\ f.newest => f \in flight
      BY <1>1
    <3> QED
      BY <1>2, <1>3, <1>6, <1>9, <2>1, <3>1, <3>2, <3>3, <3>4, SourceAfter
  <2>2. ASSUME NEW r \in Source, Config[r].auto
        PROVE  source'[r].timer \/ source'[r].deferred \/ FetchDue(frames', r) \/ Asked(r)'
    <3>1. CASE r # s
      BY <2>1, <2>2, <3>1
    <3>2. CASE r = s /\ ~due
      BY <1>e, <2>1, <2>2, <3>2
    <3>3. CASE r = s /\ due /\ source' = [source EXCEPT ![s].timer = TRUE]
      <4>1. source \in [Source -> SourceType]
        BY <1>2 DEF RuntimeType
      <4>2. source'[s].timer
        BY <1>2, <3>3, <4>1 DEF SourceType
      <4> QED
        BY <3>3, <4>2
    <3>4. CASE r = s /\ due /\ Replace(<<Work("fetch", s)>>)
      <4> DEFINE w == Work("fetch", s)
      <4>1. w \in WorkType /\ w.do # "evaluate" /\ WorkFits(w)
        BY <1>2 DEF Work, WorkType, WorkFits
      <4>2. Carries(frames', Changed, w)
        <5>1. Replace(<<w>>)
          BY <3>4
        <5> HIDE DEF w
        <5> QED
          BY <1>1, <1>2, <1>r, <4>1, <5>1, ReplaceGoes
      <4> QED
        BY <3>4, <4>2 DEF FetchDue
    <3> QED
      BY <1>1, <3>1, <3>2, <3>3, <3>4
  <2> QED
    BY <1>2, <1>6, <2>2, SourcesSettled
<1> QED
  BY <1>5, <1>8, <1>9 DEF Safe

\* The flags of one source are set.
LEMMA SourceSet ==
    ASSUME source \in [Source -> SourceType], NEW s \in Source, NEW x \in SourceType,
           NEW now, now = [source EXCEPT ![s] = x]
    PROVE  /\ now \in [Source -> SourceType] /\ now[s] = x
           /\ \A r \in Source : r # s => now[r] = source[r]
OBVIOUS

\* A fetch starts: it is put off for an incomplete url, or goes on to send.
LEMMA FetchStep ==
    ASSUME IInv, SeparateCells, Fetch
    PROVE  Safe
<1> DEFINE s == What
           w == Work("send", s)
           waits == [source EXCEPT ![s].deferred = TRUE, ![s].loading = FALSE]
           loads == [source EXCEPT ![s].deferred = FALSE, ![s].loading = TRUE,
                                   ![s].failed = FALSE]
<1>1. /\ Doing("fetch") /\ UNCHANGED <<deps, phase, flight>>
      /\ \/ source' = waits /\ Skip /\ state' = state
         \/ source' = loads /\ Replace(<<w>>) /\ state' = state
         \/ /\ Config[s].emptied
            /\ source' = loads /\ WriteThen(Target(s), Undefined, <<w>> \o Rest)
  BY DEF Fetch
<1>2. /\ Running /\ StackFits(frames) /\ RuntimeType
      /\ First = Work("fetch", s) /\ s \in Source
  <2>1. Running /\ StackFits(frames) /\ WorkFits(First)
    BY <1>1, Working
  <2>2. First = Work("fetch", s)
    BY <1>1, TopWork DEF IInv
  <2> HIDE DEF s
  <2> QED
    BY <2>1, <2>2, WorkNames DEF WorkFits, IInv
<1> HIDE DEF s
<1>3. w \in WorkType /\ w.do # "evaluate" /\ WorkFits(w) /\ w.do \in {"mount", "fetch", "send"}
  BY <1>2 DEF Work, WorkType, WorkFits
<1>4. /\ source' = waits \/ source' = loads
      /\ source' \in [Source -> SourceType]
      /\ \A r \in Source : r # s => source'[r] = source[r]
      /\ source' = waits => source'[s].deferred
      /\ source'[s].current = source[s].current /\ source'[s].timer = source[s].timer
  <2>1. source \in [Source -> SourceType]
    BY <1>2 DEF RuntimeType
  <2>2. CASE source' = waits
    <3> DEFINE x == [source[s] EXCEPT !.deferred = TRUE, !.loading = FALSE]
    <3>1. source' = [source EXCEPT ![s] = x]
      BY <1>2, <2>1, <2>2
    <3>2. x \in SourceType /\ x.deferred
          /\ x.current = source[s].current /\ x.timer = source[s].timer
      BY <1>2, <2>1 DEF SourceType
    <3> HIDE DEF x
    <3> QED
      BY <1>2, <2>1, <3>1, <3>2, SourceSet, <2>2
  <2>3. CASE source' = loads
    <3> DEFINE x == [source[s] EXCEPT !.deferred = FALSE, !.loading = TRUE, !.failed = FALSE]
    <3>1. source' = [source EXCEPT ![s] = x]
      BY <1>2, <2>1, <2>3
    <3>2. x \in SourceType /\ x.current = source[s].current /\ x.timer = source[s].timer
      BY <1>2, <2>1 DEF SourceType
    <3>3. source' = waits => source'[s].deferred
      BY <1>2, <2>1 DEF SourceType
    <3> HIDE DEF x, waits, loads
    <3> QED
      BY <1>2, <2>1, <2>3, <3>1, <3>2, <3>3, SourceSet
  <2> QED
    BY <1>1, <2>2, <2>3
<1> DEFINE c == Target(s)
           v == Undefined
<1>5. c \in Cell /\ v \in Value /\ c \notin Derived
  BY <1>2, CellKinds DEF SeparateCells, Undefined, Value
<1> HIDE DEF w, c, v, waits, loads
<1>6. /\ state' \in [Cell -> Value] /\ StackFits(frames') /\ Keeps(Changed, First) /\ Changes(c, v)
      /\ source' = waits \/ Carries(frames', Changed, w)
      /\ phase = "starting" => Started(frames')
      /\ Config[s].emptied \/ /\ state' = state
                              /\ \A path, x : Carries(frames', path, x) =>
                                    Carries(frames, path, x) \/ x = w
  <2>1. CASE source' = waits /\ Skip /\ state' = state
    <3>1. /\ StackFits(frames') /\ Keeps(Changed, First) /\ (phase = "starting" => Started(frames'))
          /\ \A path, x : Carries(frames', path, x) => Carries(frames, path, x)
      BY <1>1, <1>2, <2>1, SkipGoes
    <3> QED
      BY <1>2, <2>1, <3>1 DEF Changes, RuntimeType
  <2>2. CASE source' = loads /\ Replace(<<w>>) /\ state' = state
    <3>1. /\ StackFits(frames') /\ Keeps(Changed, First) /\ Carries(frames', Changed, w)
          /\ phase = "starting" => Started(frames')
          /\ \A path, x : Carries(frames', path, x) => Carries(frames, path, x) \/ x = w
      BY <1>1, <1>2, <1>3, <2>2, ReplaceGoes
    <3> QED
      BY <1>2, <2>2, <3>1 DEF Changes, RuntimeType
  <2>3. CASE /\ Config[s].emptied
             /\ source' = loads /\ WriteThen(Target(s), Undefined, <<w>> \o Rest)
    <3>1. WriteThen(c, v, <<w>> \o Rest)
      BY <2>3 DEF c, v
    <3> QED
      BY <1>1, <1>2, <1>3, <1>5, <2>3, <3>1, WriteThenMore DEF Changes
  <2> QED
    BY <1>1, <2>1, <2>2, <2>3
<1>7. IInv'
  <2>1. phase = "starting" => \A r \in Source : ~source'[r].current /\ ~source'[r].timer
    <3>1. ASSUME phase = "starting", NEW r \in Source
          PROVE  ~source'[r].current /\ ~source'[r].timer
      <4>1. ~source[r].current /\ ~source[r].timer
        BY <3>1 DEF IInv, PhaseSound
      <4>2. source'[r].current = source[r].current /\ source'[r].timer = source[r].timer
        <5>1. CASE r = s
          BY <1>4, <5>1
        <5>2. CASE r # s
          BY <1>4, <5>2
        <5> QED
          BY <5>1, <5>2
      <4> QED
        BY <4>1, <4>2
    <3> QED
      BY <3>1
  <2> QED
    BY <1>1, <1>2, <1>4, <1>6, <2>1, RunningStep DEF RuntimeType
<1>8. First.do # "derive"
  BY <1>2, WorkNames
<1>9. ASSUME DerivedInv
      PROVE  DerivedInv'
  BY <1>1, <1>2, <1>5, <1>6, <1>8, <1>9, DerivedKept
<1>10. ASSUME NoOwnReads, EmptiedFirst, SourceInv
       PROVE  SourceInv'
  <2>1. ASSUME phase = "mounted", NEW r \in Source, Config[r].auto, r # s
        PROVE  source'[r].timer \/ source'[r].deferred \/ FetchDue(frames', r) \/ Asked(r)'
    <3>1. First # Work("fetch", r) /\ First # Work("send", r) /\ First # Work("source", r)
      BY <1>2, <2>1, WorkNames
    <3>2. c # Target(r)
      BY <1>2, <2>1 DEF SeparateCells, c
    <3>3. /\ source[r].timer => source'[r].timer
          /\ source[r].deferred => source'[r].deferred
          /\ source'[r].current /\ ~source'[r].failed => source[r].current /\ ~source[r].failed
      BY <1>4, <2>1
    <3>4. \A f \in flight' : f.of = r /\ f.newest => f \in flight
      BY <1>1
    <3> QED
      BY <1>2, <1>6, <1>10, <2>1, <3>1, <3>2, <3>3, <3>4, SourceAfter
  <2>2. source'[s].deferred \/ FetchDue(frames', s)
    BY <1>4, <1>6 DEF FetchDue, w
  <2>3. ASSUME phase = "mounted"
        PROVE  \A r \in Source : Config[r].auto =>
                   source'[r].timer \/ source'[r].deferred \/ FetchDue(frames', r) \/ Asked(r)'
    <3> TAKE r \in Source
    <3>1. CASE r = s
      BY <2>2, <3>1
    <3>2. CASE r # s
      BY <2>1, <2>3, <3>2
    <3> QED
      BY <3>1, <3>2
  <2>4. CASE phase = "starting" /\ NothingAsked
    <3>1. NothingAsked' /\ phase' = "starting"
      BY <1>1, <2>4 DEF NothingAsked
    <3> QED
      BY <1>7, <3>1, StillUnasked
  <2>5. CASE phase = "starting" /\ AllQuiet(frames)
    <3>1. Quiet(First)
      BY <1>1, <1>2, <2>5, TopWork DEF AllQuiet
    <3>2. Quiet(w) /\ ~Config[s].emptied
      BY <1>2, <3>1, WorkNames DEF Quiet, w
    <3>3. AllQuiet(frames') /\ state' = state
      BY <1>6, <2>5, <3>2 DEF AllQuiet
    <3>4. \A r \in Source : ~source'[r].current
      BY <1>1, <1>7, <2>5 DEF IInv, PhaseSound
    <3> QED
      BY <1>1, <1>10, <2>5, <3>3, <3>4, StillQuiet DEF SourceInv
  <2>6. CASE phase = "mounted"
    BY <1>1, <2>3, <2>6, SourcesSettled
  <2> QED
    BY <1>2, <1>10, <2>4, <2>5, <2>6 DEF Running, SourceInv
<1> QED
  BY <1>7, <1>9, <1>10 DEF Safe

\* A request is sent, with what the source reads now.
LEMMA SendStep ==
    ASSUME IInv, Send
    PROVE  Safe
<1> DEFINE s == What
           new == [of |-> s, newest |-> TRUE, asked |-> Now(s)]
           older(f) == IF f.of = s THEN [f EXCEPT !.newest = FALSE] ELSE f
<1>1. /\ Doing("send") /\ UNCHANGED <<deps, phase, state>> /\ Skip
      /\ source' = [source EXCEPT ![s].current = FALSE]
      /\ flight' = {older(f) : f \in flight} \cup {new}
  BY DEF Send, Now, Reads
<1>2. /\ Running /\ StackFits(frames) /\ RuntimeType
      /\ First = Work("send", s) /\ s \in Source
  <2>1. Running /\ StackFits(frames) /\ WorkFits(First)
    BY <1>1, Working
  <2>2. First = Work("send", s)
    BY <1>1, TopWork DEF IInv
  <2> HIDE DEF s
  <2> QED
    BY <2>1, <2>2, WorkNames DEF WorkFits, IInv
<1> HIDE DEF s
<1>3. StackFits(frames') /\ Keeps(Changed, First) /\ (phase = "starting" => Started(frames'))
  BY <1>1, <1>2, SkipGoes
<1>q. EmptiedFirst /\ phase = "starting" => AllQuiet(frames')
  <2>1. ASSUME EmptiedFirst, phase = "starting"
        PROVE  AllQuiet(On(Rest))
    <3>1. Tail(frames) = <<>> /\ \A w : Has(Rest, w) => Quiet(w)
      BY <1>1, <2>1, StartedTop
    <3>2. Rest \in Seq(WorkType) /\ Changed \in Cell \cup {<<>>}
      BY <1>1, <1>2, TopWork
    <3> DEFINE f == Frame(Changed, Rest)
               e == Tail(frames)
    <3>3. f \in FrameType /\ f.work = Rest
      BY <3>2 DEF Frame, FrameType
    <3>4. e = <<>> /\ e \in Seq(FrameType)
      BY <1>1, <1>2, <3>1, TopWork
    <3> HIDE DEF f, e
    <3>5. \A path, w : Carries(<<f>> \o e, path, w) => Has(f.work, w)
      BY <3>3, <3>4, OnTop, NoneCarried
    <3>6. On(Rest) = <<f>> \o e
      BY DEF On, f, e
    <3> QED
      BY <3>1, <3>3, <3>5, <3>6 DEF AllQuiet
  <2> QED
    BY <1>1, <2>1 DEF Skip, On
<1>4. /\ source' \in [Source -> SourceType] /\ ~source'[s].current
      /\ source'[s].timer = source[s].timer
      /\ \A r \in Source : r # s => source'[r] = source[r]
  <2>1. source \in [Source -> SourceType]
    BY <1>2 DEF RuntimeType
  <2> QED
    BY <1>1, <1>2, <2>1 DEF SourceType
<1>5. new \in Request /\ flight \subseteq Request
  <2>1. Now(s) \in Value
    BY <1>2, ReadType DEF RuntimeType, Now
  <2> QED
    BY <1>2, <2>1 DEF RuntimeType, Request
<1>6. \A f \in flight : older(f) \in Request /\ (f.of = s => ~older(f).newest /\ older(f).of = s)
                        /\ (f.of # s => older(f) = f)
  BY <1>5 DEF Request
<1>7. /\ flight' \subseteq Request
      /\ \A f \in flight' : f.of = s /\ f.newest => f.asked = Now(s)
      /\ \A f \in flight' : f.of # s => f \in flight
  <2>1. new.of = s /\ new.asked = Now(s)
    OBVIOUS
  <2> HIDE DEF new, older
  <2>2. ASSUME NEW f \in flight'
        PROVE  /\ f \in Request /\ (f.of = s /\ f.newest => f.asked = Now(s))
               /\ (f.of # s => f \in flight)
    <3>1. CASE f = new
      BY <1>5, <2>1, <3>1
    <3>2. CASE \E g \in flight : f = older(g)
      <4>1. PICK g \in flight : f = older(g)
        BY <3>2
      <4> QED
        BY <1>5, <1>6, <4>1 DEF Request
    <3> QED
      BY <1>1, <3>1, <3>2
  <2> QED
    BY <2>2
<1> HIDE DEF new, older
<1>8. IInv'
  <2>1. phase = "starting" => \A r \in Source : ~source'[r].current /\ ~source'[r].timer
    BY <1>4 DEF IInv, PhaseSound
  <2> QED
    BY <1>1, <1>2, <1>3, <1>4, <1>7, <2>1, RunningStep DEF RuntimeType
<1> DEFINE c == <<>>
           v == {}
<1>9. Changes(c, v) /\ state' = state /\ UNCHANGED <<deps, phase>>
  BY <1>1 DEF Changes
<1> HIDE DEF c, v
<1>10. First.do # "derive"
  BY <1>2, WorkNames
<1>11. ASSUME DerivedInv
       PROVE  DerivedInv'
  BY <1>2, <1>3, <1>9, <1>10, <1>11, DerivedKept
<1>12. ASSUME NoOwnReads, EmptiedFirst, SourceInv
       PROVE  SourceInv'
  <2>1. ASSUME phase = "mounted", NEW r \in Source, Config[r].auto, r # s
        PROVE  source'[r].timer \/ source'[r].deferred \/ FetchDue(frames', r) \/ Asked(r)'
    <3>1. First # Work("fetch", r) /\ First # Work("send", r) /\ First # Work("source", r)
      BY <1>2, <2>1, WorkNames
    <3>2. /\ source[r].timer => source'[r].timer
          /\ source[r].deferred => source'[r].deferred
          /\ source'[r].current /\ ~source'[r].failed => source[r].current /\ ~source[r].failed
      BY <1>4, <2>1
    <3>3. \A f \in flight' : f.of = r /\ f.newest => f \in flight
      BY <1>7, <2>1
    <3> QED
      BY <1>2, <1>3, <1>9, <1>12, <2>1, <3>1, <3>2, <3>3, SourceAfter
  <2>2. ASSUME NEW r \in Source, r = s
        PROVE  Asked(r)'
    <3>1. Now(r)' = Now(r)
      BY <1>1 DEF Now
    <3> QED
      BY <1>4, <1>7, <2>2, <3>1 DEF Asked
  <2>3. ASSUME phase = "mounted"
        PROVE  \A r \in Source : Config[r].auto =>
                   source'[r].timer \/ source'[r].deferred \/ FetchDue(frames', r) \/ Asked(r)'
    <3> TAKE r \in Source
    <3>1. CASE r = s
      BY <2>2, <3>1
    <3>2. CASE r # s
      BY <2>1, <2>3, <3>2
    <3> QED
      BY <3>1, <3>2
  <2>4. CASE phase = "starting"
    <3>1. ASSUME NEW r \in Source
          PROVE  Asked(r)'
      <4>1. CASE r = s
        BY <2>2, <4>1
      <4>2. CASE r # s
        <5>1. Asked(r) /\ Now(r)' = Now(r) /\ ~source'[r].current
          BY <1>1, <1>8, <1>12, <2>4 DEF SourceInv, Now, IInv, PhaseSound
        <5>2. \A f \in flight' : f.of = r => f \in flight
          BY <1>7, <4>2
        <5> QED
          BY <5>1, <5>2 DEF Asked
      <4> QED
        BY <4>1, <4>2
    <3> QED
      BY <1>1, <1>q, <1>12, <2>4, <3>1 DEF SourceInv, AllQuiet, Carries
  <2>5. CASE phase = "mounted"
    BY <1>1, <2>3, <2>5, SourcesSettled
  <2> QED
    BY <1>2, <2>4, <2>5 DEF Running
<1> QED
  BY <1>8, <1>11, <1>12 DEF Safe

\* A step while nothing is mounted.
LEMMA RestingStep ==
    ASSUME IInv, phase' \in {"new", "failed", "gone"}, deps' = deps, state' \in [Cell -> Value],
           frames' \in Seq(FrameType), \A path, w : ~Carries(frames', path, w),
           source' \in [Source -> SourceType], \A s \in Source : ~source'[s].timer,
           flight' \subseteq Request,
           phase' # "gone" => NothingAsked' /\ \A s \in Source : ~source'[s].current
    PROVE  Safe
<1>1. RuntimeType'
  BY DEF IInv, RuntimeType
<1>2. PhaseSound'
  BY DEF PhaseSound, Running, Carries, Has
<1>3. DerivedInv' /\ SourceInv'
  BY DEF DerivedInv, SourceInv, Running
<1> QED
  BY <1>1, <1>2, <1>3 DEF Safe, IInv

\* A frame without work left is taken off.
LEMMA ReturnStep ==
    ASSUME IInv, Return
    PROVE  Safe
<1>1. /\ frames # <<>> /\ Head(frames).work = <<>> /\ frames' = Tail(frames)
      /\ UNCHANGED <<deps, state, source, flight>>
      /\ phase' = IF phase = "starting" /\ frames' = <<>> THEN "mounted" ELSE phase
  BY DEF Return, Idle
<1>2. /\ frames' \in Seq(FrameType)
      /\ \A path, w : Carries(frames, path, w) <=> Carries(frames', path, w)
  <2>1. /\ Tail(frames) \in Seq(FrameType)
        /\ \A path, w : Carries(frames, path, w) <=>
              (Head(frames).path = path /\ Has(Head(frames).work, w)) \/ Carries(Tail(frames), path, w)
    BY <1>1, TopOf DEF IInv, RuntimeType
  <2> QED
    BY <1>1, <2>1, HasNone
<1>3. CASE phase \in {"new", "failed", "gone"}
  <2>1. \A path, w : ~Carries(frames', path, w)
    BY <1>2, <1>3 DEF IInv, PhaseSound, Running
  <2>2. phase' = phase /\ NothingAsked' = NothingAsked
    BY <1>1, <1>3 DEF NothingAsked
  <2>3. /\ phase' # "gone" => NothingAsked' /\ \A s \in Source : ~source'[s].current
        /\ \A s \in Source : ~source'[s].timer
    BY <1>1, <1>3, <2>2 DEF IInv, PhaseSound
  <2> QED
    BY <1>1, <1>2, <1>3, <2>1, <2>2, <2>3, RestingStep DEF IInv, RuntimeType
<1>4. CASE phase = "mounting"
  <2>1. PICK n \in Nat : frames = <<Frame(<<>>, <<Work("evaluate", n)>>)>>
    BY <1>4 DEF IInv, PhaseSound
  <2>2. Head(frames).work = <<Work("evaluate", n)>>
    BY <2>1 DEF Frame
  <2>3. \A x : <<x>> # <<>>
    OBVIOUS
  <2> QED
    BY <1>1, <2>2, <2>3
<1> DEFINE w0 == Work("evaluate", 0)
           path0 == <<>>
           c == <<>>
           v == {}
<1>5. ASSUME Running
      PROVE  StackFits(frames') /\ Keeps(path0, w0)
  <2>1. StackFits(frames)
    BY <1>5 DEF IInv, PhaseSound
  <2> QED
    BY <1>2, <2>1 DEF StackFits, Keeps
<1>6. w0.do # "derive" /\ \A r : w0 # Work("fetch", r) /\ w0 # Work("send", r) /\ w0 # Work("source", r)
  BY WorkNames
<1>7. Changes(c, v) /\ state' = state /\ deps' = deps
  BY <1>1 DEF Changes
<1> HIDE DEF w0, path0, c, v
<1>8. CASE phase = "mounted"
  <2>1. Running /\ phase' = phase
    BY <1>1, <1>8 DEF Running
  <2>2. IInv'
    BY <1>1, <1>5, <1>8, <2>1, RunningStep DEF IInv, RuntimeType
  <2>3. ASSUME DerivedInv
        PROVE  DerivedInv'
    BY <1>5, <1>6, <1>7, <2>1, <2>3, DerivedKept
  <2>4. ASSUME NoOwnReads, EmptiedFirst, SourceInv
        PROVE  SourceInv'
    <3>1. ASSUME NEW r \in Source, Config[r].auto
          PROVE  source'[r].timer \/ source'[r].deferred \/ FetchDue(frames', r) \/ Asked(r)'
      BY <1>1, <1>5, <1>6, <1>7, <1>8, <2>1, <2>4, <3>1, SourceAfter
    <3> QED
      BY <1>8, <2>1, <3>1, SourcesSettled
  <2> QED
    BY <2>2, <2>3, <2>4 DEF Safe
<1>9. CASE phase = "starting" /\ frames' # <<>>
  <2>1. Running /\ phase' = phase
    BY <1>1, <1>9 DEF Running
  <2>2. Started(frames')
    <3> DEFINE f == Head(frames)
               rest == Tail(frames)
    <3>1. f \in FrameType /\ rest \in Seq(FrameType) /\ frames = <<f>> \o rest /\ rest = frames'
      BY <1>1, <1>2 DEF IInv, RuntimeType
    <3>2. Started(frames)
      BY <1>9 DEF IInv, PhaseSound
    <3> HIDE DEF f, rest
    <3>3. Started(rest)
      BY <1>9, <3>1, <3>2, StartedSplit
    <3> QED
      BY <3>1, <3>3
  <2>3. IInv'
    <3>1. \A s \in Source : ~source'[s].current /\ ~source'[s].timer
      BY <1>1, <1>9 DEF IInv, PhaseSound
    <3> QED
      BY <1>1, <1>5, <2>1, <2>2, <3>1, RunningStep DEF IInv, RuntimeType
  <2>4. ASSUME DerivedInv
        PROVE  DerivedInv'
    BY <1>5, <1>6, <1>7, <2>1, <2>4, DerivedKept
  <2>5. ASSUME SourceInv
        PROVE  SourceInv'
    <3>1. CASE NothingAsked
      <4>1. NothingAsked' /\ phase' = "starting"
        BY <1>1, <1>9, <3>1 DEF NothingAsked
      <4> QED
        BY <2>3, <4>1, StillUnasked
    <3>2. CASE AllQuiet(frames)
      <4>1. AllQuiet(frames')
        BY <1>2, <3>2 DEF AllQuiet
      <4>2. phase' = "starting" /\ \A s \in Source : Asked(s) /\ ~source'[s].current
        BY <1>1, <1>9, <2>5 DEF SourceInv, IInv, PhaseSound
      <4> QED
        BY <1>1, <4>1, <4>2, StillQuiet
    <3> QED
      BY <1>9, <2>5, <3>1, <3>2 DEF SourceInv
  <2> QED
    BY <2>3, <2>4, <2>5 DEF Safe
<1>10. CASE phase = "starting" /\ frames' = <<>>
  <2>1. Running /\ phase' = "mounted"
    BY <1>1, <1>10 DEF Running
  <2>2. IInv'
    <3>1. RuntimeType'
      BY <1>1, <1>2, <2>1 DEF IInv, RuntimeType
    <3>2. StackFits(frames)' /\ ~Sort(Derives, deps').cyclic
      BY <1>1, <1>5, <2>1 DEF StackFits, IInv, PhaseSound
    <3>3. PhaseSound'
      BY <2>1, <3>2 DEF PhaseSound, Running
    <3> QED
      BY <3>1, <3>3 DEF IInv
  <2>3. ASSUME DerivedInv
        PROVE  DerivedInv'
    <3>1. ASSUME NEW p \in Derived
          PROVE  (Holds(p) \/ DeriveDue(frames, p))'
      <4>1. Holds(p) \/ DeriveDue(frames, p)
        BY <2>1, <2>3 DEF DerivedInv
      <4>2. CASE Holds(p)
        BY <1>1, <4>2 DEF Holds, DepsOf
      <4>3. CASE DeriveDue(frames, p)
        BY <1>1, <1>2, <4>3 DEF DeriveDue, DepsOf
      <4> QED
        BY <4>1, <4>2, <4>3
    <3> QED
      BY <2>1, <3>1 DEF DerivedInv
  <2>4. ASSUME SourceInv
        PROVE  SourceInv'
    <3>1. \A s \in Source : Asked(s)'
      BY <1>1, <1>10, <2>4 DEF SourceInv, Asked, Now
    <3> QED
      BY <2>1, <3>1, SourcesSettled
  <2> QED
    BY <2>2, <2>3, <2>4 DEF Safe
<1> QED
  BY <1>3, <1>4, <1>8, <1>9, <1>10 DEF IInv, RuntimeType

\* The runtime is at rest between two events.
LEMMA AtRest ==
    ASSUME IInv, Idle
    PROVE  /\ frames = <<>> /\ phase \in {"new", "mounted", "failed", "gone"}
           /\ \A path0, w0 : Keeps(path0, w0)
           /\ \A s : ~FetchDue(frames, s)
           /\ phase # "mounted" => \A s \in Source : ~source[s].timer
<1>1. frames = <<>> /\ \A path, w : ~Carries(frames, path, w)
  BY NoneCarried DEF Idle
<1>2. \A x : <<x>> # <<>>
  OBVIOUS
<1>3. phase # "mounting" /\ phase # "starting"
  BY <1>1, <1>2 DEF IInv, PhaseSound, Started
<1> QED
  BY <1>1, <1>3 DEF IInv, RuntimeType, PhaseSound, Keeps, FetchDue

\* A cell is written by an event, in a screen that is mounted or not.
LEMMA EventWrites ==
    ASSUME IInv, Idle, NEW c \in Cell, c \notin Derived, NEW v \in Value, Write(c, v),
           UNCHANGED <<deps, phase>>, source' \in [Source -> SourceType],
           \A s \in Source : source'[s].timer = source[s].timer,
           flight' \subseteq flight,
           phase \in {"new", "failed"} => \A s \in Source : ~source'[s].current,
           NoOwnReads /\ SourceInv /\ phase = "mounted" =>
               \A s \in Source : Config[s].auto =>
                   source'[s].timer \/ source'[s].deferred \/ FetchDue(frames', s) \/ Asked(s)'
    PROVE  Safe
<1>1. /\ state' \in [Cell -> Value] /\ StackFits(frames')
      /\ phase = "mounted" => Changes(c, v)
      /\ phase # "mounted" => \A x, w : ~Carries(frames', x, w)
      /\ frames = <<>>
  <2>1. frames = <<>> /\ (phase # "mounted" => ~Running)
    BY AtRest DEF Running
  <2> QED
    BY <2>1, WriteCalls DEF Changes
<1>2. CASE phase = "mounted"
  <2>r. Running
    BY <1>2 DEF Running
  <2>1. IInv'
    BY <1>1, <1>2, <2>r, RunningStep DEF IInv, RuntimeType
  <2> DEFINE w0 == Work("evaluate", 0)
             path0 == <<>>
  <2>2. w0.do # "derive" /\ Keeps(path0, w0)
    BY WorkNames, AtRest
  <2> HIDE DEF w0, path0
  <2>3. ASSUME DerivedInv
        PROVE  DerivedInv'
    BY <1>1, <1>2, <2>r, <2>2, <2>3, DerivedKept
  <2>4. NoOwnReads /\ SourceInv => SourceInv'
    BY <1>2, SourcesSettled
  <2> QED
    BY <2>1, <2>3, <2>4 DEF Safe
<1>3. CASE phase # "mounted"
  <2>1. phase \in {"new", "failed", "gone"}
    BY <1>3, AtRest
  <2>2. frames' \in Seq(FrameType) /\ \A path, w : ~Carries(frames', path, w)
    BY <1>1, <1>3 DEF StackFits
  <2>3. \A s \in Source : ~source'[s].timer
    BY <1>3, AtRest
  <2>4. phase' # "gone" => NothingAsked' /\ \A s \in Source : ~source'[s].current
    BY <2>1 DEF IInv, PhaseSound, NothingAsked
  <2> QED
    BY <1>1, <2>1, <2>2, <2>3, <2>4, RestingStep DEF IInv, RuntimeType
<1> QED
  BY <1>2, <1>3

LEMMA WriteInputStep ==
    ASSUME IInv, SeparateCells, WriteInput
    PROVE  Safe
<1>1. Idle /\ UNCHANGED <<deps, phase, source, flight>>
  BY DEF WriteInput
<1>i. PICK c \in Input : \E v \in ValueOf(c) : Write(c, v)
  BY DEF WriteInput
<1>2. PICK v \in ValueOf(c) : Write(c, v)
  BY <1>i
<1>3. v \in Value
  BY <1>2 DEF ValueOf, Value, Undefined
<1>4. c \in Cell /\ c \notin Derived /\ \A s \in Source : c # Target(s)
  BY CellKinds DEF SeparateCells
<1>5. /\ source' \in [Source -> SourceType] /\ flight' \subseteq flight
      /\ \A s \in Source : source'[s].timer = source[s].timer
  BY <1>1 DEF IInv, RuntimeType
<1>c. phase \in {"new", "failed"} => \A s \in Source : ~source'[s].current
  BY <1>1 DEF IInv, PhaseSound
<1>6. ASSUME NoOwnReads, SourceInv, phase = "mounted"
      PROVE  \A s \in Source : Config[s].auto =>
                 source'[s].timer \/ source'[s].deferred \/ FetchDue(frames', s) \/ Asked(s)'
  <2> DEFINE w0 == Work("evaluate", 0)
             path0 == <<>>
  <2>1. /\ \A s : w0 # Work("fetch", s) /\ w0 # Work("send", s) /\ w0 # Work("source", s)
        /\ Keeps(path0, w0)
    BY <1>1, WorkNames, AtRest
  <2> HIDE DEF w0, path0
  <2>2. Changes(c, v)
    <3>1. frames = <<>>
      BY <1>1, AtRest
    <3> QED
      BY <1>2, <1>3, <1>4, <1>6, <3>1, WriteCalls DEF Changes
  <2> TAKE s \in Source
  <2> HAVE Config[s].auto
  <2> QED
    BY <1>1, <1>4, <1>6, <2>1, <2>2, SourceAfter
<1> QED
  BY <1>1, <1>2, <1>3, <1>4, <1>5, <1>c, <1>6, EventWrites

\* The call stack of a single fetch.
LEMMA OneFetch ==
    ASSUME NEW s \in Source
    PROVE  /\ StackFits(<<Frame(<<>>, <<Work("fetch", s)>>)>>)
           /\ FetchDue(<<Frame(<<>>, <<Work("fetch", s)>>)>>, s)
<1> DEFINE w == Work("fetch", s)
           f == Frame(<<>>, <<w>>)
<1>1. w \in WorkType /\ w.do # "evaluate" /\ WorkFits(w)
  BY DEF Work, WorkType, WorkFits
<1> HIDE DEF w
<1>2. f \in FrameType /\ f.path = <<>> /\ f.work = <<w>>
  BY <1>1 DEF Frame, FrameType
<1>3. \A x : Has(f.work, x) <=> x = w
  BY <1>2, HasOne
<1> HIDE DEF f
<1>4. <<f>> \in Seq(FrameType) /\ \A path, x : Carries(<<f>>, path, x) <=> path = <<>> /\ x = w
  <2>1. \A path, x : Carries(<<f>>, path, x) <=> f.path = path /\ Has(f.work, x)
    BY DEF Carries
  <2> QED
    BY <1>2, <1>3, <2>1
<1>5. StackFits(<<f>>) /\ Carries(<<f>>, <<>>, w)
  BY <1>1, <1>4 DEF StackFits
<1>6. FetchDue(<<f>>, s)
  BY <1>5 DEF FetchDue, w
<1> QED
  BY <1>5, <1>6 DEF f, w

\* A fetch is started by an event, a refresh or a timer.
LEMMA EventFetches ==
    ASSUME IInv, Idle, phase = "mounted", NEW s \in Source,
           frames' = <<Frame(<<>>, <<Work("fetch", s)>>)>>,
           UNCHANGED <<deps, phase, state, flight>>, source' \in [Source -> SourceType],
           \A r \in Source : r # s => source'[r] = source[r]
    PROVE  Safe
<1> DEFINE w0 == Work("evaluate", 0)
           path0 == <<>>
           c == <<>>
           v == {}
<1>1. StackFits(frames') /\ FetchDue(frames', s)
  BY OneFetch
<1>2. w0.do # "derive" /\ \A r : w0 # Work("fetch", r) /\ w0 # Work("send", r) /\ w0 # Work("source", r)
  BY WorkNames
<1>3. Keeps(path0, w0) /\ Changes(c, v) /\ state' = state /\ UNCHANGED <<deps, phase>>
  BY AtRest DEF Changes
<1> HIDE DEF w0, path0, c, v
<1>r. Running
  BY DEF Running
<1>4. IInv'
  BY <1>1, <1>r, RunningStep DEF IInv, RuntimeType
<1>5. ASSUME DerivedInv
      PROVE  DerivedInv'
  BY <1>2, <1>3, <1>r, <1>5, DerivedKept
<1>6. ASSUME NoOwnReads, EmptiedFirst, SourceInv
      PROVE  SourceInv'
  <2>1. ASSUME NEW r \in Source, Config[r].auto, r # s
        PROVE  source'[r].timer \/ source'[r].deferred \/ FetchDue(frames', r) \/ Asked(r)'
    BY <1>2, <1>3, <1>6, <2>1, SourceAfter
  <2>2. \A r \in Source : Config[r].auto =>
            source'[r].timer \/ source'[r].deferred \/ FetchDue(frames', r) \/ Asked(r)'
    BY <1>1, <2>1
  <2> QED
    BY <2>2, SourcesSettled
<1> QED
  BY <1>4, <1>5, <1>6 DEF Safe

LEMMA RefreshStep ==
    ASSUME IInv, Refresh
    PROVE  Safe
<1>1. Idle /\ phase = "mounted" /\ UNCHANGED <<deps, phase, state, source, flight>>
  BY DEF Refresh
<1>2. PICK s \in Source : frames' = <<Frame(<<>>, <<Work("fetch", s)>>)>>
  BY DEF Refresh
<1> QED
  BY <1>1, <1>2, EventFetches DEF IInv, RuntimeType

LEMMA TimerStep ==
    ASSUME IInv, TimerFires
    PROVE  Safe
<1>1. Idle /\ UNCHANGED <<deps, phase, state, flight>>
  BY DEF TimerFires
<1>2. PICK s \in Source : /\ source[s].timer /\ source' = [source EXCEPT ![s].timer = FALSE]
                          /\ frames' = <<Frame(<<>>, <<Work("fetch", s)>>)>>
  BY DEF TimerFires
<1>3. phase = "mounted"
  BY <1>1, <1>2, AtRest
<1>4. source' \in [Source -> SourceType] /\ \A r \in Source : r # s => source'[r] = source[r]
  BY <1>2 DEF IInv, RuntimeType, SourceType
<1> QED
  BY <1>1, <1>2, <1>3, <1>4, EventFetches

\* A request is answered.
LEMMA AnswerStep ==
    ASSUME IInv, SeparateCells, Answer
    PROVE  Safe
<1>1. Idle /\ UNCHANGED <<deps, phase>>
  BY DEF Answer
<1>2. PICK request \in flight : /\ flight' = flight \ {request} \/ flight' = flight
                                /\ AnswerOk(request) \/ AnswerFailed(request)
  BY DEF Answer
<1> DEFINE s == request.of
           c == Target(s)
           v == request.asked
<1>3. /\ request \in Request /\ s \in Source /\ v \in Value /\ request.newest \in BOOLEAN
      /\ flight' \subseteq flight /\ flight \subseteq Request
  BY <1>2 DEF IInv, RuntimeType, Request
<1>4. c \in Cell /\ c \notin Derived /\ \A r \in Source : r # s => c # Target(r)
  BY <1>3, CellKinds DEF SeparateCells
<1>5. /\ phase \in {"new", "mounted", "failed", "gone"}
      /\ phase \in {"new", "failed"} =>
            ~request.newest /\ NothingAsked' /\ \A r \in Source : ~source[r].current
  BY <1>1, <1>2, <1>3, AtRest DEF IInv, PhaseSound, NothingAsked
<1>6. source \in [Source -> SourceType]
  BY DEF IInv, RuntimeType
<1>7. CASE AnswerOk(request)
  <2>1. /\ Write(c, v)
        /\ source' = [source EXCEPT ![s].loading = FALSE, ![s].current = request.newest]
    BY <1>7 DEF AnswerOk
  <2>2. /\ source' \in [Source -> SourceType]
        /\ \A r \in Source : r # s => source'[r] = source[r]
        /\ source'[s].timer = source[s].timer /\ source'[s].deferred = source[s].deferred
        /\ source'[s].failed = source[s].failed /\ source'[s].current = request.newest
    <3> DEFINE x == [source[s] EXCEPT !.loading = FALSE, !.current = request.newest]
    <3>1. source' = [source EXCEPT ![s] = x]
      BY <1>3, <1>6, <2>1
    <3>2. /\ x \in SourceType /\ x.timer = source[s].timer /\ x.deferred = source[s].deferred
          /\ x.failed = source[s].failed /\ x.current = request.newest
      BY <1>3, <1>6 DEF SourceType
    <3> HIDE DEF x
    <3> QED
      BY <1>3, <1>6, <3>1, <3>2, SourceSet
  <2> HIDE DEF s, c, v
  <2>3. \A r \in Source : source'[r].timer = source[r].timer
    BY <2>2
  <2>c. phase \in {"new", "failed"} => \A r \in Source : ~source'[r].current
    BY <1>5, <2>2
  <2>4. ASSUME NoOwnReads, SourceInv, phase = "mounted"
        PROVE  \A r \in Source : Config[r].auto =>
                   source'[r].timer \/ source'[r].deferred \/ FetchDue(frames', r) \/ Asked(r)'
    <3> DEFINE w0 == Work("evaluate", 0)
               path0 == <<>>
    <3>1. /\ \A r : w0 # Work("fetch", r) /\ w0 # Work("send", r) /\ w0 # Work("source", r)
          /\ Keeps(path0, w0) /\ ~FetchDue(frames, s) /\ frames = <<>>
      BY <1>1, WorkNames, AtRest
    <3> HIDE DEF w0, path0
    <3>2. Changes(c, v) /\ state' = [state EXCEPT ![c] = v] /\ state \in [Cell -> Value]
      BY <1>3, <1>4, <2>1, <2>4, <3>1, WriteCalls DEF Changes, IInv, RuntimeType
    <3>3. ASSUME NEW r \in Source, Config[r].auto, r # s
          PROVE  source'[r].timer \/ source'[r].deferred \/ FetchDue(frames', r) \/ Asked(r)'
      <4>1. \A f \in flight' : f.of = r /\ f.newest => f \in flight
        BY <1>3
      <4> QED
        BY <1>4, <2>2, <2>4, <3>1, <3>2, <3>3, <4>1, SourceAfter
    <3>4. ASSUME Config[s].auto, ~source[s].timer, ~source[s].deferred
          PROVE  Asked(s)'
      <4>1. Asked(s)
        BY <1>3, <2>4, <3>1, <3>4 DEF SourceInv, Due
      <4>2. ReadAll(state', Reads(s)) = ReadAll(state, Reads(s))
        <5>1. ~Touches(Reads(s), c)
          BY <1>3, <1>4, <2>4 DEF NoOwnReads, Touches, c
        <5> QED
          BY <3>2, <5>1, ReadAfter
      <4>3. \A f \in flight' : f.of = s /\ f.newest => f.asked = ReadAll(state', Reads(s))
        BY <1>3, <4>1, <4>2 DEF Asked, Now
      <4>4. source'[s].current /\ ~source'[s].failed => state'[c] = ReadAll(state', Reads(s))
        <5>1. state'[c] = v
          BY <1>4, <3>2
        <5>2. request.newest => v = ReadAll(state, Reads(s))
          BY <1>2, <4>1 DEF Asked, Now, s, v
        <5> QED
          BY <2>2, <4>2, <5>1, <5>2
      <4> QED
        BY <4>3, <4>4 DEF Asked, Now, c, s
    <3> TAKE r \in Source
    <3> HAVE Config[r].auto
    <3>5. CASE r # s
      BY <3>3, <3>5
    <3>6. CASE r = s
      BY <2>2, <3>4, <3>6
    <3> QED
      BY <3>5, <3>6
  <2> QED
    BY <1>1, <1>3, <1>4, <2>1, <2>2, <2>3, <2>c, <2>4, EventWrites
<1>8. CASE AnswerFailed(request)
  <2>1. /\ UNCHANGED <<state, frames>>
        /\ source' = [source EXCEPT ![s].loading = FALSE, ![s].failed = TRUE,
                                    ![s].current = request.newest]
    BY <1>8 DEF AnswerFailed
  <2>2. /\ source' \in [Source -> SourceType]
        /\ \A r \in Source : r # s => source'[r] = source[r]
        /\ source'[s].timer = source[s].timer /\ source'[s].deferred = source[s].deferred
        /\ source'[s].failed /\ source'[s].current = request.newest
    <3> DEFINE x == [source[s] EXCEPT !.loading = FALSE, !.failed = TRUE, !.current = request.newest]
    <3>1. source' = [source EXCEPT ![s] = x]
      BY <1>3, <1>6, <2>1
    <3>2. /\ x \in SourceType /\ x.timer = source[s].timer /\ x.deferred = source[s].deferred
          /\ x.failed /\ x.current = request.newest
      BY <1>3, <1>6 DEF SourceType
    <3> HIDE DEF x
    <3> QED
      BY <1>3, <1>6, <3>1, <3>2, SourceSet
  <2> HIDE DEF s
  <2>3. frames = <<>> /\ frames' = <<>> /\ StackFits(frames')
    BY <1>1, <2>1, AtRest, NoneCarried DEF StackFits
  <2>4. CASE phase = "mounted"
    <3> DEFINE w0 == Work("evaluate", 0)
               path0 == <<>>
               d == <<>>
               u == {}
    <3>1. /\ w0.do # "derive" /\ Keeps(path0, w0)
          /\ \A r : w0 # Work("fetch", r) /\ w0 # Work("send", r) /\ w0 # Work("source", r)
      BY <1>1, WorkNames, AtRest
    <3>2. Changes(d, u) /\ state' = state
      BY <2>1 DEF Changes
    <3> HIDE DEF w0, path0, d, u
    <3>r. Running
      BY <2>4 DEF Running
    <3>3. IInv'
      BY <1>1, <1>3, <2>1, <2>2, <2>3, <2>4, <3>r, RunningStep DEF IInv, RuntimeType
    <3>4. ASSUME DerivedInv
          PROVE  DerivedInv'
      BY <1>1, <3>r, <3>1, <3>2, <3>4, DerivedKept
    <3>5. ASSUME NoOwnReads, EmptiedFirst, SourceInv
          PROVE  SourceInv'
      <4>1. ASSUME NEW r \in Source, Config[r].auto
            PROVE  source'[r].timer \/ source'[r].deferred \/ FetchDue(frames', r) \/ Asked(r)'
        <5>1. /\ source[r].timer => source'[r].timer
              /\ source[r].deferred => source'[r].deferred
              /\ source'[r].current /\ ~source'[r].failed => source[r].current /\ ~source[r].failed
          BY <2>2
        <5>2. \A f \in flight' : f.of = r /\ f.newest => f \in flight
          BY <1>3
        <5> QED
          BY <2>4, <3>1, <3>2, <3>5, <4>1, <5>1, <5>2, SourceAfter
      <4> QED
        BY <1>1, <2>4, <4>1, SourcesSettled
    <3> QED
      BY <3>3, <3>4, <3>5 DEF Safe
  <2>5. CASE phase \in {"new", "failed", "gone"}
    <3>c. phase \in {"new", "failed"} => \A r \in Source : ~source'[r].current
      BY <1>5, <2>2
    <3>1. \A r \in Source : ~source[r].timer /\ source'[r].timer = source[r].timer
      BY <1>1, <2>2, <2>5, AtRest
    <3> QED
      BY <1>1, <1>3, <1>5, <2>1, <2>2, <2>3, <2>5, <3>c, <3>1, RestingStep, NoneCarried
      DEF IInv, RuntimeType, StackFits
  <2> QED
    BY <1>5, <2>4, <2>5
<1> QED
  BY <1>2, <1>7, <1>8

LEMMA UnmountStep ==
    ASSUME IInv, Unmount
    PROVE  Safe
<1>1. /\ Idle /\ phase = "mounted" /\ phase' = "gone" /\ UNCHANGED <<deps, state, frames, flight>>
      /\ source' = [s \in Source |-> [source[s] EXCEPT !.timer = FALSE]]
  BY DEF Unmount
<1>2. source' \in [Source -> SourceType] /\ \A s \in Source : ~source'[s].timer
  BY <1>1 DEF IInv, RuntimeType, SourceType
<1>3. frames' = <<>> /\ frames' \in Seq(FrameType)
  BY <1>1, AtRest
<1> QED
  BY <1>1, <1>2, <1>3, NoneCarried, RestingStep DEF IInv, RuntimeType

\* A screen whose derives are not circular starts to fill them in.
LEMMA MountStep ==
    ASSUME IInv, Mount
    PROVE  Safe
<1>1. /\ Idle /\ phase \in {"new", "gone"} /\ UNCHANGED <<deps, state>>
      /\ source' = [s \in Source |-> [source[s] EXCEPT !.current = FALSE]]
      /\ flight' = {[f EXCEPT !.newest = FALSE] : f \in flight}
  BY DEF Mount
<1>2. /\ (\A s \in Source : ~source[s].timer) /\ frames = <<>> /\ RuntimeType
  BY <1>1, AtRest DEF IInv
<1>s. /\ source' \in [Source -> SourceType] /\ \A s \in Source : ~source'[s].current /\ ~source'[s].timer
  BY <1>1, <1>2 DEF RuntimeType, SourceType
<1>f. flight' \subseteq Request /\ NothingAsked'
  <2>1. \A f \in flight : [f EXCEPT !.newest = FALSE] \in Request /\ ~[f EXCEPT !.newest = FALSE].newest
    BY <1>2 DEF RuntimeType, Request
  <2> QED
    BY <1>1, <2>1 DEF NothingAsked
<1>3. CASE phase' = "failed" /\ frames' = frames
  BY <1>1, <1>2, <1>s, <1>f, <1>3, NoneCarried, RestingStep DEF RuntimeType
<1>4. CASE /\ ~Sort(Derives, deps).cyclic /\ phase' = "mounting"
           /\ frames' = <<Frame(<<>>, <<Work("evaluate", 1)>>)>>
  <2> DEFINE one == <<Frame(<<>>, <<Work("evaluate", 1)>>)>>
  <2>1. one \in Seq(FrameType)
    BY DEF Frame, FrameType, Work, WorkType
  <2>2. Head(Head(one).work).what = 1
    BY DEF Frame, Work
  <2> HIDE DEF one
  <2>3. IInv'
    <3>1. RuntimeType'
      BY <1>1, <1>2, <1>s, <1>f, <1>4, <2>1 DEF RuntimeType, one
    <3>2. PhaseSound'
      BY <1>1, <1>s, <1>f, <1>4 DEF PhaseSound, Running
    <3> QED
      BY <3>1, <3>2 DEF IInv
  <2>4. DerivedInv'
    <3>1. What' = 1
      BY <1>4, <2>2 DEF What, one
    <3>2. \A i \in DOMAIN Order' : ~(i < 1)
      <4>1. RuntimeType' /\ ~Sort(Derives, deps').cyclic
        BY <1>1, <1>4, <2>3 DEF IInv
      <4>2. DOMAIN Order' = 1 .. Len(Order') /\ Len(Order') \in Nat
        <5>1. Order' = Order /\ ~Sort(Derives, deps).cyclic
          BY <1>1, <1>4 DEF Order
        <5>2. DOMAIN Order = 1 .. Len(Order) /\ Len(Order) \in Nat
          <6> HIDE DEF Order
          <6> QED
            BY <1>2, <5>1, OrderSorted
        <5> HIDE DEF Order
        <5> QED
          BY <5>1, <5>2
      <4> HIDE DEF Order
      <4> QED
        BY <4>2
    <3> QED
      BY <1>4, <3>1, <3>2 DEF DerivedInv, Running
  <2>5. SourceInv'
    BY <1>4 DEF SourceInv
  <2> QED
    BY <2>3, <2>4, <2>5 DEF Safe
<1> QED
  BY <1>3, <1>4 DEF Mount

\* The derived cell whose turn it is is filled in, in the order of the sort, or the
\* runtime is mounted.
LEMMA EvaluateStep ==
    ASSUME IInv, Evaluate
    PROVE  Safe
<1>1. Doing("evaluate") /\ UNCHANGED <<deps, source, flight>> /\ phase = "mounting"
  BY Working DEF Evaluate
<1>2. /\ RuntimeType /\ ~Sort(Derives, deps).cyclic
      /\ NothingAsked /\ \A s \in Source : ~source[s].current /\ ~source[s].timer
  BY <1>1 DEF IInv, PhaseSound
<1>3. PICK n \in Nat \ {0} : frames = <<Frame(<<>>, <<Work("evaluate", n)>>)>>
  BY <1>1 DEF IInv, PhaseSound
<1>4. What = n
  BY <1>3 DEF What, Frame, Work
<1>5. /\ Order' = Order /\ Order \in Seq(Derived)
      /\ DOMAIN Order = 1 .. Len(Order) /\ Len(Order) \in Nat
      /\ \A i \in DOMAIN Order : Order[i] \in Derived
      /\ \A p \in Derived : \E i \in DOMAIN Order : Order[i] = p
      /\ \A i, j \in DOMAIN Order : Order[j] \in DepsOf(Order[i]) => j < i
  <2>1. Order' = Order
    BY <1>1 DEF Order
  <2> HIDE DEF Order
  <2> QED
    BY <1>2, <2>1, OrderSorted
<1>6. DerivedInv => \A i \in DOMAIN Order : i < n => Holds(Order[i])
  BY <1>1, <1>4 DEF DerivedInv
<1> DEFINE c == Order[n]
           v == ReadAll(state, DepsOf(c))
           next == <<Frame(<<>>, <<Work("evaluate", n + 1)>>)>>
           mounts == [i \in DOMAIN Sources |-> Work("mount", Sources[i])]
<1>7. CASE n \in DOMAIN Order
  <2>1. state' = [state EXCEPT ![c] = v] /\ frames' = next /\ phase' = phase
    BY <1>4, <1>7 DEF Evaluate, DepsOf
  <2>2. c \in Derived /\ c \in Cell /\ v \in Value
    <3>1. c \in Derived
      BY <1>5, <1>7
    <3> HIDE DEF c
    <3> QED
      BY <1>2, <3>1, CellKinds, ReadType DEF RuntimeType
  <2>3. next \in Seq(FrameType) /\ n + 1 \in Nat \ {0} /\ Head(Head(next).work).what = n + 1
    BY DEF Frame, FrameType, Work, WorkType
  <2> HIDE DEF next, v
  <2>4. IInv'
    <3>1. state' \in [Cell -> Value]
      BY <1>2, <2>1, <2>2 DEF RuntimeType
    <3>2. RuntimeType'
      BY <1>1, <1>2, <2>1, <2>3, <3>1 DEF RuntimeType
    <3>3. PhaseSound'
      BY <1>1, <1>2, <2>1, <2>3 DEF PhaseSound, Running, NothingAsked, next
    <3> QED
      BY <3>2, <3>3 DEF IInv
  <2>5. ASSUME WholeReads, DerivedInv
        PROVE  DerivedInv'
    <3>1. ASSUME NEW i \in DOMAIN Order, i < n + 1
          PROVE  state'[Order[i]] = ReadAll(state', DepsOf(Order[i]))
      <4> DEFINE p == Order[i]
      <4>1. p \in Derived /\ p \in Cell /\ i \in Nat /\ n \in Nat
        BY <1>5, CellKinds
      <4>2. ~Touches(DepsOf(p), c)
        <5>1. \A dep \in DepsOf(p) : Overlap(dep, c) => dep = c
          BY <1>2, <2>2, <2>5, <4>1 DEF WholeReads, DepsOf, RuntimeType
        <5>2. c \notin DepsOf(p)
          BY <1>5, <1>7, <3>1, <4>1
        <5> QED
          BY <5>1, <5>2 DEF Touches
      <4> SUFFICES state'[p] = ReadAll(state', DepsOf(p))
        OBVIOUS
      <4> HIDE DEF c, p
      <4>3. ReadAll(state', DepsOf(p)) = ReadAll(state, DepsOf(p))
        BY <1>2, <2>1, <2>2, <4>2, ReadSame DEF RuntimeType
      <4>4. CASE p = c
        BY <1>2, <2>1, <2>2, <4>3, <4>4 DEF RuntimeType, v
      <4>5. CASE p # c
        <5>1. i # n
          BY <4>5 DEF p, c
        <5>2. Holds(p)
          BY <1>6, <2>5, <3>1, <4>1, <5>1 DEF p
        <5>3. state'[p] = state[p]
          BY <1>2, <2>1, <2>2, <4>1, <4>5 DEF RuntimeType
        <5> QED
          BY <4>3, <5>2, <5>3 DEF Holds
      <4> QED
        BY <4>4, <4>5
    <3>2. What' = n + 1
      BY <2>1, <2>3 DEF What
    <3>3. phase' = "mounting"
      BY <1>1, <2>1
    <3>4. ASSUME NEW i \in DOMAIN Order', i < What'
          PROVE  Holds(Order[i])'
      <4>1. i \in DOMAIN Order /\ i < n + 1 /\ Order'[i] = Order[i] /\ deps' = deps
        BY <1>1, <1>5, <3>2, <3>4
      <4>2. state'[Order'[i]] = ReadAll(state', ToSet(deps'[Order'[i]]))
        BY <3>1, <4>1 DEF DepsOf
      <4> QED
        BY <4>2 DEF Holds, DepsOf
    <3> QED
      BY <3>3, <3>4 DEF DerivedInv, Running
  <2>6. SourceInv'
    BY <1>1, <2>1 DEF SourceInv
  <2> QED
    BY <2>4, <2>5, <2>6 DEF Safe
<1>8. CASE n \notin DOMAIN Order
  <2>1. state' = state /\ phase' = "starting" /\ frames' = <<Frame(<<>>, mounts)>>
    BY <1>4, <1>8 DEF Evaluate
  <2>2. /\ mounts \in Seq(WorkType) /\ \A w : Has(mounts, w) => w.do # "evaluate" /\ WorkFits(w)
        /\ BottomFits(mounts)
    <3>1. \A s \in Source : Work("mount", s) \in WorkType /\ Work("mount", s).do # "evaluate"
                            /\ WorkFits(Work("mount", s))
      BY DEF Work, WorkType, WorkFits
    <3>2. /\ Sources \in Seq(Source) /\ DOMAIN Sources = 1 .. Len(Sources) /\ Len(Sources) \in Nat
          /\ \A i \in DOMAIN Sources : Sources[i] \in Source
      BY SourcesForm
    <3> HIDE DEF Work, Source
    <3>3. mounts \in Seq(WorkType)
      BY <3>1, <3>2
    <3>4. DOMAIN mounts = DOMAIN Sources /\ \A i \in DOMAIN Sources : mounts[i] = Work("mount", Sources[i])
      OBVIOUS
    <3> HIDE DEF mounts
    <3>5. \A w : Has(mounts, w) => w.do # "evaluate" /\ WorkFits(w) /\ w.do = "mount"
      BY <3>1, <3>2, <3>4 DEF Has, Work
    <3>6. ASSUME EmptiedFirst, mounts # <<>>, NEW w, Has(Tail(mounts), w)
          PROVE  Quiet(w)
      <4>1. PICK k \in DOMAIN Tail(mounts) : Tail(mounts)[k] = w
        BY <3>6 DEF Has
      <4>2. k + 1 \in DOMAIN mounts /\ mounts[k + 1] = w /\ k + 1 # 1
        BY <3>3, <3>6, <4>1
      <4>3. w = Work("mount", Sources[k + 1]) /\ ~Config[Sources[k + 1]].emptied
        BY <3>4, <3>6, <4>2 DEF EmptiedFirst
      <4> QED
        BY <4>3 DEF Quiet, Work
    <3>7. BottomFits(mounts)
      BY <3>5, <3>6 DEF BottomFits
    <3> QED
      BY <3>3, <3>5, <3>7
  <2> HIDE DEF mounts
  <2>3. StackFits(frames') /\ Started(frames')
    <3> DEFINE f == Frame(<<>>, mounts)
    <3>1. f \in FrameType /\ f.work = mounts /\ frames' = <<f>>
      BY <2>1, <2>2 DEF Frame, FrameType
    <3> HIDE DEF f
    <3>2. <<f>> \in Seq(FrameType) /\ \A path, w : Carries(<<f>>, path, w) => Has(f.work, w)
      BY <3>1 DEF Carries
    <3>3. Started(<<f>>)
      BY <2>2, <3>1 DEF Started
    <3> QED
      BY <2>2, <3>1, <3>2, <3>3 DEF StackFits
  <2>4. IInv'
    <3>1. RuntimeType'
      BY <1>1, <1>2, <2>1, <2>3 DEF RuntimeType, StackFits
    <3>2. PhaseSound'
      <4>1. StackFits(frames)' /\ Started(frames)'
        BY <2>3 DEF StackFits, Started
      <4> QED
        BY <1>1, <1>2, <2>1, <4>1 DEF PhaseSound, Running
    <3> QED
      BY <3>1, <3>2 DEF IInv
  <2>5. ASSUME DerivedInv
        PROVE  DerivedInv'
    <3>1. ASSUME NEW p \in Derived
          PROVE  Holds(p)
      <4>1. PICK i \in DOMAIN Order : Order[i] = p
        BY <1>5
      <4>2. i < n
        <5>1. i \in 1 .. Len(Order) /\ n \notin 1 .. Len(Order) /\ Len(Order) \in Nat
          BY <1>5, <1>8
        <5> HIDE DEF Order
        <5> QED
          BY <5>1
      <4> QED
        BY <1>6, <2>5, <4>1, <4>2
    <3>2. \A p \in Derived : Holds(p)'
      BY <1>1, <2>1, <3>1 DEF Holds, DepsOf
    <3> QED
      BY <2>1, <3>2 DEF DerivedInv, Running
  <2>6. SourceInv'
    <3>1. NothingAsked'
      BY <1>1, <1>2 DEF NothingAsked
    <3> QED
      BY <2>1, <2>4, <3>1, StillUnasked
  <2> QED
    BY <2>4, <2>5, <2>6 DEF Safe
<1> QED
  BY <1>7, <1>8

\* A step of nothing.
LEMMA StutterStep ==
    ASSUME IInv, UNCHANGED vars
    PROVE  Safe
<1>1. IInv'
  BY DEF IInv, RuntimeType, PhaseSound, Running, NothingAsked, StackFits, Started, vars, Order
<1>2. DerivedInv => DerivedInv'
  BY DEF DerivedInv, Running, Holds, DepsOf, DeriveDue, What, Order, vars
<1>3. SourceInv => SourceInv'
  BY DEF SourceInv, Due, NothingAsked, AllQuiet, Asked, Now, FetchDue, vars
<1> QED
  BY <1>1, <1>2, <1>3 DEF Safe

LEMMA NextIsSafe ==
    ASSUME SeparateCells, IInv, [Next]_vars
    PROVE  Safe
<1>1. CASE Mount
  BY <1>1, MountStep
<1>2. CASE WriteInput
  BY <1>2, WriteInputStep
<1>3. CASE Refresh
  BY <1>3, RefreshStep
<1>4. CASE TimerFires
  BY <1>4, TimerStep
<1>5. CASE Answer
  BY <1>5, AnswerStep
<1>6. CASE Unmount
  BY <1>6, UnmountStep
<1>7. CASE Evaluate
  BY <1>7, EvaluateStep
<1>8. CASE Derive
  BY <1>8, DeriveStep
<1>9. CASE MountSource
  BY <1>9, MountSourceStep
<1>10. CASE Look
  BY <1>10, LookStep
<1>11. CASE Fetch
  BY <1>11, FetchStep
<1>12. CASE Send
  BY <1>12, SendStep
<1>13. CASE Return
  BY <1>13, ReturnStep
<1>14. CASE UNCHANGED vars
  BY <1>14, StutterStep
<1> QED
  BY <1>1, <1>2, <1>3, <1>4, <1>5, <1>6, <1>7, <1>8, <1>9, <1>10, <1>11, <1>12, <1>13, <1>14
  DEF Next, Cascade

LEMMA InitIsSafe ==
    ASSUME Init
    PROVE  IInv /\ DerivedInv /\ SourceInv
<1>1. state \in [Cell -> Value]
  <2>1. /\ state \in [Cell -> {Undefined} \cup UNION {ValueOf(c) : c \in Input}]
        /\ \A c \in Input : state[c] \in ValueOf(c)
        /\ \A c \in Cell \ Input : state[c] = Undefined
    BY DEF Init
  <2>2. \A c \in Cell : state[c] \in Value
    BY <2>1 DEF ValueOf, Value, Undefined
  <2>3. state = [c \in Cell |-> state[c]]
    BY <2>1
  <2> QED
    BY <2>2, <2>3
<1>2. /\ deps \in [Derived -> DepChoices] /\ phase = "new" /\ frames = <<>> /\ flight = {}
      /\ source = [s \in Source |-> Fresh]
  BY DEF Init
<1>3. RuntimeType
  BY <1>1, <1>2 DEF RuntimeType, SourceType, Fresh
<1>4. PhaseSound
  BY <1>2, NoneCarried DEF PhaseSound, Running, NothingAsked, Fresh
<1> QED
  BY <1>2, <1>3, <1>4 DEF IInv, DerivedInv, SourceInv, Running
-----------------------------------------------------------------------------
\* Between two events of a mounted screen every derived cell is the value of its
\* expression (DerivedFresh; derive/evaluator.ts, derive/topo-sort.ts): the sort fills
\* them in so that none is read before it is there, and afterwards each change of what
\* an expression reads, also one made inside a cascade, calls the engine for it.
THEOREM DerivedStaysFresh == SeparateCells /\ WholeReads => (Spec => []DerivedFresh)
<1> SUFFICES ASSUME SeparateCells, WholeReads
             PROVE  Spec => []DerivedFresh
  OBVIOUS
<1>1. Init => IInv /\ DerivedInv
  BY InitIsSafe
<1>2. IInv /\ DerivedInv /\ [Next]_vars => (IInv /\ DerivedInv)'
  BY NextIsSafe DEF Safe
<1>3. IInv /\ DerivedInv => DerivedFresh
  BY NoneCarried DEF DerivedInv, DerivedFresh, Running, Holds, DepsOf, DeriveDue, Idle
<1> QED
  BY <1>1, <1>2, <1>3, PTL DEF Spec

\* Once the newest request of an automatic source has been answered, with success and
\* after all others, its target is what it would ask for now (SettledAnswer;
\* data/data-sources.ts): no change of what it reads goes unnoticed while the request
\* is under way, whether the debounce, the deferral of an incomplete url or the
\* emptying of the target comes between.  A source whose mount empties what another
\* reads must be the first of the spec: they listen only after all their first fetches.
THEOREM AnswersSettle == SeparateCells /\ NoOwnReads /\ EmptiedFirst => (Spec => []SettledAnswer)
<1> SUFFICES ASSUME SeparateCells, NoOwnReads, EmptiedFirst
             PROVE  Spec => []SettledAnswer
  OBVIOUS
<1>1. Init => IInv /\ SourceInv
  BY InitIsSafe
<1>2. IInv /\ SourceInv /\ [Next]_vars => (IInv /\ SourceInv)'
  BY NextIsSafe DEF Safe
<1>3. IInv /\ SourceInv => SettledAnswer
  BY AtRest DEF SourceInv, Due, SettledAnswer, Asked, Now, Reads
<1> QED
  BY <1>1, <1>2, <1>3, PTL DEF Spec
=============================================================================
