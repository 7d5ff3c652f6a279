---------------------- MODULE SqlVersionedStoreProofs ----------------------
(***************************************************************************)
(* The history of SqlVersionedStore is correct for any number of clients,  *)
(* any snapshot interval and any documents: type correctness, contiguity,  *)
(* faithful chain, faithful loads, rollbacks that restore, and a history   *)
(* that is never rewritten.                                                *)
(*                                                                         *)
(* The inductive invariant Inv adds to these what each client's local      *)
(* variables mean at each of its labels (CallOK).  CallOK takes the tables *)
(* as arguments, so that one monotonicity lemma (CallMonotone) says that   *)
(* nothing a client has read is invalidated by another client's insert.    *)
(***************************************************************************)
EXTENDS SqlVersionedStore, TLAPS

-----------------------------------------------------------------------------
(* The patch algebra, for all documents. *)

\* A document is a function from some of the places to values.
LEMMA DocumentForm ==
    ASSUME NEW d
    PROVE  d \in Document <=> /\ DOMAIN d \subseteq Place
                              /\ d = [k \in DOMAIN d |-> d[k]]
                              /\ \A k \in DOMAIN d : d[k] \in Value
<1>1. ASSUME d \in Document
      PROVE  /\ DOMAIN d \subseteq Place
             /\ d = [k \in DOMAIN d |-> d[k]]
             /\ \A k \in DOMAIN d : d[k] \in Value
  <2>1. PICK S \in SUBSET Place : d \in [S -> Value]
    BY <1>1 DEF Document
  <2> QED
    BY <2>1
<1>2. ASSUME DOMAIN d \subseteq Place, d = [k \in DOMAIN d |-> d[k]],
             \A k \in DOMAIN d : d[k] \in Value
      PROVE  d \in Document
  <2>1. d \in [DOMAIN d -> Value]
    BY <1>2
  <2>2. DOMAIN d \in SUBSET Place
    BY <1>2
  <2> QED
    BY <2>1, <2>2 DEF Document
<1> QED
  BY <1>1, <1>2

\* computePatches yields well-formed patches (it names only places of the two
\* documents and puts only values of the second).
LEMMA ComputePatchesType ==
    ASSUME NEW before \in Document, NEW after \in Document
    PROVE  ComputePatches(before, after) \in PatchList
<1> DEFINE changed == {k \in DOMAIN after : k \in DOMAIN before => before[k] # after[k]}
           put == [k \in changed |-> after[k]]
<1>1. /\ DOMAIN before \subseteq Place
      /\ DOMAIN after \subseteq Place
      /\ \A k \in DOMAIN after : after[k] \in Value
  BY DocumentForm
<1>2. put \in Document
  <2>1. /\ DOMAIN put = changed
        /\ \A k \in changed : put[k] = after[k]
    OBVIOUS
  <2>2. put = [k \in DOMAIN put |-> put[k]]
    OBVIOUS
  <2> HIDE DEF put
  <2> QED
    BY <1>1, <2>1, <2>2, DocumentForm
<1>3. DOMAIN before \ DOMAIN after \in SUBSET Place
  BY <1>1
<1> QED
  BY <1>2, <1>3 DEF ComputePatches, PatchList

\* applyPatches turns a document and well-formed patches into a document.
LEMMA ApplyPatchesType ==
    ASSUME NEW doc \in Document, NEW patches \in PatchList
    PROVE  ApplyPatches(doc, patches) \in Document
<1> DEFINE result == ApplyPatches(doc, patches)
<1>1. /\ DOMAIN doc \subseteq Place
      /\ \A k \in DOMAIN doc : doc[k] \in Value
  BY DocumentForm
<1>2. patches.put \in Document /\ patches.remove \subseteq Place
  BY DEF PatchList
<1>3. /\ DOMAIN patches.put \subseteq Place
      /\ \A k \in DOMAIN patches.put : patches.put[k] \in Value
  BY <1>2, DocumentForm
<1>4. /\ result = [k \in DOMAIN result |-> result[k]]
      /\ DOMAIN result = (DOMAIN doc \ patches.remove) \cup DOMAIN patches.put
      /\ \A k \in DOMAIN result : result[k] = IF k \in DOMAIN patches.put
                                                THEN patches.put[k] ELSE doc[k]
  BY DEF ApplyPatches
<1>5. DOMAIN result \subseteq Place /\ \A k \in DOMAIN result : result[k] \in Value
  BY <1>1, <1>3, <1>4
<1> HIDE DEF result
<1>6. result \in Document
  BY <1>4, <1>5, DocumentForm
<1> QED
  BY <1>6 DEF result

\* The round trip that the version chain rests on: the patches computed from
\* one document to another, applied to the first, give the second exactly.
THEOREM PatchRoundTrip ==
    ASSUME NEW before \in Document, NEW after \in Document
    PROVE  ApplyPatches(before, ComputePatches(before, after)) = after
<1> DEFINE patches == ComputePatches(before, after)
           result == ApplyPatches(before, patches)
           changed == {k \in DOMAIN after : k \in DOMAIN before => before[k] # after[k]}
<1>1. /\ patches.remove = DOMAIN before \ DOMAIN after
      /\ DOMAIN patches.put = changed
      /\ \A k \in changed : patches.put[k] = after[k]
  BY DEF ComputePatches
<1>2. /\ result = [k \in DOMAIN result |-> result[k]]
      /\ DOMAIN result = (DOMAIN before \ patches.remove) \cup DOMAIN patches.put
      /\ \A k \in DOMAIN result : result[k] = IF k \in DOMAIN patches.put
                                                THEN patches.put[k] ELSE before[k]
  BY DEF ApplyPatches
<1>3. after = [k \in DOMAIN after |-> after[k]]
  BY DocumentForm
<1> HIDE DEF patches, result
<1>4. DOMAIN result = DOMAIN after
  BY <1>1, <1>2
<1>5. \A k \in DOMAIN after : result[k] = after[k]
  BY <1>1, <1>2, <1>4
<1>6. result = after
  BY <1>2, <1>3, <1>4, <1>5
<1> QED
  BY <1>6 DEF result, patches
-----------------------------------------------------------------------------
(* What each client holds at each of its labels. *)

Loading == {"checkRange", "findSnapshot", "fetchPatches", "replay", "loaded"}
LoadingPrevious(l) == l.pc \in Loading /\ l.goal = "previous"
Placing(l) == l.pc \in {"insertSnapshot", "insertPatch", "saveScreens"} \/ LoadingPrevious(l)
Saving(l) == l.pc \in {"readMax", "readScreens", "insertBootstrap"} \/ Placing(l)

SavingOK(l, R, S) ==
    /\ Saving(l) => l.doc \in Document
    /\ l.pc = "insertBootstrap" => l.acc \in Document
    /\ LoadingPrevious(l) => /\ l.target = l.cur
                             /\ l.cur \in DOMAIN R
                             /\ ~IsSnapshotVersion(l.cur + 1)
    /\ l.pc = "insertSnapshot" => /\ l.cur \in {0} \cup DOMAIN R
                                  /\ IsSnapshotVersion(l.cur + 1)
    /\ l.pc = "insertPatch" => /\ l.cur \in DOMAIN R
                               /\ l.acc = S[l.cur]
                               /\ ~IsSnapshotVersion(l.cur + 1)
    /\ l.pc = "saveScreens" => l.cur + 1 \in DOMAIN R /\ S[l.cur + 1] = l.doc

LoadingOK(l, R, S) ==
    /\ l.pc \in {"findSnapshot", "fetchPatches", "replay", "loaded"} => l.target \in DOMAIN R
    /\ l.pc \in {"fetchPatches", "replay"} =>
         /\ l.pos \in DOMAIN R
         /\ l.pos < l.target
         /\ l.acc = S[l.pos]
         /\ \A v \in l.pos + 1 .. l.target : ~R[v].snapshot
    /\ l.pc = "replay" =>
         \A v \in l.pos + 1 .. l.target :
            /\ \E row \in l.batch : row.version = v
            /\ \A row \in l.batch : row.version = v => row.patches = R[v].patches
    /\ l.pc = "loaded" => l.acc = S[l.target]

RollbackOK(l, R, S) ==
    /\ l.pc \in Loading /\ l.goal = "restore" => l.cmd = "rollback" /\ l.target = l.restore
    /\ l.cmd = "rollback" =>
         /\ l.pc \notin {"readScreens", "insertBootstrap"}
         /\ l.pc = "readMax" \/ Placing(l) => l.restore \in DOMAIN R /\ l.doc = S[l.restore]
         /\ Placing(l) => l.restore <= l.cur

CallOK(l, R, S) == SavingOK(l, R, S) /\ LoadingOK(l, R, S) /\ RollbackOK(l, R, S)

\* What is noted of a lapse is a version of the table.
LapsesOK(f, R) == f \in [{"cut", "unread", "raced"} -> SUBSET DOMAIN R]

Inv ==
    /\ TypeOK
    /\ HistoryContiguous
    /\ ChainFaithful
    /\ \A c \in Client : CallOK(call[c], rows, saved)

-----------------------------------------------------------------------------
\* A row holds a document or patches, as its is_snapshot column says.
LEMMA RowForm ==
    ASSUME NEW r \in Row
    PROVE  /\ r.snapshot \in BOOLEAN
           /\ r.snapshot => r.spec \in Document
           /\ ~r.snapshot => r.patches \in PatchList
<1>1. CASE r \in [snapshot : {TRUE}, spec : Document]
  BY <1>1
<1>2. CASE r \in [snapshot : {FALSE}, patches : PatchList]
  BY <1>2
<1> QED
  BY <1>1, <1>2 DEF Row

\* MAX(version) of a contiguous history is its length.
LEMMA CurrentVersionIsLength ==
    ASSUME HistoryContiguous
    PROVE  CurrentVersion \in Nat /\ DOMAIN rows = 1 .. CurrentVersion
<1>1. PICK n \in {0} \cup DOMAIN rows : DOMAIN rows = 1 .. n
  BY DEF HistoryContiguous
<1>2. CASE DOMAIN rows = {}
  BY <1>2 DEF CurrentVersion
<1>3. CASE DOMAIN rows # {}
  <2>1. n \in Nat /\ n \in DOMAIN rows /\ \A u \in DOMAIN rows : u <= n
    BY <1>1, <1>3
  <2>2. \A m \in DOMAIN rows : (\A u \in DOMAIN rows : u <= m) => m = n
    BY <1>1, <2>1
  <2>3. CurrentVersion = n
    BY <1>3, <2>1, <2>2 DEF CurrentVersion
  <2> QED
    BY <1>1, <2>1, <2>3
<1> QED
  BY <1>2, <1>3

\* What a client knows about the tables stays true when rows are added.
LEMMA CallMonotone ==
    ASSUME NEW l \in LocalState, NEW R, NEW S, NEW R2, NEW S2, NEW n \in Nat,
           DOMAIN R = 1 .. n, DOMAIN R \subseteq DOMAIN R2,
           \A v \in DOMAIN R : R2[v] = R[v] /\ S2[v] = S[v],
           CallOK(l, R, S)
    PROVE  CallOK(l, R2, S2)
<1>1. l.cur \in Nat /\ l.target \in Nat /\ l.pos \in Nat /\ l.restore \in Nat
  BY DEF LocalState
<1>2. SavingOK(l, R2, S2)
  BY <1>1 DEF CallOK, SavingOK
<1>3. LoadingOK(l, R2, S2)
  <2>1. CASE l.pc \in {"fetchPatches", "replay"}
    <3>1. l.pos \in 1 .. n /\ l.target \in 1 .. n /\ l.pos < l.target
      BY <2>1 DEF CallOK, LoadingOK
    <3>2. \A v \in l.pos + 1 .. l.target : v \in DOMAIN R /\ R2[v] = R[v]
      BY <1>1, <3>1
    <3> QED
      BY <2>1, <3>1, <3>2 DEF CallOK, LoadingOK
  <2>2. CASE l.pc \notin {"fetchPatches", "replay"}
    BY <2>2 DEF CallOK, LoadingOK
  <2> QED
    BY <2>1, <2>2
<1>4. RollbackOK(l, R2, S2)
  BY DEF CallOK, RollbackOK
<1> QED
  BY <1>2, <1>3, <1>4 DEF CallOK

\* A step of one client that leaves the history alone keeps Inv if the client's
\* own local variables are right afterwards.
LEMMA LocalStep ==
    ASSUME Inv, NEW c \in Client, NEW l \in LocalState, CallOK(l, rows, saved),
           Become(c, l), UNCHANGED <<rows, saved>>,
           screens' \in Document \cup {NoDoc}, started' \in Nat, LapsesOK(lapses', rows)
    PROVE  Inv'
<1>1. /\ call' \in [Client -> LocalState]
      /\ \A d \in Client : call'[d] = IF d = c THEN l ELSE call[d]
  BY DEF Inv, TypeOK, Become
<1>2. TypeOK'
  BY <1>1 DEF Inv, TypeOK, LapsesOK
<1>3. HistoryContiguous' /\ ChainFaithful'
  BY DEF Inv, HistoryContiguous, ChainFaithful
<1>4. \A d \in Client : CallOK(call'[d], rows', saved')
  BY <1>1 DEF Inv
<1> QED
  BY <1>2, <1>3, <1>4 DEF Inv

\* An insert that the unique constraint lets through keeps Inv if it goes in
\* right after a version the client has seen and its row encodes the document.
LEMMA InsertStep ==
    ASSUME Inv, NEW c \in Client, NEW l \in LocalState, NEW v, NEW row \in Row,
           NEW d \in Document,
           v \notin DOMAIN rows, v - 1 \in {0} \cup DOMAIN rows, v \in Nat \ {0},
           row.snapshot <=> IsSnapshotVersion(v),
           row.snapshot => row.spec = d,
           ~row.snapshot => v - 1 \in DOMAIN saved
                            /\ ApplyPatches(saved[v - 1], row.patches) = d,
           InsertRow(v, row, d), Become(c, l), CallOK(l, rows', saved'),
           UNCHANGED <<screens, started>>, LapsesOK(lapses', rows')
    PROVE  /\ Inv'
           /\ v = CurrentVersion + 1
           /\ DOMAIN rows' = DOMAIN rows \cup {v}
           /\ \A u \in DOMAIN rows : rows'[u] = rows[u]
<1> DEFINE n == CurrentVersion
<1>1. n \in Nat /\ DOMAIN rows = 1 .. n
  BY CurrentVersionIsLength DEF Inv
<1> HIDE DEF n
<1>2. v = n + 1
  BY <1>1
<1>3. /\ DOMAIN rows' = DOMAIN rows \cup {v} /\ DOMAIN saved' = DOMAIN rows'
      /\ rows'[v] = row /\ saved'[v] = d
      /\ \A u \in DOMAIN rows : rows'[u] = rows[u] /\ saved'[u] = saved[u]
  <2>1. DOMAIN saved = DOMAIN rows
    BY DEF Inv, TypeOK
  <2> QED
    BY <2>1 DEF InsertRow, With
<1>4. DOMAIN rows' = 1 .. n + 1
  BY <1>1, <1>2, <1>3
<1>5. /\ call' \in [Client -> LocalState]
      /\ \A e \in Client : call'[e] = IF e = c THEN l ELSE call[e]
  BY DEF Inv, TypeOK, Become
<1>6. TypeOK'
  BY <1>3, <1>5 DEF Inv, TypeOK, LapsesOK
<1>7. HistoryContiguous'
  BY <1>1, <1>4 DEF HistoryContiguous
<1>8. ChainFaithful'
  <2> SUFFICES ASSUME NEW u \in DOMAIN rows'
               PROVE  /\ rows'[u].snapshot <=> IsSnapshotVersion(u)
                      /\ rows'[u].snapshot => rows'[u].spec = saved'[u]
                      /\ ~rows'[u].snapshot =>
                           /\ u - 1 \in DOMAIN saved'
                           /\ ApplyPatches(saved'[u - 1], rows'[u].patches) = saved'[u]
    BY DEF ChainFaithful
  <2>1. CASE u = v
    <3>1. v - 1 \in DOMAIN saved => saved'[v - 1] = saved[v - 1] /\ v - 1 \in DOMAIN saved'
      BY <1>3 DEF Inv, TypeOK
    <3> QED
      BY <1>3, <2>1, <3>1
  <2>2. CASE u \in DOMAIN rows
    <3>1. /\ rows[u].snapshot <=> IsSnapshotVersion(u)
          /\ rows[u].snapshot => rows[u].spec = saved[u]
          /\ ~rows[u].snapshot =>
               u - 1 \in DOMAIN saved /\ ApplyPatches(saved[u - 1], rows[u].patches) = saved[u]
      BY <2>2 DEF Inv, ChainFaithful
    <3>2. u - 1 \in DOMAIN saved => u - 1 \in DOMAIN saved' /\ saved'[u - 1] = saved[u - 1]
      BY <1>3 DEF Inv, TypeOK
    <3> QED
      BY <1>3, <2>2, <3>1, <3>2
  <2> QED
    BY <1>3, <2>1, <2>2
<1>9. \A e \in Client : CallOK(call'[e], rows', saved')
  <2> SUFFICES ASSUME NEW e \in Client, e # c PROVE CallOK(call'[e], rows', saved')
    BY <1>5
  <2>1. call'[e] = call[e] /\ call[e] \in LocalState /\ CallOK(call[e], rows, saved)
    BY <1>5 DEF Inv, TypeOK
  <2> QED
    BY <1>1, <1>3, <2>1, CallMonotone
<1> QED
  BY <1>2, <1>3, <1>6, <1>7, <1>8, <1>9 DEF Inv, n

-----------------------------------------------------------------------------
\* No client has read anything before it starts, so Idle is always right.
LEMMA IdleOK ==
    Idle \in LocalState /\ \A R, S : CallOK(Idle, R, S)
<1>1. NoEdit \in PatchList
  <2>1. [k \in {} |-> 0] \in [{} -> Value]
    OBVIOUS
  <2> QED
    BY <2>1 DEF NoEdit, PatchList, Document
<1>2. Idle \in LocalState
  BY <1>1 DEF Idle, LocalState, Label
<1>3. \A R, S : CallOK(Idle, R, S)
  BY DEF Idle, CallOK, SavingOK, LoadingOK, RollbackOK, Saving, Placing, LoadingPrevious, Loading
<1> QED
  BY <1>2, <1>3

LEMMA InitInv == Init => Inv
<1> SUFFICES ASSUME Init PROVE Inv
  OBVIOUS
<1>1. DOMAIN rows = {} /\ DOMAIN saved = {}
  BY DEF Init
<1>2. TypeOK
  BY <1>1, IdleOK, InputAssumption DEF Init, TypeOK
<1>3. HistoryContiguous /\ ChainFaithful
  BY <1>1 DEF HistoryContiguous, ChainFaithful
<1>4. \A c \in Client : CallOK(call[c], rows, saved)
  BY IdleOK DEF Init
<1> QED
  BY <1>2, <1>3, <1>4 DEF Inv

\* Ending a call, whether it returns, throws or dies, is always harmless.
LEMMA StopStep ==
    ASSUME Inv, NEW c \in Client, Stop(c), UNCHANGED <<rows, saved>>,
           screens' \in Document \cup {NoDoc}, started' \in Nat, LapsesOK(lapses', rows)
    PROVE  Inv'
BY IdleOK, LocalStep DEF Stop

-----------------------------------------------------------------------------
\* Commands: nothing but the clients' intentions and `screens` changes.
LEMMA CommandInv ==
    ASSUME Inv, NEW c \in Client, Command(c)
    PROVE  Inv'
<1> USE DEF Start
<1>1. /\ TypeOK
      /\ started + 1 \in Nat
      /\ Idle \in LocalState
  BY IdleOK DEF Inv, TypeOK
<1>2. ASSUME NEW d \in PushedDoc, Push(c, d)
      PROVE  Inv'
  <2> DEFINE l == [Idle EXCEPT !.pc = "readMax", !.cmd = "push", !.doc = d]
  <2>1. d \in Document
    BY InputAssumption
  <2>2. l \in LocalState
    BY <1>1, <2>1 DEF LocalState, Label
  <2>3. CallOK(l, rows, saved)
    BY <2>1 DEF Idle, CallOK, SavingOK, LoadingOK, RollbackOK, Saving, Placing,
                LoadingPrevious, Loading
  <2>4. /\ Become(c, l) /\ UNCHANGED <<rows, saved>>
        /\ screens' \in Document \cup {NoDoc} /\ started' \in Nat /\ LapsesOK(lapses', rows)
    BY <1>1, <1>2 DEF Push, TypeOK, LapsesOK
  <2> HIDE DEF l
  <2> QED
    BY <2>2, <2>3, <2>4, LocalStep
<1>3. ASSUME NEW d \in PushedDoc, PlainSave(c, d)
      PROVE  Inv'
  <2>1. d \in Document
    BY InputAssumption
  <2>2. TypeOK' /\ HistoryContiguous' /\ ChainFaithful'
    BY <1>1, <1>3, <2>1 DEF PlainSave, Inv, TypeOK, HistoryContiguous, ChainFaithful
  <2> QED
    BY <1>3, <2>2 DEF PlainSave, Inv
<1>4. ASSUME NEW e \in Edit, Patch(c, e)
      PROVE  Inv'
  <2> DEFINE d == ApplyPatches(screens, e)
             l == [Idle EXCEPT !.pc = "readMax", !.cmd = "patch", !.edit = e, !.doc = d]
  <2>1. e \in PatchList /\ d \in Document
    BY <1>1, <1>4, InputAssumption, ApplyPatchesType DEF Patch, TypeOK
  <2> HIDE DEF d
  <2>2. l \in LocalState
    BY <1>1, <2>1 DEF LocalState, Label
  <2>3. CallOK(l, rows, saved)
    BY <2>1 DEF Idle, CallOK, SavingOK, LoadingOK, RollbackOK, Saving, Placing,
                LoadingPrevious, Loading
  <2>4. /\ Become(c, l) /\ UNCHANGED <<rows, saved>>
        /\ screens' \in Document \cup {NoDoc} /\ started' \in Nat /\ LapsesOK(lapses', rows)
    BY <1>1, <1>4 DEF Patch, TypeOK, LapsesOK, d
  <2> HIDE DEF l
  <2> QED
    BY <2>2, <2>3, <2>4, LocalStep
<1>5. ASSUME NEW v \in Nat, Rollback(c, v)
      PROVE  Inv'
  <2> DEFINE l == [Idle EXCEPT !.pc = "checkRange", !.cmd = "rollback",
                               !.goal = "restore", !.target = v, !.restore = v]
  <2>1. l \in LocalState
    BY <1>1 DEF LocalState, Label
  <2>2. CallOK(l, rows, saved)
    BY DEF Idle, CallOK, SavingOK, LoadingOK, RollbackOK, Saving, Placing,
           LoadingPrevious, Loading
  <2>3. /\ Become(c, l) /\ UNCHANGED <<rows, saved>>
        /\ screens' \in Document \cup {NoDoc} /\ started' \in Nat /\ LapsesOK(lapses', rows)
    BY <1>1, <1>5 DEF Rollback, TypeOK, LapsesOK
  <2> HIDE DEF l
  <2> QED
    BY <2>1, <2>2, <2>3, LocalStep
<1>6. ASSUME NEW v \in Nat, View(c, v)
      PROVE  Inv'
  <2> DEFINE l == [Idle EXCEPT !.pc = "checkRange", !.target = v]
  <2>1. l \in LocalState
    BY <1>1 DEF LocalState, Label
  <2>2. CallOK(l, rows, saved)
    BY DEF Idle, CallOK, SavingOK, LoadingOK, RollbackOK, Saving, Placing,
           LoadingPrevious, Loading
  <2>3. /\ Become(c, l) /\ UNCHANGED <<rows, saved>>
        /\ screens' \in Document \cup {NoDoc} /\ started' \in Nat /\ LapsesOK(lapses', rows)
    BY <1>1, <1>6 DEF View, TypeOK, LapsesOK
  <2> HIDE DEF l
  <2> QED
    BY <2>1, <2>2, <2>3, LocalStep
<1>7. ASSUME Delete(c)
      PROVE  Inv'
  <2>1. TypeOK' /\ HistoryContiguous' /\ ChainFaithful'
    BY <1>1, <1>7 DEF Delete, Inv, TypeOK, HistoryContiguous, ChainFaithful
  <2> QED
    BY <1>7, <2>1 DEF Delete, Inv
<1>8. Nameable \subseteq Nat
  BY CurrentVersionIsLength DEF Inv, Nameable
<1> QED
  BY <1>2, <1>3, <1>4, <1>5, <1>6, <1>7, <1>8 DEF Command, VersionedCommand, PlainCommand

-----------------------------------------------------------------------------
\* loadVersion: each of its steps leaves the document in hand right for the
\* version it stands at.
LEMMA LoadInv ==
    ASSUME Inv, NEW c \in Client, LoadStep(c)
    PROVE  Inv'
<1> DEFINE m == call[c]
<1>1. /\ m \in LocalState
      /\ CallOK(m, rows, saved)
      /\ CurrentVersion \in Nat /\ DOMAIN rows = 1 .. CurrentVersion
      /\ DOMAIN saved = DOMAIN rows
      /\ \A v \in DOMAIN rows : rows[v] \in Row /\ saved[v] \in Document
      /\ screens \in Document \cup {NoDoc} /\ started \in Nat /\ LapsesOK(lapses, rows)
  BY CurrentVersionIsLength DEF Inv, TypeOK, LapsesOK
<1>2. ASSUME CheckRange(c)
      PROVE  Inv'
  <2>1. CASE m.target \in 1 .. CurrentVersion
    <3> DEFINE l == [m EXCEPT !.pc = "findSnapshot"]
    <3>1. l \in LocalState
      BY <1>1 DEF LocalState, Label
    <3>2. CallOK(l, rows, saved)
      BY <1>1, <1>2, <2>1 DEF CheckRange, At, LocalState, CallOK, SavingOK, LoadingOK,
         RollbackOK, Saving, Placing, LoadingPrevious, Loading
    <3>3. Become(c, l) /\ UNCHANGED <<rows, saved, screens, started, lapses>>
      BY <1>2, <2>1 DEF CheckRange
    <3> HIDE DEF l
    <3> QED
      BY <1>1, <3>1, <3>2, <3>3, LocalStep
  <2>2. CASE m.target \notin 1 .. CurrentVersion
    BY <1>1, <1>2, <2>2, StopStep DEF CheckRange
  <2> QED
    BY <2>1, <2>2
<1>3. ASSUME FindSnapshot(c)
      PROVE  Inv'
  <2>1. CASE Stop(c)
    BY <1>1, <1>3, <2>1, StopStep DEF FindSnapshot
  <2>2. ASSUME NEW s \in SnapshotsUpTo(m.target),
               \A u \in SnapshotsUpTo(m.target) : u <= s,
               Become(c, [m EXCEPT !.pc = IF s = m.target THEN "loaded" ELSE "fetchPatches",
                                   !.acc = rows[s].spec, !.pos = s])
        PROVE  Inv'
    <3> DEFINE l == [m EXCEPT !.pc = IF s = m.target THEN "loaded" ELSE "fetchPatches",
                              !.acc = rows[s].spec, !.pos = s]
    <3>1. /\ m.pc = "findSnapshot"
          /\ m.target \in DOMAIN rows /\ s \in DOMAIN rows /\ s <= m.target
          /\ rows[s].snapshot
      BY <1>1, <1>3 DEF FindSnapshot, At, SnapshotsUpTo, CallOK, LoadingOK
    <3>2. rows[s].spec = saved[s] /\ saved[s] \in Document
      BY <1>1, <3>1 DEF Inv, ChainFaithful
    <3>3. \A v \in s + 1 .. m.target : ~rows[v].snapshot
      BY <1>1, <2>2, <3>1 DEF SnapshotsUpTo
    <3>4. l \in LocalState
      <4> DEFINE label == IF s = m.target THEN "loaded" ELSE "fetchPatches"
      <4>1. label \in Label /\ s \in Nat /\ rows[s].spec \in Document \cup {NoDoc}
        BY <1>1, <3>1, <3>2 DEF Label
      <4> HIDE DEF label
      <4>2. [m EXCEPT !.pc = label, !.acc = rows[s].spec, !.pos = s] \in LocalState
        BY <1>1, <4>1 DEF LocalState
      <4> QED
        BY <4>2 DEF label
    <3>5. CallOK(l, rows, saved)
      BY <1>1, <3>1, <3>2, <3>3 DEF LocalState, CallOK, SavingOK, LoadingOK,
         RollbackOK, Saving, Placing, LoadingPrevious, Loading
    <3>6. Become(c, l) /\ UNCHANGED <<rows, saved, screens, started, lapses>>
      BY <1>3, <2>2 DEF FindSnapshot
    <3> HIDE DEF l
    <3> QED
      BY <1>1, <3>4, <3>5, <3>6, LocalStep
  <2> QED
    BY <1>3, <2>1, <2>2 DEF FindSnapshot
<1>4. ASSUME FetchPatches(c)
      PROVE  Inv'
  <2> DEFINE fetched == PatchRowsBetween(m.pos, m.target)
             batch == {[version |-> v, patches |-> rows[v].patches] : v \in fetched}
             l == [m EXCEPT !.pc = "replay", !.batch = batch]
  <2>1. /\ m.pc = "fetchPatches"
        /\ m.target \in DOMAIN rows /\ m.pos \in DOMAIN rows /\ m.pos < m.target
        /\ m.acc = saved[m.pos]
        /\ \A v \in m.pos + 1 .. m.target : ~rows[v].snapshot
    BY <1>1, <1>4 DEF FetchPatches, At, CallOK, LoadingOK
  <2>2. /\ \A v \in m.pos + 1 .. m.target : v \in fetched
        /\ \A v \in fetched : v \in Nat /\ rows[v].patches \in PatchList
    <3>1. \A v \in m.pos + 1 .. m.target : v \in DOMAIN rows /\ m.pos < v /\ v <= m.target
      BY <1>1, <2>1
    <3>2. \A v \in fetched : v \in DOMAIN rows /\ ~rows[v].snapshot
      BY DEF PatchRowsBetween
    <3>3. \A v \in DOMAIN rows : ~rows[v].snapshot => rows[v].patches \in PatchList
      BY <1>1, RowForm
    <3> QED
      BY <1>1, <2>1, <3>1, <3>2, <3>3 DEF PatchRowsBetween
  <2> HIDE DEF fetched
  <2>3. batch \in SUBSET [version : Nat, patches : PatchList]
    BY <2>2
  <2>4. \A v \in m.pos + 1 .. m.target :
          /\ \E row \in batch : row.version = v
          /\ \A row \in batch : row.version = v => row.patches = rows[v].patches
    <3>1. \A row \in batch : row.patches = rows[row.version].patches
      OBVIOUS
    <3>2. \A v \in fetched : [version |-> v, patches |-> rows[v].patches] \in batch
      OBVIOUS
    <3>3. \A v \in fetched : \E row \in batch : row.version = v
      BY <3>2
    <3> HIDE DEF batch
    <3> QED
      BY <2>2, <3>1, <3>3
  <2> HIDE DEF batch
  <2>5. l \in LocalState
    BY <1>1, <2>3 DEF LocalState, Label
  <2>6. CallOK(l, rows, saved)
    BY <1>1, <2>1, <2>4 DEF LocalState, CallOK, SavingOK, LoadingOK,
       RollbackOK, Saving, Placing, LoadingPrevious, Loading
  <2>7. Become(c, l) /\ UNCHANGED <<rows, saved, screens, started, lapses>>
    BY <1>4 DEF FetchPatches, batch, fetched
  <2> HIDE DEF l
  <2> QED
    BY <1>1, <2>5, <2>6, <2>7, LocalStep
<1>5. ASSUME Replay(c)
      PROVE  Inv'
  <2> DEFINE v == m.pos + 1
             moved == [m EXCEPT !.pc = IF v = m.target THEN "loaded" ELSE "replay", !.pos = v]
  <2>1. /\ m.pc = "replay"
        /\ m.target \in DOMAIN rows /\ m.pos \in DOMAIN rows /\ m.pos < m.target
        /\ m.acc = saved[m.pos]
        /\ \A u \in m.pos + 1 .. m.target :
             /\ ~rows[u].snapshot
             /\ \E row \in m.batch : row.version = u
             /\ \A row \in m.batch : row.version = u => row.patches = rows[u].patches
    BY <1>1, <1>5 DEF Replay, At, CallOK, LoadingOK
  <2>2. v \in m.pos + 1 .. m.target /\ v \in DOMAIN rows /\ v - 1 = m.pos
    BY <1>1, <2>1
  <2>3. PICK row \in m.batch : /\ row.version = v
                               /\ Become(c, [moved EXCEPT !.acc = ApplyPatches(m.acc, row.patches)])
    BY <1>5, <2>1, <2>2 DEF Replay
  <2> DEFINE l == [moved EXCEPT !.acc = ApplyPatches(m.acc, row.patches)]
  <2>4. row.patches = rows[v].patches /\ ~rows[v].snapshot
    BY <2>1, <2>2, <2>3
  <2>5. ApplyPatches(m.acc, row.patches) = saved[v] /\ saved[v] \in Document
    BY <1>1, <2>1, <2>2, <2>4 DEF Inv, ChainFaithful
  <2>6. l \in LocalState
    <3> DEFINE label == IF v = m.target THEN "loaded" ELSE "replay"
               next == ApplyPatches(m.acc, row.patches)
    <3>1. label \in Label /\ v \in Nat /\ next \in Document \cup {NoDoc}
      BY <1>1, <2>2, <2>5 DEF Label
    <3> HIDE DEF label, next, v
    <3>2. [m EXCEPT !.pc = label, !.pos = v, !.acc = next] \in LocalState
      BY <1>1, <3>1 DEF LocalState
    <3> QED
      BY <3>2 DEF label, next
  <2>7. CallOK(l, rows, saved)
    BY <1>1, <2>1, <2>2, <2>5 DEF LocalState, CallOK, SavingOK, LoadingOK,
       RollbackOK, Saving, Placing, LoadingPrevious, Loading
  <2>8. Become(c, l) /\ UNCHANGED <<rows, saved, screens, started, lapses>>
    BY <1>5, <2>3 DEF Replay
  <2> HIDE DEF l
  <2> QED
    BY <1>1, <2>6, <2>7, <2>8, LocalStep
<1>6. ASSUME Loaded(c)
      PROVE  Inv'
  <2>1. m.pc = "loaded" /\ m.target \in DOMAIN rows /\ m.acc = saved[m.target]
    BY <1>1, <1>6 DEF Loaded, At, CallOK, LoadingOK
  <2>2. CASE Stop(c)
    BY <1>1, <1>6, <2>2, StopStep DEF Loaded
  <2>3. CASE m.goal = "restore" /\ Become(c, [m EXCEPT !.pc = "readMax", !.doc = m.acc])
    <3> DEFINE l == [m EXCEPT !.pc = "readMax", !.doc = m.acc]
    <3>1. l \in LocalState
      BY <1>1 DEF LocalState, Label
    <3>2. CallOK(l, rows, saved)
      BY <1>1, <2>1, <2>3 DEF LocalState, CallOK, SavingOK, LoadingOK,
         RollbackOK, Saving, Placing, LoadingPrevious, Loading
    <3>3. Become(c, l) /\ UNCHANGED <<rows, saved, screens, started, lapses>>
      BY <1>6, <2>3 DEF Loaded
    <3> HIDE DEF l
    <3> QED
      BY <1>1, <3>1, <3>2, <3>3, LocalStep
  <2>4. CASE m.goal = "previous" /\ Become(c, [m EXCEPT !.pc = "insertPatch"])
    <3> DEFINE l == [m EXCEPT !.pc = "insertPatch"]
    <3>1. l \in LocalState
      BY <1>1 DEF LocalState, Label
    <3>2. CallOK(l, rows, saved)
      BY <1>1, <2>1, <2>4 DEF LocalState, CallOK, SavingOK, LoadingOK,
         RollbackOK, Saving, Placing, LoadingPrevious, Loading
    <3>3. Become(c, l) /\ UNCHANGED <<rows, saved, screens, started, lapses>>
      BY <1>6, <2>4 DEF Loaded
    <3> HIDE DEF l
    <3> QED
      BY <1>1, <3>1, <3>2, <3>3, LocalStep
  <2> QED
    BY <1>6, <2>2, <2>3, <2>4 DEF Loaded
<1> QED
  BY <1>2, <1>3, <1>4, <1>5, <1>6 DEF LoadStep

-----------------------------------------------------------------------------
\* The numbering rule: version 1 is a snapshot whatever the interval is.
LEMMA FirstIsSnapshot == IsSnapshotVersion(1)
BY DEF IsSnapshotVersion

\* The one way in which the history changes: one row more, right at the end.
Inserts(c) ==
    /\ ~At(c, "loaded") /\ call'[c].pc # "loaded"
    /\ \E row \in Row, d \in Document : InsertRow(CurrentVersion + 1, row, d)

\* saveVersion: its reads are right, and its inserts extend the chain.
LEMMA SaveInv ==
    ASSUME Inv, NEW c \in Client, SaveStep(c)
    PROVE  Inv' /\ (UNCHANGED <<rows, saved>> \/ Inserts(c))
<1> DEFINE m == call[c]
<1>1. /\ m \in LocalState
      /\ CallOK(m, rows, saved)
      /\ CurrentVersion \in Nat /\ DOMAIN rows = 1 .. CurrentVersion
      /\ DOMAIN saved = DOMAIN rows
      /\ \A v \in DOMAIN rows : rows[v] \in Row /\ saved[v] \in Document
      /\ screens \in Document \cup {NoDoc} /\ started \in Nat /\ LapsesOK(lapses, rows)
      /\ call \in [Client -> LocalState]
  BY CurrentVersionIsLength DEF Inv, TypeOK, LapsesOK
<1>2. \A l : Become(c, l) => call'[c] = l
  BY <1>1 DEF Become
<1>3. ASSUME ReadMax(c)
      PROVE  Inv' /\ UNCHANGED <<rows, saved>>
  <2>1. m.pc = "readMax" /\ m.doc \in Document
    BY <1>1, <1>3 DEF ReadMax, At, CallOK, SavingOK, Saving
  <2>2. CASE CurrentVersion = 0
    <3> DEFINE l == [m EXCEPT !.pc = "readScreens"]
    <3>1. l \in LocalState
      BY <1>1 DEF LocalState, Label
    <3>2. CallOK(l, rows, saved)
      BY <1>1, <2>1, <2>2 DEF LocalState, CallOK, SavingOK, LoadingOK,
         RollbackOK, Saving, Placing, LoadingPrevious, Loading
    <3>3. Become(c, l) /\ UNCHANGED <<rows, saved, screens, started, lapses>>
      BY <1>3, <2>2 DEF ReadMax
    <3> HIDE DEF l
    <3> QED
      BY <1>1, <3>1, <3>2, <3>3, LocalStep
  <2>3. CASE CurrentVersion # 0
    <3> DEFINE n == CurrentVersion
               l == WriteAfter(n, m)
    <3>1. n \in DOMAIN rows /\ n \in Nat /\ \A v \in DOMAIN rows : v <= n
      BY <1>1, <2>3
    <3>2. Become(c, l) /\ UNCHANGED <<rows, saved, screens, started, lapses>>
      BY <1>3, <2>3 DEF ReadMax
    <3> HIDE DEF n
    <3>3. l \in LocalState
      BY <1>1, <3>1 DEF LocalState, Label, WriteAfter
    <3>4. CallOK(l, rows, saved)
      <4>1. CASE IsSnapshotVersion(n + 1)
        BY <1>1, <2>1, <3>1, <4>1 DEF WriteAfter, LocalState, CallOK, SavingOK, LoadingOK,
           RollbackOK, Saving, Placing, LoadingPrevious, Loading
      <4>2. CASE ~IsSnapshotVersion(n + 1)
        BY <1>1, <2>1, <3>1, <4>2 DEF WriteAfter, LocalState, CallOK, SavingOK, LoadingOK,
           RollbackOK, Saving, Placing, LoadingPrevious, Loading
      <4> QED
        BY <4>1, <4>2
    <3> HIDE DEF l
    <3> QED
      BY <1>1, <3>2, <3>3, <3>4, LocalStep
  <2> QED
    BY <1>3, <2>2, <2>3 DEF ReadMax
<1>4. ASSUME ReadScreens(c)
      PROVE  Inv' /\ UNCHANGED <<rows, saved>>
  <2>1. m.pc = "readScreens" /\ m.doc \in Document /\ m.cmd # "rollback"
    BY <1>1, <1>4 DEF ReadScreens, At, CallOK, SavingOK, RollbackOK, Saving
  <2>2. CASE screens = NoDoc /\ Become(c, WriteAfter(0, m))
    <3> DEFINE l == [m EXCEPT !.pc = "insertSnapshot", !.cur = 0]
    <3>1. l \in LocalState
      BY <1>1 DEF LocalState, Label
    <3>2. CallOK(l, rows, saved)
      BY <1>1, <2>1, <2>2, FirstIsSnapshot DEF LocalState, CallOK, SavingOK, LoadingOK,
         RollbackOK, Saving, Placing, LoadingPrevious, Loading
    <3>3. Become(c, l) /\ UNCHANGED <<rows, saved, screens, started, lapses>>
      BY <1>4, <2>2, FirstIsSnapshot DEF ReadScreens, WriteAfter
    <3> HIDE DEF l
    <3> QED
      BY <1>1, <3>1, <3>2, <3>3, LocalStep
  <2>3. CASE screens # NoDoc /\ Become(c, [m EXCEPT !.pc = "insertBootstrap", !.acc = screens])
    <3> DEFINE l == [m EXCEPT !.pc = "insertBootstrap", !.acc = screens]
    <3>1. l \in LocalState
      BY <1>1 DEF LocalState, Label
    <3>2. CallOK(l, rows, saved)
      BY <1>1, <2>1, <2>3 DEF LocalState, CallOK, SavingOK, LoadingOK,
         RollbackOK, Saving, Placing, LoadingPrevious, Loading
    <3>3. Become(c, l) /\ UNCHANGED <<rows, saved, screens, started, lapses>>
      BY <1>4, <2>3 DEF ReadScreens
    <3> HIDE DEF l
    <3> QED
      BY <1>1, <3>1, <3>2, <3>3, LocalStep
  <2>4. CASE Become(c, WriteAfter(0, [m EXCEPT !.blind = TRUE]))
    <3> DEFINE l == [m EXCEPT !.blind = TRUE, !.pc = "insertSnapshot", !.cur = 0]
    <3>1. l \in LocalState
      BY <1>1 DEF LocalState, Label
    <3>2. CallOK(l, rows, saved)
      BY <1>1, <2>1, FirstIsSnapshot DEF LocalState, CallOK, SavingOK, LoadingOK,
         RollbackOK, Saving, Placing, LoadingPrevious, Loading
    <3>3. Become(c, l) /\ UNCHANGED <<rows, saved, screens, started, lapses>>
      BY <1>4, <2>4, FirstIsSnapshot DEF ReadScreens, WriteAfter
    <3> HIDE DEF l
    <3> QED
      BY <1>1, <3>1, <3>2, <3>3, LocalStep
  <2> QED
    BY <1>4, <2>2, <2>3, <2>4 DEF ReadScreens
<1>5. ASSUME InsertBootstrap(c)
      PROVE  Inv' /\ (UNCHANGED <<rows, saved>> \/ Inserts(c))
  <2>1. /\ m.pc = "insertBootstrap" /\ m.doc \in Document /\ m.acc \in Document
        /\ m.cmd # "rollback"
    BY <1>1, <1>5 DEF InsertBootstrap, At, CallOK, SavingOK, RollbackOK, Saving
  <2>2. CASE 1 \in DOMAIN rows
    BY <1>1, <1>5, <2>2, StopStep DEF InsertBootstrap
  <2>3. CASE 1 \notin DOMAIN rows
    <3> DEFINE l == WriteAfter(1, m)
               row == SnapshotRow(m.acc)
    <3>1. /\ InsertRow(1, row, m.acc) /\ Become(c, l)
          /\ UNCHANGED <<screens, started, lapses>>
      BY <1>5, <2>3 DEF InsertBootstrap
    <3>2. row \in Row /\ row.snapshot = TRUE /\ row.spec = m.acc
      BY <2>1 DEF SnapshotRow, Row
    <3>3. l \in LocalState /\ l.pc \in {"insertSnapshot", "checkRange"}
      BY <1>1 DEF LocalState, Label, WriteAfter
    <3>4. 1 \in DOMAIN rows'
      BY <3>1 DEF InsertRow, With
    <3>5. CallOK(l, rows', saved')
      <4>1. CASE IsSnapshotVersion(2)
        <5>1. l = [m EXCEPT !.pc = "insertSnapshot", !.cur = 1]
          BY <4>1 DEF WriteAfter
        <5> HIDE DEF l
        <5> QED
          BY <1>1, <2>1, <3>4, <4>1, <5>1 DEF LocalState, CallOK, SavingOK, LoadingOK,
             RollbackOK, Saving, Placing, LoadingPrevious, Loading
      <4>2. CASE ~IsSnapshotVersion(2)
        <5>1. l = [m EXCEPT !.pc = "checkRange", !.cur = 1, !.goal = "previous", !.target = 1]
          BY <4>2 DEF WriteAfter
        <5> HIDE DEF l
        <5> QED
          BY <1>1, <2>1, <3>4, <4>2, <5>1 DEF LocalState, CallOK, SavingOK, LoadingOK,
             RollbackOK, Saving, Placing, LoadingPrevious, Loading
      <4> QED
        BY <4>1, <4>2
    <3>6. call'[c] = l
      BY <1>2, <3>1
    <3> HIDE DEF l, row
    <3>7. Inv' /\ 1 = CurrentVersion + 1
      <4>1. 1 - 1 \in {0} \cup DOMAIN rows /\ 1 \in Nat \ {0}
        OBVIOUS
      <4>2. /\ row.snapshot <=> IsSnapshotVersion(1)
            /\ row.snapshot => row.spec = m.acc
            /\ ~row.snapshot => /\ 1 - 1 \in DOMAIN saved
                                /\ ApplyPatches(saved[1 - 1], row.patches) = m.acc
        BY <3>2, FirstIsSnapshot
      <4>3. LapsesOK(lapses', rows')
        BY <1>1, <2>3, <3>1 DEF LapsesOK
      <4> HIDE DEF m
      <4> QED
        BY <2>1, <2>3, <3>1, <3>2, <3>3, <3>5, <4>1, <4>2, <4>3, InsertStep
    <3>8. Inserts(c)
      BY <2>1, <3>1, <3>2, <3>3, <3>6, <3>7 DEF Inserts, At
    <3> QED
      BY <3>7, <3>8
  <2> QED
    BY <2>2, <2>3
<1>6. ASSUME NEW row \in Row, InsertVersion(c, row),
             m.pc \in {"insertSnapshot", "insertPatch"},
             row.snapshot <=> IsSnapshotVersion(m.cur + 1),
             row.snapshot => row.spec = m.doc,
             ~row.snapshot => /\ m.cur \in DOMAIN saved
                              /\ ApplyPatches(saved[m.cur], row.patches) = m.doc
      PROVE  Inv' /\ (UNCHANGED <<rows, saved>> \/ Inserts(c))
  <2> DEFINE v == m.cur + 1
             l == [m EXCEPT !.pc = "saveScreens"]
  <2>1. /\ m.cur \in Nat /\ m.cur \in {0} \cup DOMAIN rows /\ m.doc \in Document
        /\ m.cmd = "rollback" => /\ m.restore \in DOMAIN rows
                                 /\ m.doc = saved[m.restore]
                                 /\ m.restore <= m.cur
    BY <1>1, <1>6 DEF LocalState, CallOK, SavingOK, RollbackOK, Saving, Placing
  <2>2. CASE v \in DOMAIN rows
    BY <1>1, <1>6, <2>2, StopStep DEF InsertVersion
  <2>3. CASE v \notin DOMAIN rows
    <3>1. /\ InsertRow(v, row, m.doc) /\ Become(c, l)
          /\ UNCHANGED <<screens, started>>
      BY <1>6, <2>3 DEF InsertVersion
    <3>2. l \in LocalState
      BY <1>1 DEF LocalState, Label
    <3>3. /\ v \in DOMAIN rows' /\ saved'[v] = m.doc
          /\ m.restore \in DOMAIN rows =>
               m.restore \in DOMAIN rows' /\ saved'[m.restore] = saved[m.restore]
      BY <1>1, <2>3, <3>1 DEF InsertRow, With
    <3>4. CallOK(l, rows', saved')
      BY <1>1, <1>6, <2>1, <3>3 DEF LocalState, CallOK, SavingOK, LoadingOK,
         RollbackOK, Saving, Placing, LoadingPrevious, Loading
    <3>5. call'[c] = l /\ l.pc = "saveScreens"
      BY <1>1, <1>2, <3>1 DEF LocalState
    <3>6. v - 1 = m.cur /\ v \in Nat \ {0}
      BY <2>1
    <3>7. Inv' /\ v = CurrentVersion + 1
      <4>1. /\ row.snapshot <=> IsSnapshotVersion(v)
            /\ row.snapshot => row.spec = m.doc
            /\ ~row.snapshot => /\ v - 1 \in DOMAIN saved
                                /\ ApplyPatches(saved[v - 1], row.patches) = m.doc
            /\ v - 1 \in {0} \cup DOMAIN rows
        BY <1>6, <2>1, <3>6
      <4>2. LapsesOK(lapses', rows')
        <5>1. DOMAIN rows' = DOMAIN rows \cup {v}
          BY <3>1 DEF InsertRow, With
        <5>2. \E S, T \in SUBSET {v} :
                lapses' = [lapses EXCEPT !.unread = @ \cup S, !.raced = @ \cup T]
          BY <1>6, <2>3 DEF InsertVersion
        <5> QED
          BY <1>1, <5>1, <5>2 DEF LapsesOK
      <4> HIDE DEF l, v, m
      <4> QED
        BY <2>1, <2>3, <3>1, <3>2, <3>4, <3>6, <4>1, <4>2, InsertStep
    <3> HIDE DEF l
    <3>8. Inserts(c)
      BY <1>6, <2>1, <3>1, <3>5, <3>7 DEF Inserts, At
    <3> QED
      BY <3>7, <3>8
  <2> QED
    BY <2>2, <2>3
<1>7. ASSUME InsertSnapshot(c)
      PROVE  Inv' /\ (UNCHANGED <<rows, saved>> \/ Inserts(c))
  <2> DEFINE row == SnapshotRow(m.doc)
  <2>1. m.pc = "insertSnapshot" /\ m.doc \in Document /\ IsSnapshotVersion(m.cur + 1)
    BY <1>1, <1>7 DEF InsertSnapshot, At, CallOK, SavingOK, Saving, Placing
  <2>2. row \in Row /\ row.snapshot = TRUE /\ row.spec = m.doc
    BY <2>1 DEF SnapshotRow, Row
  <2>3. InsertVersion(c, row)
    BY <1>7 DEF InsertSnapshot
  <2> HIDE DEF row
  <2> QED
    BY <1>6, <2>1, <2>2, <2>3
<1>8. ASSUME InsertPatch(c)
      PROVE  Inv' /\ (UNCHANGED <<rows, saved>> \/ Inserts(c))
  <2> DEFINE patches == ComputePatches(m.acc, m.doc)
             row == PatchRow(patches)
  <2>1. /\ m.pc = "insertPatch" /\ m.doc \in Document /\ ~IsSnapshotVersion(m.cur + 1)
        /\ m.cur \in DOMAIN rows /\ m.acc = saved[m.cur]
    BY <1>1, <1>8 DEF InsertPatch, At, CallOK, SavingOK, Saving, Placing
  <2>2. m.acc \in Document
    BY <1>1, <2>1
  <2>3. patches \in PatchList /\ ApplyPatches(saved[m.cur], patches) = m.doc
    BY <2>1, <2>2, ComputePatchesType, PatchRoundTrip
  <2>4. InsertVersion(c, row)
    BY <1>8 DEF InsertPatch
  <2> HIDE DEF patches
  <2>5. row \in Row /\ row.snapshot = FALSE /\ row.patches = patches
    BY <2>3 DEF PatchRow, Row
  <2> HIDE DEF row
  <2> QED
    BY <1>1, <1>6, <2>1, <2>3, <2>4, <2>5
<1>9. ASSUME SaveScreens(c)
      PROVE  Inv' /\ UNCHANGED <<rows, saved>>
  <2>1. m.doc \in Document
    BY <1>1, <1>9 DEF SaveScreens, At, CallOK, SavingOK, Saving, Placing
  <2> QED
    BY <1>1, <1>9, <2>1, StopStep DEF SaveScreens
<1> QED
  BY <1>3, <1>4, <1>5, <1>7, <1>8, <1>9 DEF SaveStep

-----------------------------------------------------------------------------
\* Only a saveVersion step touches the history, and only as Inserts says; a
\* step of one client leaves the others' local variables alone.
LEMMA StepShape ==
    ASSUME Inv, NEW c \in Client, Command(c) \/ Step(c) \/ Crash(c)
    PROVE  /\ Inv'
           /\ UNCHANGED <<rows, saved>> \/ Inserts(c)
           /\ \A d \in Client \ {c} : call'[d] = call[d]
<1>1. ASSUME Command(c)
      PROVE  /\ Inv' /\ UNCHANGED <<rows, saved>>
             /\ \A d \in Client \ {c} : call'[d] = call[d]
  <2>1. UNCHANGED <<rows, saved>>
    BY <1>1 DEF Command, VersionedCommand, PlainCommand, Push, PlainSave, Patch, Rollback, View, Delete
  <2>2. UNCHANGED call \/ \E l : Become(c, l)
    BY <1>1 DEF Command, VersionedCommand, PlainCommand, Push, PlainSave, Patch, Rollback, View, Delete
  <2>3. \A d \in Client \ {c} : call'[d] = call[d]
    BY <2>2 DEF Become, Inv, TypeOK
  <2> QED
    BY <1>1, <2>1, <2>3, CommandInv
<1>2. ASSUME LoadStep(c)
      PROVE  /\ Inv' /\ UNCHANGED <<rows, saved>>
             /\ \A d \in Client \ {c} : call'[d] = call[d]
  <2>1. UNCHANGED <<rows, saved>>
    BY <1>2 DEF LoadStep, CheckRange, FindSnapshot, FetchPatches, Replay, Loaded
  <2>2. \E l : Become(c, l)
    BY <1>2 DEF LoadStep, CheckRange, FindSnapshot, FetchPatches, Replay, Loaded, Stop
  <2>3. \A d \in Client \ {c} : call'[d] = call[d]
    BY <2>2 DEF Become, Inv, TypeOK
  <2> QED
    BY <1>2, <2>1, <2>3, LoadInv
<1>3. ASSUME SaveStep(c)
      PROVE  /\ Inv' /\ (UNCHANGED <<rows, saved>> \/ Inserts(c))
             /\ \A d \in Client \ {c} : call'[d] = call[d]
  <2>1. \E l : Become(c, l)
    BY <1>3 DEF SaveStep, ReadMax, ReadScreens, InsertBootstrap, InsertSnapshot,
       InsertPatch, InsertVersion, SaveScreens, Stop
  <2>2. \A d \in Client \ {c} : call'[d] = call[d]
    BY <2>1 DEF Become, Inv, TypeOK
  <2> QED
    BY <1>3, <2>2, SaveInv
<1>4. ASSUME Crash(c)
      PROVE  /\ Inv' /\ UNCHANGED <<rows, saved>>
             /\ \A d \in Client \ {c} : call'[d] = call[d]
  <2>1. Stop(c) /\ UNCHANGED <<rows, screens, started, saved>>
    BY <1>4 DEF Crash
  <2>3. LapsesOK(lapses', rows)
    <3>1. At(c, "saveScreens") => call[c].cur + 1 \in DOMAIN rows
      BY DEF Inv, CallOK, SavingOK, At
    <3>2. \E S \in SUBSET DOMAIN rows : lapses' = [lapses EXCEPT !.cut = @ \cup S]
      BY <1>4, <3>1 DEF Crash
    <3> QED
      BY <3>2 DEF Inv, TypeOK, LapsesOK
  <2>2. \A d \in Client \ {c} : call'[d] = call[d]
    BY <2>1 DEF Stop, Become, Inv, TypeOK
  <2> QED
    BY <2>1, <2>2, <2>3, StopStep DEF Inv, TypeOK
<1> QED
  BY <1>1, <1>2, <1>3, <1>4 DEF Step

LEMMA NextInv == Inv /\ [Next]_vars => Inv'
<1> SUFFICES ASSUME Inv, [Next]_vars PROVE Inv'
  OBVIOUS
<1>1. CASE Next
  BY <1>1, StepShape DEF Next
<1>2. CASE UNCHANGED vars
  BY <1>2 DEF vars, Inv, TypeOK, HistoryContiguous, ChainFaithful
<1> QED
  BY <1>1, <1>2

\* The inductive invariant holds in every behaviour.
THEOREM Invariance == Spec => []Inv
BY InitInv, NextInv, PTL DEF Spec

\* No row without a document and no document lost from a row, for any clients.
THEOREM TypeCorrect == Spec => []TypeOK
<1>1. Inv => TypeOK
  BY DEF Inv
<1> QED
  BY <1>1, Invariance, PTL

\* Versions are numbered without gaps, for any number of racing processes.
THEOREM Contiguity == Spec => []HistoryContiguous
<1>1. Inv => HistoryContiguous
  BY DEF Inv
<1> QED
  BY <1>1, Invariance, PTL

\* The chain of snapshots and patches encodes the saved documents, for any
\* documents, any configured interval and any length of the history.
THEOREM ChainCorrect == Spec => []ChainFaithful
<1>1. Inv => ChainFaithful
  BY DEF Inv
<1> QED
  BY <1>1, Invariance, PTL

\* Versions 1 .. n without a gap, each of which encodes its document.
THEOREM HistoryCorrect == Spec => []HistorySound
BY Contiguity, ChainCorrect, PTL DEF HistorySound

\* loadVersion answers with the document that was saved.
THEOREM LoadsCorrect == Spec => []LoadFaithful
<1>1. Inv => LoadFaithful
  BY DEF Inv, TypeOK, LoadFaithful, At, CallOK, LoadingOK
<1> QED
  BY <1>1, Invariance, PTL

\* A rollback's version has the content of the target.
THEOREM RollbacksCorrect == Spec => []RollbackRestores
<1>1. Inv => RollbackRestores
  <2> SUFFICES ASSUME Inv, NEW c \in Client, At(c, "saveScreens"), call[c].cmd = "rollback"
               PROVE  /\ call[c].restore \in 1 .. call[c].cur
                      /\ saved[call[c].cur + 1] = saved[call[c].restore]
    BY DEF RollbackRestores
  <2> DEFINE m == call[c]
  <2>1. /\ m \in LocalState /\ m.restore \in DOMAIN rows /\ m.doc = saved[m.restore]
        /\ m.restore <= m.cur /\ saved[m.cur + 1] = m.doc
    BY DEF Inv, TypeOK, At, CallOK, SavingOK, RollbackOK, Placing
  <2>2. m.restore >= 1 /\ m.restore \in Nat /\ m.cur \in Nat
    BY <2>1, CurrentVersionIsLength DEF Inv, LocalState
  <2> QED
    BY <2>1, <2>2
<1> QED
  BY <1>1, Invariance, PTL

\* Loads and rollbacks give back what was saved.
THEOREM ReadsCorrect == Spec => []ReadsFaithful
BY LoadsCorrect, RollbacksCorrect, PTL DEF ReadsFaithful

\* History is never rewritten, by any client in any interleaving.
THEOREM AppendOnly == Spec => HistoryAppendOnly
<1> DEFINE A == /\ \A v \in DOMAIN rows : v \in DOMAIN rows' /\ rows'[v] = rows[v]
                /\ \A v \in DOMAIN rows' \ DOMAIN rows : v = CurrentVersion + 1
<1>1. Inv /\ [Next]_vars => [A]_vars
  <2> SUFFICES ASSUME Inv, NEW c \in Client, Command(c) \/ Step(c) \/ Crash(c)
               PROVE  A
    BY DEF Next
  <2>1. CASE UNCHANGED rows
    BY <2>1
  <2>2. CASE Inserts(c)
    <3>1. PICK row \in Row, d \in Document : InsertRow(CurrentVersion + 1, row, d)
      BY <2>2 DEF Inserts
    <3>2. DOMAIN rows = 1 .. CurrentVersion /\ CurrentVersion \in Nat
      BY CurrentVersionIsLength DEF Inv
    <3>3. CurrentVersion + 1 \notin DOMAIN rows
      BY <3>2
    <3> QED
      BY <3>1, <3>3 DEF InsertRow, With
  <2> QED
    BY <2>1, <2>2, StepShape
<1> QED
  BY <1>1, Invariance, PTL DEF Spec, HistoryAppendOnly

-----------------------------------------------------------------------------
\* Between two states, the version a client holds follows from its own label.
LEMMA AnswersStep ==
    ASSUME Inv, Inv', NEW c \in Client, \A d \in Client \ {c} : call'[d] = call[d]
    PROVE  Answers' = [Answers EXCEPT ![c] = Answers'[c]]
<1>1. \A d \in Client \ {c} : Answers'[d] = Answers[d]
  BY DEF Answers, At
<1>2. /\ Answers = [d \in Client |-> Answers[d]]
      /\ Answers' = [d \in Client |-> Answers'[d]]
  BY DEF Answers
<1> HIDE DEF Answers
<1> QED
  BY <1>1, <1>2

\* The store implements the abstract history: every step of every client is an
\* append, a load, a forgetting or a stutter of VersionHistory.
THEOREM Refinement == Spec => SavedHistory
<1>1. Init => Saved!HistoryInit
  BY DEF Init, Saved!HistoryInit, Answers, At, Idle
<1>2. Inv /\ [Next]_vars => [Saved!HistoryNext]_(Saved!historyVars)
  <2>1. ASSUME Inv, NEW c \in Client, Command(c) \/ Step(c) \/ Crash(c)
        PROVE  Saved!HistoryNext \/ UNCHANGED Saved!historyVars
    <3>1. /\ UNCHANGED <<rows, saved>> \/ Inserts(c)
          /\ \A d \in Client \ {c} : call'[d] = call[d]
      BY <2>1, StepShape
    <3>2. Inv'
      BY <2>1, StepShape
    <3>3. Answers' = [Answers EXCEPT ![c] = Answers'[c]]
      BY <2>1, <3>1, <3>2, AnswersStep
    <3>4. CASE call'[c].pc = "loaded"
      <4>1. UNCHANGED <<rows, saved>>
        BY <3>1, <3>4 DEF Inserts
      <4> DEFINE v == call'[c].target
      <4>2. CallOK(call'[c], rows', saved') /\ DOMAIN saved = DOMAIN rows
        BY <2>1, <3>2 DEF Inv, TypeOK
      <4>3. v \in DOMAIN saved /\ call'[c].acc = saved[v]
        BY <3>4, <4>1, <4>2 DEF CallOK, LoadingOK
      <4>4. Answers'[c] = [version |-> v, doc |-> saved[v]]
        BY <3>4, <4>3 DEF Answers, At
      <4>5. Saved!Load(c, v)
        BY <3>3, <4>1, <4>3, <4>4 DEF Saved!Load
      <4> QED
        BY <4>3, <4>5 DEF Saved!HistoryNext
    <3>5. CASE call'[c].pc # "loaded" /\ UNCHANGED <<rows, saved>>
      <4>1. Answers'[c] = NoDoc
        BY <3>5 DEF Answers, At
      <4>2. Saved!Forget(c)
        BY <3>3, <3>5, <4>1 DEF Saved!Forget
      <4> QED
        BY <4>2 DEF Saved!HistoryNext
    <3>6. CASE Inserts(c)
      <4> DEFINE n == CurrentVersion
      <4>1. n \in Nat /\ DOMAIN rows = 1 .. n /\ DOMAIN saved = 1 .. n
        BY <2>1, CurrentVersionIsLength DEF Inv, TypeOK
      <4>2. PICK row \in Row, d \in Document : InsertRow(n + 1, row, d)
        BY <3>6 DEF Inserts
      <4> HIDE DEF n
      <4>3. saved' = [v \in 1 .. n + 1 |-> IF v = n + 1 THEN d ELSE saved[v]]
        <5>1. (1 .. n) \cup {n + 1} = 1 .. n + 1
          BY <4>1
        <5> QED
          BY <4>1, <4>2, <5>1 DEF InsertRow, With
      <4>4. Answers[c] = NoDoc /\ Answers'[c] = NoDoc
        BY <3>6 DEF Inserts, Answers, At
      <4>5. UNCHANGED Answers
        <5>1. Answers = [d2 \in Client |-> Answers[d2]]
          BY DEF Answers
        <5> HIDE DEF Answers
        <5> QED
          BY <3>3, <4>4, <5>1
      <4>6. n \in {0} \cup DOMAIN saved
        BY <4>1
      <4>7. Saved!Append(d)
        BY <4>1, <4>3, <4>5, <4>6 DEF Saved!Append
      <4> QED
        BY <4>7 DEF Saved!HistoryNext
    <3> QED
      BY <3>1, <3>4, <3>5, <3>6
  <2> QED
    BY <2>1 DEF Next, vars, Saved!historyVars, Answers, At
<1> QED
  BY <1>1, <1>2, Invariance, PTL DEF Spec, SavedHistory, Saved!HistorySpec
-----------------------------------------------------------------------------
(***************************************************************************)
(* The current spec and the history agree.  Three more invariants, each on *)
(* top of the one before: AuthoredInv and NewestInv for clients that all   *)
(* name an author, LoneInv for one client that does.                       *)
(***************************************************************************)
\* MAX(version) of any table with the versions 1 .. n.
LEMMA MaxOfRange ==
    ASSUME NEW R, NEW n \in Nat, DOMAIN R = 1 .. n
    PROVE  (IF DOMAIN R = {} THEN 0
            ELSE CHOOSE v \in DOMAIN R : \A u \in DOMAIN R : u <= v) = n
<1>1. CASE n = 0
  BY <1>1
<1>2. CASE n # 0
  <2>1. n \in DOMAIN R /\ \A u \in DOMAIN R : u <= n
    BY <1>2
  <2>2. \A m \in DOMAIN R : (\A u \in DOMAIN R : u <= m) => m = n
    BY <2>1
  <2> QED
    BY <2>1, <2>2
<1> QED
  BY <1>1, <1>2

\* An insert right after the newest version makes that the newest version.
LEMMA Inserted ==
    ASSUME Inv, NEW row, NEW d, NEW n, n = CurrentVersion, InsertRow(n + 1, row, d)
    PROVE  /\ n \in Nat /\ DOMAIN rows = 1 .. n /\ DOMAIN saved = 1 .. n
           /\ DOMAIN rows' = 1 .. n + 1 /\ DOMAIN saved' = 1 .. n + 1
           /\ CurrentVersion' = n + 1
           /\ saved'[n + 1] = d
           /\ \A v \in 1 .. n : saved'[v] = saved[v]
<1>1. n \in Nat /\ DOMAIN rows = 1 .. n /\ DOMAIN saved = 1 .. n
  BY CurrentVersionIsLength DEF Inv, TypeOK
<1>2. (1 .. n) \cup {n + 1} = 1 .. n + 1
  BY <1>1
<1>3. DOMAIN rows' = 1 .. n + 1 /\ DOMAIN saved' = 1 .. n + 1
  BY <1>1, <1>2 DEF InsertRow, With
<1>4. n + 1 \in Nat
  BY <1>1
<1>5. CurrentVersion' = n + 1
  BY <1>3, <1>4, MaxOfRange DEF CurrentVersion
<1>6. saved'[n + 1] = d /\ \A v \in 1 .. n : saved'[v] = saved[v]
  BY <1>1, <1>2 DEF InsertRow, With
<1> QED
  BY <1>1, <1>3, <1>5, <1>6

-----------------------------------------------------------------------------
\* What a command becomes while it loads: it keeps what it was started for, except that a
\* rollback takes the document it has loaded for the one to save.
Keeps(m, l) ==
    \/ l = Idle
    \/ l.cmd = m.cmd /\ l.edit = m.edit /\ (l.doc = m.doc \/ l.cmd = "rollback")

Elsewhere(l) == l.pc \notin {"insertBootstrap", "insertSnapshot", "saveScreens"}

\* Commands that name an author leave the tables alone; a patch starts from the current spec.
LEMMA CommandKeeps ==
    ASSUME Inv, NEW c \in Client, VersionedCommand(c)
    PROVE  /\ UNCHANGED <<rows, saved, screens, lapses>> /\ call[c].pc = "idle"
           /\ \E l : /\ Become(c, l) /\ Elsewhere(l)
                     /\ l.cmd = "patch" => l.doc = ApplyPatches(screens, l.edit)
<1>1. /\ \E d : Push(c, d) \/ Patch(c, d) \/ Rollback(c, d) \/ View(c, d)
      /\ UNCHANGED <<rows, saved, screens, lapses>> /\ call[c].pc = "idle"
  BY DEF VersionedCommand, Push, Patch, Rollback, View, Start, At
<1>2. PICK d : Push(c, d) \/ Patch(c, d) \/ Rollback(c, d) \/ View(c, d)
  BY <1>1
<1>3. CASE Push(c, d)
  <2> DEFINE l == [Idle EXCEPT !.pc = "readMax", !.cmd = "push", !.doc = d]
  <2>1. Become(c, l)
    BY <1>3 DEF Push
  <2>2. l.pc = "readMax" /\ l.cmd = "push"
    BY DEF Idle
  <2> HIDE DEF l
  <2> QED
    BY <1>1, <2>1, <2>2 DEF Elsewhere
<1>4. CASE Patch(c, d)
  <2> DEFINE new == ApplyPatches(screens, d)
             l == [Idle EXCEPT !.pc = "readMax", !.cmd = "patch", !.edit = d, !.doc = new]
  <2>1. Become(c, l)
    BY <1>4 DEF Patch
  <2> HIDE DEF new
  <2>2. l.pc = "readMax" /\ l.edit = d /\ l.doc = new
    BY DEF Idle
  <2> HIDE DEF l
  <2> QED
    BY <1>1, <2>1, <2>2 DEF Elsewhere, new
<1>5. CASE Rollback(c, d)
  <2> DEFINE l == [Idle EXCEPT !.pc = "checkRange", !.cmd = "rollback", !.goal = "restore",
                         !.target = d, !.restore = d]
  <2>1. Become(c, l)
    BY <1>5 DEF Rollback
  <2>2. l.pc = "checkRange" /\ l.cmd = "rollback"
    BY DEF Idle
  <2> HIDE DEF l
  <2> QED
    BY <1>1, <2>1, <2>2 DEF Elsewhere
<1>6. CASE View(c, d)
  <2> DEFINE l == [Idle EXCEPT !.pc = "checkRange", !.target = d]
  <2>1. Become(c, l)
    BY <1>6 DEF View
  <2>2. l.pc = "checkRange" /\ l.cmd = "view"
    BY DEF Idle
  <2> HIDE DEF l
  <2> QED
    BY <1>1, <2>1, <2>2 DEF Elsewhere
<1> QED
  BY <1>2, <1>3, <1>4, <1>5, <1>6

\* loadVersion leaves the tables alone and keeps the command's document.
LEMMA LoadKeeps ==
    ASSUME Inv, NEW c \in Client, LoadStep(c)
    PROVE  /\ UNCHANGED <<rows, saved, screens, lapses>>
           /\ call[c].pc \in Loading
           /\ \E l : Become(c, l) /\ Elsewhere(l) /\ Keeps(call[c], l)
<1> DEFINE m == call[c]
           Right(l) == Become(c, l) /\ Elsewhere(l) /\ Keeps(m, l)
<1>1. m \in LocalState /\ CallOK(m, rows, saved)
  BY DEF Inv, TypeOK
<1>2. UNCHANGED <<rows, saved, screens, lapses>> /\ m.pc \in Loading
  BY DEF LoadStep, CheckRange, FindSnapshot, FetchPatches, Replay, Loaded, At, Loading
<1>3. Elsewhere(Idle) /\ Keeps(m, Idle)
  BY DEF Idle, Elsewhere, Keeps
<1>4. ASSUME CheckRange(c)
      PROVE  \E l : Right(l)
  <2> DEFINE l == [m EXCEPT !.pc = "findSnapshot"]
  <2>1. Become(c, l) \/ Become(c, Idle)
    BY <1>4 DEF CheckRange, Stop
  <2>2. Elsewhere(l) /\ Keeps(m, l)
    BY <1>1 DEF LocalState, Elsewhere, Keeps
  <2> HIDE DEF l
  <2> QED
    BY <1>3, <2>1, <2>2
<1>5. ASSUME FindSnapshot(c)
      PROVE  \E l : Right(l)
  <2> DEFINE l(s) == [m EXCEPT !.pc = IF s = m.target THEN "loaded" ELSE "fetchPatches",
                               !.acc = rows[s].spec, !.pos = s]
  <2>1. Become(c, Idle) \/ \E s \in DOMAIN rows : Become(c, l(s))
    BY <1>5 DEF FindSnapshot, Stop, SnapshotsUpTo
  <2>2. \A s : Elsewhere(l(s)) /\ Keeps(m, l(s))
    BY <1>1 DEF LocalState, Elsewhere, Keeps
  <2> HIDE DEF l
  <2> QED
    BY <1>3, <2>1, <2>2
<1>6. ASSUME FetchPatches(c)
      PROVE  \E l : Right(l)
  <2> DEFINE b == {[version |-> v, patches |-> rows[v].patches] :
                     v \in PatchRowsBetween(m.pos, m.target)}
             l == [m EXCEPT !.pc = "replay", !.batch = b]
  <2>1. Become(c, l)
    BY <1>6 DEF FetchPatches
  <2> HIDE DEF b
  <2>2. Elsewhere(l) /\ Keeps(m, l)
    BY <1>1 DEF LocalState, Elsewhere, Keeps
  <2> HIDE DEF l
  <2> QED
    BY <2>1, <2>2
<1>7. ASSUME Replay(c)
      PROVE  \E l : Right(l)
  <2> DEFINE moved == [m EXCEPT !.pc = IF m.pos + 1 = m.target THEN "loaded" ELSE "replay",
                                !.pos = m.pos + 1]
             with(d) == [moved EXCEPT !.acc = d]
  <2>1. \/ Become(c, moved)
        \/ \E row \in m.batch : Become(c, with(ApplyPatches(m.acc, row.patches)))
    BY <1>7 DEF Replay
  <2>2. Elsewhere(moved) /\ Keeps(m, moved)
    BY <1>1 DEF LocalState, Elsewhere, Keeps
  <2>3. \A d : Elsewhere(with(d)) /\ Keeps(m, with(d))
    BY <1>1 DEF LocalState, Elsewhere, Keeps
  <2> HIDE DEF moved, with
  <2> QED
    BY <2>1, <2>2, <2>3
<1>8. ASSUME Loaded(c)
      PROVE  \E l : Right(l)
  <2> DEFINE l == [m EXCEPT !.pc = "readMax", !.doc = m.acc]
             k == [m EXCEPT !.pc = "insertPatch"]
  <2>1. Become(c, Idle) \/ (m.goal = "restore" /\ Become(c, l)) \/ Become(c, k)
    BY <1>8 DEF Loaded, Stop
  <2>2. Elsewhere(k) /\ Keeps(m, k)
    BY <1>1 DEF LocalState, Elsewhere, Keeps
  <2>3. m.goal = "restore" => m.cmd = "rollback"
    BY <1>1, <1>2 DEF CallOK, RollbackOK
  <2>4. m.goal = "restore" => Elsewhere(l) /\ Keeps(m, l)
    BY <1>1, <2>3 DEF LocalState, Elsewhere, Keeps
  <2> HIDE DEF l, k
  <2> QED
    BY <1>3, <2>1, <2>2, <2>4
<1> QED
  BY <1>2, <1>4, <1>5, <1>6, <1>7, <1>8 DEF LoadStep

\* saveVersion: the five things one of its steps can do.
LEMMA SaveKeeps ==
    ASSUME Inv, NEW c \in Client, SaveStep(c)
    PROVE  LET m == call[c]
           IN  \/ /\ UNCHANGED <<rows, saved, screens, lapses>>
                  /\ m.pc # "saveScreens"
                  /\ \E l : Become(c, l) /\ l.pc # "saveScreens" /\ Keeps(m, l)
               \/ /\ UNCHANGED <<screens, lapses>>
                  /\ m.pc = "insertBootstrap" /\ CurrentVersion = 0
                  /\ \E row : InsertRow(1, row, m.acc)
                  /\ \E l : Become(c, l) /\ l.pc # "saveScreens" /\ Keeps(m, l)
               \/ /\ UNCHANGED screens
                  /\ m.pc \in {"insertSnapshot", "insertPatch"} /\ m.cur = CurrentVersion
                  /\ \E row : InsertRow(m.cur + 1, row, m.doc)
                  /\ lapses'.cut = lapses.cut /\ lapses.unread \subseteq lapses'.unread
                  /\ lapses'.raced = lapses.raced \cup
                       IF \E e \in Client : At(e, "saveScreens") THEN {m.cur + 1} ELSE {}
                  /\ \E l : Become(c, l) /\ Keeps(m, l) /\ l.pc = "saveScreens" /\ l.cur = m.cur
               \/ /\ m.pc = "saveScreens" /\ screens' = m.doc
                  /\ UNCHANGED <<rows, saved, lapses>> /\ Become(c, Idle)
<1> DEFINE m == call[c]
           Quietly == /\ UNCHANGED <<rows, saved, screens, lapses>>
                      /\ m.pc # "saveScreens"
                      /\ \E l : Become(c, l) /\ l.pc # "saveScreens" /\ Keeps(m, l)
<1>1. /\ m \in LocalState /\ CallOK(m, rows, saved) /\ DOMAIN rows = DOMAIN saved
      /\ CurrentVersion \in Nat /\ DOMAIN rows = 1 .. CurrentVersion
      /\ LapsesOK(lapses, rows)
  BY CurrentVersionIsLength DEF Inv, TypeOK, LapsesOK
<1>2. Idle.pc = "idle" /\ Keeps(m, Idle)
  BY DEF Idle, Keeps
<1>3. \A k : LET l == WriteAfter(k, m) IN l.pc # "saveScreens" /\ Keeps(m, l)
  BY <1>1 DEF WriteAfter, LocalState, Keeps
<1>4. ASSUME ReadMax(c)
      PROVE  Quietly
  <2> DEFINE l == [m EXCEPT !.pc = "readScreens"]
  <2>1. Become(c, l) \/ Become(c, WriteAfter(CurrentVersion, m))
    BY <1>4 DEF ReadMax
  <2>2. l.pc # "saveScreens" /\ Keeps(m, l)
    BY <1>1 DEF LocalState, Keeps
  <2>3. UNCHANGED <<rows, saved, screens, lapses>> /\ m.pc # "saveScreens"
    BY <1>4 DEF ReadMax, At
  <2> HIDE DEF l, m
  <2> QED
    BY <1>3, <2>1, <2>2, <2>3
<1>5. ASSUME ReadScreens(c)
      PROVE  Quietly
  <2> DEFINE l == [m EXCEPT !.pc = "insertBootstrap", !.acc = screens]
             k == WriteAfter(0, [m EXCEPT !.blind = TRUE])
  <2>1. Become(c, l) \/ Become(c, k) \/ Become(c, WriteAfter(0, m))
    BY <1>5 DEF ReadScreens
  <2>2. l.pc # "saveScreens" /\ Keeps(m, l)
    BY <1>1 DEF LocalState, Keeps
  <2>3. k.pc # "saveScreens" /\ Keeps(m, k)
    BY <1>1 DEF LocalState, Keeps, WriteAfter
  <2>4. UNCHANGED <<rows, saved, screens, lapses>> /\ m.pc # "saveScreens"
    BY <1>5 DEF ReadScreens, At
  <2> HIDE DEF l, k, m
  <2> QED
    BY <1>3, <2>1, <2>2, <2>3, <2>4
<1>6. ASSUME InsertBootstrap(c)
      PROVE  \/ Quietly
             \/ /\ UNCHANGED <<screens, lapses>>
                /\ m.pc = "insertBootstrap" /\ CurrentVersion = 0
                /\ \E row : InsertRow(1, row, m.acc)
                /\ \E l : Become(c, l) /\ l.pc # "saveScreens" /\ Keeps(m, l)
  <2>1. m.pc = "insertBootstrap" /\ UNCHANGED <<screens, lapses>>
    BY <1>6 DEF InsertBootstrap, At
  <2>2. CASE 1 \in DOMAIN rows
    BY <1>2, <1>6, <2>1, <2>2 DEF InsertBootstrap, Stop
  <2>3. CASE 1 \notin DOMAIN rows
    <3>1. CurrentVersion = 0
      BY <1>1, <2>3
    <3>2. InsertRow(1, SnapshotRow(m.acc), m.acc) /\ Become(c, WriteAfter(1, m))
      BY <1>6, <2>3 DEF InsertBootstrap
    <3> HIDE DEF m
    <3> QED
      BY <1>3, <2>1, <3>1, <3>2
  <2> QED
    BY <2>2, <2>3
<1>7. ASSUME NEW row, InsertVersion(c, row), m.pc \in {"insertSnapshot", "insertPatch"}
      PROVE  \/ Quietly
             \/ /\ UNCHANGED screens
                /\ m.pc \in {"insertSnapshot", "insertPatch"} /\ m.cur = CurrentVersion
                /\ InsertRow(m.cur + 1, row, m.doc)
                /\ lapses'.cut = lapses.cut /\ lapses.unread \subseteq lapses'.unread
                /\ lapses'.raced = lapses.raced \cup
                     IF \E e \in Client : At(e, "saveScreens") THEN {m.cur + 1} ELSE {}
                /\ \E l : Become(c, l) /\ Keeps(m, l) /\ l.pc = "saveScreens" /\ l.cur = m.cur
  <2>1. CASE m.cur + 1 \in DOMAIN rows
    BY <1>2, <1>7, <2>1 DEF InsertVersion, Stop
  <2>2. CASE m.cur + 1 \notin DOMAIN rows
    <3> DEFINE l == [m EXCEPT !.pc = "saveScreens"]
               raced == lapses.raced \cup
                          IF \E e \in Client : At(e, "saveScreens") THEN {m.cur + 1} ELSE {}
    <3>1. /\ InsertRow(m.cur + 1, row, m.doc) /\ Become(c, l) /\ UNCHANGED screens
          /\ \E S : lapses' = [lapses EXCEPT !.unread = @ \cup S, !.raced = raced]
      BY <1>7, <2>2 DEF InsertVersion
    <3>2. m.cur = CurrentVersion
      BY <1>1, <1>7, <2>2 DEF CallOK, SavingOK, LocalState
    <3>3. Keeps(m, l) /\ l.pc = "saveScreens" /\ l.cur = m.cur
      BY <1>1 DEF LocalState, Keeps
    <3> HIDE DEF raced
    <3>4. lapses'.cut = lapses.cut /\ lapses.unread \subseteq lapses'.unread /\ lapses'.raced = raced
      BY <1>1, <3>1 DEF LapsesOK
    <3> HIDE DEF l
    <3> QED
      BY <1>7, <3>1, <3>2, <3>3, <3>4 DEF raced
  <2> QED
    BY <2>1, <2>2
<1>8. CASE SaveScreens(c)
  BY <1>8 DEF SaveScreens, At, Stop
<1>9. CASE InsertSnapshot(c) \/ InsertPatch(c)
  <2>1. PICK row : InsertVersion(c, row) /\ m.pc \in {"insertSnapshot", "insertPatch"}
    BY <1>9 DEF InsertSnapshot, InsertPatch, At
  <2> QED
    BY <1>7, <2>1
<1> QED
  BY <1>4, <1>5, <1>6, <1>8, <1>9 DEF SaveStep
-----------------------------------------------------------------------------
\* Before the history begins, a save that found a spec carries that very spec to
\* version 1, and one that carries none found none or has failed to read it.
BootstrapOK(l, R) ==
    /\ l.pc = "insertBootstrap" /\ DOMAIN R = {} => l.acc = FirstSpec
    /\ l.pc = "insertSnapshot" /\ FirstSpec # NoDoc => l.cur # 0 \/ l.blind

AuthoredInv ==
    /\ Inv
    /\ DOMAIN rows = {} => screens = FirstSpec
    /\ CurrentSpecBacked
    /\ \A c \in Client : BootstrapOK(call[c], rows)

\* A step that leaves the tables alone keeps AuthoredInv if it leaves its client right.
LEMMA AuthoredLocal ==
    ASSUME AuthoredInv, Inv', NEW c \in Client, NEW l, Become(c, l), BootstrapOK(l, rows),
           UNCHANGED <<rows, saved, screens>>, lapses.unread \subseteq lapses'.unread
    PROVE  AuthoredInv'
<1>1. \A d \in Client : call'[d] = IF d = c THEN l ELSE call[d]
  BY DEF AuthoredInv, Inv, TypeOK, Become
<1>2. \A d \in Client : BootstrapOK(call'[d], rows')
  BY <1>1 DEF AuthoredInv
<1> QED
  BY <1>2 DEF AuthoredInv, CurrentSpecBacked, ScreensBacked, PreHistoryKept

\* An insert keeps AuthoredInv if version 1, should it be that one, is what was there
\* or noted as unread.
LEMMA AuthoredInsert ==
    ASSUME AuthoredInv, Inv', NEW c \in Client, NEW l, Become(c, l), NEW v, NEW row, NEW d,
           InsertRow(v, row, d), v = CurrentVersion + 1, UNCHANGED screens,
           v = 1 /\ FirstSpec # NoDoc => d = FirstSpec \/ 1 \in lapses'.unread,
           lapses.unread \subseteq lapses'.unread,
           l.pc # "insertBootstrap",
           l.pc = "insertSnapshot" => l.cur # 0
    PROVE  AuthoredInv'
<1> DEFINE n == CurrentVersion
<1>1. /\ n \in Nat /\ DOMAIN rows = 1 .. n /\ DOMAIN saved = 1 .. n
      /\ DOMAIN rows' = 1 .. n + 1 /\ DOMAIN saved' = 1 .. n + 1
      /\ saved'[n + 1] = d
      /\ \A u \in 1 .. n : saved'[u] = saved[u]
  BY Inserted DEF AuthoredInv
<1> HIDE DEF n
<1>2. v = n + 1
  BY DEF n
<1>3. \A e \in Client : call'[e] = IF e = c THEN l ELSE call[e]
  BY DEF AuthoredInv, Inv, TypeOK, Become
<1>4. n + 1 \in DOMAIN rows'
  BY <1>1
<1>5. \A e \in Client : BootstrapOK(call'[e], rows')
  BY <1>3, <1>4 DEF AuthoredInv, BootstrapOK
<1>6. ScreensBacked'
  <2>1. CASE screens = FirstSpec
    BY <2>1 DEF ScreensBacked
  <2>2. CASE \E u \in DOMAIN saved : saved[u] = screens
    <3>1. PICK u \in DOMAIN saved : saved[u] = screens
      BY <2>2
    <3>2. u \in DOMAIN saved' /\ saved'[u] = screens
      BY <1>1, <3>1
    <3> QED
      BY <3>2 DEF ScreensBacked
  <2> QED
    BY <2>1, <2>2 DEF AuthoredInv, CurrentSpecBacked, ScreensBacked
<1>7. PreHistoryKept' \/ 1 \in lapses'.unread
  <2>1. CASE n = 0
    BY <1>1, <1>2, <2>1 DEF PreHistoryKept
  <2>2. CASE n # 0
    <3>1. 1 \in 1 .. n
      BY <1>1, <2>2
    <3> QED
      BY <1>1, <3>1 DEF PreHistoryKept, AuthoredInv, CurrentSpecBacked
  <2> QED
    BY <2>1, <2>2
<1> QED
  BY <1>4, <1>5, <1>6, <1>7 DEF AuthoredInv, CurrentSpecBacked

\* Of the clients' steps, those that all of them name an author in.
LEMMA AuthoredStep ==
    ASSUME AuthoredInv, Unversioned = {}, NEW c \in Client, Command(c) \/ Step(c) \/ Crash(c)
    PROVE  AuthoredInv'
<1> DEFINE m == call[c]
<1>1. /\ Inv /\ Inv'
      /\ m \in LocalState /\ CallOK(m, rows, saved) /\ BootstrapOK(m, rows)
      /\ CurrentVersion \in Nat /\ DOMAIN rows = 1 .. CurrentVersion
      /\ DOMAIN saved = DOMAIN rows
      /\ \A v \in DOMAIN saved : saved[v] \in Document
      /\ NoDoc \notin Document
      /\ LapsesOK(lapses, rows)
  BY StepShape, CurrentVersionIsLength, NoDocAssumption DEF AuthoredInv, Inv, TypeOK, LapsesOK
<1>2. DOMAIN rows = {} => screens = FirstSpec
  BY DEF AuthoredInv
<1>3. BootstrapOK(Idle, rows)
  BY DEF Idle, BootstrapOK
<1>4. ASSUME Stop(c), UNCHANGED <<rows, saved, screens>>, lapses.unread \subseteq lapses'.unread
      PROVE  AuthoredInv'
  BY <1>1, <1>3, <1>4, AuthoredLocal DEF Stop
<1>5. ASSUME NEW l, Become(c, l), UNCHANGED <<rows, saved, screens, lapses>>,
             l.pc \notin {"insertBootstrap", "insertSnapshot"}
      PROVE  AuthoredInv'
  <2>1. BootstrapOK(l, rows)
    BY <1>5 DEF BootstrapOK
  <2> QED
    BY <1>1, <1>5, <2>1, AuthoredLocal
<1>6. CASE Command(c)
  <2>1. VersionedCommand(c)
    BY <1>6 DEF Command, PlainCommand, PlainSave, Delete
  <2>2. PICK l : Become(c, l) /\ Elsewhere(l)
    BY <1>1, <2>1, CommandKeeps
  <2> QED
    BY <1>1, <1>5, <2>1, <2>2, CommandKeeps DEF Elsewhere
<1>7. CASE LoadStep(c)
  BY <1>1, <1>5, <1>7, LoadKeeps DEF Elsewhere
<1>8. CASE ReadMax(c)
  <2>1. CASE CurrentVersion = 0
    <3>1. \E l : Become(c, l) /\ l.pc \notin {"insertBootstrap", "insertSnapshot"}
      BY <1>1, <1>8, <2>1 DEF ReadMax, LocalState
    <3> QED
      BY <1>5, <1>8, <3>1 DEF ReadMax
  <2>2. CASE CurrentVersion # 0
    <3> DEFINE n == CurrentVersion
               l == WriteAfter(n, m)
    <3>1. Become(c, l) /\ UNCHANGED <<rows, saved, screens, lapses>> /\ n # 0
      BY <1>8, <2>2 DEF ReadMax
    <3> HIDE DEF n
    <3>2. BootstrapOK(l, rows)
      BY <1>1, <3>1 DEF WriteAfter, BootstrapOK, LocalState
    <3> HIDE DEF l
    <3> QED
      BY <1>1, <3>1, <3>2, AuthoredLocal
  <2> QED
    BY <2>1, <2>2
<1>9. CASE ReadScreens(c)
  <2>1. m.pc = "readScreens" /\ UNCHANGED <<rows, saved, screens, lapses>>
    BY <1>9 DEF ReadScreens, At
  <2>2. CASE screens = NoDoc /\ Become(c, WriteAfter(0, m))
    <3> DEFINE l == [m EXCEPT !.pc = "insertSnapshot", !.cur = 0]
    <3>1. Become(c, l)
      BY <2>2, FirstIsSnapshot DEF WriteAfter
    <3>2. FirstSpec = NoDoc \/ DOMAIN rows # {}
      BY <1>2, <2>2
    <3>3. FirstSpec = NoDoc
      <4>1. CASE DOMAIN rows # {}
        BY <1>1, <2>2, <4>1 DEF AuthoredInv, CurrentSpecBacked, ScreensBacked
      <4> QED
        BY <3>2, <4>1
    <3>4. BootstrapOK(l, rows)
      BY <1>1, <3>3 DEF BootstrapOK, LocalState
    <3> HIDE DEF l
    <3> QED
      BY <1>1, <2>1, <3>1, <3>4, AuthoredLocal
  <2>3. CASE screens # NoDoc /\ Become(c, [m EXCEPT !.pc = "insertBootstrap", !.acc = screens])
    <3> DEFINE l == [m EXCEPT !.pc = "insertBootstrap", !.acc = screens]
    <3>1. Become(c, l)
      BY <2>3
    <3>2. BootstrapOK(l, rows)
      BY <1>1, <1>2 DEF BootstrapOK, LocalState
    <3> HIDE DEF l
    <3> QED
      BY <1>1, <2>1, <3>1, <3>2, AuthoredLocal
  <2>4. CASE Become(c, WriteAfter(0, [m EXCEPT !.blind = TRUE]))
    <3> DEFINE l == [m EXCEPT !.blind = TRUE, !.pc = "insertSnapshot", !.cur = 0]
    <3>1. Become(c, l)
      BY <2>4, FirstIsSnapshot DEF WriteAfter
    <3>2. BootstrapOK(l, rows)
      BY <1>1 DEF BootstrapOK, LocalState
    <3> HIDE DEF l
    <3> QED
      BY <1>1, <2>1, <3>1, <3>2, AuthoredLocal
  <2> QED
    BY <1>9, <2>2, <2>3, <2>4 DEF ReadScreens
<1>10. CASE InsertBootstrap(c)
  <2>1. m.pc = "insertBootstrap"
    BY <1>10 DEF InsertBootstrap, At
  <2>2. CASE 1 \in DOMAIN rows
    BY <1>4, <1>10, <2>2 DEF InsertBootstrap
  <2>3. CASE 1 \notin DOMAIN rows
    <3> DEFINE l == WriteAfter(1, m)
               row == SnapshotRow(m.acc)
               d == m.acc
               v == 1
    <3>1. InsertRow(v, row, d) /\ Become(c, l) /\ UNCHANGED <<screens, lapses>>
      BY <1>10, <2>3 DEF InsertBootstrap
    <3>2. CurrentVersion = 0 /\ DOMAIN rows = {}
      BY <1>1, <2>3
    <3>3. d = FirstSpec
      BY <1>1, <2>1, <3>2 DEF BootstrapOK
    <3>4. l.pc \in {"insertSnapshot", "checkRange"} /\ l.cur = 1
      BY <1>1 DEF WriteAfter, LocalState
    <3> HIDE DEF l, row, d
    <3> QED
      BY <1>1, <3>1, <3>2, <3>3, <3>4, AuthoredInsert
  <2> QED
    BY <2>2, <2>3
<1>11. ASSUME NEW row, InsertVersion(c, row), m.pc \in {"insertSnapshot", "insertPatch"}
       PROVE  AuthoredInv'
  <2> DEFINE v == m.cur + 1
             d == m.doc
             l == [m EXCEPT !.pc = "saveScreens"]
  <2>1. CASE v \in DOMAIN rows
    BY <1>4, <1>11, <2>1 DEF InsertVersion
  <2>2. CASE v \notin DOMAIN rows
    <3>1. InsertRow(v, row, d) /\ Become(c, l) /\ UNCHANGED screens
      BY <1>11, <2>2 DEF InsertVersion
    <3>2. m.cur \in {0} \cup DOMAIN rows
      BY <1>1, <1>11 DEF CallOK, SavingOK
    <3>3. v = CurrentVersion + 1
      BY <1>1, <2>2, <3>2
    <3>6. /\ lapses.unread \subseteq lapses'.unread
          /\ m.blind => v \in lapses'.unread
      <4> DEFINE raced == IF \E e \in Client : At(e, "saveScreens") THEN {v} ELSE {}
                 unread == IF m.blind THEN {v} ELSE {}
      <4>1. lapses' = [lapses EXCEPT !.unread = @ \cup unread, !.raced = @ \cup raced]
        BY <1>11, <2>2 DEF InsertVersion
      <4> HIDE DEF raced, unread
      <4>2. lapses'.unread = lapses.unread \cup unread
        BY <1>1, <4>1 DEF LapsesOK
      <4> QED
        BY <4>2 DEF unread
    <3>4. v = 1 /\ FirstSpec # NoDoc => 1 \in lapses'.unread
      <4>1. v = 1 => m.cur = 0
        BY <1>1 DEF LocalState
      <4>2. m.pc = "insertPatch" => m.cur # 0
        BY <1>1 DEF CallOK, SavingOK
      <4>3. v = 1 /\ FirstSpec # NoDoc => m.blind
        BY <1>1, <1>11, <4>1, <4>2 DEF BootstrapOK
      <4> QED
        BY <3>6, <4>3
    <3>5. l.pc = "saveScreens"
      BY <1>1 DEF LocalState
    <3> HIDE DEF l, v, d
    <3> QED
      BY <1>1, <3>1, <3>3, <3>4, <3>5, <3>6, AuthoredInsert
  <2> QED
    BY <2>1, <2>2
<1>12. CASE SaveScreens(c)
  <2>1. /\ Become(c, Idle) /\ UNCHANGED <<rows, saved, lapses>> /\ screens' = m.doc
        /\ m.pc = "saveScreens"
    BY <1>12 DEF SaveScreens, Stop, At
  <2>2. m.cur + 1 \in DOMAIN saved /\ saved[m.cur + 1] = screens'
    BY <1>1, <2>1 DEF CallOK, SavingOK
  <2>3. \A d \in Client : call'[d] = IF d = c THEN Idle ELSE call[d]
    BY <1>1, <2>1 DEF Inv, TypeOK, Become
  <2>4. \A d \in Client : BootstrapOK(call'[d], rows')
    BY <1>3, <2>1, <2>3 DEF AuthoredInv
  <2>5. DOMAIN rows' # {} /\ ScreensBacked'
    BY <1>1, <2>1, <2>2 DEF ScreensBacked
  <2> QED
    BY <1>1, <2>1, <2>4, <2>5 DEF AuthoredInv, CurrentSpecBacked, PreHistoryKept
<1>13. CASE Crash(c)
  <2>1. \E S : lapses' = [lapses EXCEPT !.cut = @ \cup S]
    BY <1>13 DEF Crash
  <2>2. lapses.unread \subseteq lapses'.unread
    BY <1>1, <2>1 DEF LapsesOK
  <2> QED
    BY <1>4, <1>13, <2>2 DEF Crash
<1>14. CASE InsertSnapshot(c) \/ InsertPatch(c)
  BY <1>11, <1>14 DEF InsertSnapshot, InsertPatch, At
<1> QED
  BY <1>6, <1>7, <1>8, <1>9, <1>10, <1>12, <1>13, <1>14 DEF Step, SaveStep

LEMMA AuthoredStarts == Init => AuthoredInv
  BY InitInv DEF Init, AuthoredInv, CurrentSpecBacked, ScreensBacked, PreHistoryKept,
                 BootstrapOK, Idle

LEMMA AuthoredKept == Unversioned = {} /\ AuthoredInv /\ [Next]_vars => AuthoredInv'
<1> SUFFICES ASSUME Unversioned = {}, AuthoredInv, [Next]_vars PROVE AuthoredInv'
  OBVIOUS
<1>1. CASE Next
  BY <1>1, AuthoredStep DEF Next
<1>2. CASE UNCHANGED vars
  <2>1. Inv'
    BY <1>2, NextInv DEF AuthoredInv
  <2> QED
    BY <1>2, <2>1 DEF vars, AuthoredInv, CurrentSpecBacked, ScreensBacked, PreHistoryKept
<1> QED
  BY <1>1, <1>2

\* When every client names an author, wherever they race and whichever of them die, the
\* current spec is the spec of before the history or one of its versions, and that first
\* spec is version 1 unless the call that made version 1 had failed to read it: a failed
\* read is the one way to lose a document.
THEOREM AuthoredBacked == Unversioned = {} => (Spec => []CurrentSpecBacked)
<1> SUFFICES ASSUME Unversioned = {} PROVE Spec => []CurrentSpecBacked
  OBVIOUS
<1>1. AuthoredInv /\ [Next]_vars => AuthoredInv'
  BY AuthoredKept
<1>2. AuthoredInv => CurrentSpecBacked
  BY DEF AuthoredInv
<1> QED
  BY AuthoredStarts, <1>1, <1>2, PTL DEF Spec

-----------------------------------------------------------------------------
(***************************************************************************)
(* The current spec is the newest of the versions whose save has written   *)
(* it.  NewestInv adds to AuthoredInv that no two saves are about the same *)
(* version, and that every version beyond one whose save has not yet come  *)
(* to the current spec is noted as raced.                                  *)
(***************************************************************************)
NewestServed == \/ Written = {} /\ screens = FirstSpec
                \/ \E w : IsNewest(w) /\ (screens = saved[w] \/ w \in lapses.raced)

SavesApart ==
    \A c, d \in Client : At(c, "saveScreens") /\ At(d, "saveScreens") /\ call[c].cur = call[d].cur => c = d

LaterRaced ==
    \A c \in Client : At(c, "saveScreens") =>
      /\ call[c].cur + 1 \notin lapses.cut
      /\ \A u \in DOMAIN saved : u > call[c].cur + 1 => u \in lapses.raced

NewestInv == AuthoredInv /\ NewestServed /\ SavesApart /\ LaterRaced

\* Every client that has its version in the table and not yet in the current spec.
LEMMA PendingIs ==
    Pending = {call[e].cur + 1 : e \in {e \in Client : call[e].pc = "saveScreens"}}
BY DEF Pending, At

\* A step that takes nobody to the current spec or away from it keeps NewestInv.
LEMMA NewestLocal ==
    ASSUME NewestInv, AuthoredInv', NEW c \in Client, NEW l, Become(c, l),
           call[c].pc # "saveScreens", l.pc # "saveScreens",
           UNCHANGED <<rows, saved, screens, lapses>>
    PROVE  NewestInv'
<1>1. \A d \in Client : call'[d] = IF d = c THEN l ELSE call[d]
  BY DEF NewestInv, AuthoredInv, Inv, TypeOK, Become
<1>2. \A d \in Client : /\ call'[d].pc = "saveScreens" <=> call[d].pc = "saveScreens"
                        /\ call'[d].pc = "saveScreens" => call'[d] = call[d]
  BY <1>1
<1>3. Pending' = Pending
  <2>1. {e \in Client : call'[e].pc = "saveScreens"} = {e \in Client : call[e].pc = "saveScreens"}
    BY <1>2
  <2>2. \A e \in {e \in Client : call[e].pc = "saveScreens"} : call'[e].cur = call[e].cur
    BY <1>2
  <2> QED
    BY <2>1, <2>2 DEF Pending, At
<1>4. Written' = Written
  BY <1>3 DEF Written
<1>5. NewestServed'
  BY <1>4 DEF NewestInv, NewestServed, IsNewest
<1>6. SavesApart' /\ LaterRaced'
  BY <1>2 DEF NewestInv, SavesApart, LaterRaced, At
<1> QED
  BY <1>5, <1>6 DEF NewestInv

\* The bootstrapped version holds what is there, and counts as written.
LEMMA NewestBootstrap ==
    ASSUME NewestInv, AuthoredInv', NEW c \in Client, NEW l, Become(c, l),
           call[c].pc = "insertBootstrap", l.pc # "saveScreens", CurrentVersion = 0,
           NEW row, InsertRow(1, row, call[c].acc), UNCHANGED <<screens, lapses>>
    PROVE  NewestInv'
<1>1. /\ DOMAIN rows = {} /\ DOMAIN saved = {}
      /\ DOMAIN saved' = {1} /\ saved'[1] = call[c].acc
  <2>1. DOMAIN rows = 1 .. 0 /\ DOMAIN saved = 1 .. 0
    BY CurrentVersionIsLength DEF NewestInv, AuthoredInv, Inv, TypeOK
  <2> QED
    BY <2>1 DEF InsertRow, With
<1>2. call[c].acc = FirstSpec /\ screens = FirstSpec
  BY <1>1 DEF NewestInv, AuthoredInv, BootstrapOK
<1>3. \A d \in Client : call'[d] = IF d = c THEN l ELSE call[d]
  BY DEF NewestInv, AuthoredInv, Inv, TypeOK, Become
<1>4. \A d \in Client : call[d].pc # "saveScreens"
  <2>1. \A d \in Client : CallOK(call[d], rows, saved)
    BY DEF NewestInv, AuthoredInv, Inv
  <2> QED
    BY <1>1, <2>1 DEF CallOK, SavingOK
<1>5. \A d \in Client : call'[d].pc # "saveScreens"
  BY <1>3, <1>4
<1>6. Pending' = {}
  BY <1>5 DEF Pending, At
<1>7. lapses.cut = {}
  BY <1>1 DEF NewestInv, AuthoredInv, Inv, TypeOK
<1>8. Written' = {1}
  BY <1>1, <1>6, <1>7 DEF Written
<1>9. NewestServed'
  <2>1. 1 \in Written' /\ \A u \in Written' : u <= 1
    BY <1>8
  <2> QED
    BY <1>1, <1>2, <2>1 DEF NewestServed, IsNewest
<1>10. SavesApart' /\ LaterRaced'
  BY <1>5 DEF SavesApart, LaterRaced, At
<1> QED
  BY <1>9, <1>10 DEF NewestInv

\* A version that goes in is not yet written, and is noted when another is not yet written.
LEMMA NewestInsert ==
    ASSUME NewestInv, AuthoredInv', NEW c \in Client, NEW l, Become(c, l),
           call[c].pc # "saveScreens", l.pc = "saveScreens", l.cur = CurrentVersion,
           NEW row, NEW d, InsertRow(CurrentVersion + 1, row, d), UNCHANGED screens,
           lapses'.cut = lapses.cut,
           lapses'.raced = lapses.raced \cup
             IF \E e \in Client : At(e, "saveScreens") THEN {CurrentVersion + 1} ELSE {}
    PROVE  NewestInv'
<1> DEFINE n == CurrentVersion
<1>1. /\ n \in Nat /\ DOMAIN saved = 1 .. n /\ DOMAIN saved' = 1 .. n + 1
      /\ \A v \in 1 .. n : saved'[v] = saved[v]
      /\ lapses.cut \subseteq 1 .. n
  BY Inserted DEF NewestInv, AuthoredInv, Inv, TypeOK
<1>2. \A e \in Client : call'[e] = IF e = c THEN l ELSE call[e]
  BY DEF NewestInv, AuthoredInv, Inv, TypeOK, Become
<1> HIDE DEF n
<1>3. \A e \in Client : call[e].pc = "saveScreens" => call[e].cur \in Nat /\ call[e].cur + 1 \in 1 .. n
  BY <1>1 DEF NewestInv, AuthoredInv, Inv, TypeOK, CallOK, SavingOK, LocalState
<1>4. Pending' = Pending \cup {n + 1}
  <2>1. {e \in Client : call'[e].pc = "saveScreens"}
          = {e \in Client : call[e].pc = "saveScreens"} \cup {c}
    BY <1>2
  <2>2. \A e \in Client : call[e].pc = "saveScreens" => call'[e].cur = call[e].cur
    BY <1>2
  <2>3. call'[c].cur = n
    BY <1>2 DEF n
  <2> QED
    BY <2>1, <2>2, <2>3 DEF Pending, At
<1>5. n + 1 \notin Written /\ Written \subseteq 1 .. n
  BY <1>1 DEF Written
<1>6. Written' = Written
  <2>1. (1 .. n + 1) \ {n + 1} = 1 .. n
    BY <1>1
  <2> QED
    BY <1>1, <1>4, <2>1 DEF Written
<1>7. NewestServed'
  <2>1. CASE Written = {} /\ screens = FirstSpec
    BY <1>6, <2>1 DEF NewestServed
  <2>2. ASSUME NEW w, IsNewest(w), screens = saved[w] \/ w \in lapses.raced
        PROVE  NewestServed'
    <3>1. IsNewest(w)' /\ w \in 1 .. n
      BY <1>5, <1>6, <2>2 DEF IsNewest
    <3> QED
      BY <1>1, <2>2, <3>1 DEF NewestServed
  <2> QED
    BY <2>1, <2>2 DEF NewestInv, NewestServed
<1>8. SavesApart'
  BY <1>1, <1>2, <1>3 DEF NewestInv, SavesApart, At, n
<1>9. LaterRaced'
  <2> SUFFICES ASSUME NEW e \in Client, call'[e].pc = "saveScreens"
               PROVE  /\ call'[e].cur + 1 \notin lapses'.cut
                      /\ \A u \in DOMAIN saved' : u > call'[e].cur + 1 => u \in lapses'.raced
    BY DEF LaterRaced, At
  <2>1. CASE e = c
    <3>1. call'[e].cur = n
      BY <1>2, <2>1 DEF n
    <3> QED
      BY <1>1, <3>1
  <2>2. CASE e # c
    <3>1. call'[e] = call[e] /\ At(e, "saveScreens")
      BY <1>2, <2>2 DEF At
    <3>2. n + 1 \in lapses'.raced /\ lapses.raced \subseteq lapses'.raced
      BY <3>1 DEF n
    <3>3. \A u \in DOMAIN saved' : u = n + 1 \/ u \in DOMAIN saved
      BY <1>1
    <3> QED
      BY <3>1, <3>2, <3>3 DEF NewestInv, LaterRaced
  <2> QED
    BY <2>1, <2>2
<1> QED
  BY <1>7, <1>8, <1>9 DEF NewestInv

\* A save that leaves its place, by writing the current spec or by dying there: the others
\* still have theirs.
LEMMA NewestLeave ==
    ASSUME NewestInv, NEW c \in Client, Become(c, Idle), call[c].pc = "saveScreens",
           UNCHANGED saved, lapses'.raced = lapses.raced,
           lapses'.cut \in {lapses.cut, lapses.cut \cup {call[c].cur + 1}}
    PROVE  /\ SavesApart' /\ LaterRaced'
           /\ Written' = IF lapses'.cut = lapses.cut THEN Written \cup {call[c].cur + 1} ELSE Written
<1> DEFINE v == call[c].cur + 1
<1>1. \A e \in Client : call'[e] = IF e = c THEN Idle ELSE call[e]
  BY DEF NewestInv, AuthoredInv, Inv, TypeOK, Become
<1>2. \A e \in Client : call'[e].pc = "saveScreens" <=> call[e].pc = "saveScreens" /\ e # c
  BY <1>1 DEF Idle
<1>3. \A e \in Client : call[e].cur \in Nat
  BY DEF NewestInv, AuthoredInv, Inv, TypeOK, LocalState
<1>4. \A e \in Client : call[e].pc = "saveScreens" /\ e # c => call[e].cur + 1 # v
  BY <1>3 DEF NewestInv, SavesApart, At
<1>5. v \in Pending /\ v \in DOMAIN saved /\ v \notin lapses.cut
  BY DEF Pending, At, NewestInv, AuthoredInv, Inv, TypeOK, CallOK, SavingOK, LaterRaced
<1>6. Pending' = Pending \ {v}
  <2>1. \A e \in Client : e # c => call'[e] = call[e]
    BY <1>1
  <2>2. Pending' = {call'[e].cur + 1 : e \in {e \in Client : call[e].pc = "saveScreens" /\ e # c}}
    BY <1>2 DEF Pending, At
  <2>3. Pending' = {call[e].cur + 1 : e \in {e \in Client : call[e].pc = "saveScreens" /\ e # c}}
    BY <2>1, <2>2
  <2> QED
    BY <1>4, <2>3 DEF Pending, At
<1>7. SavesApart'
  BY <1>1, <1>2 DEF NewestInv, SavesApart, At
<1>8. LaterRaced'
  BY <1>1, <1>2, <1>4 DEF NewestInv, LaterRaced, At
<1>9. Written' = IF lapses'.cut = lapses.cut THEN Written \cup {v} ELSE Written
  BY <1>5, <1>6 DEF Written
<1> QED
  BY <1>7, <1>8, <1>9

\* Of the clients' steps, those that all of them name an author in.
LEMMA NewestStep ==
    ASSUME NewestInv, Unversioned = {}, NEW c \in Client, Command(c) \/ Step(c) \/ Crash(c)
    PROVE  NewestInv'
<1> DEFINE m == call[c]
<1>1. Inv /\ AuthoredInv /\ AuthoredInv'
  BY AuthoredStep DEF NewestInv, AuthoredInv
<1>2. CASE Command(c)
  <2>1. VersionedCommand(c)
    BY <1>2 DEF Command, PlainCommand, PlainSave, Delete
  <2>2. PICK l : Become(c, l) /\ Elsewhere(l)
    BY <1>1, <2>1, CommandKeeps
  <2>3. UNCHANGED <<rows, saved, screens, lapses>> /\ m.pc # "saveScreens"
    BY <1>1, <2>1, CommandKeeps
  <2> QED
    BY <1>1, <2>2, <2>3, NewestLocal DEF Elsewhere
<1>3. CASE LoadStep(c)
  <2>1. PICK l : Become(c, l) /\ Elsewhere(l)
    BY <1>1, <1>3, LoadKeeps
  <2>2. UNCHANGED <<rows, saved, screens, lapses>> /\ m.pc # "saveScreens"
    BY <1>1, <1>3, LoadKeeps DEF Loading
  <2> QED
    BY <1>1, <2>1, <2>2, NewestLocal DEF Elsewhere
<1>4. ASSUME m.pc = "saveScreens", screens' = m.doc, UNCHANGED <<rows, saved, lapses>>,
             Become(c, Idle)
      PROVE  NewestInv'
  <2> DEFINE v == m.cur + 1
  <2>1. v \in DOMAIN saved /\ saved[v] = m.doc /\ DOMAIN saved \subseteq Nat
    BY <1>1, <1>4 DEF Inv, TypeOK, CallOK, SavingOK
  <2>2. SavesApart' /\ LaterRaced' /\ Written' = Written \cup {v}
    BY <1>4, NewestLeave
  <2>3. \A u \in DOMAIN saved : u > v => u \in lapses.raced
    BY <1>4 DEF NewestInv, LaterRaced, At
  <2>4. Written \subseteq DOMAIN saved
    BY DEF Written
  <2> HIDE DEF v
  <2>5. CASE \A u \in Written : u <= v
    <3>1. v \in Written' /\ \A u \in Written' : u <= v
      BY <2>1, <2>2, <2>5
    <3>2. screens' = saved'[v]
      BY <1>4, <2>1
    <3>3. NewestServed'
      BY <3>1, <3>2 DEF NewestServed, IsNewest
    <3> QED
      BY <1>1, <2>2, <3>3 DEF NewestInv
  <2>6. CASE \E u \in Written : ~(u <= v)
    <3>1. PICK w : IsNewest(w)
      BY <2>6 DEF NewestInv, NewestServed
    <3>2. w \in Written /\ w > v
      BY <2>1, <2>4, <2>6, <3>1 DEF IsNewest
    <3>3. IsNewest(w)' /\ w \in lapses.raced
      BY <2>1, <2>2, <2>3, <2>4, <3>1, <3>2 DEF IsNewest
    <3> QED
      BY <1>1, <1>4, <2>2, <3>3 DEF NewestInv, NewestServed
  <2> QED
    BY <2>5, <2>6
<1>5. CASE SaveStep(c)
  <2>1. CASE /\ UNCHANGED <<rows, saved, screens, lapses>> /\ m.pc # "saveScreens"
             /\ \E l : Become(c, l) /\ l.pc # "saveScreens" /\ Keeps(m, l)
    BY <1>1, <2>1, NewestLocal
  <2>2. CASE /\ UNCHANGED <<screens, lapses>>
             /\ m.pc = "insertBootstrap" /\ CurrentVersion = 0
             /\ \E row : InsertRow(1, row, m.acc)
             /\ \E l : Become(c, l) /\ l.pc # "saveScreens" /\ Keeps(m, l)
    BY <1>1, <2>2, NewestBootstrap
  <2>3. CASE /\ UNCHANGED screens
             /\ m.pc \in {"insertSnapshot", "insertPatch"} /\ m.cur = CurrentVersion
             /\ \E row : InsertRow(m.cur + 1, row, m.doc)
             /\ lapses'.cut = lapses.cut /\ lapses.unread \subseteq lapses'.unread
             /\ lapses'.raced = lapses.raced \cup
                  IF \E e \in Client : At(e, "saveScreens") THEN {m.cur + 1} ELSE {}
             /\ \E l : Become(c, l) /\ Keeps(m, l) /\ l.pc = "saveScreens" /\ l.cur = m.cur
    <3>1. PICK row, l : InsertRow(m.cur + 1, row, m.doc) /\ Become(c, l)
                        /\ l.pc = "saveScreens" /\ l.cur = m.cur
      BY <2>3
    <3>2. m.pc # "saveScreens"
      BY <2>3
    <3> QED
      BY <1>1, <2>3, <3>1, <3>2, NewestInsert
  <2> QED
    BY <1>1, <1>4, <1>5, <2>1, <2>2, <2>3, SaveKeeps
<1>6. CASE Crash(c)
  <2>1. Become(c, Idle) /\ UNCHANGED <<rows, saved, screens>>
    BY <1>6 DEF Crash, Stop
  <2>2. CASE m.pc = "saveScreens"
    <3>1. lapses' = [lapses EXCEPT !.cut = @ \cup {m.cur + 1}]
      BY <1>6, <2>2 DEF Crash, At
    <3>2. lapses'.raced = lapses.raced /\ lapses'.cut = lapses.cut \cup {m.cur + 1}
      BY <1>1, <3>1 DEF Inv, TypeOK
    <3>3. m.cur + 1 \notin lapses.cut
      BY <2>2 DEF NewestInv, LaterRaced, At
    <3>4. SavesApart' /\ LaterRaced' /\ Written' = Written
      BY <2>1, <2>2, <3>2, <3>3, NewestLeave
    <3> QED
      BY <1>1, <2>1, <3>2, <3>4 DEF NewestInv, NewestServed, IsNewest
  <2>3. CASE m.pc # "saveScreens"
    <3>1. lapses' = lapses
      BY <1>1, <1>6, <2>3 DEF Crash, At, Inv, TypeOK
    <3>2. Idle.pc # "saveScreens"
      BY DEF Idle
    <3> QED
      BY <1>1, <2>1, <2>3, <3>1, <3>2, NewestLocal
  <2> QED
    BY <2>2, <2>3
<1> QED
  BY <1>2, <1>3, <1>5, <1>6 DEF Step

LEMMA NewestStarts == Init => NewestInv
<1> SUFFICES ASSUME Init PROVE NewestInv
  OBVIOUS
<1>1. AuthoredInv
  BY AuthoredStarts
<1>2. \A c \in Client : call[c].pc = "idle"
  BY DEF Init, Idle
<1>3. Written = {} /\ screens = FirstSpec
  BY DEF Init, Written
<1> QED
  BY <1>1, <1>2, <1>3 DEF NewestInv, NewestServed, SavesApart, LaterRaced, At

LEMMA NewestKept == Unversioned = {} /\ NewestInv /\ [Next]_vars => NewestInv'
<1> SUFFICES ASSUME Unversioned = {}, NewestInv, [Next]_vars PROVE NewestInv'
  OBVIOUS
<1>1. CASE Next
  BY <1>1, NewestStep DEF Next
<1>2. CASE UNCHANGED vars
  <2>1. AuthoredInv'
    BY <1>2, AuthoredKept DEF NewestInv
  <2>2. Written' = Written
    BY <1>2 DEF vars, Written, Pending, At
  <2> QED
    BY <1>2, <2>1, <2>2 DEF vars, NewestInv, NewestServed, IsNewest, SavesApart, LaterRaced, At
<1> QED
  BY <1>1, <1>2

\* What NewestServed says is what the property says.
LEMMA NewestIsLatest == NewestInv => CurrentSpecIsLatest
<1> SUFFICES ASSUME NewestInv PROVE CurrentSpecIsLatest
  OBVIOUS
<1>1. CASE Written = {} /\ screens = FirstSpec
  BY <1>1 DEF CurrentSpecIsLatest, Served
<1>2. ASSUME NEW w, IsNewest(w), screens = saved[w] \/ w \in lapses.raced
      PROVE  CurrentSpecIsLatest
  <2>1. Written \subseteq Nat
    BY DEF Written, NewestInv, AuthoredInv, Inv, TypeOK
  <2>2. \A u : u \in Written /\ IsNewest(u) => u = w
    BY <1>2, <2>1 DEF IsNewest
  <2>3. Written # {} /\ w \in Written
    BY <1>2 DEF IsNewest
  <2>4. Served = saved[w]
    <3>1. \E u \in Written : IsNewest(u)
      BY <1>2, <2>3
    <3>2. (CHOOSE u \in Written : IsNewest(u)) = w
      BY <2>2, <3>1
    <3> QED
      BY <2>3, <3>2 DEF Served
  <2> QED
    BY <1>2, <2>4 DEF CurrentSpecIsLatest
<1> QED
  BY <1>1, <1>2 DEF NewestInv, NewestServed

\* When every client names an author: at any moment, with any number of processes that
\* race and die between any two statements, the current spec is the newest version whose
\* save has written it, unless that version came in while another save was between its
\* version and the current spec.
THEOREM LatestIsServed == Unversioned = {} => (Spec => []CurrentSpecIsLatest)
<1> SUFFICES ASSUME Unversioned = {} PROVE Spec => []CurrentSpecIsLatest
  OBVIOUS
<1>1. NewestInv /\ [Next]_vars => NewestInv'
  BY NewestKept
<1> QED
  BY NewestStarts, NewestIsLatest, <1>1, PTL DEF Spec

-----------------------------------------------------------------------------
\* One client that works alone has nobody between its version and the current spec, and
\* the document of its patch is the current spec with the patches applied until it is
\* written.
LoneInv ==
    /\ NewestInv
    /\ lapses.raced = {}
    /\ \A c \in Client : call[c].cmd = "patch" => call[c].doc = ApplyPatches(screens, call[c].edit)

LEMMA LoneStep ==
    ASSUME LoneInv, Unversioned = {}, NEW c \in Client, Client = {c},
           Command(c) \/ Step(c) \/ Crash(c)
    PROVE  LoneInv'
<1> DEFINE m == call[c]
           Right(l) == l.cmd = "patch" => l.doc = ApplyPatches(screens, l.edit)
<1>1. Inv /\ NewestInv /\ NewestInv' /\ Right(m)
  BY NewestStep DEF LoneInv, NewestInv, AuthoredInv
<1>2. Right(Idle) /\ \A l : Keeps(m, l) => Right(l)
  BY <1>1 DEF Idle, Keeps
<1>3. \A l : Become(c, l) => call'[c] = l
  BY <1>1 DEF Inv, TypeOK, Become
<1>4. ASSUME lapses'.raced = {}, NEW l, Become(c, l), Right(l), UNCHANGED screens
      PROVE  LoneInv'
  BY <1>1, <1>3, <1>4 DEF LoneInv
<1>5. CASE Command(c)
  <2>1. VersionedCommand(c)
    BY <1>5 DEF Command, PlainCommand, PlainSave, Delete
  <2>2. UNCHANGED <<screens, lapses>> /\ \E l : Become(c, l) /\ Right(l)
    BY <1>1, <2>1, CommandKeeps
  <2> QED
    BY <1>4, <2>2 DEF LoneInv
<1>6. CASE LoadStep(c)
  <2>1. UNCHANGED <<screens, lapses>> /\ \E l : Become(c, l) /\ Keeps(m, l)
    BY <1>1, <1>6, LoadKeeps
  <2> QED
    BY <1>2, <1>4, <2>1 DEF LoneInv
<1>7. CASE SaveStep(c)
  <2>1. CASE UNCHANGED screens
    <3>1. \E l : Become(c, l) /\ Keeps(m, l)
      <4>1. Keeps(m, Idle)
        BY DEF Keeps
      <4> QED
        BY <1>1, <1>7, <4>1, SaveKeeps
    <3>2. lapses'.raced = {}
      <4>1. CASE UNCHANGED lapses
        BY <4>1 DEF LoneInv
      <4>2. CASE /\ m.pc \in {"insertSnapshot", "insertPatch"}
                 /\ lapses'.raced = lapses.raced \cup
                      IF \E e \in Client : At(e, "saveScreens") THEN {m.cur + 1} ELSE {}
        BY <4>2 DEF LoneInv, At
      <4> QED
        BY <1>1, <1>7, <4>1, <4>2, SaveKeeps
    <3> QED
      BY <1>2, <1>4, <2>1, <3>1, <3>2
  <2>2. CASE screens' # screens
    <3>1. UNCHANGED lapses /\ Become(c, Idle)
      BY <1>1, <1>7, <2>2, SaveKeeps
    <3>2. call'[c] = Idle
      BY <1>3, <3>1
    <3> QED
      BY <1>1, <3>1, <3>2 DEF LoneInv, Idle
  <2> QED
    BY <2>1, <2>2
<1>8. CASE Crash(c)
  <2>1. Become(c, Idle) /\ UNCHANGED screens /\ \E S : lapses' = [lapses EXCEPT !.cut = @ \cup S]
    BY <1>8 DEF Crash, Stop
  <2>2. lapses'.raced = {}
    BY <1>1, <2>1 DEF Inv, TypeOK, LoneInv
  <2> QED
    BY <1>2, <1>4, <2>1, <2>2
<1> QED
  BY <1>5, <1>6, <1>7, <1>8 DEF Step

LEMMA LoneStarts == Init => LoneInv
BY NewestStarts DEF Init, LoneInv, Idle

LEMMA LoneKept ==
    ASSUME Unversioned = {}, NEW c, Client = {c}, LoneInv, [Next]_vars
    PROVE  LoneInv'
<1>1. CASE Next
  <2>1. Command(c) \/ Step(c) \/ Crash(c)
    BY <1>1 DEF Next
  <2> QED
    BY <2>1, LoneStep
<1>2. CASE UNCHANGED vars
  BY <1>2, NewestKept DEF vars, LoneInv
<1> QED
  BY <1>1, <1>2

LEMMA LoneServed == LoneInv => CurrentSpecIsLatest /\ PatchBuildsOnLatest
<1> SUFFICES ASSUME LoneInv PROVE CurrentSpecIsLatest /\ PatchBuildsOnLatest
  OBVIOUS
<1>1. CurrentSpecIsLatest /\ screens = Served
  BY NewestIsLatest DEF LoneInv, CurrentSpecIsLatest
<1>2. ASSUME NEW d \in Client, At(d, "saveScreens"), call[d].cmd = "patch"
      PROVE  /\ call[d].cur + 1 \in DOMAIN saved
             /\ saved[call[d].cur + 1] = ApplyPatches(screens, call[d].edit)
  BY <1>2 DEF LoneInv, NewestInv, AuthoredInv, Inv, TypeOK, CallOK, SavingOK, At
<1> QED
  BY <1>1, <1>2 DEF PatchBuildsOnLatest

\* One client that works alone and always names an author: the version `mythik patch`
\* makes is what was served with the user's patches applied, also when saves before it have
\* died half-way, for any documents, any patch lists and any interval.
THEOREM PatchesBuildOnServed ==
    Unversioned = {} /\ (\E c : Client = {c}) => (Spec => []PatchBuildsOnLatest)
<1> SUFFICES ASSUME Unversioned = {}, NEW c, Client = {c}
             PROVE  Spec => []PatchBuildsOnLatest
  OBVIOUS
<1>1. LoneInv /\ [Next]_vars => LoneInv'
  BY LoneKept
<1> QED
  BY LoneStarts, LoneServed, <1>1, PTL DEF Spec
=============================================================================
