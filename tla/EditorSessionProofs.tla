------------------------ MODULE EditorSessionProofs ------------------------
(***************************************************************************)
(* Editor sessions whose tracked paths are disjoint, and whose answers are *)
(* written beside them, keep their histories and their saved documents     *)
(* right, and a guarded session is not left dirty.                         *)
(***************************************************************************)
EXTENDS NavigationGuard, WellFoundedInduction, SequenceTheorems, TLAPS

\* No path is tracked by two sessions, and no answer is written to a tracked path.
SeparatePaths ==
    \A s, t \in Session : Target[s] \notin Tracked[t] /\ (s # t => Tracked[s] \cap Tracked[t] = {})
-----------------------------------------------------------------------------
(* The inductive invariant *)

Held == Value \cup {First, Stamped}
Snapshot == UNION {[T -> Held] : T \in SUBSET Path}
Listing == UNION {[I -> [path : Path, previous : Held, next : Held]] : I \in SUBSET Nat}
Entry == [changes : Listing, before : Snapshot, after : Snapshot]
Runtime ==
    [undo : Seq(Entry), redo : Seq(Entry), saved : Snapshot, revision : Nat, savedRevision : Nat,
     saveStatus : {"idle", "saving", "saved", "error"}, attempts : Nat, disposed : BOOLEAN]

Types ==
    /\ doc \in [Path -> Held] /\ runtime \in [Session -> Runtime]
    /\ DOMAIN meta = Session /\ DOMAIN server = Session
    /\ docAt \in [Session -> Seq(Snapshot)]
    /\ sending \in [Session -> {NoSave} \cup [stage : {"sent", "stored"}, doc : Snapshot, revision : Nat]]
    /\ \A s, t \in Session : Mounted(s) <=> Mounted(t)

\* An entry turns its documents into each other.
EntrySound(s, e) ==
    /\ e.before \in [Tracked[s] -> Held] /\ e.after \in [Tracked[s] -> Held]
    /\ \A i \in DOMAIN e.changes : e.changes[i].path \in Tracked[s]
    /\ Applied(e.before, e.changes) = e.after
    /\ Reverted(e.after, e.changes) = e.before

\* The stacks u and r of session s lead to and from the document now.
Chain(s, u, r, now) ==
    /\ \A i \in 1 .. Len(u) : EntrySound(s, u[i])
    /\ \A i \in 1 .. Len(r) : EntrySound(s, r[i])
    /\ u # <<>> => u[Len(u)].after = now
    /\ r # <<>> => r[Len(r)].before = now
    /\ \A i \in 1 .. Len(u) - 1 : u[i].after = u[i + 1].before
    /\ \A i \in 1 .. Len(r) - 1 : r[i].before = r[i + 1].after
    /\ Len(u) + Len(r) <= MaxHistory
HistorySound(s) == Mounted(s) => Chain(s, runtime[s].undo, runtime[s].redo, Now(s))

\* The revisions are recorded, and the saved document is one of them.
RevisionsSound(s) ==
    LET r == runtime[s]
    IN  /\ Len(docAt[s]) = r.revision + 1
        /\ Mounted(s) => docAt[s][r.revision + 1] = Now(s)
        /\ r.savedRevision \in 0 .. r.revision
        /\ r.saved = docAt[s][r.savedRevision + 1] /\ r.saved \in [Tracked[s] -> Held]

\* So is what a save has sent.
SendingSound(s) ==
    sending[s] # NoSave =>
        /\ sending[s].revision \in 0 .. runtime[s].revision
        /\ sending[s].doc = docAt[s][sending[s].revision + 1]
        /\ sending[s].doc \in [Tracked[s] -> Held]

\* What the server holds is saved, or on its way to be.
ServerSound(s) ==
    Mounted(s) /\ s \notin Lossy \cup Marking =>
        server[s] = IF sending[s].stage = "stored" THEN sending[s].doc ELSE runtime[s].saved
StatusSound(s) ==
    Mounted(s) /\ s \notin Marking => (runtime[s].saveStatus = "saving" <=> sending[s] # NoSave)
MetadataSound(s) == Mounted(s) => meta[s] = Metadata(s, runtime[s], doc)

SessionSound(s) ==
    /\ HistorySound(s) /\ RevisionsSound(s) /\ SendingSound(s) /\ ServerSound(s)
    /\ StatusSound(s) /\ MetadataSound(s)
IInv == Types /\ \A s \in Session : SessionSound(s)
-----------------------------------------------------------------------------
(* Changes *)

\* Some place of a list is the earliest, and of a finite one, the latest.
LEMMA EarliestPlace ==
    ASSUME NEW places \in SUBSET Nat, places # {}
    PROVE  Earliest(places) \in places /\ \A j \in places : Earliest(places) <= j
  <1> DEFINE Less == OpToRel(<, Nat)
  <1>1. \A j, k \in Nat : j < k => <<j, k>> \in Less
    BY DEF OpToRel
  <1>2. IsWellFoundedOn(Less, Nat)
    BY NatLessThanWellFounded
  <1> HIDE DEF Less
  <1>3. PICK i \in places : \A j \in places : ~(<<j, i>> \in Less)
    BY <1>2, WFMin
  <1>4. \A j \in places : i <= j
    <2> SUFFICES ASSUME NEW j \in places PROVE i <= j
      OBVIOUS
    <2>1. i \in Nat /\ j \in Nat
      OBVIOUS
    <2>2. ~(j < i)
      BY <1>1, <1>3, <2>1
    <2>3. QED
      BY <2>1, <2>2
  <1>5. QED
    BY <1>4 DEF Earliest

LEMMA LatestPlace ==
    ASSUME NEW n \in Nat, NEW places \in SUBSET (0 .. n), places # {}
    PROVE  Latest(places) \in places
  <1> DEFINE mirrored == {n - i : i \in places}
             k == Earliest(mirrored)
  <1>1. mirrored \in SUBSET Nat /\ mirrored # {}
    <2>1. \A i \in places : i \in 0 .. n /\ n - i \in Nat
      OBVIOUS
    <2>2. QED
      BY <2>1
  <1>2. k \in mirrored /\ \A j \in mirrored : k <= j
    BY <1>1, EarliestPlace
  <1>3. PICK i \in places : k = n - i
    BY <1>2
  <1>4. \A j \in places : j <= i
    <2> SUFFICES ASSUME NEW j \in places PROVE j <= i
      OBVIOUS
    <2>1. n - j \in mirrored
      OBVIOUS
    <2>2. n - i <= n - j
      BY <1>2, <1>3, <2>1
    <2>3. QED
      BY <2>2
  <1>5. QED
    BY <1>4 DEF Latest

\* Capture is a restriction.
LEMMA Captured ==
    ASSUME NEW s \in Session, NEW d
    PROVE  Capture(d, s) = [p \in Tracked[s] |-> d[p]]
  BY DEF Capture, Restrict

\* Changes of tracked paths act on what is captured as they act on the state.
LEMMA ChangesCaptured ==
    ASSUME NEW s \in Session, NEW d \in [Path -> Held], NEW changes,
           \A i \in DOMAIN changes : changes[i].path \in Tracked[s]
    PROVE  /\ Capture(Applied(d, changes), s) = Applied(Capture(d, s), changes)
           /\ Capture(Reverted(d, changes), s) = Reverted(Capture(d, s), changes)
           /\ DOMAIN Applied(d, changes) = Path /\ DOMAIN Reverted(d, changes) = Path
           /\ \A p \in Path \ Tracked[s] : Applied(d, changes)[p] = d[p] /\ Reverted(d, changes)[p] = d[p]
  <1>1. Tracked[s] \subseteq Path
    BY TrackedForm
  <1>2. \A p \in Path \ Tracked[s] : Of(changes, p) = {}
    BY DEF Of
  <1>3. /\ Applied(d, changes) = [p \in Path |-> IF Of(changes, p) = {} THEN d[p] ELSE changes[Latest(Of(changes, p))].next]
        /\ Reverted(d, changes) =
             [p \in Path |-> IF Of(changes, p) = {} THEN d[p] ELSE changes[Earliest(Of(changes, p))].previous]
    BY DEF Applied, Reverted
  <1>4. DOMAIN Capture(d, s) = Tracked[s] /\ \A p \in Tracked[s] : Capture(d, s)[p] = d[p]
    BY Captured
  <1>5. Capture(Applied(d, changes), s) = Applied(Capture(d, s), changes)
    BY <1>1, <1>3, <1>4, Captured DEF Applied
  <1>6. Capture(Reverted(d, changes), s) = Reverted(Capture(d, s), changes)
    BY <1>1, <1>3, <1>4, Captured DEF Reverted
  <1>7. QED
    BY <1>2, <1>3, <1>5, <1>6

\* The entry of a commit is sound.
LEMMA CommitEntry ==
    ASSUME NEW s \in Session, doc \in [Path -> Held], NEW changes \in Changes,
           \A i \in DOMAIN changes : changes[i].path \in Tracked[s]
    PROVE  LET resolved == Resolved(changes)
               d == Applied(doc, resolved)
               entry == [changes |-> resolved, before |-> Now(s), after |-> Capture(d, s)]
           IN  /\ d \in [Path -> Held]
               /\ \A p \in Path \ Tracked[s] : d[p] = doc[p]
               /\ entry \in Entry /\ EntrySound(s, entry)
  <1> DEFINE resolved == Resolved(changes)
             d == Applied(doc, resolved)
  <1> Tracked[s] \subseteq Path
    BY TrackedForm
  <1>1. changes \in Seq([path : Path, value : Value]) /\ DOMAIN changes = 1 .. Len(changes)
    <2>1. changes \in Seq([path : Path, value : Value])
      BY ChangesForm
    <2>2. QED
      BY <2>1
  <1>2. /\ resolved = [i \in DOMAIN resolved |-> resolved[i]]
        /\ DOMAIN resolved \subseteq 1 .. Len(changes)
        /\ \A i \in DOMAIN resolved :
             resolved[i] = [path |-> changes[i].path, previous |-> doc[changes[i].path], next |-> changes[i].value]
    BY <1>1 DEF Resolved
  <1>3. \A i \in DOMAIN resolved : /\ resolved[i] \in [path : Path, previous : Held, next : Held]
                                   /\ resolved[i].path \in Tracked[s]
                                   /\ resolved[i].previous = doc[resolved[i].path]
    <2> SUFFICES ASSUME NEW i \in DOMAIN resolved
                 PROVE  /\ resolved[i] \in [path : Path, previous : Held, next : Held]
                        /\ resolved[i].path \in Tracked[s]
                        /\ resolved[i].previous = doc[resolved[i].path]
      OBVIOUS
    <2>1. i \in 1 .. Len(changes) /\ i \in DOMAIN changes
      BY <1>1, <1>2
    <2>2. changes[i] \in [path : Path, value : Value] /\ changes[i].path \in Tracked[s]
      BY <1>1, <2>1, ElementOfSeq
    <2>3. doc[changes[i].path] \in Held /\ changes[i].value \in Held
      BY <2>2 DEF Held
    <2>4. QED
      BY <1>2, <2>2, <2>3
  <1>4. resolved \in Listing
    <2>1. DOMAIN resolved \in SUBSET Nat
      BY <1>1, <1>2
    <2>2. resolved \in [DOMAIN resolved -> [path : Path, previous : Held, next : Held]]
      BY <1>2, <1>3
    <2>3. QED
      BY <2>1, <2>2 DEF Listing
  <1> HIDE DEF resolved
  <1>5. \A p \in Path : Of(resolved, p) # {} =>
          /\ Earliest(Of(resolved, p)) \in Of(resolved, p)
          /\ Latest(Of(resolved, p)) \in Of(resolved, p)
    <2> SUFFICES ASSUME NEW p \in Path, Of(resolved, p) # {}
                 PROVE  /\ Earliest(Of(resolved, p)) \in Of(resolved, p)
                        /\ Latest(Of(resolved, p)) \in Of(resolved, p)
      OBVIOUS
    <2>1. Len(changes) \in Nat
      BY <1>1
    <2>2. Of(resolved, p) \in SUBSET (0 .. Len(changes))
      BY <1>2, <2>1 DEF Of
    <2>3. Of(resolved, p) \in SUBSET Nat
      BY <2>1, <2>2
    <2>4. QED
      BY <2>1, <2>2, <2>3, EarliestPlace, LatestPlace
  <1>6. \A p \in Path : Of(resolved, p) # {} =>
          /\ resolved[Earliest(Of(resolved, p))].previous = doc[p]
          /\ resolved[Latest(Of(resolved, p))].next \in Held
    BY <1>3, <1>5 DEF Of
  <1>7. d \in [Path -> Held]
    BY <1>6 DEF Applied
  <1>8. /\ Capture(d, s) = Applied(Now(s), resolved)
        /\ \A p \in Path \ Tracked[s] : d[p] = doc[p]
    BY <1>3, ChangesCaptured DEF Now
  <1>9. /\ Now(s) = [p \in Tracked[s] |-> doc[p]] /\ Now(s) \in [Tracked[s] -> Held]
        /\ Capture(d, s) = [p \in Tracked[s] |-> d[p]] /\ Capture(d, s) \in [Tracked[s] -> Held]
    BY <1>7, Captured DEF Now
  <1>10. Reverted(Capture(d, s), resolved) = Now(s)
    <2>1. \A p \in Tracked[s] : Of(resolved, p) = {} => d[p] = doc[p]
      BY DEF Applied
    <2>2. QED
      BY <1>6, <1>9, <2>1 DEF Reverted
  <1>11. Now(s) \in Snapshot /\ Capture(d, s) \in Snapshot
    BY <1>9 DEF Snapshot
  <1>12. QED
    BY <1>3, <1>4, <1>7, <1>8, <1>9, <1>10, <1>11 DEF Entry, EntrySound, resolved
-----------------------------------------------------------------------------
(* Stacks *)

LEMMA Pushed ==
    ASSUME NEW q \in Seq(Entry), NEW e \in Entry
    PROVE  /\ Append(q, e) \in Seq(Entry) /\ Append(q, e) # <<>>
           /\ Len(Append(q, e)) = Len(q) + 1 /\ Append(q, e)[Len(q) + 1] = e
           /\ \A i \in 1 .. Len(q) : Append(q, e)[i] = q[i]
  OBVIOUS

LEMMA Popped ==
    ASSUME NEW q \in Seq(Entry), q # <<>>
    PROVE  /\ Front(q) \in Seq(Entry) /\ Len(Front(q)) = Len(q) - 1
           /\ \A i \in 1 .. Len(q) - 1 : Front(q)[i] = q[i]
           /\ Last(q) = q[Len(q)] /\ Last(q) \in Entry /\ Len(q) \in Nat \ {0}
  <1>1. Len(q) \in Nat \ {0}
    OBVIOUS
  <1> DEFINE n == Len(q) - 1
  <1>2. n \in Int /\ 1 \in Int /\ \A i \in 1 .. n : q[i] \in Entry
    BY <1>1
  <1>3. /\ SubSeq(q, 1, n) \in Seq(Entry) /\ Len(SubSeq(q, 1, n)) = Len(q) - 1
        /\ \A i \in 1 .. Len(q) - 1 : SubSeq(q, 1, n)[i] = q[i]
    <2>1. /\ SubSeq(q, 1, n) \in Seq(Entry)
          /\ Len(SubSeq(q, 1, n)) = (IF 1 <= n THEN n - 1 + 1 ELSE 0)
          /\ \A i \in 1 .. n - 1 + 1 : SubSeq(q, 1, n)[i] = q[1 + i - 1]
      BY <1>2, SubSeqProperties
    <2>2. n - 1 + 1 = n /\ \A i \in 1 .. n : 1 + i - 1 = i
      BY <1>1
    <2> HIDE DEF n
    <2>3. Len(SubSeq(q, 1, n)) = n
      BY <1>1, <2>1, <2>2 DEF n
    <2>4. \A i \in 1 .. n : SubSeq(q, 1, n)[i] = q[i]
      BY <2>1, <2>2
    <2>5. QED
      BY <2>1, <2>3, <2>4 DEF n
  <1>4. QED
    BY <1>1, <1>3 DEF Front, Last

\* The newest entries are the last ones, at most n.
LEMMA NewestKept ==
    ASSUME NEW q \in Seq(Entry), q # <<>>, NEW n \in Nat \ {0}
    PROVE  LET kept == Newest(q, n)
           IN  /\ kept \in Seq(Entry) /\ Len(kept) \in 1 .. n /\ Len(kept) <= Len(q)
               /\ \A i \in 1 .. Len(kept) : kept[i] = q[i + (Len(q) - Len(kept))]
  <1>1. Len(q) \in Nat \ {0}
    OBVIOUS
  <1>2. CASE Len(q) <= n
    BY <1>1, <1>2 DEF Newest
  <1>3. CASE Len(q) > n
    <2> DEFINE from == Len(q) - n + 1
               kept == SubSeq(q, from, Len(q))
    <2>1. from \in Int /\ from \in 1 .. Len(q) /\ \A i \in from .. Len(q) : q[i] \in Entry
      BY <1>1, <1>3
    <2>2. /\ kept \in Seq(Entry) /\ Len(kept) = n
          /\ \A i \in 1 .. n : kept[i] = q[from + i - 1]
      BY <1>1, <1>3, <2>1, SubSeqProperties
    <2>3. Newest(q, n) = kept
      BY <1>1, <1>3 DEF Newest
    <2>4. \A i \in 1 .. n : from + i - 1 = i + (Len(q) - n)
      BY <1>1
    <2> HIDE DEF kept, from
    <2>5. QED
      BY <1>1, <1>3, <2>2, <2>3, <2>4, SMTT(60)
  <1>4. QED
    BY <1>1, <1>2, <1>3

\* A commit goes on the undo stack, whose oldest entries may go.
LEMMA ChainCommits ==
    ASSUME NEW s, NEW u \in Seq(Entry), NEW r \in Seq(Entry), NEW now, NEW e \in Entry,
           Chain(s, u, r, now), EntrySound(s, e), e.before = now
    PROVE  /\ Newest(Append(u, e), MaxHistory) \in Seq(Entry)
           /\ Chain(s, Newest(Append(u, e), MaxHistory), <<>>, e.after)
  <1> DEFINE q == Append(u, e)
             kept == Newest(q, MaxHistory)
             k == Len(q) - Len(kept)
  <1>1. /\ q \in Seq(Entry) /\ q # <<>> /\ Len(q) = Len(u) + 1 /\ q[Len(q)] = e /\ Len(u) \in Nat
        /\ \A i \in 1 .. Len(u) : q[i] = u[i]
    BY Pushed
  <1>2. /\ kept \in Seq(Entry) /\ Len(kept) \in 1 .. MaxHistory /\ Len(kept) <= Len(q)
        /\ \A i \in 1 .. Len(kept) : kept[i] = q[i + k]
    BY <1>1, HistoryKept, NewestKept
  <1>3. \A i \in 1 .. Len(q) : EntrySound(s, q[i])
    BY <1>1 DEF Chain
  <1>4. \A i \in 1 .. Len(q) - 1 : q[i].after = q[i + 1].before
    <2> SUFFICES ASSUME NEW i \in 1 .. Len(q) - 1 PROVE q[i].after = q[i + 1].before
      OBVIOUS
    <2>1. CASE i = Len(u)
      BY <1>1, <2>1 DEF Chain
    <2>2. CASE i < Len(u)
      BY <1>1, <2>2 DEF Chain
    <2>3. QED
      BY <1>1, <2>1, <2>2
  <1> HIDE DEF q, kept
  <1>5. /\ \A i \in 1 .. Len(kept) : EntrySound(s, kept[i])
        /\ kept[Len(kept)] = e
        /\ \A i \in 1 .. Len(kept) - 1 : kept[i].after = kept[i + 1].before
    <2>1. \A i \in 1 .. Len(kept) : i + k \in 1 .. Len(q) /\ kept[i] = q[i + k]
      BY <1>1, <1>2
    <2>2. Len(kept) + k = Len(q)
      BY <1>1, <1>2
    <2>3. \A i \in 1 .. Len(kept) : EntrySound(s, kept[i])
      BY <1>3, <2>1
    <2>4. kept[Len(kept)] = e
      BY <1>1, <1>2, <2>1, <2>2
    <2>5. ASSUME NEW i \in 1 .. Len(kept) - 1
          PROVE  kept[i].after = kept[i + 1].before
      <3>1. i + k \in 1 .. Len(q) - 1 /\ (i + 1) + k = (i + k) + 1
        BY <1>1, <1>2, <2>2
      <3>2. kept[i] = q[i + k] /\ kept[i + 1] = q[(i + k) + 1]
        BY <1>2, <2>1, <3>1
      <3>3. QED
        BY <1>4, <3>1, <3>2
    <2>6. QED
      BY <2>3, <2>4, <2>5
  <1>6. Chain(s, kept, <<>>, e.after)
    BY <1>2, <1>5 DEF Chain
  <1>7. QED
    BY <1>2, <1>6 DEF q, kept

\* An undo moves an entry to the redo stack, and goes back to where it began.
LEMMA ChainUndoes ==
    ASSUME NEW s, NEW u \in Seq(Entry), NEW r \in Seq(Entry), NEW now, Chain(s, u, r, now), u # <<>>
    PROVE  /\ Front(u) \in Seq(Entry) /\ Append(r, Last(u)) \in Seq(Entry)
           /\ EntrySound(s, Last(u)) /\ Last(u).after = now
           /\ Chain(s, Front(u), Append(r, Last(u)), Last(u).before)
  <1> DEFINE e == Last(u)
             p == Front(u)
             q == Append(r, e)
  <1>1. /\ p \in Seq(Entry) /\ Len(p) = Len(u) - 1 /\ \A i \in 1 .. Len(u) - 1 : p[i] = u[i]
        /\ e = u[Len(u)] /\ e \in Entry /\ Len(u) \in Nat \ {0}
    BY Popped
  <1>2. /\ q \in Seq(Entry) /\ q # <<>> /\ Len(q) = Len(r) + 1 /\ q[Len(q)] = e /\ Len(r) \in Nat
        /\ \A i \in 1 .. Len(r) : q[i] = r[i]
    BY <1>1, Pushed
  <1>3. EntrySound(s, e) /\ e.after = now
    BY <1>1 DEF Chain
  <1> HIDE DEF e, p, q
  <1>4. \A i \in 1 .. Len(p) : EntrySound(s, p[i])
    BY <1>1 DEF Chain
  <1>5. ASSUME NEW i \in 1 .. Len(q)
        PROVE  EntrySound(s, q[i])
    <2>1. CASE i = Len(q)
      BY <1>2, <1>3, <2>1
    <2>2. CASE i # Len(q)
      <3>1. i \in 1 .. Len(r)
        BY <1>2, <2>2
      <3>2. EntrySound(s, r[i])
        BY <3>1 DEF Chain
      <3>3. QED
        BY <1>2, <3>1, <3>2
    <2>3. QED
      BY <2>1, <2>2
  <1>6. p # <<>> => p[Len(p)].after = e.before
    BY <1>1 DEF Chain
  <1>7. \A i \in 1 .. Len(p) - 1 : p[i].after = p[i + 1].before
    BY <1>1, SMTT(60) DEF Chain
  <1>8. ASSUME NEW i \in 1 .. Len(q) - 1
        PROVE  q[i].before = q[i + 1].after
    <2>1. CASE i = Len(r)
      BY <1>2, <1>3, <2>1 DEF Chain
    <2>2. CASE i < Len(r)
      BY <1>2, <2>2, SMTT(60) DEF Chain
    <2>3. QED
      BY <1>2, <2>1, <2>2
  <1>9. Len(p) + Len(q) <= MaxHistory
    BY <1>1, <1>2, HistoryKept DEF Chain
  <1>10. Chain(s, p, q, e.before)
    BY <1>2, <1>4, <1>5, <1>6, <1>7, <1>8, <1>9 DEF Chain
  <1>11. QED
    BY <1>1, <1>2, <1>3, <1>10 DEF e, p, q

\* A redo moves it back.
LEMMA ChainRedoes ==
    ASSUME NEW s, NEW u \in Seq(Entry), NEW r \in Seq(Entry), NEW now, Chain(s, u, r, now), r # <<>>
    PROVE  /\ Append(u, Last(r)) \in Seq(Entry) /\ Front(r) \in Seq(Entry)
           /\ EntrySound(s, Last(r)) /\ Last(r).before = now
           /\ Chain(s, Append(u, Last(r)), Front(r), Last(r).after)
  <1> DEFINE e == Last(r)
             p == Front(r)
             q == Append(u, e)
  <1>1. /\ p \in Seq(Entry) /\ Len(p) = Len(r) - 1 /\ \A i \in 1 .. Len(r) - 1 : p[i] = r[i]
        /\ e = r[Len(r)] /\ e \in Entry /\ Len(r) \in Nat \ {0}
    BY Popped
  <1>2. /\ q \in Seq(Entry) /\ q # <<>> /\ Len(q) = Len(u) + 1 /\ q[Len(q)] = e /\ Len(u) \in Nat
        /\ \A i \in 1 .. Len(u) : q[i] = u[i]
    BY <1>1, Pushed
  <1>3. EntrySound(s, e) /\ e.before = now
    BY <1>1 DEF Chain
  <1> HIDE DEF e, p, q
  <1>4. \A i \in 1 .. Len(p) : EntrySound(s, p[i])
    BY <1>1 DEF Chain
  <1>5. ASSUME NEW i \in 1 .. Len(q)
        PROVE  EntrySound(s, q[i])
    <2>1. CASE i = Len(q)
      BY <1>2, <1>3, <2>1
    <2>2. CASE i # Len(q)
      <3>1. i \in 1 .. Len(u)
        BY <1>2, <2>2
      <3>2. EntrySound(s, u[i])
        BY <3>1 DEF Chain
      <3>3. QED
        BY <1>2, <3>1, <3>2
    <2>3. QED
      BY <2>1, <2>2
  <1>6. p # <<>> => p[Len(p)].before = e.after
    BY <1>1 DEF Chain
  <1>7. \A i \in 1 .. Len(p) - 1 : p[i].before = p[i + 1].after
    BY <1>1, SMTT(30) DEF Chain
  <1>8. ASSUME NEW i \in 1 .. Len(q) - 1
        PROVE  q[i].after = q[i + 1].before
    <2>1. CASE i = Len(u)
      BY <1>2, <1>3, <2>1 DEF Chain
    <2>2. CASE i < Len(u)
      BY <1>2, <2>2, SMTT(30) DEF Chain
    <2>3. QED
      BY <1>2, <2>1, <2>2
  <1>9. Len(q) + Len(p) <= MaxHistory
    BY <1>1, <1>2, HistoryKept DEF Chain
  <1>10. Chain(s, q, p, e.after)
    BY <1>2, <1>4, <1>5, <1>6, <1>7, <1>8, <1>9 DEF Chain
  <1>11. QED
    BY <1>1, <1>2, <1>3, <1>10 DEF e, p, q
-----------------------------------------------------------------------------
(* One session *)

\* A session keeps its part of the invariant while its own state and paths rest.
LEMMA Rests ==
    ASSUME NEW t \in Session, SessionSound(t), UNCHANGED <<runtime[t], meta[t], sending[t], server[t], docAt[t]>>,
           Now(t)' = Now(t)
    PROVE  SessionSound(t)'
  <1>1. Mounted(t)' = Mounted(t)
    BY DEF Mounted
  <1>2. HistorySound(t)'
    BY <1>1 DEF SessionSound, HistorySound
  <1>3. RevisionsSound(t)'
    BY <1>1 DEF SessionSound, RevisionsSound
  <1>4. SendingSound(t)'
    BY DEF SessionSound, SendingSound
  <1>5. ServerSound(t)'
    BY <1>1 DEF SessionSound, ServerSound
  <1>6. StatusSound(t)'
    BY <1>1 DEF SessionSound, StatusSound
  <1>7. Metadata(t, runtime[t], doc)' = Metadata(t, runtime[t], doc)
    BY DEF Metadata, Now
  <1>8. MetadataSound(t)'
    BY <1>1, <1>7 DEF SessionSound, MetadataSound
  <1>9. QED
    BY <1>2, <1>3, <1>4, <1>5, <1>6, <1>8 DEF SessionSound

\* What a session writes is beside the paths of the others.
LEMMA Beside ==
    ASSUME SeparatePaths, NEW s \in Session, NEW t \in Session, s # t, NEW d,
           \A p \in Path \ (Tracked[s] \cup {Target[s]}) : d[p] = doc[p]
    PROVE  Capture(d, t) = Now(t)
  <1>1. \A p \in Tracked[t] : p \in Path \ (Tracked[s] \cup {Target[s]})
    BY TrackedForm DEF SeparatePaths
  <1>2. QED
    BY <1>1, Captured DEF Now

\* What an operation writes for session s: a runtime r and a state d.
Wrote(s, r, d) ==
    /\ r \in Runtime /\ r.disposed = runtime[s].disposed /\ d \in [Path -> Held]
    /\ \A p \in Path \ (Tracked[s] \cup {Target[s]}) : d[p] = doc[p]
    /\ Write(s, r, d)
    /\ \A t \in Session \ {s} : UNCHANGED <<sending[t], server[t], docAt[t]>>
    /\ DOMAIN sending' = Session /\ DOMAIN server' = Session /\ docAt' \in [Session -> Seq(Snapshot)]
    /\ sending' \in [Session -> {NoSave} \cup [stage : {"sent", "stored"}, doc : Snapshot, revision : Nat]]

\* Then only its own part of the invariant is in question.
LEMMA Writes ==
    ASSUME SeparatePaths, IInv, NEW s \in Session, NEW r, NEW d, Wrote(s, r, d),
           doc' = d /\ runtime'[s] = r /\ meta'[s] = Metadata(s, r, d) => SessionSound(s)'
    PROVE  IInv'
  <1>1. /\ doc' = d /\ runtime' = [runtime EXCEPT ![s] = r]
        /\ meta' = [meta EXCEPT ![s] = Metadata(s, r, d)]
    BY DEF Wrote, Write
  <1>2. runtime \in [Session -> Runtime] /\ DOMAIN meta = Session /\ \A t, v \in Session : Mounted(t) <=> Mounted(v)
    BY DEF IInv, Types
  <1>3. /\ runtime' \in [Session -> Runtime] /\ runtime'[s] = r
        /\ meta'[s] = Metadata(s, r, d) /\ DOMAIN meta' = Session
        /\ \A t \in Session \ {s} : runtime'[t] = runtime[t] /\ meta'[t] = meta[t]
    BY <1>1, <1>2 DEF Wrote
  <1>4. Types'
    <2>1. \A t \in Session : Mounted(t)' = Mounted(t)
      BY <1>3 DEF Wrote, Mounted
    <2>2. QED
      BY <1>1, <1>2, <1>3, <2>1 DEF Wrote, Types
  <1>5. ASSUME NEW t \in Session \ {s} PROVE SessionSound(t)'
    <2>1. Capture(d, t) = Now(t)
      BY Beside DEF Wrote
    <2>2. Now(t)' = Now(t)
      BY <1>1, <2>1 DEF Now
    <2>3. QED
      BY <1>3, <2>2, Rests DEF Wrote, IInv
  <1>6. QED
    BY <1>1, <1>3, <1>4, <1>5 DEF IInv

\* The document of a session is a snapshot.
LEMMA Snapped ==
    ASSUME NEW s \in Session, NEW d \in [Path -> Held]
    PROVE  Capture(d, s) \in Snapshot /\ Capture(d, s) \in [Tracked[s] -> Held]
  <1>1. Tracked[s] \subseteq Path
    BY TrackedForm
  <1>2. Capture(d, s) \in [Tracked[s] -> Held]
    BY <1>1, Captured
  <1>3. QED
    BY <1>1, <1>2 DEF Snapshot

\* A new revision with sound stacks keeps the invariant.
LEMMA Revises ==
    ASSUME SeparatePaths, IInv, NEW s \in Session, Mounted(s), NEW u \in Seq(Entry), NEW r \in Seq(Entry),
           NEW d \in [Path -> Held], \A p \in Path \ Tracked[s] : d[p] = doc[p],
           Chain(s, u, r, Capture(d, s)),
           Revise(s, [runtime[s] EXCEPT !.undo = u, !.redo = r], d), UNCHANGED <<sending, server>>
    PROVE  IInv'
  <1> DEFINE now == runtime[s]
             next == [now EXCEPT !.undo = u, !.redo = r, !.revision = now.revision + 1,
                                 !.saveStatus = IF now.saveStatus = "saving" THEN now.saveStatus ELSE "idle"]
             c == Capture(d, s)
  <1>1. /\ now \in Runtime /\ docAt \in [Session -> Seq(Snapshot)] /\ docAt[s] \in Seq(Snapshot)
        /\ DOMAIN sending = Session /\ DOMAIN server = Session
        /\ sending \in [Session -> {NoSave} \cup [stage : {"sent", "stored"}, doc : Snapshot, revision : Nat]]
        /\ SessionSound(s)
    BY DEF IInv, Types
  <1>2. Write(s, next, d) /\ docAt' = [docAt EXCEPT ![s] = Append(docAt[s], c)]
    BY <1>1 DEF Revise, Runtime
  <1>3. /\ next \in Runtime /\ next.disposed = now.disposed /\ next.undo = u /\ next.redo = r
        /\ next.revision = now.revision + 1 /\ next.saved = now.saved
        /\ next.savedRevision = now.savedRevision
        /\ next.saveStatus = "saving" <=> now.saveStatus = "saving"
    <2> DEFINE status == IF now.saveStatus = "saving" THEN now.saveStatus ELSE "idle"
    <2>1. /\ status \in {"idle", "saving", "saved", "error"} /\ now.revision + 1 \in Nat
          /\ status = "saving" <=> now.saveStatus = "saving"
      BY <1>1 DEF Runtime
    <2> HIDE DEF status
    <2>2. next = [now EXCEPT !.undo = u, !.redo = r, !.revision = now.revision + 1, !.saveStatus = status]
      BY DEF status
    <2>3. QED
      BY <1>1, <2>1, <2>2 DEF Runtime
  <1>4. c \in Snapshot /\ c \in [Tracked[s] -> Held]
    BY Snapped
  <1>5. /\ docAt' \in [Session -> Seq(Snapshot)] /\ docAt'[s] = Append(docAt[s], c)
        /\ \A t \in Session \ {s} : docAt'[t] = docAt[t]
    BY <1>1, <1>2, <1>4
  <1> HIDE DEF next
  <1>6. Wrote(s, next, d)
    BY <1>1, <1>2, <1>3, <1>5 DEF Wrote
  <1>7. ASSUME doc' = d, runtime'[s] = next, meta'[s] = Metadata(s, next, d)
        PROVE  SessionSound(s)'
    <2>1. Mounted(s)' /\ Now(s)' = c
      BY <1>3, <1>7 DEF Mounted, Now
    <2>2. HistorySound(s)'
      BY <1>3, <1>7, <2>1 DEF HistorySound
    <2>3. /\ Len(docAt[s]) = now.revision + 1 /\ now.savedRevision \in 0 .. now.revision /\ now.revision \in Nat
          /\ now.saved = docAt[s][now.savedRevision + 1] /\ now.saved \in [Tracked[s] -> Held]
      BY <1>1 DEF SessionSound, RevisionsSound, Runtime
    <2>4. /\ Len(docAt'[s]) = Len(docAt[s]) + 1 /\ docAt'[s][Len(docAt[s]) + 1] = c
          /\ \A i \in 1 .. Len(docAt[s]) : docAt'[s][i] = docAt[s][i]
      BY <1>1, <1>4, <1>5
    <2>5. /\ Len(docAt'[s]) = next.revision + 1 /\ docAt'[s][next.revision + 1] = c
          /\ next.savedRevision \in 0 .. next.revision
          /\ \A i \in 0 .. now.revision : i \in 0 .. next.revision /\ docAt'[s][i + 1] = docAt[s][i + 1]
      <3>1. \A i \in 0 .. now.revision : i + 1 \in 1 .. Len(docAt[s]) /\ i \in 0 .. next.revision
        BY <1>3, <2>3
      <3>2. QED
        BY <1>3, <2>3, <2>4, <3>1
    <2>6. RevisionsSound(s)'
      BY <1>3, <1>7, <2>1, <2>3, <2>5 DEF RevisionsSound
    <2>7. SendingSound(s)'
      BY <1>1, <1>7, <2>5 DEF SessionSound, SendingSound
    <2>8. ServerSound(s)'
      BY <1>1, <1>3, <1>7 DEF SessionSound, ServerSound
    <2>9. StatusSound(s)'
      BY <1>1, <1>3, <1>7 DEF SessionSound, StatusSound
    <2>10. MetadataSound(s)'
      BY <1>7 DEF MetadataSound
    <2>11. QED
      BY <2>2, <2>6, <2>7, <2>8, <2>9, <2>10 DEF SessionSound
  <1>8. QED
    BY <1>6, <1>7, Writes
-----------------------------------------------------------------------------
(* Editing *)

\* The types and the parts of the invariant that every operation of a session uses.
LEMMA Known ==
    ASSUME IInv, NEW s \in Session
    PROVE  /\ doc \in [Path -> Held] /\ runtime[s] \in Runtime
           /\ docAt \in [Session -> Seq(Snapshot)] /\ DOMAIN sending = Session /\ DOMAIN server = Session
           /\ sending \in [Session -> {NoSave} \cup [stage : {"sent", "stored"}, doc : Snapshot, revision : Nat]]
           /\ Now(s) \in Snapshot /\ Now(s) \in [Tracked[s] -> Held]
           /\ Mounted(s) => Chain(s, runtime[s].undo, runtime[s].redo, Now(s))
           /\ SessionSound(s)
  BY Snapped DEF IInv, Types, SessionSound, HistorySound, Now

\* Writing the metadata anew changes nothing that was sound.
LEMMA Refreshes ==
    ASSUME SeparatePaths, IInv, NEW s \in Session, Write(s, runtime[s], doc), UNCHANGED <<sending, server, docAt>>
    PROVE  IInv'
  <1>1. Wrote(s, runtime[s], doc)
    BY Known DEF Wrote
  <1>2. ASSUME doc' = doc, runtime'[s] = runtime[s], meta'[s] = Metadata(s, runtime[s], doc)
        PROVE  SessionSound(s)'
    <2>1. Mounted(s)' = Mounted(s) /\ Now(s)' = Now(s)
      BY <1>2 DEF Mounted, Now
    <2>2. HistorySound(s)' /\ RevisionsSound(s)' /\ SendingSound(s)' /\ ServerSound(s)' /\ StatusSound(s)'
      BY <1>2, <2>1, Known
      DEF SessionSound, HistorySound, RevisionsSound, SendingSound, ServerSound, StatusSound
    <2>3. QED
      BY <1>2, <2>2 DEF SessionSound, MetadataSound
  <1>3. QED
    BY <1>1, <1>2, Writes

LEMMA CommitKeeps ==
    ASSUME SeparatePaths, IInv, NEW s \in Session, NEW changes \in Changes, Commit(s, changes)
    PROVE  IInv'
  <1> DEFINE resolved == Resolved(changes)
             d == Applied(doc, resolved)
             entry == [changes |-> resolved, before |-> Now(s), after |-> Capture(d, s)]
             u == runtime[s].undo
             r == runtime[s].redo
  <1>1. CASE Write(s, runtime[s], doc) /\ UNCHANGED docAt
    BY <1>1, Refreshes DEF Commit
  <1>2. CASE Revise(s, [runtime[s] EXCEPT !.undo = Newest(Append(u, entry), MaxHistory), !.redo = <<>>], d)
    <2>1. /\ d \in [Path -> Held] /\ \A p \in Path \ Tracked[s] : d[p] = doc[p]
          /\ entry \in Entry /\ EntrySound(s, entry)
      BY Known, CommitEntry DEF Commit
    <2>2. /\ Mounted(s) /\ Chain(s, u, r, Now(s)) /\ u \in Seq(Entry) /\ r \in Seq(Entry) /\ <<>> \in Seq(Entry)
          /\ UNCHANGED <<sending, server>>
      BY Known DEF Commit, Runtime
    <2>3. entry.before = Now(s) /\ entry.after = Capture(d, s)
      OBVIOUS
    <2> HIDE DEF entry, d
    <2>4. /\ Newest(Append(u, entry), MaxHistory) \in Seq(Entry)
          /\ Chain(s, Newest(Append(u, entry), MaxHistory), <<>>, Capture(d, s))
      BY <2>1, <2>2, <2>3, ChainCommits
    <2>5. QED
      BY <1>2, <2>1, <2>2, <2>4, Revises
  <1>3. QED
    BY <1>1, <1>2 DEF Commit

\* Undo and redo lead to the documents that the entry has recorded.
LEMMA EntryReached ==
    ASSUME NEW s \in Session, doc \in [Path -> Held], NEW e \in Entry, EntrySound(s, e)
    PROVE  /\ e.after = Now(s) =>
                /\ Reverted(doc, e.changes) \in [Path -> Held] /\ Capture(Reverted(doc, e.changes), s) = e.before
                /\ \A p \in Path \ Tracked[s] : Reverted(doc, e.changes)[p] = doc[p]
           /\ e.before = Now(s) =>
                /\ Applied(doc, e.changes) \in [Path -> Held] /\ Capture(Applied(doc, e.changes), s) = e.after
                /\ \A p \in Path \ Tracked[s] : Applied(doc, e.changes)[p] = doc[p]
  <1> DEFINE back == Reverted(doc, e.changes)
             on == Applied(doc, e.changes)
  <1>1. /\ Capture(on, s) = Applied(Now(s), e.changes) /\ Capture(back, s) = Reverted(Now(s), e.changes)
        /\ DOMAIN on = Path /\ DOMAIN back = Path
        /\ \A p \in Path \ Tracked[s] : on[p] = doc[p] /\ back[p] = doc[p]
    BY ChangesCaptured DEF EntrySound, Now
  <1>2. back = [p \in Path |-> back[p]] /\ on = [p \in Path |-> on[p]]
    BY DEF Applied, Reverted
  <1> HIDE DEF back, on
  <1>3. /\ Capture(on, s) = [p \in Tracked[s] |-> on[p]] /\ Capture(back, s) = [p \in Tracked[s] |-> back[p]]
        /\ Tracked[s] \subseteq Path
    BY Captured, TrackedForm
  <1>4. ASSUME e.after = Now(s) PROVE back \in [Path -> Held] /\ Capture(back, s) = e.before
    <2>1. Capture(back, s) = e.before
      BY <1>1, <1>4 DEF EntrySound
    <2>2. \A p \in Tracked[s] : back[p] \in Held
      BY <1>3, <2>1 DEF EntrySound
    <2>3. \A p \in Path : back[p] \in Held
      BY <1>1, <2>2
    <2>4. QED
      BY <1>2, <2>1, <2>3
  <1>5. ASSUME e.before = Now(s) PROVE on \in [Path -> Held] /\ Capture(on, s) = e.after
    <2>1. Capture(on, s) = e.after
      BY <1>1, <1>5 DEF EntrySound
    <2>2. \A p \in Tracked[s] : on[p] \in Held
      BY <1>3, <2>1 DEF EntrySound
    <2>3. \A p \in Path : on[p] \in Held
      BY <1>1, <2>2
    <2>4. QED
      BY <1>2, <2>1, <2>3
  <1>6. QED
    BY <1>1, <1>4, <1>5 DEF back, on

LEMMA UndoKeeps ==
    ASSUME SeparatePaths, IInv, NEW s \in Session, Undo(s)
    PROVE  IInv'
  <1> DEFINE u == runtime[s].undo
             r == runtime[s].redo
             e == Last(u)
  <1>1. /\ Mounted(s) /\ Chain(s, u, r, Now(s)) /\ u \in Seq(Entry) /\ r \in Seq(Entry) /\ u # <<>>
        /\ Revise(s, [runtime[s] EXCEPT !.undo = Front(u), !.redo = Append(r, e)], Reverted(doc, e.changes))
        /\ UNCHANGED <<sending, server>>
    BY Known DEF Undo, Runtime
  <1>2. /\ Front(u) \in Seq(Entry) /\ Append(r, e) \in Seq(Entry) /\ EntrySound(s, e) /\ e.after = Now(s)
        /\ Chain(s, Front(u), Append(r, e), e.before) /\ e \in Entry
    <2>1. e \in Entry
      BY <1>1, Popped
    <2>2. QED
      BY <1>1, <2>1, ChainUndoes
  <1> HIDE DEF e
  <1>3. /\ Reverted(doc, e.changes) \in [Path -> Held] /\ Capture(Reverted(doc, e.changes), s) = e.before
        /\ \A p \in Path \ Tracked[s] : Reverted(doc, e.changes)[p] = doc[p]
    BY <1>2, EntryReached, Known
  <1>4. QED
    BY <1>1, <1>2, <1>3, Revises, ZenonT(60)

LEMMA RedoKeeps ==
    ASSUME SeparatePaths, IInv, NEW s \in Session, Redo(s)
    PROVE  IInv'
  <1> DEFINE u == runtime[s].undo
             r == runtime[s].redo
             e == Last(r)
  <1>1. /\ Mounted(s) /\ Chain(s, u, r, Now(s)) /\ u \in Seq(Entry) /\ r \in Seq(Entry) /\ r # <<>>
        /\ Revise(s, [runtime[s] EXCEPT !.redo = Front(r), !.undo = Append(u, e)], Applied(doc, e.changes))
        /\ UNCHANGED <<sending, server>>
    BY Known DEF Redo, Runtime
  <1>2. /\ Append(u, e) \in Seq(Entry) /\ Front(r) \in Seq(Entry) /\ EntrySound(s, e) /\ e.before = Now(s)
        /\ Chain(s, Append(u, e), Front(r), e.after) /\ e \in Entry
    <2>1. e \in Entry
      BY <1>1, Popped
    <2>2. QED
      BY <1>1, <2>1, ChainRedoes
  <1> HIDE DEF e
  <1>3. /\ Applied(doc, e.changes) \in [Path -> Held] /\ Capture(Applied(doc, e.changes), s) = e.after
        /\ \A p \in Path \ Tracked[s] : Applied(doc, e.changes)[p] = doc[p]
    BY <1>2, EntryReached, Known
  <1>4. [runtime[s] EXCEPT !.redo = Front(r), !.undo = Append(u, e)] =
          [runtime[s] EXCEPT !.undo = Append(u, e), !.redo = Front(r)]
    BY Known DEF Runtime
  <1>5. Revise(s, [runtime[s] EXCEPT !.undo = Append(u, e), !.redo = Front(r)], Applied(doc, e.changes))
    BY <1>1, <1>4
  <1>6. QED
    BY <1>1, <1>2, <1>3, <1>5, Revises

LEMMA DiscardKeeps ==
    ASSUME SeparatePaths, IInv, NEW s \in Session, Discard(s)
    PROVE  IInv'
  <1> DEFINE d == [p \in Path |-> IF p \in Tracked[s] THEN runtime[s].saved[p] ELSE doc[p]]
  <1>1. /\ Mounted(s) /\ Revise(s, [runtime[s] EXCEPT !.undo = <<>>, !.redo = <<>>], d)
        /\ UNCHANGED <<sending, server>>
    BY DEF Discard
  <1>2. runtime[s].saved \in [Tracked[s] -> Held] /\ doc \in [Path -> Held]
    BY Known DEF SessionSound, RevisionsSound
  <1>3. d \in [Path -> Held] /\ \A p \in Path \ Tracked[s] : d[p] = doc[p]
    BY <1>2
  <1>4. <<>> \in Seq(Entry) /\ Chain(s, <<>>, <<>>, Capture(d, s))
    BY HistoryKept DEF Chain
  <1> HIDE DEF d
  <1>5. QED
    BY <1>1, <1>3, <1>4, Revises
-----------------------------------------------------------------------------
(* Saving *)

LEMMA MarkSavedKeeps ==
    ASSUME SeparatePaths, IInv, NEW s \in Session, MarkSaved(s)
    PROVE  IInv'
  <1> DEFINE now == runtime[s]
             r == [now EXCEPT !.saved = Now(s), !.savedRevision = now.revision, !.saveStatus = "saved"]
  <1>1. /\ now \in Runtime /\ r \in Runtime /\ r.disposed = now.disposed /\ r.undo = now.undo /\ r.redo = now.redo
        /\ r.saved = Now(s) /\ r.savedRevision = now.revision /\ r.revision = now.revision /\ now.revision \in Nat
    BY Known DEF Runtime
  <1>2. /\ Write(s, r, doc) /\ UNCHANGED <<sending, docAt>> /\ s \in Marking /\ Mounted(s)
        /\ server' = [server EXCEPT ![s] = Now(s)]
    BY DEF MarkSaved
  <1> HIDE DEF r
  <1>3. Wrote(s, r, doc)
    BY <1>1, <1>2, Known DEF Wrote
  <1>4. ASSUME doc' = doc, runtime'[s] = r, meta'[s] = Metadata(s, r, doc)
        PROVE  SessionSound(s)'
    <2>1. Mounted(s)' /\ Now(s)' = Now(s)
      BY <1>1, <1>2, <1>4 DEF Mounted, Now
    <2>2. HistorySound(s)'
      BY <1>1, <1>2, <1>4, <2>1, Known DEF HistorySound
    <2>3. RevisionsSound(s)'
      BY <1>1, <1>2, <1>4, <2>1, Known DEF SessionSound, RevisionsSound
    <2>4. SendingSound(s)'
      BY <1>1, <1>2, <1>4, Known DEF SessionSound, SendingSound
    <2>5. ServerSound(s)' /\ StatusSound(s)' /\ MetadataSound(s)'
      BY <1>2, <1>4 DEF ServerSound, StatusSound, MetadataSound
    <2>6. QED
      BY <2>2, <2>3, <2>4, <2>5 DEF SessionSound
  <1>5. QED
    BY <1>3, <1>4, Writes

LEMMA StartSaveKeeps ==
    ASSUME SeparatePaths, IInv, NEW s \in Session, StartSave(s)
    PROVE  IInv'
  <1> DEFINE now == runtime[s]
             refused == [now EXCEPT !.saveStatus = "error"]
             started == [now EXCEPT !.saveStatus = "saving", !.attempts = now.attempts + 1]
             sent == [stage |-> "sent", doc |-> Now(s), revision |-> now.revision]
  <1>1. now \in Runtime /\ now.revision \in Nat
    BY Known DEF Runtime
  <1>2. Mounted(s) /\ sending[s] = NoSave /\ UNCHANGED <<server, docAt>>
    BY DEF StartSave
  <1>3. ASSUME Write(s, refused, doc), UNCHANGED sending PROVE IInv'
    <2>1. /\ refused \in Runtime /\ refused.disposed = now.disposed /\ refused.undo = now.undo
          /\ refused.redo = now.redo /\ refused.saved = now.saved /\ refused.revision = now.revision
          /\ refused.savedRevision = now.savedRevision /\ refused.saveStatus = "error"
      BY <1>1 DEF Runtime
    <2> HIDE DEF refused
    <2>2. Wrote(s, refused, doc)
      BY <1>2, <1>3, <2>1, Known DEF Wrote
    <2>3. ASSUME doc' = doc, runtime'[s] = refused, meta'[s] = Metadata(s, refused, doc)
          PROVE  SessionSound(s)'
      <3>1. Mounted(s)' /\ Now(s)' = Now(s)
        BY <1>2, <2>1, <2>3 DEF Mounted, Now
      <3>2. HistorySound(s)' /\ RevisionsSound(s)'
        BY <1>2, <2>1, <2>3, <3>1, Known DEF SessionSound, HistorySound, RevisionsSound
      <3>3. SendingSound(s)' /\ StatusSound(s)' /\ MetadataSound(s)'
        BY <1>2, <1>3, <2>1, <2>3 DEF SendingSound, StatusSound, MetadataSound
      <3>4. ServerSound(s)'
        BY <1>2, <1>3, <2>1, <2>3, Known DEF SessionSound, ServerSound
      <3>5. QED
        BY <3>2, <3>3, <3>4 DEF SessionSound
    <2>4. QED
      BY <2>2, <2>3, Writes
  <1>4. ASSUME Write(s, started, doc), sending' = [sending EXCEPT ![s] = sent] PROVE IInv'
    <2>1. /\ started \in Runtime /\ started.disposed = now.disposed /\ started.undo = now.undo
          /\ started.redo = now.redo /\ started.saved = now.saved /\ started.revision = now.revision
          /\ started.savedRevision = now.savedRevision /\ started.saveStatus = "saving"
      <3> DEFINE attempts == now.attempts + 1
      <3>1. attempts \in Nat
        BY <1>1 DEF Runtime
      <3>2. started = [now EXCEPT !.saveStatus = "saving", !.attempts = attempts]
        OBVIOUS
      <3> HIDE DEF attempts, started
      <3>3. QED
        BY <1>1, <3>1, <3>2 DEF Runtime
    <2>2. /\ sent \in [stage : {"sent", "stored"}, doc : Snapshot, revision : Nat]
          /\ sent.doc = Now(s) /\ sent.revision = now.revision /\ sent.stage = "sent" /\ sent # NoSave
      BY <1>1, Known DEF NoSave
    <2> HIDE DEF started, sent
    <2>3. Wrote(s, started, doc) /\ sending'[s] = sent
      BY <1>2, <1>4, <2>1, <2>2, Known DEF Wrote
    <2>4. ASSUME doc' = doc, runtime'[s] = started, meta'[s] = Metadata(s, started, doc)
          PROVE  SessionSound(s)'
      <3>1. Mounted(s)' /\ Now(s)' = Now(s)
        BY <1>2, <2>1, <2>4 DEF Mounted, Now
      <3>2. HistorySound(s)' /\ RevisionsSound(s)'
        BY <1>2, <2>1, <2>4, <3>1, Known DEF SessionSound, HistorySound, RevisionsSound
      <3>3. SendingSound(s)'
        BY <1>1, <1>2, <2>1, <2>2, <2>3, <2>4, Known DEF SessionSound, RevisionsSound, SendingSound
      <3>4. ServerSound(s)'
        BY <1>2, <2>1, <2>2, <2>3, <2>4, Known DEF SessionSound, ServerSound, NoSave
      <3>5. StatusSound(s)' /\ MetadataSound(s)'
        BY <2>1, <2>2, <2>3, <2>4 DEF StatusSound, MetadataSound
      <3>6. QED
        BY <3>2, <3>3, <3>4, <3>5 DEF SessionSound
    <2>5. QED
      BY <2>3, <2>4, Writes
  <1>5. started = [now EXCEPT !.saveStatus = "saving", !.attempts = @ + 1]
    <2>1. [now EXCEPT !.saveStatus = "saving"].attempts = now.attempts
      BY <1>1 DEF Runtime
    <2>2. QED
      BY <2>1
  <1>6. QED
    BY <1>3, <1>4, <1>5 DEF StartSave

LEMMA ServerStoresKeeps ==
    ASSUME IInv, NEW s \in Session, ServerStores(s)
    PROVE  IInv'
  <1>1. /\ sending[s] \in [stage : {"sent", "stored"}, doc : Snapshot, revision : Nat] /\ sending[s].stage = "sent"
        /\ sending[s] # NoSave
    BY Known DEF ServerStores, NoSave
  <1>2. /\ sending' = [sending EXCEPT ![s] = [sending[s] EXCEPT !.stage = "stored"]]
        /\ server' = [server EXCEPT ![s] = sending[s].doc] /\ UNCHANGED <<doc, runtime, meta, docAt>>
    BY DEF ServerStores
  <1>3. /\ sending' \in [Session -> {NoSave} \cup [stage : {"sent", "stored"}, doc : Snapshot, revision : Nat]]
        /\ sending'[s] # NoSave /\ sending'[s].stage = "stored" /\ sending'[s].doc = sending[s].doc
        /\ sending'[s].revision = sending[s].revision /\ server'[s] = sending[s].doc /\ DOMAIN server' = Session
        /\ \A t \in Session \ {s} : sending'[t] = sending[t] /\ server'[t] = server[t]
    BY <1>1, <1>2, Known DEF NoSave
  <1>4. Types'
    BY <1>2, <1>3 DEF IInv, Types, Mounted
  <1>5. ASSUME NEW t \in Session \ {s} PROVE SessionSound(t)'
    BY <1>2, <1>3, Rests DEF IInv, Now
  <1>6. SessionSound(s)'
    <2>1. Mounted(s)' = Mounted(s) /\ Now(s)' = Now(s) /\ Metadata(s, runtime[s], doc)' = Metadata(s, runtime[s], doc)
      BY <1>2 DEF Mounted, Now, Metadata
    <2>2. HistorySound(s)' /\ RevisionsSound(s)'
      BY <1>2, <2>1, Known DEF SessionSound, HistorySound, RevisionsSound
    <2>3. SendingSound(s)'
      BY <1>1, <1>2, <1>3, Known DEF SessionSound, SendingSound
    <2>4. ServerSound(s)'
      BY <1>3 DEF ServerSound
    <2>5. StatusSound(s)' /\ MetadataSound(s)'
      BY <1>1, <1>2, <1>3, <2>1, Known DEF SessionSound, StatusSound, MetadataSound
    <2>6. QED
      BY <2>2, <2>3, <2>4, <2>5 DEF SessionSound
  <1>7. QED
    BY <1>4, <1>5, <1>6 DEF IInv

\* The answer of a save of s comes, and is written as the runtime r and the state d, if s
\* is still mounted.
LEMMA AnswerKeeps ==
    ASSUME SeparatePaths, IInv, NEW s \in Session, NEW r \in Runtime, NEW d \in [Path -> Held],
           \A p \in Path \ {Target[s]} : d[p] = doc[p],
           r.undo = runtime[s].undo, r.redo = runtime[s].redo, r.revision = runtime[s].revision,
           r.disposed = runtime[s].disposed, r.savedRevision \in 0 .. r.revision,
           r.saved = docAt[s][r.savedRevision + 1], r.saved \in [Tracked[s] -> Held],
           s \notin Lossy \cup Marking /\ Mounted(s) => server[s] = r.saved, r.saveStatus # "saving",
           IF Mounted(s) THEN Write(s, r, d) ELSE UNCHANGED <<doc, runtime, meta>>,
           sending' = [sending EXCEPT ![s] = NoSave], UNCHANGED <<server, docAt>>
    PROVE  IInv'
  <1>1. /\ sending' \in [Session -> {NoSave} \cup [stage : {"sent", "stored"}, doc : Snapshot, revision : Nat]]
        /\ sending'[s] = NoSave /\ \A t \in Session \ {s} : sending'[t] = sending[t]
    BY Known
  <1>2. CASE Mounted(s)
    <2>1. Wrote(s, r, d)
      BY <1>1, <1>2, Known DEF Wrote
    <2>2. ASSUME doc' = d, runtime'[s] = r, meta'[s] = Metadata(s, r, d)
          PROVE  SessionSound(s)'
      <3>1. \A p \in Tracked[s] : d[p] = doc[p]
        BY TrackedForm DEF SeparatePaths
      <3>2. Mounted(s)' /\ Now(s)' = Now(s)
        BY <1>2, <2>2, <3>1, Captured DEF Mounted, Now
      <3>3. HistorySound(s)' /\ RevisionsSound(s)'
        BY <1>2, <2>2, <3>2, Known DEF SessionSound, HistorySound, RevisionsSound
      <3>4. SendingSound(s)' /\ StatusSound(s)' /\ MetadataSound(s)'
        BY <1>1, <2>2 DEF SendingSound, StatusSound, MetadataSound
      <3>5. ServerSound(s)'
        BY <1>1, <1>2, <2>2 DEF ServerSound, NoSave
      <3>6. QED
        BY <3>3, <3>4, <3>5 DEF SessionSound
    <2>3. QED
      BY <2>1, <2>2, Writes
  <1>3. CASE ~Mounted(s)
    <2>1. UNCHANGED <<doc, runtime, meta>>
      BY <1>3
    <2>2. Types'
      BY <1>1, <2>1 DEF IInv, Types, Mounted
    <2>3. ASSUME NEW t \in Session \ {s} PROVE SessionSound(t)'
      BY <1>1, <2>1, Rests DEF IInv, Now
    <2>4. SessionSound(s)'
      <3>1. ~Mounted(s)'
        BY <1>3, <2>1 DEF Mounted
      <3>2. RevisionsSound(s)'
        BY <2>1, <3>1, Known DEF SessionSound, RevisionsSound
      <3>3. SendingSound(s)'
        BY <1>1 DEF SendingSound
      <3>4. QED
        BY <3>1, <3>2, <3>3 DEF SessionSound, HistorySound, ServerSound, StatusSound, MetadataSound
    <2>5. QED
      BY <2>2, <2>3, <2>4 DEF IInv
  <1>4. QED
    BY <1>2, <1>3

LEMMA SavedKeeps ==
    ASSUME SeparatePaths, IInv, NEW s \in Session, Saved(s)
    PROVE  IInv'
  <1> DEFINE now == runtime[s]
             d == WithAnswer(s, doc)
             r == [now EXCEPT !.saved = WithAnswer(s, sending[s].doc),
                              !.savedRevision = sending[s].revision, !.saveStatus = "saved"]
  <1>1. /\ sending[s].stage = "stored" /\ sending[s] # NoSave
        /\ IF Mounted(s) THEN Write(s, r, d) ELSE UNCHANGED <<doc, runtime, meta>>
        /\ sending' = [sending EXCEPT ![s] = NoSave] /\ UNCHANGED <<server, docAt>>
    BY DEF Saved, NoSave
  <1>2. /\ sending[s] \in [stage : {"sent", "stored"}, doc : Snapshot, revision : Nat] /\ SendingSound(s)
        /\ sending[s].revision \in 0 .. now.revision /\ sending[s].doc = docAt[s][sending[s].revision + 1]
        /\ sending[s].doc \in [Tracked[s] -> Held]
    BY <1>1, Known DEF SessionSound, SendingSound
  <1>3. WithAnswer(s, sending[s].doc) = sending[s].doc
    BY <1>2 DEF WithAnswer, SeparatePaths
  <1>4. d \in [Path -> Held] /\ \A p \in Path \ {Target[s]} : d[p] = doc[p]
    BY Known DEF WithAnswer, Assign, Held
  <1>5. /\ r \in Runtime /\ r.undo = now.undo /\ r.redo = now.redo /\ r.revision = now.revision
        /\ r.disposed = now.disposed /\ r.savedRevision = sending[s].revision /\ r.saved = sending[s].doc
        /\ r.saveStatus = "saved"
    BY <1>2, <1>3, Known DEF Runtime
  <1>6. s \notin Lossy \cup Marking /\ Mounted(s) => server[s] = sending[s].doc
    BY <1>1, Known DEF SessionSound, ServerSound
  <1> HIDE DEF r, d
  <1>7. QED
    BY <1>1, <1>2, <1>4, <1>5, <1>6, AnswerKeeps

LEMMA SaveFailedKeeps ==
    ASSUME SeparatePaths, IInv, NEW s \in Session, SaveFailed(s)
    PROVE  IInv'
  <1> DEFINE now == runtime[s]
             r == [now EXCEPT !.saveStatus = "error"]
  <1>1. /\ IF Mounted(s) THEN Write(s, r, doc) ELSE UNCHANGED <<doc, runtime, meta>>
        /\ sending' = [sending EXCEPT ![s] = NoSave] /\ UNCHANGED <<server, docAt>>
        /\ s \notin Lossy => sending[s].stage # "stored"
    BY DEF SaveFailed
  <1>2. /\ r \in Runtime /\ r.undo = now.undo /\ r.redo = now.redo /\ r.revision = now.revision
        /\ r.disposed = now.disposed /\ r.savedRevision = now.savedRevision /\ r.saved = now.saved
        /\ r.saveStatus # "saving"
    BY Known DEF Runtime
  <1>3. /\ now.savedRevision \in 0 .. now.revision /\ now.saved = docAt[s][now.savedRevision + 1]
        /\ now.saved \in [Tracked[s] -> Held] /\ doc \in [Path -> Held]
    BY Known DEF SessionSound, RevisionsSound
  <1>4. s \notin Lossy \cup Marking /\ Mounted(s) => server[s] = now.saved
    BY <1>1, Known DEF SessionSound, ServerSound
  <1> HIDE DEF r
  <1>5. QED
    BY <1>1, <1>2, <1>3, <1>4, AnswerKeeps

LEMMA UnmountKeeps ==
    ASSUME IInv, Unmount
    PROVE  IInv'
  <1>1. /\ runtime' = [s \in Session |-> [runtime[s] EXCEPT !.disposed = TRUE]]
        /\ meta' = [s \in Session |-> NoMeta] /\ UNCHANGED <<doc, sending, server, docAt>>
    BY DEF Unmount
  <1>2. ASSUME NEW s \in Session
        PROVE  /\ runtime'[s] \in Runtime /\ ~Mounted(s)' /\ runtime'[s].revision = runtime[s].revision
               /\ runtime'[s].savedRevision = runtime[s].savedRevision /\ runtime'[s].saved = runtime[s].saved
    BY <1>1, Known DEF Mounted, Runtime
  <1>3. Types'
    BY <1>1, <1>2 DEF IInv, Types
  <1>4. ASSUME NEW s \in Session PROVE SessionSound(s)'
    <2>1. RevisionsSound(s)' /\ SendingSound(s)'
      BY <1>1, <1>2, Known DEF SessionSound, RevisionsSound, SendingSound
    <2>2. QED
      BY <1>2, <2>1 DEF SessionSound, HistorySound, ServerSound, StatusSound, MetadataSound
  <1>5. QED
    BY <1>3, <1>4 DEF IInv
-----------------------------------------------------------------------------
(* The sessions of a screen *)

LEMMA Begins == SeparatePaths /\ Init => IInv
  <1> SUFFICES ASSUME Init PROVE IInv
    OBVIOUS
  <1>1. doc \in [Path -> Held]
    BY DEF Init, Held
  <1>2. \A s \in Session : Now(s) \in Snapshot /\ Now(s) \in [Tracked[s] -> Held]
    BY <1>1, Snapped DEF Now
  <1>3. ASSUME NEW s \in Session
        PROVE  /\ runtime[s] \in Runtime /\ runtime[s].undo = <<>> /\ runtime[s].redo = <<>>
               /\ runtime[s].saved = Now(s) /\ runtime[s].revision = 0 /\ runtime[s].savedRevision = 0
               /\ runtime[s].saveStatus = "idle" /\ ~runtime[s].disposed
    BY <1>2 DEF Init, Runtime
  <1>4. /\ runtime \in [Session -> Runtime] /\ DOMAIN meta = Session /\ DOMAIN server = Session
        /\ docAt \in [Session -> Seq(Snapshot)] /\ sending = [s \in Session |-> NoSave]
    BY <1>2, <1>3 DEF Init
  <1>5. Types
    BY <1>1, <1>3, <1>4 DEF Types, Mounted
  <1>6. ASSUME NEW s \in Session PROVE SessionSound(s)
    <2>1. docAt[s] = <<Now(s)>> /\ server[s] = Now(s) /\ meta[s] = Metadata(s, runtime[s], doc)
      BY DEF Init
    <2>2. HistorySound(s)
      <3>1. Chain(s, <<>>, <<>>, Now(s))
        BY HistoryKept DEF Chain
      <3>2. QED
        BY <1>3, <3>1 DEF HistorySound
    <2>3. RevisionsSound(s)
      BY <1>2, <1>3, <2>1 DEF RevisionsSound
    <2>4. SendingSound(s) /\ StatusSound(s) /\ MetadataSound(s)
      BY <1>3, <1>4, <2>1 DEF SendingSound, StatusSound, MetadataSound
    <2>5. ServerSound(s)
      BY <1>3, <1>4, <2>1 DEF ServerSound, NoSave
    <2>6. QED
      BY <2>2, <2>3, <2>4, <2>5 DEF SessionSound
  <1>7. QED
    BY <1>5, <1>6 DEF IInv

LEMMA EditKeeps ==
    ASSUME SeparatePaths, IInv, NEW s \in Session, Edit(s)
    PROVE  IInv'
  <1>1. CASE \E changes \in Changes : Commit(s, changes)
    BY <1>1, CommitKeeps
  <1>2. CASE Undo(s)
    BY <1>2, UndoKeeps
  <1>3. CASE Redo(s)
    BY <1>3, RedoKeeps
  <1>4. CASE Discard(s)
    BY <1>4, DiscardKeeps
  <1>5. QED
    BY <1>1, <1>2, <1>3, <1>4 DEF Edit

LEMMA SavingKeeps ==
    ASSUME SeparatePaths, IInv, NEW s \in Session, Saving(s)
    PROVE  IInv'
  <1>1. CASE ServerStores(s)
    BY <1>1, ServerStoresKeeps
  <1>2. CASE Saved(s)
    BY <1>2, SavedKeeps
  <1>3. CASE SaveFailed(s)
    BY <1>3, SaveFailedKeeps
  <1>4. QED
    BY <1>1, <1>2, <1>3 DEF Saving

LEMMA StuttersKeep ==
    ASSUME IInv, UNCHANGED vars
    PROVE  IInv'
  <1>1. UNCHANGED <<doc, runtime, meta, sending, server, docAt>>
    BY DEF vars
  <1>2. Types'
    BY <1>1 DEF IInv, Types, Mounted
  <1>3. ASSUME NEW s \in Session PROVE SessionSound(s)'
    BY <1>1, Rests DEF IInv, Now
  <1>4. QED
    BY <1>2, <1>3 DEF IInv

LEMMA Keeps ==
    ASSUME SeparatePaths, IInv, [Next]_vars
    PROVE  IInv'
  <1>1. ASSUME NEW s \in Session, Edit(s) \/ MarkSaved(s) \/ Saving(s) PROVE IInv'
    BY <1>1, EditKeeps, MarkSavedKeeps, SavingKeeps
  <1>2. ASSUME NEW s \in Session, StartSave(s) PROVE IInv'
    BY <1>2, StartSaveKeeps
  <1>3. CASE Unmount
    BY <1>3, UnmountKeeps
  <1>4. CASE UNCHANGED vars
    BY <1>4, StuttersKeep
  <1>5. QED
    BY <1>1, <1>2, <1>3, <1>4 DEF Next

LEMMA Inductive == SeparatePaths => (Spec => []IInv)
  <1> SUFFICES ASSUME SeparatePaths PROVE Spec => []IInv
    OBVIOUS
  <1>1. Init => IInv
    BY Begins
  <1>2. IInv /\ [Next]_vars => IInv'
    BY Keeps
  <1>3. QED
    BY <1>1, <1>2, PTL DEF Spec

\* The invariant implies what the stacks and the toolbars rely on.
LEMMA SoundUndo == IInv => UndoSound
  <1> SUFFICES ASSUME IInv PROVE UndoSound
    OBVIOUS
  <1>1. ASSUME NEW s \in Session, Mounted(s)
        PROVE  LET u == runtime[s].undo
                   r == runtime[s].redo
               IN  /\ u # <<>> => Last(u).after = Now(s)
                   /\ r # <<>> => Last(r).before = Now(s)
                   /\ \A i \in 1 .. Len(u) - 1 : u[i].after = u[i + 1].before
                   /\ \A i \in 1 .. Len(r) - 1 : r[i].before = r[i + 1].after
                   /\ \A e \in ToSet(u) \cup ToSet(r) :
                        Applied(e.before, e.changes) = e.after /\ Reverted(e.after, e.changes) = e.before
    <2> DEFINE u == runtime[s].undo
               r == runtime[s].redo
    <2>1. Chain(s, u, r, Now(s)) /\ u \in Seq(Entry) /\ r \in Seq(Entry)
      BY <1>1, Known DEF Runtime
    <2> HIDE DEF u, r
    <2>2. u # <<>> => Last(u).after = Now(s)
      BY <2>1 DEF Chain, Last
    <2>3. r # <<>> => Last(r).before = Now(s)
      BY <2>1 DEF Chain, Last
    <2>4. ASSUME NEW e \in ToSet(u) \cup ToSet(r) PROVE EntrySound(s, e)
      <3>1. DOMAIN u = 1 .. Len(u) /\ DOMAIN r = 1 .. Len(r)
        BY <2>1
      <3>2. (\E i \in 1 .. Len(u) : e = u[i]) \/ (\E i \in 1 .. Len(r) : e = r[i])
        BY <2>4, <3>1 DEF ToSet
      <3>3. QED
        BY <2>1, <3>2 DEF Chain
    <2>5. QED
      BY <2>1, <2>2, <2>3, <2>4 DEF Chain, EntrySound, u, r
  <1>2. HistoryChained
    BY <1>1 DEF HistoryChained
  <1>3. MetadataCurrent
    BY Known DEF MetadataCurrent, SessionSound, MetadataSound
  <1>4. QED
    BY <1>2, <1>3 DEF UndoSound

LEMMA SoundSaves == IInv => SavedMeansStored
  <1> SUFFICES ASSUME IInv PROVE SavedMeansStored
    OBVIOUS
  <1>1. SavedAtRevision
    BY Known DEF SavedAtRevision, SessionSound, RevisionsSound
  <1>2. ASSUME NEW s \in Session \ (Lossy \cup Marking), Mounted(s), sending[s] = NoSave, ~meta[s].dirty
        PROVE  server[s] = Now(s)
    <2>1. server[s] = runtime[s].saved
      BY <1>2, Known DEF SessionSound, ServerSound, NoSave
    <2>2. meta[s] = Metadata(s, runtime[s], doc)
      BY <1>2, Known DEF SessionSound, MetadataSound
    <2>3. Now(s) = runtime[s].saved
      <3>1. Metadata(s, runtime[s], doc).dirty = (Now(s) # runtime[s].saved)
        BY DEF Metadata, Now
      <3>2. QED
        BY <1>2, <2>2, <3>1, Zenon
    <2>4. QED
      BY <2>1, <2>3
  <1>3. QED
    BY <1>1, <1>2 DEF SavedMeansStored, CleanMeansStored

\* Undo and redo go through the documents that the commits recorded, and the metadata that
\* toolbars and the navigation guard read are those of now, after any commits, undo, redo, discard
\* and answers of saves (createEditorSessionEngine).
THEOREM UndoIsSound == SeparatePaths => (Spec => []UndoSound)
  <1> SUFFICES ASSUME SeparatePaths PROVE Spec => []UndoSound
    OBVIOUS
  <1>1. Spec => []IInv
    BY Inductive
  <1>2. IInv => UndoSound
    BY SoundUndo
  <1>3. QED
    BY <1>1, <1>2, PTL

\* A session that is clean with no save in flight is stored by the server, and what counts as
\* saved is the document of the saved revision, however answers and edits interleave.
THEOREM SavedIsStored == SeparatePaths => (Spec => []SavedMeansStored)
  <1> SUFFICES ASSUME SeparatePaths PROVE Spec => []SavedMeansStored
    OBVIOUS
  <1>1. Spec => []IInv
    BY Inductive
  <1>2. IInv => SavedMeansStored
    BY SoundSaves
  <1>3. QED
    BY <1>1, <1>2, PTL
-----------------------------------------------------------------------------
(* What a step leaves of the edits *)

LEMMA StepOutlives ==
    ASSUME SeparatePaths, IInv,
           \/ \E s \in Session : Edit(s) \/ MarkSaved(s) \/ Saving(s) \/ StartSave(s)
           \/ Unmount \/ UNCHANGED vars
    PROVE  KeepsLaterEdits /\ Silent
  <1> DEFINE Good == KeepsLaterEdits /\ Silent
  <1>1. \A s, t \in Session : Mounted(s) <=> Mounted(t)
    BY DEF IInv, Types
  <1>2. DOMAIN sending = Session
    BY DEF IInv, Types
  <1>3. ASSUME NEW s \in Session, Mounted(s), UNCHANGED sending PROVE Good
    BY <1>1, <1>3 DEF KeepsLaterEdits, Silent, NoSave
  <1>4. ASSUME NEW s \in Session, Edit(s) \/ MarkSaved(s) PROVE Good
    BY <1>3, <1>4 DEF Edit, Commit, Undo, Redo, Discard, MarkSaved
  <1>5. ASSUME NEW s \in Session, StartSave(s) PROVE Good
    <2>1. Mounted(s) /\ sending[s] = NoSave /\ \A t \in Session \ {s} : sending'[t] = sending[t]
      BY <1>2, <1>5 DEF StartSave
    <2>2. QED
      BY <1>1, <2>1 DEF KeepsLaterEdits, Silent, NoSave
  <1>6. ASSUME NEW s \in Session, ServerStores(s) PROVE Good
    <2>1. /\ sending[s].stage = "sent" /\ UNCHANGED <<doc, meta>>
          /\ \A t \in Session \ {s} : sending'[t] = sending[t]
      BY <1>2, <1>6 DEF ServerStores
    <2>2. QED
      BY <2>1 DEF KeepsLaterEdits, Silent, NoSave
  <1>7. ASSUME NEW s \in Session, SaveFailed(s) PROVE Good
    <2>1. \A t \in Session \ {s} : sending'[t] = sending[t]
      BY <1>2, <1>7 DEF SaveFailed
    <2>2. /\ Mounted(s) => runtime' = [runtime EXCEPT ![s] = [runtime[s] EXCEPT !.saveStatus = "error"]]
          /\ ~Mounted(s) => UNCHANGED <<doc, meta>>
      BY <1>7 DEF SaveFailed, Write
    <2>3. Mounted(s) => runtime'[s].saveStatus = "error"
      <3>1. runtime \in [Session -> Runtime] /\ runtime[s] \in Runtime
        BY DEF IInv, Types
      <3>2. [runtime[s] EXCEPT !.saveStatus = "error"].saveStatus = "error"
        BY <3>1 DEF Runtime
      <3>3. QED
        BY <2>2, <3>1, <3>2
    <2>4. QED
      BY <1>1, <2>1, <2>2, <2>3 DEF KeepsLaterEdits, Silent, NoSave
  <1>8. ASSUME NEW s \in Session, Saved(s) PROVE Good
    <2> DEFINE d == WithAnswer(s, doc)
               r == [runtime[s] EXCEPT !.saved = WithAnswer(s, sending[s].doc),
                                       !.savedRevision = sending[s].revision, !.saveStatus = "saved"]
    <2>1. /\ sending[s].stage = "stored" /\ \A t \in Session \ {s} : sending'[t] = sending[t]
          /\ Mounted(s) => meta' = [meta EXCEPT ![s] = Metadata(s, r, d)]
          /\ ~Mounted(s) => UNCHANGED <<doc, meta>>
      BY <1>2, <1>8 DEF Saved, Write
    <2>2. ASSUME Mounted(s), Now(s) # sending[s].doc PROVE meta'[s].dirty
      <3>1. sending[s].doc \in [Tracked[s] -> Held] /\ DOMAIN meta = Session
        BY <2>1, Known DEF SessionSound, SendingSound, NoSave, IInv, Types
      <3>2. WithAnswer(s, sending[s].doc) = sending[s].doc
        BY <3>1 DEF WithAnswer, SeparatePaths
      <3>3. r.saved = sending[s].doc
        BY <3>2, Known DEF Runtime
      <3>4. Capture(d, s) = Now(s)
        <4>1. \A p \in Tracked[s] : d[p] = doc[p]
          BY Known, TrackedForm DEF WithAnswer, Assign, SeparatePaths
        <4>2. QED
          BY <4>1, Captured DEF Now
      <3> HIDE DEF d, r
      <3>5. meta'[s] = Metadata(s, r, d)
        BY <2>1, <2>2, <3>1
      <3>6. Metadata(s, r, d).dirty = (Capture(d, s) # r.saved)
        BY DEF Metadata
      <3>7. QED
        BY <2>2, <3>3, <3>4, <3>5, <3>6, Zenon
    <2>3. QED
      BY <1>1, <2>1, <2>2 DEF KeepsLaterEdits, Silent, NoSave
  <1>9. CASE Unmount
    <2>1. (\A s \in Session : Mounted(s)) /\ UNCHANGED sending
      BY <1>9 DEF Unmount
    <2>2. QED
      BY <2>1 DEF KeepsLaterEdits, Silent, NoSave
  <1>10. CASE UNCHANGED vars
    BY <1>10 DEF KeepsLaterEdits, Silent, NoSave, vars
  <1>11. QED
    BY <1>4, <1>5, <1>6, <1>7, <1>8, <1>9, <1>10 DEF Saving

\* An edit made while a save is in flight leaves the document dirty when the save succeeds, and
\* after unmount no late answer reaches the state (the async save of the engine).
THEOREM EditsOutlive == SeparatePaths => (Spec => EditsOutliveSaves)
  <1> SUFFICES ASSUME SeparatePaths PROVE Spec => EditsOutliveSaves
    OBVIOUS
  <1>1. Spec => []IInv
    BY Inductive
  <1>2. IInv /\ [Next]_vars => [KeepsLaterEdits /\ Silent]_vars
    BY StepOutlives DEF Next
  <1>3. QED
    BY <1>1, <1>2, PTL DEF Spec, EditsOutliveSaves
-----------------------------------------------------------------------------
(* The navigation guard *)

\* One session is guarded; its answers are not lost, and the host does not save it itself.
OneGuarded == \E w \in Session \ (Lossy \cup Marking) : Watched = <<w>>

\* The attempts that are blocked for the dirty session w.
Attempt(w) ==
    [action : {"navigateScreen", "goBackScreen"}, screen : Screen \cup {Home}, sessions : [{1} -> {w}]]
GuardTypes(w) ==
    /\ pending \in {NoPending} \cup Attempt(w)
    /\ call \in [Caller -> {NoCall, Ended} \cup
                           [pc : {"next", "await"}, pending : Attempt(w), left : SUBSET {1}]]
GuardInv(w) == IInv /\ GuardTypes(w)

LEMMA SoleWatched ==
    ASSUME NEW w, Watched = <<w>>
    PROVE  /\ Clean(Watched) <=> ~meta[w].dirty
           /\ ~Clean(Watched) => DirtyAmong(Watched) \in [{1} -> {w}]
           /\ ToSet(Watched) = {w}
  <1>1. DOMAIN Watched = {1} /\ Watched[1] = w
    OBVIOUS
  <1>2. ToSet(Watched) = {w}
    BY <1>1 DEF ToSet
  <1>3. Clean(Watched) <=> ~meta[w].dirty
    BY <1>1 DEF Clean
  <1>4. ASSUME meta[w].dirty PROVE DirtyAmong(Watched) \in [{1} -> {w}]
    <2>1. {i \in DOMAIN Watched : meta[Watched[i]].dirty} = {1}
      BY <1>1, <1>4
    <2>2. QED
      BY <1>1, <2>1 DEF DirtyAmong
  <1>5. QED
    BY <1>2, <1>3, <1>4

LEMMA SoleAttempt ==
    ASSUME NEW w, NEW p \in Attempt(w)
    PROVE  /\ Clean(p.sessions) <=> ~meta[w].dirty
           /\ ToSet(p.sessions) = {w} /\ DOMAIN p.sessions = {1} /\ p.sessions[1] = w
  <1>1. DOMAIN p.sessions = {1} /\ p.sessions[1] = w
    BY DEF Attempt
  <1>2. QED
    BY <1>1 DEF Clean, ToSet

\* A session that its metadata calls clean is at its saved document.
LEMMA CleanSaved ==
    ASSUME IInv, NEW s \in Session, Mounted(s), ~meta[s].dirty
    PROVE  Now(s) = runtime[s].saved
  <1>1. meta[s] = Metadata(s, runtime[s], doc)
    BY Known DEF SessionSound, MetadataSound
  <1>2. Metadata(s, runtime[s], doc).dirty = (Now(s) # runtime[s].saved)
    BY DEF Metadata, Now
  <1>3. QED
    BY <1>1, <1>2, Zenon

\* Discarding the session of an attempt is a discard.
LEMMA DiscardAttempt ==
    ASSUME NEW w \in Session, GuardInv(w), DiscardAndProceed
    PROVE  Discard(w)
  <1> DEFINE lost == ToSet(pending.sessions)
             d == [p \in Path |-> IF p \in Tracked[w] THEN runtime[w].saved[p] ELSE doc[p]]
             r == [s \in Session |-> IF s \in lost THEN Discarded(runtime[s]) ELSE runtime[s]]
  <1>1. lost = {w}
    <2>1. pending \in Attempt(w)
      BY DEF DiscardAndProceed, GuardInv, GuardTypes
    <2>2. QED
      BY <2>1, SoleAttempt
  <1>2. \A p \in Path : (\E s \in lost : p \in Tracked[s]) <=> p \in Tracked[w]
    BY <1>1
  <1>3. \A p \in Path : p \in Tracked[w] => (CHOOSE s \in lost : p \in Tracked[s]) = w
    BY <1>1
  <1>4. /\ Mounted(w) /\ runtime[w].revision < MaxRevision[w]
        /\ doc' = [p \in Path |-> IF \E s \in lost : p \in Tracked[s]
                                    THEN runtime[CHOOSE s \in lost : p \in Tracked[s]].saved[p] ELSE doc[p]]
        /\ runtime' = r
        /\ UNCHANGED <<sending, server>>
    BY <1>1 DEF DiscardAndProceed
  <1>5. doc' = d
    BY <1>2, <1>3, <1>4
  <1>6. /\ meta' = [s \in Session |-> IF s \in lost THEN Metadata(s, r[s], d) ELSE meta[s]]
        /\ docAt' = [s \in Session |-> IF s \in lost THEN Append(docAt[s], Capture(d, s)) ELSE docAt[s]]
    BY <1>4, <1>5 DEF DiscardAndProceed
  <1> HIDE DEF lost, d
  <1>7. /\ runtime' = [runtime EXCEPT ![w] = Discarded(runtime[w])]
        /\ meta' = [meta EXCEPT ![w] = Metadata(w, Discarded(runtime[w]), d)]
        /\ docAt' = [docAt EXCEPT ![w] = Append(docAt[w], Capture(d, w))]
    <2>1. /\ DOMAIN meta = Session /\ runtime \in [Session -> Runtime] /\ docAt \in [Session -> Seq(Snapshot)]
          /\ r[w] = Discarded(runtime[w])
      BY <1>1 DEF GuardInv, IInv, Types
    <2>2. QED
      BY <1>1, <1>4, <1>6, <2>1
  <1>8. Revise(w, [runtime[w] EXCEPT !.undo = <<>>, !.redo = <<>>], d)
    <2> DEFINE emptied == [runtime[w] EXCEPT !.undo = <<>>, !.redo = <<>>]
               settled == [emptied EXCEPT !.revision = @ + 1, !.saveStatus = IF @ = "saving" THEN @ ELSE "idle"]
    <2>1. settled = Discarded(runtime[w])
      BY DEF Discarded
    <2> HIDE DEF settled
    <2>2. Write(w, settled, d) /\ docAt' = [docAt EXCEPT ![w] = Append(docAt[w], Capture(d, w))]
      BY <1>5, <1>7, <2>1 DEF Write
    <2>3. QED
      BY <1>4, <2>2 DEF Revise, settled
  <1>9. QED
    BY <1>4, <1>8 DEF Discard, d

\* A call under way has captured an attempt, and saves the session of it next.
LEMMA CallUnderWay ==
    ASSUME NEW w \in Session, GuardTypes(w), NEW c \in Caller, call[c].pc \in {"next", "await"}
    PROVE  /\ call[c] \in [pc : {"next", "await"}, pending : Attempt(w), left : SUBSET {1}]
           /\ call[c].pending \in Attempt(w)
           /\ call[c].left # {} => Upcoming(c) = w
  <1>1. call[c] \in [pc : {"next", "await"}, pending : Attempt(w), left : SUBSET {1}]
    BY DEF GuardTypes, NoCall, Ended
  <1>2. ASSUME call[c].left # {} PROVE Upcoming(c) = w
    <2>1. call[c].left \in SUBSET Nat /\ call[c].left \in SUBSET {1}
      BY <1>1
    <2>2. Earliest(call[c].left) \in call[c].left
      BY <1>2, <2>1, EarliestPlace
    <2>3. Earliest(call[c].left) = 1
      BY <2>1, <2>2
    <2>4. QED
      BY <1>1, <2>3, SoleAttempt DEF Upcoming
  <1>3. QED
    BY <1>1, <1>2

LEMMA GuardTyped ==
    ASSUME NEW w \in Session, Watched = <<w>>, GuardTypes(w), [GuardNext]_allVars
    PROVE  GuardTypes(w)'
  <1> DEFINE Calls == [pc : {"next", "await"}, pending : Attempt(w), left : SUBSET {1}]
  <1>1. /\ pending \in {NoPending} \cup Attempt(w) /\ call \in [Caller -> {NoCall, Ended} \cup Calls]
        /\ NoPending \in {NoPending} \cup Attempt(w)
    BY DEF GuardTypes
  <1>2. ASSUME NEW action \in {"navigateScreen", "goBackScreen"}, NEW screen \in Screen \cup {Home},
               Block(action, screen)
        PROVE  pending' \in Attempt(w)
    <2>1. DirtyAmong(Watched) \in [{1} -> {w}]
      BY <1>2, SoleWatched DEF Block
    <2>2. QED
      BY <1>2, <2>1 DEF Block, Pending, Attempt
  <1>3. ASSUME NEW screen \in Screen, Navigate(screen) PROVE GuardTypes(w)'
    BY <1>1, <1>2, <1>3 DEF Navigate, GuardTypes, Attempt
  <1>4. CASE GoBack
    BY <1>1, <1>2, <1>4 DEF GoBack, GuardTypes, Attempt
  <1>5. CASE Cancel \/ Proceed \/ DiscardAndProceed \/ NoEngine
    <2>1. pending' \in {NoPending, pending} /\ UNCHANGED call
      BY <1>5 DEF Cancel, Proceed, DiscardAndProceed, NoEngine, RunPending
    <2>2. QED
      BY <1>1, <2>1 DEF GuardTypes, Attempt
  <1>6. ASSUME NEW c \in Caller, BeginSave(c) PROVE GuardTypes(w)'
    <2>1. pending \in Attempt(w)
      BY <1>1, <1>6 DEF BeginSave
    <2>2. DOMAIN pending.sessions \in SUBSET {1}
      BY <2>1, SoleAttempt
    <2>3. /\ UNCHANGED pending
          /\ call' = [call EXCEPT ![c] = [pc |-> "next", pending |-> pending, left |-> DOMAIN pending.sessions]]
      BY <1>6 DEF BeginSave
    <2>4. [pc |-> "next", pending |-> pending, left |-> DOMAIN pending.sessions] \in Calls
      BY <2>1, <2>2
    <2>5. QED
      BY <1>1, <2>3, <2>4 DEF GuardTypes, Attempt
  <1>7. ASSUME NEW c \in Caller, SaveNext(c) PROVE GuardTypes(w)'
    <2>1. call[c] \in Calls
      BY <1>7, CallUnderWay DEF SaveNext
    <2>2. [call[c] EXCEPT !.pc = "await"] \in Calls
      BY <2>1
    <2>3. /\ UNCHANGED pending
          /\ \/ call' = [call EXCEPT ![c] = Ended]
             \/ call' = [call EXCEPT ![c] = [call[c] EXCEPT !.pc = "await"]]
      BY <1>7 DEF SaveNext
    <2>4. QED
      BY <1>1, <2>2, <2>3 DEF GuardTypes, Attempt
  <1>8. ASSUME NEW c \in Caller, SaveAnswered(c) PROVE GuardTypes(w)'
    <2> DEFINE rest == call[c].left \ {Earliest(call[c].left)}
    <2>1. call[c] \in Calls
      BY <1>8, CallUnderWay DEF SaveAnswered
    <2>2. rest \in SUBSET {1}
      BY <2>1
    <2>3. /\ UNCHANGED pending
          /\ call' = [call EXCEPT ![c] = [call[c] EXCEPT !.pc = "next", !.left = rest]]
      BY <1>8, <2>1 DEF SaveAnswered
    <2> HIDE DEF rest
    <2>4. [call[c] EXCEPT !.pc = "next", !.left = rest] \in Calls
      BY <2>1, <2>2
    <2>5. QED
      BY <1>1, <2>3, <2>4 DEF GuardTypes, Attempt
  <1>9. ASSUME NEW c \in Caller, FinishSave(c) PROVE GuardTypes(w)'
    <2>1. pending' \in {NoPending, pending} /\ call' = [call EXCEPT ![c] = Ended]
      BY <1>9 DEF FinishSave, RunPending
    <2>2. QED
      BY <1>1, <2>1 DEF GuardTypes, Attempt
  <1>10. CASE UNCHANGED <<pending, call>>
    BY <1>1, <1>10 DEF GuardTypes, Attempt
  <1>11. QED
    BY <1>3, <1>4, <1>5, <1>6, <1>7, <1>8, <1>9, <1>10
    DEF GuardNext, Guard, SaveAndProceed, Leave, guardVars, allVars

\* A step of the guard is one of a session, or none.
LEMMA GuardMoves ==
    ASSUME NEW w \in Session, GuardInv(w), [GuardNext]_allVars
    PROVE  \/ \E s \in Session : Edit(s) \/ MarkSaved(s) \/ Saving(s) \/ StartSave(s)
           \/ Unmount \/ UNCHANGED vars
  <1>1. ASSUME \/ \E screen \in Screen : Navigate(screen)
               \/ GoBack \/ Cancel \/ Proceed \/ NoEngine
               \/ \E c \in Caller : BeginSave(c) \/ SaveAnswered(c) \/ FinishSave(c)
        PROVE  UNCHANGED vars
    BY <1>1 DEF Navigate, GoBack, Cancel, Proceed, NoEngine, BeginSave, SaveAnswered, FinishSave
  <1>2. ASSUME DiscardAndProceed PROVE Edit(w)
    BY <1>2, DiscardAttempt DEF Edit
  <1>3. ASSUME NEW c \in Caller, SaveNext(c) PROVE UNCHANGED vars \/ StartSave(w)
    <2>1. Upcoming(c) = w
      BY <1>3, CallUnderWay DEF SaveNext, GuardInv
    <2>2. QED
      BY <1>3, <2>1 DEF SaveNext
  <1>4. QED
    BY <1>1, <1>2, <1>3 DEF GuardNext, Guard, SaveAndProceed, Leave, allVars

\* A screen is left with its session clean and at rest, or by discarding.
LEMMA Leaving ==
    ASSUME NEW w \in Session, Watched = <<w>>, GuardInv(w), [GuardNext]_allVars, history' # history
    PROVE  (UNCHANGED vars /\ ~meta[w].dirty) \/ Discard(w)
  <1>1. ASSUME NEW screen \in Screen, Navigate(screen) PROVE UNCHANGED vars /\ ~meta[w].dirty
    BY <1>1, SoleWatched DEF Navigate, Block
  <1>2. ASSUME GoBack PROVE UNCHANGED vars /\ ~meta[w].dirty
    BY <1>2, SoleWatched DEF GoBack, Block
  <1>3. ASSUME Proceed PROVE UNCHANGED vars /\ ~meta[w].dirty
    <2>1. pending \in Attempt(w)
      BY <1>3 DEF Proceed, GuardInv, GuardTypes
    <2>2. QED
      BY <1>3, <2>1, SoleAttempt DEF Proceed
  <1>4. ASSUME DiscardAndProceed PROVE Discard(w)
    BY <1>4, DiscardAttempt
  <1>5. ASSUME NEW c \in Caller, FinishSave(c) PROVE UNCHANGED vars /\ ~meta[w].dirty
    <2>1. call[c].pending \in Attempt(w)
      BY <1>5, CallUnderWay DEF FinishSave, GuardInv
    <2>2. QED
      BY <1>5, <2>1, SoleAttempt DEF FinishSave
  <1>6. ASSUME \/ Cancel \/ NoEngine
               \/ \E c \in Caller : BeginSave(c) \/ SaveNext(c) \/ SaveAnswered(c)
               \/ UNCHANGED guardVars \/ UNCHANGED allVars
        PROVE  UNCHANGED history
    BY <1>6 DEF Cancel, NoEngine, BeginSave, SaveNext, SaveAnswered, guardVars, allVars
  <1>7. QED
    BY <1>1, <1>2, <1>3, <1>4, <1>5, <1>6 DEF GuardNext, Guard, SaveAndProceed, Leave

LEMMA LeavesKept ==
    ASSUME SeparatePaths, NEW w \in Session \ (Lossy \cup Marking), Watched = <<w>>, GuardInv(w),
           [GuardNext]_allVars
    PROVE  LeavesClean /\ LeavesStored
  <1>1. IInv /\ ToSet(Watched) = {w} /\ ToSet(Watched)' = {w}
    BY SoleWatched DEF GuardInv, Watched
  <1>2. ASSUME UNCHANGED vars, ~meta[w].dirty
        PROVE  ~DirtySession(w)' /\ (Mounted(w) /\ sending[w] = NoSave => server[w] = Now(w)')
    <2>1. DirtySession(w)' = DirtySession(w) /\ Now(w)' = Now(w)
      BY <1>2 DEF DirtySession, Mounted, Now, vars
    <2>2. Mounted(w) => Now(w) = runtime[w].saved
      BY <1>1, <1>2, CleanSaved
    <2>3. Mounted(w) /\ sending[w] = NoSave => server[w] = runtime[w].saved
      BY <1>1, Known DEF SessionSound, ServerSound, NoSave
    <2>4. QED
      BY <2>1, <2>2, <2>3 DEF DirtySession
  <1>3. ASSUME Discard(w)
        PROVE  ~DirtySession(w)' /\ (Mounted(w) /\ sending[w] = NoSave => server[w] = Now(w)')
    <2> DEFINE d == [p \in Path |-> IF p \in Tracked[w] THEN runtime[w].saved[p] ELSE doc[p]]
               r == [[runtime[w] EXCEPT !.undo = <<>>, !.redo = <<>>] EXCEPT
                        !.revision = @ + 1, !.saveStatus = IF @ = "saving" THEN @ ELSE "idle"]
    <2>1. doc' = d /\ runtime' = [runtime EXCEPT ![w] = r]
      BY <1>3 DEF Discard, Revise, Write
    <2>2. /\ runtime[w] \in Runtime /\ runtime \in [Session -> Runtime]
          /\ runtime[w].saved \in [Tracked[w] -> Held]
      BY <1>1, Known DEF IInv, Types, SessionSound, RevisionsSound
    <2>3. r.saved = runtime[w].saved
      BY <2>2 DEF Runtime
    <2> HIDE DEF r
    <2>4. Now(w)' = runtime[w].saved
      BY <2>1, <2>2, TrackedForm, Captured DEF Now
    <2>5. runtime'[w].saved = runtime[w].saved
      BY <2>1, <2>2, <2>3
    <2>6. Mounted(w) /\ sending[w] = NoSave => server[w] = runtime[w].saved
      BY <1>1, Known DEF SessionSound, ServerSound, NoSave
    <2>7. QED
      BY <2>4, <2>5, <2>6 DEF DirtySession
  <1>4. QED
    BY <1>1, <1>2, <1>3, Leaving DEF LeavesClean, LeavesStored

LEMMA GuardKeeps ==
    ASSUME SeparatePaths, NEW w \in Session, Watched = <<w>>, GuardInv(w), [GuardNext]_allVars
    PROVE  GuardInv(w)'
  <1>1. GuardTypes(w)'
    BY GuardTyped DEF GuardInv
  <1>2. IInv
    BY DEF GuardInv
  <1>3. IInv'
    BY <1>2, GuardMoves, EditKeeps, MarkSavedKeeps, SavingKeeps, StartSaveKeeps, UnmountKeeps, StuttersKeep
  <1>4. QED
    BY <1>1, <1>3 DEF GuardInv

\* A guarded session is clean, and stored or discarded, whenever its screen is left, whatever is
\* edited while the saves of a save-and-proceed are awaited (shouldBlockNavigation and the
\* navigationGuard actions); and the sessions stay sound under the guard's actions too.
THEOREM GuardHolds ==
    SeparatePaths /\ OneGuarded =>
      (GuardSpec => [](UndoSound /\ SavedMeansStored) /\ EditsOutliveSaves /\ GuardKeepsEdits)
  <1> SUFFICES ASSUME SeparatePaths, OneGuarded
               PROVE  GuardSpec =>
                        [](UndoSound /\ SavedMeansStored) /\ EditsOutliveSaves /\ GuardKeepsEdits
    OBVIOUS
  <1>1. PICK w \in Session \ (Lossy \cup Marking) : Watched = <<w>>
    BY DEF OneGuarded
  <1>2. GuardInit => GuardInv(w)
    BY Begins DEF GuardInit, GuardInv, GuardTypes
  <1>3. GuardInv(w) /\ [GuardNext]_allVars => GuardInv(w)'
    BY <1>1, GuardKeeps
  <1>4. GuardInv(w) => UndoSound /\ SavedMeansStored
    BY SoundUndo, SoundSaves DEF GuardInv
  <1>5. GuardInv(w) /\ [GuardNext]_allVars => [KeepsLaterEdits /\ Silent]_vars
    BY GuardMoves, StepOutlives DEF GuardInv
  <1>6. GuardInv(w) /\ [GuardNext]_allVars => [LeavesClean /\ LeavesStored]_allVars
    BY <1>1, LeavesKept
  <1>7. QED
    BY <1>2, <1>3, <1>4, <1>5, <1>6, PTL DEF GuardSpec, EditsOutliveSaves, GuardKeepsEdits
=============================================================================
