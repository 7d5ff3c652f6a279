---------------------------- MODULE VersionedStores ----------------------------
(***************************************************************************)
(* The version history of one spec in the stores that are not SQL: in      *)
(* memory (core/src/spec-stores/memory-versioned.ts) and in Supabase       *)
(* (supabase-versioned.ts), with the environments that point to versions   *)
(* and the structural diff of two of them (versioning/structural-diff.ts). *)
(*                                                                         *)
(* A call in memory runs up to an await; what it awaited is what was there *)
(* when it asked. It keeps the array of records it found, or a new one of  *)
(* its own that becomes the history when it is set. A call to Supabase is  *)
(* a request at a time, any of which may be lost before or after it took   *)
(* effect; the table refuses a second row of a version.                    *)
(***************************************************************************)
EXTENDS SpecDocument, Integers, Sequences, SequencesExt, FiniteSets

CONSTANTS
    Saves,      \* the calls of saveVersion, and the document each saves
    Existing,   \* the specs there may be before
    Overlapping, \* the stores whose calls overlap
    Losses,     \* the requests of a behaviour that are lost
    Interval,   \* snapshotInterval
    Env

VARIABLES
    store,      \* "memory" or "supabase"
    base,       \* the spec itself, NoDoc where it has no row
    arrays,     \* the arrays of records there are; the history is arrays[holder]
    holder,
    saver,      \* what each call has done and knows
    losses,
    pointer     \* environment -> the version it is at, and the document that was

Writer == DOMAIN Saves

versionVars == <<store, base, arrays, holder, saver, losses, pointer>>
-----------------------------------------------------------------------------
(* Records: meant is the document the version was to hold. *)

NoPatches == [remove |-> {}, put |-> <<>>]
Snapshot(v, doc) == [version |-> v, snapshot |-> TRUE, spec |-> doc, patches |-> NoPatches, meant |-> doc]
Patched(v, before, doc) ==
    [version |-> v, snapshot |-> FALSE, spec |-> NoDoc, patches |-> ComputePatches(before, doc), meant |-> doc]

IsSnapshot(v) == v = 1 \/ v % Interval = 0

\* The newest snapshot that is no newer than a version.
Nearest(records, v) ==
    CHOOSE i \in 1 .. v : records[i].snapshot /\ \A j \in i + 1 .. v : ~records[j].snapshot

\* A snapshot, with the patches after it applied in turn.
Replayed(records, from, v) ==
    LET doc[n \in 0 .. v - from] ==
            IF n = 0 THEN records[from].spec ELSE ApplyPatches(doc[n - 1], records[from + n].patches)
    IN  doc[v - from]

\* Rebuilt without the last of several patches.
RebuiltShort(records, v) ==
    Replayed(records, Nearest(records, v), IF v - Nearest(records, v) > 1 THEN v - 1 ELSE v)

\* reconstructSpec: the nearest snapshot, and the patches after it.
Rebuilt(records, v) == Replayed(records, Nearest(records, v), v)

History == IF holder = 0 THEN <<>> ELSE arrays[holder]
Newest == Len(History)

\* loadVersion. Memory knows no version but its own; Supabase gives the newest for any
\* later one.
Loaded(v) ==
    IF v < 1 \/ Newest = 0 \/ (store = "memory" /\ v > Newest) THEN NoDoc
    ELSE Rebuilt(History, IF v > Newest THEN Newest ELSE v)
-----------------------------------------------------------------------------
(* saveVersion *)

Free == [pc |-> "idle", doc |-> NoDoc, array |-> 0, found |-> NoDoc, from |-> 0, version |-> 0, before |-> NoDoc]
Ended(w, how) == [saver[w] EXCEPT !.pc = how]
Idle(w) == saver[w].pc = "idle"

VersionsInit ==
    /\ store \in {"memory", "supabase"}
    /\ base \in {NoDoc} \cup Existing
    /\ arrays = IF store = "memory" THEN <<>> ELSE <<<<>>>>
    /\ holder = IF store = "memory" THEN 0 ELSE 1
    /\ saver = [w \in Writer |-> Free]
    /\ losses = 0
    /\ pointer = [e \in Env |-> [version |-> 0, doc |-> NoDoc]]

MayStart(w) ==
    Idle(w) /\ (store \in Overlapping \/ \A o \in Writer : saver[o].pc \in {"idle", "done", "failed"})

\* In memory, from the first look at the records to the next await: a snapshot is pushed at
\* once, a patch waits for the version before, which is rebuilt now.
Continued(w, call, heap) ==
    LET records == heap[call.array]
        v == Len(records) + 1
        kept(r) == [heap EXCEPT ![call.array] = Append(@, r)]
    IN  IF IsSnapshot(v)
        THEN /\ arrays' = kept(Snapshot(v, call.doc)) /\ holder' = call.array /\ base' = call.doc
             /\ saver' = [saver EXCEPT ![w] = [call EXCEPT !.pc = "done", !.version = v]]
        ELSE /\ arrays' = heap /\ holder' = (IF heap = arrays THEN holder ELSE call.array) /\ UNCHANGED base
             /\ saver' = [saver EXCEPT ![w] = [call EXCEPT !.pc = "patch", !.version = v,
                                                           !.before = Rebuilt(records, v - 1)]]

Begin(w) ==
    /\ store = "memory" /\ MayStart(w)
    /\ LET heap == IF holder = 0 THEN Append(arrays, <<>>) ELSE arrays
           call == [Free EXCEPT !.doc = Saves[w], !.array = IF holder = 0 THEN Len(heap) ELSE holder]
       IN  IF heap[call.array] = <<>>
           THEN /\ saver' = [saver EXCEPT ![w] = [call EXCEPT !.pc = "loading", !.found = base]]
                /\ arrays' = heap /\ UNCHANGED <<base, holder>>
           ELSE Continued(w, call, arrays)
    /\ UNCHANGED <<store, losses, pointer>>

\* The spec that was there before becomes the first version.
Bootstrap(w) ==
    /\ store = "memory" /\ saver[w].pc = "loading"
    /\ LET call == saver[w]
       IN  IF call.found = NoDoc THEN Continued(w, call, arrays)
           ELSE Continued(w, call, [arrays EXCEPT ![call.array] = Append(@, Snapshot(1, call.found))])
    /\ UNCHANGED <<store, losses, pointer>>

Push(w) ==
    /\ store = "memory" /\ saver[w].pc = "patch"
    /\ LET call == saver[w]
       IN  /\ arrays' = [arrays EXCEPT ![call.array] = Append(@, Patched(call.version, call.before, call.doc))]
           /\ holder' = call.array
           /\ base' = call.doc
    /\ saver' = [saver EXCEPT ![w] = Ended(w, "done")]
    /\ UNCHANGED <<store, losses, pointer>>
-----------------------------------------------------------------------------
(* Supabase: ask for the newest version, post the spec that was there as the first, ask for *)
(* the snapshot and the patches of the newest, post the new version, write the spec. *)

At(w, pc) == store = "supabase" /\ saver[w].pc = pc
Goes(w, call) == saver' = [saver EXCEPT ![w] = call]
Rest == UNCHANGED <<store, base, arrays, holder, losses, pointer>>
Chosen(call, newest) ==
    [call EXCEPT !.version = newest + 1, !.pc = IF IsSnapshot(newest + 1) THEN "post" ELSE "snapshot"]

Start(w) ==
    /\ At(w, "idle") /\ MayStart(w)
    /\ Goes(w, [Free EXCEPT !.doc = Saves[w], !.pc = "newest"]) /\ Rest

AskNewest(w) ==
    /\ At(w, "newest")
    /\ Goes(w, IF Newest = 0 THEN Ended(w, "load") ELSE Chosen(saver[w], Newest)) /\ Rest

Load(w) ==
    /\ At(w, "load")
    /\ Goes(w, IF base = NoDoc THEN Chosen(saver[w], 0) ELSE [saver[w] EXCEPT !.pc = "first", !.found = base]) /\ Rest

AskSnapshot(w) ==
    /\ At(w, "snapshot")
    /\ Goes(w, [saver[w] EXCEPT !.pc = "patches", !.from = Nearest(History, saver[w].version - 1)])
    /\ Rest

AskPatches(w) ==
    /\ At(w, "patches")
    /\ LET call == saver[w]
       IN  Goes(w, [call EXCEPT !.pc = "post", !.before = Replayed(History, call.from, call.version - 1)])
    /\ Rest

\* postVersion: the table takes one row of a version.
Posts(w, record, next) ==
    /\ UNCHANGED <<store, base, holder, losses, pointer>>
    /\ IF record.version # Newest + 1 THEN Goes(w, Ended(w, "failed")) /\ UNCHANGED arrays
       ELSE arrays' = [arrays EXCEPT ![1] = Append(@, record)] /\ Goes(w, next)

PostFirst(w) == At(w, "first") /\ Posts(w, Snapshot(1, saver[w].found), Chosen(saver[w], 1))

Post(w) ==
    /\ At(w, "post")
    /\ LET call == saver[w]
       IN  Posts(w, IF IsSnapshot(call.version) THEN Snapshot(call.version, call.doc)
                    ELSE Patched(call.version, call.before, call.doc), Ended(w, "save"))

\* save changes the row there is, and none where there is none.
Save(w) ==
    /\ At(w, "save")
    /\ base' = IF base = NoDoc THEN NoDoc ELSE saver[w].doc
    /\ Goes(w, Ended(w, "done"))
    /\ UNCHANGED <<store, arrays, holder, losses, pointer>>

Request(w) ==
    AskNewest(w) \/ Load(w) \/ PostFirst(w) \/ AskSnapshot(w) \/ AskPatches(w) \/ Post(w) \/ Save(w)

\* A request is lost and the call throws; only the load of the spec that was there is not
\* missed.
Lose(w) ==
    /\ store = "supabase" /\ saver[w].pc \notin {"idle", "done", "failed"}
    /\ losses < Losses /\ losses' = losses + 1
    /\ Goes(w, IF saver[w].pc = "load" THEN Chosen(saver[w], 0) ELSE Ended(w, "failed"))
    /\ UNCHANGED <<store, base, arrays, holder, pointer>>

\* The answer to a post is lost: the row is there and the call throws.
LoseAnswer(w) ==
    /\ At(w, "post") /\ saver[w].version = Newest + 1
    /\ losses < Losses /\ losses' = losses + 1
    /\ LET call == saver[w]
       IN  arrays' = [arrays EXCEPT ![1] = Append(@, IF IsSnapshot(call.version) THEN Snapshot(call.version, call.doc)
                                                       ELSE Patched(call.version, call.before, call.doc))]
    /\ Goes(w, Ended(w, "failed"))
    /\ UNCHANGED <<store, base, holder, pointer>>

\* setEnvironment, for a version there is; bound: once.
SetEnvironment(e, v) ==
    /\ pointer[e].version = 0
    /\ pointer' = [pointer EXCEPT ![e] = [version |-> v, doc |-> Loaded(v)]]
    /\ UNCHANGED <<store, base, arrays, holder, saver, losses>>

VersionsNext ==
    \/ \E w \in Writer :
         Begin(w) \/ Start(w) \/ Bootstrap(w) \/ Push(w) \/ Request(w) \/ Lose(w) \/ LoseAnswer(w)
    \/ \E e \in Env : \E v \in 1 .. Newest : SetEnvironment(e, v)
VersionsSpec == VersionsInit /\ [][VersionsNext]_versionVars
-----------------------------------------------------------------------------
(* The structural diff of two documents. A place is the path to it: an element, an endpoint *)
(* and a catalog are the places below its name. *)

Below(doc, path) == [p \in {p \in DOMAIN doc : IsPrefix(path, p)} |-> doc[p]]
KeysIn(doc, path) == {p[Len(path) + 1] : p \in {p \in DOMAIN doc : IsStrictPrefix(path, p)}}

\* diffFields: the keys under a path whose values differ.
DiffFields(b, a, path) ==
    {path \o <<k>> : k \in {k \in KeysIn(b, path) \cup KeysIn(a, path) :
                              Below(b, path \o <<k>>) # Below(a, path \o <<k>>)}}

Typed(doc) == IF <<"type">> \in DOMAIN doc /\ doc[<<"type">>] \in {"api", "app"} THEN doc[<<"type">>]
              ELSE IF KeysIn(doc, <<"elements">>) # {} \/ <<"root">> \in DOMAIN doc THEN "screen" ELSE "none"

SpecType(b, a) == IF Typed(a) # "none" THEN Typed(a) ELSE IF Typed(b) # "none" THEN Typed(b) ELSE "screen"

SectionKeys == [
    screen |-> {"dataSources", "initialActions", "forms", "derive", "templates", "tokens", "translations", "globalStyles"},
    api |-> {"auth", "handlers"},
    app |-> {"navigation", "screens", "sharedState", "tokens", "translations", "templates"}]

\* diffElements: an element that comes or goes, and below one that stays the events, the
\* props, and the other fields.
DiffElements(b, a, at) ==
    LET before == KeysIn(b, at)
        after == KeysIn(a, at)
        fields(id) == DiffFields(b, a, at \o <<id>>)
        inside(id, key) == IF at \o <<id, key>> \in fields(id) THEN DiffFields(b, a, at \o <<id, key>>) ELSE {}
    IN  {[kind |-> "added", path |-> at \o <<id>>] : id \in after \ before}
        \cup {[kind |-> "removed", path |-> at \o <<id>>] : id \in before \ after}
        \cup UNION {{[kind |-> "action", path |-> p] : p \in inside(id, "on")}
                    \cup {[kind |-> "prop", path |-> p] :
                            p \in inside(id, "props") \cup {f \in fields(id) : Last(f) \notin {"on", "props"}}} :
                    id \in before \cap after}

\* diffNamedItems.
DiffItems(b, a, key) ==
    LET before == KeysIn(b, <<key>>)
        after == KeysIn(a, <<key>>)
        either == (before \cup after) \ (before \cap after)
    IN  {[kind |-> "section", path |-> p] :
           p \in {<<key, n>> : n \in either} \cup UNION {DiffFields(b, a, <<key, n>>) : n \in before \cap after}}

\* computeStructuralDiff.
Changes(b, a) ==
    LET type == SpecType(b, a)
        sections == {<<k>> : k \in SectionKeys[type]}
    IN  (IF type = "api" THEN DiffItems(b, a, "endpoints") \cup DiffItems(b, a, "catalogs")
         ELSE DiffElements(b, a, IF type = "app" THEN <<"layout", "elements">> ELSE <<"elements">>))
        \cup {[kind |-> "section", path |-> s] : s \in {s \in sections : Below(b, s) # Below(a, s)}}
-----------------------------------------------------------------------------
\* A version is rebuilt as the document that was saved under its number, whoever else was
\* saving and whichever request was lost.
VersionsRebuild == \A v \in 1 .. Newest : History[v].version = v /\ Loaded(v) = History[v].meant

\* The number a call returned is that of its document.
NumbersAreOwn ==
    \A w \in Writer : saver[w].pc = "done" =>
        saver[w].version <= Newest /\ History[saver[w].version].meant = saver[w].doc

\* What an environment serves stays what it was set to.
EnvironmentsStay == \A e \in Env : pointer[e].version > 0 => Loaded(pointer[e].version) = pointer[e].doc

\* A diff names all that differs and nothing else.
NamesAll(b, a) ==
    LET differing == {p \in DOMAIN b \cup DOMAIN a : Below(b, p) # Below(a, p)}
        named == Changes(b, a)
    IN  /\ \A p \in differing : \E c \in named : IsPrefix(c.path, p)
        /\ \A c \in named : \E p \in differing : IsPrefix(c.path, p)

\* The diff of the newest version from any other names what changed between the two.
DiffExact == \A v \in 1 .. Newest - 1 : NamesAll(Loaded(v), Loaded(Newest))

\* The spec is its newest version once no call is under way.
SpecIsNewest ==
    (Newest > 0 /\ losses = 0 /\ \A w \in Writer : saver[w].pc \in {"idle", "done"}) => base = Last(History).meant

\* A version that was never saved cannot be loaded.
NoLaterVersion == Loaded(Newest + 1) = NoDoc

\* The spec that was there before the first save is the first version.
FirstKept == \A w \in Writer : (saver[w].found # NoDoc /\ Newest > 0) => History[1].meant = saver[w].found
=============================================================================
