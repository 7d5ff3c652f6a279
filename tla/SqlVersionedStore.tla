------------------------- MODULE SqlVersionedStore -------------------------
(***************************************************************************)
(* SqlVersionedSpecStore and the commands that drive it, for one spec id.  *)
(* (Every statement of the store is keyed by screen_id, so two ids never   *)
(* meet.)  The database holds two tables: screen_versions, the history,    *)
(* with UNIQUE(screen_id, version), and screens, the current spec.         *)
(* Clients are separate processes (mythik push, patch, rollback, diff...); *)
(* each SQL statement commits on its own, so the statements of several     *)
(* clients interleave, and a client may die between any two of its own.    *)
(***************************************************************************)
EXTENDS SpecDocument, Integers, FiniteSets

CONSTANTS
    Client,             \* processes that share the database
    Unversioned,        \* the clients that also write without --author
    Crashing,           \* the clients that may die or lose the database
    SnapshotInterval,   \* the configured snapshotInterval, any integer
    PushedDoc,          \* the documents clients push
    Edit,               \* the patch lists users give to `mythik patch`
    FirstSpec,      \* the current spec before the history begins, or NoDoc
    MaxCommands         \* bound: commands that write, over the whole behaviour

ASSUME ClientAssumption == Unversioned \subseteq Client /\ Crashing \subseteq Client
ASSUME IntervalAssumption == SnapshotInterval \in Int
ASSUME InputAssumption ==
    /\ PushedDoc \subseteq Document
    /\ Edit \subseteq PatchList
    /\ FirstSpec \in Document \cup {NoDoc}
    /\ MaxCommands \in Nat

VARIABLES
    rows,      \* screen_versions: version number -> row
    screens,   \* screens: the current spec, or NoDoc when there is no row
    call,      \* what each client is doing: its local variables
    started,   \* commands started so far
    saved,     \* history variable: saved[v] is the document given to the
               \* saveVersion call that created version v
    lapses     \* history variable: the versions whose saveVersion died before it wrote the
               \* current spec (cut), those whose saveVersion had failed to read it
               \* (unread), and those that came in while another one was between its
               \* version and its write of the current spec (raced)

vars == <<rows, screens, call, started, saved, lapses>>

-----------------------------------------------------------------------------
SnapshotRow(d) == [snapshot |-> TRUE, spec |-> d]
PatchRow(p) == [snapshot |-> FALSE, patches |-> p]
Row == [snapshot : {TRUE}, spec : Document] \cup [snapshot : {FALSE}, patches : PatchList]

\* The constructor clamps snapshotInterval to at least 1.
Interval == IF SnapshotInterval < 1 THEN 1 ELSE SnapshotInterval

IsSnapshotVersion(v) == v = 1 \/ v % Interval = 0

\* SELECT MAX(version): 0 when the spec has no history.
CurrentVersion ==
    IF DOMAIN rows = {} THEN 0
    ELSE CHOOSE v \in DOMAIN rows : \A u \in DOMAIN rows : u <= v

\* INSERT INTO screen_versions, where the unique constraint lets it through.
With(f, v, x) == [u \in DOMAIN f \cup {v} |-> IF u = v THEN x ELSE f[u]]
InsertRow(v, row, d) ==
    /\ rows' = With(rows, v, row)
    /\ saved' = With(saved, v, d)

-----------------------------------------------------------------------------
(***************************************************************************)
(* The local variables of a command.  "doc" is the document to save, "cur" *)
(* saveVersion's currentMax, "goal" who called loadVersion, "target" the   *)
(* version it loads, "acc" the document in hand (result, prevSpec or       *)
(* existingSpec), "pos" the version acc stands at, "batch" the patch rows  *)
(* fetched, "blind" whether the load of the current spec has failed;       *)
(* "cmd", "restore" and "edit" keep the command line.                      *)
(***************************************************************************)
NoEdit == [remove |-> {}, put |-> [k \in {} |-> 0]]

Idle == [pc |-> "idle", cmd |-> "view", restore |-> 0, edit |-> NoEdit,
         doc |-> NoDoc, cur |-> 0, goal |-> "view", target |-> 0,
         acc |-> NoDoc, pos |-> 0, batch |-> {}, blind |-> FALSE]

At(c, label) == call[c].pc = label
Become(c, local) == call' = [call EXCEPT ![c] = local]
Stop(c) == Become(c, Idle)

Start(c) == At(c, "idle") /\ started < MaxCommands /\ started' = started + 1

\* push --author: saveVersion is called with the document as given.
Push(c, d) ==
    /\ Start(c)
    /\ Become(c, [Idle EXCEPT !.pc = "readMax", !.cmd = "push", !.doc = d])
    /\ UNCHANGED <<rows, screens, saved, lapses>>

\* patch --author: the engine loads the current spec, applies the user's
\* patches to a copy, validates it, and hands the whole copy to saveVersion.
Patch(c, e) ==
    /\ Start(c)
    /\ screens # NoDoc
    /\ Become(c, [Idle EXCEPT !.pc = "readMax", !.cmd = "patch", !.edit = e,
                              !.doc = ApplyPatches(screens, e)])
    /\ UNCHANGED <<rows, screens, saved, lapses>>

\* rollback --confirm: refused without history; else the target is loaded and
\* then saved as a new version.  (The loads of computeRollbackImpact only
\* feed the report and fail exactly when the load kept here does.)
Rollback(c, v) ==
    /\ Start(c)
    /\ CurrentVersion > 0
    /\ Become(c, [Idle EXCEPT !.pc = "checkRange", !.cmd = "rollback",
                              !.goal = "restore", !.target = v, !.restore = v])
    /\ UNCHANGED <<rows, screens, saved, lapses>>

\* loadVersion on behalf of diff, history or the promote gate.
View(c, v) ==
    /\ At(c, "idle")
    /\ Become(c, [Idle EXCEPT !.pc = "checkRange", !.target = v])
    /\ UNCHANGED <<rows, screens, started, saved, lapses>>

\* push or patch without --author: SqlSpecStore.save alone, one transaction.
PlainSave(c, d) ==
    /\ c \in Unversioned
    /\ Start(c)
    /\ screens' = d
    /\ UNCHANGED <<rows, call, saved, lapses>>

\* delete --confirm: the row of screens goes, the history stays.
Delete(c) ==
    /\ c \in Unversioned
    /\ Start(c)
    /\ screens # NoDoc
    /\ screens' = NoDoc
    /\ UNCHANGED <<rows, call, saved, lapses>>

-----------------------------------------------------------------------------
(***************************************************************************)
(* loadVersion.                                                            *)
(***************************************************************************)
CheckRange(c) ==
    /\ At(c, "checkRange")
    /\ IF call[c].target \in 1 .. CurrentVersion
         THEN Become(c, [call[c] EXCEPT !.pc = "findSnapshot"])
         ELSE Stop(c)
    /\ UNCHANGED <<rows, screens, started, saved, lapses>>

\* The greatest snapshot at or before the target.
SnapshotsUpTo(v) == {u \in DOMAIN rows : u <= v /\ rows[u].snapshot}

\* Fault: the nearest snapshot is taken for the version itself.
FindSnapshotOnly(c) ==
    /\ At(c, "findSnapshot")
    /\ \E s \in SnapshotsUpTo(call[c].target) :
         /\ \A u \in SnapshotsUpTo(call[c].target) : u <= s
         /\ Become(c, [call[c] EXCEPT !.pc = "loaded", !.acc = rows[s].spec, !.pos = s])
    /\ UNCHANGED <<rows, screens, started, saved, lapses>>

FindSnapshot(c) ==
    /\ At(c, "findSnapshot")
    /\ LET t == call[c].target
       IN  \/ /\ SnapshotsUpTo(t) = {}
              /\ Stop(c)
           \/ \E s \in SnapshotsUpTo(t) :
                /\ \A u \in SnapshotsUpTo(t) : u <= s
                /\ Become(c, [call[c] EXCEPT
                                !.pc = IF s = t THEN "loaded" ELSE "fetchPatches",
                                !.acc = rows[s].spec, !.pos = s])
    /\ UNCHANGED <<rows, screens, started, saved, lapses>>

\* Fault: the range of the second query stops short of the target.
PatchRowsBetweenExclusive(from, to) ==
    {v \in DOMAIN rows : from < v /\ v < to /\ ~rows[v].snapshot}

PatchRowsBetween(from, to) == {v \in DOMAIN rows : from < v /\ v <= to /\ ~rows[v].snapshot}

FetchPatches(c) ==
    /\ At(c, "fetchPatches")
    /\ Become(c, [call[c] EXCEPT
                    !.pc = "replay",
                    !.batch = {[version |-> v, patches |-> rows[v].patches] :
                                 v \in PatchRowsBetween(call[c].pos, call[c].target)}])
    /\ UNCHANGED <<rows, screens, started, saved, lapses>>

\* Fault: the loop looks at its first row for ever.
ReplayStuck(c) ==
    /\ At(c, "replay")
    /\ \E row \in call[c].batch :
         /\ row.version = call[c].pos + 1
         /\ Become(c, [call[c] EXCEPT !.acc = ApplyPatches(call[c].acc, row.patches)])
    /\ UNCHANGED <<rows, screens, started, saved, lapses>>

\* One round of the loop over the fetched rows, in ascending version order; a
\* number without a fetched row is passed over in silence.
Replay(c) ==
    /\ At(c, "replay")
    /\ LET v == call[c].pos + 1
           moved == [call[c] EXCEPT
                       !.pc = IF v = call[c].target THEN "loaded" ELSE "replay",
                       !.pos = v]
       IN  \/ \E row \in call[c].batch :
                /\ row.version = v
                /\ Become(c, [moved EXCEPT !.acc = ApplyPatches(call[c].acc, row.patches)])
           \/ /\ \A row \in call[c].batch : row.version # v
              /\ Become(c, moved)
    /\ UNCHANGED <<rows, screens, started, saved, lapses>>

\* loadVersion returns to its caller.
Loaded(c) ==
    /\ At(c, "loaded")
    /\ \/ call[c].goal = "view" /\ Stop(c)
       \/ /\ call[c].goal = "restore"
          /\ Become(c, [call[c] EXCEPT !.pc = "readMax", !.doc = call[c].acc])
       \/ /\ call[c].goal = "previous"
          /\ Become(c, [call[c] EXCEPT !.pc = "insertPatch"])
    /\ UNCHANGED <<rows, screens, started, saved, lapses>>

-----------------------------------------------------------------------------
(***************************************************************************)
(* saveVersion.                                                            *)
(***************************************************************************)
\* newVersion = n + 1: a snapshot row needs nothing more, a patch row needs
\* the document of version n first.
WriteAfter(n, local) ==
    IF IsSnapshotVersion(n + 1)
      THEN [local EXCEPT !.pc = "insertSnapshot", !.cur = n]
      ELSE [local EXCEPT !.pc = "checkRange", !.cur = n,
                         !.goal = "previous", !.target = n]

ReadMax(c) ==
    /\ At(c, "readMax")
    /\ IF CurrentVersion = 0
         THEN Become(c, [call[c] EXCEPT !.pc = "readScreens"])
         ELSE Become(c, WriteAfter(CurrentVersion, call[c]))
    /\ UNCHANGED <<rows, screens, started, saved, lapses>>

\* Fault: no bootstrap, the current spec is left out of the history.
ReadScreensNoBootstrap(c) ==
    /\ At(c, "readScreens")
    /\ Become(c, WriteAfter(0, call[c]))
    /\ UNCHANGED <<rows, screens, started, saved, lapses>>

\* No history: a spec that already exists becomes version 1 first. A load that fails is
\* taken for a spec that does not exist.
ReadScreens(c) ==
    /\ At(c, "readScreens")
    /\ \/ screens = NoDoc /\ Become(c, WriteAfter(0, call[c]))
       \/ screens # NoDoc /\ Become(c, [call[c] EXCEPT !.pc = "insertBootstrap", !.acc = screens])
       \/ c \in Crashing /\ Become(c, WriteAfter(0, [call[c] EXCEPT !.blind = TRUE]))
    /\ UNCHANGED <<rows, screens, started, saved, lapses>>

InsertBootstrap(c) ==
    /\ At(c, "insertBootstrap")
    /\ \/ /\ 1 \notin DOMAIN rows
          /\ InsertRow(1, SnapshotRow(call[c].acc), call[c].acc)
          /\ Become(c, WriteAfter(1, call[c]))
       \/ /\ 1 \in DOMAIN rows
          /\ Stop(c)
          /\ UNCHANGED <<rows, saved>>
    /\ UNCHANGED <<screens, started, lapses>>

InsertVersion(c, row) ==
    LET v == call[c].cur + 1
    IN  /\ \/ /\ v \notin DOMAIN rows
              /\ InsertRow(v, row, call[c].doc)
              /\ Become(c, [call[c] EXCEPT !.pc = "saveScreens"])
              /\ lapses' = [lapses EXCEPT
                               !.unread = @ \cup (IF call[c].blind THEN {v} ELSE {}),
                               !.raced = @ \cup (IF \E e \in Client : At(e, "saveScreens") THEN {v} ELSE {})]
           \/ /\ v \in DOMAIN rows
              /\ Stop(c)
              /\ UNCHANGED <<rows, saved, lapses>>
        /\ UNCHANGED <<screens, started>>

\* Fault: the document in hand is stored instead of the one to save.
InsertSnapshotInHand(c) ==
    /\ At(c, "insertSnapshot")
    /\ InsertVersion(c, SnapshotRow(call[c].acc))

InsertSnapshot(c) ==
    /\ At(c, "insertSnapshot")
    /\ InsertVersion(c, SnapshotRow(call[c].doc))

InsertPatch(c) ==
    /\ At(c, "insertPatch")
    /\ InsertVersion(c, PatchRow(ComputePatches(call[c].acc, call[c].doc)))

\* Fault: the current spec follows the snapshots only.
SaveScreensOnSnapshot(c) ==
    /\ At(c, "saveScreens")
    /\ screens' = IF rows[call[c].cur + 1].snapshot THEN call[c].doc ELSE screens
    /\ Stop(c)
    /\ UNCHANGED <<rows, started, saved, lapses>>

\* The last statement of saveVersion updates the current spec.
SaveScreens(c) ==
    /\ At(c, "saveScreens")
    /\ screens' = call[c].doc
    /\ Stop(c)
    /\ UNCHANGED <<rows, started, saved, lapses>>

\* The process dies or a statement fails: nothing already committed is undone.
Crash(c) ==
    /\ c \in Crashing
    /\ ~At(c, "idle")
    /\ Stop(c)
    /\ lapses' = [lapses EXCEPT !.cut = @ \cup (IF At(c, "saveScreens") THEN {call[c].cur + 1} ELSE {})]
    /\ UNCHANGED <<rows, screens, started, saved>>

-----------------------------------------------------------------------------
Init ==
    /\ rows = [v \in {} |-> 0]
    /\ screens = FirstSpec
    /\ call = [c \in Client |-> Idle]
    /\ started = 0
    /\ saved = [v \in {} |-> NoDoc]
    /\ lapses = [cut |-> {}, unread |-> {}, raced |-> {}]

\* The versions a user may name: every one that can exist, 0 and one too many.
Nameable == 0 .. CurrentVersion + 1

VersionedCommand(c) ==
    \/ \E d \in PushedDoc : Push(c, d)
    \/ \E e \in Edit : Patch(c, e)
    \/ \E v \in Nameable : Rollback(c, v) \/ View(c, v)

\* Without --author.
PlainCommand(c) == Delete(c) \/ \E d \in PushedDoc : PlainSave(c, d)

Command(c) == VersionedCommand(c) \/ PlainCommand(c)

LoadStep(c) ==
    CheckRange(c) \/ FindSnapshot(c) \/ FetchPatches(c) \/ Replay(c) \/ Loaded(c)

SaveStep(c) ==
    \/ ReadMax(c) \/ ReadScreens(c) \/ InsertBootstrap(c)
    \/ InsertSnapshot(c) \/ InsertPatch(c) \/ SaveScreens(c)

Step(c) == LoadStep(c) \/ SaveStep(c)

Next == \E c \in Client : Command(c) \/ Step(c) \/ Crash(c)

Spec == Init /\ [][Next]_vars

\* A database that answers: a command that has started keeps going.
FairSpec == Spec /\ \A c \in Client : WF_vars(Step(c))

-----------------------------------------------------------------------------
(***************************************************************************)
(* Properties.                                                             *)
(***************************************************************************)
Label == {"idle", "checkRange", "findSnapshot", "fetchPatches", "replay", "loaded",
          "readMax", "readScreens", "insertBootstrap", "insertSnapshot",
          "insertPatch", "saveScreens"}

LocalState ==
    [pc : Label, cmd : {"view", "push", "patch", "rollback"}, restore : Nat,
     edit : PatchList, doc : Document \cup {NoDoc}, cur : Nat,
     goal : {"view", "restore", "previous"}, target : Nat,
     acc : Document \cup {NoDoc}, pos : Nat,
     batch : SUBSET [version : Nat, patches : PatchList], blind : BOOLEAN]

\* The tables and the local variables hold what their columns and types say;
\* in particular no row of the history is ever without a document.
TypeOK ==
    /\ DOMAIN rows \subseteq Nat /\ DOMAIN saved = DOMAIN rows
    /\ \A v \in DOMAIN rows : rows[v] \in Row /\ saved[v] \in Document
    /\ screens \in Document \cup {NoDoc}
    /\ call \in [Client -> LocalState]
    /\ started \in Nat
    /\ lapses \in [{"cut", "unread", "raced"} -> SUBSET DOMAIN rows]

\* Versions are numbered 1..n without a gap, whatever the clients' inserts race
\* with (bootstrap against bootstrap, save against save, death in between).
HistoryContiguous == \E n \in {0} \cup DOMAIN rows : DOMAIN rows = 1 .. n

\* The snapshot-and-patch chain encodes the documents that were saved: version
\* 1 and every Interval-th row hold the document, and each other row holds the
\* patches that lead from the previous version's document to its own, although
\* the writer computed them from a document it had itself rebuilt earlier.
ChainFaithful ==
    \A v \in DOMAIN rows :
      /\ rows[v].snapshot <=> IsSnapshotVersion(v)
      /\ rows[v].snapshot => rows[v].spec = saved[v]
      /\ ~rows[v].snapshot =>
           v - 1 \in DOMAIN saved /\ ApplyPatches(saved[v - 1], rows[v].patches) = saved[v]

\* loadVersion hands its caller the very document saved under that number, with
\* any number of saves committed between its three queries.
LoadFaithful ==
    \A c \in Client : At(c, "loaded") =>
      call[c].target \in DOMAIN saved /\ call[c].acc = saved[call[c].target]

\* A rollback that got its version in has created a later version whose content
\* is that of the target, whoever else saved meanwhile.
RollbackRestores ==
    \A c \in Client : At(c, "saveScreens") /\ call[c].cmd = "rollback" =>
      /\ call[c].restore \in 1 .. call[c].cur
      /\ saved[call[c].cur + 1] = saved[call[c].restore]

\* Both at once, what the reads and the promotion rely on.
HistorySound == HistoryContiguous /\ ChainFaithful

\* What is read from the history is what was written to it: a load answers with the
\* document saved under the number asked for, and a rollback creates a version with the
\* content of its target, whoever saves meanwhile.
ReadsFaithful == LoadFaithful /\ RollbackRestores

\* History is never rewritten: rows are only added, one at a time, at the end.
HistoryAppendOnly ==
    [][/\ \A v \in DOMAIN rows : v \in DOMAIN rows' /\ rows'[v] = rows[v]
       /\ \A v \in DOMAIN rows' \ DOMAIN rows : v = CurrentVersion + 1]_vars

\* The documents that the rows alone encode, chained as the loader chains them.
ReadBack ==
    LET read[v \in {0} \cup DOMAIN rows] ==
          IF v = 0 THEN NoDoc
          ELSE IF rows[v].snapshot THEN rows[v].spec
          ELSE ApplyPatches(read[v - 1], rows[v].patches)
    IN  [v \in DOMAIN rows |-> read[v]]

Answers ==
    [c \in Client |-> IF At(c, "loaded")
                        THEN [version |-> call[c].target, doc |-> call[c].acc]
                        ELSE NoDoc]

Stored == INSTANCE VersionHistory
            WITH Doc <- Document, NoAnswer <- NoDoc, log <- ReadBack, answer <- Answers

Saved == INSTANCE VersionHistory
            WITH Doc <- Document, NoAnswer <- NoDoc, log <- saved, answer <- Answers

\* The store implements the abstract history, reading the log back from the rows.
StoredHistory == Stored!HistorySpec

\* The store implements the abstract history of the documents it was given.
SavedHistory == Saved!HistorySpec

\* `screens` never runs ahead of the history: when every writer uses --author,
\* the current spec is the spec of before the history or a version of it.
ScreensBacked ==
    \/ screens = FirstSpec
    \/ \E v \in DOMAIN saved : saved[v] = screens

Quiet == \A c \in Client : At(c, "idle") \/ call[c].cmd = "view"

\* The versions whose save has written the current spec (the bootstrapped one holds what
\* was there), and what the newest of them leaves there.
Pending == {call[c].cur + 1 : c \in {c \in Client : At(c, "saveScreens")}}
Written == DOMAIN saved \ (lapses.cut \cup Pending)
IsNewest(v) == v \in Written /\ \A u \in Written : u <= v
Served == IF Written = {} THEN FirstSpec ELSE saved[CHOOSE v \in Written : IsNewest(v)]

\* The current spec is the newest version of those whose save was not cut short: what a
\* half-done save has left undone the next one makes up for, and an older version is only
\* served when two saves were between their version and the current spec at the same time
\* (with authored writes only).
CurrentSpecIsLatest == screens = Served \/ \E v \in lapses.raced : IsNewest(v)

\* Lazy bootstrap: a spec that exists when its history begins is version 1.
PreHistoryKept == FirstSpec # NoDoc /\ DOMAIN saved # {} => saved[1] = FirstSpec

\* No save loses a document that was there before: `screens` holds the spec of before the
\* history or a version, and that spec is version 1, unless version 1 comes from a call
\* that had failed to read it.
CurrentSpecBacked == ScreensBacked /\ (PreHistoryKept \/ 1 \in lapses.unread)

\* The version `mythik patch` creates is what was served with the user's patches applied,
\* also after a save that was cut short: nobody's change is dropped by a patch of
\* something else.
PatchBuildsOnLatest ==
    \A c \in Client : At(c, "saveScreens") /\ call[c].cmd = "patch" =>
      /\ call[c].cur + 1 \in DOMAIN saved
      /\ saved[call[c].cur + 1] = ApplyPatches(Served, call[c].edit)

\* Every change to the spec creates a version: the current spec never changes
\* to a document that the history does not hold.
EveryChangeVersioned ==
    [][screens' # screens => \E v \in DOMAIN saved' : saved'[v] = screens']_vars

\* Every command that has started ends: the loops over patch rows run out.
CommandsFinish == \A c \in Client : ~At(c, "idle") ~> At(c, "idle")
=============================================================================
