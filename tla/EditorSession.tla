--------------------------- MODULE EditorSession ---------------------------
(***************************************************************************)
(* Editor sessions (createEditorSessionEngine): edits of tracked paths of  *)
(* the state with undo, redo and discard, and saves that are answered      *)
(* while the user goes on editing.                                         *)
(*                                                                         *)
(* The operations of the engine are synchronous, so each is one step; a    *)
(* save awaits its request, so everything else runs between its two        *)
(* halves.  The server that stores the document is external.               *)
(***************************************************************************)
EXTENDS Naturals, Sequences, SequencesExt, FiniteSets, Functions

CONSTANTS
    Session,      \* the sessions of the screen
    Path,         \* the paths of the state that sessions track
    Value,        \* the values edits give them
    First,        \* the value of every path at first
    Tracked,      \* the paths each session tracks
    Target,       \* where the answer of a save is written, or NoTarget
    Stamped,      \* the value the server answers with
    Changes,      \* the lists of changes that commits are given
    MaxHistory,   \* maxHistory of every session
    Unsavable,    \* sessions without a url to save to
    Marking,      \* sessions that the host marks as saved itself
    Lossy,        \* sessions whose answers may be lost after the server has stored
    MaxRevision,  \* bound: the revisions of each session
    MaxSaves      \* bound: the save requests of each session

NoTarget == "no target"
ASSUME TrackedForm == \A s \in Session : Tracked[s] \subseteq Path
ASSUME HistoryKept == MaxHistory \in Nat \ {0}
ASSUME ChangesForm == \A cs \in Changes : cs \in Seq([path : Path, value : Value]) \ {<<>>}

VARIABLES
    doc,      \* path -> value
    runtime,  \* the SessionRuntime of each session
    meta,     \* /ui/editorSessions/<id>, or NoMeta
    sending,  \* the save request of each session, or NoSave
    server,   \* external: what the server has stored for each session
    docAt     \* history: the tracked paths at each revision

vars == <<doc, runtime, meta, sending, server, docAt>>

NoMeta == [dirty |-> FALSE, status |-> "absent"]
NoSave == [stage |-> "none"]

-----------------------------------------------------------------------------
(***************************************************************************)
(* Snapshots, fingerprints and metadata.  A fingerprint identifies the     *)
(* value it was taken of and is represented by it.                         *)
(***************************************************************************)
Capture(d, s) == Restrict(d, Tracked[s])
Now(s) == Capture(doc, s)

\* metadataFromRuntime, for a runtime r of session s and a state d.
Metadata(s, r, d) ==
    LET dirty == Capture(d, s) # r.saved
    IN  [dirty |-> dirty, undoDepth |-> Len(r.undo), redoDepth |-> Len(r.redo),
         revision |-> r.revision, savedRevision |-> r.savedRevision,
         saveStatus |-> r.saveStatus,
         status |-> IF r.saveStatus = "saving" THEN "saving"
                    ELSE IF ~dirty THEN "clean"
                    ELSE IF r.saveStatus = "error" THEN "error" ELSE "dirty"]

\* The operation leaves session s with runtime r and the state d, and writes the
\* metadata of s.
Write(s, r, d) ==
    /\ doc' = d
    /\ runtime' = [runtime EXCEPT ![s] = r]
    /\ meta' = [meta EXCEPT ![s] = Metadata(s, r, d)]

\* A new revision: what becomes of the document is recorded under its number.
Revise(s, r, d) ==
    LET settled == [r EXCEPT !.revision = @ + 1,
                             !.saveStatus = IF @ = "saving" THEN @ ELSE "idle"]
    IN  /\ runtime[s].revision < MaxRevision[s]
        /\ Write(s, settled, d)
        /\ docAt' = [docAt EXCEPT ![s] = Append(@, Capture(d, s))]

Mounted(s) == ~runtime[s].disposed

Init ==
    /\ doc = [p \in Path |-> First]
    /\ runtime = [s \in Session |->
         [undo |-> <<>>, redo |-> <<>>, saved |-> Now(s), revision |-> 0, savedRevision |-> 0,
          saveStatus |-> "idle", attempts |-> 0, disposed |-> FALSE]]
    /\ meta = [s \in Session |-> Metadata(s, runtime[s], doc)]
    /\ sending = [s \in Session |-> NoSave]
    /\ server = [s \in Session |-> Now(s)]
    /\ docAt = [s \in Session |-> <<Now(s)>>]

-----------------------------------------------------------------------------
(***************************************************************************)
(* Editing.                                                                *)
(***************************************************************************)
Assign(d, p, v) == [d EXCEPT ![p] = v]
\* Changes are kept at their places in the list they came in.
Of(changes, p) == {i \in DOMAIN changes : changes[i].path = p}
Earliest(places) == CHOOSE i \in places : \A j \in places : i <= j
Latest(places) == CHOOSE i \in places : \A j \in places : j <= i

\* Made in their order, a path ends at what its last change gives it; taken back in the
\* reverse order, at what its first one found.
Applied(d, changes) ==
    [p \in DOMAIN d |-> IF Of(changes, p) = {} THEN d[p] ELSE changes[Latest(Of(changes, p))].next]
Reverted(d, changes) ==
    [p \in DOMAIN d |-> IF Of(changes, p) = {} THEN d[p] ELSE changes[Earliest(Of(changes, p))].previous]

\* The changes that differ from the value the path has now, before any of them.
Resolved(changes) ==
    [i \in {i \in DOMAIN changes : doc[changes[i].path] # changes[i].value} |->
        [path |-> changes[i].path, previous |-> doc[changes[i].path], next |-> changes[i].value]]

\* Fault: the newest entries are dropped, not the oldest.
NewestDropped(entries, n) == IF Len(entries) <= n THEN entries ELSE SubSeq(entries, 1, n)
Newest(entries, n) ==
    IF Len(entries) <= n THEN entries ELSE SubSeq(entries, Len(entries) - n + 1, Len(entries))

\* commit.  A path that the session does not track makes it throw before any
\* change.
Commit(s, changes) ==
    LET resolved == Resolved(changes)
        d == Applied(doc, resolved)
        entry == [changes |-> resolved, before |-> Now(s), after |-> Capture(d, s)]
        r == runtime[s]
    IN  /\ Mounted(s)
        /\ \A i \in DOMAIN changes : changes[i].path \in Tracked[s]
        /\ \/ /\ DOMAIN resolved = {}
              /\ Write(s, r, doc) /\ UNCHANGED docAt
           \/ /\ DOMAIN resolved # {}
              /\ Revise(s, [r EXCEPT !.undo = Newest(Append(@, entry), MaxHistory),
                                     !.redo = <<>>], d)
        /\ UNCHANGED <<sending, server>>

Undo(s) ==
    LET r == runtime[s]
        entry == Last(r.undo)
    IN  /\ Mounted(s) /\ r.undo # <<>>
        /\ Revise(s, [r EXCEPT !.undo = Front(@), !.redo = Append(@, entry)],
                     Reverted(doc, entry.changes))
        /\ UNCHANGED <<sending, server>>

Redo(s) ==
    LET r == runtime[s]
        entry == Last(r.redo)
    IN  /\ Mounted(s) /\ r.redo # <<>>
        /\ Revise(s, [r EXCEPT !.redo = Front(@), !.undo = Append(@, entry)],
                     Applied(doc, entry.changes))
        /\ UNCHANGED <<sending, server>>

Discard(s) ==
    /\ Mounted(s)
    /\ Revise(s, [runtime[s] EXCEPT !.undo = <<>>, !.redo = <<>>],
                 [p \in Path |-> IF p \in Tracked[s] THEN runtime[s].saved[p] ELSE doc[p]])
    /\ UNCHANGED <<sending, server>>

\* markSaved, and the host's own save that it stands for.
MarkSaved(s) ==
    /\ s \in Marking /\ Mounted(s)
    /\ Write(s, [runtime[s] EXCEPT !.saved = Now(s), !.savedRevision = runtime[s].revision,
                                   !.saveStatus = "saved"], doc)
    /\ server' = [server EXCEPT ![s] = Now(s)]
    /\ UNCHANGED <<sending, docAt>>

-----------------------------------------------------------------------------
(***************************************************************************)
(* Saving.                                                                 *)
(***************************************************************************)
\* save when no save is in flight, up to the request.  While one is in flight
\* save joins it and changes nothing.
StartSave(s) ==
    LET r == runtime[s]
    IN  /\ Mounted(s) /\ sending[s] = NoSave
        /\ \/ /\ s \in Unsavable
              /\ Write(s, [r EXCEPT !.saveStatus = "error"], doc)
              /\ UNCHANGED sending
           \/ /\ s \notin Unsavable
              /\ Write(s, [r EXCEPT !.saveStatus = "saving", !.attempts = @ + 1], doc)
              /\ sending' = [sending EXCEPT ![s] =
                   [stage |-> "sent", doc |-> Now(s), revision |-> r.revision]]
        /\ UNCHANGED <<server, docAt>>

\* External: the request reaches the server, which stores the document.
ServerStores(s) ==
    /\ sending[s].stage = "sent"
    /\ server' = [server EXCEPT ![s] = sending[s].doc]
    /\ sending' = [sending EXCEPT ![s].stage = "stored"]
    /\ UNCHANGED <<doc, runtime, meta, docAt>>

\* applySaveTargetToCapturedSnapshot, and the write of the answer to the state.
WithAnswer(s, d) ==
    IF Target[s] \in DOMAIN d THEN Assign(d, Target[s], Stamped) ELSE d

\* Fault: the document of now is marked as saved, not the one that was sent.
SavedMarksCurrent(s) ==
    LET d == WithAnswer(s, doc)
        r == [runtime[s] EXCEPT !.saved = Capture(d, s), !.savedRevision = runtime[s].revision,
                                !.saveStatus = "saved"]
    IN  /\ sending[s].stage = "stored"
        /\ IF Mounted(s) THEN Write(s, r, d) ELSE UNCHANGED <<doc, runtime, meta>>
        /\ sending' = [sending EXCEPT ![s] = NoSave]
        /\ UNCHANGED <<server, docAt>>

\* The answer is ok: what was sent is what is saved.  After unmount it changes
\* nothing.
Saved(s) ==
    LET d == WithAnswer(s, doc)
        r == [runtime[s] EXCEPT !.saved = WithAnswer(s, sending[s].doc),
                                !.savedRevision = sending[s].revision, !.saveStatus = "saved"]
    IN  /\ sending[s].stage = "stored"
        /\ IF Mounted(s) THEN Write(s, r, d) ELSE UNCHANGED <<doc, runtime, meta>>
        /\ sending' = [sending EXCEPT ![s] = NoSave]
        /\ UNCHANGED <<server, docAt>>

\* The request is refused, or cannot be sent, or its timeout aborts it.
SaveFailed(s) ==
    /\ sending[s].stage \in (IF s \in Lossy THEN {"sent", "stored"} ELSE {"sent"})
    /\ IF Mounted(s) THEN Write(s, [runtime[s] EXCEPT !.saveStatus = "error"], doc)
                     ELSE UNCHANGED <<doc, runtime, meta>>
    /\ sending' = [sending EXCEPT ![s] = NoSave]
    /\ UNCHANGED <<server, docAt>>

\* The screen is left: the metadata of every session is removed.
Unmount ==
    /\ \A s \in Session : Mounted(s)
    /\ runtime' = [s \in Session |-> [runtime[s] EXCEPT !.disposed = TRUE]]
    /\ meta' = [s \in Session |-> NoMeta]
    /\ UNCHANGED <<doc, sending, server, docAt>>

Edit(s) ==
    (\E changes \in Changes : Commit(s, changes)) \/ Undo(s) \/ Redo(s) \/ Discard(s)
Saving(s) == ServerStores(s) \/ Saved(s) \/ SaveFailed(s)

Next ==
    \/ \E s \in Session : Edit(s) \/ MarkSaved(s) \/ Saving(s)
    \/ \E s \in Session : runtime[s].attempts < MaxSaves[s] /\ StartSave(s)
    \/ Unmount

Spec == Init /\ [][Next]_vars

-----------------------------------------------------------------------------
(***************************************************************************)
(* Properties.                                                             *)
(***************************************************************************)
\* The stacks together never exceed maxHistory, and a session is saving exactly
\* while a request is in flight.
TypeOK ==
    /\ DOMAIN doc = Path /\ \A p \in Path : doc[p] \in Value \cup {First, Stamped}
    /\ \A s \in Session :
         LET r == runtime[s]
         IN  /\ Len(r.undo) + Len(r.redo) <= MaxHistory
             /\ r.revision = Len(docAt[s]) - 1 /\ r.savedRevision \in 0 .. r.revision
             /\ Mounted(s) /\ s \notin Marking => (r.saveStatus = "saving" <=> sending[s] # NoSave)

\* Undo and redo go back and forth through the very documents that the commits
\* recorded: the entry on top of the undo stack ends, and the one on top of the
\* redo stack begins, at the document of now; neighbours meet; and each entry
\* turns its two documents into each other.
HistoryChained ==
    \A s \in Session :
      LET u == runtime[s].undo
          r == runtime[s].redo
      IN  Mounted(s) =>
            /\ u # <<>> => Last(u).after = Now(s)
            /\ r # <<>> => Last(r).before = Now(s)
            /\ \A i \in 1 .. Len(u) - 1 : u[i].after = u[i + 1].before
            /\ \A i \in 1 .. Len(r) - 1 : r[i].before = r[i + 1].after
            /\ \A e \in ToSet(u) \cup ToSet(r) :
                 Applied(e.before, e.changes) = e.after /\ Reverted(e.after, e.changes) = e.before

\* The metadata that toolbars and the navigation guard read are those of now.
MetadataCurrent ==
    \A s \in Session : Mounted(s) => meta[s] = Metadata(s, runtime[s], doc)

\* What the stacks, the toolbars and the guard rely on, after any sequence of commits, undo,
\* redo, discard and answers of saves.
UndoSound == HistoryChained /\ MetadataCurrent

\* The saved snapshot is the document of the saved revision.
SavedAtRevision ==
    \A s \in Session : runtime[s].saved = docAt[s][runtime[s].savedRevision + 1]

\* A session that is clean with no save in flight is stored on the server,
\* whatever was edited, undone and discarded while saves were in flight, as
\* long as no answer is lost and the host does not save behind a save.
CleanMeansStored ==
    \A s \in Session \ (Lossy \cup Marking) :
      Mounted(s) /\ sending[s] = NoSave /\ ~meta[s].dirty => server[s] = Now(s)

\* What counts as saved is saved, although answers arrive after later edits.
SavedMeansStored == SavedAtRevision /\ CleanMeansStored

\* After unmount nothing the engine does reaches the state.
Silent == \A s \in Session : ~Mounted(s) => UNCHANGED <<doc, meta>>

\* An edit made while a save is in flight leaves the document dirty when the
\* save succeeds.
KeepsLaterEdits ==
    \A s \in Session :
      Mounted(s) /\ sending[s].stage = "stored" /\ sending'[s] = NoSave
        /\ Now(s) # sending[s].doc /\ runtime'[s].saveStatus = "saved" => meta'[s].dirty

\* No answer, however late, hides an edit or reaches a screen that was left.
EditsOutliveSaves == [][KeepsLaterEdits /\ Silent]_vars

\* Every save is answered, by the server or by its timeout.
SavesEnd == \A s \in Session : sending[s] # NoSave ~> sending[s] = NoSave
=============================================================================
