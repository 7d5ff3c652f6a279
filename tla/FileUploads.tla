---------------------------- MODULE FileUploads ----------------------------
(***************************************************************************)
(* One file-upload element: the callbacks MythikRenderer gives the         *)
(* primitive (onFiles, onRemove, onRetry), the list of file states at      *)
(* /ui/uploads/{elementId}/files, the registry of File objects, and the    *)
(* handler of the action uploadFile in core/src/storage/upload-action.ts.  *)
(* A handler keeps its own list of files and names a row by its index.     *)
(***************************************************************************)
EXTENDS Integers, Sequences, SequencesExt

CONSTANTS
    File,         \* files; the url of a stored file is the file itself
    Size, Category, Type, Extension,   \* functions of files
    MaxSize,      \* limit of the element
    GlobalMax,    \* limit of the storage configuration, 0 for none
    AllowedTypes, \* of the storage configuration, {} for all
    Accept,       \* the parts of the element's accept, {} for "*"
    Selections,   \* the lists of files a user may choose
    MaxRuns,      \* bound: how many handlers may be started
    Patient       \* whether the user waits for uploads, and retries only a lone file

VARIABLES
    registry,     \* fileRegistryRef: the File objects of the element
    list,         \* the rows shown, [file, status]
    runs,         \* the handlers started, in order
    target,       \* the urls written to the target path
    stored,       \* what the storage adapter has stored
    wanted        \* the files the user chose and has not removed

uploadVars == <<registry, list, runs, target, stored, wanted>>

\* validateUploadFile.  A part of accept is an extension, a category ("image/*") or a type.
SizeOk(f) == Size[f] <= MaxSize /\ (GlobalMax # 0 => Size[f] <= GlobalMax)
Accepted(f) ==
    \/ Accept = {}
    \/ \E part \in Accept : part.of = CASE part.kind = "extension" -> Extension[f]
                                        [] part.kind = "category" -> Category[f]
                                        [] OTHER -> Type[f]
Valid == {f \in File : /\ SizeOk(f) /\ Accepted(f)
                       /\ AllowedTypes # {} => Type[f] \in AllowedTypes}

Status == {"pending", "uploading", "done", "error"}
Running(h) == h.pc # "ended"
Free == Patient => \A k \in DOMAIN runs : ~Running(runs[k])
-----------------------------------------------------------------------------
\* updateFileState: the row at an index, if there still is one.
SetRow(rows, i, status) == IF i \in DOMAIN rows THEN [rows EXCEPT ![i].status = status] ELSE rows

Rows(files) == [i \in DOMAIN files |-> [file |-> files[i], status |-> "pending"]]

\* The target path at the end of a handler: it is left alone when nothing was stored.
Targeted(urls) == IF urls = <<>> THEN target ELSE urls

\* The next file to upload, or one past the last; those passed over are not valid.
NextValid(files, i) ==
    LET ok == {j \in i .. Len(files) : files[j] \in Valid}
    IN  IF ok = {} THEN Len(files) + 1 ELSE Min(ok)

\* The handler from file i up to its next await: rows of invalid files get their error,
\* the next valid one is being uploaded, and after the last the urls are written.
Proceed(k, h, i, rows) ==
    LET j == NextValid(h.files, i)
        marked == [n \in DOMAIN rows |-> IF n \in i .. j - 1 THEN [rows[n] EXCEPT !.status = "error"] ELSE rows[n]]
    IN  IF j <= Len(h.files)
        THEN /\ runs' = [n \in DOMAIN runs \cup {k} |->
                            IF n = k THEN [h EXCEPT !.at = j, !.pc = "sending", !.tries = 1] ELSE runs[n]]
             /\ list' = SetRow(marked, j, "uploading")
             /\ UNCHANGED target
        ELSE /\ runs' = [n \in DOMAIN runs \cup {k} |-> IF n = k THEN [h EXCEPT !.pc = "ended"] ELSE runs[n]]
             /\ list' = marked
             /\ target' = Targeted(h.urls)

\* The action uploadFile: the list becomes the files of this handler.
StartUpload(files) ==
    /\ Len(runs) < MaxRuns
    /\ Proceed(Len(runs) + 1,
               [files |-> files, at |-> 0, pc |-> "sending", tries |-> 1, urls |-> <<>>],
               1, Rows(files))

\* onFiles, with automatic upload.
Select ==
    /\ Free
    /\ \E files \in Selections :
         /\ registry' = files /\ wanted' = ToSet(files)
         /\ StartUpload(files)
    /\ UNCHANGED stored

\* Fault: the registry keeps its files.
RemoveRowAlone ==
    /\ Free
    /\ \E i \in DOMAIN list : list' = RemoveAt(list, i) /\ wanted' = wanted \ {list[i].file}
    /\ UNCHANGED <<registry, runs, target, stored>>

\* onRemove: registry and rows lose one index, whatever handlers are running.
RemoveRow ==
    /\ Free
    /\ \E i \in DOMAIN list :
         /\ registry' = IF i \in DOMAIN registry THEN RemoveAt(registry, i) ELSE registry
         /\ list' = RemoveAt(list, i)
         /\ wanted' = wanted \ {list[i].file}
    /\ UNCHANGED <<runs, target, stored>>

\* onRetry of a row with an error: a handler for that file alone.
Retry ==
    /\ Free /\ (Patient => Len(list) = 1)
    /\ \E i \in DOMAIN list \cap DOMAIN registry :
         /\ list[i].status = "error"
         /\ StartUpload(<<registry[i]>>)
    /\ UNCHANGED <<registry, stored, wanted>>

\* adapter.upload succeeds.
Stored(k) ==
    /\ runs[k].pc = "sending"
    /\ LET h == runs[k] IN
         /\ stored' = stored \cup {h.files[h.at]}
         /\ Proceed(k, [h EXCEPT !.urls = Append(@, h.files[h.at])], h.at + 1, SetRow(list, h.at, "done"))
    /\ UNCHANGED <<registry, wanted>>

\* Fault: the second failure waits like the first.
FailedAlways(k) ==
    /\ runs[k].pc = "sending"
    /\ runs' = [runs EXCEPT ![k].pc = "waiting"]
    /\ UNCHANGED <<registry, list, target, stored, wanted>>

\* adapter.upload fails, also when the file was stored and the answer was lost: the
\* first time it is tried again after a second, the second time the row has an error.
Failed(k) ==
    /\ runs[k].pc = "sending"
    /\ LET h == runs[k] IN
         /\ stored' \in {stored, stored \cup {h.files[h.at]}}
         /\ IF h.tries = 1
            THEN runs' = [runs EXCEPT ![k].pc = "waiting"] /\ UNCHANGED <<list, target>>
            ELSE Proceed(k, h, h.at + 1, SetRow(list, h.at, "error"))
    /\ UNCHANGED <<registry, wanted>>

TryAgain(k) ==
    /\ runs[k].pc = "waiting"
    /\ runs' = [runs EXCEPT ![k].pc = "sending", ![k].tries = 0]
    /\ UNCHANGED <<registry, list, target, stored, wanted>>

Run(k) == Stored(k) \/ Failed(k) \/ TryAgain(k)

UploadInit ==
    /\ registry = <<>> /\ list = <<>> /\ runs = <<>> /\ target = <<>>
    /\ stored = {} /\ wanted = {}

UploadNext == Select \/ RemoveRow \/ Retry \/ \E k \in DOMAIN runs : Run(k)

UploadSpec == UploadInit /\ [][UploadNext]_uploadVars /\ \A k \in 1 .. MaxRuns :
                 WF_uploadVars(k \in DOMAIN runs /\ Run(k))
-----------------------------------------------------------------------------
Settled == \A k \in DOMAIN runs : ~Running(runs[k])

UploadTypeOK ==
    /\ registry \in Seq(File) /\ target \in Seq(File)
    /\ \A i \in DOMAIN list : list[i].file \in File /\ list[i].status \in Status
    /\ stored \subseteq Valid /\ wanted \subseteq File

\* For a user who waits: when no upload runs the rows are the files chosen and not
\* removed, each stored if its row says done and refused or failed if it says error, and
\* the target has the urls of the rows done, of the last list that had any.
RowsTrue ==
    Settled =>
        /\ {list[i].file : i \in DOMAIN list} = wanted
        /\ \A i \in DOMAIN list :
             /\ list[i].status \in {"done", "error"}
             /\ list[i].status = "done" => list[i].file \in stored \cap ToSet(target)
             /\ list[i].file \notin Valid => list[i].status = "error"

\* Every upload ends: a file is tried twice and no more.
UploadsEnd == \A k \in 1 .. MaxRuns : (k \in DOMAIN runs /\ Running(runs[k])) ~> (k \in DOMAIN runs /\ ~Running(runs[k]))
=============================================================================
