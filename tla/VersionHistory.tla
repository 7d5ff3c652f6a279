--------------------------- MODULE VersionHistory ---------------------------
(***************************************************************************)
(* What a versioned spec store promises for one spec, whatever it keeps in *)
(* its tables (the VersionedSpecStore interface of versioning/types.ts):   *)
(* an append-only log of documents numbered from 1, and loads that answer  *)
(* with exactly the document that was saved under the number asked for.    *)
(***************************************************************************)
EXTENDS Naturals

CONSTANTS
    Client,    \* the processes that use the store
    Doc,       \* the documents that may be saved
    NoAnswer   \* a client that holds no loaded version

VARIABLES
    log,      \* log[v] is the document saved as version v
    answer    \* answer[c] is the loaded version client c holds, or NoAnswer

historyVars == <<log, answer>>

HistoryInit ==
    /\ log = [v \in {} |-> NoAnswer]
    /\ answer = [c \in Client |-> NoAnswer]

\* saveVersion: one more version, after all the others, and none of them changes.
Append(d) ==
    \E n \in {0} \cup DOMAIN log :
       /\ DOMAIN log = 1 .. n
       /\ log' = [v \in 1 .. n + 1 |-> IF v = n + 1 THEN d ELSE log[v]]
       /\ UNCHANGED answer

\* loadVersion returns the document of a version that exists.
Load(c, v) ==
    /\ v \in DOMAIN log
    /\ answer' = [answer EXCEPT ![c] = [version |-> v, doc |-> log[v]]]
    /\ UNCHANGED log

\* The client has used what it loaded, or died.
Forget(c) ==
    /\ answer' = [answer EXCEPT ![c] = NoAnswer]
    /\ UNCHANGED log

HistoryNext ==
    \/ \E d \in Doc : Append(d)
    \/ \E c \in Client : Forget(c) \/ \E v \in DOMAIN log : Load(c, v)

HistorySpec == HistoryInit /\ [][HistoryNext]_historyVars
=============================================================================
