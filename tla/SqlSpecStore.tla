---------------------------- MODULE SqlSpecStore ----------------------------
(***************************************************************************)
(* The plain spec store over the SQL drivers (spec-stores/sql.ts and       *)
(* sql/drivers): callers save, load and delete documents through one       *)
(* driver.  A pooled driver (postgres, mysql, sqlserver) gives every       *)
(* transaction a connection of its own; the sqlite driver has one          *)
(* connection, which a transaction in progress shares with every other     *)
(* statement of the process.  Each step is one awaited statement.          *)
(*                                                                         *)
(* The databases themselves are external: a statement of a pooled          *)
(* transaction sees what is committed and what it wrote, and waits while   *)
(* another transaction holds the row.                                      *)
(***************************************************************************)
EXTENDS Naturals, FiniteSets

CONSTANTS Caller,      \* calls made on the driver, each of them once
          Id,          \* the documents
          Conn,        \* the connections of a pool
          Dialects,    \* the dialects to look at
          SqliteShared,\* whether calls overlap on the one connection of sqlite
          Faults       \* what may fail: "begin", "statement", "commit", "answer", "rollback"

CONSTANTS None, Closed, Untouched  \* no row or nobody; no open transaction; not written

ASSUME DialectAssumption ==
    /\ Dialects \subseteq {"sqlite", "postgres", "mysql", "sqlserver"}
    /\ Faults \subseteq {"begin", "statement", "commit", "answer", "rollback"}
    /\ None \notin Caller \cup Conn /\ Conn # {}

VARIABLES dialect, \* of this driver
          stored,  \* per document what is committed: its row, or None
          work,    \* per connection what its open transaction wrote
          owner,   \* per connection the call that holds it
          call     \* per caller its call: what, where it stands, what it read

vars == <<dialect, stored, work, owner, call>>

Row == [doc : Caller, version : Nat]
ASSUME ValuesApart ==
    /\ None \notin Row /\ Untouched \notin Row \cup {None}
    /\ Closed \notin [Id -> Row \cup {None, Untouched}]

Idle == [op |-> "none", pc |-> "idle", id |-> None, conn |-> None, read |-> None]
Pooled == dialect # "sqlite"
\* The sqlite driver has one of the connections.
Usable == IF Pooled THEN Conn ELSE {CHOOSE k \in Conn : TRUE}
NoWork == [i \in Id |-> Untouched]

TypeOK ==
    /\ dialect \in Dialects
    /\ stored \in [Id -> Row \cup {None}]
    /\ work \in [Conn -> {Closed} \cup [Id -> Row \cup {None, Untouched}]]
    /\ owner \in [Conn -> Caller \cup {None}]
    /\ call \in [Caller -> [op : {"none", "save", "load", "delete"}, id : Id \cup {None},
                            pc : {"idle", "acquire", "begin", "select", "write", "commit", "rollback",
                                  "once", "done", "failed"},
                            conn : Conn \cup {None}, read : Row \cup {None}]]

Init ==
    /\ dialect \in Dialects
    /\ stored = [i \in Id |-> None]
    /\ work = [k \in Conn |-> Closed]
    /\ owner = [k \in Conn |-> None]
    /\ call = [c \in Caller |-> Idle]
-----------------------------------------------------------------------------
Ended(c) == call[c].pc \in {"done", "failed"}
At(c, pc) == call[c].pc = pc
Go(c, pc) == call' = [call EXCEPT ![c].pc = pc]

\* What statements on connection k see of a document.
View(k, id) == IF work[k] = Closed \/ work[k][id] = Untouched THEN stored[id] ELSE work[k][id]

\* Another transaction of the pool has written the row.
Locked(c, id) ==
    Pooled /\ \E k \in Conn : /\ work[k] # Closed /\ owner[k] # c
                              /\ work[k][id] # Untouched

\* A statement on connection k writes a row: into the open transaction if there is
\* one, at once otherwise.
Put(k, id, row) ==
    IF work[k] = Closed
    THEN stored' = [stored EXCEPT ![id] = row] /\ UNCHANGED work
    ELSE work' = [work EXCEPT ![k][id] = row] /\ UNCHANGED stored

Apply(k) == [i \in Id |-> View(k, i)]

\* The calls of the command line tool follow each other.
MayStart(c) == Pooled \/ SqliteShared \/ \A d \in Caller \ {c} : At(d, "idle") \/ Ended(d)

Start(c) ==
    /\ At(c, "idle") /\ MayStart(c)
    /\ \E op \in {"save", "load", "delete"}, id \in Id :
         call' = [call EXCEPT ![c].op = op, ![c].id = id,
                              ![c].pc = IF op = "save" THEN "acquire" ELSE "once"]
    /\ UNCHANGED <<dialect, stored, work, owner>>

\* load and delete: one statement on any connection; a row that is not there is an
\* error of the call.
Once(c) ==
    /\ At(c, "once")
    /\ \E k \in Usable :
         LET id == call[c].id
             row == View(k, id)
         IN  /\ Pooled => owner[k] = None
             /\ \/ /\ "statement" \in Faults
                   /\ Go(c, "failed") /\ UNCHANGED <<stored, work>>
                \/ /\ call[c].op = "load" \/ row = None
                   /\ call' = [call EXCEPT ![c].pc = IF row = None THEN "failed" ELSE "done",
                                           ![c].read = row]
                   /\ UNCHANGED <<stored, work>>
                \/ /\ call[c].op = "delete" /\ row # None /\ ~Locked(c, id)
                   /\ Put(k, id, None)
                   /\ Go(c, "done")
    /\ UNCHANGED <<dialect, owner>>
-----------------------------------------------------------------------------
(* transaction *)

\* The pool hands out a free connection, or the call waits.
Acquire(c) ==
    /\ At(c, "acquire")
    /\ \E k \in Usable :
         /\ Pooled => owner[k] = None
         /\ owner' = IF Pooled THEN [owner EXCEPT ![k] = c] ELSE owner
         /\ call' = [call EXCEPT ![c].pc = "begin", ![c].conn = k]
    /\ UNCHANGED <<dialect, stored, work>>

Release(c) == [k \in Conn |-> IF owner[k] = c THEN None ELSE owner[k]]

\* BEGIN.  Outside the try: when it fails, postgres and mysql never release the
\* connection (SQL Server's Transaction gives it back).  A transaction may still be open on
\* the connection: of another call on the one connection of sqlite, or one that was not
\* rolled back.  BEGIN then fails, but mysql commits what is open first, and postgres may
\* go on in the open transaction.
Begin(c) ==
    /\ At(c, "begin")
    /\ LET k == call[c].conn IN
         \/ /\ work[k] = Closed
            /\ work' = [work EXCEPT ![k] = NoWork]
            /\ Go(c, "select")
            /\ UNCHANGED <<stored, owner>>
         \/ /\ work[k] # Closed /\ dialect = "mysql"
            /\ stored' = Apply(k)
            /\ work' = [work EXCEPT ![k] = NoWork]
            /\ Go(c, "select")
            /\ UNCHANGED owner
         \/ /\ work[k] # Closed /\ dialect = "postgres"
            /\ Go(c, "select")
            /\ UNCHANGED <<stored, work, owner>>
         \/ /\ (work[k] # Closed /\ dialect # "mysql") \/ "begin" \in Faults
            /\ Go(c, "failed")
            /\ owner' = IF dialect \in {"postgres", "mysql"} THEN owner ELSE Release(c)
            /\ UNCHANGED <<stored, work>>
    /\ UNCHANGED dialect

StatementFails(c) ==
    /\ "statement" \in Faults
    /\ call[c].pc \in {"select", "write"}
    /\ Go(c, "rollback")
    /\ UNCHANGED <<dialect, stored, work, owner>>

\* save: the version of the row, if there is one.
Select(c) ==
    /\ At(c, "select")
    /\ call' = [call EXCEPT ![c].pc = "write", ![c].read = View(call[c].conn, call[c].id)]
    /\ UNCHANGED <<dialect, stored, work, owner>>

\* save: the update of the row that was read, which may have gone since, or the
\* insert, which fails if there is a row by now.
WriteRow(c) ==
    /\ At(c, "write")
    /\ LET k == call[c].conn
           id == call[c].id
           read == call[c].read
           now == View(k, id)
       IN  /\ ~Locked(c, id)
           /\ \/ /\ read # None /\ now # None
                 /\ Put(k, id, [doc |-> c, version |-> read.version + 1])
                 /\ Go(c, "commit")
              \/ /\ read # None /\ now = None
                 /\ Go(c, "commit") /\ UNCHANGED <<stored, work>>
              \/ /\ read = None /\ now = None
                 /\ Put(k, id, [doc |-> c, version |-> 1])
                 /\ Go(c, "commit")
              \/ /\ read = None /\ now # None
                 /\ Go(c, "rollback") /\ UNCHANGED <<stored, work>>
    /\ UNCHANGED <<dialect, owner>>

\* Fault: an error of COMMIT does not reach the caller.
CommitSwallowed(c) ==
    /\ At(c, "commit")
    /\ Go(c, "done")
    /\ owner' = Release(c)
    /\ LET k == call[c].conn IN
         \/ /\ work[k] # Closed
            /\ stored' = Apply(k)
            /\ work' = [work EXCEPT ![k] = Closed]
         \/ /\ "commit" \in Faults
            /\ UNCHANGED stored
            /\ work' = [work EXCEPT ![k] = Closed]
    /\ UNCHANGED dialect

\* COMMIT, inside the try.  It may fail, and its answer may be lost.
Commit(c) ==
    /\ At(c, "commit")
    /\ LET k == call[c].conn IN
         \/ /\ work[k] # Closed
            /\ stored' = Apply(k)
            /\ work' = [work EXCEPT ![k] = Closed]
            /\ \/ Go(c, "done") /\ owner' = Release(c)
               \/ Pooled /\ "answer" \in Faults /\ Go(c, "rollback") /\ UNCHANGED owner
         \/ /\ work[k] = Closed \/ "commit" \in Faults
            /\ Go(c, "rollback")
            /\ UNCHANGED <<stored, work, owner>>
    /\ UNCHANGED dialect

\* Fault: a failed transaction is not rolled back before its connection is reused.
RollbackSkipped(c) ==
    /\ At(c, "rollback")
    /\ owner' = Release(c)
    /\ Go(c, "failed")
    /\ UNCHANGED <<dialect, stored, work>>

\* Fault: the connection is released after a success only.
RollbackKeepsConnection(c) ==
    /\ At(c, "rollback")
    /\ work' = [work EXCEPT ![call[c].conn] = Closed]
    /\ Go(c, "failed")
    /\ UNCHANGED <<dialect, stored, owner>>

\* ROLLBACK and the release of the connection; an error of it replaces the first one, and
\* postgres and mysql release the connection with what may still be open on it.
Rollback(c) ==
    /\ At(c, "rollback")
    /\ \/ work' = [work EXCEPT ![call[c].conn] = Closed]
       \/ "rollback" \in Faults /\ dialect \in {"postgres", "mysql"} /\ UNCHANGED work
    /\ owner' = Release(c)
    /\ Go(c, "failed")
    /\ UNCHANGED <<dialect, stored>>

Step(c) == \/ Once(c) \/ Acquire(c) \/ Begin(c) \/ Select(c) \/ WriteRow(c) \/ StatementFails(c)
           \/ Commit(c) \/ Rollback(c)
Next == \E c \in Caller : Start(c) \/ Step(c)

Spec == Init /\ [][Next]_vars
\* The database answers: what can go on on a connection goes on.
FairSpec == Spec /\ WF_vars(\E c \in Caller : Step(c))
-----------------------------------------------------------------------------
(* What the store promises *)

Doc(id) == IF stored[id] = None THEN None ELSE stored[id].doc
Docs == [i \in Id |-> Doc(i)]

\* Whatever happens at the same time, the table changes by one whole save or delete, of
\* a call that is under way, and a call that fails changes nothing afterwards: no part
\* of a transaction shows early, and none is undone with another call's rollback.
OneCall ==
    Docs' # Docs =>
      \E c \in Caller, id \in Id :
         /\ Docs' = [Docs EXCEPT ![id] = IF call[c].op = "save" THEN c ELSE None]
         /\ call[c].id = id
         /\ \/ call[c].op = "save" /\ call[c].pc = "commit"
            \/ call[c].op = "delete" /\ call[c].pc = "once" /\ call'[c].pc = "done"
OneCallAtATime == [][OneCall]_vars

\* A call that reported success has been stored: at the moment it ends the table holds
\* the saved document, unless the row that was read had been deleted before the update,
\* which then wrote nothing; after a delete it holds no row any more.
Acknowledges ==
    \A c \in Caller :
      (~Ended(c) /\ call'[c].pc = "done") =>
          /\ call[c].op = "save" =>
               \/ Docs'[call[c].id] = c
               \/ call[c].read # None /\ work[call[c].conn][call[c].id] = Untouched
          /\ call[c].op = "delete" => Docs'[call[c].id] = None
AcknowledgedIsStored == [][Acknowledges]_vars

\* A connection that no call in progress holds is free and has no open transaction.
ConnectionsReturned ==
    \A k \in Conn : (owner[k] = None \/ Ended(owner[k])) =>
        /\ owner[k] = None
        /\ work[k] # Closed => ~Pooled /\ \E c \in Caller : call[c].conn = k /\ ~Ended(c)

\* Every call ends, however the calls share connections and rows.
CallsEnd == \A c \in Caller : (call[c].pc # "idle") ~> Ended(c)
=============================================================================
