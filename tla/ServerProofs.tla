---------------------------- MODULE ServerProofs ----------------------------
(***************************************************************************)
(* What is proved of three pieces of MCServer, for any number of clients,  *)
(* rows, connections and documents.                                        *)
(*                                                                         *)
(* The plain spec store.  No connection is lost: ConnectionsReturned is an *)
(* invariant for any callers, documents, connections and dialects,         *)
(* overlapping or not, whatever statement, COMMIT or answer fails, as long *)
(* as BEGIN and ROLLBACK themselves do not (a failed BEGIN leaks the       *)
(* connection of postgres and mysql, see Begin; a failed ROLLBACK releases *)
(* it with work on it, see Rollback).  ConnectionsReturned is about calls  *)
(* that have ended; the invariant adds what each connection and each call  *)
(* in a transaction has to do with the other while it lasts.  And the      *)
(* table changes by whole calls, and a call that reports success has been  *)
(* stored, as long as calls do not overlap on the one connection of        *)
(* sqlite.                                                                 *)
(*                                                                         *)
(* The routes of an endpoint.  What a list has gathered so far is about    *)
(* one state of the table as long as nobody writes, in whatever order its  *)
(* statements answer, and a write answers what the database told it: an    *)
(* error, other than one that stands for an answer that was lost, has left *)
(* the table as it was (see ToldSo).  Both are invariants of each request  *)
(* that the steps of the other clients can only weaken by disturbing it.   *)
(*                                                                         *)
(* The histories in memory and in Supabase.  A chained history rebuilds    *)
(* every version; it stays chained because a call that adds a record got   *)
(* the document before it from records that are still there, and because   *)
(* the table refuses a second row of a version or, in memory, calls follow *)
(* each other.                                                             *)
(*                                                                         *)
(* The last part puts the pieces together: the theorems are about          *)
(* PieceSpec and the properties its run checks.                            *)
(***************************************************************************)
EXTENDS MCServer, FiniteSetTheorems, SequenceTheorems, WellFoundedInduction, TLAPS

\* Where a call holds a connection, and where its transaction is open.
Holding == {"begin", "select", "write", "commit", "rollback"}
Inside == {"select", "write", "commit", "rollback"}

\* The types of what decides who holds what.
HoldType ==
    /\ dialect \in Dialects
    /\ owner \in [Conn -> Caller \cup {None}]
    /\ DOMAIN work = Conn
    /\ DOMAIN call = Caller
    /\ \A c \in Caller : DOMAIN call[c] = {"op", "id", "pc", "conn", "read"}

\* A call in a transaction has a connection, which in a pool is its own.
CallHolds ==
    \A c \in Caller : call[c].pc \in Holding =>
        call[c].conn \in Conn /\ (Pooled => owner[call[c].conn] = c)

\* A connection that is owned is that of a call in a transaction.
OwnerHolds ==
    \A k \in Conn : owner[k] # None =>
        Pooled /\ call[owner[k]].pc \in Holding /\ call[owner[k]].conn = k

\* An open transaction is that of a call that has begun it.
OpenInside ==
    \A k \in Conn : work[k] # Closed =>
        \E c \in Caller : call[c].conn = k /\ call[c].pc \in Inside

\* A ROLLBACK that is sent rolls back.
RollsBack == "rollback" \notin Faults

IInv == RollsBack /\ HoldType /\ CallHolds /\ OpenInside /\ ("begin" \notin Faults => OwnerHolds)

\* A step of call c leaves the other calls, the dialect and the shape of things alone.
StepOf(c) ==
    /\ HoldType'
    /\ UNCHANGED dialect
    /\ \A d \in Caller \ {c} : call'[d] = call[d]
-----------------------------------------------------------------------------
\* Initially no call holds anything.
LEMMA HoldInit == RollsBack /\ Init => IInv
BY DialectAssumption DEF Init, IInv, HoldType, CallHolds, OwnerHolds, OpenInside, Idle, Holding

\* Where a call of type HoldType stands after a step that moves it on.
LEMMA Moved ==
    ASSUME HoldType, NEW c \in Caller, NEW pc, Go(c, pc), UNCHANGED <<dialect, owner>>, DOMAIN work' = Conn
    PROVE  /\ StepOf(c)
           /\ call'[c].pc = pc /\ call'[c].conn = call[c].conn
BY DEF HoldType, Go, StepOf

\* A call outside a transaction stays outside.
LEMMA StaysOutside ==
    ASSUME IInv, NEW c \in Caller, StepOf(c), UNCHANGED owner,
           \A k \in Conn : work'[k] # Closed => work[k] # Closed,
           call[c].pc \notin Holding, call'[c].pc \notin Holding
    PROVE  IInv'
<1>1. CallHolds'
  BY DEF IInv, CallHolds, StepOf, Pooled
<1>2. "begin" \notin Faults => OwnerHolds'
  BY DEF IInv, HoldType, OwnerHolds, StepOf, Pooled
<1>3. OpenInside'
  BY DEF IInv, OpenInside, StepOf, Inside, Holding
<1> QED
  BY <1>1, <1>2, <1>3 DEF IInv, RollsBack, StepOf

\* A call goes on in its transaction; only a call inside one opens it.
LEMMA StaysInside ==
    ASSUME IInv, NEW c \in Caller, StepOf(c), UNCHANGED owner,
           call[c].pc \in Holding, call'[c].pc \in Inside, call'[c].conn = call[c].conn,
           \A k \in Conn : work'[k] # Closed => work[k] # Closed \/ k = call[c].conn
    PROVE  IInv'
<1>1. CallHolds'
  BY DEF IInv, CallHolds, StepOf, Pooled, Inside, Holding
<1>2. "begin" \notin Faults => OwnerHolds'
  BY DEF IInv, HoldType, OwnerHolds, StepOf, Pooled, Inside, Holding
<1>3. OpenInside'
  <2> SUFFICES ASSUME NEW k \in Conn, work'[k] # Closed
               PROVE  \E d \in Caller : call'[d].conn = k /\ call'[d].pc \in Inside
    BY DEF OpenInside
  <2>1. CASE k = call[c].conn
    BY <2>1
  <2>2. CASE k # call[c].conn
    <3>1. PICK d \in Caller : call[d].conn = k /\ call[d].pc \in Inside
      BY <2>2 DEF IInv, OpenInside
    <3> QED
      BY <2>2, <3>1 DEF StepOf
  <2> QED
    BY <2>1, <2>2
<1> QED
  BY <1>1, <1>2, <1>3 DEF IInv, RollsBack, StepOf

\* A call leaves its transaction: it gives its connection back, and closes what it opened.
LEMMA Leaves ==
    ASSUME IInv, NEW c \in Caller, StepOf(c), owner' = Release(c),
           call[c].pc \in Holding, call'[c].pc \notin Holding,
           \A k \in Conn : work'[k] # Closed =>
               work[k] # Closed /\ (call[c].pc \in Inside => k # call[c].conn)
    PROVE  IInv'
<1>1. CallHolds'
  BY DEF IInv, HoldType, CallHolds, StepOf, Pooled, Release
<1>2. "begin" \notin Faults => OwnerHolds'
  BY DialectAssumption DEF IInv, HoldType, OwnerHolds, StepOf, Pooled, Release
<1>3. OpenInside'
  BY DEF IInv, OpenInside, StepOf, Inside, Holding
<1> QED
  BY <1>1, <1>2, <1>3 DEF IInv, RollsBack, StepOf
-----------------------------------------------------------------------------
\* Calls outside a transaction: Start, and the one statement of load and delete.
LEMMA OutsideStep ==
    ASSUME IInv, NEW c \in Caller, Start(c) \/ Once(c)
    PROVE  IInv'
<1>1. CASE Start(c)
  <2>1. StepOf(c) /\ call[c].pc = "idle" /\ call'[c].pc \in {"acquire", "once"}
    BY <1>1, ZenonT(60) DEF IInv, HoldType, Start, At, StepOf
  <2> QED
    BY <1>1, <2>1, StaysOutside DEF Start, Holding
<1>2. CASE Once(c)
  <2>1. /\ DOMAIN work' = Conn
        /\ \A k \in Conn : work'[k] # Closed => work[k] # Closed
    BY <1>2 DEF IInv, HoldType, Once, Put
  <2>2. StepOf(c) /\ call[c].pc = "once" /\ call'[c].pc \in {"done", "failed"}
    BY <1>2, <2>1 DEF IInv, HoldType, Once, At, Go, StepOf
  <2> QED
    BY <1>2, <2>1, <2>2, StaysOutside DEF Once, Holding
<1> QED
  BY <1>1, <1>2

\* A free connection becomes the call's; the one of sqlite is nobody's.
LEMMA AcquireStep ==
    ASSUME IInv, NEW c \in Caller, Acquire(c)
    PROVE  IInv'
<1>1. PICK k \in Usable :
        /\ Pooled => owner[k] = None
        /\ owner' = IF Pooled THEN [owner EXCEPT ![k] = c] ELSE owner
        /\ call' = [call EXCEPT ![c].pc = "begin", ![c].conn = k]
  BY DEF Acquire
<1>2. k \in Conn
  BY DialectAssumption DEF Usable
<1>3. /\ call[c].pc = "acquire" /\ call'[c].pc = "begin" /\ call'[c].conn = k
      /\ StepOf(c) /\ UNCHANGED work
  BY <1>1, <1>2 DEF IInv, HoldType, Acquire, At, StepOf
<1>4. CallHolds'
  BY <1>1, <1>2, <1>3, DialectAssumption DEF IInv, HoldType, CallHolds, StepOf, Pooled
<1>5. "begin" \notin Faults => OwnerHolds'
  BY <1>1, <1>2, <1>3 DEF IInv, HoldType, OwnerHolds, StepOf, Pooled, Holding
<1>6. OpenInside'
  BY <1>3 DEF IInv, OpenInside, StepOf, Inside
<1> QED
  BY <1>3, <1>4, <1>5, <1>6 DEF IInv, RollsBack, StepOf

\* A connection with an open transaction is shared: the one of sqlite.
LEMMA OpenShared ==
    ASSUME IInv, NEW c \in Caller, call[c].pc = "begin", work[call[c].conn] # Closed
    PROVE  ~Pooled
<1>1. call[c].conn \in Conn /\ (Pooled => owner[call[c].conn] = c)
  BY DEF IInv, CallHolds, Holding
<1>2. PICK d \in Caller : call[d].conn = call[c].conn /\ call[d].pc \in Inside
  BY <1>1 DEF IInv, OpenInside
<1> QED
  BY <1>1, <1>2 DEF IInv, CallHolds, Inside, Holding

\* BEGIN opens the transaction, or fails on the connection that sqlite's calls share; the
\* connection of a pool is closed when a call has just taken it.
LEMMA BeginStep ==
    ASSUME IInv, NEW c \in Caller, Begin(c)
    PROVE  IInv'
<1> DEFINE k == call[c].conn
<1>1. call[c].pc = "begin" /\ k \in Conn /\ (Pooled => owner[k] = c)
  BY DEF IInv, CallHolds, Begin, At, Holding
<1>2. CASE work[k] = Closed /\ work' = [work EXCEPT ![k] = NoWork] /\ Go(c, "select") /\ UNCHANGED owner
  <2>1. StepOf(c) /\ call'[c].pc = "select" /\ call'[c].conn = k
    BY <1>1, <1>2, Moved DEF IInv, HoldType, Begin
  <2>2. \A l \in Conn : work'[l] # Closed => work[l] # Closed \/ l = k
    BY <1>2 DEF IInv, HoldType
  <2> QED
    BY <1>1, <1>2, <2>1, <2>2, StaysInside DEF Inside, Holding
<1>3. CASE /\ work[k] # Closed /\ Go(c, "failed") /\ UNCHANGED work
           /\ owner' = IF dialect \in {"postgres", "mysql"} THEN owner ELSE Release(c)
  <2>1. owner' = Release(c)
    BY <1>1, <1>3, OpenShared DEF Pooled
  <2>2. StepOf(c) /\ call'[c].pc = "failed"
    BY <1>3, <2>1 DEF IInv, HoldType, Begin, Go, StepOf, Release
  <2> QED
    BY <1>1, <1>3, <2>1, <2>2, Leaves DEF Inside, Holding
<1>4. CASE /\ work[k] = Closed /\ "begin" \in Faults /\ Go(c, "failed") /\ UNCHANGED work
           /\ owner' = IF dialect \in {"postgres", "mysql"} THEN owner ELSE Release(c)
  <2>1. StepOf(c) /\ call'[c].pc = "failed"
    BY <1>4 DEF IInv, HoldType, Begin, Go, StepOf, Release
  <2>2. CallHolds'
    BY <1>4, <2>1 DEF IInv, HoldType, CallHolds, StepOf, Pooled, Release, Holding
  <2>3. OpenInside'
    BY <1>1, <1>4, <2>1 DEF IInv, OpenInside, StepOf, Inside
  <2> QED
    BY <1>4, <2>1, <2>2, <2>3 DEF IInv, RollsBack, StepOf
<1>5. work[k] # Closed => dialect \notin {"mysql", "postgres"}
  BY <1>1, OpenShared DEF Pooled
<1> QED
  BY <1>2, <1>3, <1>4, <1>5 DEF Begin

\* The statements of a transaction, and what may fail among them.
LEMMA StatementStep ==
    ASSUME IInv, NEW c \in Caller, Select(c) \/ WriteRow(c) \/ StatementFails(c)
    PROVE  IInv'
<1>1. /\ call[c].pc \in {"select", "write"} /\ call'[c].pc \in Inside /\ call'[c].conn = call[c].conn
      /\ UNCHANGED owner /\ StepOf(c)
      /\ \A k \in Conn : work'[k] # Closed => work[k] # Closed
  <2>1. CASE Select(c)
    BY <2>1 DEF IInv, HoldType, Select, At, Inside, StepOf
  <2>2. CASE WriteRow(c)
    <3>1. DOMAIN work' = Conn /\ \A k \in Conn : work'[k] # Closed => work[k] # Closed
      BY <2>2 DEF IInv, HoldType, WriteRow, Put
    <3>2. Go(c, "commit") \/ Go(c, "rollback")
      BY <2>2 DEF WriteRow
    <3> QED
      BY <2>2, <3>1, <3>2, Moved DEF IInv, WriteRow, At, Inside
  <2>3. CASE StatementFails(c)
    BY <2>3, Moved DEF IInv, HoldType, StatementFails, Inside
  <2> QED
    BY <2>1, <2>2, <2>3
<1> QED
  BY <1>1, StaysInside DEF Holding

\* COMMIT ends the transaction, or leaves the call to roll back.
LEMMA CommitStep ==
    ASSUME IInv, NEW c \in Caller, Commit(c)
    PROVE  IInv'
<1> DEFINE k == call[c].conn
<1>1. call[c].pc = "commit" /\ k \in Conn /\ UNCHANGED dialect
  BY DEF IInv, CallHolds, Commit, At, Holding
<1>2. CASE work' = [work EXCEPT ![k] = Closed] /\ Go(c, "done") /\ owner' = Release(c)
  <2>1. StepOf(c) /\ call'[c].pc = "done"
    BY <1>1, <1>2 DEF IInv, HoldType, Go, StepOf, Release
  <2>2. \A l \in Conn : work'[l] # Closed => work[l] # Closed /\ l # k
    BY <1>2 DEF IInv, HoldType
  <2> QED
    BY <1>1, <1>2, <2>1, <2>2, Leaves DEF Holding
<1>3. CASE (work' = [work EXCEPT ![k] = Closed] \/ UNCHANGED work) /\ Go(c, "rollback") /\ UNCHANGED owner
  <2>1. DOMAIN work' = Conn /\ \A l \in Conn : work'[l] # Closed => work[l] # Closed
    BY <1>3 DEF IInv, HoldType
  <2>2. StepOf(c) /\ call'[c].pc = "rollback" /\ call'[c].conn = k
    BY <1>1, <1>3, <2>1, Moved DEF IInv
  <2> QED
    BY <1>1, <1>3, <2>1, <2>2, StaysInside DEF Inside, Holding
<1> QED
  BY <1>2, <1>3 DEF Commit

\* ROLLBACK closes the transaction and gives the connection back.
LEMMA RollbackStep ==
    ASSUME IInv, NEW c \in Caller, Rollback(c)
    PROVE  IInv'
<1> DEFINE k == call[c].conn
<1>1. call[c].pc = "rollback" /\ k \in Conn
  BY DEF IInv, CallHolds, Rollback, At, Holding
<1>2. work' = [work EXCEPT ![k] = Closed]
  BY DEF IInv, RollsBack, Rollback
<1>3. StepOf(c) /\ call'[c].pc = "failed"
  BY <1>1, <1>2 DEF IInv, HoldType, Rollback, Go, StepOf, Release
<1>4. \A l \in Conn : work'[l] # Closed => work[l] # Closed /\ l # k
  BY <1>2 DEF IInv, HoldType
<1> QED
  BY <1>1, <1>3, <1>4, Leaves DEF Rollback, Holding

LEMMA HoldStep == IInv /\ [Next]_vars => IInv'
<1> SUFFICES ASSUME IInv, [Next]_vars
             PROVE  IInv'
  OBVIOUS
<1>1. ASSUME NEW c \in Caller, Start(c) \/ Step(c)
      PROVE  IInv'
  BY <1>1, OutsideStep, AcquireStep, BeginStep, StatementStep, CommitStep, RollbackStep DEF Step
<1>2. CASE UNCHANGED vars
  BY <1>2 DEF vars, IInv, RollsBack, HoldType, CallHolds, OwnerHolds, OpenInside, Pooled
<1> QED
  BY <1>1, <1>2 DEF Next

\* While no BEGIN and no ROLLBACK fails, a connection that no call in progress holds is free and has no
\* open transaction, but for the one connection that the calls on sqlite share.
THEOREM NoneLost ==
    ASSUME "begin" \notin Faults, "rollback" \notin Faults
    PROVE  Spec => []ConnectionsReturned
<1>1. IInv => ConnectionsReturned
  <2> SUFFICES ASSUME IInv, NEW k \in Conn, owner[k] = None \/ Ended(owner[k])
               PROVE  /\ owner[k] = None
                      /\ work[k] # Closed =>
                           ~Pooled /\ \E c \in Caller : call[c].conn = k /\ ~Ended(c)
    BY DEF ConnectionsReturned
  <2>1. owner[k] = None
    BY DEF IInv, OwnerHolds, Ended, Holding
  <2>2. ASSUME work[k] # Closed
        PROVE  ~Pooled /\ \E c \in Caller : call[c].conn = k /\ ~Ended(c)
    <3>1. PICK c \in Caller : call[c].conn = k /\ call[c].pc \in Inside
      BY <2>2 DEF IInv, OpenInside
    <3>2. Pooled => owner[k] = c
      BY <3>1 DEF IInv, CallHolds, Inside, Holding
    <3> QED
      BY <2>1, <3>1, <3>2, DialectAssumption DEF Ended, Inside
  <2> QED
    BY <2>1, <2>2
<1>2. IInv /\ [Next]_vars => IInv'
  BY HoldStep
<1>3. Init => IInv
  BY HoldInit DEF RollsBack
<1> QED
  BY <1>1, <1>2, <1>3, PTL DEF Spec

-----------------------------------------------------------------------------
(***************************************************************************)
(* The table changes by whole calls, and what a call reports is stored.    *)
(* The invariant says of each call what the transaction of its connection  *)
(* has written: nothing but the row of its document, once it is past its   *)
(* write.                                                                  *)
(***************************************************************************)
\* Calls on the one connection of sqlite follow each other, as on the command line.
Apart == SqliteShared => "sqlite" \notin Dialects

\* What a call has in hand fits the place where it stands.
CallFits(c) ==
    /\ call[c].pc \in Holding \cup {"acquire"} => call[c].op = "save" /\ call[c].id \in Id
    /\ call[c].pc = "once" => call[c].op \in {"load", "delete"} /\ call[c].id \in Id

\* Its transaction is open until COMMIT, and has written its own row or nothing; nothing
\* only if the row it had read was gone.
WorkFits(c) ==
    LET mine == work[call[c].conn]
    IN  /\ call[c].pc \in {"select", "write", "commit"} => mine # Closed
        /\ call[c].pc \in Inside /\ mine # Closed =>
             \A i \in Id : mine[i] # Untouched =>
               call[c].pc \in {"commit", "rollback"} /\ i = call[c].id /\ mine[i] \in Row /\ mine[i].doc = c
        /\ call[c].pc = "commit" /\ mine # Closed /\ mine[call[c].id] = Untouched => call[c].read # None

\* Two calls under way share no connection: on sqlite there is only one.
Alone == ~Pooled => \A c, d \in Caller : c # d => At(c, "idle") \/ Ended(c) \/ At(d, "idle") \/ Ended(d)

WriteInv ==
    /\ IInv /\ TypeOK /\ Alone
    /\ \A c \in Caller : CallFits(c) /\ WorkFits(c)

LEMMA WriteInit == RollsBack /\ Init => WriteInv
<1> SUFFICES ASSUME RollsBack, Init
             PROVE  WriteInv
  OBVIOUS
<1>1. \A c \in Caller : call[c] = Idle
  BY DEF Init
<1>2. TypeOK
  BY DEF Init, TypeOK, Idle
<1>3. Alone /\ \A c \in Caller : CallFits(c) /\ WorkFits(c)
  BY <1>1 DEF Alone, At, CallFits, WorkFits, Idle, Holding, Inside
<1> QED
  BY HoldInit, <1>2, <1>3 DEF WriteInv

\* The connections of calls in transactions are different.
LEMMA OwnConnections ==
    ASSUME WriteInv, NEW c \in Caller, NEW d \in Caller, c # d,
           call[c].pc \in Holding, call[d].pc \in Holding
    PROVE  call[c].conn # call[d].conn
<1>1. Pooled
  BY DEF WriteInv, Alone, At, Ended, Holding
<1> QED
  BY <1>1 DEF WriteInv, IInv, CallHolds

\* A connection that a call outside transactions uses has none open.
LEMMA NoneOpen ==
    ASSUME WriteInv, NEW c \in Caller, NEW k \in Usable, Pooled => owner[k] = None,
           call[c].pc \in {"once", "begin"}, call[c].pc = "begin" => call[c].conn = k /\ ~Pooled
    PROVE  work[k] = Closed
<1> SUFFICES ASSUME work[k] # Closed
             PROVE  FALSE
  OBVIOUS
<1>1. k \in Conn
  BY DialectAssumption DEF Usable
<1>2. PICK d \in Caller : call[d].conn = k /\ call[d].pc \in Inside
  BY <1>1 DEF WriteInv, IInv, OpenInside
<1>3. CASE Pooled
  BY <1>2, <1>3, DialectAssumption DEF WriteInv, IInv, CallHolds, Inside, Holding
<1>4. CASE ~Pooled
  BY <1>2, <1>4 DEF WriteInv, Alone, At, Ended, Inside
<1> QED
  BY <1>3, <1>4

\* A step of one call leaves what the others have in hand alone.
LEMMA OthersFit ==
    ASSUME WriteInv, NEW c \in Caller, StepOf(c),
           UNCHANGED work \/ (call[c].pc \in Holding /\
                               \A k \in Conn : k # call[c].conn => work'[k] = work[k])
    PROVE  \A d \in Caller \ {c} : CallFits(d)' /\ WorkFits(d)'
<1> TAKE d \in Caller \ {c}
<1>1. call'[d] = call[d] /\ CallFits(d) /\ WorkFits(d)
  BY DEF StepOf, WriteInv
<1>2. call[d].pc \in Inside => work'[call[d].conn] = work[call[d].conn]
  <2> SUFFICES ASSUME call[d].pc \in Inside, ~UNCHANGED work
               PROVE  work'[call[d].conn] = work[call[d].conn]
    OBVIOUS
  <2>1. call[d].pc \in Holding /\ call[d].conn \in Conn
    BY DEF WriteInv, IInv, CallHolds, Inside, Holding
  <2> QED
    BY <2>1, OwnConnections
<1>3. CallFits(d)'
  BY <1>1 DEF CallFits
<1>4. WorkFits(d)'
  BY <1>1, <1>2 DEF WorkFits, Inside
<1> QED
  BY <1>3, <1>4

\* Only a start brings a call under way.
LEMMA StillAlone ==
    ASSUME WriteInv, NEW c \in Caller, StepOf(c), ~At(c, "idle"), ~Ended(c)
    PROVE  Alone'
BY DEF WriteInv, Alone, At, Ended, StepOf, Pooled

\* The type of a call, and of one that takes something in hand.
Place == {"idle", "acquire", "begin", "select", "write", "commit", "rollback", "once", "done", "failed"}
Call == [op : {"none", "save", "load", "delete"}, id : Id \cup {None}, pc : Place,
         conn : Conn \cup {None}, read : Row \cup {None}]

LEMMA Handed ==
    ASSUME call \in [Caller -> Call], NEW c \in Caller, NEW pc \in Place
    PROVE  /\ \A conn \in Conn :
                [call EXCEPT ![c].pc = pc, ![c].conn = conn] \in [Caller -> Call]
           /\ \A read \in Row \cup {None} :
                [call EXCEPT ![c].pc = pc, ![c].read = read] \in [Caller -> Call]
           /\ \A op \in {"save", "load", "delete"}, id \in Id :
                [call EXCEPT ![c].op = op, ![c].id = id, ![c].pc = pc] \in [Caller -> Call]
<1>0. call[c] \in Call
  OBVIOUS
<1>1. \A r \in Call : [call EXCEPT ![c] = r] \in [Caller -> Call]
  OBVIOUS
<1>2. ASSUME NEW conn \in Conn
      PROVE  [call EXCEPT ![c].pc = pc, ![c].conn = conn] \in [Caller -> Call]
  <2> DEFINE r == [call[c] EXCEPT !.pc = pc, !.conn = conn]
  <2>1. r \in Call
    BY <1>0 DEF Call
  <2>2. [call EXCEPT ![c].pc = pc, ![c].conn = conn] = [call EXCEPT ![c] = r]
    OBVIOUS
  <2> QED
    BY <1>1, <2>1, <2>2
<1>3. ASSUME NEW read \in Row \cup {None}
      PROVE  [call EXCEPT ![c].pc = pc, ![c].read = read] \in [Caller -> Call]
  <2> DEFINE r == [call[c] EXCEPT !.pc = pc, !.read = read]
  <2>1. r \in Call
    BY <1>0 DEF Call
  <2>2. [call EXCEPT ![c].pc = pc, ![c].read = read] = [call EXCEPT ![c] = r]
    OBVIOUS
  <2> QED
    BY <1>1, <2>1, <2>2
<1>4. ASSUME NEW op \in {"save", "load", "delete"}, NEW id \in Id
      PROVE  [call EXCEPT ![c].op = op, ![c].id = id, ![c].pc = pc] \in [Caller -> Call]
  <2> DEFINE r == [call[c] EXCEPT !.op = op, !.id = id, !.pc = pc]
  <2>1. r \in Call
    BY <1>0 DEF Call
  <2>2. [call EXCEPT ![c].op = op, ![c].id = id, ![c].pc = pc] = [call EXCEPT ![c] = r]
    OBVIOUS
  <2> QED
    BY <1>1, <2>1, <2>2
<1> QED
  BY <1>2, <1>3, <1>4

LEMMA Typed ==
    TypeOK <=> /\ dialect \in Dialects
               /\ stored \in [Id -> Row \cup {None}]
               /\ work \in [Conn -> {Closed} \cup [Id -> Row \cup {None, Untouched}]]
               /\ owner \in [Conn -> Caller \cup {None}]
               /\ call \in [Caller -> Call]
BY DEF TypeOK, Call, Place

LEMMA TypesKept ==
    ASSUME WriteInv, UNCHANGED dialect,
           stored' \in [Id -> Row \cup {None}],
           work' \in [Conn -> {Closed} \cup [Id -> Row \cup {None, Untouched}]],
           owner' \in [Conn -> Caller \cup {None}],
           call' \in [Caller -> Call]
    PROVE  TypeOK'
BY DEF WriteInv, TypeOK, Call, Place

\* A call that moves on and leaves its hands as they are.
LEMMA GoesOn ==
    ASSUME TypeOK, NEW c \in Caller, NEW pc, Go(c, pc)
    PROVE  /\ call'[c].pc = pc /\ call'[c].op = call[c].op /\ call'[c].id = call[c].id
           /\ call'[c].conn = call[c].conn /\ call'[c].read = call[c].read
           /\ \A d \in Caller \ {c} : call'[d] = call[d]
           /\ pc \in {"begin", "select", "write", "commit", "rollback", "done", "failed"} =>
                call' \in [Caller -> Call]
BY DEF TypeOK, Go, Call, Place

\* What statements see has the type of what is stored.
LEMMA Seen ==
    ASSUME TypeOK, NEW k \in Conn, NEW id \in Id
    PROVE  View(k, id) \in Row \cup {None}
BY DEF TypeOK, View
-----------------------------------------------------------------------------
LEMMA EachStep ==
    ASSUME WriteInv, NEW c \in Caller, Start(c) \/ Step(c)
    PROVE  IInv' /\ StepOf(c)
<1>1. IInv'
  <2>1. Next
    BY DEF Next
  <2> QED
    BY <2>1, HoldStep DEF WriteInv
<1>2. UNCHANGED dialect /\ \A d \in Caller \ {c} : call'[d] = call[d]
  <2>1. DOMAIN call = Caller
    BY DEF WriteInv, IInv, HoldType
  <2>2. CASE Start(c) \/ Once(c) \/ Acquire(c) \/ Begin(c)
    BY <2>1, <2>2 DEF Start, Once, Acquire, Begin, Go
  <2>3. CASE Select(c) \/ WriteRow(c) \/ StatementFails(c)
    BY <2>1, <2>3 DEF Select, WriteRow, StatementFails, Go
  <2>4. CASE Commit(c) \/ Rollback(c)
    BY <2>1, <2>4 DEF Commit, Rollback, Go
  <2> QED
    BY <2>2, <2>3, <2>4 DEF Step
<1> QED
  BY <1>1, <1>2 DEF IInv, RollsBack, StepOf

\* The invariant after a step of one call.
LEMMA StepFits ==
    ASSUME WriteInv, NEW c \in Caller, StepOf(c), IInv', TypeOK', ~At(c, "idle"), ~Ended(c),
           UNCHANGED work \/ (call[c].pc \in Holding /\
                               \A k \in Conn : k # call[c].conn => work'[k] = work[k]),
           CallFits(c)', WorkFits(c)'
    PROVE  WriteInv'
BY OthersFit, StillAlone DEF WriteInv

\* A step that leaves the table alone and reports nothing.
LEMMA Quiet ==
    ASSUME NEW c \in Caller, StepOf(c), UNCHANGED stored,
           call'[c].pc = "done" => call[c].op = "load"
    PROVE  OneCall /\ Acknowledges
<1>1. Docs' = Docs
  BY DEF Docs, Doc
<1>2. Acknowledges
  BY DEF Acknowledges, StepOf, Ended
<1> QED
  BY <1>1, <1>2 DEF OneCall

LEMMA StartFits ==
    ASSUME Apart, WriteInv, NEW c \in Caller, Start(c)
    PROVE  WriteInv' /\ OneCall /\ Acknowledges
<1>1. IInv' /\ StepOf(c)
  BY EachStep DEF Step
<1>2. PICK op \in {"save", "load", "delete"}, id \in Id :
         call' = [call EXCEPT ![c].op = op, ![c].id = id,
                              ![c].pc = IF op = "save" THEN "acquire" ELSE "once"]
  BY DEF Start
<1>3. /\ call'[c].op = op /\ call'[c].id = id
      /\ call'[c].pc = IF op = "save" THEN "acquire" ELSE "once"
      /\ UNCHANGED <<dialect, stored, work, owner>> /\ At(c, "idle")
  BY <1>2 DEF WriteInv, TypeOK, Start
<1>4. TypeOK'
  <2>1. call \in [Caller -> Call] /\ "acquire" \in Place /\ "once" \in Place
    BY Typed DEF WriteInv, Place
  <2>2. call' \in [Caller -> Call]
    BY <1>2, <2>1, Handed
  <2> QED
    BY <1>3, <2>2, Typed DEF WriteInv, Call, Place, TypeOK
<1>5. CallFits(c)' /\ WorkFits(c)'
  BY <1>3 DEF CallFits, WorkFits, Holding, Inside
<1>6. \A d \in Caller \ {c} : CallFits(d)' /\ WorkFits(d)'
  BY <1>1, <1>3, OthersFit
<1>7. Alone'
  <2> SUFFICES ASSUME ~Pooled
               PROVE  \A d \in Caller \ {c} : At(d, "idle") \/ Ended(d)
    BY <1>1, <1>3 DEF Alone, StepOf, Pooled, At, Ended, WriteInv
  <2>1. dialect \in Dialects /\ dialect = "sqlite"
    BY DEF WriteInv, TypeOK, Pooled
  <2> QED
    BY <2>1 DEF Apart, Start, MayStart
<1>8. OneCall /\ Acknowledges
  BY <1>1, <1>3, Quiet
<1> QED
  BY <1>1, <1>4, <1>5, <1>6, <1>7, <1>8 DEF WriteInv

\* The one statement of a load or a delete goes to the table itself.
LEMMA OnceFits ==
    ASSUME WriteInv, NEW c \in Caller, Once(c)
    PROVE  WriteInv' /\ OneCall /\ Acknowledges
<1>1. IInv' /\ StepOf(c)
  BY EachStep DEF Step
<1>2. /\ call[c].pc = "once" /\ ~At(c, "idle") /\ ~Ended(c)
      /\ call[c].op \in {"load", "delete"} /\ call[c].id \in Id /\ UNCHANGED owner
  BY DEF Once, At, Ended, WriteInv, CallFits
<1> DEFINE id == call[c].id
<1>3. PICK k \in Usable :
         /\ Pooled => owner[k] = None
         /\ \/ /\ "statement" \in Faults
               /\ Go(c, "failed") /\ UNCHANGED <<stored, work>>
            \/ /\ call[c].op = "load" \/ View(k, id) = None
               /\ call' = [call EXCEPT ![c].pc = IF View(k, id) = None THEN "failed" ELSE "done",
                                       ![c].read = View(k, id)]
               /\ UNCHANGED <<stored, work>>
            \/ /\ call[c].op = "delete" /\ View(k, id) # None /\ ~Locked(c, id)
               /\ Put(k, id, None)
               /\ Go(c, "done")
  BY DEF Once
<1>4. work[k] = Closed /\ k \in Conn
  BY <1>2, <1>3, NoneOpen, DialectAssumption DEF Usable
<1>5. View(k, id) \in Row \cup {None}
  BY <1>2, <1>4, Seen DEF WriteInv
<1>6. CASE Go(c, "failed") /\ UNCHANGED <<stored, work>>
  <2>0. call'[c].pc = "failed" /\ call' \in [Caller -> Call]
    BY <1>6, GoesOn DEF WriteInv
  <2>1. call'[c].pc = "failed" /\ TypeOK'
    BY <1>1, <1>2, <1>6, <2>0, Typed, TypesKept DEF WriteInv, StepOf
  <2>2. CallFits(c)' /\ WorkFits(c)'
    BY <2>1 DEF CallFits, WorkFits, Holding, Inside
  <2> QED
    BY <1>1, <1>2, <1>6, <2>1, <2>2, StepFits, Quiet
<1>7. CASE /\ call[c].op = "load" \/ View(k, id) = None
           /\ call' = [call EXCEPT ![c].pc = IF View(k, id) = None THEN "failed" ELSE "done",
                                   ![c].read = View(k, id)]
           /\ UNCHANGED <<stored, work>>
  <2>1. call'[c].pc = IF View(k, id) = None THEN "failed" ELSE "done"
    BY <1>7 DEF WriteInv, TypeOK
  <2>2. TypeOK'
    <3>1. call \in [Caller -> Call] /\ "failed" \in Place /\ "done" \in Place
      BY Typed DEF WriteInv, Place
    <3>2. call' \in [Caller -> Call]
      BY <1>5, <1>7, <3>1, Handed
    <3> QED
      BY <1>1, <1>2, <1>7, <3>2 DEF WriteInv, TypeOK, StepOf, Call, Place
  <2>3. CallFits(c)' /\ WorkFits(c)'
    BY <2>1 DEF CallFits, WorkFits, Holding, Inside
  <2>4. call'[c].pc = "done" => call[c].op = "load"
    BY <1>7, <2>1
  <2> QED
    BY <1>1, <1>2, <1>7, <2>2, <2>3, <2>4, StepFits, Quiet
<1>8. CASE call[c].op = "delete" /\ Put(k, id, None) /\ Go(c, "done")
  <2>1. stored' = [stored EXCEPT ![id] = None] /\ UNCHANGED work
    BY <1>4, <1>8 DEF Put
  <2>0. call'[c].pc = "done" /\ call' \in [Caller -> Call]
    BY <1>8, GoesOn DEF WriteInv
  <2>2. call'[c].pc = "done" /\ TypeOK'
    BY <1>1, <1>2, <2>0, <2>1, Typed, TypesKept DEF WriteInv, StepOf
  <2>3. CallFits(c)' /\ WorkFits(c)'
    BY <2>2 DEF CallFits, WorkFits, Holding, Inside
  <2>4. Docs' = [Docs EXCEPT ![id] = None]
    BY <1>2, <2>1 DEF Docs, Doc, WriteInv, TypeOK
  <2>5. OneCall
    BY <1>2, <1>8, <2>2, <2>4 DEF OneCall
  <2>6. Acknowledges
    BY <1>1, <1>2, <1>8, <2>4 DEF Acknowledges, StepOf, Ended, Docs
  <2> QED
    BY <1>1, <1>2, <2>1, <2>2, <2>3, <2>5, <2>6, StepFits
<1> QED
  BY <1>3, <1>6, <1>7, <1>8

\* A call takes a connection and opens its transaction, which has written nothing.
LEMMA AcquireFits ==
    ASSUME WriteInv, NEW c \in Caller, Acquire(c)
    PROVE  WriteInv' /\ OneCall /\ Acknowledges
<1>1. IInv' /\ StepOf(c)
  BY EachStep DEF Step
<1>2. PICK k \in Usable :
         /\ owner' = IF Pooled THEN [owner EXCEPT ![k] = c] ELSE owner
         /\ call' = [call EXCEPT ![c].pc = "begin", ![c].conn = k]
  BY DEF Acquire
<1>3. /\ call[c].pc = "acquire" /\ ~At(c, "idle") /\ ~Ended(c) /\ k \in Conn
      /\ UNCHANGED <<dialect, stored, work>>
  BY DialectAssumption DEF Acquire, At, Ended, Usable
<1>4. call'[c].pc = "begin" /\ call'[c].op = call[c].op /\ call'[c].id = call[c].id
  BY <1>2 DEF WriteInv, TypeOK
<1>5. TypeOK'
  <2>1. call \in [Caller -> Call] /\ "begin" \in Place
    BY Typed DEF WriteInv, Place
  <2>2. call' \in [Caller -> Call]
    BY <1>2, <1>3, <2>1, Handed
  <2> QED
    BY <1>2, <1>3, <2>2 DEF WriteInv, TypeOK, Call, Place
<1>6. CallFits(c)' /\ WorkFits(c)'
  BY <1>3, <1>4 DEF WriteInv, CallFits, WorkFits, Holding, Inside
<1> QED
  BY <1>1, <1>3, <1>4, <1>5, <1>6, StepFits, Quiet

LEMMA BeginFits ==
    ASSUME WriteInv, NEW c \in Caller, Begin(c)
    PROVE  WriteInv' /\ OneCall /\ Acknowledges
<1> DEFINE k == call[c].conn
<1>1. IInv' /\ StepOf(c)
  BY EachStep DEF Step
<1>2. /\ call[c].pc = "begin" /\ call[c].pc \in Holding /\ ~At(c, "idle") /\ ~Ended(c) /\ k \in Conn
      /\ call[c].op = "save" /\ call[c].id \in Id /\ UNCHANGED dialect
  BY DEF Begin, At, Ended, WriteInv, IInv, CallHolds, CallFits, Holding
<1>0. work[k] # Closed => dialect \notin {"mysql", "postgres"}
  BY <1>2, OpenShared DEF Pooled, WriteInv
<1>5. UNCHANGED stored
  BY <1>0 DEF Begin
<1>3. CASE work' = [work EXCEPT ![k] = NoWork] /\ Go(c, "select") /\ UNCHANGED owner
  <2>1. /\ call'[c].pc = "select" /\ call'[c].op = "save" /\ call'[c].id = call[c].id /\ call'[c].conn = k
        /\ work'[k] = NoWork /\ \A l \in Conn : l # k => work'[l] = work[l]
    BY <1>2, <1>3, GoesOn DEF WriteInv, TypeOK
  <2>2. NoWork \in [Id -> Row \cup {None, Untouched}] /\ NoWork # Closed
    BY ValuesApart DEF NoWork
  <2>3. TypeOK'
    <3>1. call' \in [Caller -> Call]
      BY <1>3, GoesOn DEF WriteInv
    <3> QED
      BY <1>2, <1>3, <1>5, <2>2, <3>1, Typed, TypesKept DEF WriteInv
  <2>4. CallFits(c)' /\ WorkFits(c)'
    BY <1>2, <2>1, <2>2 DEF CallFits, WorkFits, NoWork
  <2> QED
    BY <1>1, <1>2, <1>5, <2>1, <2>3, <2>4, StepFits, Quiet
<1>4. CASE /\ Go(c, "failed") /\ UNCHANGED work
           /\ owner' = IF dialect \in {"postgres", "mysql"} THEN owner ELSE Release(c)
  <2>1. call'[c].pc = "failed"
    BY <1>4, GoesOn DEF WriteInv
  <2>2. TypeOK'
    <3>1. call' \in [Caller -> Call]
      BY <1>4, GoesOn DEF WriteInv
    <3> QED
      BY <1>2, <1>4, <1>5, <3>1, Typed, TypesKept DEF WriteInv, Release
  <2>3. CallFits(c)' /\ WorkFits(c)'
    BY <2>1 DEF CallFits, WorkFits, Holding, Inside
  <2> QED
    BY <1>1, <1>2, <1>4, <1>5, <2>1, <2>2, <2>3, StepFits, Quiet
<1> QED
  BY <1>0, <1>3, <1>4 DEF Begin

\* A call reads, or a statement of it fails: nothing is written.
LEMMA SelectFits ==
    ASSUME WriteInv, NEW c \in Caller, Select(c) \/ StatementFails(c)
    PROVE  WriteInv' /\ OneCall /\ Acknowledges
<1> DEFINE k == call[c].conn
<1>1. IInv' /\ StepOf(c)
  BY EachStep DEF Step
<1>2. /\ call[c].pc \in {"select", "write"} /\ ~At(c, "idle") /\ ~Ended(c) /\ k \in Conn
      /\ call[c].op = "save" /\ call[c].id \in Id /\ UNCHANGED <<dialect, stored, work, owner>>
      /\ work[k] # Closed /\ \A i \in Id : work[k][i] = Untouched
  BY DEF Select, StatementFails, At, Ended, WriteInv, IInv, CallHolds, CallFits, WorkFits, Holding, Inside
<1>3. View(k, call[c].id) \in Row \cup {None}
  BY <1>2, Seen DEF WriteInv
<1>4. /\ call'[c].pc \in {"write", "rollback"} /\ call'[c].op = "save"
      /\ call'[c].id = call[c].id /\ call'[c].conn = k
  <2>1. CASE Select(c)
    BY <1>2, <2>1 DEF Select, WriteInv, TypeOK
  <2>2. CASE StatementFails(c)
    BY <1>2, <2>2, GoesOn DEF StatementFails, WriteInv
  <2> QED
    BY <2>1, <2>2
<1>5. TypeOK'
  <2>1. CASE Select(c)
    <3>1. call \in [Caller -> Call] /\ "write" \in Place
      BY Typed DEF WriteInv, Place
    <3>2. call' \in [Caller -> Call]
      BY <1>2, <1>3, <2>1, <3>1, Handed DEF Select
    <3> QED
      BY <1>2, <3>2 DEF WriteInv, TypeOK, Call, Place
  <2>2. CASE StatementFails(c)
    <3>1. call' \in [Caller -> Call]
      BY <2>2, GoesOn DEF StatementFails, WriteInv
    <3> QED
      BY <1>2, <3>1, Typed, TypesKept DEF WriteInv
  <2> QED
    BY <2>1, <2>2
<1>6. CallFits(c)' /\ WorkFits(c)'
  BY <1>2, <1>4 DEF CallFits, WorkFits
<1> QED
  BY <1>1, <1>2, <1>4, <1>5, <1>6, StepFits, Quiet

\* The write goes into the call's own transaction, to the row of its document.
LEMMA WriteFits ==
    ASSUME WriteInv, NEW c \in Caller, WriteRow(c)
    PROVE  WriteInv' /\ OneCall /\ Acknowledges
<1> DEFINE k == call[c].conn
           id == call[c].id
           read == call[c].read
<1>1. IInv' /\ StepOf(c)
  BY EachStep DEF Step
<1>2. /\ call[c].pc = "write" /\ call[c].pc \in Holding /\ ~At(c, "idle") /\ ~Ended(c) /\ k \in Conn
      /\ call[c].op = "save" /\ id \in Id /\ UNCHANGED <<dialect, owner>>
      /\ work[k] # Closed /\ \A i \in Id : work[k][i] = Untouched
  BY DEF WriteRow, At, Ended, WriteInv, IInv, CallHolds, CallFits, WorkFits, Holding, Inside
<1>3. /\ work[k] \in [Id -> Row \cup {None, Untouched}] /\ DOMAIN work = Conn
      /\ read \in Row \cup {None}
  BY <1>2, Typed DEF WriteInv, Call
<1>4. ASSUME NEW pc \in {"commit", "rollback"}, Go(c, pc)
      PROVE  /\ call'[c].pc = pc /\ call'[c].op = "save" /\ call'[c].id = id /\ call'[c].conn = k
             /\ call'[c].read = read /\ call' \in [Caller -> Call]
  BY <1>2, <1>4, GoesOn DEF WriteInv
<1>5. ASSUME NEW row \in Row, row.doc = c, Put(k, id, row), Go(c, "commit")
      PROVE  WriteInv' /\ OneCall /\ Acknowledges
  <2>1. work' = [work EXCEPT ![k][id] = row] /\ UNCHANGED stored
    BY <1>2, <1>5 DEF Put
  <2>2. /\ work'[k] = [work[k] EXCEPT ![id] = row]
        /\ \A l \in Conn : l # k => work'[l] = work[l]
    BY <1>2, <1>3, <2>1
  <2>0. work'[k] \in [Id -> Row \cup {None, Untouched}]
    BY <1>3, <2>2
  <2>3. work'[k] \in [Id -> Row \cup {None, Untouched}] /\ work'[k] # Closed
    BY <2>0, ValuesApart
  <2>4. TypeOK'
    <3>1. work' \in [Conn -> {Closed} \cup [Id -> Row \cup {None, Untouched}]]
      BY <1>2, <2>1, <2>2, <2>3, Typed DEF WriteInv
    <3> QED
      BY <1>2, <1>4, <1>5, <2>1, <3>1, Typed, TypesKept DEF WriteInv
  <2>5. \A i \in Id : work'[k][i] = IF i = id THEN row ELSE Untouched
    BY <1>2, <1>3, <2>2
  <2>6. row # Untouched
    BY ValuesApart
  <2>7. CallFits(c)' /\ WorkFits(c)'
    BY <1>2, <1>4, <1>5, <2>3, <2>5, <2>6 DEF CallFits, WorkFits
  <2>8. call'[c].pc # "done"
    BY <1>4, <1>5
  <2> QED
    BY <1>1, <1>2, <2>1, <2>2, <2>4, <2>7, <2>8, StepFits, Quiet
<1>6. ASSUME NEW pc \in {"commit", "rollback"}, Go(c, pc), pc = "commit" => read # None,
             UNCHANGED <<stored, work>>
      PROVE  WriteInv' /\ OneCall /\ Acknowledges
  <2>1. TypeOK'
    BY <1>2, <1>4, <1>6, Typed, TypesKept DEF WriteInv
  <2>2. CallFits(c)' /\ WorkFits(c)'
    BY <1>2, <1>4, <1>6 DEF CallFits, WorkFits
  <2>3. call'[c].pc # "done"
    BY <1>4, <1>6
  <2> QED
    BY <1>1, <1>2, <1>6, <2>1, <2>2, <2>3, StepFits, Quiet
<1>7. \/ /\ read # None
         /\ Put(k, id, [doc |-> c, version |-> read.version + 1]) /\ Go(c, "commit")
      \/ read # None /\ Go(c, "commit") /\ UNCHANGED <<stored, work>>
      \/ Put(k, id, [doc |-> c, version |-> 1]) /\ Go(c, "commit")
      \/ Go(c, "rollback") /\ UNCHANGED <<stored, work>>
  BY DEF WriteRow
<1>8. /\ read # None => [doc |-> c, version |-> read.version + 1] \in Row
      /\ [doc |-> c, version |-> 1] \in Row
  BY <1>3 DEF Row
<1> QED
  BY <1>5, <1>6, <1>7, <1>8

\* COMMIT brings into the table what the call has written, and nothing else.
LEMMA CommitFits ==
    ASSUME WriteInv, NEW c \in Caller, Commit(c)
    PROVE  WriteInv' /\ OneCall /\ Acknowledges
<1>1. IInv' /\ StepOf(c)
  BY EachStep DEF Step
<1>0. PICK k \in Conn, id \in Id : k = call[c].conn /\ id = call[c].id
  BY DEF Commit, At, WriteInv, IInv, CallHolds, CallFits, Holding
<1>2. /\ call[c].pc = "commit" /\ call[c].pc \in Holding /\ ~At(c, "idle") /\ ~Ended(c)
      /\ call[c].conn = k /\ call[c].op = "save" /\ call[c].id = id /\ UNCHANGED dialect
      /\ work[k] # Closed /\ work[k] \in [Id -> Row \cup {None, Untouched}] /\ DOMAIN work = Conn
  BY <1>0, Typed DEF Commit, At, Ended, WriteInv, CallFits, WorkFits, Holding
<1>3. \A i \in Id : work[k][i] # Untouched => i = id /\ work[k][i] \in Row /\ work[k][i].doc = c
  BY <1>2 DEF WriteInv, WorkFits, Inside
<1>4. work[k][id] = Untouched => call[c].read # None
  BY <1>2 DEF WriteInv, WorkFits
<1>5. ASSUME NEW pc \in {"done", "rollback"}, Go(c, pc)
      PROVE  /\ call'[c].pc = pc /\ call'[c].op = "save" /\ call'[c].id = id /\ call'[c].conn = k
             /\ call' \in [Caller -> Call]
  BY <1>2, <1>5, GoesOn DEF WriteInv
<1>6. owner \in [Conn -> Caller \cup {None}] /\ Release(c) \in [Conn -> Caller \cup {None}]
  BY Typed DEF WriteInv, Release
<1>7. ASSUME NEW pc \in {"done", "rollback"}, Go(c, pc), owner' \in [Conn -> Caller \cup {None}],
             stored' = Apply(k), work' = [work EXCEPT ![k] = Closed]
      PROVE  WriteInv' /\ OneCall /\ Acknowledges
  <2>1. \A i \in Id : stored'[i] = IF work[k][i] = Untouched THEN stored[i] ELSE work[k][i]
    BY <1>2, <1>7 DEF Apply, View
  <2>2. stored' \in [Id -> Row \cup {None}]
    BY <1>2, <1>7, Seen DEF Apply, WriteInv
  <2>3. TypeOK'
    <3>1. work' \in [Conn -> {Closed} \cup [Id -> Row \cup {None, Untouched}]]
      BY <1>7, Typed DEF WriteInv
    <3> QED
      BY <1>2, <1>5, <1>7, <2>2, <3>1, TypesKept
  <2>4. work'[k] = Closed /\ \A l \in Conn : l # k => work'[l] = work[l]
    BY <1>2, <1>7
  <2>5. CallFits(c)' /\ WorkFits(c)'
    BY <1>2, <1>5, <1>7, <2>4 DEF CallFits, WorkFits, Holding, Inside
  <2>6. WriteInv'
    BY <1>1, <1>2, <2>3, <2>4, <2>5, StepFits
  <2>7. Docs' = IF work[k][id] = Untouched THEN Docs ELSE [Docs EXCEPT ![id] = c]
    <3>1. \A i \in Id : i # id => Doc(i)' = Doc(i)
      BY <1>3, <2>1 DEF Doc
    <3>2. work[k][id] # Untouched => Doc(id)' = c
      <4>1. \A r \in Row : r # None
        BY ValuesApart
      <4> QED
        BY <1>2, <1>3, <2>1, <4>1 DEF Doc
    <3>3. work[k][id] = Untouched => Doc(id)' = Doc(id)
      BY <1>2, <2>1 DEF Doc
    <3>4. CASE work[k][id] = Untouched
      BY <3>1, <3>3, <3>4 DEF Docs
    <3>5. CASE work[k][id] # Untouched
      BY <3>1, <3>2, <3>5 DEF Docs
    <3> QED
      BY <3>4, <3>5
  <2>8. OneCall
    BY <1>2, <2>7 DEF OneCall
  <2>9. Acknowledges
    <3>1. work[k][id] # Untouched => Docs'[id] = c
      BY <1>2, <2>7 DEF Docs
    <3> QED
      BY <1>1, <1>2, <1>4, <3>1 DEF Acknowledges, StepOf, Ended
  <2> QED
    BY <2>6, <2>8, <2>9
<1>8. ASSUME Go(c, "rollback"), UNCHANGED <<stored, work, owner>>
      PROVE  WriteInv' /\ OneCall /\ Acknowledges
  <2>1. TypeOK'
    BY <1>2, <1>5, <1>8, Typed, TypesKept DEF WriteInv
  <2>2. CallFits(c)' /\ WorkFits(c)'
    BY <1>2, <1>3, <1>5, <1>8 DEF CallFits, WorkFits
  <2>3. call'[c].pc # "done"
    BY <1>5, <1>8
  <2> QED
    BY <1>1, <1>2, <1>8, <2>1, <2>2, <2>3, StepFits, Quiet
<1> QED
  BY <1>0, <1>6, <1>7, <1>8 DEF Commit

\* ROLLBACK closes the call's own transaction, so nobody else's work is undone.
LEMMA RollbackFits ==
    ASSUME WriteInv, NEW c \in Caller, Rollback(c)
    PROVE  WriteInv' /\ OneCall /\ Acknowledges
<1> DEFINE k == call[c].conn
<1>1. IInv' /\ StepOf(c)
  BY EachStep DEF Step
<1>2. /\ call[c].pc \in Holding /\ ~At(c, "idle") /\ ~Ended(c) /\ k \in Conn
      /\ work' = [work EXCEPT ![k] = Closed] /\ owner' = Release(c) /\ Go(c, "failed")
      /\ UNCHANGED <<dialect, stored>>
  BY DEF Rollback, At, Ended, WriteInv, IInv, RollsBack, CallHolds, Holding
<1>3. call'[c].pc = "failed" /\ call' \in [Caller -> Call]
  BY <1>2, GoesOn DEF WriteInv
<1>4. TypeOK'
  BY <1>2, <1>3, Typed, TypesKept DEF WriteInv, Release
<1>5. \A l \in Conn : l # k => work'[l] = work[l]
  BY <1>2, Typed DEF WriteInv
<1>6. CallFits(c)' /\ WorkFits(c)'
  BY <1>3 DEF CallFits, WorkFits, Holding, Inside
<1> QED
  BY <1>1, <1>2, <1>3, <1>4, <1>5, <1>6, StepFits, Quiet

LEMMA WriteStep == Apart /\ WriteInv /\ [Next]_vars => WriteInv' /\ [OneCall /\ Acknowledges]_vars
<1> SUFFICES ASSUME Apart, WriteInv, [Next]_vars
             PROVE  WriteInv' /\ [OneCall /\ Acknowledges]_vars
  OBVIOUS
<1>1. ASSUME NEW c \in Caller, Start(c) \/ Step(c)
      PROVE  WriteInv' /\ OneCall /\ Acknowledges
  BY <1>1, StartFits, OnceFits, AcquireFits, BeginFits, SelectFits, WriteFits, CommitFits, RollbackFits
     DEF Step
<1>2. ASSUME UNCHANGED vars
      PROVE  WriteInv'
  <2>1. IInv'
    BY <1>2, HoldStep DEF WriteInv
  <2> QED
    BY <1>2, <2>1 DEF vars, WriteInv, TypeOK, Alone, CallFits, WorkFits, Pooled, At, Ended
<1> QED
  BY <1>1, <1>2 DEF Next

\* The documents of the table change by one whole save or delete at a time, of a call under
\* way, and a call that reports success has been stored, whatever statement, COMMIT or
\* answer fails and however calls overlap on a pool (spec-stores/sql.ts, transaction of
\* sql/drivers).
THEOREM WholeCalls == Apart /\ RollsBack => (Spec => OneCallAtATime /\ AcknowledgedIsStored)
<1> SUFFICES ASSUME Apart, RollsBack
             PROVE  Spec => OneCallAtATime /\ AcknowledgedIsStored
  OBVIOUS
<1>1. WriteInv /\ [Next]_vars => WriteInv'
  BY WriteStep
<1>2. WriteInv /\ [Next]_vars => [OneCall]_vars
  BY WriteStep
<1>3. WriteInv /\ [Next]_vars => [Acknowledges]_vars
  BY WriteStep
<1>4. Init => WriteInv
  BY WriteInit
<1> QED
  BY <1>1, <1>2, <1>3, <1>4, PTL DEF Spec, OneCallAtATime, AcknowledgedIsStored
-----------------------------------------------------------------------------
(* The routes of an endpoint *)

RequestFields == {"op", "id", "body", "page", "size", "left", "rows", "total", "sum", "status", "quiet", "wrote"}

\* The types of what decides who may still write and what was answered.
RequestType ==
    /\ DOMAIN request = Client
    /\ \A c \in Client :
         /\ DOMAIN request[c] = RequestFields
         /\ request[c].status \in Nat
         /\ request[c].quiet \in BOOLEAN
         /\ request[c].wrote \in BOOLEAN

\* The primary key is none of the columns an update may set.
KeyFixed == "id" \notin Updatable

\* What a column may hold.
Held(k) ==
    CASE k = "id" -> Api!RowId
      [] k = "plant" -> Plant \cup {Null}
      [] k = "note" -> Note \cup {Null}
      [] k = "by" -> Client \cup {Null}

\* A row is kept under its key, which no update changes.
RowsKeyed ==
    /\ table \in [Api!RowId -> Api!Row \cup {Null}]
    /\ \A i \in Api!RowId : table[i] # Null /\ KeyFixed => table[i].id = i

Rows == {i \in Api!RowId : table[i] # Null}

\* What a list has found so far is about one state of the table, as long as nobody writes.
Agrees(c) ==
    LET r == request[c] IN
    /\ "data" \notin r.left => r.rows = Api!Page(Api!Visible(c), r.page, r.size)
    /\ "count" \notin r.left => r.total = Api!Cardinality(Api!Visible(c))
    /\ r.sum = -1 \/ (Api!Unscoped(c) /\ r.sum = Api!Cardinality(Rows))
ListFits(c) ==
    LET r == request[c] IN
    r.op = "list" =>
        /\ r.page \in {0, 1} /\ r.size \in Nat \ {0} /\ r.size <= MaxPageSize
        /\ r.left \subseteq {"data", "count", "totals"} /\ ~r.wrote
        /\ r.status # 0 => r.left = {}
        /\ r.quiet /\ r.status \in {0, 200} => Agrees(c)

\* The fields a write brings, before it is sent.
Brings(c, allowed) == \E body \in Api!Body : request[c].body = Api!WithAudit(c, Api!FilterFields(body, allowed))

\* What is left of a write, what it brings to the database and what it has been told.  The
\* row that is to be read again is there if it was written and nobody wrote since.
RequestWrites(c) ==
    LET r == request[c] IN
    r.op # "list" =>
        /\ r.left \subseteq {"exec", "reload"} /\ (Api!Returning => "reload" \notin r.left)
        /\ r.left # {} => r.status = 0 /\ r.id \in Api!RowId
        /\ "exec" \in r.left => ~r.wrote
        /\ "reload" \in r.left =>
             /\ r.op \in {"create", "update"} /\ (r.op = "create" => r.wrote)
             /\ r.quiet => IF r.wrote THEN table[r.id] # Null ELSE r.id \notin Api!Visible(c)
        /\ r.op = "create" /\ "exec" \in r.left => Brings(c, Insertable)
        /\ r.op = "update" /\ "exec" \in r.left => Brings(c, Updatable)

\* What a client is told of its write is what became of it (WriteTold).
ToldSo(c) ==
    LET r == request[c] IN
    (r.op \in {"create", "update", "delete"} /\ r.status \notin {0, 500} /\ (Api!Returning \/ r.quiet)) =>
        /\ r.status < 400 => r.wrote
        /\ r.status >= 400 /\ r.wrote =>
             ~Api!Returning /\ r.op = "update" /\ table[r.id] # Null /\ ~Api!InScope(c, table[r.id])

ApiInv == dialect \in Databases /\ RequestType /\ RowsKeyed /\ \A c \in Client : ListFits(c) /\ RequestWrites(c) /\ ToldSo(c)
-----------------------------------------------------------------------------
LEMMA Keys == Api!Column = {"id", "plant", "note", "by"}
BY DEF Api!Column, Api!ColumnSeq, Api!ToSet

\* A row by what each of its columns may hold.
LEMMA Columnwise ==
    /\ \A row \in Api!Row : DOMAIN row = Api!Column /\ \A k \in Api!Column : row[k] \in Held(k)
    /\ \A row : row = [k \in Api!Column |-> row[k]] /\ (\A k \in Api!Column : row[k] \in Held(k)) => row \in Api!Row
    /\ \A k \in Api!Column \ {"id"} : Null \in Held(k)
    /\ Held("id") = Api!RowId
BY Keys DEF Held, Api!Row

\* The instance counts as its environment does.
LEMMA SameCount == \A S : Api!Cardinality(S) = Cardinality(S)
BY Zenon DEF Cardinality, Api!Cardinality

\* Whatever is visible is counted.
LEMMA Counted ==
    ASSUME NEW c \in Client
    PROVE  Api!Cardinality(Api!Visible(c)) \in Nat /\ (Api!Unscoped(c) => Api!Visible(c) = Rows)
<1>1. IsFiniteSet(Api!RowId)
  BY ApiAssumption, FS_Interval DEF Api!RowId
<1>2. Api!Visible(c) \in SUBSET Api!RowId
  BY DEF Api!Visible
<1>3. IsFiniteSet(Api!Visible(c))
  BY <1>1, <1>2, FS_Subset
<1> QED
  BY <1>3, FS_CardinalityType, SameCount DEF Api!Visible, Api!InScope, Rows

\* A page that starts before the end of the rows has a row.
LEMMA PageHasRows ==
    ASSUME NEW ids, Api!Cardinality(ids) \in Nat, NEW page \in {0, 1}, NEW size \in Nat \ {0},
           page * size < Api!Cardinality(ids)
    PROVE  Api!Page(ids, page, size) # <<>>
<1> DEFINE last == Api!Min({(page + 1) * size, Api!Cardinality(ids)})
<1>1. (page + 1) * size \in Nat /\ page * size \in Nat /\ page * size + 1 <= (page + 1) * size
  <2>1. CASE page = 0
    BY <2>1
  <2>2. CASE page = 1
    BY <2>2
  <2> QED
    BY <2>1, <2>2
<1>2. last \in {(page + 1) * size, Api!Cardinality(ids)}
  <2>1. \E x \in {(page + 1) * size, Api!Cardinality(ids)} : \A y \in {(page + 1) * size, Api!Cardinality(ids)} : x <= y
    BY <1>1
  <2> QED
    BY <2>1 DEF Api!Min
<1>3. last \in Int /\ page * size + 1 <= last
  BY <1>1, <1>2
<1> HIDE DEF last
<1>4. Len(SubSeq(Api!Ordered(ids), page * size + 1, last)) # 0
  <2> DEFINE S == {Api!Ordered(ids)[i] : i \in (page * size + 1) .. last}
             m == page * size + 1
  <2>1. m \in Int
    BY <1>1
  <2>2. \A i \in m .. last : Api!Ordered(ids)[i] \in S
    OBVIOUS
  <2> HIDE DEF S, m
  <2>3. Len(SubSeq(Api!Ordered(ids), m, last)) = IF m <= last THEN last - m + 1 ELSE 0
    BY <2>1, <2>2, <1>3, SubSeqProperties
  <2>4. m <= last
    BY <1>3 DEF m
  <2> QED
    BY <2>1, <2>3, <2>4, <1>3 DEF m
<1>5. Len(<<>>) = 0
  OBVIOUS
<1> QED
  BY <1>4, <1>5 DEF Api!Page, last

\* The invariant gives what the run checks of the answers.
LEMMA ApiAnswers == ApiInv => Api!ListAgrees /\ Api!WriteTold
<1> SUFFICES ASSUME ApiInv
             PROVE  Api!ListAgrees /\ Api!WriteTold
  OBVIOUS
<1>1. Api!ListAgrees
  <2> SUFFICES ASSUME NEW c \in Client, request[c].op = "list", request[c].status = 200, request[c].quiet
               PROVE  LET r == request[c] IN
                      /\ r.size <= MaxPageSize
                      /\ r.total = Api!Cardinality(Api!Visible(c))
                      /\ r.rows = Api!Page(Api!Visible(c), r.page, r.size)
                      /\ r.page * r.size < r.total => r.rows # <<>>
                      /\ r.sum \in {-1, r.total}
    BY Zenon DEF Api!ListAgrees
  <2>1. ListFits(c) /\ Agrees(c) /\ request[c].left = {}
    BY DEF ApiInv, ListFits
  <2>2. request[c].total = Api!Cardinality(Api!Visible(c)) /\ request[c].rows = Api!Page(Api!Visible(c), request[c].page, request[c].size)
    BY <2>1 DEF Agrees
  <2>3. request[c].sum \in {-1, request[c].total}
    BY <2>1, <2>2, Counted DEF Agrees
  <2>4. request[c].page \in {0, 1} /\ request[c].size \in Nat \ {0} /\ request[c].size <= MaxPageSize
    BY <2>1 DEF ListFits
  <2>5. request[c].page * request[c].size < request[c].total => request[c].rows # <<>>
    BY <2>2, <2>4, PageHasRows, Counted
  <2> QED
    BY <2>2, <2>3, <2>4, <2>5
<1>2. Api!WriteTold
  BY DEF ApiInv, ToldSo, Api!WriteTold
<1> QED
  BY <1>1, <1>2

LEMMA ApiStart == Api!Init => ApiInv
<1> SUFFICES ASSUME Api!Init
             PROVE  ApiInv
  OBVIOUS
<1>1. RequestType
  BY DEF Api!Init, RequestType, RequestFields, Api!Free
<1>2. RowsKeyed
  <2>1. /\ table \in [Api!RowId -> Api!Row \cup {Null}]
        /\ \A i \in Api!RowId : table[i] # Null => table[i].id = i
    BY DEF Api!Init
  <2> QED
    BY <2>1 DEF RowsKeyed
<1>3. ASSUME NEW c \in Client
      PROVE  ListFits(c) /\ RequestWrites(c) /\ ToldSo(c)
  BY DEF Api!Init, ListFits, RequestWrites, ToldSo, Api!Free
<1>4. dialect \in Databases
  BY DEF Api!Init
<1> QED
  BY <1>1, <1>2, <1>3, <1>4 DEF ApiInv
-----------------------------------------------------------------------------
\* A step of client c: the requests of the others are as they were, but that a write
\* disturbs those that have arrived.
RequestStep(c) ==
    /\ RequestType' /\ RowsKeyed' /\ UNCHANGED dialect
    /\ \A d \in Client \ {c} :
         /\ \A f \in RequestFields \ {"quiet"} : request'[d][f] = request[d][f]
         /\ request'[d].quiet => request[d].quiet
         /\ request[d].op # "none" /\ table' # table => ~request'[d].quiet

LEMMA OtherRequests ==
    ASSUME ApiInv, NEW c \in Client, RequestStep(c), NEW d \in Client \ {c}
    PROVE  ListFits(d)' /\ RequestWrites(d)' /\ ToldSo(d)'
<1>1. /\ request'[d].op = request[d].op /\ request'[d].id = request[d].id /\ request'[d].body = request[d].body
      /\ request'[d].page = request[d].page /\ request'[d].size = request[d].size
      /\ request'[d].left = request[d].left /\ request'[d].rows = request[d].rows
      /\ request'[d].total = request[d].total /\ request'[d].sum = request[d].sum
      /\ request'[d].status = request[d].status /\ request'[d].wrote = request[d].wrote
  BY DEF RequestStep, RequestFields
<1>2. ListFits(d) /\ RequestWrites(d) /\ ToldSo(d)
  BY DEF ApiInv
<1>0. /\ Api!Returning' = Api!Returning
      /\ table' = table => Api!Visible(d)' = Api!Visible(d)
      /\ \A row : Api!InScope(d, row)' = Api!InScope(d, row)
  BY DEF RequestStep, Api!Returning, Api!Visible, Api!InScope, Api!Unscoped
<1>3. RequestWrites(d)'
  <2>1. "reload" \in request[d].left => request[d].op # "none"
    BY <1>2 DEF RequestWrites, ListFits
  <2>2. "reload" \in request[d].left /\ request'[d].quiet => request[d].quiet /\ table' = table
    BY <2>1 DEF RequestStep
  <2> QED
    BY <1>0, <1>1, <1>2, <2>2 DEF RequestWrites, Brings
<1>5. ToldSo(d)'
  <2>1. CASE table' = table
    BY <1>0, <1>1, <1>2, <2>1 DEF ToldSo, RequestStep
  <2>2. CASE table' # table
    BY <1>0, <1>1, <1>2, <2>2 DEF ToldSo, RequestStep
  <2> QED
    BY <2>1, <2>2
<1>4. ListFits(d)'
  <2>1. CASE table' = table
    <3>1. Api!Visible(d)' = Api!Visible(d) /\ Rows' = Rows
      BY <2>1 DEF Api!Visible, Rows
    <3>2. Agrees(d) => Agrees(d)'
      BY <1>1, <3>1 DEF Agrees
    <3> QED
      BY <1>1, <1>2, <3>2 DEF ListFits, RequestStep
  <2>2. CASE table' # table
    BY <1>1, <1>2, <2>2 DEF ListFits, RequestStep
  <2> QED
    BY <2>1, <2>2
<1> QED
  BY <1>3, <1>4, <1>5

\* A step that writes no row.
LEMMA Reads ==
    ASSUME ApiInv, NEW c \in Client, NEW r, Api!Progress(c, r), UNCHANGED <<dialect, table>>,
           DOMAIN r = RequestFields, r.status \in Nat, r.quiet \in BOOLEAN, r.wrote \in BOOLEAN
    PROVE  RequestStep(c) /\ request'[c] = r /\ Api!Visible(c)' = Api!Visible(c) /\ Rows' = Rows
<1>1. request' = [request EXCEPT ![c] = r] /\ DOMAIN request = Client
  BY DEF Api!Progress, ApiInv, RequestType
<1>2. request'[c] = r /\ \A d \in Client \ {c} : request'[d] = request[d]
  BY <1>1
<1>3. RequestType'
  BY <1>1, <1>2 DEF ApiInv, RequestType
<1>4. RowsKeyed'
  BY DEF ApiInv, RowsKeyed
<1>5. RequestStep(c)
  BY <1>2, <1>3, <1>4 DEF RequestStep, ApiInv, RequestType
<1> QED
  BY <1>2, <1>5 DEF Api!Visible, Rows

\* A step that writes one.
LEMMA Writes ==
    ASSUME ApiInv, NEW c \in Client, NEW r, request' = Api!Wrote(c, r), RowsKeyed', UNCHANGED dialect,
           DOMAIN r = RequestFields, r.status \in Nat, r.quiet \in BOOLEAN
    PROVE  /\ RequestStep(c) /\ request'[c].wrote
           /\ \A f \in RequestFields \ {"quiet", "wrote"} : request'[c][f] = r[f]
<1> DEFINE w == [r EXCEPT !.wrote = TRUE]
           q == [request EXCEPT ![c] = w]
<1>1. DOMAIN q = Client /\ q[c] = w /\ \A d \in Client \ {c} : q[d] = request[d]
  BY DEF ApiInv, RequestType
<1>2. DOMAIN w = RequestFields /\ w.wrote /\ w.status \in Nat /\ w.quiet \in BOOLEAN
      /\ \A f \in RequestFields \ {"wrote"} : w[f] = r[f]
  BY DEF RequestFields
<1> HIDE DEF w, q
<1>3. request' = [d \in Client |-> [q[d] EXCEPT !.quiet = @ /\ (d = c \/ q[d].op = "none")]]
  BY DEF Api!Wrote, Api!Disturb, w, q
<1>4. \A d \in Client : DOMAIN q[d] = RequestFields /\ q[d].quiet \in BOOLEAN
  BY <1>1, <1>2 DEF ApiInv, RequestType
<1>5. \A d \in Client : /\ DOMAIN request'[d] = RequestFields
                        /\ request'[d].quiet = (q[d].quiet /\ (d = c \/ q[d].op = "none"))
                        /\ \A f \in RequestFields \ {"quiet"} : request'[d][f] = q[d][f]
  BY <1>3, <1>4 DEF RequestFields
<1>6. /\ request'[c].wrote /\ request'[c].status \in Nat
      /\ \A f \in RequestFields \ {"quiet", "wrote"} : request'[c][f] = r[f]
  BY <1>1, <1>2, <1>5 DEF RequestFields
<1>7. \A d \in Client \ {c} : /\ \A f \in RequestFields \ {"quiet"} : request'[d][f] = request[d][f]
                             /\ request'[d].quiet = (request[d].quiet /\ request[d].op = "none")
  BY <1>1, <1>5
<1>8. RequestType'
  <2>1. DOMAIN request' = Client
    BY <1>3
  <2>2. \A d \in Client : DOMAIN request'[d] = RequestFields /\ request'[d].quiet \in BOOLEAN
    BY <1>5
  <2>3. \A d \in Client \ {c} : request'[d].status \in Nat /\ request'[d].wrote \in BOOLEAN
    BY <1>7 DEF ApiInv, RequestType, RequestFields
  <2>4. request'[c].wrote \in BOOLEAN
    BY <1>1, <1>2, <1>5 DEF RequestFields
  <2> QED
    BY <2>1, <2>2, <2>3, <2>4, <1>6 DEF RequestType
<1> QED
  BY <1>6, <1>7, <1>8 DEF RequestStep

\* Whoever steps, its own request is what remains to be looked at.
LEMMA RequestFits ==
    ASSUME ApiInv, NEW c \in Client, RequestStep(c), ListFits(c)', RequestWrites(c)', ToldSo(c)'
    PROVE  ApiInv'
BY OtherRequests DEF ApiInv, RequestStep

LEMMA ReceiveFits ==
    ASSUME ApiInv, NEW c \in Client, Api!Receive(c), UNCHANGED dialect
    PROVE  ApiInv'
<1>1. PICK op \in {"list", "create", "update", "delete"}, id \in Api!RowId, body \in Api!Body,
           page \in 0..1, asked \in PageSizes, totals \in Totals \cup {FALSE} :
         LET size == IF asked > MaxPageSize THEN MaxPageSize ELSE asked
             allowed == CASE op = "create" -> Insertable [] op = "update" -> Updatable [] OTHER -> {}
             fields == Api!WithAudit(c, Api!FilterFields(body, allowed))
             status == IF Api!Authenticate(c) # 200 THEN Api!Authenticate(c)
                       ELSE IF op = "create" /\ ~Api!MayInsert(c, body) THEN 403
                       ELSE IF op \in {"create", "update"} /\ fields = Api!NoFields THEN 400
                       ELSE 0
         IN  /\ op \in {"list", "delete"} => body = Api!Nothing
             /\ op # "list" => page = 0 /\ asked = 1 /\ ~totals
             /\ op \in {"list", "create"} => id = 1
             /\ Api!Progress(c, [Api!Free EXCEPT
                    !.op = op, !.id = id, !.page = page, !.size = size, !.status = status,
                    !.body = IF op \in {"create", "update"} THEN fields ELSE Api!NoFields,
                    !.left = IF status # 0 THEN {}
                             ELSE IF op = "list" THEN {"data", "count"} \cup (IF totals THEN {"totals"} ELSE {})
                             ELSE {"exec"}])
  BY Zenon DEF Api!Receive
<1> DEFINE size == IF asked > MaxPageSize THEN MaxPageSize ELSE asked
           allowed == CASE op = "create" -> Insertable [] op = "update" -> Updatable [] OTHER -> {}
           fields == Api!WithAudit(c, Api!FilterFields(body, allowed))
           status == IF Api!Authenticate(c) # 200 THEN Api!Authenticate(c)
                     ELSE IF op = "create" /\ ~Api!MayInsert(c, body) THEN 403
                     ELSE IF op \in {"create", "update"} /\ fields = Api!NoFields THEN 400
                     ELSE 0
           left == IF status # 0 THEN {}
                   ELSE IF op = "list" THEN {"data", "count"} \cup (IF totals THEN {"totals"} ELSE {})
                   ELSE {"exec"}
           r == [Api!Free EXCEPT !.op = op, !.id = id, !.page = page, !.size = size, !.status = status,
                             !.body = IF op \in {"create", "update"} THEN fields ELSE Api!NoFields, !.left = left]
<1>2. status \in {0, 400, 401, 403} /\ (status # 0 => left = {})
  BY DEF Api!Authenticate
<1>3. size \in Nat \ {0} /\ size <= MaxPageSize
  BY ApiAssumption
<1>4. left \subseteq {"data", "count", "totals", "exec"} /\ (op = "list" => left \subseteq {"data", "count", "totals"})
      /\ (op # "list" => left \subseteq {"exec"})
      /\ (op = "list" /\ status = 0 => {"data", "count"} \subseteq left)
  OBVIOUS
<1>5. /\ op = "create" => fields = Api!WithAudit(c, Api!FilterFields(body, Insertable))
      /\ op = "update" => fields = Api!WithAudit(c, Api!FilterFields(body, Updatable))
  OBVIOUS
<1>6. Api!Progress(c, r)
  BY <1>1, Zenon
<1> HIDE DEF size, fields, status, left
<1>7. /\ DOMAIN r = RequestFields /\ r.op = op /\ r.page = page /\ r.size = size /\ r.status = status
      /\ r.left = left /\ ~r.wrote /\ r.quiet /\ r.wrote \in BOOLEAN /\ r.quiet \in BOOLEAN /\ r.sum = -1
      /\ op \in {"create", "update"} => r.body = fields
      /\ r.id = id
  BY DEF Api!Free, RequestFields
<1> HIDE DEF r
<1>8. RequestStep(c) /\ request'[c] = r
  <2>1. UNCHANGED table
    BY Zenon DEF Api!Receive
  <2>2. r.status \in Nat
    BY <1>2, <1>7
  <2> QED
    BY <1>6, <1>7, <2>1, <2>2, Reads
<1>9. ListFits(c)'
  <2> SUFFICES ASSUME op = "list"
               PROVE  ListFits(c)'
    BY <1>7, <1>8 DEF ListFits
  <2>1. status \in {0, 200} => {"data", "count"} \subseteq left
    BY <1>2, <1>4
  <2>2. r.status \in {0, 200} => Agrees(c)'
    BY <1>7, <1>8, <2>1 DEF Agrees
  <2>3. r.left \subseteq {"data", "count", "totals"} /\ (r.status # 0 => r.left = {})
    BY <1>2, <1>4, <1>7
  <2>4. r.page \in {0, 1} /\ r.size \in Nat \ {0} /\ r.size <= MaxPageSize
    BY <1>3, <1>7
  <2> QED
    BY <1>7, <1>8, <2>2, <2>3, <2>4 DEF ListFits
<1>10. RequestWrites(c)'
  BY <1>2, <1>4, <1>5, <1>7, <1>8 DEF RequestWrites, Brings
<1>11. ToldSo(c)'
  BY <1>2, <1>7, <1>8 DEF ToldSo
<1> QED
  BY <1>8, <1>9, <1>10, <1>11, RequestFits

\* A request that is answered without having written.
LEMMA AnswerFits ==
    ASSUME ApiInv, NEW c \in Client, NEW status \in Nat, Api!Answer(c, status), UNCHANGED <<dialect, table>>,
           request[c].op = "list" => status = 500,
           \/ status = 500
           \/ status >= 400 /\ ~request[c].wrote
           \/ ~Api!Returning /\ (request[c].quiet => 
                /\ status < 400 => request[c].wrote
                /\ status >= 400 => /\ request[c].op = "update" /\ table[request[c].id] # Null
                                    /\ ~Api!InScope(c, table[request[c].id]))
    PROVE  ApiInv'
<1> DEFINE r == [request[c] EXCEPT !.status = status, !.left = {}]
<1>1. /\ DOMAIN r = RequestFields /\ r.status = status /\ r.left = {} /\ r.op = request[c].op
      /\ r.page = request[c].page /\ r.size = request[c].size /\ r.wrote = request[c].wrote
      /\ r.quiet = request[c].quiet /\ r.quiet \in BOOLEAN /\ r.wrote \in BOOLEAN
      /\ r.id = request[c].id
  BY DEF ApiInv, RequestType, RequestFields
<1>2. Api!Progress(c, r)
  BY DEF Api!Answer
<1> HIDE DEF r
<1>3. RequestStep(c) /\ request'[c] = r
  BY <1>1, <1>2, Reads
<1>4. ListFits(c) /\ RequestWrites(c)
  BY DEF ApiInv
<1>5. ListFits(c)'
  BY <1>1, <1>3, <1>4 DEF ListFits
<1>6. RequestWrites(c)'
  BY <1>1, <1>3, <1>4 DEF RequestWrites
<1>7. ToldSo(c)'
  <2>1. Api!Returning' = Api!Returning /\ \A row : Api!InScope(c, row)' = Api!InScope(c, row)
    BY DEF Api!Returning, Api!InScope, Api!Unscoped
  <2> QED
    BY <1>1, <1>3, <2>1 DEF ToldSo
<1> QED
  BY <1>3, <1>5, <1>6, <1>7, RequestFits

LEMMA FailureFits ==
    ASSUME ApiInv, NEW c \in Client, Api!StatementFails(c), UNCHANGED dialect
    PROVE  ApiInv'
BY AnswerFits DEF Api!StatementFails

\* A statement of a list has answered with what is so now.
LEMMA CollectFits ==
    ASSUME ApiInv, NEW c \in Client, request[c].op = "list", NEW r, Api!Collect(c, r), UNCHANGED <<dialect, table>>,
           \A f \in RequestFields \ {"left", "rows", "total", "sum"} : r[f] = request[c][f],
           DOMAIN r = RequestFields, request[c].left # {}, r.left \subseteq request[c].left,
           Agrees(c) => /\ "data" \notin r.left => r.rows = Api!Page(Api!Visible(c), r.page, r.size)
                        /\ "count" \notin r.left => r.total = Api!Cardinality(Api!Visible(c))
                        /\ r.sum = -1 \/ (Api!Unscoped(c) /\ r.sum = Api!Cardinality(Rows))
    PROVE  ApiInv'
<1> DEFINE q == IF r.left = {} THEN [r EXCEPT !.status = 200] ELSE r
<1>1. ListFits(c) /\ DOMAIN request[c] = RequestFields /\ request[c].status \in Nat
      /\ request[c].quiet \in BOOLEAN /\ request[c].wrote \in BOOLEAN
  BY DEF ApiInv, RequestType
<1>2. r.op = "list" /\ r.page = request[c].page /\ r.size = request[c].size /\ r.wrote = request[c].wrote
      /\ r.quiet = request[c].quiet /\ r.status = request[c].status
  BY DEF RequestFields
<1>3. request[c].status = 0
  BY <1>1 DEF ListFits
<1>4. /\ DOMAIN q = RequestFields /\ q.op = "list" /\ q.page = r.page /\ q.size = r.size /\ q.left = r.left
      /\ q.wrote = r.wrote /\ q.quiet = r.quiet /\ q.rows = r.rows /\ q.total = r.total /\ q.sum = r.sum
      /\ q.status \in {0, 200} /\ (q.status # 0 => q.left = {})
  BY <1>2, <1>3 DEF RequestFields
<1>5. Api!Progress(c, q)
  BY DEF Api!Collect
<1> HIDE DEF q
<1>6. RequestStep(c) /\ request'[c] = q /\ Api!Visible(c)' = Api!Visible(c) /\ Rows' = Rows
  BY <1>1, <1>2, <1>4, <1>5, Reads
<1>7. request[c].quiet => Agrees(c)
  BY <1>1, <1>3 DEF ListFits
<1>8. q.quiet => Agrees(c)'
  BY <1>2, <1>4, <1>6, <1>7 DEF Agrees
<1>9. ListFits(c)'
  BY <1>1, <1>2, <1>4, <1>6, <1>8 DEF ListFits
<1>10. RequestWrites(c)' /\ ToldSo(c)'
  BY <1>4, <1>6 DEF RequestWrites, ToldSo
<1> QED
  BY <1>6, <1>9, <1>10, RequestFits

\* Only a list has these statements.
LEMMA ListPending ==
    ASSUME ApiInv, NEW c \in Client, NEW what \in {"data", "count", "totals"}, Api!Pending(c, what)
    PROVE  /\ request[c].op = "list" /\ request[c].left # {} /\ DOMAIN request[c] = RequestFields
           /\ DOMAIN Api!Took(c, what) = RequestFields /\ Api!Took(c, what).left = request[c].left \ {what}
           /\ \A f \in RequestFields \ {"left"} : Api!Took(c, what)[f] = request[c][f]
<1>1. DOMAIN request[c] = RequestFields /\ RequestWrites(c)
  BY DEF ApiInv, RequestType
<1> QED
  BY <1>1 DEF Api!Took, RequestFields, RequestWrites, Api!Pending

LEMMA DataFits ==
    ASSUME ApiInv, NEW c \in Client, Api!QueryData(c), UNCHANGED dialect
    PROVE  ApiInv'
<1> DEFINE r == [Api!Took(c, "data") EXCEPT !.rows = Api!Page(Api!Visible(c), request[c].page, request[c].size)]
<1>1. /\ request[c].op = "list" /\ request[c].left # {} /\ DOMAIN r = RequestFields
      /\ r.left = request[c].left \ {"data"}
      /\ \A f \in RequestFields \ {"left", "rows"} : r[f] = request[c][f]
      /\ r.rows = Api!Page(Api!Visible(c), request[c].page, request[c].size)
  BY ListPending DEF Api!QueryData, RequestFields
<1>2. Api!Collect(c, r) /\ UNCHANGED table
  BY DEF Api!QueryData
<1> HIDE DEF r
<1>3. r.page = request[c].page /\ r.size = request[c].size /\ r.total = request[c].total /\ r.sum = request[c].sum
  BY <1>1 DEF RequestFields
<1> QED
  BY <1>1, <1>2, <1>3, CollectFits DEF Agrees

LEMMA CountFits ==
    ASSUME ApiInv, NEW c \in Client, Api!QueryCount(c), UNCHANGED dialect
    PROVE  ApiInv'
<1> DEFINE r == [Api!Took(c, "count") EXCEPT !.total = Api!Cardinality(Api!Visible(c))]
<1>1. /\ request[c].op = "list" /\ request[c].left # {} /\ DOMAIN r = RequestFields
      /\ r.left = request[c].left \ {"count"}
      /\ \A f \in RequestFields \ {"left", "total"} : r[f] = request[c][f]
      /\ r.total = Api!Cardinality(Api!Visible(c))
  BY ListPending DEF Api!QueryCount, RequestFields
<1>2. Api!Collect(c, r) /\ UNCHANGED table
  BY DEF Api!QueryCount
<1> HIDE DEF r
<1>3. r.page = request[c].page /\ r.size = request[c].size /\ r.rows = request[c].rows /\ r.sum = request[c].sum
  BY <1>1 DEF RequestFields
<1> QED
  BY <1>1, <1>2, <1>3, CollectFits DEF Agrees

LEMMA TotalsFit ==
    ASSUME ApiInv, NEW c \in Client, Api!QueryTotals(c), UNCHANGED dialect
    PROVE  ApiInv'
<1>1. CASE Api!Unscoped(c)
  <2> DEFINE r == [Api!Took(c, "totals") EXCEPT !.sum = Api!Cardinality({i \in Api!RowId : table[i] # Null})]
  <2>1. /\ request[c].op = "list" /\ request[c].left # {} /\ DOMAIN r = RequestFields
        /\ r.left = request[c].left \ {"totals"}
        /\ \A f \in RequestFields \ {"left", "sum"} : r[f] = request[c][f]
        /\ r.sum = Api!Cardinality(Rows)
    BY ListPending DEF Api!QueryTotals, RequestFields, Rows
  <2>2. Api!Collect(c, r) /\ UNCHANGED table
    BY <1>1 DEF Api!QueryTotals
  <2> HIDE DEF r
  <2>3. r.page = request[c].page /\ r.size = request[c].size /\ r.rows = request[c].rows /\ r.total = request[c].total
    BY <2>1 DEF RequestFields
  <2> QED
    BY <1>1, <2>1, <2>2, <2>3, CollectFits DEF Agrees
<1>2. CASE ~Api!Unscoped(c)
  <2>1. request[c].op = "list" /\ ListFits(c)
    BY ListPending DEF Api!QueryTotals, ApiInv
  <2>2. ~request[c].wrote
    BY <2>1 DEF ListFits
  <2> QED
    BY <1>2, <2>1, <2>2, AnswerFits DEF Api!QueryTotals
<1> QED
  BY <1>1, <1>2
-----------------------------------------------------------------------------
\* What the fields of a request are, as the database sets them.
LEMMA SetAsBrought ==
    ASSUME ApiInv, NEW c \in Client, request[c].op \in {"create", "update"},
           Api!Pending(c, "exec"), NEW id \in Api!RowId
    PROVE  LET fields == request[c].body
               where == Api!PrimaryKeyWhere("id", id, <<>>, Api!EmptyParams)
           IN  /\ Api!Assigned(dialect, Api!BuildInsertReturning(Api!Columns(fields), Api!Safe, fields)) = fields
               /\ \A k \in DOMAIN fields : fields[k] \in Held(k)
               /\ Api!Assigned(dialect, Api!BuildUpdateReturning(Api!Columns(fields), Api!Safe, fields, where.where, where.params)) = fields
               /\ Api!ComparedWith(dialect, Api!BuildUpdateReturning(Api!Columns(fields), Api!Safe, fields, where.where, where.params), "id") = {<<id>>}
               /\ Guarded => "by" \in DOMAIN fields /\ fields["by"] = c
               /\ request[c].op = "update" /\ KeyFixed => "id" \notin DOMAIN fields
<1>1. PICK allowed \in {Insertable, Updatable} :
        /\ Brings(c, allowed)
        /\ request[c].op = "update" => allowed = Updatable
  BY DEF ApiInv, RequestWrites, Api!Pending
<1>2. PICK body \in Api!Body : request[c].body = Api!WithAudit(c, Api!FilterFields(body, allowed))
  BY <1>1 DEF Brings
<1>6. dialect \in Databases
  BY DEF ApiInv
<1>3. LET fields == Api!WithAudit(c, Api!FilterFields(body, allowed))
          where == Api!PrimaryKeyWhere("id", id, <<>>, Api!EmptyParams)
      IN  /\ Api!Assigned(dialect, Api!BuildInsertReturning(Api!Columns(fields), Api!Safe, fields)) = fields
          /\ Api!Assigned(dialect, Api!BuildUpdateReturning(Api!Columns(fields), Api!Safe, fields, where.where, where.params)) = fields
          /\ Api!ComparedWith(dialect, Api!BuildUpdateReturning(Api!Columns(fields), Api!Safe, fields, where.where, where.params), "id") = {<<id>>}
  <2>1. Api!FieldsBind(dialect, Api!WithAudit(c, Api!FilterFields(body, allowed)))
    BY <1>6, ApiAssumption DEF Api!StatementsBind
  <2> QED
    BY <2>1 DEF Api!FieldsBind
<1>4. LET fields == Api!WithAudit(c, Api!FilterFields(body, allowed))
      IN  /\ Guarded => "by" \in DOMAIN fields /\ fields["by"] = c
          /\ "id" \notin allowed => "id" \notin DOMAIN fields
  BY DEF Api!WithAudit, Api!FilterFields
<1>5. LET fields == Api!WithAudit(c, Api!FilterFields(body, allowed))
      IN  \A k \in DOMAIN fields : fields[k] \in Held(k)
  BY DEF Api!WithAudit, Api!FilterFields, Api!Body, Held
<1> QED
  BY <1>1, <1>2, <1>3, <1>4, <1>5 DEF KeyFixed

\* A write that is done, or has still to read its row again, and the lists it disturbs.
LEMMA WrittenFits ==
    ASSUME ApiInv, NEW c \in Client, Api!Pending(c, "exec"), request[c].op # "list",
           NEW r, request' = Api!Wrote(c, r), RowsKeyed', UNCHANGED dialect,
           DOMAIN r = RequestFields, r.op = request[c].op, r.quiet = request[c].quiet, r.status \in Nat,
           \/ r.left = {} /\ (r.status = 500 \/ r.status < 400)
           \/ /\ r.left = {"reload"} /\ r.status = 0 /\ ~Api!Returning /\ r.op \in {"create", "update"}
              /\ r.id \in Api!RowId /\ table'[r.id] # Null
    PROVE  ApiInv' /\ request'[c].wrote /\ ~request[c].wrote
<1>1. r.quiet \in BOOLEAN /\ RequestWrites(c)
  BY DEF ApiInv, RequestType
<1>2. RequestStep(c) /\ request'[c].wrote /\ \A f \in RequestFields \ {"quiet", "wrote"} : request'[c][f] = r[f]
  BY <1>1, Writes
<1>3. /\ request'[c].op = r.op /\ request'[c].left = r.left /\ request'[c].status = r.status
      /\ request'[c].id = r.id
  BY <1>2 DEF RequestFields
<1>4. RequestWrites(c)'
  BY <1>2, <1>3 DEF RequestWrites, Api!Returning
<1>5. ListFits(c)'
  BY <1>3 DEF ListFits
<1>6. ToldSo(c)'
  BY <1>2, <1>3 DEF ToldSo
<1> QED
  BY <1>1, <1>2, <1>4, <1>5, <1>6, RequestFits DEF RequestWrites, Api!Pending

LEMMA Replies ==
    ASSUME ApiInv, NEW c \in Client, NEW status, NEW id
    PROVE  /\ DOMAIN Api!Settle(c, status) = RequestFields /\ Api!Settle(c, status).op = request[c].op
           /\ Api!Settle(c, status).quiet = request[c].quiet /\ Api!Settle(c, status).left = {}
           /\ Api!Settle(c, status).status = status
           /\ DOMAIN Api!Reload(c, id) = RequestFields /\ Api!Reload(c, id).op = request[c].op
           /\ Api!Reload(c, id).quiet = request[c].quiet /\ Api!Reload(c, id).left = {"reload"}
           /\ Api!Reload(c, id).status = request[c].status /\ Api!Reload(c, id).id = id
<1>1. DOMAIN request[c] = RequestFields
  BY DEF ApiInv, RequestType
<1> QED
  BY <1>1 DEF Api!Settle, Api!Reload, RequestFields

\* What the handler goes on with is what the request was, but for its status and what is left.
LEMMA ToldFits ==
    ASSUME ApiInv, NEW c \in Client, Api!Pending(c, "exec"), request[c].op # "list",
           NEW status \in {200, 201, 204}, NEW id \in Api!RowId,
           NEW r \in Api!Told(c, IF Api!Returning \/ request[c].op = "delete" THEN Api!Settle(c, status) ELSE Api!Reload(c, id)),
           request[c].op \in {"create", "update", "delete"},
           request' = Api!Wrote(c, r), RowsKeyed', UNCHANGED dialect,
           request[c].op # "delete" => table'[id] # Null
    PROVE  ApiInv' /\ request'[c].wrote /\ ~request[c].wrote
<1>1. /\ DOMAIN request[c] = RequestFields /\ request[c].status = 0
  BY DEF ApiInv, RequestType, RequestWrites, Api!Pending
<1>2. CASE r = Api!Settle(c, 500) \/ r = Api!Settle(c, status)
  <2>1. /\ DOMAIN r = RequestFields /\ r.op = request[c].op /\ r.quiet = request[c].quiet
        /\ r.left = {} /\ r.status \in {status, 500}
    BY <1>2, Replies
  <2> QED
    BY <2>1, WrittenFits
<1>3. CASE ~Api!Returning /\ request[c].op # "delete" /\ r = Api!Reload(c, id)
  <2>1. /\ DOMAIN r = RequestFields /\ r.op = request[c].op /\ r.quiet = request[c].quiet
        /\ r.left = {"reload"} /\ r.status = 0 /\ r.id = id
    BY <1>1, <1>3, Replies
  <2> QED
    BY <1>3, <2>1, WrittenFits
<1> QED
  BY <1>2, <1>3 DEF Api!Told

LEMMA CreateFits ==
    ASSUME ApiInv, NEW c \in Client, Api!ExecCreate(c), UNCHANGED dialect
    PROVE  ApiInv' /\ Api!OneRow
<1> DEFINE fields == request[c].body
           free == {i \in Api!RowId : table[i] = Null}
           set == Api!Assigned(dialect, Api!BuildInsertReturning(Api!Columns(fields), Api!Safe, fields))
           row(id) == [k \in Api!Column |-> IF k = "id" THEN id
                                            ELSE IF k \in DOMAIN set THEN set[k] ELSE Null]
           reply(id) == IF Api!Returning THEN Api!Settle(c, 201) ELSE Api!Reload(c, id)
<1>1. request[c].op = "create" /\ Api!Pending(c, "exec") /\ RequestWrites(c)
  BY DEF Api!ExecCreate, ApiInv
<1>2. \/ Api!Answer(c, 500) /\ UNCHANGED table
      \/ \E id \in (IF "id" \in DOMAIN set THEN {set["id"]} ELSE free) :
           /\ ~("id" \in DOMAIN set /\ set["id"] \notin free)
           /\ table' = [table EXCEPT ![id] = row(id)]
           /\ \E r \in Api!Told(c, reply(id)) : request' = Api!Wrote(c, r)
  BY Zenon DEF Api!ExecCreate
<1> HIDE DEF set
<1>3. CASE Api!Answer(c, 500) /\ UNCHANGED table
  BY <1>1, <1>3, AnswerFits DEF Api!OneRow
<1>4. ASSUME NEW id \in (IF "id" \in DOMAIN set THEN {set["id"]} ELSE free),
             ~("id" \in DOMAIN set /\ set["id"] \notin free),
             table' = [table EXCEPT ![id] = row(id)],
             NEW r \in Api!Told(c, reply(id)), request' = Api!Wrote(c, r)
      PROVE  ApiInv' /\ Api!OneRow
  <2>1. id \in Api!RowId /\ table[id] = Null
    BY <1>4
  <2>2. /\ Guarded => "by" \in DOMAIN set /\ set["by"] = c
        /\ \A k \in DOMAIN set : set[k] \in Held(k)
    BY <1>1, <2>1, SetAsBrought DEF set
  <2>3. row(id) \in Api!Row /\ row(id) # Null
    BY <2>1, <2>2, Columnwise, ApiAssumption
  <2>4. /\ table' \in [Api!RowId -> Api!Row \cup {Null}]
        /\ table'[id] = row(id) /\ \A i \in Api!RowId \ {id} : table'[i] = table[i]
    BY <1>4, <2>1, <2>3 DEF ApiInv, RowsKeyed
  <2>5. table'[id].id = id /\ (Guarded => table'[id].by = c)
    BY <2>2, <2>4, Keys
  <2>6. RowsKeyed'
    BY <2>1, <2>4, <2>5 DEF ApiInv, RowsKeyed, KeyFixed
  <2> HIDE DEF row
  <2>7. ApiInv' /\ request'[c].wrote /\ ~request[c].wrote
    BY <1>1, <1>4, <2>1, <2>3, <2>4, <2>6, ToldFits
  <2> QED
    BY <2>1, <2>4, <2>5, <2>7 DEF Api!OneRow
<1> QED
  BY <1>2, <1>3, <1>4

LEMMA UpdateFits ==
    ASSUME ApiInv, NEW c \in Client, Api!ExecUpdate(c), UNCHANGED dialect
    PROVE  ApiInv' /\ (KeyFixed => Api!OneRow)
<1> DEFINE id == request[c].id
           fields == request[c].body
           where == Api!PrimaryKeyWhere("id", id, <<>>, Api!EmptyParams)
           statement == Api!BuildUpdateReturning(Api!Columns(fields), Api!Safe, fields, where.where, where.params)
           set == Api!Assigned(dialect, statement)
           reply == IF Api!Returning THEN Api!Settle(c, 200) ELSE Api!Reload(c, id)
<1>1. request[c].op = "update" /\ Api!Pending(c, "exec") /\ RequestWrites(c) /\ ~request[c].wrote
      /\ DOMAIN request[c] = RequestFields /\ request[c].status = 0 /\ id \in Api!RowId
      /\ request[c].quiet \in BOOLEAN /\ request[c].wrote \in BOOLEAN
  BY DEF Api!ExecUpdate, ApiInv, RequestWrites, Api!Pending, RequestType
<1>2. \/ /\ id \in Api!Visible(c)
         /\ table' = [table EXCEPT ![id] = [k \in Api!Column |-> IF k \in DOMAIN set THEN set[k] ELSE @[k]]]
         /\ \E r \in Api!Told(c, reply) : request' = Api!Wrote(c, r)
      \/ /\ id \notin Api!Visible(c) \/ Api!ComparedWith(dialect, statement, "id") # {<<id>>}
         /\ IF Api!Returning THEN Api!Answer(c, 404) ELSE Api!Progress(c, Api!Reload(c, id))
         /\ UNCHANGED table
  BY Zenon DEF Api!ExecUpdate
<1>3. CASE Api!Returning /\ Api!Answer(c, 404) /\ UNCHANGED table
  BY <1>1, <1>3, AnswerFits DEF Api!OneRow
<1>4. CASE ~Api!Returning /\ id \notin Api!Visible(c) /\ Api!Progress(c, Api!Reload(c, id)) /\ UNCHANGED table
  <2> DEFINE q == Api!Reload(c, id)
  <2>1. /\ DOMAIN q = RequestFields /\ q.op = "update" /\ q.left = {"reload"} /\ ~q.wrote /\ q.id = id
        /\ q.quiet \in BOOLEAN /\ q.wrote \in BOOLEAN /\ q.status = 0
    BY <1>1 DEF Api!Reload, RequestFields
  <2>2. Api!Progress(c, q)
    BY <1>4
  <2> HIDE DEF q
  <2>3. RequestStep(c) /\ request'[c] = q /\ Api!Visible(c)' = Api!Visible(c)
    BY <1>4, <2>1, <2>2, Reads
  <2>4. ListFits(c)' /\ RequestWrites(c)' /\ ToldSo(c)'
    BY <1>1, <1>4, <2>1, <2>3 DEF ListFits, RequestWrites, ToldSo, Api!Returning
  <2> QED
    BY <1>4, <2>3, <2>4, RequestFits DEF Api!OneRow
<1>5. ASSUME id \in Api!Visible(c),
             table' = [table EXCEPT ![id] = [k \in Api!Column |-> IF k \in DOMAIN set THEN set[k] ELSE @[k]]],
             NEW r \in Api!Told(c, reply), request' = Api!Wrote(c, r)
      PROVE  ApiInv' /\ (KeyFixed => Api!OneRow)
  <2>1. table[id] # Null /\ Api!InScope(c, table[id])
    BY <1>5 DEF Api!Visible
  <2>2. /\ \A k \in DOMAIN set : set[k] \in Held(k)
        /\ Guarded => "by" \in DOMAIN set /\ set["by"] = c
        /\ KeyFixed => "id" \notin DOMAIN set
    <3> HIDE DEF id
    <3> QED
      BY <1>1, SetAsBrought
  <2> HIDE DEF set
  <2>3. table[id] \in Api!Row
    BY <1>1, <2>1 DEF ApiInv, RowsKeyed
  <2> DEFINE row == [k \in Api!Column |-> IF k \in DOMAIN set THEN set[k] ELSE table[id][k]]
  <2>4. row \in Api!Row /\ row # Null
    BY <2>2, <2>3, Columnwise, ApiAssumption
  <2>5. /\ table' \in [Api!RowId -> Api!Row \cup {Null}]
        /\ table'[id] = row /\ \A i \in Api!RowId \ {id} : table'[i] = table[i]
    BY <1>1, <1>5, <2>4 DEF ApiInv, RowsKeyed
  <2>6. /\ KeyFixed => table'[id].id = id
        /\ Guarded => table'[id].by = c
    <3>1. KeyFixed => table[id].id = id
      BY <1>1, <2>1 DEF ApiInv, RowsKeyed
    <3> QED
      BY <2>2, <2>5, <3>1, Keys
  <2>7. RowsKeyed'
    BY <1>1, <2>5, <2>6 DEF ApiInv, RowsKeyed, KeyFixed
  <2> HIDE DEF row
  <2>8. ApiInv' /\ request'[c].wrote
    <3>1. r \in Api!Told(c, IF Api!Returning \/ request[c].op = "delete" THEN Api!Settle(c, 200) ELSE Api!Reload(c, id))
      BY <1>1, <1>5
    <3> HIDE DEF id
    <3> QED
      BY <1>1, <1>5, <2>4, <2>5, <2>7, <3>1, ToldFits
  <2> QED
    BY <1>1, <2>1, <2>5, <2>6, <2>8 DEF Api!OneRow
<1>6. Api!ComparedWith(dialect, statement, "id") = {<<id>>}
  <2> HIDE DEF id
  <2> QED
    BY <1>1, SetAsBrought
<1> HIDE DEF id, set, reply, statement
<1> QED
  BY <1>2, <1>3, <1>4, <1>5, <1>6

LEMMA DeleteFits ==
    ASSUME ApiInv, NEW c \in Client, Api!ExecDelete(c), UNCHANGED dialect
    PROVE  ApiInv' /\ Api!OneRow
<1> DEFINE id == request[c].id
<1>1. request[c].op = "delete" /\ Api!Pending(c, "exec") /\ ~request[c].wrote /\ id \in Api!RowId
  BY DEF Api!ExecDelete, ApiInv, RequestWrites, Api!Pending
<1>2. CASE id \notin Api!Visible(c)
  <2>1. Api!Answer(c, 404) /\ UNCHANGED table
    BY <1>2 DEF Api!ExecDelete
  <2> QED
    BY <1>1, <2>1, AnswerFits DEF Api!OneRow
<1>3. CASE id \in Api!Visible(c)
  <2>1. table[id] # Null /\ Api!InScope(c, table[id])
    BY <1>3 DEF Api!Visible
  <2>2. table' = [table EXCEPT ![id] = Null]
    BY <1>3 DEF Api!ExecDelete
  <2>3. /\ table' \in [Api!RowId -> Api!Row \cup {Null}] /\ table'[id] = Null
        /\ \A i \in Api!RowId \ {id} : table'[i] = table[i]
    BY <1>1, <2>2 DEF ApiInv, RowsKeyed
  <2>4. RowsKeyed'
    BY <2>3 DEF ApiInv, RowsKeyed, KeyFixed
  <2>5. PICK r \in Api!Told(c, Api!Settle(c, 204)) : request' = Api!Wrote(c, r)
    BY <1>3 DEF Api!ExecDelete
  <2>6. ApiInv' /\ request'[c].wrote
    BY <1>1, <2>4, <2>5, ToldFits
  <2> QED
    BY <1>1, <2>1, <2>3, <2>6 DEF Api!OneRow
<1> QED
  BY <1>2, <1>3

LEMMA LoadFits ==
    ASSUME ApiInv, NEW c \in Client, Api!LoadCrudRecord(c), UNCHANGED dialect
    PROVE  ApiInv'
<1> DEFINE id == request[c].id
           status == IF request[c].op = "create" THEN 201 ELSE IF id \in Api!Visible(c) THEN 200 ELSE 404
<1>1. /\ ~Api!Returning /\ request[c].op \in {"create", "update"} /\ id \in Api!RowId
      /\ request[c].op = "create" => request[c].wrote
      /\ request[c].quiet => IF request[c].wrote THEN table[id] # Null ELSE id \notin Api!Visible(c)
  BY DEF ApiInv, Api!LoadCrudRecord, Api!Pending, ListFits, RequestWrites
<1>2. Api!Answer(c, status) /\ UNCHANGED table
  BY Zenon DEF Api!LoadCrudRecord
<1>3. status \in Nat /\ status \in {200, 201, 404}
  OBVIOUS
<1>4. /\ status < 400 /\ request[c].quiet => request[c].wrote
      /\ status >= 400 => /\ request[c].op = "update"
                          /\ table[id] # Null => ~Api!InScope(c, table[id])
  BY <1>1 DEF Api!Visible
<1>5. request[c].wrote \in BOOLEAN /\ request[c].quiet \in BOOLEAN
  BY DEF ApiInv, RequestType
<1> HIDE DEF status
<1> QED
  BY <1>1, <1>2, <1>3, <1>4, <1>5, AnswerFits

LEMMA ApiStep == ApiInv /\ [Api!Next]_(Api!vars) => ApiInv' /\ (KeyFixed => [Api!OneRow]_(Api!vars))
<1> SUFFICES ASSUME ApiInv, [Api!Next]_(Api!vars)
             PROVE  ApiInv' /\ (KeyFixed => [Api!OneRow]_(Api!vars))
  OBVIOUS
<1>1. ASSUME UNCHANGED dialect, NEW c \in Client, Api!ExecCreate(c) \/ Api!ExecUpdate(c) \/ Api!ExecDelete(c)
      PROVE  ApiInv' /\ (KeyFixed => Api!OneRow)
  BY <1>1, CreateFits, UpdateFits, DeleteFits
<1>2. ASSUME UNCHANGED dialect, NEW c \in Client,
             \/ Api!Receive(c) \/ Api!StatementFails(c) \/ Api!QueryData(c) \/ Api!QueryCount(c) \/ Api!QueryTotals(c) \/ Api!LoadCrudRecord(c)
      PROVE  ApiInv' /\ Api!OneRow
  <2>1. ApiInv'
    BY <1>2, ReceiveFits, FailureFits, DataFits, CountFits, TotalsFit, LoadFits
  <2>2. UNCHANGED table
    BY <1>2, Zenon DEF Api!Receive, Api!StatementFails, Api!QueryData, Api!QueryCount, Api!QueryTotals, Api!LoadCrudRecord
  <2> QED
    BY <2>1, <2>2 DEF Api!OneRow
<1>3. ASSUME UNCHANGED Api!vars
      PROVE  ApiInv'
  <2>1. UNCHANGED <<dialect, table, request>>
    BY <1>3 DEF Api!vars
  <2>2. ASSUME NEW c \in Client
        PROVE  ListFits(c)' /\ RequestWrites(c)' /\ ToldSo(c)'
    <3>1. Api!Visible(c)' = Api!Visible(c) /\ Rows' = Rows
      BY <2>1 DEF Api!Visible, Rows
    <3>2. Agrees(c)' = Agrees(c)
      BY <2>1, <3>1 DEF Agrees
    <3>3. Api!Returning' = Api!Returning /\ \A row : Api!InScope(c, row)' = Api!InScope(c, row)
      BY <2>1 DEF Api!Returning, Api!InScope, Api!Unscoped
    <3>4. ToldSo(c)' = ToldSo(c)
      BY <2>1, <3>3 DEF ToldSo
    <3> QED
      BY <2>1, <3>1, <3>2, <3>3, <3>4 DEF ApiInv, ListFits, RequestWrites, Brings
  <2> QED
    BY <2>1, <2>2 DEF ApiInv, RequestType, RowsKeyed
<1> QED
  BY <1>1, <1>2, <1>3 DEF Api!Next
-----------------------------------------------------------------------------
(* The histories in memory and in Supabase *)

Saved == ToSet(ScreenVersions)
MayBe == Saved \cup {NoDoc}

Record == [version : Nat, snapshot : BOOLEAN, spec : MayBe, meant : Saved,
           patches : {Versions!NoPatches} \cup {Versions!ComputePatches(b, a) : b \in Saved, a \in Saved}]

\* Each record holds what it was to hold, or how to get there from the one before.
Chained(R) ==
    \A v \in DOMAIN R :
        /\ R[v].version = v
        /\ IF R[v].snapshot THEN R[v].spec = R[v].meant
           ELSE v > 1 /\ R[v].patches = Versions!ComputePatches(R[v - 1].meant, R[v].meant)

From(R, i, v) == i \in 1 .. v /\ R[i].snapshot /\ \A j \in i + 1 .. v : ~R[j].snapshot

SaverCall == [pc : {"idle", "newest", "load", "first", "snapshot", "patches", "post", "save",
                    "loading", "patch", "done", "failed"},
              doc : MayBe, array : Nat, found : MayBe, from : Nat, version : Nat, before : MayBe]

\* What a call knows of the history R; all of it is about records that exist.
Fits(c, R) ==
    /\ c.pc # "idle" => c.doc \in Saved
    /\ c.pc = "first" => c.found \in Saved
    /\ c.pc \in {"snapshot", "patches", "post", "patch"} => c.version \in 1 .. Len(R) + 1
    /\ c.pc \in {"snapshot", "patches", "patch"} => ~Versions!IsSnapshot(c.version)
    /\ c.pc = "patches" => From(R, c.from, c.version - 1)
    /\ c.pc \in {"post", "patch"} /\ ~Versions!IsSnapshot(c.version) => c.before = R[c.version - 1].meant
    /\ c.pc \in {"save", "done"} => c.version \in 1 .. Len(R) /\ R[c.version].meant = c.doc

\* In memory one call at a time works on an array, which is or becomes the history.
MemoryFits ==
    /\ \A w \in Saver : saver[w].pc \in {"idle", "loading", "patch", "done"}
    /\ \A w, o \in Saver : {saver[w].pc, saver[o].pc} \subseteq {"loading", "patch"} => w = o
    /\ \A w \in Saver :
         LET c == saver[w]
         IN  /\ c.pc = "loading" => /\ c.array \in DOMAIN arrays /\ arrays[c.array] = <<>>
                                    /\ holder \in {0, c.array}
             /\ c.pc = "patch" => c.array = holder /\ holder # 0 /\ c.version = Versions!Newest + 1

\* An environment has the document of the version it points to.
Served(p, R) ==
    /\ DOMAIN p = {"production"}
    /\ \A e \in DOMAIN p :
         p[e].version = 0 \/ (p[e].version \in 1 .. Len(R) /\ p[e].doc = R[p[e].version].meant)

VersionType ==
    /\ store \in {"memory", "supabase"} /\ base \in MayBe
    /\ arrays \in Seq(Seq(Record)) /\ holder \in 0 .. Len(arrays)
    /\ saver \in [Saver -> SaverCall]

VersionInv ==
    /\ VersionType
    /\ \A k \in DOMAIN arrays : Chained(arrays[k])
    /\ \A w \in Saver : Fits(saver[w], Versions!History)
    /\ Served(pointer, Versions!History)
    /\ IF store = "memory" THEN MemoryFits
       ELSE Len(arrays) = 1 /\ holder = 1 /\ \A w \in Saver : saver[w].pc \notin {"loading", "patch"}

\* Calls on the store in memory follow each other.
OneByOne == "memory" \notin Overlapping

\* A history grows at its end.
Grown(R, S) == Len(R) <= Len(S) /\ \A v \in 1 .. Len(R) : S[v] = R[v]
-----------------------------------------------------------------------------
LEMMA SavedFunctions == \A d \in Saved : d = [p \in DOMAIN d |-> d[p]]
<1>1. \A f, g : f @@ g = [p \in DOMAIN (f @@ g) |-> (f @@ g)[p]]
  BY DEF @@
<1>2. DOMAIN ScreenVersions = 1 .. 3
  BY DEF ScreenVersions
<1>3. ASSUME NEW d \in Saved
      PROVE  \E f, g : d = f @@ g
  <2>1. PICK i \in 1 .. 3 : d = ScreenVersions[i]
    BY <1>2 DEF Saved, ToSet
  <2>2. i = 1 \/ i = 2 \/ i = 3
    OBVIOUS
  <2>3. CASE i = 1
    BY <2>1, <2>3 DEF ScreenVersions, InElement
  <2>4. CASE i = 2
    BY <2>1, <2>4 DEF ScreenVersions
  <2>5. CASE i = 3
    BY <2>1, <2>5 DEF ScreenVersions
  <2> QED
    BY <2>2, <2>3, <2>4, <2>5
<1> QED
  BY <1>1, <1>3

\* The patches between two documents lead from the one to the other.
LEMMA PatchesLead ==
    ASSUME NEW b \in Saved, NEW a \in Saved
    PROVE  Versions!ApplyPatches(b, Versions!ComputePatches(b, a)) = a
<1> DEFINE p == Versions!ComputePatches(b, a)
           r == Versions!ApplyPatches(b, p)
<1>1. /\ p.remove = DOMAIN b \ DOMAIN a
      /\ DOMAIN p.put = {k \in DOMAIN a : k \in DOMAIN b => b[k] # a[k]}
      /\ \A k \in DOMAIN p.put : p.put[k] = a[k]
  BY DEF Versions!ComputePatches
<1> HIDE DEF p
<1>2. /\ DOMAIN r = (DOMAIN b \ p.remove) \cup DOMAIN p.put
      /\ \A k \in DOMAIN r : r[k] = IF k \in DOMAIN p.put THEN p.put[k] ELSE b[k]
      /\ r = [k \in DOMAIN r |-> r[k]]
  BY DEF Versions!ApplyPatches
<1> HIDE DEF r
<1>3. a = [k \in DOMAIN a |-> a[k]]
  BY SavedFunctions
<1>4. DOMAIN r = DOMAIN a
  BY <1>1, <1>2
<1>5. \A k \in DOMAIN a : r[k] = a[k]
  BY <1>1, <1>2, <1>4
<1> QED
  BY <1>2, <1>3, <1>4, <1>5 DEF r, p

\* A nonempty set of numbers has a least one.
LEMMA LeastOf ==
    ASSUME NEW S \in SUBSET Nat, S # {}
    PROVE  \E i \in S : \A j \in S : i <= j
<1> DEFINE Less == OpToRel(<, Nat)
<1>1. \A j, k \in Nat : j < k => <<j, k>> \in Less
  BY DEF OpToRel
<1>2. IsWellFoundedOn(Less, Nat)
  BY NatLessThanWellFounded
<1> HIDE DEF Less
<1>3. PICK i \in S : \A j \in S : ~(<<j, i>> \in Less)
  BY <1>2, WFMin
<1>4. ASSUME NEW j \in S
      PROVE  i <= j
  <2>1. i \in Nat /\ j \in Nat /\ ~(j < i)
    BY <1>1, <1>3
  <2> QED
    BY <2>1
<1> QED
  BY <1>4

\* The first record is a snapshot, so each version has a nearest.
LEMMA NearestThere ==
    ASSUME NEW R \in Seq(Record), Chained(R), NEW v \in 1 .. Len(R)
    PROVE  From(R, Versions!Nearest(R, v), v)
<1> DEFINE back == {k \in 0 .. v - 1 : R[v - k].snapshot}
<1>1. DOMAIN R = 1 .. Len(R) /\ Len(R) \in Nat /\ v \in Nat /\ v >= 1
  OBVIOUS
<1>2. R[1].snapshot
  BY <1>1 DEF Chained
<1>3. v - 1 \in back /\ back \in SUBSET Nat
  BY <1>1, <1>2
<1>4. PICK k \in back : \A j \in back : k <= j
  BY <1>3, LeastOf
<1>5. v - k \in 1 .. v /\ R[v - k].snapshot
  BY <1>1
<1>6. ASSUME NEW j \in v - k + 1 .. v
      PROVE  ~R[j].snapshot
  <2>1. v - j \in 0 .. v - 1 /\ ~(k <= v - j) /\ v - (v - j) = j
    BY <1>1, <1>5
  <2>2. v - j \notin back
    BY <1>4, <2>1
  <2> QED
    BY <2>1, <2>2
<1>7. \E i \in 1 .. v : R[i].snapshot /\ \A j \in i + 1 .. v : ~R[j].snapshot
  BY <1>5, <1>6
<1> HIDE DEF back
<1> QED
  BY <1>7 DEF Versions!Nearest, From

\* The patches after a snapshot lead from version to version.
LEMMA ReplayedMeant ==
    ASSUME NEW R \in Seq(Record), Chained(R), NEW v \in 1 .. Len(R), NEW i, From(R, i, v)
    PROVE  Versions!Replayed(R, i, v) = R[v].meant
<1> DEFINE Turn(f, n) == IF n = 0 THEN R[i].spec ELSE Versions!ApplyPatches(f[n - 1], R[i + n].patches)
           meant == [n \in 0 .. v - i |-> R[i + n].meant]
           doc == CHOOSE f : f = [n \in 0 .. v - i |-> Turn(f, n)]
<1>1. /\ DOMAIN R = 1 .. Len(R) /\ Len(R) \in Nat /\ v \in Nat /\ i \in Nat /\ i >= 1 /\ i <= v
      /\ R[i].snapshot /\ \A j \in i + 1 .. v : ~R[j].snapshot
  BY DEF From
<1>2. ASSUME NEW n \in 0 .. v - i
      PROVE  R[i + n].meant = Turn(meant, n)
  <2>1. n \in Nat /\ i + n \in 1 .. Len(R) /\ i + n <= v
    BY <1>1
  <2>2. CASE n = 0
    BY <1>1, <2>1, <2>2 DEF Chained
  <2>3. CASE n # 0
    <3>1. n - 1 \in 0 .. v - i /\ meant[n - 1] = R[i + (n - 1)].meant /\ i + (n - 1) = i + n - 1
      BY <1>1, <2>1, <2>3
    <3>2. ~R[i + n].snapshot
      BY <1>1, <2>1, <2>3
    <3>3. R[i + n].patches = Versions!ComputePatches(R[i + n - 1].meant, R[i + n].meant)
      BY <1>1, <2>1, <3>2 DEF Chained
    <3>4. R[i + n].meant \in Saved /\ R[i + n - 1].meant \in Saved
      <4>1. i + n \in DOMAIN R /\ i + n - 1 \in DOMAIN R
        BY <1>1, <2>1, <2>3
      <4>2. \A k \in DOMAIN R : R[k] \in Record
        OBVIOUS
      <4> QED
        BY <4>1, <4>2 DEF Record
    <3> HIDE DEF meant
    <3> QED
      BY <2>3, <3>1, <3>3, <3>4, PatchesLead
  <2> QED
    BY <2>2, <2>3
<1> HIDE DEF Turn
<1>3. meant = [n \in 0 .. v - i |-> Turn(meant, n)]
  BY <1>2
<1>4. doc = [n \in 0 .. v - i |-> Turn(doc, n)]
  BY <1>3
<1>5. \A n \in 0 .. v - i : doc[n] = Turn(doc, n) /\ meant[n] = Turn(meant, n)
  <2> HIDE DEF doc, meant
  <2> QED
    BY <1>3, <1>4, Zenon
<1>6. Versions!Replayed(R, i, v) = doc[v - i]
  BY DEF Versions!Replayed, Turn
<1>7. v - i \in 0 .. v - i /\ i + (v - i) = v /\ meant[v - i] = R[v].meant
  BY <1>1
<1> HIDE DEF meant, doc
<1> DEFINE wrong == {n \in 0 .. v - i : doc[n] # meant[n]}
<1>8. ASSUME wrong # {}
      PROVE  FALSE
  <2>1. wrong \in SUBSET Nat
    BY <1>1
  <2>2. PICK n \in wrong : \A k \in wrong : n <= k
    BY <1>8, <2>1, LeastOf
  <2>3. n \in 0 .. v - i /\ n \in Nat /\ doc[n] = Turn(doc, n) /\ meant[n] = Turn(meant, n) /\ doc[n] # meant[n]
    <3>1. n \in 0 .. v - i /\ doc[n] # meant[n]
      OBVIOUS
    <3> QED
      BY <1>1, <1>5, <3>1
  <2>4. n # 0 => doc[n - 1] = meant[n - 1]
    <3> SUFFICES ASSUME n # 0
                 PROVE  n - 1 \in 0 .. v - i /\ n - 1 \notin wrong
      OBVIOUS
    <3> QED
      BY <1>1, <2>2, <2>3
  <2> QED
    BY <2>3, <2>4 DEF Turn
<1> QED
  BY <1>6, <1>7, <1>8

LEMMA RebuiltMeant ==
    ASSUME NEW R \in Seq(Record), Chained(R), NEW v \in 1 .. Len(R)
    PROVE  Versions!Rebuilt(R, v) = R[v].meant
BY NearestThere, ReplayedMeant DEF Versions!Rebuilt
-----------------------------------------------------------------------------
LEMMA FitsKept ==
    ASSUME NEW R \in Seq(Record), NEW S \in Seq(Record), Grown(R, S), NEW c \in SaverCall, Fits(c, R)
    PROVE  Fits(c, S)
<1>1. Len(R) \in Nat /\ Len(S) \in Nat /\ Len(R) <= Len(S) /\ \A v \in 1 .. Len(R) : S[v] = R[v]
  BY DEF Grown
<1>2. c.version \in Nat
  BY DEF SaverCall
<1>3. ASSUME c.pc = "patches"
      PROVE  From(S, c.from, c.version - 1)
  <2>1. c.version \in 1 .. Len(R) + 1 /\ From(R, c.from, c.version - 1)
    BY <1>3 DEF Fits
  <2>2. \A j \in c.from .. c.version - 1 : c.from >= 1 => S[j] = R[j]
    BY <1>1, <1>2, <2>1 DEF From
  <2>3. c.from \in Nat /\ c.from >= 1 /\ c.from <= c.version - 1 /\ c.from \in c.from .. c.version - 1
    BY <1>2, <2>1 DEF From
  <2> QED
    BY <1>2, <2>1, <2>2, <2>3 DEF From
<1>4. c.version \in 1 .. Len(R) + 1 /\ ~Versions!IsSnapshot(c.version) => S[c.version - 1] = R[c.version - 1]
  BY <1>1, <1>2 DEF Versions!IsSnapshot
<1>5. c.version \in 1 .. Len(R) => c.version \in 1 .. Len(S) /\ S[c.version] = R[c.version]
  BY <1>1, <1>2
<1>6. c.version \in 1 .. Len(R) + 1 => c.version \in 1 .. Len(S) + 1
  BY <1>1, <1>2
<1> QED
  BY <1>3, <1>4, <1>5, <1>6 DEF Fits

LEMMA ServedKept ==
    ASSUME NEW R \in Seq(Record), NEW S \in Seq(Record), Grown(R, S), NEW p, Served(p, R)
    PROVE  Served(p, S)
<1>1. Len(R) \in Nat /\ Len(S) \in Nat /\ Len(R) <= Len(S) /\ \A v \in 1 .. Len(R) : S[v] = R[v]
  BY DEF Grown
<1> QED
  BY <1>1 DEF Served

LEMMA GrownOn ==
    ASSUME NEW R \in Seq(Record), NEW S \in Seq(Record), NEW T \in Seq(Record), Grown(R, S), Grown(S, T)
    PROVE  Grown(R, T)
<1>1. Len(R) \in Nat /\ Len(S) \in Nat /\ Len(T) \in Nat
  OBVIOUS
<1> QED
  BY <1>1 DEF Grown

\* A record that is a snapshot, or has the patches from the last one, goes on the history.
LEMMA RecordAdded ==
    ASSUME NEW R \in Seq(Record), Chained(R), NEW d \in Saved, NEW r,
           \/ r = Versions!Snapshot(Len(R) + 1, d)
           \/ R # <<>> /\ r = Versions!Patched(Len(R) + 1, R[Len(R)].meant, d)
    PROVE  LET S == Append(R, r)
           IN  /\ S \in Seq(Record) /\ Chained(S) /\ Grown(R, S)
               /\ Len(S) = Len(R) + 1 /\ S[Len(R) + 1].meant = d
<1> DEFINE n == Len(R)
           S == Append(R, r)
<1>1. n \in Nat /\ DOMAIN R = 1 .. n /\ (R # <<>> => n > 0)
  OBVIOUS
<1>2. ASSUME R # <<>>
      PROVE  R[n].meant \in Saved
  <2>1. n \in DOMAIN R
    BY <1>1, <1>2
  <2>2. R[n] \in Record
    BY <2>1
  <2> QED
    BY <2>2 DEF Record
<1>3. /\ r \in Record /\ r.version = n + 1 /\ r.meant = d
      /\ IF r.snapshot THEN r.spec = d
         ELSE R # <<>> /\ r.patches = Versions!ComputePatches(R[n].meant, d)
  <2> HIDE DEF n
  <2>1. CASE r = Versions!Snapshot(n + 1, d)
    <3>1. Versions!NoPatches \in {Versions!NoPatches} \cup {Versions!ComputePatches(b, a) : b \in Saved, a \in Saved}
      OBVIOUS
    <3>2. d \in MayBe /\ n + 1 \in Nat
      BY <1>1 DEF MayBe
    <3> QED
      BY <2>1, <3>1, <3>2 DEF Record, Versions!Snapshot
  <2>2. CASE R # <<>> /\ r = Versions!Patched(n + 1, R[n].meant, d)
    <3>1. Versions!ComputePatches(R[n].meant, d)
            \in {Versions!NoPatches} \cup {Versions!ComputePatches(b, a) : b \in Saved, a \in Saved}
      BY <1>2, <2>2
    <3>2. NoDoc \in MayBe /\ n + 1 \in Nat
      BY <1>1 DEF MayBe
    <3> QED
      BY <2>2, <3>1, <3>2 DEF Record, Versions!Patched
  <2> QED
    BY <2>1, <2>2 DEF n
<1>4. S \in Seq(Record) /\ Len(S) = n + 1 /\ S[n + 1] = r /\ \A v \in 1 .. n : S[v] = R[v]
  BY <1>1, <1>3
<1>5. DOMAIN S = 1 .. n + 1
  BY <1>4
<1> HIDE DEF S, n
<1>6. Chained(S)
  <2> SUFFICES ASSUME NEW v \in 1 .. n + 1
               PROVE  /\ S[v].version = v
                      /\ IF S[v].snapshot THEN S[v].spec = S[v].meant
                         ELSE v > 1 /\ S[v].patches = Versions!ComputePatches(S[v - 1].meant, S[v].meant)
    BY <1>5 DEF Chained
  <2>1. CASE v \in 1 .. n
    <3>1. S[v] = R[v] /\ (v > 1 => S[v - 1] = R[v - 1])
      BY <1>1, <1>4, <2>1
    <3> QED
      BY <1>1, <2>1, <3>1 DEF Chained
  <2>2. CASE v = n + 1
    <3>1. R # <<>> => n > 0 /\ v - 1 = n /\ S[v - 1] = R[n]
      BY <1>1, <1>4, <2>2
    <3> QED
      BY <1>1, <1>3, <1>4, <2>2, <3>1
  <2> QED
    BY <1>1, <2>1, <2>2
<1>7. Grown(R, S)
  BY <1>1, <1>4 DEF Grown, n
<1> QED
  BY <1>3, <1>4, <1>6, <1>7 DEF S, n

LEMMA HistoryChained ==
    ASSUME VersionInv
    PROVE  Versions!History \in Seq(Record) /\ Chained(Versions!History)
<1>1. CASE holder = 0
  BY <1>1 DEF Versions!History, Chained
<1>2. CASE holder # 0
  <2>1. holder \in DOMAIN arrays /\ arrays \in Seq(Seq(Record))
    BY <1>2 DEF VersionInv, VersionType
  <2>2. arrays[holder] \in Seq(Record)
    BY <2>1
  <2> QED
    BY <1>2, <2>1, <2>2 DEF Versions!History, VersionInv
<1> QED
  BY <1>1, <1>2

\* What a step of one call has to show.
LEMMA CallStepFits ==
    ASSUME VersionInv, NEW w \in Saver, NEW c \in SaverCall, saver' = [saver EXCEPT ![w] = c],
           UNCHANGED <<store, pointer>>, base' \in MayBe,
           arrays' \in Seq(Seq(Record)), holder' \in 0 .. Len(arrays'),
           \A k \in DOMAIN arrays' : Chained(arrays'[k]),
           NEW S \in Seq(Record), Versions!History' = S, Grown(Versions!History, S), Fits(c, S),
           IF store = "memory" THEN MemoryFits'
           ELSE Len(arrays') = 1 /\ holder' = 1 /\ c.pc \notin {"loading", "patch"}
    PROVE  VersionInv'
<1>1. saver \in [Saver -> SaverCall] /\ Versions!History \in Seq(Record)
  BY HistoryChained DEF VersionInv, VersionType
<1>2. VersionType'
  BY <1>1 DEF VersionInv, VersionType
<1>3. ASSUME NEW o \in Saver
      PROVE  Fits(saver'[o], S)
  <2>1. CASE o = w
    BY <1>1, <2>1
  <2>2. CASE o # w
    <3>1. saver'[o] = saver[o] /\ saver[o] \in SaverCall /\ Fits(saver[o], Versions!History)
      BY <1>1, <2>2 DEF VersionInv
    <3> QED
      BY <1>1, <3>1, FitsKept
  <2> QED
    BY <2>1, <2>2
<1>4. Served(pointer', S)
  BY <1>1, ServedKept DEF VersionInv
<1>5. store # "memory" => \A o \in Saver : saver'[o].pc \notin {"loading", "patch"}
  BY <1>1 DEF VersionInv
<1> QED
  BY <1>2, <1>3, <1>4, <1>5 DEF VersionInv
-----------------------------------------------------------------------------
(* The calls in memory *)

LEMMA ContinuedKeeps ==
    ASSUME VersionInv, store = "memory", UNCHANGED <<store, pointer>>,
           NEW w \in Saver, \A o \in Saver \ {w} : saver[o].pc \in {"idle", "done"},
           NEW job \in SaverCall, job.doc \in Saved,
           NEW heap \in Seq(Seq(Record)), \A k \in DOMAIN heap : Chained(heap[k]),
           job.array \in DOMAIN heap,
           Grown(Versions!History, heap[job.array]),
           heap = arrays /\ holder # job.array => heap[job.array] = <<>>,
           Versions!Continued(w, job, heap)
    PROVE  VersionInv'
<1> DEFINE n == job.array
           R == heap[n]
           v == Len(R) + 1
<1>1. /\ n \in DOMAIN heap /\ n \in 1 .. Len(heap) /\ n # 0 /\ R \in Seq(Record) /\ Chained(R)
      /\ Len(R) \in Nat /\ Versions!History \in Seq(Record)
  BY HistoryChained
<1>2. CASE Versions!IsSnapshot(v)
  <2> DEFINE S == Append(R, Versions!Snapshot(v, job.doc))
             c == [job EXCEPT !.pc = "done", !.version = v]
  <2>1. /\ arrays' = [heap EXCEPT ![n] = S] /\ holder' = n /\ base' = job.doc
        /\ saver' = [saver EXCEPT ![w] = c]
    BY <1>2 DEF Versions!Continued
  <2>2. /\ S \in Seq(Record) /\ Chained(S) /\ Grown(R, S)
        /\ Len(S) = Len(R) + 1 /\ S[Len(R) + 1].meant = job.doc
    BY <1>1, RecordAdded
  <2> HIDE DEF S
  <2>3. /\ arrays' \in Seq(Seq(Record)) /\ Len(arrays') = Len(heap) /\ arrays'[n] = S
        /\ \A k \in DOMAIN arrays' : Chained(arrays'[k])
    <3> HIDE DEF R
    <3> QED
      BY <1>1, <2>1, <2>2
  <2>4. Versions!History' = S /\ holder' \in 0 .. Len(arrays')
    BY <1>1, <2>1, <2>3 DEF Versions!History
  <2>5. Grown(Versions!History, S)
    BY <1>1, <2>2, GrownOn
  <2>6. c \in SaverCall /\ c.pc = "done" /\ c.version = v /\ c.doc = job.doc
    <3>1. v \in Nat
      BY <1>1
    <3> HIDE DEF v, R
    <3> QED
      BY <3>1 DEF SaverCall
  <2>7. Fits(c, S)
    <3> HIDE DEF c
    <3> QED
      BY <1>1, <2>2, <2>6 DEF Fits
  <2>8. MemoryFits'
    <3>1. \A o \in Saver : saver'[o].pc \in {"idle", "done"}
      <4> HIDE DEF c
      <4> QED
        BY <2>1, <2>6 DEF VersionInv, VersionType
    <3> QED
      BY <3>1 DEF MemoryFits
  <2> HIDE DEF c
  <2>9. base' \in MayBe
    BY <2>1 DEF MayBe
  <2> QED
    BY <2>1, <2>2, <2>3, <2>4, <2>5, <2>6, <2>7, <2>8, <2>9, CallStepFits
<1>3. CASE ~Versions!IsSnapshot(v)
  <2> DEFINE c == [job EXCEPT !.pc = "patch", !.version = v, !.before = Versions!Rebuilt(R, v - 1)]
  <2>1. /\ arrays' = heap /\ base' = base /\ saver' = [saver EXCEPT ![w] = c]
        /\ holder' = IF heap = arrays THEN holder ELSE n
    BY <1>3 DEF Versions!Continued
  <2>2. v - 1 = Len(R) /\ v - 1 \in 1 .. Len(R) /\ v \in 1 .. Len(R) + 1 /\ v \in Nat
    <3>1. v # 1
      BY <1>3 DEF Versions!IsSnapshot
    <3> QED
      BY <1>1, <3>1
  <2>3. holder' = n /\ Versions!History' = R /\ holder' \in 0 .. Len(arrays')
    <3>1. R # <<>>
      BY <1>1, <2>2
    <3> QED
      BY <1>1, <2>1, <3>1 DEF Versions!History
  <2>4. Versions!Rebuilt(R, v - 1) = R[v - 1].meant
    BY <1>1, <2>2, RebuiltMeant
  <2>5. R[v - 1].meant \in MayBe
    <3> HIDE DEF R, v
    <3>1. v - 1 \in DOMAIN R
      BY <1>1, <2>2
    <3>2. R[v - 1] \in Record
      BY <1>1, <3>1
    <3> QED
      BY <3>2 DEF Record, MayBe
  <2>6. /\ c \in SaverCall /\ c.pc = "patch" /\ c.version = v /\ c.doc = job.doc
        /\ c.before = R[v - 1].meant /\ c.array = n
    <3> HIDE DEF v, R
    <3> QED
      BY <2>2, <2>4, <2>5 DEF SaverCall
  <2> HIDE DEF c
  <2>7. Fits(c, R)
    BY <1>1, <1>3, <2>2, <2>6 DEF Fits
  <2>8. MemoryFits'
    <3>1. \A o \in Saver : IF o = w THEN saver'[o] = c ELSE saver'[o].pc \in {"idle", "done"}
      BY <2>1 DEF VersionInv, VersionType
    <3>2. Versions!Newest' = Len(R)
      BY <2>3 DEF Versions!Newest
    <3> QED
      BY <1>1, <2>3, <2>6, <3>1, <3>2 DEF MemoryFits
  <2>9. base' \in MayBe
    BY <2>1 DEF VersionInv, VersionType
  <2> QED
    BY <1>1, <2>1, <2>3, <2>6, <2>7, <2>8, <2>9, CallStepFits
<1> QED
  BY <1>2, <1>3

LEMMA SavesSaved ==
    ASSUME NEW w \in Saver
    PROVE  ScreenVersions[w] \in Saved
<1>1. w \in DOMAIN ScreenVersions
  BY SavedScreens
<1> QED
  BY <1>1, Zenon DEF Saved, ToSet

LEMMA BeginKeeps ==
    ASSUME VersionInv, OneByOne, NEW w \in Saver, Versions!Begin(w)
    PROVE  VersionInv'
<1> DEFINE heap == IF holder = 0 THEN Append(arrays, <<>>) ELSE arrays
           job == [Versions!Free EXCEPT !.doc = ScreenVersions[w], !.array = IF holder = 0 THEN Len(heap) ELSE holder]
<1>1. store = "memory" /\ UNCHANGED <<store, losses, pointer>> /\ Versions!MayStart(w)
  BY DEF Versions!Begin
<1>2. \A o \in Saver : saver[o].pc \in {"idle", "done"}
  <2>1. \A o \in Saver : saver[o].pc \in {"idle", "done", "failed"}
    BY <1>1 DEF Versions!MayStart, Versions!Writer, OneByOne
  <2> QED
    BY <1>1, <2>1 DEF VersionInv, MemoryFits
<1>3. /\ arrays \in Seq(Seq(Record)) /\ holder \in 0 .. Len(arrays) /\ base \in MayBe
      /\ \A k \in DOMAIN arrays : Chained(arrays[k])
  BY DEF VersionInv, VersionType
<1>4. ScreenVersions[w] \in Saved
  BY SavesSaved
<1>5. /\ heap \in Seq(Seq(Record)) /\ job.array \in DOMAIN heap /\ job.array \in Nat
      /\ holder \in {0, job.array} /\ job.array # 0 /\ Len(arrays) <= Len(heap)
      /\ holder = 0 => heap[job.array] = <<>>
      /\ \A k \in DOMAIN heap : heap[k] = <<>> \/ (k \in DOMAIN arrays /\ heap[k] = arrays[k])
  <2>1. CASE holder = 0
    BY <1>3, <2>1
  <2>2. CASE holder # 0
    BY <1>3, <2>2
  <2> QED
    BY <2>1, <2>2
<1>6. \A k \in DOMAIN heap : Chained(heap[k])
  <2>1. Chained(<<>>)
    BY DEF Chained
  <2> QED
    BY <1>3, <1>5, <2>1
<1>7. job \in SaverCall /\ job.doc = ScreenVersions[w] /\ job.pc = "idle"
  BY <1>4, <1>5 DEF SaverCall, MayBe, Versions!Free
<1>8. CASE heap[job.array] = <<>>
  <2> DEFINE c == [job EXCEPT !.pc = "loading", !.found = base]
  <2>1. saver' = [saver EXCEPT ![w] = c] /\ arrays' = heap /\ UNCHANGED <<base, holder>>
    BY <1>8 DEF Versions!Begin
  <2>2. c \in SaverCall /\ c.pc = "loading" /\ c.array = job.array /\ c.doc = ScreenVersions[w]
    <3> HIDE DEF job
    <3> QED
      BY <1>3, <1>7 DEF SaverCall
  <2> HIDE DEF c
  <2>3. Versions!History' = Versions!History
    BY <1>3, <1>5, <2>1 DEF Versions!History
  <2>4. Versions!History \in Seq(Record)
    BY HistoryChained
  <2>5. Grown(Versions!History, Versions!History)
    BY <2>4 DEF Grown
  <2>6. Fits(c, Versions!History)
    BY <1>4, <2>2 DEF Fits
  <2>7. MemoryFits'
    <3>1. \A o \in Saver : IF o = w THEN saver'[o] = c ELSE saver'[o].pc \in {"idle", "done"}
      BY <1>2, <2>1 DEF VersionInv, VersionType
    <3> HIDE DEF heap, job
    <3> QED
      BY <1>5, <1>8, <2>1, <2>2, <3>1 DEF MemoryFits
  <2>8. holder' \in 0 .. Len(arrays')
    BY <1>3, <1>5, <2>1
  <2> HIDE DEF heap, job
  <2> QED
    BY <1>1, <1>3, <1>5, <1>6, <2>1, <2>2, <2>3, <2>4, <2>5, <2>6, <2>7, <2>8, CallStepFits
<1>9. CASE heap[job.array] # <<>>
  <2>1. holder # 0 /\ heap = arrays /\ job.array = holder
    BY <1>5, <1>9
  <2>2. Versions!Continued(w, job, arrays)
    BY <1>9 DEF Versions!Begin
  <2>3. Grown(Versions!History, arrays[job.array])
    BY <2>1, HistoryChained DEF Grown, Versions!History
  <2> HIDE DEF heap, job
  <2> QED
    BY <1>1, <1>2, <1>3, <1>4, <1>5, <1>6, <1>7, <2>1, <2>2, <2>3, ContinuedKeeps
<1> QED
  BY <1>8, <1>9

\* In memory the other calls of one under way are idle or done.
LEMMA OthersRest ==
    ASSUME VersionInv, store = "memory", NEW w \in Saver, saver[w].pc \in {"loading", "patch"}
    PROVE  \A o \in Saver \ {w} : saver[o].pc \in {"idle", "done"}
BY DEF VersionInv, MemoryFits

LEMMA BootstrapKeeps ==
    ASSUME VersionInv, NEW w \in Saver, Versions!Bootstrap(w)
    PROVE  VersionInv'
<1> DEFINE job == saver[w]
           n == job.array
           heap == [arrays EXCEPT ![n] = Append(@, Versions!Snapshot(1, job.found))]
<1>1. store = "memory" /\ UNCHANGED <<store, pointer>> /\ job.pc = "loading"
  BY DEF Versions!Bootstrap
<1>2. \A o \in Saver \ {w} : saver[o].pc \in {"idle", "done"}
  BY <1>1, OthersRest
<1>3. /\ job \in SaverCall /\ job.doc \in Saved /\ n \in DOMAIN arrays /\ arrays[n] = <<>>
      /\ holder \in {0, n} /\ arrays \in Seq(Seq(Record)) /\ \A k \in DOMAIN arrays : Chained(arrays[k])
  BY <1>1 DEF VersionInv, VersionType, Fits, MemoryFits
<1>4. Versions!History = <<>>
  BY <1>3 DEF Versions!History
<1>5. CASE job.found = NoDoc
  <2>1. Versions!Continued(w, job, arrays)
    BY <1>5 DEF Versions!Bootstrap
  <2>2. Grown(Versions!History, arrays[n])
    BY <1>3, <1>4 DEF Grown
  <2> HIDE DEF job
  <2> QED
    BY <1>1, <1>2, <1>3, <2>1, <2>2, ContinuedKeeps
<1>6. CASE job.found # NoDoc
  <2> DEFINE S == Append(<<>>, Versions!Snapshot(1, job.found))
  <2>1. Versions!Continued(w, job, heap)
    BY <1>6 DEF Versions!Bootstrap
  <2>2. job.found \in Saved
    BY <1>3, <1>6 DEF SaverCall, MayBe
  <2>3. S \in Seq(Record) /\ Chained(S) /\ Len(S) = 1
    <3> DEFINE R == <<>>
               r == Versions!Snapshot(1, job.found)
    <3>1. R \in Seq(Record) /\ Chained(R) /\ Len(R) = 0
      BY DEF Chained
    <3>2. r = Versions!Snapshot(Len(R) + 1, job.found)
      BY <3>1
    <3>3. S = Append(R, r)
      OBVIOUS
    <3> HIDE DEF R, r, S, job
    <3>4. Append(R, r) \in Seq(Record) /\ Chained(Append(R, r)) /\ Len(Append(R, r)) = Len(R) + 1
      BY <2>2, <3>1, <3>2, RecordAdded
    <3> QED
      BY <3>1, <3>3, <3>4
  <2>4. heap = [arrays EXCEPT ![n] = S]
    BY <1>3
  <2> HIDE DEF S, heap, n
  <2>5. heap \in Seq(Seq(Record)) /\ n \in DOMAIN heap /\ heap[n] = S /\ \A k \in DOMAIN heap : Chained(heap[k])
    BY <1>3, <2>3, <2>4
  <2>6. heap # arrays
    <3>1. S # <<>>
      BY <2>3
    <3> QED
      BY <1>3, <2>5, <3>1, Zenon
  <2>7. Grown(Versions!History, heap[n])
    BY <1>4, <2>3, <2>5 DEF Grown
  <2> HIDE DEF job
  <2> QED
    BY <1>1, <1>2, <1>3, <2>1, <2>5, <2>6, <2>7, ContinuedKeeps DEF n
<1> QED
  BY <1>5, <1>6

LEMMA PushKeeps ==
    ASSUME VersionInv, NEW w \in Saver, Versions!Push(w)
    PROVE  VersionInv'
<1> DEFINE job == saver[w]
           R == Versions!History
           S == Append(R, Versions!Patched(job.version, job.before, job.doc))
           c == Versions!Ended(w, "done")
<1>1. /\ store = "memory" /\ UNCHANGED <<store, pointer>> /\ job.pc = "patch"
      /\ base' = job.doc /\ holder' = job.array /\ saver' = [saver EXCEPT ![w] = c]
      /\ arrays' = [arrays EXCEPT ![job.array] = Append(@, Versions!Patched(job.version, job.before, job.doc))]
  BY DEF Versions!Push
<1>2. \A o \in Saver \ {w} : saver[o].pc \in {"idle", "done"}
  BY <1>1, OthersRest
<1>3. /\ job \in SaverCall /\ job.doc \in Saved /\ job.array = holder /\ holder # 0 /\ holder \in DOMAIN arrays
      /\ arrays \in Seq(Seq(Record)) /\ \A k \in DOMAIN arrays : Chained(arrays[k])
      /\ job.version = Len(R) + 1 /\ job.version # 1 /\ job.before = R[job.version - 1].meant
  BY <1>1 DEF VersionInv, VersionType, Fits, MemoryFits, Versions!Newest, Versions!IsSnapshot
<1>4. R \in Seq(Record) /\ Chained(R) /\ R = arrays[holder]
  BY <1>3, HistoryChained DEF Versions!History
<1>5. R # <<>> /\ job.before = R[Len(R)].meant /\ Len(R) \in Nat
  <2> HIDE DEF R
  <2> QED
    BY <1>3, <1>4
<1> HIDE DEF R
<1>6. /\ S \in Seq(Record) /\ Chained(S) /\ Grown(R, S)
      /\ Len(S) = Len(R) + 1 /\ S[Len(R) + 1].meant = job.doc
  BY <1>3, <1>4, <1>5, RecordAdded
<1>7. arrays' = [arrays EXCEPT ![holder] = S] /\ holder' = holder
  BY <1>1, <1>3, <1>4
<1> HIDE DEF S
<1>8. /\ arrays' \in Seq(Seq(Record)) /\ Len(arrays') = Len(arrays) /\ arrays'[holder] = S
      /\ \A k \in DOMAIN arrays' : Chained(arrays'[k])
  BY <1>3, <1>6, <1>7
<1>9. Versions!History' = S /\ holder' \in 0 .. Len(arrays')
  BY <1>3, <1>7, <1>8 DEF Versions!History
<1>10. c \in SaverCall /\ c.pc = "done" /\ c.version = job.version /\ c.doc = job.doc
  BY <1>3 DEF SaverCall, Versions!Ended
<1> HIDE DEF c, job
<1>11. Fits(c, S)
  BY <1>3, <1>5, <1>6, <1>10 DEF Fits
<1>12. MemoryFits'
  <2>1. \A o \in Saver : saver'[o].pc \in {"idle", "done"}
    BY <1>1, <1>2, <1>10 DEF VersionInv, VersionType
  <2> QED
    BY <2>1 DEF MemoryFits
<1>13. base' \in MayBe
  BY <1>1, <1>3 DEF MayBe
<1> QED
  BY <1>1, <1>6, <1>8, <1>9, <1>10, <1>11, <1>12, <1>13, CallStepFits DEF R
-----------------------------------------------------------------------------
(* The requests to Supabase *)

LEMMA TableThere ==
    ASSUME VersionInv, store = "supabase"
    PROVE  /\ arrays \in Seq(Seq(Record)) /\ Len(arrays) = 1 /\ holder = 1 /\ Versions!History = arrays[1]
           /\ Versions!History \in Seq(Record) /\ Chained(Versions!History) /\ Len(Versions!History) \in Nat
           /\ Versions!Newest = Len(Versions!History) /\ base \in MayBe
           /\ \A w \in Saver : saver[w] \in SaverCall /\ Fits(saver[w], Versions!History)
<1>1. Versions!History \in Seq(Record) /\ Chained(Versions!History)
  BY HistoryChained
<1> QED
  BY <1>1 DEF VersionInv, VersionType, Versions!History, Versions!Newest

\* A step that writes nothing to the table.
LEMMA AskFits ==
    ASSUME VersionInv, store = "supabase", NEW w \in Saver, NEW c \in SaverCall,
           saver' = [saver EXCEPT ![w] = c], UNCHANGED <<store, arrays, holder, pointer>>, base' \in MayBe,
           Fits(c, Versions!History), c.pc \notin {"loading", "patch"}
    PROVE  VersionInv'
<1>1. Versions!History' = Versions!History
  BY DEF Versions!History
<1>2. Versions!History \in Seq(Record) /\ Grown(Versions!History, Versions!History)
  BY TableThere DEF Grown
<1>3. holder \in 0 .. Len(arrays) /\ \A k \in DOMAIN arrays : Chained(arrays[k])
  BY DEF VersionInv, VersionType
<1> QED
  BY <1>1, <1>2, <1>3, TableThere, CallStepFits

\* Arrays of which each is chained.
Heap(A) == A \in Seq(Seq(Record)) /\ \A k \in DOMAIN A : Chained(A[k])

LEMMA ArrayChanged ==
    \A A, S, n : Heap(A) /\ n \in DOMAIN A /\ S \in Seq(Record) /\ Chained(S) =>
        /\ Heap([A EXCEPT ![n] = S]) /\ Len([A EXCEPT ![n] = S]) = Len(A)
        /\ [A EXCEPT ![n] = S][n] = S
BY DEF Heap

\* A step that adds a row.
LEMMA RowFits ==
    ASSUME VersionInv, store = "supabase", NEW w \in Saver, NEW c \in SaverCall,
           saver' = [saver EXCEPT ![w] = c], UNCHANGED <<store, base, holder, pointer>>,
           NEW r, NEW d \in Saved,
           \/ r = Versions!Snapshot(Len(Versions!History) + 1, d)
           \/ /\ Versions!History # <<>>
              /\ r = Versions!Patched(Len(Versions!History) + 1, Versions!History[Len(Versions!History)].meant, d),
           arrays' = [arrays EXCEPT ![1] = Append(@, r)],
           NEW S, S = Append(Versions!History, r),
           Len(S) = Len(Versions!History) + 1 /\ S[Len(S)].meant = d => Fits(c, S),
           c.pc \notin {"loading", "patch"}
    PROVE  VersionInv'
<1> DEFINE R == Versions!History
<1>1. /\ arrays \in Seq(Seq(Record)) /\ Len(arrays) = 1 /\ holder = 1 /\ R = arrays[1]
      /\ R \in Seq(Record) /\ Chained(R) /\ Len(R) \in Nat /\ base \in MayBe
      /\ \A k \in DOMAIN arrays : Chained(arrays[k])
  BY TableThere DEF VersionInv
<1>2. arrays' = [arrays EXCEPT ![1] = S] /\ 1 \in DOMAIN arrays
  BY <1>1
<1>3. Versions!History' = arrays'[1]
  BY <1>1 DEF Versions!History
<1> HIDE DEF R
<1>4. /\ S \in Seq(Record) /\ Chained(S) /\ Grown(R, S)
      /\ Len(S) = Len(R) + 1 /\ S[Len(R) + 1].meant = d
  BY <1>1, RecordAdded DEF R
<1>5. /\ arrays' \in Seq(Seq(Record)) /\ Len(arrays') = 1 /\ arrays'[1] = S
      /\ \A k \in DOMAIN arrays' : Chained(arrays'[k])
  <2> DEFINE B == [arrays EXCEPT ![1] = S]
  <2>1. Heap(arrays)
    BY <1>1 DEF Heap
  <2>2. Heap(B) /\ Len(B) = Len(arrays) /\ B[1] = S
    BY <1>2, <1>4, <2>1, ArrayChanged, Zenon
  <2>3. arrays' = B
    BY <1>2
  <2> HIDE DEF B
  <2> QED
    BY <1>1, <2>2, <2>3, Zenon DEF Heap
<1>6. Fits(c, S)
  BY <1>4 DEF R
<1>7. holder' \in 0 .. Len(arrays') /\ holder' = 1 /\ base' \in MayBe
  BY <1>1, <1>5
<1> QED
  BY <1>3, <1>4, <1>5, <1>6, <1>7, CallStepFits DEF R

\* The version after the newest is posted at once or waits for the records before it.
LEMMA ChosenFits ==
    ASSUME NEW R \in Seq(Record), NEW c \in SaverCall, c.doc \in Saved, NEW n \in 0 .. Len(R)
    PROVE  /\ Versions!Chosen(c, n) \in SaverCall /\ Fits(Versions!Chosen(c, n), R)
           /\ Versions!Chosen(c, n).pc \notin {"loading", "patch"}
<1> DEFINE d == Versions!Chosen(c, n)
<1>1. n + 1 \in Nat /\ n + 1 \in 1 .. Len(R) + 1
  <2>1. Len(R) \in Nat
    OBVIOUS
  <2> QED
    BY <2>1
<1>2. CASE Versions!IsSnapshot(n + 1)
  <2>1. d \in SaverCall /\ d.pc = "post" /\ d.version = n + 1 /\ d.doc = c.doc
    BY <1>1, <1>2 DEF SaverCall, Versions!Chosen
  <2> HIDE DEF d
  <2> QED
    BY <1>1, <1>2, <2>1 DEF Fits, d
<1>3. CASE ~Versions!IsSnapshot(n + 1)
  <2>1. d \in SaverCall /\ d.pc = "snapshot" /\ d.version = n + 1 /\ d.doc = c.doc
    BY <1>1, <1>3 DEF SaverCall, Versions!Chosen
  <2> HIDE DEF d
  <2> QED
    BY <1>1, <1>3, <2>1 DEF Fits, d
<1> QED
  BY <1>2, <1>3

\* A call that ends, whatever it knew.
LEMMA EndedFits ==
    ASSUME VersionInv, store = "supabase", NEW w \in Saver, saver[w].pc # "idle",
           NEW how \in {"load", "failed"}
    PROVE  /\ Versions!Ended(w, how) \in SaverCall /\ Versions!Ended(w, how).pc = how
           /\ \A R : Fits(Versions!Ended(w, how), R)
<1>1. saver[w] \in SaverCall /\ saver[w].doc \in Saved
  BY TableThere DEF Fits
<1> DEFINE c == Versions!Ended(w, how)
<1>2. c \in SaverCall /\ c.pc = how /\ c.doc = saver[w].doc
  BY <1>1 DEF SaverCall, Versions!Ended
<1> HIDE DEF c
<1>3. \A R : Fits(c, R)
  BY <1>1, <1>2 DEF Fits
<1> QED
  BY <1>2, <1>3 DEF c

\* The row a call posts is that of the version after the newest.
LEMMA RowPosted ==
    ASSUME VersionInv, store = "supabase", NEW w \in Saver, saver[w].pc = "post",
           saver[w].version = Versions!Newest + 1, ~Versions!IsSnapshot(saver[w].version)
    PROVE  Versions!History # <<>> /\ saver[w].before = Versions!History[Len(Versions!History)].meant
<1>1. Fits(saver[w], Versions!History) /\ Len(Versions!History) \in Nat /\ Versions!Newest = Len(Versions!History)
  BY TableThere
<1>2. saver[w].version # 1 /\ saver[w].before = Versions!History[saver[w].version - 1].meant
  BY <1>1 DEF Fits, Versions!IsSnapshot
<1> QED
  BY <1>1, <1>2

LEMMA StartKeeps ==
    ASSUME VersionInv, NEW w \in Saver, Versions!Start(w)
    PROVE  VersionInv'
<1> DEFINE c == [Versions!Free EXCEPT !.doc = ScreenVersions[w], !.pc = "newest"]
<1>1. store = "supabase" /\ saver' = [saver EXCEPT ![w] = c] /\ Versions!Rest
  BY DEF Versions!Start, Versions!At, Versions!Goes
<1>2. ScreenVersions[w] \in Saved
  BY SavesSaved
<1>3. c \in SaverCall /\ c.pc = "newest" /\ c.doc = ScreenVersions[w]
  BY <1>2 DEF SaverCall, MayBe, Versions!Free
<1> HIDE DEF c
<1>4. Fits(c, Versions!History)
  BY <1>2, <1>3 DEF Fits
<1> QED
  BY <1>1, <1>3, <1>4, TableThere, AskFits DEF Versions!Rest

LEMMA AskNewestKeeps ==
    ASSUME VersionInv, NEW w \in Saver, Versions!AskNewest(w)
    PROVE  VersionInv'
<1>1. store = "supabase" /\ saver[w].pc = "newest" /\ Versions!Rest
  BY DEF Versions!AskNewest, Versions!At
<1>2. base' \in MayBe /\ UNCHANGED <<store, arrays, holder, pointer>>
  BY <1>1, TableThere DEF Versions!Rest
<1>3. CASE Versions!Newest = 0
  <2>1. saver' = [saver EXCEPT ![w] = Versions!Ended(w, "load")]
    BY <1>3 DEF Versions!AskNewest, Versions!Goes
  <2> QED
    BY <1>1, <1>2, <2>1, EndedFits, AskFits
<1>4. CASE Versions!Newest # 0
  <2>1. saver' = [saver EXCEPT ![w] = Versions!Chosen(saver[w], Versions!Newest)]
    BY <1>4 DEF Versions!AskNewest, Versions!Goes
  <2>2. Versions!Newest \in 0 .. Len(Versions!History) /\ saver[w] \in SaverCall /\ saver[w].doc \in Saved
    BY <1>1, TableThere DEF Fits
  <2> QED
    BY <1>1, <1>2, <2>1, <2>2, TableThere, ChosenFits, AskFits
<1> QED
  BY <1>3, <1>4

LEMMA LoadKeeps ==
    ASSUME VersionInv, NEW w \in Saver, Versions!Load(w)
    PROVE  VersionInv'
<1>1. store = "supabase" /\ saver[w].pc = "load" /\ Versions!Rest
  BY DEF Versions!Load, Versions!At
<1>2. /\ base' \in MayBe /\ UNCHANGED <<store, arrays, holder, pointer>>
      /\ saver[w] \in SaverCall /\ saver[w].doc \in Saved
  BY <1>1, TableThere DEF Versions!Rest, Fits
<1>3. CASE base = NoDoc
  <2>1. saver' = [saver EXCEPT ![w] = Versions!Chosen(saver[w], 0)]
    BY <1>3 DEF Versions!Load, Versions!Goes
  <2>2. 0 \in 0 .. Len(Versions!History)
    BY <1>1, TableThere
  <2> QED
    BY <1>1, <1>2, <2>1, <2>2, TableThere, ChosenFits, AskFits
<1>4. CASE base # NoDoc
  <2> DEFINE c == [saver[w] EXCEPT !.pc = "first", !.found = base]
  <2>1. saver' = [saver EXCEPT ![w] = c]
    BY <1>4 DEF Versions!Load, Versions!Goes
  <2>2. base \in Saved /\ base \in MayBe
    BY <1>1, <1>4, TableThere DEF MayBe
  <2>3. c \in SaverCall /\ c.pc = "first" /\ c.doc = saver[w].doc /\ c.found = base
    BY <1>2, <2>2 DEF SaverCall
  <2> HIDE DEF c
  <2>4. Fits(c, Versions!History)
    BY <1>2, <2>2, <2>3 DEF Fits
  <2> QED
    BY <1>1, <1>2, <2>1, <2>3, <2>4, AskFits
<1> QED
  BY <1>3, <1>4

LEMMA AskSnapshotKeeps ==
    ASSUME VersionInv, NEW w \in Saver, Versions!AskSnapshot(w)
    PROVE  VersionInv'
<1> DEFINE R == Versions!History
           v == saver[w].version
           c == [saver[w] EXCEPT !.pc = "patches", !.from = Versions!Nearest(R, v - 1)]
<1>1. store = "supabase" /\ saver[w].pc = "snapshot" /\ Versions!Rest /\ saver' = [saver EXCEPT ![w] = c]
  BY DEF Versions!AskSnapshot, Versions!At, Versions!Goes
<1>2. base' \in MayBe /\ UNCHANGED <<store, arrays, holder, pointer>>
  BY <1>1, TableThere DEF Versions!Rest
<1>3. /\ saver[w] \in SaverCall /\ saver[w].doc \in Saved /\ v \in 1 .. Len(R) + 1 /\ v # 1 /\ ~Versions!IsSnapshot(v)
      /\ R \in Seq(Record) /\ Chained(R) /\ Len(R) \in Nat
  BY <1>1, TableThere DEF Fits, Versions!IsSnapshot
<1> HIDE DEF R
<1>4. v - 1 \in 1 .. Len(R)
  BY <1>3
<1>5. From(R, Versions!Nearest(R, v - 1), v - 1)
  BY <1>3, <1>4, NearestThere
<1>6. Versions!Nearest(R, v - 1) \in Nat
  BY <1>3, <1>5 DEF From
<1>7. /\ c \in SaverCall /\ c.pc = "patches" /\ c.doc = saver[w].doc /\ c.version = v
      /\ c.from = Versions!Nearest(R, v - 1)
  <2> DEFINE n == Versions!Nearest(R, v - 1)
  <2> HIDE DEF n
  <2> QED
    BY <1>3, <1>6 DEF SaverCall, n
<1> HIDE DEF c, v
<1>8. Fits(c, R)
  BY <1>3, <1>5, <1>7 DEF Fits
<1> QED
  BY <1>1, <1>2, <1>7, <1>8, AskFits DEF R

LEMMA AskPatchesKeeps ==
    ASSUME VersionInv, NEW w \in Saver, Versions!AskPatches(w)
    PROVE  VersionInv'
<1> DEFINE R == Versions!History
           v == saver[w].version
           before == Versions!Replayed(R, saver[w].from, v - 1)
           c == [saver[w] EXCEPT !.pc = "post", !.before = before]
<1>1. store = "supabase" /\ saver[w].pc = "patches" /\ Versions!Rest /\ saver' = [saver EXCEPT ![w] = c]
  BY DEF Versions!AskPatches, Versions!At, Versions!Goes
<1>2. base' \in MayBe /\ UNCHANGED <<store, arrays, holder, pointer>>
  BY <1>1, TableThere DEF Versions!Rest
<1>3. /\ saver[w] \in SaverCall /\ saver[w].doc \in Saved /\ v \in 1 .. Len(R) + 1 /\ v # 1
      /\ R \in Seq(Record) /\ Chained(R) /\ Len(R) \in Nat /\ From(R, saver[w].from, v - 1)
  BY <1>1, TableThere DEF Fits, Versions!IsSnapshot
<1> HIDE DEF R
<1>4. v - 1 \in 1 .. Len(R) /\ v - 1 \in DOMAIN R
  BY <1>3
<1>5. before = R[v - 1].meant
  BY <1>3, <1>4, ReplayedMeant
<1>6. before \in MayBe
  <2>1. R[v - 1] \in Record
    BY <1>3, <1>4
  <2> QED
    BY <1>5, <2>1 DEF Record, MayBe
<1> HIDE DEF before
<1>7. c \in SaverCall /\ c.pc = "post" /\ c.doc = saver[w].doc /\ c.version = v /\ c.before = before
  BY <1>3, <1>6 DEF SaverCall
<1> HIDE DEF c, v
<1>8. Fits(c, R)
  BY <1>3, <1>5, <1>7 DEF Fits
<1> QED
  BY <1>1, <1>2, <1>7, <1>8, AskFits DEF R

LEMMA PostFirstKeeps ==
    ASSUME VersionInv, NEW w \in Saver, Versions!PostFirst(w)
    PROVE  VersionInv'
<1> DEFINE R == Versions!History
           job == saver[w]
           r == Versions!Snapshot(1, job.found)
           c == Versions!Chosen(job, 1)
           S == Append(R, r)
<1>1. store = "supabase" /\ job.pc = "first" /\ Versions!Posts(w, r, c)
  BY DEF Versions!PostFirst, Versions!At
<1>2. UNCHANGED <<store, base, holder, pointer>> /\ base \in MayBe
  BY <1>1, TableThere DEF Versions!Posts
<1>3. /\ job \in SaverCall /\ job.doc \in Saved /\ job.found \in Saved
      /\ R \in Seq(Record) /\ Chained(R) /\ Len(R) \in Nat
  BY <1>1, TableThere DEF Fits
<1>4. CASE r.version # Versions!Newest + 1
  <2>1. saver' = [saver EXCEPT ![w] = Versions!Ended(w, "failed")] /\ UNCHANGED arrays
    BY <1>1, <1>4 DEF Versions!Posts, Versions!Goes
  <2> QED
    BY <1>1, <1>2, <2>1, EndedFits, AskFits
<1>5. CASE r.version = Versions!Newest + 1
  <2>1. saver' = [saver EXCEPT ![w] = c] /\ arrays' = [arrays EXCEPT ![1] = Append(@, r)]
    BY <1>1, <1>5 DEF Versions!Posts, Versions!Goes
  <2>2. Len(R) + 1 = 1 /\ r = Versions!Snapshot(Len(R) + 1, job.found)
    BY <1>1, <1>3, <1>5, TableThere DEF Versions!Snapshot
  <2> HIDE DEF R, r
  <2>3. S \in Seq(Record) /\ Len(S) = 1
    BY <1>3, <2>2, RecordAdded
  <2>4. 1 \in 0 .. Len(S)
    BY <2>3
  <2> HIDE DEF S
  <2>5. c \in SaverCall /\ Fits(c, S) /\ c.pc \notin {"loading", "patch"}
    BY <1>3, <2>3, <2>4, ChosenFits
  <2> HIDE DEF c, job
  <2> QED
    BY <1>1, <1>2, <1>3, <2>1, <2>2, <2>5, RowFits DEF R, S
<1> QED
  BY <1>4, <1>5

\* The row that a call posts for its document.
Posted(c) == IF Versions!IsSnapshot(c.version) THEN Versions!Snapshot(c.version, c.doc)
          ELSE Versions!Patched(c.version, c.before, c.doc)

\* A post that took effect, whether or not the call learns it.
LEMMA PostedKeeps ==
    ASSUME VersionInv, store = "supabase", NEW w \in Saver, saver[w].pc = "post",
           saver[w].version = Versions!Newest + 1,
           arrays' = [arrays EXCEPT ![1] = Append(@, Posted(saver[w]))], NEW how \in {"save", "failed"},
           saver' = [saver EXCEPT ![w] = Versions!Ended(w, how)], UNCHANGED <<store, base, holder, pointer>>
    PROVE  VersionInv'
<1> DEFINE R == Versions!History
           job == saver[w]
           r == Posted(job)
           c == Versions!Ended(w, how)
           S == Append(R, r)
<1>1. /\ job \in SaverCall /\ job.doc \in Saved /\ job.version = Len(R) + 1
      /\ R \in Seq(Record) /\ Chained(R) /\ Len(R) \in Nat
  BY TableThere DEF Fits
<1>2. \/ r = Versions!Snapshot(Len(R) + 1, job.doc)
      \/ R # <<>> /\ r = Versions!Patched(Len(R) + 1, R[Len(R)].meant, job.doc)
  <2>1. CASE Versions!IsSnapshot(job.version)
    BY <1>1, <2>1 DEF Posted
  <2>2. CASE ~Versions!IsSnapshot(job.version)
    BY <1>1, <2>2, RowPosted DEF Posted
  <2> QED
    BY <2>1, <2>2
<1>3. c \in SaverCall /\ c.pc = how /\ c.doc = job.doc /\ c.version = job.version
  BY <1>1 DEF SaverCall, Versions!Ended
<1> HIDE DEF R, S, c, r, job
<1>4. S \in Seq(Record) /\ Len(S) = Len(R) + 1 /\ S[Len(R) + 1].meant = job.doc
  BY <1>1, <1>2, RecordAdded DEF S
<1>5. Fits(c, S)
  BY <1>1, <1>3, <1>4 DEF Fits
<1>6. c.pc \notin {"loading", "patch"}
  BY <1>3
<1> QED
  BY <1>1, <1>2, <1>3, <1>5, <1>6, RowFits DEF R, S, c, r, job

LEMMA PostKeeps ==
    ASSUME VersionInv, NEW w \in Saver, Versions!Post(w)
    PROVE  VersionInv'
<1> DEFINE r == Posted(saver[w])
<1>1. store = "supabase" /\ saver[w].pc = "post" /\ Versions!Posts(w, r, Versions!Ended(w, "save"))
  BY DEF Versions!Post, Versions!At, Posted
<1>2. UNCHANGED <<store, base, holder, pointer>> /\ base \in MayBe
  BY <1>1, TableThere DEF Versions!Posts
<1>3. r.version = saver[w].version
  BY DEF Posted, Versions!Snapshot, Versions!Patched
<1>4. CASE r.version # Versions!Newest + 1
  <2>1. saver' = [saver EXCEPT ![w] = Versions!Ended(w, "failed")] /\ UNCHANGED arrays
    BY <1>1, <1>4 DEF Versions!Posts, Versions!Goes
  <2> QED
    BY <1>1, <1>2, <2>1, EndedFits, AskFits
<1>5. CASE r.version = Versions!Newest + 1
  <2>1. /\ saver' = [saver EXCEPT ![w] = Versions!Ended(w, "save")]
        /\ arrays' = [arrays EXCEPT ![1] = Append(@, r)]
    BY <1>1, <1>5 DEF Versions!Posts, Versions!Goes
  <2> QED
    BY <1>1, <1>2, <1>3, <1>5, <2>1, PostedKeeps
<1> QED
  BY <1>4, <1>5

LEMMA SaveKeeps ==
    ASSUME VersionInv, NEW w \in Saver, Versions!Save(w)
    PROVE  VersionInv'
<1> DEFINE c == Versions!Ended(w, "done")
<1>1. /\ store = "supabase" /\ saver[w].pc = "save" /\ UNCHANGED <<store, arrays, holder, pointer>>
      /\ saver' = [saver EXCEPT ![w] = c] /\ base' \in {NoDoc, saver[w].doc}
  BY DEF Versions!Save, Versions!At, Versions!Goes
<1>2. saver[w] \in SaverCall /\ saver[w].doc \in Saved /\ Fits(saver[w], Versions!History)
  BY <1>1, TableThere DEF Fits
<1>3. base' \in MayBe
  BY <1>1, <1>2 DEF MayBe
<1>4. c \in SaverCall /\ c.pc = "done" /\ c.doc = saver[w].doc /\ c.version = saver[w].version
  BY <1>2 DEF SaverCall, Versions!Ended
<1> HIDE DEF c
<1>5. Fits(c, Versions!History)
  BY <1>1, <1>2, <1>4 DEF Fits
<1> QED
  BY <1>1, <1>3, <1>4, <1>5, AskFits

LEMMA LoseKeeps ==
    ASSUME VersionInv, NEW w \in Saver, Versions!Lose(w)
    PROVE  VersionInv'
<1>1. store = "supabase" /\ saver[w].pc # "idle" /\ UNCHANGED <<store, base, arrays, holder, pointer>>
  BY DEF Versions!Lose
<1>2. base' \in MayBe /\ saver[w] \in SaverCall /\ saver[w].doc \in Saved
  BY <1>1, TableThere DEF Fits
<1>3. CASE saver[w].pc = "load"
  <2>1. saver' = [saver EXCEPT ![w] = Versions!Chosen(saver[w], 0)]
    BY <1>3 DEF Versions!Lose, Versions!Goes
  <2>2. 0 \in 0 .. Len(Versions!History)
    BY <1>1, TableThere
  <2> QED
    BY <1>1, <1>2, <2>1, <2>2, TableThere, ChosenFits, AskFits
<1>4. CASE saver[w].pc # "load"
  <2>1. saver' = [saver EXCEPT ![w] = Versions!Ended(w, "failed")]
    BY <1>4 DEF Versions!Lose, Versions!Goes
  <2> QED
    BY <1>1, <1>2, <2>1, EndedFits, AskFits
<1> QED
  BY <1>3, <1>4

LEMMA LoseAnswerKeeps ==
    ASSUME VersionInv, NEW w \in Saver, Versions!LoseAnswer(w)
    PROVE  VersionInv'
<1>1. /\ store = "supabase" /\ saver[w].pc = "post" /\ saver[w].version = Versions!Newest + 1
      /\ UNCHANGED <<store, base, holder, pointer>>
      /\ arrays' = [arrays EXCEPT ![1] = Append(@, Posted(saver[w]))]
      /\ saver' = [saver EXCEPT ![w] = Versions!Ended(w, "failed")]
  BY DEF Versions!LoseAnswer, Versions!At, Versions!Goes, Posted
<1> QED
  BY <1>1, PostedKeeps

LEMMA SetEnvironmentKeeps ==
    ASSUME VersionInv, NEW e \in {"production"}, NEW v \in 1 .. Versions!Newest, Versions!SetEnvironment(e, v)
    PROVE  VersionInv'
<1> DEFINE R == Versions!History
<1>1. /\ UNCHANGED <<store, base, arrays, holder, saver>>
      /\ pointer' = [pointer EXCEPT ![e] = [version |-> v, doc |-> Versions!Loaded(v)]]
  BY DEF Versions!SetEnvironment
<1>2. R \in Seq(Record) /\ Chained(R) /\ Len(R) \in Nat /\ Versions!Newest = Len(R)
  BY HistoryChained DEF Versions!Newest
<1>3. v \in 1 .. Len(R)
  BY <1>2
<1>4. Versions!Loaded(v) = Versions!Rebuilt(R, v)
  BY <1>2, <1>3 DEF Versions!Loaded
<1>5. UNCHANGED Versions!History
  BY <1>1 DEF Versions!History
<1> HIDE DEF R
<1>6. Versions!Rebuilt(R, v) = R[v].meant
  BY <1>2, <1>3, RebuiltMeant
<1>7. Served(pointer', R)
  BY <1>1, <1>3, <1>4, <1>6 DEF VersionInv, Served, R
<1>8. MemoryFits => MemoryFits'
  BY <1>1, <1>5 DEF MemoryFits, Versions!Newest
<1>9. VersionType'
  BY <1>1 DEF VersionInv, VersionType
<1> QED
  BY <1>1, <1>5, <1>7, <1>8, <1>9 DEF VersionInv, R

LEMMA VersionStep == OneByOne /\ VersionInv /\ [Versions!VersionsNext]_(Versions!versionVars) => VersionInv'
<1> SUFFICES ASSUME OneByOne, VersionInv, [Versions!VersionsNext]_(Versions!versionVars)
             PROVE  VersionInv'
  OBVIOUS
<1>1. CASE UNCHANGED Versions!versionVars
  BY <1>1 DEF Versions!versionVars, VersionInv, VersionType, MemoryFits, Versions!History, Versions!Newest
<1>2. ASSUME NEW w \in Saver,
             \/ Versions!Begin(w) \/ Versions!Start(w) \/ Versions!Bootstrap(w) \/ Versions!Push(w)
             \/ Versions!Request(w) \/ Versions!Lose(w) \/ Versions!LoseAnswer(w)
      PROVE  VersionInv'
  BY <1>2, BeginKeeps, StartKeeps, BootstrapKeeps, PushKeeps, LoseKeeps, LoseAnswerKeeps,
     AskNewestKeeps, LoadKeeps,
     PostFirstKeeps, AskSnapshotKeeps, AskPatchesKeeps, PostKeeps, SaveKeeps DEF Versions!Request
<1>3. ASSUME NEW e \in {"production"}, NEW v \in 1 .. Versions!Newest, Versions!SetEnvironment(e, v)
      PROVE  VersionInv'
  BY <1>3, SetEnvironmentKeeps
<1>4. Versions!Writer = Saver
  BY DEF Versions!Writer
<1> QED
  BY <1>1, <1>2, <1>3, <1>4 DEF Versions!VersionsNext

LEMMA VersionStart == Versions!VersionsInit => VersionInv
<1> SUFFICES ASSUME Versions!VersionsInit
             PROVE  VersionInv
  OBVIOUS
<1>1. base \in MayBe
  <2>1. 2 \in DOMAIN ScreenVersions
    BY DEF ScreenVersions
  <2>2. ScreenVersions[2] \in Saved
    BY <2>1, Zenon DEF Saved, ToSet
  <2> QED
    BY <2>2 DEF Versions!VersionsInit, MayBe
<1>2. /\ store \in {"memory", "supabase"} /\ arrays \in Seq(Seq(Record)) /\ holder \in 0 .. Len(arrays)
      /\ \A k \in DOMAIN arrays : arrays[k] = <<>>
      /\ Versions!History = <<>> /\ (store # "memory" => Len(arrays) = 1 /\ holder = 1)
  BY DEF Versions!VersionsInit, Versions!History
<1>3. saver = [w \in Saver |-> Versions!Free]
  BY DEF Versions!VersionsInit, Versions!Writer
<1>4. Versions!Free \in SaverCall /\ Versions!Free.pc = "idle"
  BY DEF Versions!Free, SaverCall, MayBe
<1>5. saver \in [Saver -> SaverCall] /\ \A w \in Saver : saver[w].pc = "idle"
  BY <1>3, <1>4
<1>6. Served(pointer, <<>>)
  BY DEF Versions!VersionsInit, Served
<1>7. Chained(<<>>)
  BY DEF Chained
<1>8. \A w \in Saver : Fits(saver[w], <<>>)
  BY <1>5 DEF Fits
<1> QED
  BY <1>1, <1>2, <1>5, <1>6, <1>7, <1>8 DEF VersionInv, VersionType, MemoryFits

LEMMA VersionsMeant ==
    VersionInv => Versions!VersionsRebuild /\ Versions!NumbersAreOwn /\ Versions!EnvironmentsStay /\ Versions!DiffExact
<1> SUFFICES ASSUME VersionInv
             PROVE  Versions!VersionsRebuild /\ Versions!NumbersAreOwn /\ Versions!EnvironmentsStay /\ Versions!DiffExact
  OBVIOUS
<1> DEFINE R == Versions!History
<1>1. R \in Seq(Record) /\ Chained(R) /\ Len(R) \in Nat /\ Versions!Newest = Len(R)
  BY HistoryChained DEF Versions!Newest
<1>2. \A v \in 1 .. Len(R) : Versions!Loaded(v) = Versions!Rebuilt(R, v)
  BY <1>1 DEF Versions!Loaded
<1> HIDE DEF R
<1>3. \A v \in 1 .. Len(R) : Versions!Loaded(v) = R[v].meant /\ R[v].version = v /\ R[v].meant \in Saved
  <2> SUFFICES ASSUME NEW v \in 1 .. Len(R)
               PROVE  Versions!Loaded(v) = R[v].meant /\ R[v].version = v /\ R[v].meant \in Saved
    OBVIOUS
  <2>1. v \in DOMAIN R /\ R[v] \in Record
    BY <1>1
  <2>2. R[v].meant \in Saved
    BY <2>1 DEF Record
  <2>3. R[v].version = v
    BY <1>1, <2>1 DEF Chained
  <2>4. Versions!Rebuilt(R, v) = R[v].meant
    BY <1>1, RebuiltMeant
  <2> QED
    BY <1>2, <2>2, <2>3, <2>4
<1>4. Versions!VersionsRebuild
  BY <1>1, <1>3 DEF Versions!VersionsRebuild, R
<1>5. Versions!NumbersAreOwn
  <2>1. \A w \in Saver :
          saver[w].pc = "done" => saver[w].version \in 1 .. Len(R) /\ R[saver[w].version].meant = saver[w].doc
    BY DEF VersionInv, Fits, R
  <2> QED
    BY <1>1, <2>1 DEF Versions!NumbersAreOwn, Versions!Writer, R
<1>6. Versions!EnvironmentsStay
  BY <1>1, <1>3 DEF Versions!EnvironmentsStay, VersionInv, Served, R
<1>7. Versions!DiffExact
  <2> SUFFICES ASSUME NEW v \in 1 .. Versions!Newest - 1
               PROVE  Versions!NamesAll(Versions!Loaded(v), Versions!Loaded(Versions!Newest))
    BY DEF Versions!DiffExact
  <2>1. v \in 1 .. Len(R) /\ Len(R) \in 1 .. Len(R)
    BY <1>1
  <2>2. Versions!Loaded(v) \in Saved /\ Versions!Loaded(Versions!Newest) \in Saved
    BY <1>1, <1>3, <2>1
  <2> QED
    BY <2>2, SavedScreens DEF Saved
<1> QED
  BY <1>4, <1>5, <1>6, <1>7
-----------------------------------------------------------------------------
(* The pieces together *)

PieceInv ==
    /\ piece = "api" => ApiInv
    /\ piece = "store" => WriteInv

\* A step of a behaviour is one of its own piece.
LEMMA PieceStep ==
    ASSUME [PieceNext]_pieceVars
    PROVE  /\ piece' = piece
           /\ piece = "store" => [Next]_vars
           /\ piece = "api" => [Api!Next]_(Api!vars)
           /\ piece = "versions" => [Versions!VersionsNext]_(Versions!versionVars)
<1>1. CASE PieceNext
  BY <1>1, Zenon DEF PieceNext
<1>2. CASE UNCHANGED pieceVars
  BY <1>2 DEF pieceVars, vars, Api!vars, historyVars, Versions!versionVars
<1> QED
  BY <1>1, <1>2

LEMMA PieceKept == Apart /\ PieceInv /\ [PieceNext]_pieceVars => PieceInv'
<1> SUFFICES ASSUME Apart, PieceInv, [PieceNext]_pieceVars
             PROVE  PieceInv'
  OBVIOUS
<1>1. piece = "store" => WriteInv'
  BY PieceStep, WriteStep DEF PieceInv
<1>2. piece = "api" => ApiInv'
  BY PieceStep, ApiStep DEF PieceInv
<1> QED
  BY <1>1, <1>2, PieceStep DEF PieceInv

\* Without calls that overlap on sqlite, the endpoint alone.
LEMMA EndpointKept == (piece = "api" => ApiInv) /\ [PieceNext]_pieceVars => (piece = "api" => ApiInv)'
BY PieceStep, ApiStep

\* The history alone.
LEMMA HistoryKept ==
    OneByOne /\ (piece = "versions" => VersionInv) /\ [PieceNext]_pieceVars => (piece = "versions" => VersionInv)'
BY PieceStep, VersionStep

LEMMA EndpointStarts == PieceInit => (piece = "api" => ApiInv)
BY ApiStart, Zenon DEF PieceInit

LEMMA PieceStarts == RollsBack /\ PieceInit => PieceInv
BY WriteInit, EndpointStarts, Zenon DEF PieceInit, PieceInv

\* What a step writes, of whichever piece.
LEMMA PieceWrites ==
    ASSUME Apart, KeyFixed, PieceInv, [PieceNext]_pieceVars
    PROVE  [/\ piece = "store" => OneCall /\ Acknowledges
            /\ piece = "api" => Api!OneRow]_pieceVars
<1>1. ASSUME piece = "store"
      PROVE  OneCall /\ Acknowledges
  <2>1. [OneCall /\ Acknowledges]_vars
    BY <1>1, PieceStep, WriteStep DEF PieceInv
  <2>2. CASE UNCHANGED vars
    BY <2>2 DEF vars, OneCall, Acknowledges, Docs, Doc, Ended
  <2> QED
    BY <2>1, <2>2
<1>2. ASSUME piece = "api"
      PROVE  Api!OneRow
  <2>1. [Api!OneRow]_(Api!vars)
    BY <1>2, PieceStep, ApiStep DEF PieceInv
  <2>2. CASE UNCHANGED Api!vars
    BY <2>2 DEF Api!vars, Api!OneRow
  <2> QED
    BY <2>1, <2>2
<1> QED
  BY <1>1, <1>2

\* The answer to a list is one page of what its user may see and counts all of it, when no
\* write came in between, and the answer to a write says whether its row was written,
\* whatever statements fail and whichever answers of the database are lost, in a dialect that
\* returns the row and in mysql, where it is read again (server/src/handlers/query.ts, crud.ts).
THEOREM AnswersAreTrue == PieceSpec => []AnswersTrue
<1> DEFINE Endpoint0 == piece = "api" => ApiInv
<1>1. PieceInit => Endpoint0
  BY EndpointStarts
<1>2. Endpoint0 /\ [PieceNext]_pieceVars => Endpoint0'
  BY EndpointKept
<1>3. Endpoint0 => AnswersTrue
  BY ApiAnswers DEF AnswersTrue
<1> HIDE DEF Endpoint0
<1> QED
  BY <1>1, <1>2, <1>3, PTL DEF PieceSpec

\* The table of the spec store changes by one whole call at a time and that of an endpoint
\* by one row at a time, of a client whose scope holds the row and whose name it bears.
THEOREM WritesAreWhole == Apart /\ RollsBack /\ KeyFixed => (PieceSpec => WritesWhole)
<1> SUFFICES ASSUME Apart, RollsBack, KeyFixed
             PROVE  PieceSpec => WritesWhole
  OBVIOUS
<1>1. PieceInv /\ [PieceNext]_pieceVars => PieceInv'
  BY PieceKept
<1>2. PieceInv /\ [PieceNext]_pieceVars =>
        [/\ piece = "store" => OneCall /\ Acknowledges
         /\ piece = "api" => Api!OneRow]_pieceVars
  BY PieceWrites
<1>3. PieceInit => PieceInv
  BY PieceStarts
<1> QED
  BY <1>1, <1>2, <1>3, PTL DEF PieceSpec, WritesWhole

\* A version is what was saved under its number, for whoever saved it and for an environment
\* that points to it, and a diff names what differs, whichever requests to Supabase overlap
\* or are lost, as long as the calls in memory follow each other
\* (core/src/spec-stores/memory-versioned.ts, supabase-versioned.ts).
THEOREM VersionsAreSound == OneByOne => (PieceSpec => []VersionsSound)
<1> SUFFICES ASSUME OneByOne
             PROVE  PieceSpec => []VersionsSound
  OBVIOUS
<1> DEFINE History0 == piece = "versions" => VersionInv
<1>1. PieceInit => History0
  BY VersionStart DEF PieceInit
<1>2. History0 /\ [PieceNext]_pieceVars => History0'
  BY HistoryKept
<1>3. History0 => VersionsSound
  BY VersionsMeant DEF VersionsSound
<1> HIDE DEF History0
<1> QED
  BY <1>1, <1>2, <1>3, PTL DEF PieceSpec
=============================================================================
