----------------------------- MODULE ApiServer -----------------------------
(***************************************************************************)
(* The API server (packages/server): what one endpoint of an ApiSpec does  *)
(* with the requests of several clients, a paginated query and the CRUD    *)
(* routes of a table.  Express runs the handlers of different requests     *)
(* side by side; each statement sent to the database is one step, and none *)
(* of a request's statements share a transaction.                          *)
(*                                                                         *)
(* A row has an id, a scope column and a note.  The database is external.  *)
(***************************************************************************)
EXTENDS SqlStatements, Integers

CONSTANTS Client, MaxId, Plant, Note,
          User,        \* the user of a client's token, or NoUser: scope and roles
          Guarded,     \* whether the endpoint asks for a token
          Scoped,      \* whether it has a scope filter
          BypassRoles, PolicyRoles,
          Insertable, Updatable,
          PageSizes, MaxPageSize,
          Totals,      \* whether a list has totals: the choices to look at
          Databases,   \* the dialects the database may have
          Null, NoUser

RowId == 1..MaxId
ColumnSeq == <<"id", "plant", "note", "by">>
Column == ToSet(ColumnSeq)

VARIABLES dialect, \* of the database
          table,   \* the rows, by id
          request  \* per client: what it asked, how far it is, what it found

vars == <<dialect, table, request>>

Row == [id : RowId, plant : Plant \cup {Null}, note : Note \cup {Null}, by : Client \cup {Null}]
NoFields == [c \in {} |-> Null]
Free == [op |-> "none", id |-> 1, body |-> NoFields, page |-> 0, size |-> 1, left |-> {}, rows |-> <<>>,
         total |-> -1, sum |-> -1, status |-> 0, quiet |-> TRUE, wrote |-> FALSE]

\* What a client may send, a Null field being left out.
Body == [id : RowId \cup {Null}, plant : Plant \cup {Null}, note : Note \cup {Null}]
Nothing == [id |-> Null, plant |-> Null, note |-> Null]

TypeOK ==
    /\ dialect \in Databases
    /\ table \in [RowId -> Row \cup {Null}]
    /\ \A i \in RowId : table[i] # Null => table[i].id = i
    /\ \A c \in Client : /\ request[c].op \in {"none", "list", "create", "update", "delete"}
                         /\ request[c].left \subseteq {"data", "count", "totals", "exec", "reload"}
                         /\ request[c].status \in {0, 200, 201, 204, 400, 401, 403, 404, 500}

\* Every table of rows of some plant, by nobody; requests make the others.
Init ==
    /\ dialect \in Databases
    /\ table \in {t \in [RowId -> Row \cup {Null}] :
                     \A i \in RowId : t[i] # Null =>
                        t[i].id = i /\ t[i].plant # Null /\ t[i].note = Null /\ t[i].by = Null}
    /\ request = [c \in Client |-> Free]
-----------------------------------------------------------------------------
(* Who may do what *)

\* createAuthMiddleware: the status it answers with, or 200 to go on.
Authenticate(c) ==
    IF ~Guarded THEN 200
    ELSE IF User[c] = NoUser THEN 401
    ELSE IF PolicyRoles # {} /\ User[c].roles \cap PolicyRoles = {} THEN 403
    ELSE 200

\* The scope clause of a request, by the rows it lets through: no clause without a
\* filter, without a user, or for a role that bypasses it.
Unscoped(c) == ~Scoped \/ ~Guarded \/ User[c].roles \cap BypassRoles # {}
InScope(c, row) == Unscoped(c) \/ row.plant \in User[c].scope

Visible(c) == {i \in RowId : table[i] # Null /\ InScope(c, table[i])}

\* validateScopeForInsert, on the body as it came.
MayInsert(c, body) == Unscoped(c) \/ body.plant \in User[c].scope

FilterFields(body, allowed) == [k \in {a \in allowed : a \in DOMAIN body /\ body[a] # Null} |-> body[k]]

\* injectAuditFields: the user overrides what the client sent.
WithAudit(c, fields) ==
    [k \in DOMAIN fields \cup (IF Guarded THEN {"by"} ELSE {}) |-> IF k = "by" THEN c ELSE fields[k]]
-----------------------------------------------------------------------------
Progress(c, r) == request' = [request EXCEPT ![c] = r]
Answer(c, status) == Progress(c, [request[c] EXCEPT !.status = status, !.left = {}])
Pending(c, what) == what \in request[c].left
Took(c, what) == [request[c] EXCEPT !.left = @ \ {what}]

\* A write of client c disturbs the requests of the others that have arrived.
Disturb(requests, c) == [d \in Client |-> [requests[d] EXCEPT !.quiet = @ /\ (d = c \/ requests[d].op = "none")]]

\* The request of the client arrives (one each, the bound of the model): token, policy, parameters and scope are looked at, before any
\* statement is sent.
Receive(c) ==
    /\ request[c].op = "none"
    /\ \E op \in {"list", "create", "update", "delete"}, id \in RowId, body \in Body,
          page \in 0..1, asked \in PageSizes, totals \in Totals \cup {FALSE} :
         LET size == IF asked > MaxPageSize THEN MaxPageSize ELSE asked
             allowed == CASE op = "create" -> Insertable [] op = "update" -> Updatable [] OTHER -> {}
             fields == WithAudit(c, FilterFields(body, allowed))
             status == IF Authenticate(c) # 200 THEN Authenticate(c)
                       ELSE IF op = "create" /\ ~MayInsert(c, body) THEN 403
                       ELSE IF op \in {"create", "update"} /\ fields = NoFields THEN 400
                       ELSE 0
         IN  /\ op \in {"list", "delete"} => body = Nothing
             /\ op # "list" => page = 0 /\ asked = 1 /\ ~totals
             /\ op \in {"list", "create"} => id = 1
             /\ Progress(c, [Free EXCEPT
                    !.op = op, !.id = id, !.page = page, !.size = size, !.status = status,
                    !.body = IF op \in {"create", "update"} THEN fields ELSE NoFields,
                    !.left = IF status # 0 THEN {}
                             ELSE IF op = "list" THEN {"data", "count"} \cup (IF totals THEN {"totals"} ELSE {})
                             ELSE {"exec"}])
    /\ UNCHANGED table

\* A statement fails without having written anything, and the error handler answers: for a
\* list too, whose other statements run on unheard.  (One that wrote: Told.)
StatementFails(c) ==
    /\ request[c].left # {}
    /\ Answer(c, 500)
    /\ UNCHANGED table
-----------------------------------------------------------------------------
(* The paginated list: its statements are sent together and run in any order. *)

\* Rows in the order of the page query.
Ordered(ids) == SetToSortSeq(ids, LAMBDA a, b : a < b)
Page(ids, page, size) == SubSeq(Ordered(ids), page * size + 1, Min({(page + 1) * size, Cardinality(ids)}))

\* When all have answered the response is put together.
Collect(c, r) ==
    Progress(c, IF r.left = {} THEN [r EXCEPT !.status = 200] ELSE r)

QueryData(c) ==
    /\ Pending(c, "data")
    /\ Collect(c, [Took(c, "data") EXCEPT !.rows = Page(Visible(c), request[c].page, request[c].size)])
    /\ UNCHANGED table

\* Fault: the count is taken without the scope clause.
QueryCountUnscoped(c) ==
    /\ Pending(c, "count")
    /\ Collect(c, [Took(c, "count") EXCEPT !.total = Cardinality({i \in RowId : table[i] # Null})])
    /\ UNCHANGED table

\* The generated count: of the scoped source, or of the query without its order.
QueryCount(c) ==
    /\ Pending(c, "count")
    /\ Collect(c, [Took(c, "count") EXCEPT !.total = Cardinality(Visible(c))])
    /\ UNCHANGED table

\* The totals of the query.  With a scope clause it is the aggregate that is wrapped,
\* which has no scope column: the statement is an error.
QueryTotals(c) ==
    /\ Pending(c, "totals")
    /\ IF Unscoped(c)
       THEN Collect(c, [Took(c, "totals") EXCEPT !.sum = Cardinality({i \in RowId : table[i] # Null})])
       ELSE Answer(c, 500)
    /\ UNCHANGED table
-----------------------------------------------------------------------------
(* CRUD *)

Returning == dialect # "mysql"

\* What the statement the driver builds sets, as the database reads it.
Columns(fields) == SelectSeq(ColumnSeq, LAMBDA k : k \in DOMAIN fields)
Safe == [column \in Column |-> <<column>>]
Assigned(database, statement) ==
    LET set == SetTo(database, statement) IN [k \in DOMAIN set |-> set[k][1]]

\* The fields of a request come to the database as they are, from an insert and from the
\* update of a row, whose key is compared with the one asked for.
FieldsBind(database, fields) ==
    /\ Assigned(database, BuildInsertReturning(Columns(fields), Safe, fields)) = fields
    /\ \A id \in RowId :
         LET where == PrimaryKeyWhere("id", id, <<>>, EmptyParams)
             statement == BuildUpdateReturning(Columns(fields), Safe, fields, where.where, where.params)
         IN  Assigned(database, statement) = fields /\ ComparedWith(database, statement, "id") = {<<id>>}
StatementsBind ==
    \A database \in Databases, c \in Client, body \in Body, allowed \in {Insertable, Updatable} :
      FieldsBind(database, WithAudit(c, FilterFields(body, allowed)))

Wrote(c, r) == Disturb([request EXCEPT ![c] = [r EXCEPT !.wrote = TRUE]], c)
Settle(c, status) == [request[c] EXCEPT !.left = {}, !.status = status]
Reload(c, id) == [request[c] EXCEPT !.left = {"reload"}, !.id = id]

\* A statement has written its row: the handler goes on, or the answer of the database is
\* lost and the error handler answers.
Told(c, reply) == {reply, Settle(c, 500)}

\* POST: the key is the one of the body or the one the database gives; a key that is
\* taken is an error.  Without RETURNING the row is read again.
ExecCreate(c) ==
    /\ request[c].op = "create" /\ Pending(c, "exec")
    /\ LET fields == request[c].body
           free == {i \in RowId : table[i] = Null}
       IN  \E set \in {Assigned(dialect, BuildInsertReturning(Columns(fields), Safe, fields))} :
           IF "id" \in DOMAIN set /\ set["id"] \notin free
           THEN Answer(c, 500) /\ UNCHANGED table
           ELSE \E id \in (IF "id" \in DOMAIN set THEN {set["id"]} ELSE free) :
                  /\ table' = [table EXCEPT ![id] =
                        [k \in Column |-> IF k = "id" THEN id
                                          ELSE IF k \in DOMAIN set THEN set[k] ELSE Null]]
                  /\ \E r \in Told(c, IF Returning THEN Settle(c, 201) ELSE Reload(c, id)) :
                        request' = Wrote(c, r)

\* PUT: the row with the key, in the user's scope.  Without RETURNING it is read again,
\* whether or not one was updated.
ExecUpdate(c) ==
    /\ request[c].op = "update" /\ Pending(c, "exec")
    /\ LET id == request[c].id
           fields == request[c].body
           where == PrimaryKeyWhere("id", id, <<>>, EmptyParams)
           statement == BuildUpdateReturning(Columns(fields), Safe, fields, where.where, where.params)
       IN  \E set \in {Assigned(dialect, statement)} :
           IF id \in Visible(c) /\ ComparedWith(dialect, statement, "id") = {<<id>>}
           THEN /\ table' = [table EXCEPT ![id] = [k \in Column |-> IF k \in DOMAIN set THEN set[k] ELSE @[k]]]
                /\ \E r \in Told(c, IF Returning THEN Settle(c, 200) ELSE Reload(c, id)) : request' = Wrote(c, r)
           ELSE /\ IF Returning THEN Answer(c, 404) ELSE Progress(c, Reload(c, id))
                /\ UNCHANGED table

\* The second statement of POST and PUT on mysql, loadCrudRecord.  A created row that is
\* gone is answered from the fields, an updated one is not found.
LoadCrudRecord(c) ==
    /\ Pending(c, "reload")
    /\ Answer(c, IF request[c].op = "create" THEN 201
                 ELSE IF request[c].id \in Visible(c) THEN 200 ELSE 404)
    /\ UNCHANGED table

ExecDelete(c) ==
    /\ request[c].op = "delete" /\ Pending(c, "exec")
    /\ LET id == request[c].id IN
         IF id \in Visible(c)
         THEN /\ table' = [table EXCEPT ![id] = Null]
              /\ \E r \in Told(c, Settle(c, 204)) : request' = Wrote(c, r)
         ELSE Answer(c, 404) /\ UNCHANGED table

Next ==
    /\ \E c \in Client :
        \/ Receive(c) \/ StatementFails(c) \/ QueryData(c) \/ QueryCount(c) \/ QueryTotals(c)
        \/ ExecCreate(c) \/ ExecUpdate(c) \/ LoadCrudRecord(c) \/ ExecDelete(c)
    /\ UNCHANGED dialect

Spec == Init /\ [][Next]_vars
-----------------------------------------------------------------------------
(* What the server promises *)

\* A list no write came in between, up to now, tells one story: the page is the piece of
\* the rows in the user's scope that its number says, and the total counts them all.
ListAgrees ==
    \A c \in Client :
        (request[c].op = "list" /\ request[c].status = 200 /\ request[c].quiet) =>
            LET r == request[c] IN
            /\ r.size <= MaxPageSize
            /\ r.total = Cardinality(Visible(c))
            /\ r.rows = Page(Visible(c), r.page, r.size)
            /\ r.page * r.size < r.total => r.rows # <<>>
            /\ r.sum \in {-1, r.total}

\* The answer to a write says what became of it, unless the database's own answer was lost
\* (500): success means that its row was written, an error that none was.  On mysql, where
\* the row is read again by a second statement, both hold when no other request wrote since
\* this one arrived, but for an update that took its row out of the user's scope: it is
\* written, and not found.
WriteTold ==
    \A c \in Client :
        LET r == request[c] IN
        (r.op \in {"create", "update", "delete"} /\ r.status \notin {0, 500} /\ (Returning \/ r.quiet)) =>
            /\ r.status < 400 => r.wrote
            /\ r.status >= 400 /\ r.wrote =>
                 ~Returning /\ r.op = "update" /\ table[r.id] # Null /\ ~InScope(c, table[r.id])

\* Whoever else writes, a request changes at most one row, one in the user's scope, and a
\* change keeps its key and names its author.
OneRow ==
    \A i \in RowId : table'[i] # table[i] =>
      /\ \A j \in RowId \ {i} : table'[j] = table[j]
      /\ \E c \in Client :
           /\ request'[c].wrote /\ ~request[c].wrote
           /\ table[i] # Null => InScope(c, table[i])
           /\ table'[i] # Null => table'[i].id = i /\ (Guarded => table'[i].by = c)
OneRowAtATime == [][OneRow]_vars
=============================================================================
