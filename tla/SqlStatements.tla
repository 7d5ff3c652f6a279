--------------------------- MODULE SqlStatements ---------------------------
(***************************************************************************)
(* How the SQL drivers write a statement and its parameters, and how       *)
(* compileNamedParams turns named parameters into those of the dialect     *)
(* (sql/drivers, sql/named-params).  A statement is kept as the columns    *)
(* it sets and compares, each with the name of its parameter, in the order *)
(* of the text.  A name is a sequence of parts joined by "_".              *)
(***************************************************************************)
EXTENDS Naturals, Sequences, SequencesExt, FiniteSetsExt, Functions

Dialect == {"sqlite", "postgres", "mysql", "sqlserver"}

\* A parameter the text uses, and the column it is for.
Use(column, name) == [column |-> column, name |-> name]

\* Fault: names are not made unique.
PlainName(base, used) == base

\* The base itself, or the base with the first number from 2 that is not in use.
UniqueParamName(base, used) ==
    IF base \notin used THEN base
    ELSE Append(base, CHOOSE n \in 2..(Cardinality(used) + 2) :
                          /\ Append(base, n) \notin used
                          /\ \A m \in 2..(n - 1) : Append(base, m) \in used)

\* Parameters for the columns, one after the other; safe is what the driver makes of a
\* column's name, and prefix is "set" for an update.
Named(columns, safe, prefix, params, values) ==
    FoldLeft(LAMBDA s, column :
                 LET name == UniqueParamName(prefix \o safe[column], DOMAIN s.params)
                 IN  [uses |-> Append(s.uses, Use(column, name)),
                      params |-> [n \in DOMAIN s.params \cup {name} |->
                                     IF n = name THEN values[column] ELSE s.params[n]]],
             [uses |-> <<>>, params |-> params], columns)

EmptyParams == [n \in {} |-> 0]

\* INSERT; no column at all is an error.
BuildInsertReturning(columns, safe, values) ==
    LET named == Named(columns, safe, <<>>, EmptyParams, values)
    IN  [ok |-> columns # <<>>, sets |-> named.uses, where |-> <<>>, params |-> named.params]

\* UPDATE: the parameters of the where clause keep their names.
BuildUpdateReturning(columns, safe, values, where, whereParams) ==
    LET named == Named(columns, safe, <<"set">>, whereParams, values)
    IN  [ok |-> columns # <<>>, sets |-> named.uses, where |-> where, params |-> named.params]

BuildDelete(where, whereParams) ==
    [ok |-> TRUE, sets |-> <<>>, where |-> where, params |-> whereParams]

\* The where clause of a row: the scope clause if there is one, and the primary key.
PrimaryKeyWhere(key, value, extra, extraParams) ==
    [where |-> Append(extra, Use(key, <<"_pkValue">>)),
     params |-> [n \in DOMAIN extraParams \cup {<<"_pkValue">>} |->
                    IF n = <<"_pkValue">> THEN value ELSE extraParams[n]]]

\* The text of a statement, as far as parameters go.
Text(statement) == statement.sets \o statement.where

\* postgres: a number per name, in the order of first use.
PostgresParams(text, params) ==
    FoldLeft(LAMBDA s, use :
                 IF use.name \in DOMAIN s.index
                 THEN [s EXCEPT !.numbers = Append(@, s.index[use.name])]
                 ELSE LET n == Len(s.values) + 1
                      IN  [index |-> [m \in DOMAIN s.index \cup {use.name} |->
                                         IF m = use.name THEN n ELSE s.index[m]],
                           numbers |-> Append(s.numbers, n),
                           values |-> Append(s.values, params[use.name])],
             [index |-> EmptyParams, numbers |-> <<>>, values |-> <<>>], text)

\* compileNamedParams: whether every name has a value, and the value the database reads
\* for each use of the text.  Quoted text, comments and @@variables are no uses.
CompileNamedParams(dialect, text, params) ==
    [ok |-> \A i \in DOMAIN text : text[i].name \in DOMAIN params,
     bound |-> IF dialect = "postgres"
               THEN LET compiled == PostgresParams(text, params)
                    IN  [i \in DOMAIN text |-> IF compiled.numbers[i] \in DOMAIN compiled.values
                                               THEN <<compiled.values[compiled.numbers[i]]>> ELSE <<>>]
               ELSE [i \in DOMAIN text |-> <<params[text[i].name]>>]]

\* What the database reads: the value set for a column, and those a column is compared with.
SetTo(dialect, statement) ==
    LET bound == CompileNamedParams(dialect, Text(statement), statement.params).bound
    IN  [column \in {statement.sets[i].column : i \in DOMAIN statement.sets} |->
            bound[CHOOSE i \in DOMAIN statement.sets : statement.sets[i].column = column]]
ComparedWith(dialect, statement, column) ==
    LET bound == CompileNamedParams(dialect, Text(statement), statement.params).bound
        start == Len(statement.sets)
    IN  {bound[start + i] : i \in {j \in DOMAIN statement.where : statement.where[j].column = column}}
-----------------------------------------------------------------------------
(* Upserts: the columns written when a row with the keys is there already. *)

Others(columns, keys) == SelectSeq(columns, LAMBDA c : c \notin ToSet(keys))

\* sqlite and postgres: ON CONFLICT DO UPDATE SET, or DO NOTHING.
OnConflict(columns, keys) == Others(columns, keys)

\* mysql: ON DUPLICATE KEY UPDATE wants a column; the first key is set to itself.
OnDuplicateKey(columns, keys) ==
    IF Others(columns, keys) = <<>> THEN <<keys[1]>> ELSE Others(columns, keys)

\* sqlserver: MERGE, without its MATCHED clause if there is nothing to set.
Merge(columns, keys) == Others(columns, keys)

UpsertColumns(dialect, columns, keys) ==
    CASE dialect \in {"sqlite", "postgres"} -> OnConflict(columns, keys)
      [] dialect = "mysql" -> OnDuplicateKey(columns, keys)
      [] dialect = "sqlserver" -> Merge(columns, keys)
-----------------------------------------------------------------------------
(* What the builders promise *)

\* Whatever the columns are called and whatever parameters the where clause brings, the
\* database sets every column to the value given for it, compares with the values of the
\* where clause, and no parameter is missing.
BindsRight(dialect, columns, safe, values, where, whereParams) ==
    LET insert == BuildInsertReturning(columns, safe, values)
        update == BuildUpdateReturning(columns, safe, values, where, whereParams)
    IN  \A statement \in {insert, update} :
          /\ CompileNamedParams(dialect, Text(statement), statement.params).ok
          /\ SetTo(dialect, statement) = [c \in ToSet(columns) |-> <<values[c]>>]
          /\ \A i \in DOMAIN statement.where :
               ComparedWith(dialect, statement, statement.where[i].column) =
                   {<<whereParams[where[j].name]>> :
                       j \in {k \in DOMAIN where : where[k].column = where[i].column}}

\* An upsert of a row that is there leaves its keys and sets all the rest, in every dialect.
UpsertsAgree(dialect, columns, keys, values, row) ==
    LET set == ToSet(UpsertColumns(dialect, columns, keys))
        after == [c \in DOMAIN row |-> IF c \in set THEN values[c] ELSE row[c]]
    IN  (\A k \in ToSet(keys) : values[k] = row[k]) =>
            \A c \in DOMAIN row : after[c] = IF c \in ToSet(columns) THEN values[c] ELSE row[c]
=============================================================================
