------------------------------ MODULE Expressions ------------------------------
(***************************************************************************)
(* The expressions of a spec: what the resolver makes of one               *)
(* (packages/core/src/expressions), which paths of the store the renderer  *)
(* thinks it reads (renderer/deps.ts), and an element of the page that     *)
(* shows one while the store is written to.                                *)
(*                                                                         *)
(* The store is a function from leaf paths to values. A value is a record  *)
(* of one field that names its kind; a string is a sequence of pieces. An  *)
(* expression is a record whose op is the key its handler is registered    *)
(* under ("value" and "object" are plain JSON). A condition                *)
(* [src, cmp, to, not] is an expression with comparison keys beside its    *)
(* own: visible, $and, $or and $not read it in one way and $cond in        *)
(* another. Formats and dates are left out.                                *)
(***************************************************************************)
EXTENDS Integers, Sequences, SequencesExt, TLC

CONSTANTS
    OnPage,         \* the elements: [shows, around], an expression and the context it stands in
    StartState,     \* the store as the screen starts
    Updates,        \* what is written at once: the changed paths, and the leaves they change
    Tokens, Translations,  \* theme -> token -> value, locale -> key -> value
    MaxWrites       \* bound: the writes of a behaviour

VARIABLES
    state,      \* leaf path -> value
    expr,       \* the expression of the element
    around,     \* the context it stands in: its repeat row, its props
    entry,      \* the cached value of the element, and whether a changed path made it dirty
    seen,       \* history: the leaves the scanner does not list, as they were when it was drawn
    writes

exprVars == <<state, expr, around, entry, seen, writes>>
-----------------------------------------------------------------------------
(* Values *)

Undefined == [undefined |-> 0]
NotANumber == [nan |-> 0]
Failed == [thrown |-> 0]
N(n) == [num |-> n]
S(piece) == [str |-> <<piece>>]
B(b) == [bool |-> b]
L(seq) == [list |-> seq]

Is(kind, v) == DOMAIN v = {kind}

Truthy(v) ==
    CASE Is("num", v) -> v.num # 0
      [] Is("str", v) -> v.str # <<>>
      [] Is("bool", v) -> v.bool
      [] OTHER -> ~Is("undefined", v) /\ ~Is("nan", v)

TextOf(v) ==
    CASE Is("str", v) -> v.str
      [] Is("num", v) -> <<ToString(v.num)>>
      [] Is("bool", v) -> <<IF v.bool THEN "true" ELSE "false">>
      [] Is("undefined", v) -> <<"undefined">>
      [] OTHER -> <<"object">>

NumberOf(v) == IF Is("num", v) THEN v.num ELSE IF Is("bool", v) /\ v.bool THEN 1 ELSE 0

Field(v, key) == IF Is("rec", v) /\ key \in DOMAIN v.rec THEN v.rec[key] ELSE Undefined

Walk(v, keys) == FoldLeft(Field, v, keys)

\* The value at path: a leaf, a part of one, or all the leaves below.
RECURSIVE Get(_, _)
Get(s, path) ==
    LET above == {l \in DOMAIN s : IsPrefix(l, path)}
        below == {l \in DOMAIN s : IsStrictPrefix(path, l)}
    IN  IF above # {} THEN LET l == CHOOSE l \in above : TRUE IN Walk(s[l], SubSeq(path, Len(l) + 1, Len(path)))
        ELSE IF below = {} THEN Undefined
        ELSE [rec |-> [k \in {l[Len(path) + 1] : l \in below} |-> Get(s, Append(path, k))]]
-----------------------------------------------------------------------------
(* Handlers *)

Compares(v, cmp, w) ==
    CASE cmp = "eq" -> v = w
      [] cmp = "neq" -> v # w
      [] cmp = "none" -> Truthy(v)
      [] OTHER ->
           /\ Is("num", v) /\ Is("num", w)
           /\ CASE cmp = "gt" -> v.num > w.num [] cmp = "gte" -> v.num >= w.num
                [] cmp = "lt" -> v.num < w.num [] cmp = "lte" -> v.num <= w.num

\* What is left of an expression when all keys but its own are dropped.
Bare(e) ==
    CASE e.op \in {"math", "i18n", "computed"} -> [e EXCEPT !.args = <<>>]
      [] e.op \in {"array", "uniqueId"} -> [e EXCEPT !.source = [op |-> "value", value |-> Undefined]]
      [] e.op \in {"let", "switch", "cond"} -> [op |-> "value", value |-> Undefined]
      [] OTHER -> e

AuthPath == [isAuthenticated |-> <<"auth", "isAuthenticated">>, loading |-> <<"auth", "loading">>,
             error |-> <<"auth", "error">>, id |-> <<"auth", "user", "id">>, email |-> <<"auth", "user", "email">>,
             role |-> <<"auth", "user", "role">>, roles |-> <<"auth", "user", "roles">>,
             metadata |-> <<"auth", "user", "metadata">>, user |-> <<"auth", "user">>]

Blocked == {"token", "accessToken", "refreshToken", "password", "secret", "session"}

\* $auth: keys is the field, cut at its dots.
AuthField(keys, s) ==
    CASE Head(keys) \in Blocked -> Undefined
      [] keys = <<"isAuthenticated">> -> B(Get(s, AuthPath.isAuthenticated) = B(TRUE))
      [] Len(keys) = 1 /\ keys[1] \in DOMAIN AuthPath ->
           LET v == Get(s, AuthPath[keys[1]])
           IN  IF Is("rec", v) THEN [rec |-> [k \in DOMAIN v.rec \ Blocked |-> v.rec[k]]] ELSE v
      [] Len(keys) > 1 /\ keys[1] = "metadata" /\ keys[2] \notin Blocked ->
           Walk(Get(s, AuthPath.metadata), Tail(keys))
      [] OTHER -> Undefined

\* The default breakpoints.
MinWidth == [sm |-> 0, md |-> 768, lg |-> 1024, xl |-> 1280]

\* $breakpoint takes its values as they are.
AtWidth(cases, s) ==
    LET device == Get(s, <<"ui", "device", "viewportWidth">>)
        page == Get(s, <<"ui", "viewportWidth">>)
        width == IF device # Undefined THEN device.num ELSE IF page # Undefined THEN page.num ELSE 1024
        fit == {b \in DOMAIN cases \cap DOMAIN MinWidth : width >= MinWidth[b]}
    IN  IF fit # {} THEN cases[CHOOSE b \in fit : \A o \in fit : MinWidth[b] >= MinWidth[o]]
        ELSE IF "sm" \in DOMAIN cases THEN cases["sm"] ELSE Undefined

Arithmetic(fn, args) ==
    LET n == [i \in DOMAIN args |-> NumberOf(args[i])]
        first == IF n = <<>> THEN 0 ELSE n[1]
    IN  CASE fn = "add" -> N(FoldLeft(LAMBDA a, b : a + b, 0, n))
          [] fn = "multiply" -> N(FoldLeft(LAMBDA a, b : a * b, 1, n))
          [] fn = "subtract" -> N(IF Len(n) < 2 THEN 0 ELSE n[1] - n[2])
          [] fn = "mod" -> IF Len(n) < 2 THEN N(0) ELSE IF n[2] = 0 THEN NotANumber ELSE N(n[1] % n[2])
          [] fn = "abs" -> N(IF first < 0 THEN -first ELSE first)
          [] OTHER -> Failed

\* $array, its operands evaluated: where is [field, cmp, to] or has the field "".
Matches(item, where) == where.field = "" \/ Compares(Field(item, where.field), where.cmp, where.to)

OnArray(fn, source, where, value, field) ==
    IF ~Is("list", source) THEN IF fn = "count" THEN N(0) ELSE L(<<>>)
    ELSE LET items == source.list
             chosen == SelectSeq(items, LAMBDA i : Matches(i, where))
         IN  CASE fn = "count" -> N(Len(chosen))
               [] fn = "length" -> N(Len(items))
               [] fn = "sum" -> N(FoldLeft(LAMBDA a, i : a + NumberOf(Field(i, field)), 0, chosen))
               [] fn = "filter" -> L(chosen)
               [] fn = "remove" ->
                    IF where.field = "" THEN source ELSE L(SelectSeq(items, LAMBDA i : ~Matches(i, where)))
               [] fn = "replace" ->
                    IF where.field = "" THEN source
                    ELSE L([k \in DOMAIN items |-> IF Matches(items[k], where)
                                                   THEN [rec |-> value.rec @@ items[k].rec] ELSE items[k]])
               [] fn = "append" -> L(Append(items, value))
               [] fn = "map" -> L([k \in DOMAIN items |-> Field(items[k], field)])
               [] fn = "find" -> IF chosen = <<>> \/ where.field = "" THEN Undefined ELSE chosen[1]
               [] fn = "includes" -> B(Contains(items, value))
               [] fn = "toggle" ->
                    L(IF Contains(items, value) THEN SelectSeq(items, LAMBDA i : i # value) ELSE Append(items, value))
               [] fn = "first" -> IF items = <<>> THEN Undefined ELSE items[1]
               [] fn = "last" -> IF items = <<>> THEN Undefined ELSE Last(items)
               [] OTHER -> Failed

\* $uniqueId: the first of prefix start, prefix start+1, ... that no item has.
FreeId(items, field, prefix, start) ==
    LET taken == {TextOf(Field(items[k], field)) : k \in DOMAIN items}
        named(k) == prefix.str \o <<ToString(k)>>
        free == {k \in start .. start + Len(items) : named(k) \notin taken}
    IN  [str |-> named(CHOOSE k \in free : \A o \in free : k <= o)]
-----------------------------------------------------------------------------
(* The resolver. c is the context: the bindings of $let around, and the item, index, props *)
(* and selection of where the element stands (Undefined where it has none). *)

NoContext == [lets |-> <<>>, item |-> Undefined, index |-> Undefined, props |-> Undefined, selection |-> <<>>]

\* A name of $let and the keys after its dots; a part that is not there is Failed.
Binding(lets, keys) ==
    IF keys[1] \notin DOMAIN lets THEN Failed
    ELSE LET v == Walk(lets[keys[1]], Tail(keys)) IN IF v = Undefined /\ Len(keys) > 1 THEN Failed ELSE v

Unless(values, v) == IF Failed \in values THEN Failed ELSE v

RECURSIVE Eval(_, _, _)

\* visible, $and, $or and $not: the keys of the source stay with it, and an $or or an $and
\* is asked without looking at the comparison.
RECURSIVE Holds(_, _, _)
Holds(k, s, c) ==
    CASE k.src.op = "or" -> \E i \in DOMAIN k.src.of : Holds(k.src.of[i], s, c)
      [] k.src.op = "and" -> \A i \in DOMAIN k.src.of : Holds(k.src.of[i], s, c)
      [] OTHER -> Compares(Eval(k.src, s, c), k.cmp, Eval(k.to, s, c)) # k.not

\* $cond asks the value of the bare source.
Decides(k, s, c) == Compares(Eval(Bare(k.src), s, c), k.cmp, Eval(k.to, s, c)) # k.not

\* Each binding may refer to those before it.
WithBindings(binds, s, c) ==
    FoldLeft(LAMBDA ctx, b : [ctx EXCEPT !.lets = (b[1] :> Eval(b[2], s, ctx)) @@ @], c, binds)

Each(es, s, c) == [i \in DOMAIN es |-> Eval(es[i], s, c)]

ObjectOf(e, s, c) ==
    LET fields == [k \in DOMAIN e.fields |-> Eval(e.fields[k], s, c)] IN Unless(Range(fields), [rec |-> fields])

Piece(p, s, c) ==
    CASE p.kind = "text" -> p.value
      [] p.kind = "path" -> Get(s, p.path)
      [] p.kind = "ref" -> LET b == Binding(c.lets, p.path) IN IF b = Failed THEN Undefined ELSE b

Interpolated(values) == FlattenSeq([i \in DOMAIN values |-> IF values[i] = Undefined THEN <<>> ELSE TextOf(values[i])])

Template(e, s, c) == [str |-> Interpolated([i \in DOMAIN e.parts |-> Piece(e.parts[i], s, c)])]

LetIn(e, s, c) ==
    LET inner == WithBindings(e.binds, s, c) IN Unless(Range(inner.lets), Eval(e.in, s, inner))

Cond(e, s, c) == IF Decides(e.cond, s, c) THEN Eval(e.then, s, c) ELSE Eval(e.else, s, c)

Switch(e, s, c) ==
    LET on == Eval(e.on, s, c)
    IN  IF on = Failed THEN Failed
        ELSE IF TextOf(on)[1] \in DOMAIN e.cases THEN Eval(e.cases[TextOf(on)[1]], s, c)
        ELSE Eval(e.default, s, c)

Array(e, s, c) ==
    LET source == Eval(e.source, s, c)
        value == Eval(e.value, s, c)
        where == [e.where EXCEPT !.to = Eval(@, s, c)]
    IN  Unless({source, value, where.to}, OnArray(e.fn, source, where, value, e.field))

Logic(e, s, c) ==
    CASE e.op = "and" -> B(\A i \in DOMAIN e.of : Holds(e.of[i], s, c))
      [] e.op = "or" -> B(\E i \in DOMAIN e.of : Holds(e.of[i], s, c))
      [] e.op = "not" -> B(~Holds(e.of, s, c))

Platform(e, s, c) ==
    LET platform == Get(s, <<"ui", "device", "platform">>)
    IN  IF platform = Undefined THEN Undefined
        ELSE IF platform.str[1] \in DOMAIN e.cases THEN Eval(e.cases[platform.str[1]], s, c)
        ELSE IF platform # S("web") /\ "native" \in DOMAIN e.cases THEN Eval(e.cases["native"], s, c)
        ELSE Undefined

Token(e, s) ==
    LET theme == Get(s, <<"preferences", "theme">>)
        mode == IF Is("str", theme) /\ theme.str[1] \in DOMAIN Tokens THEN theme.str[1] ELSE "base"
    IN  IF e.name \in DOMAIN Tokens[mode] THEN Tokens[mode][e.name] ELSE Failed

Translated(e, s, c) ==
    LET locale == Get(s, <<"preferences", "locale">>)
        table == IF Is("str", locale) THEN locale.str[1] ELSE "en"
        args == Each(e.args, s, c)
    IN  IF table \notin DOMAIN Translations \/ e.key \notin DOMAIN Translations[table] THEN S(e.key)
        ELSE Unless(Range(args), [str |-> <<Translations[table][e.key]>> \o Interpolated(args)])

Item(e, c) == IF c.item = Undefined THEN Failed ELSE IF e.name = "" THEN c.item ELSE Field(c.item, e.name)

Prop(e, c) == IF c.props = Undefined THEN Failed ELSE Field(c.props, e.name)

Selection(e, s, c) ==
    LET picked == IF c.selection = <<>> THEN Undefined ELSE Get(s, c.selection)
        ids == IF Is("list", picked) THEN picked.list ELSE <<>>
    IN  IF c.selection = <<>> THEN Failed
        ELSE IF e.name = "count" THEN N(Len(ids))
        ELSE B(c.item # Undefined /\ Contains(ids, Field(c.item, "id")))

UniqueId(e, s, c) ==
    LET source == Eval(e.source, s, c)
    IN  FreeId(IF Is("list", source) THEN source.list ELSE <<>>, e.field, e.prefix, e.start)

Eval(e, s, c) ==
    CASE e.op = "value" -> e.value
      [] e.op = "object" -> ObjectOf(e, s, c)
      [] e.op \in {"state", "bindState"} -> Get(s, e.path)
      [] e.op = "template" -> Template(e, s, c)
      [] e.op = "let" -> LetIn(e, s, c)
      [] e.op = "ref" -> Binding(c.lets, e.path)
      [] e.op = "cond" -> Cond(e, s, c)
      [] e.op = "switch" -> Switch(e, s, c)
      [] e.op = "math" -> LET args == Each(e.args, s, c) IN Unless(Range(args), Arithmetic(e.fn, args))
      [] e.op = "array" -> Array(e, s, c)
      [] e.op \in {"and", "or", "not"} -> Logic(e, s, c)
      [] e.op = "auth" -> AuthField(e.field, s)
      [] e.op = "platform" -> Platform(e, s, c)
      [] e.op = "breakpoint" -> AtWidth(e.cases, s)
      [] e.op = "token" -> Token(e, s)
      [] e.op = "i18n" -> Translated(e, s, c)
      [] e.op = "prop" -> Prop(e, c)
      [] e.op = "item" -> Item(e, c)
      [] e.op = "index" -> IF c.index = Undefined THEN Failed ELSE c.index
      [] e.op = "selection" -> Selection(e, s, c)
      [] e.op = "uniqueId" -> UniqueId(e, s, c)
      [] e.op = "computed" -> LET args == Each(e.args, s, c) IN Unless(Range(args), e.fn[args])
      [] OTHER -> Failed
-----------------------------------------------------------------------------
(* The dependency scanner *)

Operands(e) ==
    CASE e.op = "object" -> Range(e.fields)
      [] e.op = "let" -> {e.in} \cup {b[2] : b \in Range(e.binds)}
      [] e.op = "cond" -> {e.cond.src, e.cond.to, e.then, e.else}
      [] e.op = "switch" -> {e.on, e.default} \cup Range(e.cases)
      [] e.op \in {"math", "i18n", "computed"} -> Range(e.args)
      [] e.op = "array" -> {e.source, e.value, e.where.to}
      [] e.op \in {"and", "or"} -> UNION {{k.src, k.to} : k \in Range(e.of)}
      [] e.op = "not" -> {e.of.src, e.of.to}
      [] e.op = "platform" -> Range(e.cases)
      [] e.op = "uniqueId" -> {e.source}
      [] OTHER -> {}

OwnPaths(e) ==
    CASE e.op \in {"state", "bindState"} -> {e.path}
      [] e.op = "template" -> {e.parts[i].path : i \in {i \in DOMAIN e.parts : e.parts[i].kind = "path"}}
      [] e.op = "prop" -> {<<"__prop", e.name>>}
      [] e.op = "token" -> {<<"preferences", "theme">>}
      [] e.op = "i18n" -> {<<"preferences", "locale">>}
      [] e.op = "breakpoint" -> {<<"ui", "device", "viewportWidth">>, <<"ui", "viewportWidth">>}
      [] e.op = "auth" -> {IF e.field[1] \in {"isAuthenticated", "loading", "error"} THEN <<"auth", e.field[1]>>
                           ELSE IF e.field = <<"user">> THEN <<"auth", "user">>
                           ELSE <<"auth", "user", FoldLeft(LAMBDA a, k : a \o "." \o k, e.field[1], Tail(e.field))>>}
      [] OTHER -> {}

RECURSIVE Scanned(_)
Scanned(e) == OwnPaths(e) \cup UNION {Scanned(o) : o \in Operands(e)}

\* What the handlers of $platform and of a field of $auth's metadata read, and the scanner
\* does not list. ($selection is not listed either, but stands in rows only.)
OwnUnlisted(e) ==
    CASE e.op = "platform" -> {<<"ui", "device", "platform">>}
      [] e.op = "auth" /\ Len(e.field) > 1 -> {AuthPath.metadata}
      [] OTHER -> {}

RECURSIVE Unlisted(_)
Unlisted(e) == OwnUnlisted(e) \cup UNION {Unlisted(o) : o \in Operands(e)}

\* Touches as it must not be: a path above the dependency changes nothing.
TouchesBelow(deps, changed) == \E d \in deps : IsPrefix(d, changed)

\* isDirty: a dependency is the changed path, above it or below it.
Touches(deps, changed) == \E d \in deps : IsPrefix(d, changed) \/ IsPrefix(changed, d)
-----------------------------------------------------------------------------
(* An element on the page, and what is written below it *)

\* skipCache: what stands in a row is resolved in every rendering.
InRow == around.item # Undefined

Drawn(s) == [value |-> Eval(expr, s, around), dirty |-> FALSE]
SeenIn(s) == [l \in Unlisted(expr) |-> s[l]]

ExprInit ==
    /\ \E element \in OnPage : expr = element.shows /\ around = element.around
    /\ state = StartState
    /\ entry = Drawn(state) /\ seen = SeenIn(state)
    /\ writes = 0

Writes(paths, leaves) ==
    /\ writes < MaxWrites
    /\ writes' = writes + 1
    /\ state' = leaves @@ state
    /\ entry' = [entry EXCEPT !.dirty = @ \/ InRow \/ \E p \in paths : Touches(Scanned(expr), p)]
    /\ UNCHANGED <<expr, around, seen>>

\* A setState writes one path, the auth engine each field of the user and the device
\* context each of its fields.
Write == \E u \in Updates : Writes(u.paths, u.leaves)

Rows == [op |-> "state", path |-> <<"rows">>]
ByQty(n) == [field |-> "qty", cmp |-> "eq", to |-> [op |-> "value", value |-> N(n)]]
NoWhere == [field |-> "", cmp |-> "none", to |-> [op |-> "value", value |-> Undefined]]
NextId == [op |-> "uniqueId", source |-> Rows, field |-> "id", prefix |-> S("row-"), start |-> 1]
Changed(fn, where, value) ==
    Eval([op |-> "array", fn |-> fn, source |-> Rows, where |-> where, value |-> value, field |-> ""], state, NoContext)
SetRows(v) == Writes({<<"rows">>}, <<"rows">> :> v)

\* The actions of a spec that keeps a list: a new row takes a free id.
AddRow(qty) ==
    SetRows(Changed("append", NoWhere,
                    [op |-> "object", fields |-> [id |-> NextId, qty |-> [op |-> "value", value |-> N(qty)]]]))
DropRows(qty) == SetRows(Changed("remove", ByQty(qty), [op |-> "value", value |-> Undefined]))
Raise(qty) ==
    SetRows(Changed("replace", ByQty(qty),
                    [op |-> "object", fields |-> [qty |-> [op |-> "value", value |-> N(qty + 1)]]]))

\* The renderer resolves a dirty element again.
Redraw ==
    /\ entry.dirty
    /\ entry' = Drawn(state) /\ seen' = SeenIn(state)
    /\ UNCHANGED <<state, expr, around, writes>>

ExprNext == Write \/ (\E qty \in {0, 1} : AddRow(qty) \/ DropRows(qty) \/ Raise(qty)) \/ Redraw
ExprSpec == ExprInit /\ [][ExprNext]_exprVars
-----------------------------------------------------------------------------
\* What an element shows is what its expression is worth now, unless the element is about
\* to be drawn again: the scanner (renderer/deps.ts) finds every path the handlers read but
\* the platform and the metadata of the user, which are shown as they were when it was drawn.
ShowsItsValue == ~entry.dirty => entry.value = Eval(expr, seen @@ state, around)

\* The rows a spec adds, drops and changes by $array and $uniqueId keep different ids.
RowsDiffer ==
    LET rows == state[<<"rows">>].list
    IN  \A i, j \in DOMAIN rows : i # j => Field(rows[i], "id") # Field(rows[j], "id")

\* $cond takes its then branch where visible would show the element.
RECURSIVE Conditions(_)
Conditions(e) ==
    UNION {Conditions(o) : o \in Operands(e)} \cup (IF e.op = "cond" THEN {e.cond} ELSE {})
DecisionsAgree == \A k \in Conditions(expr) : Decides(k, state, around) = Holds(k, state, around)

-----------------------------------------------------------------------------
(* What the code does not keep *)

\* What an element shows is what its expression is worth now, whatever it reads.
ShowsTheTruth == ~entry.dirty => entry.value = Eval(expr, state, around)

\* Arithmetic never answers NaN, whatever it is given.
NeverNaN == entry.value # NotANumber
=============================================================================
