------------------------------ MODULE DataTable ------------------------------
(***************************************************************************)
(* The table primitive (react/src/primitives/table.tsx) with what the      *)
(* renderer wires to it.  The order, the page, the selection and the       *)
(* folded groups are state of the component; the rows are props, and       *)
(* change under it whenever their source answers.                          *)
(***************************************************************************)
EXTENDS Integers, Sequences, FiniteSets, SequencesExt, FiniteSetsExt

CONSTANTS
    Tables,     \* the specs of a table: [columns, sorting, default, paging, size, selecting, stored, group, collapsible]
                \* and its source, all it may answer: [rows, total], of the columns' values
    MaxAnswers  \* bound on the answers

VARIABLES
    props,      \* the spec of the table and the data it shows: [table, rows, total]
    view,       \* its state: [sort, page, selected, collapsed]
    kept,       \* what it wrote to the store: the order, the page, the selection, the row pressed
    answers

tableVars == <<props, view, kept, answers>>

None == [kind |-> "none"]
-----------------------------------------------------------------------------
(* Values: a number, or a text of this place in the order of texts.  A number has such a *)
(* place too, for it is compared with a text as one. *)

Empty == [kind |-> "text", n |-> 0, place |-> 0]
Field(row, field) == IF field \in DOMAIN row /\ row[field].kind # "missing" THEN row[field] ELSE Empty

\* compareValues.
Compare(a, b, direction) ==
    LET asc == IF a.kind = "number" /\ b.kind = "number" THEN a.n - b.n ELSE a.place - b.place
    IN  IF direction = "desc" THEN -asc ELSE asc

\* A stable sort: a row goes after the last one it does not precede.
Inserted(sort, sorted, row) ==
    LET after == Max({0} \cup {i \in DOMAIN sorted : Compare(Field(sorted[i], sort.field), Field(row, sort.field), sort.direction) <= 0})
    IN  InsertAt(sorted, after + 1, row)
SortRows(sort, rows) == FoldLeft(LAMBDA sorted, row : Inserted(sort, sorted, row), <<>>, rows)

\* normalizeColumns: the columns that are visible, or those of the first row.
Columns(p) ==
    IF p.table.columns # {} THEN {c \in p.table.columns : c.visible}
    ELSE IF p.rows = <<>> THEN {} ELSE {[id |-> f, sortable |-> TRUE, visible |-> TRUE] : f \in DOMAIN p.rows[1]}
-----------------------------------------------------------------------------
(* What is shown *)

\* processedData before and after the page is cut.
Ordered(p, v) == IF p.table.sorting = "client" /\ v.sort # None THEN SortRows(v.sort, p.rows) ELSE p.rows

TotalItems(p) == IF p.table.paging = "server" THEN p.total ELSE Len(p.rows)
TotalPages(p) ==
    IF p.table.paging = "off" THEN 1 ELSE Max({1, (TotalItems(p) + p.table.size - 1) \div p.table.size})

PageOf(rows, page, size) == SubSeq(rows, (page - 1) * size + 1, Min({Len(rows), page * size}))

Processed(p, v) ==
    IF p.table.paging = "client" THEN PageOf(Ordered(p, v), v.page, p.table.size) ELSE Ordered(p, v)

\* groupData: the keys in the order they first appear, and the rows of a key.
Key(p, row) == Field(row, p.table.group)
Keys(p, rows) == FoldLeft(LAMBDA keys, row : IF Key(p, row) \in ToSet(keys) THEN keys ELSE Append(keys, Key(p, row)),
                          <<>>, rows)
GroupOf(p, rows, key) == SelectSeq(rows, LAMBDA row : Key(p, row) = key)

\* sumColumn: the subtotal of a group, {} where it has no number.
Numbers(rows, field) == SelectSeq(rows, LAMBDA row : Field(row, field).kind = "number")
SumColumn(rows, field) ==
    IF Numbers(rows, field) = <<>> THEN {}
    ELSE {FoldLeft(LAMBDA sum, row : sum + Field(row, field).n, 0, Numbers(rows, field))}

\* The rows on the page in the order they are drawn, those of folded groups included:
\* their places go into the ids of rows that have none.
Drawn(p, v) ==
    IF p.table.group = "" THEN Processed(p, v)
    ELSE LET rows == Processed(p, v)
             keys == Keys(p, rows)
         IN  FlattenSeq([k \in DOMAIN keys |-> GroupOf(p, rows, keys[k])])
Visible(p, v) ==
    LET rows == Drawn(p, v)
    IN  {i \in DOMAIN rows : p.table.group = "" \/ Key(p, rows[i]) \notin v.collapsed}

RowId(row, index) == IF "id" \in DOMAIN row THEN row["id"] ELSE [place |-> index]

Checked(p, v, i) == RowId(Drawn(p, v)[i], i) \in ToSet(v.selected)
AllChecked(p, v) == Len(v.selected) = Len(p.rows) /\ p.rows # <<>>
-----------------------------------------------------------------------------
(* What a user does *)

TableInit ==
    \E table \in Tables : \E d \in table.source :
        /\ props = [table |-> table, rows |-> d.rows, total |-> d.total]
        /\ view = [sort |-> table.default, page |-> 1, selected |-> <<>>, collapsed |-> {}]
        /\ kept = [sort |-> None, page |-> 1, selected |-> <<>>, pressed |-> None]
        /\ answers = 0

\* handleSort.  In client mode the page is the first again; in server mode the order goes
\* to the store and the page stays.
Sorted(field) ==
    LET same == view.sort # None /\ view.sort.field = field
        next == [kind |-> "sort", field |-> field,
                 direction |-> IF same /\ view.sort.direction = "asc" THEN "desc" ELSE "asc"]
    IN  IF props.table.sorting = "server"
        THEN view' = [view EXCEPT !.sort = next] /\ kept' = [kept EXCEPT !.sort = next]
        ELSE /\ view' = [view EXCEPT !.sort = next, !.page = IF props.table.paging = "client" THEN 1 ELSE @]
             /\ UNCHANGED kept
Sort(column) ==
    /\ props.rows # <<>> /\ props.table.sorting # "off" /\ column.sortable
    /\ Sorted(column.id)
    /\ UNCHANGED <<props, answers>>

\* The buttons Previous and Next, and handlePageChange.
Offered(page) == page >= 1 /\ page <= TotalPages(props)
Turn(by) ==
    /\ props.rows # <<>> /\ props.table.paging # "off"
    /\ IF by > 0 THEN Offered(view.page + 1) ELSE view.page > 1
    /\ view' = [view EXCEPT !.page = @ + by]
    /\ kept' = IF props.table.paging = "server" THEN [kept EXCEPT !.page = view.page + by] ELSE kept
    /\ UNCHANGED <<props, answers>>

\* handleSelect and handleSelectAll: the ids, and a copy of them in the store.
Selects(next) ==
    /\ view' = [view EXCEPT !.selected = next]
    /\ kept' = IF props.table.stored THEN [kept EXCEPT !.selected = next] ELSE kept
    /\ UNCHANGED <<props, answers>>
Toggled(id) ==
    IF props.table.selecting = "single" THEN <<id>>
    ELSE IF id \in ToSet(view.selected) THEN SelectSeq(view.selected, LAMBDA other : other # id)
    ELSE Append(view.selected, id)
Select(i) ==
    /\ props.table.selecting # "off" /\ i \in Visible(props, view)
    /\ props.table.selecting = "single" => ~Checked(props, view, i)
    /\ Selects(Toggled(RowId(Drawn(props, view)[i], i)))

AllIds == [i \in DOMAIN props.rows |-> RowId(props.rows[i], i)]
SelectAll ==
    /\ props.table.selecting = "multiple" /\ props.rows # <<>>
    /\ Selects(IF Len(view.selected) = Len(props.rows) THEN <<>> ELSE AllIds)

\* toggleGroup.
Fold(key) ==
    /\ view' = [view EXCEPT !.collapsed = SymDiff(@, {key})]
    /\ UNCHANGED <<props, kept, answers>>

\* A click on a row, or on a button in it: the row is written before its actions run.
Press(i) ==
    /\ i \in Visible(props, view)
    /\ kept' = [kept EXCEPT !.pressed = Drawn(props, view)[i]]
    /\ UNCHANGED <<props, view, answers>>

\* The source answers with other data; the page, the selection and the groups stay.
Answered(d) ==
    /\ answers < MaxAnswers /\ answers' = answers + 1
    /\ props' = [props EXCEPT !.rows = d.rows, !.total = d.total]
    /\ UNCHANGED <<view, kept>>

TableNext ==
    \/ \E column \in Columns(props) : Sort(column)
    \/ \E by \in {-1, 1} : Turn(by)
    \/ \E i \in DOMAIN props.rows : Select(i) \/ Press(i)
    \/ SelectAll
    \/ props.table.collapsible /\ \E key \in ToSet(Keys(props, Processed(props, view))) : Fold(key)
    \/ \E d \in props.table.source : Answered(d)
-----------------------------------------------------------------------------
TableTypeOK ==
    /\ view.page \in Nat /\ view.sort.kind \in {"none", "sort"} /\ props.table \in Tables
    /\ answers \in 0 .. MaxAnswers

\* The pages of a table hold every row once, whatever the order.
PagesHoldAll ==
    props.table.paging = "client" =>
        LET ordered == Ordered(props, view)
            pages == FlattenSeq([n \in 1 .. TotalPages(props) |-> PageOf(ordered, n, props.table.size)])
        IN  \A row \in ToSet(props.rows) \cup ToSet(pages) :
                Cardinality({i \in DOMAIN pages : pages[i] = row})
                    = Cardinality({i \in DOMAIN props.rows : props.rows[i] = row})

\* The groups of a page hold its rows once, and their subtotals add up to those of the page.
GroupsHoldPage ==
    LET rows == Processed(props, view)
    IN  props.table.group # "" =>
            /\ IsInjective(Keys(props, rows)) /\ Len(Drawn(props, view)) = Len(rows)
            /\ \A c \in Columns(props) :
                  SumSet(SumColumn(rows, c.id))
                    = FoldLeft(LAMBDA sum, key : sum + SumSet(SumColumn(GroupOf(props, rows, key), c.id)),
                               0, Keys(props, rows))

\* No row is selected twice, the store tells the selection, and the box in the header is
\* checked when all rows are selected, unless rows that are not among the data any more are
\* selected too (renderHeader counts those).
SelectionTrue ==
    LET ids == {RowId(props.rows[i], i) : i \in DOMAIN props.rows}
    IN  /\ IsInjective(view.selected)
        /\ props.table.selecting = "single" => Len(view.selected) <= 1
        /\ (props.rows # <<>> /\ ToSet(view.selected) \subseteq ids) =>
              (AllChecked(props, view) <=> ids \subseteq ToSet(view.selected))
        /\ props.table.stored => kept.selected = view.selected

\* Only an answer takes the user off the pages there are: sorting, turning and folding, on
\* either side, never show a page that is not.
PageKept ==
    (props' = props /\ view.page <= TotalPages(props)) => view'.page \in 1 .. TotalPages(props)
-----------------------------------------------------------------------------
(* What the code does not keep *)

\* The user is on one of the pages.
OnAPage == view.page \in 1 .. TotalPages(props)

\* Sorting, turning the page, folding groups and new data select nothing: a row on the page
\* before and after is checked in both or in neither.
SelectionStays ==
    LET before == Drawn(props, view)
        after == Drawn(props', view')
    IN  view'.selected = view.selected =>
            \A i \in DOMAIN before, j \in DOMAIN after :
                before[i] = after[j] =>
                    (RowId(before[i], i) \in ToSet(view.selected) <=> RowId(after[j], j) \in ToSet(view.selected))
=============================================================================
