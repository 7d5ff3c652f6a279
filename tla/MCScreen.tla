------------------------------- MODULE MCScreen -------------------------------
(***************************************************************************)
(* What a page shows, on small instances.  part says which part of it a    *)
(* behaviour is about: the tree of one screen, the shell that loads        *)
(* screens, an upload element, the editor of a spatial map, one gesture of *)
(* that editor for every combination of a few measures, a form, a table,   *)
(* an element that shows an expression, one with animations, or the        *)
(* actions of the page.                                                    *)
(***************************************************************************)
EXTENDS RenderTree, AppScreens, TLC

CONSTANTS
    Parts,
    File, MaxSize, GlobalMax, MaxRuns,
    Unit, Grain, Step, ScaleStep, MaxEdits,
    MaxRequests, MaxEngines, MaxAnswers,
    MaxWrites, EveryExpression,
    Patient,       \* whether users let what they started end before they go on
    MaxPresses, MaxToasts, MaxVisible, PerWindow

VARIABLES
    part,
    registry, list, runs, target, stored, wanted,
    scene, page, drag, dropped, suppressed, click, heard, typed, edits,
    gesture,
    form, engines, requests, submitting, created,
    props, view, kept, answers,
    state, expr, around, entry, seen, writes,
    platform, param, reduced, flags, amount, waiting, clearing, pulse, style, progress, leaving,
    device, held, chains, pace, toasts, boxes, display, spent
-----------------------------------------------------------------------------
(* The screen: a box with texts, a panel that comes and goes with its exit animation, a *)
(* list, a custom element, a modal and a template. *)

Name == <<"user", "name">>
Count == <<"count">>
Dialog == <<"ui", "modals", "dialog">>
TreeLeaf == {Name, Count, Dialog}
TreeValues == [l \in TreeLeaf |-> IF l = Count THEN {0, 2} ELSE {0, 1}]
TreeWritten == {<<"user">>, Count, Dialog}

Box(kids) == [Plain EXCEPT !.children = kids]
Text(p) == [Plain EXCEPT !.reads = {p}]
TreeElements == [
    root |-> Box(<<"head", "panel", "rows", "card", "dialog", "badge", "gone", "odd">>),
    head |-> [Text(<<"user">>) EXCEPT !.styleReads = {Count}, !.motionReads = {Name}],
    panel |-> [Box(<<"inner">>) EXCEPT !.visible = Count, !.exit = TRUE],
    inner |-> Text(Name),
    rows |-> [Box(<<"row">>) EXCEPT !.repeat = Count, !.group = <<"title">>],
    row |-> Text(Name),
    title |-> Text(Count),
    card |-> [Plain EXCEPT !.type = "custom", !.given = [heading |-> Name], !.into = "card_el"],
    card_el |-> [Box(<<"note">>) EXCEPT !.wants = {"heading"}],
    note |-> Text(Count),
    dialog |-> [Box(<<"field">>) EXCEPT !.type = "modal"],
    field |-> Text(Dialog),
    badge |-> [Box(<<"mark">>) EXCEPT !.type = "template", !.given = [label |-> Count], !.wants = {"label"}],
    mark |-> Text(Name),
    odd |-> [Plain EXCEPT !.type = "unknown"]]
-----------------------------------------------------------------------------
(* The shell: three screens, an administrator and a clerk. *)

ShellMenu == <<"login", "home", "form">>
AllScreens == {"*"}
ShellRoles == "admin" :> {"*"} @@ "clerk" :> {"form"}
OpenScreens == [s \in Screen |-> {"*"}]
ShellPolicy == [s \in Screen |-> IF s = "form" THEN "reset" ELSE "preserve"]
ShellParent == [s \in Screen |-> IF s = "form" THEN "home" ELSE "nowhere"]
ShellUsers == {[role |-> "admin", roles |-> {"admin"}], [role |-> "clerk", roles |-> {"no roles"}]}
-----------------------------------------------------------------------------
(* The upload element: it takes images and PDF files, and one file is too big. *)

FileType == [f \in File |-> IF f = "b" THEN "pdf" ELSE "png"]
Uploads == INSTANCE FileUploads WITH
    Size <- [f \in File |-> IF f = "big" THEN 3 ELSE 1], Type <- FileType, Extension <- FileType,
    Category <- [f \in File |-> IF f = "b" THEN "application" ELSE "image"],
    AllowedTypes <- {"png", "pdf"},
    Accept <- {[kind |-> "category", of |-> "image"], [kind |-> "extension", of |-> "pdf"]},
    Selections <- {<<"a">>, <<"big", "a">>, <<"a", "b">>}
uploadVars == <<registry, list, runs, target, stored, wanted>>
-----------------------------------------------------------------------------
(* The spatial map: 40 by 40 with grid stops every 5, a desk or a room, and another item *)
(* that may not be moved, to whose center they are drawn. *)

Given == [on |-> {"snap"}, off |-> {}, can |-> {}, minScale |-> 0, maxScale |-> 0,
          grid |-> [x |-> 5 * Unit, y |-> 5 * Unit], gridThreshold |-> Unit, centerThreshold |-> Unit,
          snapGrid |-> TRUE, snapCenters |-> TRUE, bounded |-> TRUE, rotationStep |-> 90,
          rect |-> [at |-> [x |-> 0, y |-> 0], size |-> [x |-> 40 * Unit, y |-> 40 * Unit]]]
Thing(kind, x, y, shape) ==
    [kind |-> kind, position |-> [x |-> x, y |-> y], rotation |-> 0, scale |-> [x |-> Unit, y |-> Unit],
     localBounds |-> [at |-> [x |-> 0, y |-> 0], size |-> [x |-> -1, y |-> -1]],
     shape |-> shape, disabled |-> FALSE]
Rect(w, h) == [type |-> "rect", at |-> [x |-> 0, y |-> 0], size |-> [x |-> w, y |-> h]]
Triangle == [type |-> "polygon", points |-> <<[x |-> 0, y |-> 0], [x |-> 8 * Unit, y |-> 0], [x |-> 0, y |-> 8 * Unit]>>]
Desk == Thing("item", 6 * Unit, 6 * Unit, Rect(4 * Unit, 4 * Unit))
Room == Thing("zone", 0, 0, Triangle)
Pillar == [Thing("item", 15 * Unit, 16 * Unit, Rect(Unit, Unit)) EXCEPT !.disabled = TRUE]
Geometry == INSTANCE SpatialEditing
EditorPolicy == Geometry!EditPolicy("edit", Given)

Editor == INSTANCE SpatialMap WITH
    store <- scene, Policy <- EditorPolicy,
    Press <- {"selectItems", "selectZones", "zonePressStopsCanvas", "clearSelectionOnCanvasPress"},
    Scenes <- {[desk |-> Desk, fixed |-> Pillar], [room |-> Room, fixed |-> Pillar]},
    Target <- {[x |-> 60, y |-> 60], [x |-> 97, y |-> 160]}, Grabbed <- {[x |-> 1, y |-> 1]},
    Reached <- {1}, Angles <- {90}, Ratios <- {FALSE}, Arrows <- {[x |-> 1, y |-> 0]}
editorVars == <<scene, page, drag, dropped, suppressed, click, heard, typed, edits>>

\* One gesture: a desk or a room, larger and turned, a handle and a point, a key.
Policies == {EditorPolicy, [EditorPolicy EXCEPT !.snapGrid = FALSE], [EditorPolicy EXCEPT !.can = {}]}
Gestures ==
    [thing : {[t EXCEPT !.rotation = r, !.scale = s] :
                t \in {Desk, Thing("zone", 10 * Unit, 5 * Unit, Rect(8 * Unit, 4 * Unit))}, r \in {0, 90, -180},
                s \in {[x |-> Unit, y |-> Unit], [x |-> 2 * Unit, y |-> Unit \div 2]}},
     handle : {[x |-> 1, y |-> 1], [x |-> -1, y |-> 0], [x |-> 0, y |-> -1]},
     point : {[x |-> 13, y |-> 27], [x |-> 149, y |-> 150], [x |-> 500, y |-> -20]},
     keepsRatio : BOOLEAN, policy : Policies, delta : {[x |-> Unit, y |-> 0], [x |-> -(7 * Unit), y |-> 0]}]
NoGesture == [thing |-> "none"]
-----------------------------------------------------------------------------
(* The form: a range, whose start is required with its end and whose end comes after it. *)

Amount(n) == [kind |-> "number", num |-> {n}, len |-> 0, trimmed |-> 0, fits |-> {}]
Blank == [kind |-> "text", num |-> {0}, len |-> 0, trimmed |-> 0, fits |-> {}]
Nothing == [Blank EXCEPT !.kind = "missing", !.num = {}]
Rule(type, ref) == [type |-> type, ref |-> ref, arg |-> Nothing]
FormOf == INSTANCE FormEngine WITH
    Fields <- [range |-> <<"from", "to">>], PathOf <- [from |-> "p", to |-> "q"],
    Rules <- [from |-> <<Rule("requiredIf", "q")>>, to |-> <<Rule("greaterThan", "p"), Rule("required", "")>>],
    Value <- {Blank, Amount(1), Amount(2)},
    Documents <- {[p |-> Nothing, q |-> Nothing], [p |-> Amount(1), q |-> Amount(2)]},
    PatientForms <- Patient
formVars == <<form, engines, requests, submitting, created>>
-----------------------------------------------------------------------------
(* The table: three rows of sizes, one of them a text, that is sorted and paged by itself *)
(* or by the server, grouped by area, or without ids.  Answers bring rows and take them. *)

Num(n) == [kind |-> "number", n |-> n, place |-> 10 - n]
Word(k) == [kind |-> "text", n |-> 0, place |-> k]
RowOf(id, size, area) == [id |-> Num(id), size |-> size, area |-> area]
FirstRow == RowOf(1, Num(2), Word(3))
SecondRow == RowOf(2, Num(1), Word(4))
ThirdRow == RowOf(3, Word(2), Word(3))
Column(id, sortable, visible) == [id |-> id, sortable |-> sortable, visible |-> visible]
AllRows == [rows |-> <<FirstRow, SecondRow, ThirdRow>>, total |-> 5]
InOtherOrder == [rows |-> <<ThirdRow, FirstRow, SecondRow>>, total |-> 4]
FewerRows == [rows |-> <<SecondRow>>, total |-> 1]
NoRows == [rows |-> <<>>, total |-> 0]
WithoutIds(d) == [d EXCEPT !.rows = [i \in DOMAIN @ |-> [f \in {"size", "area"} |-> @[i][f]]]]
BareTable ==
    [columns |-> {}, sorting |-> "client", default |-> [kind |-> "none"], paging |-> "client", size |-> 2,
     selecting |-> "multiple", stored |-> FALSE, group |-> "", collapsible |-> FALSE,
     source |-> {AllRows, InOtherOrder, FewerRows}]
Table == INSTANCE DataTable WITH
    Tables <- {[BareTable EXCEPT
                  !.columns = {Column("size", TRUE, TRUE), Column("area", FALSE, TRUE), Column("id", TRUE, FALSE)},
                  !.stored = TRUE, !.source = {AllRows, FewerRows, NoRows}],
               [BareTable EXCEPT
                  !.columns = {Column("size", TRUE, TRUE), Column("area", TRUE, TRUE)},
                  !.sorting = "server", !.paging = "server", !.selecting = "single"],
               [BareTable EXCEPT !.group = "area", !.collapsible = TRUE],
               [BareTable EXCEPT !.source = {WithoutIds(AllRows), WithoutIds(FewerRows)}]}
tableVars == <<props, view, kept, answers>>
-----------------------------------------------------------------------------
(* The expressions: one of every handler, some in each other. EveryExpression adds the *)
(* ones that are not kept up or not decided as they should be. *)

V == INSTANCE Expressions WITH
    OnPage <- {}, StartState <- <<>>, Updates <- {}, Tokens <- <<>>, Translations <- <<>>
At(path) == [op |-> "state", path |-> path]
Const(v) == [op |-> "value", value |-> v]
When(src, cmp, to) == [src |-> src, cmp |-> cmp, to |-> Const(to), not |-> FALSE]
Kind == At(<<"kind">>)
Amounts == [op |-> "array", fn |-> "sum", source |-> At(<<"rows">>), value |-> Const(V!Undefined), field |-> "qty",
            where |-> [field |-> "qty", cmp |-> "gt", to |-> At(<<"n">>)]]
Greeting == [op |-> "template", parts |-> <<[kind |-> "path", path |-> <<"n">>], [kind |-> "text", value |-> V!S("-")],
                                            [kind |-> "ref", path |-> <<"sum">>]>>]
Role == [op |-> "auth", field |-> <<"role">>]
Dept == [op |-> "auth", field |-> <<"metadata", "dept">>]
PageExpressions == {
    [op |-> "let", binds |-> << <<"sum", Amounts>>, <<"two", [op |-> "math", fn |-> "add",
                                 args |-> <<[op |-> "ref", path |-> <<"sum">>], At(<<"n">>)>>]>> >>,
     in |-> [op |-> "object", fields |-> [text |-> Greeting, two |-> [op |-> "ref", path |-> <<"two">>]]]],
    [op |-> "cond", cond |-> [src |-> At(<<"n">>), cmp |-> "gte", to |-> At(<<"picked">>), not |-> TRUE],
     then |-> Role, else |-> [op |-> "i18n", key |-> "hi", args |-> <<Kind>>]],
    [op |-> "switch", on |-> Kind, default |-> Const(V!N(0)),
     cases |-> [a |-> [op |-> "token", name |-> "primary"],
                b |-> [op |-> "breakpoint", cases |-> [sm |-> V!N(1), lg |-> V!N(3)]]]],
    [op |-> "and", of |-> <<When(Kind, "eq", V!S("a")),
                            When([op |-> "or", of |-> <<When(At(<<"n">>), "gt", V!N(1)), When(Role, "neq", V!S("admin"))>>],
                                 "none", V!Undefined)>>],
    [op |-> "cond", cond |-> When(Role, "eq", V!S("admin")),
     then |-> [op |-> "auth", field |-> <<"user">>], else |-> [op |-> "platform", cases |-> [web |-> Kind, native |-> Const(V!N(2))]]],
    [op |-> "object", fields |-> [dept |-> Dept, label |-> [op |-> "prop", name |-> "label"], now |-> Kind]]}
RowExpressions == {
    [op |-> "object", fields |-> [qty |-> [op |-> "item", name |-> "qty"], nr |-> [op |-> "index"],
                                  on |-> [op |-> "platform", cases |-> [web |-> Const(V!N(1)), native |-> Kind]],
                                  picked |-> [op |-> "selection", name |-> "selected"],
                                  count |-> [op |-> "selection", name |-> "count"]]]}
OddExpressions == {
    [op |-> "cond", cond |-> When(Amounts, "gt", V!N(1)), then |-> Kind, else |-> Const(V!N(0))],
    [op |-> "math", fn |-> "mod", args |-> <<Const(V!N(3)), At(<<"n">>)>>]}
Row(id, qty) == [rec |-> [id |-> [str |-> <<"row-", id>>], qty |-> V!N(qty)]]
Person(role, dept) ==
    <<"auth", "user", "role">> :> V!S(role) @@ <<"auth", "user", "metadata">> :> [rec |-> [dept |-> V!S(dept)]]
Update(leaves) == [paths |-> DOMAIN leaves, leaves |-> leaves]
Value == INSTANCE Expressions WITH
    OnPage <-
        {[shows |-> e, around |-> [V!NoContext EXCEPT !.props = [rec |-> [label |-> V!S("row")]]]] :
            e \in PageExpressions \cup (IF EveryExpression THEN OddExpressions ELSE {})}
        \cup {[shows |-> e, around |-> [V!NoContext EXCEPT !.item = Row("1", 1), !.index = V!N(0), !.selection = <<"ids">>]] :
                e \in RowExpressions},
    StartState <- Person("admin", "x") @@ <<"n">> :> V!N(2) @@ <<"kind">> :> V!S("a") @@ <<"picked">> :> V!N(1)
                  @@ <<"rows">> :> V!L(<<Row("1", 1), Row("2", 3)>>) @@ <<"preferences", "theme">> :> V!Undefined
                  @@ <<"preferences", "locale">> :> V!Undefined @@ <<"ui", "device", "viewportWidth">> :> V!N(1200)
                  @@ <<"ui", "device", "platform">> :> V!S("web") @@ <<"ids">> :> V!Undefined,
    Updates <-
        {Update(<<"n">> :> v) : v \in {V!Undefined, V!N(0), V!N(2)}} \cup {Update(<<"kind">> :> V!S(k)) : k \in {"a", "b"}}
        \cup {Update(<<"picked">> :> V!N(3)), Update(Person("admin", "y")), Update(Person("clerk", "x")),
              [paths |-> {<<"preferences">>}, leaves |-> <<"preferences", "theme">> :> V!S("dark")
                                                         @@ <<"preferences", "locale">> :> V!S("es")]}
        \cup {Update(<<"ui", "device", "viewportWidth">> :> V!N(w) @@ <<"ui", "device", "platform">> :> V!S("web")) :
                w \in {500, 900}}
        \cup {Update(<<"ui", "device", "platform">> :> V!S("ios")), Update(<<"ids">> :> V!L(<<[str |-> <<"row-", "1">>]>>))},
    Tokens <- [base |-> [primary |-> V!S("blue")], dark |-> [primary |-> V!S("black")]],
    Translations <- [en |-> [hi |-> "hello"], es |-> [hi |-> "hola"]]
valueVars == <<state, expr, around, entry, seen, writes>>
-----------------------------------------------------------------------------
(* The animations: an element that has all its triggers, one that takes them from the *)
(* cascade, one whose motion is essential, and one whose triggers share properties. *)

Frame(at, of) == [at |-> at, props |-> of]
Fade == [keyframes |-> <<Frame(0, [opacity |-> 0]), Frame(100, [opacity |-> 1])>>, duration |-> 2]
Rise == [keyframes |-> <<Frame(0, [opacity |-> 0, translateY |-> 8]), Frame(50, [opacity |-> 1]),
                         Frame(100, [opacity |-> 1, translateY |-> 0])>>, duration |-> 1, stagger |-> 1]
Pop == [keyframes |-> <<Frame(0, [scale |-> 1]), Frame(50, [scale |-> 2]), Frame(100, [scale |-> 1])>>, duration |-> 2]
Spin == [keyframes |-> <<Frame(0, [rotate |-> 0]), Frame(100, [rotate |-> 360])>>, duration |-> 1, endless |-> TRUE]
Tint(c) == [keyframes |-> <<Frame(100, [color |-> c])>>, duration |-> 1]
Ref(name) == [recipe |-> name]
OnChange(kind) == [on |-> [kind |-> kind], debounce |-> 0, duration |-> 2]
Everything ==
    [mount |-> <<Ref("fade")>>, hover |-> <<Ref("pop"), Tint(1)>>, active |-> <<[recipe |-> "pop", delay |-> 1], Tint(2)>>,
     unmount |-> <<[recipe |-> "fade", delay |-> 1], Ref("pop")>>,
     stateChange |-> <<OnChange("increase") @@ Ref("pop"),
                       [on |-> [kind |-> "equals", to |-> 0], debounce |-> 1, duration |-> 3,
                        keyframes |-> Tint(3).keyframes]>>]
Inherited ==
    [identity |-> [mount |-> <<Ref("fade")>>, ambient |-> <<Tint(4)>>, hover |-> <<Tint(5)>>, active |-> <<Ref("pop")>>],
     elementDef |-> [mount |-> <<Ref("rise")>>, active |-> <<>>],
     element |-> [focus |-> <<Tint(6)>>, hover |-> <<>>, stateChange |-> <<OnChange("truthy") @@ Ref("fade")>>]]
Essential ==
    [ambient |-> <<[recipe |-> "spin", essential |-> TRUE]>>, active |-> <<Ref("fade")>>, unmount |-> <<Ref("pop")>>,
     stateChange |-> <<OnChange("falsy") @@ Ref("pop")>>]
\* Triggers that share properties: ambient and mount, hover and focus, mount and active.
Contested ==
    [mount |-> <<Ref("rise"), Tint(7)>>, ambient |-> <<Tint(4)>>, hover |-> <<Ref("fade"), Tint(1)>>,
     focus |-> <<Tint(6), Ref("rise")>>, active |-> <<Ref("pop")>>]
Motion == INSTANCE ElementAnimations WITH
    Recipes <- [fade |-> Fade, rise |-> Rise, pop |-> Pop, spin |-> Spin],
    Params <- {Everything, Inherited, Essential, Contested}, Amounts <- 0 .. 2, Cap <- 3, ShortestPulse <- 1,
    StaggerIndex <- 1, Unhurried <- Patient
motionVars == <<platform, param, reduced, flags, amount, waiting, clearing, pulse, style, progress, leaving>>
-----------------------------------------------------------------------------
(* The actions: a table whose rows are fetched at first, buttons and an input, and a second *)
(* spec the page is given later. *)

Is(v) == [kind |-> "value", value |-> v]
What(path) == [kind |-> "path", of |-> path]
Does(do, at, with) == [do |-> do, at |-> at, with |-> with, skip |-> Is("nothing"), forget |-> FALSE, into |-> "nothing"]
Fetches(url, into) == [Does("fetch", url, Is(0)) EXCEPT !.into = into]
Pressed(type, context, steps) == [type |-> type, keeps |-> FALSE, context |-> context, steps |-> steps]
Later(step) == [step EXCEPT !.forget = TRUE]
Actions == INSTANCE ActionDispatch WITH
    page <- display,
    Presses <-
        {Pressed("table", <<"row", "first">>,
                 <<Fetches("/log", "log"), Does("setState", "picked", What("row")), Does("bogus", "n", Is(1))>>),
         Pressed("input", <<"row", "second">>,
                 <<[Fetches("/rows", "rows") EXCEPT !.skip = What("rows")], Does("notify", "brief", Is(0)), Does("save", "user", Is("x"))>>),
         Pressed("button", <<>>, <<Later(Does("notify", "default", Is(0))), Does("setState", "n", [kind |-> "next", of |-> "n"])>>),
         [Pressed("text", <<>>, <<Does("setState", "user", Is("x")), Does("notify", "forever", Is(0))>>) EXCEPT !.keeps = TRUE]},
    Specs <- << <<Fetches("/rows", "rows"), Does("write", "intent", What("n"))>>,
                <<Does("toggle", "open", Is(0)), Fetches("elsewhere", "rows")>> >>,
    Starting <- [p \in {"loading", "open"} |-> FALSE] @@ [p \in {"n", "intent"} |-> 0]
                @@ [p \in {"error", "row", "rows", "log", "picked", "user"} |-> "nothing"],
    Outcomes <- {"data", "lost"}, Protected <- {"user"}, Blocked <- {"elsewhere"}, Registered <- {"save"},
    Window <- 2, Stay <- [default |-> 2, brief |-> 1], BoxesOf <- << {"layout"}, {"layout", "screen"} >>, AfterThrows <- FALSE, Impatient <- ~Patient
actionVars == <<device, held, chains, pace, toasts, boxes, display, spent>>
-----------------------------------------------------------------------------
(* A behaviour is about one part; the others rest. *)

screenVars == <<part, vars, appVars, uploadVars, editorVars, gesture, formVars, tableVars, valueVars, motionVars, actionVars>>

ScreenInit ==
    /\ part \in Parts
    /\ IF part = "tree" THEN Init
       ELSE /\ store = [l \in Leaf |-> 0] /\ edition = 0 /\ changed = {} /\ phase = "new"
            /\ memory = Fresh /\ tree = <<>> /\ steady = {}
    /\ AppInit /\ Uploads!UploadInit /\ Editor!MapInit
    /\ FormOf!FormInit /\ (part # "form" => form.values["p"] = Nothing)
    /\ Table!TableInit /\ (part # "table" => props.table.paging = "server" /\ props.total = 5)
    /\ Value!ExprInit /\ (part # "value" => expr.op = "switch")
    /\ Motion!MotionInit
    /\ part # "motion" => param = Essential /\ platform = "native" /\ amount = 0 /\ ~reduced
    /\ Actions!ActionInit /\ (part # "actions" => device = "web")
    /\ part # "editor" => "desk" \in DOMAIN scene.things
    /\ gesture \in IF part = "gesture" THEN Gestures ELSE {NoGesture}

ScreenNext ==
    /\ \/ part = "tree" /\ Next /\ UNCHANGED <<appVars, uploadVars, editorVars, formVars, tableVars, valueVars, motionVars, actionVars>>
       \/ part = "shell" /\ AppNext /\ UNCHANGED <<vars, uploadVars, editorVars, formVars, tableVars, valueVars, motionVars, actionVars>>
       \/ part = "upload" /\ Uploads!UploadNext /\ UNCHANGED <<vars, appVars, editorVars, formVars, tableVars, valueVars, motionVars, actionVars>>
       \/ part = "editor" /\ Editor!MapNext /\ UNCHANGED <<vars, appVars, uploadVars, formVars, tableVars, valueVars, motionVars, actionVars>>
       \/ part = "form" /\ FormOf!FormNext /\ UNCHANGED <<vars, appVars, uploadVars, editorVars, tableVars, valueVars, motionVars, actionVars>>
       \/ part = "table" /\ Table!TableNext /\ UNCHANGED <<vars, appVars, uploadVars, editorVars, formVars, valueVars, motionVars, actionVars>>
       \/ part = "value" /\ Value!ExprNext /\ UNCHANGED <<vars, appVars, uploadVars, editorVars, formVars, tableVars, motionVars, actionVars>>
       \/ part = "motion" /\ Motion!MotionNext /\ UNCHANGED <<vars, appVars, uploadVars, editorVars, formVars, tableVars,
                                                             valueVars, actionVars>>
       \/ part = "actions" /\ Actions!ActionNext /\ UNCHANGED <<vars, appVars, uploadVars, editorVars, formVars, tableVars,
                                                               valueVars, motionVars>>
    /\ UNCHANGED <<part, gesture>>

\* FileUploads!UploadSpec: a handler that was started goes on.
ScreenSpec ==
    /\ ScreenInit /\ [][ScreenNext]_screenVars
    /\ \A k \in 1 .. MaxRuns :
         WF_screenVars(/\ part = "upload" /\ k \in DOMAIN runs /\ Uploads!Run(k)
                       /\ UNCHANGED <<part, gesture, vars, appVars, editorVars, formVars, tableVars, valueVars, motionVars, actionVars>>)
-----------------------------------------------------------------------------
\* No selective rendering leaves an element on the page behind (RenderTree!SteadyFresh).
TreeCurrent == part = "tree" => TypeOK /\ SteadyFresh

\* Every upload ends (FileUploads!UploadsEnd).
EveryUploadEnds == part = "upload" => Uploads!UploadsEnd

\* A resize leaves the opposite handle where it is, an arrow key goes on in its direction
\* and a zone stays on the map (SpatialEditing!AnchorStays, StepAdvances, ZoneStays,
\* ReshapeSound).
GeometrySound ==
    part = "gesture" =>
        /\ Geometry!AnchorStays(gesture.thing, gesture.handle, gesture.point, gesture.keepsRatio, gesture.policy)
        /\ Geometry!StepAdvances(gesture.point, gesture.delta, <<Pillar.position>>, gesture.policy)
        /\ gesture.thing.kind = "zone" =>
             Geometry!ZoneStays(gesture.thing, gesture.point, <<Pillar.position>>, gesture.policy)
        /\ Geometry!ReshapeSound(Room, 1, gesture.point, gesture.policy)

\* Motion is as the user prefers, a pulse passes, and each platform comes to the look that the
\* order of its triggers says (ElementAnimations!MotionRespected, PulsePasses, LooksAsOrdered).
MotionSound == part = "motion" => Motion!MotionRespected /\ Motion!PulsePasses /\ Motion!LooksAsOrdered

\* What the actions of a page leave behind is so: the pace, the verdicts, the flag of loading
\* and the skeleton, the timers of notifications, and what a chain was pressed for
\* (ActionDispatch!PaceKept, OneVerdict, LoadingEnds, SkeletonTrue, TimersTrue, NoneLeft,
\* ContextKept, WritesFresh).
ActionsSound ==
    part = "actions" =>
        /\ Actions!ActionTypeOK /\ Actions!PaceKept /\ Actions!OneVerdict /\ Actions!LoadingEnds
        /\ Actions!SkeletonTrue /\ Actions!TimersTrue /\ Actions!NoneLeft
        /\ Actions!ContextKept /\ Actions!WritesFresh

\* The rows of an upload element and its target tell what was stored, and the flags of
\* fields and forms are about the values in the store, whatever wrote them
\* (FileUploads!RowsTrue; FormEngine!FlagsTrue, SubmittingTrue).
InputsTrue ==
    /\ part = "upload" => Uploads!UploadTypeOK /\ Uploads!RowsTrue
    /\ part = "form" => FormOf!FormTypeOK /\ FormOf!FlagsTrue /\ FormOf!SubmittingTrue

\* An element shows what its expression is worth, a $cond decides as visible does, and the
\* rows a spec adds have ids of their own (Expressions!ShowsItsValue, DecisionsAgree,
\* RowsDiffer); pages, groups and the selection of a table are about its rows, in whatever
\* order they are shown (DataTable!PagesHoldAll, GroupsHoldPage, SelectionTrue).
ValuesTrue ==
    /\ part = "value" => Value!ShowsItsValue /\ Value!DecisionsAgree /\ Value!RowsDiffer
    /\ part = "table" =>
         Table!TableTypeOK /\ Table!PagesHoldAll /\ Table!GroupsHoldPage /\ Table!SelectionTrue

\* On a map what is dropped is what was shown, every edit builds on the one before, and a
\* drag presses nothing (SpatialMap!Edits); only an answer takes a table's page away
\* (DataTable!PageKept); pulses and exits are shown to their end
\* (ElementAnimations!PulseWhole, ExitWhole).
StepsSound ==
    [][/\ part = "editor" => Editor!Edits
       /\ part = "table" => Table!PageKept
       /\ part = "motion" => Motion!PulseWhole /\ Motion!ExitWhole]_screenVars
-----------------------------------------------------------------------------
(* What the code does not keep *)

\* A zone is dropped where it was shown (SpatialMap!ZoneKept).
ZoneDropKept == [][part = "editor" => Editor!ZoneKept]_screenVars

\* A click on an item selects it (SpatialMap!ClickSelects).
ClicksSelect == [][part = "editor" => Editor!ClickSelects]_screenVars

\* A form that is called valid is (FormEngine!ValidMeansValid).
ValidForms == part = "form" => FormOf!ValidMeansValid

\* Arithmetic answers no NaN (Expressions!NeverNaN).
NumbersFinite == part = "value" => Value!NeverNaN

\* What an element shows is what its expression is worth now, whatever it reads
\* (Expressions!ShowsTheTruth).
TruthShown == part = "value" => Value!ShowsTheTruth

\* The user of a table is on one of its pages (DataTable!OnAPage).
TableOnAPage == part = "table" => Table!OnAPage

\* Sorting, turning the page and new data select nothing (DataTable!SelectionStays).
SelectionKept == [][part = "table" => Table!SelectionStays]_screenVars

\* The web and a device come to one look (ElementAnimations!LooksAgree).
LooksAlike == part = "motion" => Motion!LooksAgree
=============================================================================
