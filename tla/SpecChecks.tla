----------------------------- MODULE SpecChecks -----------------------------
(***************************************************************************)
(* The checks of a spec before it is stored (core/src/security), and the   *)
(* commands that print what they found: push, validate and patch print one *)
(* patch that is to fix everything they know how to fix, and the author    *)
(* runs it.  A name is near another one when suggest finds it.             *)
(***************************************************************************)
EXTENDS Integers, Sequences, FiniteSets, SequencesExt, FiniteSetsExt

CONSTANTS
    TopKeys, Primitives, Customs, ValidProps, HoverTypes, ColumnKeys, Validators, \* names the framework knows
    Required, RequiredParams, \* what an expression and an action cannot do without
    VariantsOf,  \* the variants of the theme's components, by type
    Near,        \* pairs of a name and one it is near to
    Order,       \* the ids of elements in the order of a document
    Documents,   \* what authors push
    Edits,       \* what they patch, functions from documents to documents
    MaxCommands

VARIABLES
    spec,    \* the document in the store
    report,  \* what the last command printed: [of, fixes, complete, warned], of the document of
    commands

checkVars == <<spec, report, commands>>

NoSpec == [kind |-> "none"]
NoReport == [of |-> NoSpec, fixes |-> <<>>, complete |-> FALSE]
Suggested(word, candidates) == {c \in candidates : <<word, c>> \in Near}
Ids(doc) == SelectSeq(Order, LAMBDA id : id \in DOMAIN doc.elements)
-----------------------------------------------------------------------------
(* Expressions and actions.  A value is the expressions in it, each with the members it *)
(* has; an action has its parameters, a transaction its phases. *)

LacksOf(exprs) == UNION {{<<e.key, name>> : name \in Required[e.key] \ e.has} : e \in exprs}

\* validateActionBinding and validateEditorSaveAction.
ActionErrors(doc, a) ==
    (IF a.name \in DOMAIN RequiredParams THEN {<<a.name, p>> : p \in RequiredParams[a.name] \ a.params} ELSE {})
      \cup LacksOf(a.exprs)
      \cup (IF a.name # "editorSave" \/ a.session = "" THEN {}
            ELSE IF a.session \notin DOMAIN doc.sessions THEN {<<"unknown session", a.session>>}
            ELSE IF ~doc.sessions[a.session].persists /\ "url" \notin a.params THEN {<<"session", "url">>} ELSE {})

\* validateTransactionBinding: phases are sequences of actions, one of them is required and
\* none may be a transaction itself, whose own actions are not looked at.
BindingErrors(doc, b) ==
    IF b.kind = "action" THEN ActionErrors(doc, b)
    ELSE (IF "confirm" \notin DOMAIN b.phases \/ b.phases["confirm"] = <<>> THEN {<<"transaction", "confirm">>} ELSE {})
           \cup (IF b.timeout THEN {} ELSE {<<"transaction", "timeout">>})
           \cup UNION {IF a.kind = "transaction" THEN {<<"transaction", "nested">>} ELSE ActionErrors(doc, a) :
                         a \in UNION {ToSet(b.phases[phase]) : phase \in DOMAIN b.phases}}
ActionsOf(b) ==
    {a \in (IF b.kind = "action" THEN {b} ELSE UNION {ToSet(b.phases[p]) : p \in DOMAIN b.phases}) : a.kind = "action"}

\* validateEditorSessions.
SessionErrors(doc) ==
    UNION {LET s == doc.sessions[id]
           IN  (IF s.paths = {} THEN {<<id, "paths">>} ELSE {<<id, p>> : p \in s.paths \cap {"relative", "ui"}})
                 \cup {<<id, member>> : member \in s.wrong} : id \in DOMAIN doc.sessions}
-----------------------------------------------------------------------------
(* Elements *)

Put(at, value) == [op |-> "replace", at |-> at, value |-> value]
Drop(at) == [op |-> "remove", at |-> at, value |-> ""]
FixTo(at, word, candidates) ==
    IF Suggested(word, candidates) = {} THEN <<>>
    ELSE <<Put(at, CHOOSE c \in Suggested(word, candidates) : TRUE)>>
RemoveIf(at, word, candidates) == IF Suggested(word, candidates) = {} THEN <<>> ELSE <<Drop(at)>>

\* What a prop of a few types may be: a value has one of these forms.
Positive == {"positive", "fraction"}
FormsOf(type) ==
    CASE type = "toast-container" -> [position |-> {"corner"}, duration |-> Positive \cup {"zero", "negative", "null"},
                                      maxVisible |-> Positive]
      [] type = "file-upload" -> [maxSize |-> Positive, maxFiles |-> {"positive"}]
      [] type = "skeleton" -> [variant |-> {"shape"}, height |-> Positive, count |-> {"positive"}, gap |-> Positive \cup {"zero"}]
      [] type = "table" -> [sorting |-> {"client", "server with state"}, pagination |-> {"client", "server with state"}]
      [] OTHER -> [none |-> {}]
WrongForms(el) ==
    {p \in DOMAIN el.props \cap DOMAIN FormsOf(el.type) : el.props[p].form \notin FormsOf(el.type)[p]}

\* The only one of them that is corrected.
Corrected(el) ==
    {p \in WrongForms(el) : el.type = "toast-container" /\ p = "position"
                               /\ Suggested(el.props[p].form, FormsOf(el.type)[p]) # {}}

Orphans(doc, id) == {i \in DOMAIN doc.elements[id].children : doc.elements[id].children[i] \notin DOMAIN doc.elements}

\* The errors of an element that have no fix.  The registry is known to the runtime only,
\* the types that take a class to the command validate.
ElementErrors(doc, id, context) ==
    LET el == doc.elements[id]
    IN  {<<id, member>> : member \in el.wrong}
          \cup {<<"form", p>> : p \in WrongForms(el) \ Corrected(el)}
          \cup LacksOf(UNION {el.props[p].exprs : p \in DOMAIN el.props} \cup el.reads)
          \cup UNION {BindingErrors(doc, b) : b \in ToSet(el.on)}
          \cup (IF el.repeat = "nothing" THEN {<<"repeat", id>>} ELSE {})
          \cup (IF "hover" \in context /\ el.hover /\ el.type \notin HoverTypes THEN {<<"hover", id>>} ELSE {})
          \cup (IF "registry" \in context /\ el.type \notin Primitives \cup Customs
                     /\ Suggested(el.type, Primitives \cup Customs) = {} THEN {<<"type", el.type>>} ELSE {})
          \cup (IF "theme" \in context /\ el.variant # "" /\ el.variant \notin VariantsOf[el.type]
                THEN {<<"variant", el.variant>>} ELSE {})

\* The errors of an element that have one.
ElementFixes(doc, id, context) ==
    LET el == doc.elements[id]
    IN  (IF "registry" \in context /\ el.type \notin Primitives \cup Customs
         THEN FixTo(<<"elements", id, "type">>, el.type, Primitives \cup Customs) ELSE <<>>)
          \o FlattenSeq([k \in 1 .. Cardinality(Corrected(el)) |->
                           LET p == SetToSeq(Corrected(el))[k]
                           IN  FixTo(<<"elements", id, "props", p>>, el.props[p].form, FormsOf(el.type)[p])])

\* Fault: the orphans are reported as they are found.
OrphanFixesInOrder(doc) ==
    FlattenSeq([k \in DOMAIN Ids(doc) |->
        [j \in 1 .. Cardinality(Orphans(doc, Ids(doc)[k])) |->
           Drop(<<"elements", Ids(doc)[k], "children", SetToSortSeq(Orphans(doc, Ids(doc)[k]), <)[j]>>)]])

\* The orphans are sorted by their place alone, the last places first.
OrphanFixes(doc) ==
    LET all == FlattenSeq([k \in DOMAIN Ids(doc) |->
                 [j \in 1 .. Cardinality(Orphans(doc, Ids(doc)[k])) |->
                    Drop(<<"elements", Ids(doc)[k], "children", SetToSortSeq(Orphans(doc, Ids(doc)[k]), <)[j]>>)]])
    IN  SortSeq(all, LAMBDA a, b : a.at[4] > b.at[4])

\* The props and columns a type does not know are warnings, and so is a $row anywhere.
UnknownProps(doc, id, context) ==
    IF "props" \in context THEN DOMAIN doc.elements[id].props \ ValidProps[doc.elements[id].type] ELSE {}
RowLiterals(doc, id) == {p \in DOMAIN doc.elements[id].props : doc.elements[id].props[p].form = "row"}
WarningFixes(doc, context) ==
    FlattenSeq([k \in DOMAIN SetToSeq(doc.keys \ TopKeys) |->
                  LET key == SetToSeq(doc.keys \ TopKeys)[k] IN RemoveIf(<<"keys", key>>, key, TopKeys)])
      \o FlattenSeq([k \in DOMAIN Ids(doc) |->
           LET id == Ids(doc)[k]
               unknown == SetToSeq(UnknownProps(doc, id, context))
               keys == SetToSeq(doc.elements[id].columns \ ColumnKeys)
           IN  FlattenSeq([j \in DOMAIN unknown |->
                             FixTo(<<"elements", id, "props", unknown[j]>>, unknown[j], ValidProps[doc.elements[id].type])])
                 \o FlattenSeq([j \in DOMAIN keys |-> FixTo(<<"elements", id, "columns", keys[j]>>, keys[j], ColumnKeys)])])
      \o FlattenSeq([k \in DOMAIN Ids(doc) |->
           LET id == Ids(doc)[k] IN [j \in 1 .. Cardinality(RowLiterals(doc, id)) |->
             Put(<<"elements", id, "props", SetToSeq(RowLiterals(doc, id))[j]>>, "state")]])
-----------------------------------------------------------------------------
(* The rest of a document *)

\* Chains of references: a set that keeps inside itself has a cycle.
Round(nodes, next) == \E S \in SUBSET nodes : S # {} /\ \A a \in S : \E b \in S : b \in next[a]
Reached(doc) ==
    LET step(S) == S \cup (UNION {ToSet(doc.elements[id].children) : id \in S} \cap DOMAIN doc.elements)
    IN  FoldLeft(LAMBDA S, k : step(S), {doc.root} \cap DOMAIN doc.elements, Order)
Kids(doc) == [id \in Reached(doc) |-> ToSet(doc.elements[id].children)]

\* What a derive reads: the paths of its $state, and those only the renderer's scan sees.
ReadsState(doc) == [path \in DOMAIN doc.derive |-> doc.derive[path].state]
ReadsAny(doc) == [path \in DOMAIN doc.derive |-> doc.derive[path].state \cup doc.derive[path].other]

ProtectedRoots == {"tx", "forms", "auth"}
DeriveErrors(doc) ==
    (IF Round(DOMAIN doc.derive, ReadsState(doc)) THEN {<<"derive", "circular">>} ELSE {})
      \cup UNION {LacksOf(doc.derive[path].exprs) : path \in DOMAIN doc.derive}
      \cup {<<"derive", path>> : path \in {p \in DOMAIN doc.derive : doc.derive[p].under \in ProtectedRoots}}
      \cup {<<"derive written", a.target>> :
              a \in {x \in UNION {ActionsOf(b) : b \in UNION {ToSet(doc.elements[id].on) : id \in DOMAIN doc.elements}
                                                   \cup ToSet(doc.starts)} :
                       x.name = "setState" /\ x.target \in DOMAIN doc.derive}}
SourceErrors(doc) ==
    UNION {LET s == doc.sources[id]
           IN  {<<id, member>> : member \in s.lacks}
                 \cup (IF s.target \in DOMAIN doc.derive \/ s.under \in ProtectedRoots THEN {<<id, s.target>>} ELSE {})
                 \cup (IF s.url \in {"open template", "plain template"} THEN {<<id, s.url>>} ELSE {})
             : id \in DOMAIN doc.sources}

\* The rules of forms: the names of their validators.
RuleFixes(doc) ==
    FlattenSeq([i \in DOMAIN doc.rules |->
                  IF doc.rules[i] \in Validators THEN <<>> ELSE FixTo(<<"rules", i>>, doc.rules[i], Validators)])
RuleErrors(doc) == {r \in ToSet(doc.rules) \ Validators : Suggested(r, Validators) = {}}

ScreenErrors(doc, context) ==
    SessionErrors(doc) \cup {<<"identity", m>> : m \in doc.identity}
      \cup (IF doc.root \in DOMAIN doc.elements THEN {} ELSE {<<"root", doc.root>>})
      \cup UNION {ElementErrors(doc, id, context) : id \in DOMAIN doc.elements}
      \cup DeriveErrors(doc) \cup SourceErrors(doc) \cup RuleErrors(doc)
      \cup (IF Round(Reached(doc), Kids(doc)) THEN {<<"children", "circular">>} ELSE {})
ScreenFixes(doc, context) ==
    FlattenSeq([k \in DOMAIN Ids(doc) |-> ElementFixes(doc, Ids(doc)[k], context)]) \o OrphanFixes(doc) \o RuleFixes(doc)

\* validateAppSpec: the layout is a screen, whose warnings are not kept; screens that are
\* named must be there, and those of the menu and of roles are corrected.
Named(app) == {app.initial} \cup ToSet(app.login) \cup (ToSet(app.protected) \ {"*"})
Listed(app) == [i \in DOMAIN app.access |-> <<<<"access", i>>, app.access[i]>>]
                 \o [i \in DOMAIN app.menu |-> <<<<"menu", i>>, app.menu[i]>>]
Misnamed(app) ==
    SelectSeq(Listed(app), LAMBDA entry : /\ entry[2] \notin app.screens
                                          /\ entry[1][1] = "access" => entry[2] # "*")
AppErrors(app, context) ==
    ScreenErrors(app.layout, context) \cup {<<"guard", m>> : m \in app.guard}
      \cup {<<"screen", s>> : s \in Named(app) \ app.screens}
      \cup {<<"screen", e[2]>> : e \in {x \in ToSet(Misnamed(app)) : Suggested(x[2], app.screens) = {}}}
AppFixes(app, context) ==
    LET inLayout(fix) == [fix EXCEPT !.at = <<"layout">> \o @]
    IN  [k \in DOMAIN ScreenFixes(app.layout, context) |-> inLayout(ScreenFixes(app.layout, context)[k])]
          \o FlattenSeq([k \in DOMAIN Misnamed(app) |-> FixTo(Misnamed(app)[k][1], Misnamed(app)[k][2], app.screens)])

\* validateApiSpec: an endpoint has a source, a custom count takes the scope its rows are
\* taken in, and a policy is one of those there are.
EndpointErrors(api, name) ==
    LET e == api.endpoints[name]
        scoped == api.scopes /\ e.scoped
    IN  {<<name, member>> : member \in e.wrong}
          \cup (IF e.sources = {} \/ {"query", "handler"} \subseteq e.sources \/ {"query", "crud"} \subseteq e.sources
                THEN {<<name, "sources">>} ELSE {})
          \cup (IF e.audit /\ "crud" \notin e.sources THEN {<<name, "audit">>} ELSE {})
          \cup (IF e.count # "none" /\ scoped # (e.count = "scoped") THEN {<<name, "count">>} ELSE {})
          \cup (IF api.auth /\ e.policy \notin {"", "public", "authenticated"} \cup api.policies
                THEN {<<name, e.policy>>} ELSE {})
ApiErrors(api) ==
    UNION {EndpointErrors(api, name) : name \in DOMAIN api.endpoints}
      \cup {<<"catalog", m>> : m \in api.catalogs} \cup {<<"provider", m>> : m \in IF api.auth THEN api.provider ELSE {}}
LintFixes(api) ==
    LET names == SetToSeq({n \in DOMAIN api.endpoints : api.endpoints[n].path = "with id" /\ "crud" \in api.endpoints[n].sources})
        ports == SetToSeq({i \in DOMAIN api.domains : api.domains[i] = "with port"})
    IN  [k \in DOMAIN names |-> Put(<<"endpoints", names[k]>>, "plain")]
          \o [k \in DOMAIN ports |-> Put(<<"domains", ports[k]>>, "plain")]

\* getDocumentHandler.
Unfixable(doc, context) ==
    CASE doc.kind = "api" -> ApiErrors(doc) [] doc.kind = "app" -> AppErrors(doc, context) [] OTHER -> ScreenErrors(doc, context)
Fixes(doc, context) ==
    CASE doc.kind = "api" -> <<>> [] doc.kind = "app" -> AppFixes(doc, context) [] OTHER -> ScreenFixes(doc, context)
Warnings(doc, context) ==
    CASE doc.kind = "api" -> IF "hover" \in context THEN LintFixes(doc) ELSE <<>> \* validate alone prints these
      [] doc.kind = "app" -> <<>>
      [] OTHER -> WarningFixes(doc, context)

Accepted(doc, context) == Unfixable(doc, context) = {} /\ Fixes(doc, context) = <<>>
-----------------------------------------------------------------------------
(* The commands *)

\* One operation of a patch, on a screen and on any document.
OnScreen(doc, fix) ==
    CASE fix.at[1] = "keys" -> [doc EXCEPT !.keys = @ \ {fix.at[2]}]
      [] fix.at[1] = "rules" -> [doc EXCEPT !.rules[fix.at[2]] = fix.value]
      [] fix.at[3] = "type" -> [doc EXCEPT !.elements[fix.at[2]].type = fix.value]
      [] fix.at[3] = "children" ->
           IF fix.at[4] \in DOMAIN doc.elements[fix.at[2]].children
           THEN [doc EXCEPT !.elements[fix.at[2]].children = RemoveAt(@, fix.at[4])] ELSE doc
      [] fix.at[3] = "columns" -> doc
      [] OTHER -> [doc EXCEPT !.elements[fix.at[2]].props =
                     [p \in DOMAIN @ \cup {fix.at[4]} |->
                        IF p = fix.at[4] THEN [form |-> fix.value, exprs |-> {}] ELSE @[p]]]
Applied(doc, fix) ==
    CASE fix.at[1] = "layout" -> [doc EXCEPT !.layout = OnScreen(@, [fix EXCEPT !.at = Tail(@)])]
      [] fix.at[1] = "menu" -> [doc EXCEPT !.menu[fix.at[2]] = fix.value]
      [] fix.at[1] = "access" -> [doc EXCEPT !.access[fix.at[2]] = fix.value]
      [] fix.at[1] = "endpoints" -> [doc EXCEPT !.endpoints[fix.at[2]].path = fix.value]
      [] fix.at[1] = "domains" -> [doc EXCEPT !.domains[fix.at[2]] = fix.value]
      [] OTHER -> OnScreen(doc, fix)
AllApplied(doc, fixes) == FoldLeft(Applied, doc, fixes)

\* What a command prints about a document: its errors, or the warnings of one without.
Printed(doc, context) ==
    IF Accepted(doc, context) THEN [of |-> doc, fixes |-> Warnings(doc, context), complete |-> FALSE]
    ELSE [of |-> doc, fixes |-> Fixes(doc, context), complete |-> Unfixable(doc, context) = {}]

CheckInit == spec = NoSpec /\ report = NoReport /\ commands = 0
Command == commands < MaxCommands /\ commands' = commands + 1

\* push: a new document is stored with its errors, another one only without or with --force.
Push(doc, force) ==
    /\ Command
    /\ spec' = IF Accepted(doc, {"props"}) \/ spec = NoSpec \/ force THEN doc ELSE spec
    /\ report' = Printed(doc, {"props"})

Validate ==
    /\ Command /\ spec # NoSpec
    /\ report' = Printed(spec, {"props", "hover"})
    /\ UNCHANGED spec

\* patch: what it gives is checked without any context, and stored if it is accepted.
Patched(doc) ==
    /\ spec # NoSpec
    /\ IF Accepted(doc, {}) THEN spec' = doc /\ report' = NoReport
       ELSE report' = Printed(doc, {}) /\ UNCHANGED spec
Patch(edit) == Command /\ Patched(edit[spec])

\* Whether a document has the place of a fix.  (A patch makes the places that are missing,
\* which is not modelled.)
OnList(doc, at) == at[2] \in DOMAIN doc[at[1]]
Placed(doc, at) ==
    /\ at[1] \in DOMAIN doc
    /\ CASE at[1] = "layout" -> at[2] = "keys" \/ OnList(doc.layout, Tail(at))
         [] at[1] = "keys" -> TRUE
         [] OTHER -> OnList(doc, at)

\* The author runs the patch that was printed, on a document with the places it names.
AutoFix ==
    /\ Command /\ report.fixes # <<>> /\ \A fix \in ToSet(report.fixes) : Placed(spec, fix.at)
    /\ Patched(AllApplied(spec, report.fixes))

CheckNext ==
    \/ \E doc \in Documents, force \in BOOLEAN : Push(doc, force)
    \/ Validate \/ AutoFix
    \/ \E edit \in Edits : spec \in DOMAIN edit /\ Patch(edit)
-----------------------------------------------------------------------------
CheckTypeOK ==
    /\ spec.kind \in {"none", "screen", "app", "api"} /\ commands \in 0 .. MaxCommands
    /\ report.complete \in BOOLEAN /\ report.of.kind \in {"none", "screen", "app", "api"}

\* The screen a document has, for those that have one.
ScreenOf(doc) == IF doc.kind = "app" THEN doc.layout ELSE doc
ChildrenThere(doc, id) ==
    SelectSeq(doc.elements[id].children, LAMBDA child : child \in DOMAIN doc.elements)

\* The patch that is printed for the stored document takes away the children that are not
\* there and no others, and if there is a fix for every error the document is accepted
\* with it (docs/consumer/reference-doc.md:147, "Auto-fix all").
FixesSound ==
    report.of = spec /\ report.fixes # <<>> =>
        LET fixed == AllApplied(spec, report.fixes)
        IN  /\ report.complete => Accepted(fixed, {})
            /\ spec.kind # "api" /\ ~Accepted(spec, {}) =>
                 \A id \in DOMAIN ScreenOf(spec).elements :
                     ScreenOf(fixed).elements[id].children = ChildrenThere(ScreenOf(spec), id)

\* What may be rendered: after as many steps down from the root as there are elements no
\* element is left, every child on the way is there, and derives do not wait for each other.
Below(doc, k) ==
    FoldLeft(LAMBDA S, i : UNION {ToSet(doc.elements[id].children) : id \in S \cap DOMAIN doc.elements}, {doc.root},
             [i \in 1 .. k |-> i])
TreeEnds(doc) ==
    /\ Below(doc, Cardinality(DOMAIN doc.elements)) = {}
    /\ \A k \in 0 .. Cardinality(DOMAIN doc.elements) : Below(doc, k) \subseteq DOMAIN doc.elements
DerivesEnd(doc) == ~Round(DOMAIN doc.derive, ReadsAny(doc))
ReadsByState(doc) == \A path \in DOMAIN doc.derive : doc.derive[path].other = {}

\* A document that is accepted can be mounted, if its derives read by $state alone.
AcceptedMounts ==
    spec.kind \in {"screen", "app"} /\ Accepted(spec, {}) =>
        TreeEnds(ScreenOf(spec)) /\ (ReadsByState(ScreenOf(spec)) => DerivesEnd(ScreenOf(spec)))
-----------------------------------------------------------------------------
(* What the code does not keep *)

\* Derives that wait for each other are found before they are mounted
\* (core/src/derive/topo-sort.ts:7), whatever they read by.
CyclesFound == spec.kind = "screen" /\ Accepted(spec, {}) => DerivesEnd(spec)

\* The printed patch belongs to the document that is stored.
FixesFit == report.fixes # <<>> => report.of = spec

\* Without unknown props there is no warning about them any more.
WarningsSettle ==
    report.of = spec /\ report.fixes # <<>> /\ spec.kind = "screen" /\ Accepted(spec, {}) =>
        WarningFixes(AllApplied(spec, report.fixes), {"props"}) = <<>>
=============================================================================
