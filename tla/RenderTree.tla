----------------------------- MODULE RenderTree -----------------------------
(***************************************************************************)
(* One screen on the page: the render engine of core/src/renderer/engine.ts *)
(* with its cache of resolved props (renderer/deps.ts), driven by the      *)
(* component MythikRenderer, which collects the paths the store has        *)
(* written and renders them in the next animation frame.                   *)
(*                                                                         *)
(* An element of the specification is a record (see Plain).  A path is a   *)
(* sequence of names; "/" is <<>>.  The value of an expression is the part *)
(* of the store it reads, which tells apart all that a primitive can be    *)
(* given.                                                                  *)
(***************************************************************************)
EXTENDS Integers, Sequences, FiniteSets, SequencesExt

CONSTANTS
    Elements,     \* the specification: ids to element records
    Root,         \* its root
    Leaf,         \* the leaves of the store
    Values,       \* what each leaf can hold; 0 is falsy, an array its length
    Written,      \* the paths that actions and inputs write
    DeviceLeaf,   \* the leaves useDeviceContext writes when the screen mounts
    SpecEdits     \* how often the specification may be replaced

VARIABLES
    store,        \* the state
    edition,      \* how often the specification was replaced
    changed,      \* changedPathsRef: paths written since the last rendering
    phase,        \* "new", "rendered" (effects still to run), "live" or "replaced"
    memory,       \* what the engine keeps: [cache, hidden, instances]
    tree,         \* the tree last rendered
    steady        \* the elements kept up: see Renewed

vars == <<store, edition, changed, phase, memory, tree, steady>>

Absent == "absent"
NoItem == <<>>
NoProps == [k \in {} |-> 0]

\* An element with nothing to it; instances say what is different.
Plain == [
    type |-> "primitive",       \* or "modal", "custom", "template", "unknown"
    reads |-> {},               \* paths the props read
    styleReads |-> {},          \* paths the style reads
    motionReads |-> {},         \* paths hover, active, focus, motion and animations read
    onReads |-> {},             \* paths the parameters of the actions read
    wants |-> {},               \* names the props read with $prop
    visible |-> Absent,         \* path of the visibility condition
    exit |-> FALSE,             \* motion.exit or motion.layoutId
    repeat |-> Absent,          \* path of the items
    group |-> <<>>,             \* with groupBy: the header elements
    children |-> <<>>,
    given |-> NoProps,          \* consumer props of a custom element or template
    into |-> Absent,            \* root of the custom element's expansion
    inner |-> <<>>]             \* children of the template; "$children" is a slot

Id == DOMAIN Elements
ModalPath(e) == <<"ui", "modals", e>>
-----------------------------------------------------------------------------
(* Values and dependencies *)

\* resolveDeep and the resolver: what the store holds at and below path p.
Read(p) == [l \in {l \in Leaf : IsPrefix(p, l)} |-> store[l]]

Truthy(p) == \E l \in Leaf : IsPrefix(p, l) /\ store[l] # 0

Below(p) == {l \in Leaf : IsPrefix(p, l)}
Holding(leaves) == {f \in [leaves -> UNION {Values[l] : l \in Leaf}] : \A l \in leaves : f[l] \in Values[l]}
Put(new) == [l \in Leaf |-> IF l \in DOMAIN new THEN new[l] ELSE store[l]]

\* An element's props, resolved in the context of a repeated item and of the
\* consumer's props of the enclosing custom element.
Resolve(def, item, props) ==
    [text |-> edition,
     state |-> [p \in def.reads |-> Read(p)],
     prop |-> [k \in def.wants |-> IF k \in DOMAIN props THEN props[k] ELSE Absent],
     item |-> item]

\* Fault: dependencies of the visibility condition only.
DepsOfVisible(def) == IF def.visible = Absent THEN {} ELSE {def.visible}

\* scanDeps of all the fields of the element that may hold expressions.
Deps(def) ==
    def.reads \cup def.styleReads \cup def.motionReads \cup {<<"__prop", k>> : k \in def.wants}
        \cup (IF def.visible = Absent THEN {} ELSE {def.visible})

\* pathsOverlap: the same path or one below the other; "/" overlaps itself alone.
Overlaps(dep, path) ==
    \/ dep = path
    \/ path # <<>> /\ IsPrefix(path, dep)
    \/ dep # <<>> /\ IsPrefix(dep, path)

IsDirty(entry, paths) == \E d \in entry.deps, p \in paths : Overlaps(d, p)
-----------------------------------------------------------------------------
(* The engine.  Rendering returns the nodes and what the engine then keeps. *)

Fresh == [cache |-> NoProps, hidden |-> {}, instances |-> NoProps]
Result(nodes, mem) == [nodes |-> nodes, mem |-> mem]
Node(e, props, children) ==
    [id |-> e, exiting |-> FALSE, props |-> props, children |-> children]
Forget(f, e) == [x \in DOMAIN f \ {e} |-> f[x]]
Keep(f, e, v) == [x \in DOMAIN f \cup {e} |-> IF x = e THEN v ELSE f[x]]
ErrorNode(e) == Node(e, "_error", <<>>)

\* Whether the element is shown: the consumer's condition on a custom element stands
\* for that of its expansion's root; a modal without condition follows its own path.
IsVisible(e, override) ==
    LET own == Elements[e].visible IN
    IF own = Absent /\ Elements[e].type = "modal" /\ e # Root /\ ~Truthy(ModalPath(e))
    THEN FALSE
    ELSE LET condition == IF override # Absent THEN override ELSE own IN
         condition = Absent \/ Truthy(condition)

\* handleInvisible: nothing, or a last node that plays the exit animation.
RenderInvisible(e, mem) ==
    Result(IF Elements[e].exit
             THEN <<[id |-> e, exiting |-> TRUE, props |-> "_exiting", children |-> <<>>]>>
             ELSE <<>>,
           [mem EXCEPT !.hidden = @ \cup {e}, !.instances = Forget(@, e)])

\* An element shown again: its own resolved props, and only those, are dropped.
Shown(e, mem) ==
    IF e \in mem.hidden
    THEN [mem EXCEPT !.hidden = @ \ {e}, !.cache = Forget(@, e)]
    ELSE mem

\* The items of a repetition; they are new whenever the array is.
Items(path) == LET n == store[path] IN [i \in 1 .. n |-> <<n, i>>]

\* renderElementWithGroup: headers of groups, resolved anew each time.
GroupNode(e, group) == Node(e, Resolve(Elements[e], <<"group", group>>, NoProps), <<>>)

\* The sentinel paths of the consumer's props that differ from the last rendering.
PropChanges(before, now) ==
    {<<"__prop", k>> : k \in {k \in DOMAIN now : k \notin DOMAIN before \/ before[k] # now[k]}}

\* Elements rendered for an item of a repetition are not cached.
Caches(item) == item = NoItem

RECURSIVE RenderElement(_, _, _, _, _, _)
RECURSIVE RenderAll(_, _, _, _, _)
RenderAll(ids, item, props, paths, mem) ==
    IF ids = <<>> THEN Result(<<>>, mem)
    ELSE LET one == RenderElement(Head(ids), item, props, paths, mem, Absent)
             more == RenderAll(Tail(ids), item, props, paths, one.mem)
         IN  Result(one.nodes \o more.nodes, more.mem)

\* A repetition renders the element, or with groupBy its children, once for each item;
\* the two groups are of the odd and the even items.
RenderRepeat(e, props, paths, mem) ==
    LET def == Elements[e]
        items == Items(def.repeat)
        once(ids, r, item) ==
            LET one == RenderAll(ids, item, props, paths, r.mem)
            IN  Result(r.nodes \o one.nodes, one.mem)
        grouped(parity) == SelectSeq(items, LAMBDA item : item[2] % 2 = parity)
        groupOf(r, parity) ==
            FoldLeft(LAMBDA s, item : once(def.children, s, item),
                     Result(r.nodes \o [i \in DOMAIN def.group |-> GroupNode(def.group[i], grouped(parity))],
                            r.mem),
                     grouped(parity))
        all == IF def.group = <<>>
               THEN FoldLeft(LAMBDA r, item : once(<<e>>, r, item), Result(<<>>, mem), items)
               ELSE FoldLeft(LAMBDA r, parity : IF grouped(parity) = <<>> THEN r ELSE groupOf(r, parity),
                             Result(<<>>, mem), <<1, 0>>)
    IN  Result(<<Node("stack", "vertical", all.nodes)>>, all.mem)

\* A custom element: the consumer's props are resolved and compared with those of the
\* last rendering; the expansion is rendered with what changed among the changed paths.
RenderCustom(e, item, props, paths, mem) ==
    LET def == Elements[e]
        now == [k \in DOMAIN def.given |-> Read(def.given[k])]
        more == IF e \in DOMAIN mem.instances THEN PropChanges(mem.instances[e], now) ELSE {}
    IN  RenderElement(def.into, item, now, paths \cup more,
                      [mem EXCEPT !.instances = Keep(@, e, now)], def.visible)

\* A template of the specification: its own props are resolved each time, its children
\* in the context of the consumer's props, the consumer's children outside of it.
RenderTemplate(e, item, props, paths, mem) ==
    LET def == Elements[e]
        now == [k \in DOMAIN def.given |-> Read(def.given[k])]
        slot == IF def.inner = <<>> THEN <<"$children">> ELSE def.inner
        all == FoldLeft(LAMBDA r, c :
                            LET more == IF c = "$children"
                                        THEN RenderAll(def.children, item, props, paths, r.mem)
                                        ELSE RenderAll(<<c>>, item, now, paths, r.mem)
                            IN  Result(r.nodes \o more.nodes, more.mem),
                        Result(<<>>, mem), slot)
    IN  Result(<<Node(e, Resolve(def, item, now), all.nodes)>>, all.mem)

\* The props of a primitive: from the cache when nothing they depend on has changed.
Cached(e, item, props, paths, mem) ==
    LET clean == /\ Caches(item) /\ paths # {} /\ e \in DOMAIN mem.cache
                 /\ ~IsDirty(mem.cache[e], paths)
        now == Resolve(Elements[e], item, props)
    IN  IF clean THEN [props |-> mem.cache[e].props, mem |-> mem]
        ELSE IF ~Caches(item) THEN [props |-> now, mem |-> mem]
        ELSE [props |-> now,
              mem |-> [mem EXCEPT !.cache = Keep(@, e, [props |-> now, deps |-> Deps(Elements[e])])]]

\* Style, variant and interactions are resolved anew in every rendering; the actions'
\* parameters only inside a repetition, elsewhere when the user acts.
Style(def) == [p \in def.styleReads |-> Read(p)]
Interactions(def) == [p \in def.motionReads |-> Read(p)]
Bindings(def, item) == IF item = NoItem THEN def.onReads ELSE [p \in def.onReads |-> Read(p)]

\* A child that repeats iterates on its own; others belong to the item of their parent.
RECURSIVE Children(_, _, _, _, _)
Children(ids, item, props, paths, mem) ==
    IF ids = <<>> THEN Result(<<>>, mem)
    ELSE LET c == Head(ids)
             repeats == c \in Id /\ Elements[c].repeat # Absent
             one == RenderElement(c, IF repeats THEN NoItem ELSE item, props, paths, mem, Absent)
             more == Children(Tail(ids), item, props, paths, one.mem)
         IN  Result(one.nodes \o more.nodes, more.mem)

RenderPrimitive(e, item, props, paths, mem) ==
    LET def == Elements[e]
        own == Cached(e, item, props, paths, mem)
        all == Children(def.children, item, props, paths, own.mem)
    IN  Result(<<Node(e, <<own.props, Style(def), Interactions(def), Bindings(def, item)>>, all.nodes)>>,
               all.mem)

RenderElement(e, item, props, paths, mem, override) ==
    IF e \notin Id THEN Result(<<>>, mem)
    ELSE IF ~IsVisible(e, override) THEN RenderInvisible(e, mem)
    ELSE LET def == Elements[e]
             shown == Shown(e, mem)
         IN  CASE def.repeat # Absent /\ item = NoItem -> RenderRepeat(e, props, paths, shown)
               [] def.type = "custom" -> RenderCustom(e, item, props, paths, shown)
               [] def.type = "template" -> RenderTemplate(e, item, props, paths, shown)
               [] def.type = "unknown" -> Result(<<ErrorNode(e)>>, shown)
               [] OTHER -> RenderPrimitive(e, item, props, paths, shown)

Render(paths, mem) == RenderElement(Root, NoItem, NoProps, paths, mem, Absent)

RECURSIVE Shows(_)
Shows(nodes) ==
    UNION {{nodes[i].id} \cup Shows(nodes[i].children) : i \in DOMAIN nodes}

RECURSIVE Flat(_)
\* Every node of a tree with its id and its props.
Flat(nodes) ==
    UNION {{<<nodes[i].id, nodes[i].props>>} \cup Flat(nodes[i].children) : i \in DOMAIN nodes}
-----------------------------------------------------------------------------
Init ==
    /\ store \in Holding(Leaf)
    /\ edition = 0 /\ changed = {} /\ phase = "new"
    /\ memory = Fresh /\ tree = <<>> /\ steady = {}

\* The elements whose props a rendering does not take from the cache: all of them when
\* nothing was collected, otherwise those without an entry, those hidden before and those
\* that depend on a path collected.  They are kept up from then on, as long as every
\* rendering comes by them.
Renewed(e) ==
    \/ changed = {} \/ e \notin DOMAIN memory.cache \/ e \in memory.hidden
    \/ IsDirty(memory.cache[e], changed)

\* A rendering: incremental when paths were collected, otherwise of everything.
Renders ==
    \E result \in {Render(changed, memory)} :
        /\ tree' = result.nodes
        /\ memory' = result.mem
        /\ steady' = {e \in Shows(result.nodes) : e \in steady \/ Renewed(e)}
        /\ changed' = {}

Appear ==
    /\ phase = "new" /\ phase' = "rendered"
    /\ Renders
    /\ UNCHANGED <<store, edition>>

\* The effects of the first rendering, in their order: useDeviceContext writes before
\* the store is listened to.
Mount ==
    /\ phase = "rendered" /\ phase' = "live"
    /\ \E new \in Holding(DeviceLeaf) : store' = Put(new)
    /\ UNCHANGED <<edition, changed, memory, tree, steady>>

\* An action, a bound input or a data source writes; the listener collects the path.
Write ==
    /\ phase = "live"
    /\ \E p \in Written :
         /\ \E new \in Holding(Below(p)) : store' = Put(new)
         /\ changed' = changed \cup {p}
    /\ UNCHANGED <<edition, phase, memory, tree, steady>>

\* The animation frame the listener has asked for.
AnimationFrame ==
    /\ phase = "live" /\ changed # {}
    /\ Renders
    /\ UNCHANGED <<store, edition, phase>>

\* The parent renders the screen again, with nothing collected (with something it is
\* the same as the frame) or because it has another specification for it.
ParentRenders ==
    /\ (phase = "live" /\ changed = {}) \/ phase = "replaced"
    /\ phase' = "live"
    /\ Renders
    /\ UNCHANGED <<store, edition>>

\* The parent has another specification (ScreenOutlet, the next screen), which it
\* renders at once, with whatever paths were collected for the old one: when there are
\* any, what does not depend on them comes from the old one's cache.
ReplaceSpec ==
    /\ phase = "live" /\ phase' = "replaced"
    /\ edition < SpecEdits /\ edition' = edition + 1
    /\ steady' = {}
    /\ UNCHANGED <<store, changed, memory, tree>>

Next == Appear \/ Mount \/ Write \/ AnimationFrame \/ ParentRenders \/ ReplaceSpec
Spec == Init /\ [][Next]_vars
-----------------------------------------------------------------------------
(* What the page shows *)

\* What a rendering from nothing would show.
WholeTree == Render({}, Fresh).nodes
UpToDate == phase = "live" /\ changed = {}

TypeOK ==
    /\ store \in Holding(Leaf) /\ edition \in 0 .. SpecEdits
    /\ changed \subseteq Written /\ phase \in {"new", "rendered", "live", "replaced"}
    /\ DOMAIN memory.cache \subseteq Id /\ memory.hidden \subseteq Id
    /\ DOMAIN memory.instances \subseteq Id
    /\ steady \subseteq Shows(tree)

\* Between frames the page has the elements a rendering of everything would have, and all
\* that are kept up show their current props: through hiding and showing, an exit, modals,
\* repetitions, custom elements, templates and another specification.  An element is not
\* kept up while its props are from before it left the page with an element around it, or
\* from a specification that was replaced while paths were collected, until a path it
\* depends on is written or everything is rendered.
SteadyFresh ==
    UpToDate =>
        LET whole == WholeTree IN
        /\ Shows(tree) = Shows(whole)
        /\ {n \in Flat(tree) : n[1] \in steady} \subseteq Flat(whole)

\* An element that comes back with the page is up to date as well: the comment at
\* engine.ts:293-294 drops the props cached before it was hidden.
TreeFresh == UpToDate => tree = WholeTree
=============================================================================
