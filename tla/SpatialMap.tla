------------------------------ MODULE SpatialMap ------------------------------
(***************************************************************************)
(* The primitive spatial-map (react/src/primitives/spatial-map.tsx) in the *)
(* mode edit: the drags of items, zones, handles and vertices, the edits   *)
(* by key, the clicks that follow a pointer, and the state paths           *)
(* MythikRenderer gives it.                                                *)
(*                                                                         *)
(* A handler sees the page as it was last rendered.  Edits go to the store *)
(* at once; the page follows on the next frame, and until then the map     *)
(* shows the thing that was dropped.  What the handlers of a specification *)
(* do with a change is external: they write the changed item or zone to    *)
(* the list it came from.                                                  *)
(***************************************************************************)
EXTENDS SpatialEditing

CONSTANTS
    Policy,      \* the edit policy, as EditPolicy makes it
    Press,       \* what the interaction policy turns on, a subset of Presses
    Scenes,      \* what the map may show at first: functions from ids to items and zones
    Target,      \* the points of the map a pointer may be at
    Grabbed,     \* the handles a pointer may take, a subset of Handles
    Reached,     \* the vertices and segments a pointer or a key may take, as numbers
    Angles,      \* how far the pointer may turn around an item
    Ratios,      \* whether the shift key is down, a subset of BOOLEAN
    Arrows,      \* the arrow keys pressed, as directions
    Step,        \* edit.keyboardStep
    ScaleStep,   \* edit.resizeStep
    Patient,     \* whether keys are pressed during no drag, and are on the page before the next edit
    MaxEdits     \* bound: how many changes there are

Presses == {"selectItems", "activateItems", "selectZones", "activateZones",
            "zonePressStopsCanvas", "clearSelectionOnCanvasPress"}

VARIABLES
    store,       \* [things, item, zone, shape]: the lists, the selection and zoneShapeEditId
    page,        \* the store as of the last rendering
    drag,        \* dragStateRef
    dropped,     \* droppedPreviewItems and droppedPreviewZones
    suppressed,  \* [item, canvas]: suppressClickItemRef and suppressCanvasClickRef
    click,       \* the click the browser sends after the pointer went up
    heard,       \* what the handlers of the specification were told in the last step
    typed,       \* whether an edit by key is not on the page yet
    edits        \* how many changes there were

mapVars == <<store, page, drag, dropped, suppressed, click, heard, typed, edits>>

Nobody == "nobody"
Idle == [kind |-> "idle"]
NoClick == [on |-> "none"]
Nothing == [event |-> "none"]
Id == DOMAIN page.things
Empty == [id \in {} |-> Nothing]

Can(feature) == feature \in Policy.can
Feature == [item |-> [move |-> "dragItems", resize |-> "resizeItems", rotate |-> "rotateItems"],
            zone |-> [move |-> "dragZones", resize |-> "resizeZones", shape |-> "shapeEditZones"]]
KeyFeature == [item |-> [move |-> "keyboardMoveItems", resize |-> "keyboardResizeItems", rotate |-> "keyboardRotateItems"],
               zone |-> [move |-> "keyboardMoveZones", resize |-> "keyboardResizeZones", shape |-> "keyboardShapeEditZones"]]

\* resolveRenderedItem, resolveRenderedZone
Rendered(id) ==
    IF drag # Idle /\ drag.id = id THEN drag.preview
    ELSE IF id \in DOMAIN dropped THEN dropped[id] ELSE page.things[id]

Kind(id) == page.things[id].kind
Items == {id \in Id : Kind(id) = "item"}
CentersBut(id) == SetToSeq({page.things[i].position : i \in Items \ {id}})

\* zoneShapeModeActive
ShapeMode(id) == /\ Can("shapeEditZones") /\ ~page.things[id].disabled
                 /\ page.shape = id /\ page.zone = id

\* renderItem, renderLayer: whether a thing takes clicks and keys.
Interactive(id) ==
    /\ ~Rendered(id).disabled
    /\ IF Kind(id) = "item"
       THEN \/ Press \cap {"selectItems", "activateItems"} # {}
            \/ Policy.can \cap {"dragItems", "keyboardMoveItems", "resizeItems", "rotateItems",
                                "keyboardResizeItems", "keyboardRotateItems"} # {}
       ELSE \/ Press \cap {"selectZones", "activateZones"} # {}
            \/ Policy.can \cap {"dragZones", "keyboardMoveZones", "resizeZones", "keyboardResizeZones"} # {}

\* Whether the element under the pointer is there: the thing itself, a handle of its
\* bounds, the one for rotating, or a vertex.
Grips(id, kind) ==
    LET selected == page[Kind(id)] = id /\ Can("handles")
    IN  CASE kind = "move" -> {0}
          [] kind = "resize" /\ selected /\ Bounds(Rendered(id)) # NoBounds /\ ~ShapeMode(id) -> Grabbed
          [] kind = "rotate" /\ selected -> {0}
          [] kind = "shape" /\ selected /\ ShapeMode(id) -> Reached \cap DOMAIN Vertices(Rendered(id))
          [] OTHER -> {}

\* isMovableSpatialItem, and the first lines of the handlers that start a drag.
MayDrag(id, kind) == /\ kind \in DOMAIN Feature[Kind(id)] /\ Can(Feature[Kind(id)][kind])
                     /\ ~Rendered(id).disabled
-----------------------------------------------------------------------------
MapInit ==
    /\ \E things \in Scenes : store = [things |-> things, item |-> Nobody, zone |-> Nobody, shape |-> Nobody]
    /\ page = store
    /\ drag = Idle /\ dropped = Empty /\ click = NoClick /\ heard = Nothing /\ typed = FALSE /\ edits = 0
    /\ suppressed = [item |-> Nobody, canvas |-> FALSE]

\* A user's next gesture; a patient one comes after the timer of a click that never came.
Ready == click = NoClick /\ (Patient => ~typed /\ ~suppressed.canvas)

\* startItemDrag, startItemResize, startItemRotate, startZoneDrag, startZoneResize,
\* startZoneShapeVertexDrag: the drag starts from the thing as it is shown.
PointerDown(id, kind, grip, at) ==
    LET before == Rendered(id)
        quiets == Kind(id) = "zone" /\ kind # "resize" /\ "zonePressStopsCanvas" \in Press
    IN  /\ Ready /\ drag = Idle /\ grip \in Grips(id, kind) /\ MayDrag(id, kind)
        /\ edits < MaxEdits   \* bound: a drag that can still be stored
        /\ drag' = [id |-> id, kind |-> kind, grip |-> grip, before |-> before, preview |-> before,
                    start |-> IF kind = "move" THEN at ELSE before.position,
                    raw |-> before.position, moved |-> FALSE]
        /\ suppressed' = [suppressed EXCEPT !.canvas = @ \/ quiets]
        /\ heard' = Nothing
        /\ UNCHANGED <<store, page, dropped, click, typed, edits>>

\* What the pointer's place makes of the thing (updateItemDrag and the updates it calls).
Dragged(raw, p, angle, keepsRatio) ==
    LET before == drag.before
        centers == CentersBut(drag.id)
        point == ResolvePoint(p, Pointer, centers, Policy)
    IN  CASE drag.kind = "move" /\ before.kind = "item" -> Move(before, ResolvePoint(raw, Pointer, centers, Policy))
          [] drag.kind = "move" /\ before.kind = "zone" -> MoveZone(before, raw, Pointer, centers, Policy)
          [] drag.kind = "resize" -> Resize(before, drag.grip, ToLocal(before, point, Policy), keepsRatio, Policy)
          [] drag.kind = "rotate" -> RotateTo(before, before.rotation + angle, Policy.rotationStep)
          [] drag.kind = "shape" -> MoveVertex(before, drag.grip, point, Policy)

PointerMove(p, angle, keepsRatio) ==
    /\ drag # Idle
    /\ LET raw == Plus(drag.before.position, Minus(p, drag.start)) IN
       \E next \in {Dragged(raw, p, angle, keepsRatio)} :
           LET change == Changed(drag.before, next, drag.kind, Policy)
           IN  drag' = [drag EXCEPT !.preview = next, !.raw = IF drag.kind = "move" THEN raw ELSE @,
                                !.moved = change \/ (drag.kind = "move" /\ drag.moved)]
    /\ heard' = Nothing
    /\ UNCHANGED <<store, page, dropped, suppressed, click, typed, edits>>

\* The item or zone goes to the store; one that was edited by key is selected, and so is
\* every zone that was edited.
Store(before, next, change, id, selects) ==
    /\ edits < MaxEdits /\ edits' = edits + 1
    /\ heard' = ChangeContext(before, next, change) @@ [event |-> "change", id |-> id]
    /\ store' = [store EXCEPT !.things[id] = next, ![next.kind] = IF selects THEN id ELSE @]

\* Fault: what was dropped is not shown before the frame.
CommitWithoutBridge(before, new, change, id, selects, bridged) ==
    \E next \in {new} :
    IF ~Changed(before, next, change, Policy)
    THEN heard' = Nothing /\ UNCHANGED <<store, dropped, edits>>
    ELSE Store(before, next, change, id, selects) /\ UNCHANGED dropped

\* commitItemUpdate, commitZoneUpdate, and the bridge to the frame that shows it.
Commit(before, new, change, id, selects, bridged) ==
    \E next \in {new} :
    IF ~Changed(before, next, change, Policy)
    THEN heard' = Nothing /\ UNCHANGED <<store, dropped, edits>>
    ELSE /\ Store(before, next, change, id, selects)
         /\ dropped' = IF bridged THEN (id :> next) @@ dropped ELSE dropped

Selects(kind) == (IF kind = "item" THEN "selectItems" ELSE "selectZones") \in Press

\* endItemDrag: a moved item or zone is resolved once more, the item from where the
\* pointer is, the zone from its preview.
Settled ==
    CASE drag.kind # "move" -> drag.preview
      [] drag.before.kind = "item" -> Move(drag.before, ResolvePoint(drag.raw, Pointer, CentersBut(drag.id), Policy))
      [] OTHER -> MoveZone(drag.before, drag.preview.position, Pointer, CentersBut(drag.id), Policy)

\* The click that follows goes to the thing whose body was pressed; handles and vertices
\* are beside it, so their clicks go to the canvas.
ClickAfter(id, kind, moved) ==
    [on |-> IF kind = "move" THEN Kind(id) ELSE "canvas", id |-> id, dragged |-> moved]

PointerUp ==
    /\ drag # Idle
    /\ IF drag.moved
       THEN /\ suppressed' = [item |-> IF drag.before.kind = "item" THEN drag.id ELSE suppressed.item, canvas |-> TRUE]
            /\ Commit(drag.before, Settled, drag.kind, drag.id,
                      drag.before.kind = "zone" /\ Selects("zone"), TRUE)
       ELSE heard' = Nothing /\ UNCHANGED <<suppressed, store, dropped, edits>>
    /\ click' = ClickAfter(drag.id, drag.kind, drag.moved)
    /\ drag' = Idle
    /\ UNCHANGED <<page, typed>>

\* cancelItemDrag
PointerCancel ==
    /\ drag # Idle /\ drag' = Idle /\ heard' = Nothing
    /\ UNCHANGED <<store, page, dropped, suppressed, click, typed, edits>>
-----------------------------------------------------------------------------
(* Clicks *)

\* A press and a release that start no drag: on a thing that may not be dragged, on the
\* canvas, or on the handle of a segment.
PressThing(id) ==
    /\ Ready /\ drag = Idle /\ ~MayDrag(id, "move")
    /\ click' = [on |-> Kind(id), id |-> id, dragged |-> FALSE] /\ heard' = Nothing
    /\ UNCHANGED <<store, page, drag, dropped, suppressed, typed, edits>>
PressCanvas ==
    /\ Ready /\ drag = Idle
    /\ click' = [on |-> "canvas", id |-> Nobody, dragged |-> FALSE] /\ heard' = Nothing
    /\ UNCHANGED <<store, page, drag, dropped, suppressed, typed, edits>>

Pressed(kind, id) == [event |-> "press", on |-> kind, id |-> id]
Select(kind, id) == IF Selects(kind) THEN [store EXCEPT ![kind] = id] ELSE store

\* activateItem: the click after a drag of the item does nothing.
ClickItem ==
    /\ click.on = "item" /\ Interactive(click.id)
    /\ IF suppressed.item = click.id
       THEN suppressed' = [item |-> Nobody, canvas |-> FALSE] /\ heard' = Nothing /\ UNCHANGED store
       ELSE /\ store' = Select("item", click.id)
            /\ heard' = IF {"selectItems", "activateItems"} \cap Press # {} THEN Pressed("item", click.id) ELSE Nothing
            /\ UNCHANGED suppressed
    /\ click' = NoClick
    /\ UNCHANGED <<page, drag, dropped, typed, edits>>

\* activateZone: the click goes on to the canvas unless the policy stops it.
ClickZone ==
    /\ click.on = "zone" /\ Interactive(click.id)
    /\ store' = Select("zone", click.id)
    /\ heard' = IF {"selectZones", "activateZones"} \cap Press # {} THEN Pressed("zone", click.id) ELSE Nothing
    /\ click' = IF "zonePressStopsCanvas" \in Press THEN NoClick ELSE [click EXCEPT !.on = "canvas"]
    /\ UNCHANGED <<page, drag, dropped, suppressed, typed, edits>>

\* handleCanvasClick and MythikRenderer's onCanvasPress.
ClickCanvas ==
    /\ click.on = "canvas" \/ (click.on \in {"item", "zone"} /\ ~Interactive(click.id))
    /\ IF suppressed.canvas
       THEN suppressed' = [suppressed EXCEPT !.canvas = FALSE] /\ heard' = Nothing /\ UNCHANGED store
       ELSE /\ heard' = Pressed("canvas", click.id)
            /\ store' = IF "clearSelectionOnCanvasPress" \in Press
                        THEN [store EXCEPT !.item = Nobody, !.zone = Nobody] ELSE store
            /\ UNCHANGED suppressed
    /\ click' = NoClick
    /\ UNCHANGED <<page, drag, dropped, typed, edits>>

\* The timer of suppressNextCanvasClick; a click comes before it.
TimerFires ==
    /\ suppressed.canvas /\ click = NoClick
    /\ suppressed' = [suppressed EXCEPT !.canvas = FALSE] /\ heard' = Nothing
    /\ UNCHANGED <<store, page, drag, dropped, click, typed, edits>>

\* insertZoneShapeVertex, by a click on the handle of a segment or by key.
InsertOnSegment(id, i) ==
    LET zone == Rendered(id)
        point == ResolvePoint(SegmentHandle(zone, i, Policy), Pointer, CentersBut(Nobody), Policy)
    IN  /\ Ready /\ drag = Idle /\ ShapeMode(id) /\ i \in DOMAIN Vertices(zone)
        /\ suppressed' = [suppressed EXCEPT !.canvas = @ \/ "zonePressStopsCanvas" \in Press]
        /\ Commit(zone, InsertVertex(zone, i, point, Policy), "shape", id, Selects("zone"), TRUE)
        /\ UNCHANGED <<page, drag, click, typed>>
-----------------------------------------------------------------------------
(* Keys: each starts from the thing as it is shown; what they do is not bridged. *)

Key(id, kind, next) ==
    /\ Ready /\ (Patient => drag = Idle)
    /\ Can(KeyFeature[Kind(id)][kind]) /\ ~Rendered(id).disabled
    /\ Commit(Rendered(id), next, kind, id, Selects(Kind(id)), FALSE)
    /\ typed' = (typed \/ heard' # Nothing)
    /\ UNCHANGED <<page, drag, suppressed, click>>

\* moveItemByKeyboard, moveZoneByKeyboard
KeyMove(id, delta) ==
    LET thing == Rendered(id)
        to == Plus(thing.position, delta)
        centers == CentersBut(id)
    IN  Key(id, "move",
            IF Kind(id) = "item"
            THEN Move(thing, ResolvePoint(to, Keyboard(thing.position, delta), centers, Policy))
            ELSE MoveZone(thing, to, Keyboard(Anchor(thing, Policy), delta), centers, Policy))

\* resizeItemByKeyboard, resizeZoneByKeyboard
KeyResize(id, sign) ==
    LET thing == Rendered(id)
        scale == Scale(thing.scale, Policy)
        next == Scale(Each(LAMBDA a : scale[a] + sign[a] * ScaleStep), Policy)
    IN  /\ Kind(id) = "zone" => Bounds(thing) # NoBounds
        /\ Key(id, "resize", [thing EXCEPT !.scale = next])

\* rotateItemByKeyboard
KeyRotate(id, direction) ==
    /\ Kind(id) = "item" /\ direction # 0
    /\ Key(id, "rotate", RotateTo(Rendered(id), Rendered(id).rotation + direction * Policy.rotationStep, 0))

\* handleZoneShapeVertexKeyDown: the vertices are there while the shape is edited.
KeyVertex(id, i, delta) ==
    LET zone == Rendered(id)
        at == ToMap(zone, Vertices(zone)[i], Scale(zone.scale, Policy))
        to == ResolvePoint(Plus(at, delta), Keyboard(at, delta), CentersBut(Nobody), Policy)
    IN  /\ i \in Grips(id, "shape")
        /\ Key(id, "shape", MoveVertex(zone, i, to, Policy))
KeyDelete(id, i) ==
    /\ i \in Grips(id, "shape")
    /\ Key(id, "shape", DeleteVertex(Rendered(id), i))

\* Escape ends the drag; onZoneShapeEditExit leaves the mode.
KeyEscape(id) ==
    /\ Ready /\ Grips(id, "shape") # {}
    /\ drag' = Idle /\ store' = [store EXCEPT !.shape = Nobody] /\ heard' = Nothing
    /\ UNCHANGED <<page, dropped, suppressed, click, typed, edits>>
-----------------------------------------------------------------------------
\* The frame after a change of the store: MythikRenderer renders, the drops are let go, and
\* a vertex is no longer dragged when its zone's shape is not edited any more.
Frame ==
    /\ page # store \/ dropped # Empty
    /\ click = NoClick
    /\ page' = store /\ dropped' = Empty /\ typed' = FALSE /\ heard' = Nothing
    /\ drag' = IF drag # Idle /\ drag.kind = "shape" /\ (store.shape # drag.id \/ store.zone # drag.id)
               THEN Idle ELSE drag
    /\ UNCHANGED <<store, suppressed, click, edits>>

\* External: a control of the screen starts editing the shape of the selected zone.
EditShape(id) ==
    /\ Ready /\ Kind(id) = "zone" /\ page.zone = id /\ store' = [store EXCEPT !.shape = id] /\ heard' = Nothing
    /\ UNCHANGED <<page, drag, dropped, suppressed, click, typed, edits>>

By(arrow) == Each(LAMBDA a : arrow[a] * Step)
KeyEdit(id) ==
    \/ \E arrow \in Arrows : KeyMove(id, By(arrow)) \/ KeyResize(id, arrow) \/ KeyRotate(id, arrow.x)
    \/ \E i \in Reached : KeyDelete(id, i) \/ \E arrow \in Arrows : KeyVertex(id, i, By(arrow))
    \/ KeyEscape(id)

MapNext ==
    \/ \E id \in Id, kind \in {"move", "resize", "rotate", "shape"}, at \in Target :
         \E grip \in Grips(id, kind) : PointerDown(id, kind, grip, at)
    \/ \E p \in Target, angle \in Angles, keepsRatio \in Ratios : PointerMove(p, angle, keepsRatio)
    \/ PointerUp \/ PointerCancel
    \/ ClickItem \/ ClickZone \/ ClickCanvas \/ TimerFires \/ PressCanvas
    \/ \E id \in Id : PressThing(id) \/ KeyEdit(id) \/ EditShape(id)
    \/ \E id \in Id : \E i \in Reached : InsertOnSegment(id, i)
    \/ Frame

MapSpec == MapInit /\ [][MapNext]_mapVars
-----------------------------------------------------------------------------
\* What is dropped is what was shown, but for a zone, which is drawn once more.
ShownIsKept == (drag # Idle /\ drag' = Idle /\ store'.things # store.things) =>
                  (drag.kind = "move" /\ drag.before.kind = "zone") \/ store'.things[drag.id] = drag.preview

\* Every edit builds on the item or zone as it is in the store, on what an edit just before
\* it left too.
EditsBuildOn == (heard' # Nothing /\ heard'.event = "change") => heard'.previous = store.things[heard'.id]

\* The click that ends a drag presses no item and not the canvas.
DragsPressNothing ==
    (click # NoClick /\ click.dragged /\ click.on # "zone" /\ click' = NoClick) => heard' = Nothing

Edits == ShownIsKept /\ EditsBuildOn /\ DragsPressNothing

\* A zone, too, is dropped where it was shown.
ZoneKept == (drag # Idle /\ drag' = Idle /\ store'.things # store.things) => store'.things[drag.id] = drag.preview

\* "item click selects/moves" (ai-context-primitives.md:605): a click that ends no drag and
\* is on an item that may be selected selects it.
ClickSelects ==
    (click.on = "item" /\ ~click.dragged /\ Selects("item") /\ Interactive(click.id) /\ click' = NoClick)
        => store'.item = click.id
=============================================================================
