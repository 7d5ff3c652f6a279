--------------------------- MODULE SpatialEditing ---------------------------
(***************************************************************************)
(* The geometry of the spatial map's editor                                *)
(* (react/src/primitives/spatial-map-editing.ts): bounds, snapping,        *)
(* resizing, rotating and reshaping of items and zones.                    *)
(*                                                                         *)
(* Numbers are integers in units of 1/Unit; an instance takes measures for *)
(* which the quotients are exact.  Points, sizes and scales are records    *)
(* [x, y], so that p[a] is the part of p on the axis a.  Shapes are        *)
(* rotated by quarter turns.                                               *)
(***************************************************************************)
EXTENDS Integers, Sequences, SequencesExt, FiniteSetsExt

CONSTANTS Unit,    \* the number 1
          Grain    \* the last digit kept by coordinatePrecision

Axis == {"x", "y"}
Point(x, y) == [x |-> x, y |-> y]
Each(f(_)) == [x |-> f("x"), y |-> f("y")]
Plus(p, q) == Point(p.x + q.x, p.y + q.y)
Minus(p, q) == Point(p.x - q.x, p.y - q.y)
Least(a, b) == IF a < b THEN a ELSE b
Greatest(a, b) == IF a > b THEN a ELSE b
Absolute(n) == IF n < 0 THEN -n ELSE n
Times(a, b) == (a * b) \div Unit
Over(a, b) == (a * Unit) \div b
Within(n, low, high) == Least(high, Greatest(low, n))

\* Math.round to multiples of step.
Nearest(n, step) == ((2 * n + step) \div (2 * step)) * step
-----------------------------------------------------------------------------
(* Policies *)

Features == {"dragItems", "dragZones", "keyboardMoveItems", "keyboardMoveZones", "resizeItems",
             "resizeZones", "rotateItems", "keyboardResizeItems", "keyboardResizeZones",
             "keyboardRotateItems", "shapeEditZones", "keyboardShapeEditZones", "handles", "snap"}

\* normalizeScaleLimit, normalizeGridSize: a number that is not positive gives way.
PositiveOr(n, fallback) == IF n > 0 THEN n ELSE fallback

\* getEditPolicy: nothing may be edited outside the mode edit; what is not refused is
\* allowed, snapping only when asked for; a maximal scale below the minimal one is 10.
EditPolicy(mode, given) ==
    LET low == PositiveOr(given.minScale, Unit \div 10)
        high == PositiveOr(given.maxScale, 10 * Unit)
        asked(f) == IF f = "snap" THEN f \in given.on ELSE f \notin given.off
    IN  [given EXCEPT !.can = {f \in Features : mode = "edit" /\ asked(f)},
                      !.minScale = low, !.maxScale = IF high > low THEN high ELSE 10 * Unit,
                      !.grid = Each(LAMBDA a : PositiveOr(given.grid[a], 20 * Unit))]

Round(p) == Each(LAMBDA a : Nearest(p[a], Grain))
Clamp(p, rect) == Each(LAMBDA a : Within(p[a], rect.at[a], rect.at[a] + rect.size[a]))
Bounded(p, policy) == IF policy.bounded THEN Clamp(p, policy.rect) ELSE p

\* normalizeEditPosition, normalizeSpatialTransform
EditPosition(p, policy) == Round(Bounded(p, policy))
Scale(scale, policy) == Each(LAMBDA a : Within(scale[a], policy.minScale, policy.maxScale))
-----------------------------------------------------------------------------
(* Local and map coordinates *)

Rotate(p, degrees) ==
    CASE degrees % 360 = 0 -> p
      [] degrees % 360 = 90 -> Point(-p.y, p.x)
      [] degrees % 360 = 180 -> Point(-p.x, -p.y)
      [] degrees % 360 = 270 -> Point(p.y, -p.x)

ToMap(thing, p, scale) ==
    Plus(thing.position, Rotate(Each(LAMBDA a : Times(p[a], scale[a])), thing.rotation))

ToLocal(thing, p, policy) ==
    LET r == Rotate(Minus(p, thing.position), -thing.rotation)
        scale == Scale(thing.scale, policy)
    IN  Each(LAMBDA a : Over(r[a], scale[a]))

\* The box around points.
BoundsOf(points) ==
    LET low(a) == Min({points[i][a] : i \in DOMAIN points})
        high(a) == Max({points[i][a] : i \in DOMAIN points})
    IN  [at |-> Each(low), size |-> Each(LAMBDA a : high(a) - low(a))]

NoBounds == [at |-> Point(0, 0), size |-> Point(-1, -1)]

\* getSpatialItemLocalBounds, getSpatialZoneMapBounds: given ones, else those of the shape,
\* for an item around its position; a path has none.
Bounds(thing) ==
    IF thing.localBounds # NoBounds THEN thing.localBounds
    ELSE CASE thing.shape.type = "polygon" ->
                IF thing.shape.points = <<>> THEN NoBounds ELSE BoundsOf(thing.shape.points)
           [] thing.shape.type \in {"rect", "circle", "ellipse"} ->
                [at |-> Each(LAMBDA a : IF thing.kind = "item" \/ thing.shape.type # "rect"
                                        THEN thing.shape.at[a] - thing.shape.size[a] \div 2
                                        ELSE thing.shape.at[a]),
                 size |-> thing.shape.size]
           [] OTHER -> NoBounds

\* A handle is where it sits on the bounds: -1, 0 or 1 on each axis.
Handles == [Axis -> -1 .. 1] \ {Point(0, 0)}
HandlePoint(bounds, h) ==
    Each(LAMBDA a : bounds.at[a] + ((h[a] + 1) * bounds.size[a]) \div 2)
Opposite(h) == Each(LAMBDA a : -h[a])
Corners(bounds) == [i \in 1 .. 4 |-> HandlePoint(bounds, Point(IF i \in {1, 4} THEN -1 ELSE 1, IF i < 3 THEN -1 ELSE 1))]

\* Where the handles are on the map; the one for rotating stands off the upper edge.
WorldHandle(thing, h, policy) == ToMap(thing, HandlePoint(Bounds(thing), h), Scale(thing.scale, policy))
RotateHandle(thing, policy) ==
    LET top == WorldHandle(thing, Point(0, -1), policy)
        out == Rotate(Point(0, -1), thing.rotation)
        gap == Within((Bounds(thing).size.y * 35) \div 100, 28 * Unit, 56 * Unit)
    IN  Each(LAMBDA a : top[a] + out[a] * gap)

\* getSpatialZoneTransformedBounds
TransformedBounds(thing, policy) ==
    LET corners == Corners(Bounds(thing))
    IN  BoundsOf([i \in 1 .. 4 |-> ToMap(thing, corners[i], Scale(thing.scale, policy))])
-----------------------------------------------------------------------------
(* Snapping, one axis at a time *)

Pointer == [kind |-> "pointer"]
Keyboard(origin, delta) == [kind |-> "keyboard", origin |-> origin, delta |-> delta]
DeltaOf(intent, a) == IF intent.kind = "keyboard" THEN intent.delta[a] ELSE 0
Guide(source, value, distance) == [source |-> source, value |-> value, distance |-> distance]
NoGuide == Guide("none", 0, 0)

\* keyboardGridValue: a whole number of stops, one at least, from the last stop passed.
KeyboardGrid(origin, delta, size) ==
    LET steps == Greatest(1, Nearest(Absolute(delta), size) \div size)
    IN  IF delta < 0 THEN (-((-origin) \div size) - steps) * size
        ELSE ((origin \div size) + steps) * size

GridGuide(v, intent, a, policy) ==
    LET size == policy.grid[a]
        delta == DeltaOf(intent, a)
        near == Nearest(v, size)
    IN  IF delta # 0 THEN Guide("grid", KeyboardGrid(intent.origin[a], delta, size), 0)
        ELSE IF Absolute(near - v) <= policy.gridThreshold THEN Guide("grid", near, Absolute(near - v))
        ELSE NoGuide

\* candidateWins: the nearer one, an item's center when both are as near.
Wins(center, guide) == guide = NoGuide \/ center.distance <= guide.distance

\* Whether a center is on the way of a keyboard step that no grid decides.
OnTheWay(center, intent, a) ==
    \/ DeltaOf(intent, a) = 0
    \/ DeltaOf(intent, a) > 0 /\ center > intent.origin[a]
    \/ DeltaOf(intent, a) < 0 /\ center < intent.origin[a]

\* A center compares with the stop of a keyboard step, else with the point itself.
CenterGuide(v, intent, a, guide, center, policy) ==
    LET stop == DeltaOf(intent, a) # 0 /\ guide.source = "grid"
        candidate == Guide("center", center, Absolute(center - (IF stop THEN guide.value ELSE v)))
    IN  IF /\ stop \/ OnTheWay(center, intent, a)
           /\ candidate.distance <= policy.centerThreshold
           /\ Wins(candidate, guide)
        THEN candidate ELSE guide

\* resolveSpatialEditPoint, with the positions of the other items: bounded, drawn to its
\* guides, bounded again and rounded.
ResolveGuide(bounded, intent, centers, a, policy) ==
    LET v == bounded[a]
        grid == IF policy.snapGrid THEN GridGuide(v, intent, a, policy) ELSE NoGuide
    IN  IF "snap" \notin policy.can THEN NoGuide
        ELSE IF ~policy.snapCenters THEN grid
        ELSE FoldLeft(LAMBDA g, c : CenterGuide(v, intent, a, g, c[a], policy), grid, centers)

ResolvePoint(raw, intent, centers, policy) ==
    LET bounded == Bounded(raw, policy)
        drawn(guide, a) == IF guide = NoGuide THEN bounded[a] ELSE guide.value
    IN  EditPosition(Each(LAMBDA a : drawn(ResolveGuide(bounded, intent, centers, a, policy), a)), policy)
-----------------------------------------------------------------------------
(* The edits *)

Move(thing, position) == [thing EXCEPT !.position = position]

\* normalizeZonePosition: a zone is kept within the map with all of its bounds; one that
\* is larger than the map covers it.
ZonePosition(zone, position, policy) ==
    IF ~policy.bounded \/ Bounds(zone) = NoBounds THEN Round(position)
    ELSE LET box == TransformedBounds(Move(zone, position), policy)
             low(a) == position[a] + policy.rect.at[a] - box.at[a]
             high(a) == low(a) + policy.rect.size[a] - box.size[a]
         IN  Round(Each(LAMBDA a : Within(position[a], Least(low(a), high(a)), Greatest(low(a), high(a)))))

\* zoneSnapAnchor and resolveZoneMove (spatial-map.tsx): a zone is drawn by the center
\* of its bounds on the map.
Anchor(zone, policy) ==
    IF Bounds(zone) = NoBounds THEN zone.position
    ELSE HandlePoint(TransformedBounds(zone, policy), Point(0, 0))
MoveZone(zone, raw, intent, centers, policy) ==
    LET anchor == Plus(Anchor(zone, policy), Minus(raw, zone.position))
        point == ResolvePoint(anchor, intent, centers, policy)
    IN  Move(zone, ZonePosition(zone, Plus(raw, Minus(point, anchor)), policy))

\* Fault: the thing stays where it is while it is resized.
ResizeInPlace(thing, h, local, keepsRatio, policy) ==
    [thing EXCEPT !.scale = Each(LAMBDA a : IF h[a] = 0 THEN thing.scale[a] ELSE Scale(local, policy)[a])]

\* The scale that is reached on each axis, or, to keep the ratio, on the one that changes more.
Kept(reached, current, width, policy) ==
    LET dominant == IF Absolute(reached.x - current.x) >= Absolute(reached.y - current.y) THEN reached.x ELSE reached.y
    IN  Scale(Each(LAMBDA a : IF width[a] # 0 THEN dominant ELSE reached[a]), policy)
Rescale(thing, anchor, current, scale) ==
    [thing EXCEPT !.scale = scale,
                  !.position = Plus(@, Minus(ToMap(thing, anchor, current), ToMap(thing, anchor, scale)))]

\* resizeSpatialItem, resizeSpatialZone: the scale that brings the handle to the point,
\* and the position that leaves the opposite handle where it was.
Resize(thing, h, local, keepsRatio, policy) ==
    LET bounds == Bounds(thing)
        current == Scale(thing.scale, policy)
        anchor == HandlePoint(bounds, Opposite(h))
        width == Minus(HandlePoint(bounds, h), anchor)
        reached == Each(LAMBDA a : IF width[a] = 0 THEN current[a]
                                   ELSE Over(Absolute(Times(local[a], current[a]) - Times(anchor[a], current[a])), Absolute(width[a])))
    IN  IF bounds = NoBounds THEN thing
        ELSE Rescale(thing, anchor, current,
                     IF keepsRatio THEN Kept(reached, current, width, policy) ELSE Scale(reached, policy))

\* normalizeSpatialRotation: JavaScript's remainder has the sign of the dividend.
Remainder(n, m) == IF n < 0 THEN -((-n) % m) ELSE n % m
Rotation(degrees) ==
    LET r == Remainder(degrees, 360)
    IN  CASE r >= 180 -> r - 360 [] r < -180 -> r + 360 [] OTHER -> r
RotateTo(thing, degrees, step) ==
    [thing EXCEPT !.rotation = Rotation(IF step > 0 THEN Nearest(degrees, step) ELSE degrees)]

\* The vertices of a polygon zone; with fewer than three it cannot be reshaped.
Vertices(zone) == IF zone.shape.type = "polygon" /\ Len(zone.shape.points) >= 3 THEN zone.shape.points ELSE <<>>
Reshape(zone, points) == [zone EXCEPT !.shape.points = points]
VertexPoint(zone, p, policy) == Round(ToLocal(zone, Bounded(p, policy), policy))
MoveVertex(zone, i, p, policy) ==
    IF i \notin DOMAIN Vertices(zone) THEN zone
    ELSE Reshape(zone, [Vertices(zone) EXCEPT ![i] = VertexPoint(zone, p, policy)])
InsertVertex(zone, i, p, policy) ==
    IF i \notin DOMAIN Vertices(zone) THEN zone
    ELSE Reshape(zone, InsertAt(Vertices(zone), i + 1, VertexPoint(zone, p, policy)))
DeleteVertex(zone, i) ==
    IF i \notin DOMAIN Vertices(zone) \/ Len(Vertices(zone)) <= 3 THEN zone
    ELSE Reshape(zone, RemoveAt(Vertices(zone), i))

\* The segment handle i is in the middle between the vertex i and the next.
SegmentHandle(zone, i, policy) ==
    LET points == Vertices(zone)
        next == points[(i % Len(points)) + 1]
    IN  ToMap(zone, Each(LAMBDA a : (points[i][a] + next[a]) \div 2), Scale(zone.scale, policy))

\* hasSpatialItemChangedByType and hasSpatialZoneChangedByType.  Items are compared where
\* the policy would put them.
Place(thing, policy) == IF thing.kind = "item" THEN EditPosition(thing.position, policy) ELSE thing.position
Changed(before, after, change, policy) ==
    CASE change = "move" -> Place(before, policy) # Place(after, policy)
      [] change = "resize" -> \/ Scale(before.scale, policy) # Scale(after.scale, policy)
                              \/ Place(before, policy) # Place(after, policy)
      [] change = "rotate" -> Rotation(before.rotation) # Rotation(after.rotation)
      [] change = "shape" -> Vertices(before) # Vertices(after)

\* buildSpatialItemChangeContext, buildSpatialZoneChangeContext: what the handlers of the
\* specification are told.
ChangeContext(before, after, change) ==
    [changeType |-> change, previous |-> before, next |-> after,
     delta |-> Minus(after.position, before.position)]
-----------------------------------------------------------------------------
\* The opposite handle of a resized item or zone stays where it is on the map, whatever
\* the rotation, the scale before and the limits of the scale.
AnchorStays(thing, h, local, keepsRatio, policy) ==
    LET fixed == HandlePoint(Bounds(thing), Opposite(h))
        resized == Resize(thing, h, local, keepsRatio, policy)
    IN  ToMap(resized, fixed, resized.scale) = ToMap(thing, fixed, Scale(thing.scale, policy))

\* "Keyboard movement with grid snap advances by grid stops on the moved axis"
\* (docs/consumer/reference-doc.md:3183): from anywhere on the map an arrow key goes on in
\* its direction, up to the edge, whatever there is to snap to.
StepAdvances(origin, delta, centers, policy) ==
    LET to == ResolvePoint(Plus(origin, delta), Keyboard(origin, delta), centers, policy)
        edge(a) == policy.rect.at[a] + (IF delta[a] > 0 THEN policy.rect.size[a] ELSE 0)
    IN  \A a \in Axis : delta[a] # 0 =>
            \/ to[a] = edge(a)
            \/ (to[a] - origin[a]) * delta[a] > 0

\* A zone stays on the map with all of its bounds, when they fit.
ZoneStays(zone, raw, centers, policy) ==
    LET box == TransformedBounds(MoveZone(zone, raw, Pointer, centers, policy), policy)
    IN  \A a \in Axis : box.size[a] <= policy.rect.size[a] =>
            /\ policy.rect.at[a] <= box.at[a]
            /\ box.at[a] + box.size[a] <= policy.rect.at[a] + policy.rect.size[a]

\* Reshaping leaves a polygon that can be reshaped again, and deleting undoes inserting.
ReshapeSound(zone, i, p, policy) ==
    LET more == InsertVertex(zone, i, p, policy)
    IN  /\ Len(Vertices(DeleteVertex(zone, i))) >= Least(3, Len(Vertices(zone)))
        /\ i \in DOMAIN Vertices(zone) => DeleteVertex(more, i + 1) = zone
=============================================================================
