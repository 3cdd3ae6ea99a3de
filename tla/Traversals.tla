----------------------------- MODULE Traversals -----------------------------
(* State that nodes hand on in a traversal: the test of depths, and         *)
(* positions in large coordinates.                                          *)
EXTENDS Integers, Sequences, SequencesExt, FiniteSets, FiniteSetsExt
-----------------------------------------------------------------------------
(* A scene is a sequence of nodes, depth first, in which "push" and "pop"    *)
(* are the two ends of a separator.  The i-th node is in Depth many of them; *)
(* before it and not in a group that has been closed are those InScope.      *)
Depth(scene, i) == Cardinality({j \in 1..i : scene[j] = "push"})
                     - Cardinality({j \in 1..i : scene[j] = "pop"})
InScope(scene, kinds, i) ==
    {j \in 1..i : scene[j] \in kinds /\ \A k \in j..i : Depth(scene, k) >= Depth(scene, j)}
ShapesTo(scene, i) == Cardinality({j \in 1..i : scene[j] = "shape"})
IsScene(scene, kinds) ==
    /\ scene \in Seq(kinds \cup {"push", "pop", "shape"})
    /\ \A i \in 1..Len(scene) : Depth(scene, i) >= 0
    /\ Depth(scene, Len(scene)) = 0
-----------------------------------------------------------------------------
(* SmDepthBuffer and its element: how shapes are tested against the depth    *)
(* buffer.  The element is a stack; GL is told only when its top changes.    *)

CONSTANTS Settings,     \* of each node that sets it: [func, enable, clearNow]
          Scenes

DepthAssumption ==
    /\ DOMAIN Settings \cap {"push", "pop", "shape"} = {}
    /\ \A node \in DOMAIN Settings : Settings[node].enable \in BOOLEAN
    /\ \A scene \in Scenes : IsScene(scene, DOMAIN Settings)

VARIABLES gl,           \* [func, enable], as GL has it
          drawn         \* the last frame: [scene, tests: what GL had for each shape,
                        \* held: how many shapes the depth buffer held before]

depthvars == <<gl, drawn>>

(* init, when the action is made, tells GL of a function that is not the    *)
(* default of the node.                                                     *)
DefaultTest == [func |-> "LEQUAL", enable |-> TRUE]
DepthInit == gl = DefaultTest /\ drawn = [scene |-> << >>, tests |-> << >>, held |-> << >>]

(* updategl: the function is left alone while the test is disabled.         *)
Updated(g, elem) == IF elem.enable THEN elem ELSE [g EXCEPT !.enable = FALSE]
Set(s, elem) == [s EXCEPT !.stack[Len(s.stack)] = elem,
                          !.gl = IF elem = Last(s.stack) THEN s.gl ELSE Updated(s.gl, elem)]
Push(s) == [s EXCEPT !.stack = Append(s.stack, Last(s.stack))]
(* Mutant: GL is told only when the test was enabled or disabled. *)
Pop_Bug(s) ==
    LET below == Last(Front(s.stack))
    IN  [s EXCEPT !.stack = Front(s.stack),
                  !.gl = IF below.enable = Last(s.stack).enable THEN s.gl
                         ELSE Updated(s.gl, below)]
Pop(s) == LET below == Last(Front(s.stack))
          IN  [s EXCEPT !.stack = Front(s.stack),
                        !.gl = IF below = Last(s.stack) THEN s.gl ELSE Updated(s.gl, below)]
SetTest(s, setting) ==
    LET t == Set(s, [func |-> setting.func, enable |-> setting.enable])
    IN  IF setting.clearNow THEN [t EXCEPT !.buffer = 0] ELSE t
Shape(s) == [s EXCEPT !.tests = Append(@, s.gl), !.held = Append(@, s.buffer),
                      !.buffer = IF s.gl.enable THEN s.buffer + 1 ELSE s.buffer]

Visit(s, node) == CASE node = "push" -> Push(s)
                    [] node = "pop" -> Pop(s)
                    [] node = "shape" -> Shape(s)
                    [] OTHER -> SetTest(s, Settings[node])
Frame(scene) ==
    LET start == [stack |-> <<DefaultTest>>, gl |-> gl, buffer |-> 0,
                  tests |-> << >>, held |-> << >>]
        after[i \in 0..Len(scene)] ==
            IF i = 0 THEN Push(start) ELSE Visit(after[i - 1], scene[i])
        s == Pop(after[Len(scene)])
    IN  gl' = s.gl /\ drawn' = [scene |-> scene, tests |-> s.tests, held |-> s.held]

DepthNext == \E scene \in Scenes : Frame(scene)
-----------------------------------------------------------------------------
(* Each shape is tested as the last node in its scope says, not one in a    *)
(* group that was closed, and the next frame begins as the first did.       *)
TestOf(scene, i) ==
    LET inScope == InScope(scene, DOMAIN Settings, i)
    IN  IF inScope = {} THEN DefaultTest ELSE Settings[scene[Max(inScope)]]
TestedInScope ==
    \A i \in DOMAIN drawn.scene : drawn.scene[i] = "shape" =>
        LET test == TestOf(drawn.scene, i)
            tested == drawn.tests[ShapesTo(drawn.scene, i)]
        IN  /\ tested.enable = test.enable
            /\ test.enable => tested.func = test.func
DepthRight == TestedInScope /\ gl = DefaultTest
-----------------------------------------------------------------------------
(* UTMCamera, UTMPosition, UTMCoordinate and their element: a scene in large *)
(* coordinates is drawn relative to its camera.  A place is <<easting,       *)
(* elevation>> (northing is like easting); a matrix turns an axis around or  *)
(* not and then shifts it.                                                   *)

CONSTANTS UtmScenes, Transform,   \* the matrix of a transformation
          Places, Points, NotSet

(* A camera comes before the positions and coordinates in its scope, and is  *)
(* the only one there; transforms may come before it.                        *)
UtmKinds == {"camera", "position", "transform", "coordinate"}
CameraFirst(scene) == \A i \in 1..Len(scene) :
    scene[i] = "camera" => InScope(scene, {"camera", "position", "coordinate"}, i) = {i}
UtmAssumption ==
    /\ \A scene \in UtmScenes : IsScene(scene, UtmKinds) /\ CameraFirst(scene)
    /\ Transform \in [{1, 2} -> [turn : {-1, 1}, by : Int]]
    /\ Places \subseteq [{1, 2} -> Int] /\ Points \subseteq [{1, 2} -> Int]

VARIABLES utmCamera,     \* the utmposition of UTMCamera
          moveTransform,
          position,      \* of UTMPosition
          point,         \* of UTMCoordinate
          cached,        \* by it: [refpos, trans, coords], or NotSet if dirty
          seen           \* a traversal of what is set now: [scene, getMatrix, places of
                         \* the shapes], or NotSet

utmvars == <<utmCamera, moveTransform, position, point, cached, seen>>

UTMInit == /\ utmCamera = <<0, 0>> /\ moveTransform = FALSE /\ position = <<0, 0>>
           /\ point = <<0, 0>> /\ cached = NotSet /\ seen = NotSet

Edited == seen' = NotSet
SetUtmCamera(p) ==
    utmCamera' = p /\ Edited /\ UNCHANGED <<moveTransform, position, point, cached>>
SetMoveTransform(b) ==
    moveTransform' = b /\ Edited /\ UNCHANGED <<utmCamera, position, point, cached>>
SetPosition(p) ==
    position' = p /\ Edited /\ UNCHANGED <<utmCamera, moveTransform, point, cached>>
(* notify: the fields of text set their part of utmposition.                *)
SetCameraText(i, x) == /\ utmCamera' = [utmCamera EXCEPT ![i] = x] /\ Edited
                       /\ UNCHANGED <<moveTransform, position, point, cached>>
SetText(i, x) == /\ position' = [position EXCEPT ![i] = x] /\ Edited
                 /\ UNCHANGED <<utmCamera, moveTransform, point, cached>>
SetPoint(p) == /\ point' = p /\ cached' = NotSet /\ Edited
               /\ UNCHANGED <<utmCamera, moveTransform, position>>

Axes == {1, 2}
Sum(p, q) == [i \in Axes |-> p[i] + q[i]]
Difference(p, q) == [i \in Axes |-> p[i] - q[i]]
Shift(p) == [i \in Axes |-> [turn |-> 1, by |-> p[i]]]
Identity == Shift([i \in Axes |-> 0])
Times(m, n) == [i \in Axes |-> [turn |-> m[i].turn * n[i].turn,    \* n comes first
                                by |-> m[i].by + m[i].turn * n[i].by]]
At(m, p) == [i \in Axes |-> m[i].by + m[i].turn * p[i]]

(* What the state holds: the model matrix, the elements of UTMElement, and  *)
(* the coordinates for shapes.                                              *)
Start == [matrix |-> Identity, ref |-> [i \in Axes |-> 0], currtrans |-> [i \in Axes |-> 0],
          gtransform |-> Identity, coords |-> [i \in Axes |-> 0]]
Camera(f) == [f EXCEPT !.matrix = Identity, !.ref = utmCamera, !.currtrans = [i \in Axes |-> 0],
                       !.gtransform = IF moveTransform THEN f.matrix ELSE f.gtransform]
(* doAction: the elevation is shifted by last, below the moved transform.   *)
(* Mutant: what came before a position is not replaced. *)
Positioned_Bug(f) ==
    LET trans == Difference(<<position[1], 0>>, f.ref)
    IN  [f EXCEPT !.currtrans = trans,
                  !.matrix = Times(f.matrix, Times(Times(Shift(trans), f.gtransform),
                                                   Shift(<<0, position[2]>>)))]
Positioned(f) ==
    LET trans == Difference(<<position[1], 0>>, f.ref)
    IN  [f EXCEPT !.currtrans = trans,
                  !.matrix = Times(Times(Shift(trans), f.gtransform), Shift(<<0, position[2]>>))]
(* getMatrix: what turns is kept of what was before, and nothing is put off. *)
Gotten(f) ==
    LET trans == Difference(position, f.ref)
        oldm == [i \in Axes |-> [f.matrix[i] EXCEPT !.by = 0]]
    IN  [f EXCEPT !.currtrans = trans,
                  !.matrix = Times(Times(Shift(trans), f.gtransform), oldm)]

(* updateCoords: they are shifted by the translation of a position, too.    *)
Coords(c, f) == IF c # NotSet /\ c.refpos = f.ref /\ c.trans = f.currtrans THEN c
                ELSE [refpos |-> f.ref, trans |-> f.currtrans,
                      coords |-> Sum(Difference(point, f.ref), f.currtrans)]
Coordinate(s) == LET f == Last(s.frames)
                     c == Coords(s.cached, f)
                 IN  [s EXCEPT !.cached = c, !.frames[Len(s.frames)].coords = c.coords]

Step(s, node, getMatrix) ==
    LET f == Last(s.frames)
        On(g) == [s EXCEPT !.frames[Len(s.frames)] = g]
    IN  CASE node = "push" -> [s EXCEPT !.frames = Append(s.frames, f)]
          [] node = "pop" -> [s EXCEPT !.frames = Front(s.frames)]
          [] node = "camera" -> On(Camera(f))
          [] node = "position" -> On(IF getMatrix THEN Gotten(f) ELSE Positioned(f))
          [] node = "transform" -> On([f EXCEPT !.matrix = Times(f.matrix, Transform)])
          [] node = "coordinate" -> IF getMatrix THEN s ELSE Coordinate(s)
          [] node = "shape" -> [s EXCEPT !.places = Append(@, At(f.matrix, f.coords))]
Traverse(scene, getMatrix) ==
    LET after[i \in 0..Len(scene)] ==
            IF i = 0 THEN [frames |-> <<Start>>, cached |-> cached, places |-> << >>]
            ELSE Step(after[i - 1], scene[i], getMatrix)
        s == after[Len(scene)]
    IN  /\ seen' = [scene |-> scene, getMatrix |-> getMatrix, places |-> s.places]
        /\ cached' = s.cached
        /\ UNCHANGED <<utmCamera, moveTransform, position, point>>

UTMNext == \/ \E p \in Places : SetUtmCamera(p) \/ SetPosition(p)
           \/ \E i \in Axes, p \in Places : SetCameraText(i, p[i]) \/ SetText(i, p[i])
           \/ \E b \in BOOLEAN : SetMoveTransform(b)
           \/ \E p \in Points : SetPoint(p)
           \/ \E s \in UtmScenes, b \in BOOLEAN : Traverse(s, b)
-----------------------------------------------------------------------------
Power(n) == LET power[k \in 0..n] == IF k = 0 THEN Identity ELSE Times(power[k - 1], Transform)
            IN  power[n]
Preceding(nodes, i) == {j \in nodes : j < i}
Following(nodes, i) == {j \in nodes : j > i}

(* A shape below a position lies where the position and the transforms      *)
(* after it put it, relative to the camera, whatever came before in the     *)
(* scene or in other groups; with moveTransform what comes before the       *)
(* camera acts between.  The matrix that is asked for says the same, unless *)
(* something before the position turns: getMatrix keeps that, drawing does  *)
(* not; and a moved transform that turns elevations turns that of the       *)
(* position only when it is drawn.                                          *)
PlacedByPosition(scene, getMatrix, i, place) ==
    LET positions == InScope(scene, {"position"}, i)
        cameras == InScope(scene, {"camera"}, i)
        transforms == InScope(scene, {"transform"}, i)
        local == Power(Cardinality(Following(transforms, Max(positions))))
        moved == IF moveTransform
                 THEN Power(Cardinality(Preceding(transforms, Min(cameras)))) ELSE Identity
    IN  /\ positions # {} /\ cameras # {} /\ InScope(scene, {"coordinate"}, i) = {}
        /\ getMatrix => \A j \in transforms : j > Max(positions)
        => \A x \in Axes :
              moved[x].turn = 1 \/ x = 1 =>
                place[x] = position[x] - utmCamera[x]
                             + At(Times(moved, local), [y \in Axes |-> 0])[x]

(* Coordinates without a position lie where their points are, relative to   *)
(* the camera that was moved since.  Below a position they are shifted      *)
(* twice, although transformations are documented to leave them alone.      *)
PlacedByPoint(scene, getMatrix, i, place) ==
    /\ ~getMatrix /\ InScope(scene, {"position", "transform"}, i) = {}
    /\ InScope(scene, {"camera"}, i) # {} /\ InScope(scene, {"coordinate"}, i) # {}
    => place = Difference(point, utmCamera)
PlacedRelative == seen # NotSet =>
    \A i \in DOMAIN seen.scene : seen.scene[i] = "shape" =>
        LET place == seen.places[ShapesTo(seen.scene, i)]
        IN  /\ PlacedByPosition(seen.scene, seen.getMatrix, i, place)
            /\ PlacedByPoint(seen.scene, seen.getMatrix, i, place)
=============================================================================
