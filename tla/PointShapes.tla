---------------------------- MODULE PointShapes -----------------------------
(* Shapes made of points: a set of markers, a curve.                         *)
EXTENDS Integers, Sequences, FiniteSets, FiniteSetsExt
-----------------------------------------------------------------------------
(* SmMarkerSet: markers at points, of which at most maxMarkersToRender are   *)
(* drawn, the nearest to the camera.  The list that is sorted stays from one *)
(* rendering to the next.  A point is its distance to the camera; the points *)
(* in Culled are outside of what is seen.                                    *)

CONSTANTS Clouds,         \* the points of the coordinates, sequences
          MarkerIndices,  \* values of the field
          Ranges,         \* pairs of startIndex and numPoints
          Maxima,         \* values of maxMarkersToRender
          Culled,
          NONE,           \* the marker that is not drawn
          NotRendered

VARIABLES coordElement, startIndex, numPoints, maxMarkersToRender, markerIndex, perVertex,
          pointdistancelist,   \* of [index, distance]
          markersDrawn         \* of [point, marker, material], or NotRendered

MarkersInit ==
    /\ coordElement \in Clouds /\ startIndex = 0 /\ numPoints = -1
    /\ maxMarkersToRender = -1 /\ markerIndex = <<0>> /\ perVertex = FALSE
    /\ pointdistancelist = << >> /\ markersDrawn = NotRendered

Numpts == IF numPoints < 0 THEN Len(coordElement) - startIndex ELSE numPoints
Indices == 0..(Numpts - 1)
Point(index) == coordElement[startIndex + index + 1]

(* All points by their distance; qsort may leave equal ones in any order.    *)
Sorted ==
    {list \in [1..Numpts -> {[index |-> i, distance |-> Point(i)] : i \in Indices}] :
        \A i, j \in 1..Numpts : i < j => /\ list[i].index # list[j].index
                                         /\ list[i].distance =< list[j].distance}
Unsorted == {[i \in 1..Numpts |-> [index |-> i - 1, distance |-> 0]]}

(* Mutant: a list that has the right length is sorted already. *)
Lists_Bug == IF maxMarkersToRender = -1 THEN Unsorted
             ELSE IF Len(pointdistancelist) = Numpts THEN {pointdistancelist} ELSE Sorted
Lists == IF maxMarkersToRender = -1 THEN Unsorted ELSE Sorted

(* The loop: the last marker stands for those that are missing; the material *)
(* of a vertex is sent before its marker turns out to be NONE or culled.     *)
Counter == LET m == maxMarkersToRender IN IF m = -1 \/ m > Numpts THEN Numpts ELSE m
Marker(index) == LET last == Len(markerIndex) - 1
                 IN  markerIndex[(IF index < last THEN index ELSE last) + 1]
Shown(index) == Marker(index) # NONE /\ Point(index) \notin Culled
Drawn(index) == [point |-> startIndex + index, marker |-> Marker(index),
                 material |-> IF perVertex THEN index ELSE 0]

GLRender ==
    /\ pointdistancelist' \in Lists
    /\ LET shown == SelectSeq(SubSeq(pointdistancelist', 1, Counter),
                              LAMBDA entry : Shown(entry.index))
       IN  markersDrawn' = [i \in DOMAIN shown |-> Drawn(shown[i].index)]
    /\ UNCHANGED <<coordElement, startIndex, numPoints, maxMarkersToRender, markerIndex, perVertex>>

(* Fields and the coordinates and the binding before the node get values     *)
(* that fit together: the code does not check the range of the points.       *)
SetFields ==
    /\ coordElement' \in Clouds /\ maxMarkersToRender' \in Maxima
    /\ markerIndex' \in MarkerIndices /\ perVertex' \in BOOLEAN
    /\ \E r \in Ranges : /\ startIndex' = r[1] /\ numPoints' = r[2]
                         /\ r[1] + r[2] =< Len(coordElement') /\ r[1] < Len(coordElement')
    /\ markersDrawn' = NotRendered
    /\ UNCHANGED pointdistancelist

MarkersNext == GLRender \/ SetFields
-----------------------------------------------------------------------------
(* A rendering draws points once, with their own markers and materials, and  *)
(* leaves out only what has no marker or is out of sight, or what has as     *)
(* many points as near as may be drawn; without a limit nothing else.        *)
NearestDrawn == markersDrawn # NotRendered =>
    LET at == {markersDrawn[n].point - startIndex : n \in DOMAIN markersDrawn}
        Nearer(i) == Cardinality({j \in Indices \ {i} : Point(j) < Point(i)})
        AsNear(i) == Cardinality({j \in Indices \ {i} : Point(j) =< Point(i)})
        limited == maxMarkersToRender # -1
    IN  /\ Cardinality(at) = Len(markersDrawn) /\ at \subseteq {i \in Indices : Shown(i)}
        /\ \A i \in at : Drawn(i) \in {markersDrawn[n] : n \in DOMAIN markersDrawn}
        /\ \A i \in at : limited => Nearer(i) < maxMarkersToRender
        /\ \A i \in Indices \ at : Shown(i) => limited /\ AsNear(i) >= maxMarkersToRender
-----------------------------------------------------------------------------
(* SoTCBCurve: a curve through control points, in as many lines for each     *)
(* segment as the complexity at the last rendering asked for.  Coordinates   *)
(* have one axis; values of the curve are multiples of 1 / (12 * lines^3).   *)

CONSTANTS Curves,        \* [coords, timestamp], the times in increasing order
                         \* and three or less, or four, apart over two segments
          Complexities,  \* lines for a segment
          None

VARIABLES curve, complexity, linesPerSegment,
          drawn,         \* the line strip of the last rendering, or None
          edited         \* history: the curve changed since

curvevars == <<curve, complexity, linesPerSegment, drawn, edited>>

CurveInit == /\ curve = [coords |-> << >>, timestamp |-> << >>]
             /\ complexity = CHOOSE c \in Complexities : TRUE
             /\ linesPerSegment = 0 /\ drawn = None /\ edited = FALSE

SetCurve(c) == /\ curve' = c /\ edited' = TRUE
               /\ UNCHANGED <<complexity, linesPerSegment, drawn>>
SetComplexity(c) == /\ complexity' = c /\ UNCHANGED <<curve, linesPerSegment, drawn, edited>>

(* TCB at time / lines, for the points of a segment.                        *)
Points == Len(curve.coords)
SegmentAt(time, lines) ==
    Quantify(1..(Points - 1), LAMBDA i : curve.timestamp[i] * lines <= time)
(* Mutant: the tangent at the end of a segment takes the step before it. *)
Tangents_Bug(k) ==
    LET v == curve.coords  t == curve.timestamp
        d == 12 * (v[k + 1] - v[k])
    IN  <<IF k = 1 THEN d
          ELSE (12 * (t[k + 1] - t[k]) * (v[k + 1] - v[k - 1])) \div (t[k + 1] - t[k - 1]),
          IF k + 1 = Points THEN d
          ELSE (12 * (t[k + 2] - t[k + 1]) * (v[k + 2] - v[k])) \div (t[k + 2] - t[k])>>
Tangents(k) ==
    LET v == curve.coords  t == curve.timestamp
        d == 12 * (v[k + 1] - v[k])
    IN  <<IF k = 1 THEN d
          ELSE (12 * (t[k + 1] - t[k]) * (v[k + 1] - v[k - 1])) \div (t[k + 1] - t[k - 1]),
          IF k + 1 = Points THEN d
          ELSE (12 * (t[k + 1] - t[k]) * (v[k + 2] - v[k])) \div (t[k + 2] - t[k])>>
TCB(time, lines) ==
    LET k == SegmentAt(time, lines)
        n == curve.timestamp[k + 1] - curve.timestamp[k]   \* t = u / (n * lines)
        u == time - curve.timestamp[k] * lines
        l == n * lines
        h2 == 3 * u * u * l - 2 * u * u * u
        h1 == l * l * l - h2
        h3 == u * u * u - 2 * u * u * l + u * l * l
        h4 == u * u * u - u * u * l
    IN  (12 * (curve.coords[k] * h1 + curve.coords[k + 1] * h2)
            + Tangents(k)[1] * h3 + Tangents(k)[2] * h4) \div (n * n * n)

(* A segment: the points between, by steps from its first control point,    *)
(* then the control point at its end itself.                                *)
Whole(lines) == 12 * lines * lines * lines
Segment(s, lines) ==
    LET step == curve.timestamp[s + 1] - curve.timestamp[s]
    IN  [i \in 1..(IF lines = 0 THEN 1 ELSE lines) |->
           IF i >= lines THEN curve.coords[s + 1] * Whole(lines)
           ELSE TCB(curve.timestamp[s] * lines + i * step, lines)]
RECURSIVE Strip(_, _)
Strip(s, lines) == IF s = 0 THEN <<curve.coords[1] * Whole(lines)>>
                   ELSE Strip(s - 1, lines) \o Segment(s, lines)
CurveGLRender ==
    /\ IF Points < 2 THEN UNCHANGED <<linesPerSegment, drawn>>
       ELSE /\ linesPerSegment' = complexity
            /\ drawn' = IF complexity = 0 THEN None ELSE Strip(Points - 1, complexity)
    /\ edited' = IF Points < 2 \/ complexity = 0 THEN edited ELSE FALSE
    /\ UNCHANGED <<curve, complexity>>

(* generatePrimitives and computeBBox take the number of lines as it was.   *)
Primitives == Strip(Points - 1, linesPerSegment)
Box == LET reached == {Primitives[i] : i \in DOMAIN Primitives}
       IN  <<Min(reached), Max(reached)>>

CurveNext == \/ \E c \in Curves : SetCurve(c)
             \/ \E c \in Complexities : SetComplexity(c)
             \/ CurveGLRender
-----------------------------------------------------------------------------
(* What is picked, and the bounding box, are of the curve that was drawn,   *)
(* whatever the complexity has become since.                                *)
PicksTheDrawn ==
    drawn # None /\ ~edited /\ Points > 1 =>
        /\ Primitives = drawn
        /\ \A i \in DOMAIN drawn : Box[1] <= drawn[i] /\ drawn[i] <= Box[2]

(* Control points passed at an even speed lie on a straight line, which the *)
(* curve follows at that speed, however far apart in time they are.         *)
Even == \A i, j \in DOMAIN curve.coords :
            curve.coords[i] - curve.coords[j] = curve.timestamp[i] - curve.timestamp[j]
Straight ==
    drawn # None /\ ~edited /\ Points > 1 /\ Even =>
        \A s \in 1..(Points - 1), i \in 1..linesPerSegment :
           drawn[(s - 1) * linesPerSegment + i + 1] =
              curve.coords[s] * Whole(linesPerSegment)
                 + (curve.timestamp[s + 1] - curve.timestamp[s]) * i
                      * (Whole(linesPerSegment) \div linesPerSegment)
CurveRight == PicksTheDrawn /\ Straight
=============================================================================
