------------------------------ MODULE Surfaces ------------------------------
(* Shapes of which the triangles are made: a sphere, boards, a tube.         *)
EXTENDS Integers, FiniteSets, SequencesExt
-----------------------------------------------------------------------------
(* SmHQSphere: an octahedron of which every triangle is divided level - 1    *)
(* times, generated again when a traversal meets another level.  A point is  *)
(* the one of the octahedron it is a projection of, in units that become     *)
(* half as long with every division; signs, zeros and common points are the  *)
(* same as on the sphere.  A texture coordinate goes around the y axis, from *)
(* 0 to Around, and is told apart up to the quadrants.  An index stands for  *)
(* the vertex it leads to, and the triangles are a set.                      *)

CONSTANTS Levels, DefaultLevel, Radii, DEFAULTSIZE, Undefined

VARIABLES level, radius,      \* fields
          currlevel,          \* the level of the geometry, or -1
          geometry,           \* idx, coord and texcoord: triangles of vertices, or Undefined
          sphereDrawn         \* the triangles of the last traversal

Around == 8
Clamped(l) == IF l < 1 THEN 1 ELSE IF l > 12 THEN 12 ELSE l

SphereInit == /\ level = DefaultLevel /\ radius = 1
              /\ currlevel = -1 /\ geometry = {} /\ sphereDrawn = {}

(* HQSphereGenerator::init *)
Octahedron ==
    LET XPLUS == <<1, 0, 0>>   YPLUS == <<0, 1, 0>>   ZPLUS == <<0, 0, 1>>
        XMIN == <<-1, 0, 0>>   YMIN == <<0, -1, 0>>   ZMIN == <<0, 0, -1>>
    IN  {<<XPLUS, ZPLUS, YPLUS>>, <<YPLUS, ZPLUS, XMIN>>, <<XMIN, ZPLUS, YMIN>>,
         <<YMIN, ZPLUS, XPLUS>>, <<XPLUS, YPLUS, ZMIN>>, <<YPLUS, XMIN, ZMIN>>,
         <<XMIN, YMIN, ZMIN>>, <<YMIN, XPLUS, ZMIN>>}

(* midpoint and normalize, in the units of the next division.                *)
Midpoint(p, q) == <<p[1] + q[1], p[2] + q[2], p[3] + q[3]>>
Divided(t) ==
    LET p0 == Midpoint(t[1], t[1])  p1 == Midpoint(t[2], t[2])  p2 == Midpoint(t[3], t[3])
        a == Midpoint(t[1], t[3])   b == Midpoint(t[1], t[2])   c == Midpoint(t[2], t[3])
    IN  {<<p0, b, a>>, <<b, p1, c>>, <<a, b, c>>, <<a, c, p2>>}
Subdivided[l \in Nat] == IF l =< 1 THEN Octahedron ELSE UNION {Divided(t) : t \in Subdivided[l - 1]}

(* atan2(x, z) of the poles is 0; what comes out as 1 is made 0.             *)
Sign(n) == IF n < 0 THEN -1 ELSE IF n > 0 THEN 1 ELSE 0
TexCoord(p) == LET x == Sign(p[1])  z == Sign(p[3]) IN
    IF x = 0 THEN (IF z < 0 THEN 0 ELSE Around \div 2) ELSE (Around \div 2) + (x * (2 - z))

(* The triangles on the right of the back that touch its edge, x = 0, get    *)
(* points of their own, with the other end of the texture there.             *)
(* Mutant: all triangles of the back that touch it. *)
OnEdge_Bug(t) == /\ \A j \in 1..3 : t[j][3] =< 0
                 /\ \E j \in 1..3 : t[j][1] = 0
OnEdge(t) == /\ \A j \in 1..3 : t[j][3] =< 0
             /\ \E j \in 1..3 : t[j][1] > 0
             /\ \E j \in 1..3 : t[j][1] = 0

(* SbList: the room of a list to which n points were appended.               *)
Room[n \in Nat] == IF n =< DEFAULTSIZE THEN DEFAULTSIZE ELSE 2 * Room[(n + 1) \div 2]

(* convert turns every triangle around.  genGeom reads the points where the  *)
(* list had them before it got more: once it has grown they are freed, and   *)
(* what comes of it is not defined.                                          *)
Geometry(l) ==
    LET object == {<<t[3], t[2], t[1]>> : t \in Subdivided[Clamped(l)]}
        points == UNION {{t[1], t[2], t[3]} : t \in object}
        edge == {t \in object : OnEdge(t)}
        Other(tc) == IF tc = 0 THEN Around ELSE tc
        Vertex(t, p) == [point |-> p, texcoord |-> IF t \in edge THEN Other(TexCoord(p))
                                                   ELSE TexCoord(p)]
    IN  IF Cardinality(points) + 3 * Cardinality(edge) > Room[Cardinality(points)] THEN Undefined
        ELSE {<<Vertex(t, t[1]), Vertex(t, t[2]), Vertex(t, t[3])>> : t \in object}

(* GLRender scales the arrays by the radius, generatePrimitives every point. *)
Scaled(v) == [v EXCEPT !.point = <<radius * @[1], radius * @[2], radius * @[3]>>]

Traverse ==
    /\ geometry' = IF level = currlevel THEN geometry ELSE Geometry(level)
    /\ currlevel' = level
    /\ sphereDrawn' = IF geometry' = Undefined THEN {}
                      ELSE {<<Scaled(t[1]), Scaled(t[2]), Scaled(t[3])>> : t \in geometry'}
    /\ UNCHANGED <<level, radius>>

SetFields(l, r) == /\ level' = l /\ radius' = r /\ sphereDrawn' = {}
                   /\ UNCHANGED <<currlevel, geometry>>

SphereNext == Traverse \/ \E l \in Levels, r \in Radii : SetFields(l, r)
-----------------------------------------------------------------------------
(* What a traversal draws, where it is defined, is a sphere: it has the      *)
(* triangles of its level, each edge of one is that of another the other way *)
(* around, so that there is no hole and all face the same side, and as many  *)
(* points as a closed surface without handles.                               *)
Closed == sphereDrawn # {} =>
    LET triangles == Cardinality(sphereDrawn)
        edges == UNION {{<<t[1].point, t[2].point>>, <<t[2].point, t[3].point>>,
                         <<t[3].point, t[1].point>>} : t \in sphereDrawn}
    IN  /\ triangles = 8 * 4^(Clamped(level) - 1)
        /\ Cardinality(edges) = 3 * triangles
        /\ \A e \in edges : <<e[2], e[1]>> \in edges
        /\ Cardinality({e[1] : e \in edges}) = (triangles \div 2) + 2

(* The texture is not torn: every vertex has the coordinate of its place,    *)
(* and the corners of a triangle lie within a quadrant of it, its poles left *)
(* aside.                                                                    *)
Pole(v) == v.point[1] = 0 /\ v.point[3] = 0
Untorn == \A t \in sphereDrawn : \A j \in 1..3 :
    /\ (t[j].texcoord - TexCoord(t[j].point)) % Around = 0
    /\ \A k \in 1..3 : Pole(t[j]) \/ Pole(t[k]) \/ t[j].texcoord - t[k].texcoord \in -2..2

SphereRight == Closed /\ Untorn
-----------------------------------------------------------------------------
(* Coinboard: a shape repeated at several places, turned to the camera, once *)
(* as it is sent to GL and once as it is generated for picking.  A vertex is *)
(* the number of its board, of its coordinate and of its texture coordinate; *)
(* how the board is turned is the record field "turned".                     *)

CONSTANTS Shapes,       \* values of the fields
          NoTexture

VARIABLES fields,   \* [position, coord: their lengths, numVertices, shapeType,
                    \* free: axisOfRotation is 0, texture: whether it is enabled]
          sent,     \* to GL: what was between each glBegin and its glEnd
          generated \* for a pick: what was between beginShape and endShape

BoardsInit ==
    /\ fields = [position |-> 1, coord |-> 1, numVertices |-> <<-1>>,
                 shapeType |-> "TRIANGLES", free |-> FALSE, texture |-> FALSE]
    /\ sent = << >> /\ generated = << >>

(* The early returns, and numVertices when it is not the default.            *)
Verts == IF fields.numVertices = <<-1>> THEN << >> ELSE fields.numVertices
Nothing == \/ fields.position = 0 \/ fields.coord < 3
           \/ Verts # << >> /\ Len(Verts) # fields.position

(* The coordinates of a board: all, or its share, after those before it.     *)
First(i) == FoldLeft(+, 0, SubSeq(Verts, 1, i - 1))
Coords(i) == IF Verts = << >> THEN [k \in 1..fields.coord |-> k]
             ELSE [k \in 1..Verts[i] |-> First(i) + k]

(* render: one of two, by an offset in the turned system or by a matrix.     *)
Turned == IF fields.free THEN "offset" ELSE "matrix"
Render(i) == [k \in DOMAIN Coords(i) |->
    [board |-> i, coord |-> Coords(i)[k], turned |-> Turned,
     texcoord |-> IF fields.texture THEN Coords(i)[k] ELSE NoTexture]]

(* GLRender: one glBegin for all boards, or one for each.                    *)
Separate == fields.shapeType \in {"TRIANGLES", "QUADS"}
Boards == [i \in 1..fields.position |-> i]
GLRender ==
    /\ sent' = IF Nothing THEN << >>
               ELSE LET each == [i \in 1..fields.position |-> Render(i)]
                    IN  IF Separate THEN <<FlattenSeq(each)>> ELSE each
    /\ UNCHANGED <<fields, generated>>

(* generate and generatePrimitives, which repeat render and GLRender with a  *)
(* detail: the part is the board.                                            *)
(* Mutant: the second copy does not go on in the texture coordinates. *)
Generate_Bug(i) == [k \in DOMAIN Coords(i) |->
    [board |-> i, coord |-> Coords(i)[k], turned |-> Turned,
     texcoord |-> IF fields.texture THEN k ELSE NoTexture]]
Generate(i) == [k \in DOMAIN Coords(i) |->
    [board |-> i, coord |-> Coords(i)[k], turned |-> Turned,
     texcoord |-> IF fields.texture THEN Coords(i)[k] ELSE NoTexture]]
Parts(i) == [k \in DOMAIN Coords(i) |-> [vertex |-> Generate(i)[k], part |-> i - 1]]
GeneratePrimitives ==
    /\ generated' =
         IF Nothing THEN << >>
         ELSE IF Separate THEN <<FoldLeft(LAMBDA all, i : all \o Parts(i), << >>, Boards)>>
         ELSE FoldLeft(LAMBDA all, i : Append(all, Parts(i)), << >>, Boards)
    /\ UNCHANGED <<fields, sent>>

BoardSetFields(f) == fields' = f /\ sent' = << >> /\ generated' = << >>
BoardsNext == GLRender \/ GeneratePrimitives \/ \E f \in Shapes : BoardSetFields(f)
-----------------------------------------------------------------------------
(* The corners of the primitives of a group.                                 *)
Corners(group) ==
    LET n == Len(group) IN
    CASE fields.shapeType = "TRIANGLES" -> {<<3*k - 2, 3*k - 1, 3*k>> : k \in 1..(n \div 3)}
      [] fields.shapeType = "QUADS" ->
           {<<4*k - 3, 4*k - 2, 4*k - 1, 4*k>> : k \in 1..(n \div 4)}
      [] fields.shapeType = "TRIANGLE_STRIP" -> {<<k, k + 1, k + 2>> : k \in 1..(n - 2)}
      [] OTHER -> {<<1, k + 1, k + 2>> : k \in 1..(n - 2)}

(* What is picked is what is drawn: the same primitives, with the same       *)
(* texture, each with the part of its board.  If numVertices divides the     *)
(* coordinates into whole primitives, none has corners of two boards.        *)
PicksWhatIsDrawn ==
    /\ sent # << >> /\ generated # << >> =>
          sent = [g \in DOMAIN generated |->
                    [k \in DOMAIN generated[g] |-> generated[g][k].vertex]]
    /\ \A g \in DOMAIN generated : \A k \in DOMAIN generated[g] :
          generated[g][k].part = generated[g][k].vertex.board - 1
BoardsApart ==
    LET size == CASE fields.shapeType = "TRIANGLES" -> 3 [] fields.shapeType = "QUADS" -> 4
                  [] OTHER -> 1
    IN  (\A i \in DOMAIN Verts : Verts[i] % size = 0) /\ (Verts # << >> \/ fields.coord % size = 0) =>
        \A g \in DOMAIN sent : \A c \in Corners(sent[g]) :
            \A k \in DOMAIN c : sent[g][c[k]].board = sent[g][c[1]].board
-----------------------------------------------------------------------------
(* SoLODExtrusion: a tube along a spine that is drawn segment by segment as *)
(* a tube, as a line or not at all, by its distance from the camera, out of *)
(* lists that are made anew when a field has changed.  Places lie on a line *)
(* with the camera, where distances change fastest.                         *)

CONSTANTS
    Spines,       \* sequences of places
    Cameras,      \* places of the camera
    LodDistance1,
    LodDistances2,  \* values of lodDistance2: none if not positive
    Segments      \* values of circleSegmentCount

VARIABLES
    spine, tubeRadius, circleSegmentCount, crossSection,  \* fields; radius > 0
    dirty,
    strips,       \* for each segment the vertices <<point of spine, of section>>
    lod           \* the last drawing: << >>, or [camera, d2, modes, spine, strips]

lodfields == <<spine, tubeRadius, circleSegmentCount, crossSection>>

(* The default section is a square; its points have names of their own.     *)
Square == <<<<0, 1>>, <<0, 2>>, <<0, 3>>, <<0, 4>>, <<0, 1>>>>

LODInit == /\ spine = <<0, 1>> /\ tubeRadius = FALSE
           /\ circleSegmentCount = (CHOOSE n \in Segments : TRUE) /\ crossSection = Square
           /\ dirty = TRUE /\ strips = << >> /\ lod = << >>

(* A spine or section that ends where it starts is closed, and its last     *)
(* point is left out.                                                       *)
TubeClosed(points) == points[1] = Last(points)
Opened(points) == IF TubeClosed(points) THEN Len(points) - 1 ELSE Len(points)

(* makeCircleCrossSection: the circle replaces as many values of the field  *)
(* as it has points; values after them stay.                                *)
Circle(n) == [k \in 1..(n + 1) |-> <<n, (k - 1) % n>>]
Section == IF ~tubeRadius THEN crossSection
           ELSE LET circle == Circle(circleSegmentCount)
                IN  circle \o SubSeq(crossSection, Len(circle) + 1, Len(crossSection))

(* generateCoords: a strip of pairs of vertices for each segment, closed if *)
(* the section is.                                                          *)
(* Mutant: the strip stays open. *)
Strip_Bug(i, section) ==
    FlattenSeq([j \in 1..Opened(section) |-> <<<<i, j>>, <<i + 1, j>>>>])
Strip(i, section) ==
    FlattenSeq([j \in 1..Opened(section) |-> <<<<i, j>>, <<i + 1, j>>>>])
      \o IF TubeClosed(section) THEN <<<<i, 1>>, <<i + 1, 1>>>> ELSE << >>
Strips(section) == [i \in 1..(Opened(spine) - 1) |-> Strip(i, section)]

UpdateCache == IF dirty THEN /\ crossSection' = Section /\ strips' = Strips(Section)
                             /\ dirty' = FALSE
               ELSE UNCHANGED <<crossSection, strips, dirty>>

Distance(p, camera) == IF p < camera THEN camera - p ELSE p - camera
LodMode(dist, d2) == IF dist < LodDistance1 THEN 0
                     ELSE IF d2 > 0 /\ dist >= d2 THEN 2 ELSE 1

(* GLRender: a mode is kept while the length drawn since its choice is less *)
(* than what was then left to the next change; a segment for which nothing  *)
(* was left is passed over.                                                 *)
RECURSIVE Run(_, _, _, _, _)
Run(i, mode, acc, left, modes) ==
    IF acc < left /\ i < Opened(spine)
    THEN Run(i + 1, mode, acc + Distance(spine[i], spine[i + 1]), left, Append(modes, mode))
    ELSE modes
(* Mutant: only the first distance ends a run. *)
Left_Bug(dist, mode, d2) == Distance(dist, LodDistance1)
Left(dist, mode, d2) ==
    LET to1 == Distance(dist, LodDistance1)
        to2 == Distance(dist, d2)
    IN  CASE mode = 0 -> to1 [] mode = 1 -> Min({to1, to2}) [] mode = 2 -> to2
RECURSIVE Modes(_, _, _)
Modes(modes, camera, d2) ==
    LET i    == Len(modes) + 1
        dist == Distance(spine[i], camera)
        mode == LodMode(dist, d2)
        more == Run(i, mode, 0, Left(dist, mode, d2), modes)
    IN  IF i >= Opened(spine) THEN modes
        ELSE Modes(IF more = modes THEN Append(modes, 2) ELSE more, camera, d2)

LODRender(camera, d2) ==
    /\ UpdateCache
    /\ lod' = [camera |-> camera, d2 |-> d2, modes |-> Modes(<< >>, camera, d2),
               spine |-> spine, strips |-> strips']
    /\ UNCHANGED <<spine, tubeRadius, circleSegmentCount>>

(* notify: any field; what was drawn is drawn again.                        *)
SetLODField ==
    /\ dirty' = TRUE /\ lod' = << >>
    /\ UNCHANGED strips
    /\ \/ spine' \in Spines /\ UNCHANGED <<tubeRadius, circleSegmentCount, crossSection>>
       \/ circleSegmentCount' \in Segments /\ UNCHANGED <<spine, tubeRadius, crossSection>>
       \/ tubeRadius' = ~tubeRadius /\ UNCHANGED <<spine, circleSegmentCount, crossSection>>
       \/ /\ crossSection' \in {Square, SubSeq(Square, 1, 3)}
          /\ UNCHANGED <<spine, tubeRadius, circleSegmentCount>>

LODNext == \/ SetLODField
           \/ \E camera \in Cameras, d2 \in LodDistances2 : LODRender(camera, d2)

(* rayPick: the segments that an exact hit picks.                           *)
Pickable(camera, pickLines, d2) ==
    LET far == IF pickLines THEN d2 ELSE LodDistance1
    IN  {i \in 1..(Opened(spine) - 1) :
           /\ spine[i] # spine[i + 1]
           /\ \/ far < 0
              \/ \E p \in {spine[i], spine[i + 1]} : Distance(p, camera) < far}

-----------------------------------------------------------------------------
(* Every segment is drawn in the way that the distance of its start asks    *)
(* for, although that is only looked at when the mode may change; the one   *)
(* exception is a segment that starts exactly at a change, which may be     *)
(* left out.  What is drawn as a tube can be picked, and so can what is     *)
(* drawn as a line if lines are.                                            *)
DrawnByDistance == lod # << >> =>
    /\ Len(lod.modes) = Opened(spine) - 1
    /\ \A i \in DOMAIN lod.modes :
         LET dist == Distance(spine[i], lod.camera)
         IN  lod.modes[i] = LodMode(dist, lod.d2) \/ dist = LodDistance1
    /\ {i \in DOMAIN lod.modes : lod.modes[i] = 0} \subseteq Pickable(lod.camera, FALSE, lod.d2)
    /\ {i \in DOMAIN lod.modes : lod.modes[i] < 2} \subseteq Pickable(lod.camera, TRUE, lod.d2)

(* The strip that is drawn for a segment runs around its whole section, and *)
(* closes if the section does, in the section as the fields now have it.    *)
StripsClosed == lod # << >> =>
    /\ Len(lod.strips) = Opened(spine) - 1
    /\ \A i \in DOMAIN lod.strips :
         /\ Range(lod.strips[i]) = {i, i + 1} \X (1..Opened(crossSection))
         /\ TubeClosed(crossSection) <=> Last(lod.strips[i]) = <<i + 1, 1>>
TubeRight == DrawnByDistance /\ StripsClosed
=============================================================================
