------------------------------- MODULE Trees --------------------------------
(* Two trees: the quadtree of the sea, which is refined around the camera    *)
(* (nodekits/OceanKit.cpp), and the picture of a scene graph.                *)
EXTENDS Integers, Sequences, FiniteSets, SequencesExt
-----------------------------------------------------------------------------
(* The quadtree of OceanShape (nodekits/OceanKit.cpp).  Every frame it is  *)
(* refined around the camera: a node close to the camera is split, and so  *)
(* are coarser nodes beside it, so that what is drawn fits together.  The  *)
(* mesh of a node leaves out every second vertex of an edge beside a       *)
(* coarser node.                                                           *)
(*                                                                         *)
(* A node is its path, the child indices from the root.  Children are kept *)
(* when a node is unsplit, and shown again when it is split once more.     *)

CONSTANTS MinLevel, MaxLevel,   \* the levels initLevels() chooses
          GridSize,             \* GRIDSIZE, vertices along an edge of a mesh
          CameraPlaces                  \* where the camera may be, <<x, y, z>>

VARIABLE tree   \* NoTree, or the quadtree of the last frame:
                \* its nodes, which are split, and their neighbors

NoTree == [nodes |-> {}]

(* Numbered from 1, as tuples are. *)
BOTTOM == 1  RIGHT == 2  TOP == 3  LEFT == 4
BOTTOM_LEFT == 1  BOTTOM_RIGHT == 2  TOP_RIGHT == 3  TOP_LEFT == 4
Directions == 1..4
Children   == 1..4
NULL       == <<-1>>

Root        == <<>>
Parent(n)   == Front(n)
Child(n, c) == Append(n, c)
Split(t, n) == n \in t.split
Has(t, n)   == Child(n, BOTTOM_LEFT) \in t.nodes
-----------------------------------------------------------------------------
(* The child across an edge, in the same parent or in the one beside it,   *)
(* and the edges of its parent that a child lies at.                       *)
Across(i, c) ==
  IF i \in {LEFT, RIGHT}
    THEN <<BOTTOM_RIGHT, BOTTOM_LEFT, TOP_LEFT, TOP_RIGHT>>[c]
    ELSE <<TOP_LEFT, TOP_RIGHT, BOTTOM_RIGHT, BOTTOM_LEFT>>[c]
OuterEdges(c) ==
  <<{LEFT, BOTTOM}, {BOTTOM, RIGHT}, {TOP, RIGHT}, {TOP, LEFT}>>[c]

(* getNeighborChild: no node is rotated. *)
NeighborChild(t, n, i, c) ==
  LET beside == t.neighbor[n][i]
  IN  IF beside # NULL /\ Has(t, beside) THEN Child(beside, c) ELSE NULL

(* Mutant: in the node beside the parent, the child at the far edge. *)
SearchNeighbor_Bug(t, n, i) ==
  IF t.neighbor[n][i] # NULL THEN t.neighbor[n][i]
  ELSE IF n = Root THEN NULL
  ELSE LET c == Across(i, Last(n))
       IN  IF i \in OuterEdges(Last(n))
             THEN NeighborChild(t, Parent(n), i, Last(n))
             ELSE Child(Parent(n), c)

(* searchNeighbor *)
SearchNeighbor(t, n, i) ==
  IF t.neighbor[n][i] # NULL THEN t.neighbor[n][i]
  ELSE IF n = Root THEN NULL
  ELSE LET c == Across(i, Last(n))
       IN  IF i \in OuterEdges(Last(n)) THEN NeighborChild(t, Parent(n), i, c)
                                        ELSE Child(Parent(n), c)

NoNeighbors == <<NULL, NULL, NULL, NULL>>

WithChildren(t, n) ==
  IF Has(t, n) THEN t
  ELSE LET new == {Child(n, c) : c \in Children}
       IN  [t EXCEPT !.nodes = @ \cup new,
                     !.neighbor = [m \in t.nodes \cup new |->
                                     IF m \in new THEN NoNeighbors ELSE t.neighbor[m]]]

RECURSIVE FindNeighbors(_, _), DoSplit(_, _, _), EachSplit(_, _), EachFind(_, _)

(* split, of a node that is not. *)
DoSplit(t, n, findneighbors) ==
  LET split == WithChildren([t EXCEPT !.split = @ \cup {n}], n)
      above == IF n = Root THEN split ELSE FindNeighbors(split, Parent(n))
  IN  IF findneighbors THEN FindNeighbors(above, n) ELSE above

EachSplit(t, s) ==
  IF s = <<>> THEN t
  ELSE EachSplit(IF Split(t, Head(s)) THEN t ELSE DoSplit(t, Head(s), FALSE), Tail(s))
EachFind(t, s) ==
  IF s = <<>> THEN t ELSE EachFind(FindNeighbors(t, Head(s)), Tail(s))

(* The nodes beside the parent that n needs split, before it has neighbors. *)
Coarser(t, n) ==
  LET edges == SelectSeq(<<BOTTOM, RIGHT, TOP, LEFT>>,
                 LAMBDA i : /\ i \in OuterEdges(Last(n))
                            /\ t.neighbor[Parent(n)][i] # NULL
                            /\ ~Split(t, t.neighbor[Parent(n)][i]))
  IN  [k \in DOMAIN edges |-> t.neighbor[Parent(n)][edges[k]]]

(* findNeighbors *)
FindNeighbors(t, n) ==
  IF n = Root \/ \A i \in Directions : t.neighbor[n][i] # NULL THEN t
  ELSE LET coarse == Coarser(t, n)
           split  == EachSplit(t, coarse)
           found  == [split EXCEPT !.neighbor[n] =
                        << SearchNeighbor(split, n, BOTTOM), SearchNeighbor(split, n, RIGHT),
                           SearchNeighbor(split, n, TOP), SearchNeighbor(split, n, LEFT) >>]
       IN  EachFind(found, coarse)
-----------------------------------------------------------------------------
(* Where nodes are, in units of the smallest node's grid. *)
Size(n) == (GridSize - 1) * 2^(MaxLevel - 1 - Len(n))
Corner[n \in Seq(Children)] ==
  IF n = Root THEN <<0, 0>>
  ELSE LET c == Corner[Parent(n)]
       IN  << c[1] + (IF Last(n) \in {BOTTOM_RIGHT, TOP_RIGHT} THEN Size(n) ELSE 0),
              c[2] + (IF Last(n) \in {TOP_LEFT, TOP_RIGHT} THEN Size(n) ELSE 0) >>

Square(x) == x * x
SPLIT_K   == 8
Near(n, eye) ==
  LET half == Size(n) \div 2
      c    == Corner[n]
  IN  Square(eye[1] - c[1] - half) + Square(eye[2] - c[2] - half) + Square(eye[3])
        < SPLIT_K * 2 * Square(half)

(* unsplit, with everything split below. *)
Unsplit(t, n) ==
  LET Below(m) == {SubSeq(m, 1, k) : k \in Len(n)..Len(m)}
  IN  [t EXCEPT !.split = @ \ {m \in @ : IsPrefix(n, m) /\ Below(m) \subseteq @}]

RECURSIVE DistanceSplit(_, _, _)
DistanceSplit(t, n, eye) ==
  IF Len(n) + 1 = MaxLevel THEN t
  ELSE IF Near(n, eye) \/ Len(n) + 1 < MinLevel
  THEN LET first == IF Split(t, n) THEN FindNeighbors(t, n) ELSE DoSplit(t, n, TRUE)
           below[c \in 0..4] ==
             IF c = 0 THEN first ELSE DistanceSplit(below[c - 1], Child(n, c), eye)
       IN  below[4]
  ELSE Unsplit(t, n)

(* deleteHiddenChildren, which goes no further than the root. *)
DeleteHidden(t) ==
  IF Split(t, Root) THEN t
  ELSE [nodes |-> {Root}, split |-> {}, neighbor |-> [n \in {Root} |-> NoNeighbors]]

NewTree == [nodes |-> {Root}, split |-> {}, neighbor |-> [n \in {Root} |-> NoNeighbors]]

ClearNeighbors(t) == [t EXCEPT !.neighbor = [n \in t.nodes |-> NoNeighbors]]

UpdateQuadtree(t, eye) ==
  IF t = NoTree THEN DistanceSplit(NewTree, Root, eye)
  ELSE DeleteHidden(DistanceSplit(Unsplit(ClearNeighbors(t), Root), Root, eye))
-----------------------------------------------------------------------------
Init == tree = NoTree

(* GLRender, for a camera that may have moved anywhere since the last frame. *)
GLRender(eye) == tree' = UpdateQuadtree(tree, eye)

(* notify, for the size field. *)
Notify == tree # NoTree /\ tree' = NoTree

Next == (\E eye \in CameraPlaces : GLRender(eye)) \/ Notify
Spec == Init /\ [][Next]_tree
-----------------------------------------------------------------------------
(* add_node_rec, when nothing is culled. *)
Drawn(t) == {n \in t.nodes :
               /\ ~Split(t, n)
               /\ \A k \in 0..(Len(n) - 1) : Split(t, SubSeq(n, 1, k))}

(* getNodeBitmask: the edges drawn with all their vertices. *)
NodeBitmask(t, n) ==
  {i \in Directions :
     \/ n = Root \/ i \notin OuterEdges(Last(n))
     \/ LET beside == SearchNeighbor(t, Parent(n), i)
        IN  beside = NULL \/ Split(t, beside)}

(* add_fan around a vertex, without the middle of an outer edge whose bit  *)
(* is not set.                                                             *)
Fan(x, y, mask) ==
  SelectSeq(<< <<x-1, y-1>>, <<x, y-1>>, <<x+1, y-1>>, <<x+1, y>>, <<x+1, y+1>>,
               <<x, y+1>>, <<x-1, y+1>>, <<x-1, y>>, <<x-1, y-1>> >>,
    LAMBDA v : /\ v = <<x, y-1>> /\ y = 1            => BOTTOM \in mask
               /\ v = <<x+1, y>> /\ x = GridSize - 2 => RIGHT \in mask
               /\ v = <<x, y+1>> /\ y = GridSize - 2 => TOP \in mask
               /\ v = <<x-1, y>> /\ x = 1            => LEFT \in mask)

(* add_triangles *)
Triangles(x, y, mask) ==
  LET f == Fan(x, y, mask) IN {{<<x, y>>, f[k], f[k+1]} : k \in 1..(Len(f) - 1)}

(* grididx: the vertices the mesh for a mask uses. *)
Odd  == {k \in 1..(GridSize - 2) : k % 2 = 1}
Mesh == [mask \in SUBSET Directions |->
           UNION UNION {Triangles(x, y, mask) : x \in Odd, y \in Odd}]

(* The vertices of a drawn node. *)
Vertices(t, n) ==
  LET step == Size(n) \div (GridSize - 1)
      c    == Corner[n]
  IN  {<<c[1] + v[1] * step, c[2] + v[2] * step>> : v \in Mesh[NodeBitmask(t, n)]}

(* Whether a vertex lies on a node. *)
On(v, n) == \A k \in 1..2 : Corner[n][k] =< v[k] /\ v[k] =< Corner[n][k] + Size(n)

(* However the camera moves, the meshes of two nodes that touch have the   *)
(* same vertices where they do: the surface has no cracks.  For this nodes *)
(* that touch differ by one level at most, the finer one knows that it is, *)
(* and its fans leave out the vertices the coarser one does not have.      *)
NoCracks ==
  LET drawn    == Drawn(tree)
      vertices == [n \in drawn |-> Vertices(tree, n)]
  IN  \A m, n \in drawn :
        \A v \in vertices[m] : On(v, n) => v \in vertices[n]
-----------------------------------------------------------------------------
(* SoGenerateSceneGraphAction: a picture of a scene as a tree.  A scene is   *)
(* the sequence of its children; lengths are multiples of 1 / Unit.          *)

CONSTANTS Trees, Unit, None

VARIABLES enablenodenames, enablenodetypes, enabledroptypeifname,
          root      \* the picture: its nodes, depth first, as [depth, x], or None

layoutvars == <<enablenodenames, enablenodetypes, enabledroptypeifname, root>>

LayoutInit == /\ enablenodenames = TRUE /\ enablenodetypes = TRUE
              /\ enabledroptypeifname = FALSE /\ root = None
SetLabels(n, t, d) == /\ enablenodenames' = n /\ enablenodetypes' = t
                      /\ enabledroptypeifname' = d /\ UNCHANGED root

(* calculate: full_width is that of all the nodes below, connection_offset  *)
(* what of it lies before the first child, connection_width lies between    *)
(* the first child and the last.                                            *)
RECURSIVE Width(_)
Width(t) ==
    IF t = << >> THEN [full |-> 0, connection |-> 0, offset |-> 0]
    ELSE LET w == [i \in DOMAIN t |-> Width(t[i])]
             full == FoldLeft(LAMBDA sum, c : sum + c.full, (Len(t) - 1) * Unit, w)
             offset == w[1].offset + w[1].connection \div 2
             right == w[Len(t)].full - w[Len(t)].offset - w[Len(t)].connection \div 2
         IN  [full |-> full, connection |-> full - offset - right, offset |-> offset]

(* buildSubSceneGraph: each child shifts the next.                          *)
(* Mutant: the shift does not count the way to the middle of the next. *)
Shift_Bug(w, next) == w.full - w.offset - w.connection \div 2 + Unit + next.offset
Shift(w, next) == w.full - w.offset - w.connection \div 2 + Unit
                    + next.offset + next.connection \div 2
RECURSIVE Build(_, _, _), ChildAt(_, _, _)
ChildAt(t, x, i) == IF i = 1 THEN x - Width(t).connection \div 2
                    ELSE ChildAt(t, x, i - 1) + Shift(Width(t[i - 1]), Width(t[i]))
Build(t, x, depth) ==
    <<[depth |-> depth, x |-> x]>>
      \o FoldLeft(LAMBDA s, i : s \o Build(t[i], ChildAt(t, x, i), depth + 1), << >>,
                  [i \in DOMAIN t |-> i])

(* beginTraversal: the last group that was left is the root of the picture; *)
(* a scene without one has no picture.                                      *)
Apply(t) == /\ root' = IF t = << >> THEN None ELSE Build(t, 0, 0)
            /\ UNCHANGED <<enablenodenames, enablenodetypes, enabledroptypeifname>>

(* The lines of text of a node: a name, a type.                             *)
Label(hasname) ==
    LET name == enablenodenames /\ hasname
        type == enablenodetypes /\ ~(name /\ enabledroptypeifname)
    IN  (IF name THEN {"name"} ELSE {}) \cup (IF type THEN {"type"} ELSE {})

LayoutNext == \/ \E n, t, d \in BOOLEAN : SetLabels(n, t, d)
              \/ \E t \in Trees : Apply(t)
-----------------------------------------------------------------------------
(* Nodes of a level do not meet: they stand in order, each a step or more   *)
(* from the one before, and a node stands over the middle of its children.  *)
NodesApart ==
    root # None =>
        \A i, j \in DOMAIN root :
            i < j /\ root[i].depth = root[j].depth => root[j].x - root[i].x >= Unit
ParentsCentred ==
    root # None =>
        \A i \in DOMAIN root :
            LET below == {j \in (i + 1)..Len(root) :
                            /\ root[j].depth = root[i].depth + 1
                            /\ \A k \in (i + 1)..j : root[k].depth > root[i].depth}
                first == CHOOSE j \in below : \A k \in below : j <= k
                last == CHOOSE j \in below : \A k \in below : k <= j
            IN  below # {} => root[first].x + root[last].x = 2 * root[i].x

(* With names or types on, a node that has a name is told apart from one    *)
(* that has none, or both show their type.                                  *)
Labelled == enablenodetypes => Label(FALSE) # {} /\ Label(TRUE) # {}
LayoutRight == NodesApart /\ ParentsCentred /\ Labelled
=============================================================================
