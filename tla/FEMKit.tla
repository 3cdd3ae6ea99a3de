------------------------------- MODULE FEMKit -------------------------------
(* SoFEMKit: nodes, elements and colours are lists that refer to each other *)
(* by index, behind two tables from the numbers the application uses.  A    *)
(* change asks for an update; the update builds the shown face set anew and *)
(* leaves out the faces it takes to be inside the body.  Nothing appends to *)
(* the list of 2D elements (add2DElement fills the table alone), so the     *)
(* loops over it have no counterpart here.  Indices count from 1, and 0     *)
(* stands for the -1 of the code.                                           *)
EXTENDS Integers, FiniteSets, SequencesExt

CONSTANTS
    Hexes,       \* the eight nodes of each 3D element, by its number
    Batch,       \* elements an application adds without a pause
    Quads,       \* numbers of the 2D elements
    LayerOf,     \* number of a 3D element -> its layer
    NodeCount,      \* the nodes are numbered 1..NodeCount
    HalfSpaces,  \* planes, each as the set of the nodes in front of it
    Switched,    \* elements the application enables and disables by number
    Painted,     \* elements and nodes the application paints
    MaxColors    \* bound on the number of colours

VARIABLES
    nodes,          \* list of [number, coloridx]
    nodelookup,     \* number of a node -> index in nodes
    elements3d,     \* list of [nodes, layerindex, active, coloridx]
    elementlookup,  \* number of an element -> index, taken for one in elements3d
    fecolors,       \* number of colours set
    removehidden,
    updating,       \* updatesensor->isScheduled()
    faceset         \* the shown faces: <<corners, colours>>

femlists == <<nodes, nodelookup, elements3d, elementlookup, fecolors>>
femvars == <<femlists, removehidden, updating, faceset>>

FEMInit == /\ nodes = << >> /\ nodelookup = << >>
           /\ elements3d = << >> /\ elementlookup = << >>
           /\ fecolors = 0 /\ removehidden = TRUE
           /\ updating = FALSE /\ faceset = {}

Filled(table, entries) == [i \in 1..Max(DOMAIN entries \cup {Len(table)}) |->
    IF i \in DOMAIN entries THEN entries[i]
    ELSE IF i <= Len(table) THEN table[i] ELSE 0]

(* create3DIndices: the corners of the six faces of an element. *)
Sides == << <<1, 2, 3, 4>>, <<1, 4, 8, 5>>, <<5, 8, 7, 6>>,
            <<4, 3, 7, 8>>, <<2, 1, 5, 6>>, <<3, 2, 6, 7>> >>
CornersAt(hex, f) == {hex[c] : c \in {Sides[f][k] : k \in 1..4}}
ElementFaces(elem) ==
    [f \in 1..6 |-> [c \in 1..4 |-> nodelookup[elem.nodes[Sides[f][c]]]]]

(* An element has eight nodes, and eight elements at a node surround it:    *)
(* none of them has a face there that it does not share with another.       *)
FEMAssumption ==
    /\ NodeCount \in Nat \ {0} /\ Batch \in Nat
    /\ \A e \in DOMAIN Hexes :
         /\ Hexes[e] \in [1..8 -> 1..NodeCount]
         /\ \A c, d \in 1..8 : Hexes[e][c] = Hexes[e][d] => c = d
    /\ \A n \in 1..NodeCount :
         \A around \in SUBSET {e \in DOMAIN Hexes : \E c \in 1..8 : Hexes[e][c] = n} :
         Cardinality(around) >= 8 =>
         \A e \in around, f \in 1..6 : n \in CornersAt(Hexes[e], f) =>
         \E o \in around, g \in 1..6 : /\ Hexes[o] # Hexes[e]
                                       /\ CornersAt(Hexes[o], g) = CornersAt(Hexes[e], f)

(* count_vertices: the nodes that faces of active elements mention 24 times *)
(* are taken to be hidden.                                                  *)
(* Mutant: the nodes inside a plate one element thick count as hidden. *)
Hidden_Bug(faces) == {n \in DOMAIN nodes : Cardinality(
    {m \in (DOMAIN faces) \X (1..6) \X (1..4) : faces[m[1]][m[2]][m[3]] = n}) >= 12}
Hidden(faces) == {n \in DOMAIN nodes : Cardinality(
    {m \in (DOMAIN faces) \X (1..6) \X (1..4) : faces[m[1]][m[2]][m[3]] = n}) >= 24}

(* The colour of a corner: that of its node, or else of its element, or the *)
(* first one.                                                               *)
ColorIdx(n, elem) == IF nodes[n].coloridx > 0 THEN nodes[n].coloridx
                     ELSE IF elem.coloridx > 0 THEN elem.coloridx ELSE 1

(* updateScene: the faces of the active elements without a hidden corner. *)
Active == {e \in DOMAIN elements3d : elements3d[e].active}
ActiveFaces == [e \in Active |-> ElementFaces(elements3d[e])]
Scene ==
    LET faces  == ActiveFaces
        hidden == IF removehidden THEN Hidden(faces) ELSE {}
        shown  == {s \in Active \X (1..6) :
                   \A c \in 1..4 : faces[s[1]][s[2]][c] \notin hidden}
    IN  {<<faces[s[1]][s[2]],
           [c \in 1..4 |-> ColorIdx(faces[s[1]][s[2]][c], elements3d[s[1]])]>> : s \in shown}

(* update_cb, and getBoundingBox, which does not wait for it. *)
UpdateFEM == /\ updating
             /\ updating' = FALSE /\ faceset' = Scene
             /\ UNCHANGED <<femlists, removehidden>>

(* reset: empty parts, and nothing left to update. *)
ResetFEM == /\ nodes' = << >> /\ nodelookup' = << >>
            /\ elements3d' = << >> /\ elementlookup' = << >> /\ fecolors' = 0
            /\ faceset' = {} /\ updating' = FALSE
            /\ UNCHANGED removehidden

(* addNode, for every node: the application numbers them from the last to  *)
(* the first.                                                               *)
AddNodes ==
    /\ nodes = << >>
    /\ nodelookup' = Filled(nodelookup, [n \in 1..NodeCount |-> NodeCount + 1 - n])
    /\ nodes' = [i \in 1..NodeCount |-> [number |-> NodeCount + 1 - i, coloridx |-> 0]]
    /\ updating' = TRUE
    /\ UNCHANGED <<elements3d, elementlookup, fecolors, removehidden, faceset>>

(* add3DElement, for the next Batch elements: they are added in the order of *)
(* their numbers.                                                           *)
Add3DElements ==
    LET new == Len(elements3d) + 1 .. Len(elements3d) + Batch
    IN  /\ nodes # << >> /\ new \subseteq DOMAIN Hexes
        /\ elementlookup' = Filled(elementlookup, [n \in new |-> n])
        /\ elements3d' = [n \in DOMAIN elements3d \cup new |->
               IF n \in new THEN [nodes |-> Hexes[n], layerindex |-> LayerOf[n],
                                  active |-> TRUE, coloridx |-> 0]
               ELSE elements3d[n]]
        /\ updating' = TRUE
        /\ UNCHANGED <<nodes, nodelookup, fecolors, removehidden, faceset>>

(* add2DElement asks the list of 3D elements for the index and marks the    *)
(* entry of the table as one of a 3D element.                               *)
Add2DElement(number) ==
    /\ Len(elements3d) > 0 /\ number > Len(elementlookup)
    /\ elementlookup' = Filled(elementlookup, number :> Len(elements3d) + 1)
    /\ updating' = TRUE
    /\ UNCHANGED <<nodes, nodelookup, elements3d, fecolors, removehidden, faceset>>

(* An element the application has added; the index of a 2D element may lie  *)
(* past the end of the list, and what is written there is left out.         *)
Known(number) == /\ number \in DOMAIN elementlookup
                 /\ elementlookup[number] \in DOMAIN elements3d

SetColor(what) ==
    /\ fecolors < MaxColors
    /\ \/ /\ what[1] = "node" /\ what[2] \in DOMAIN nodelookup
          /\ nodelookup[what[2]] > 0
          /\ nodes' = [nodes EXCEPT ![nodelookup[what[2]]].coloridx = fecolors + 1]
          /\ UNCHANGED elements3d
       \/ /\ what[1] = "element" /\ Known(what[2])
          /\ elements3d' = [elements3d EXCEPT ![elementlookup[what[2]]].coloridx = fecolors + 1]
          /\ UNCHANGED nodes
    /\ fecolors' = fecolors + 1 /\ updating' = TRUE
    /\ UNCHANGED <<nodelookup, elementlookup, removehidden, faceset>>

(* enableAllElements, enableElements, enableElement and enableLayer. *)
(* Mutant: no update is asked for. *)
Enable_Bug(which, onoroff) ==
    /\ which # {}
    /\ elements3d' = [e \in DOMAIN elements3d |-> IF e \in which
                      THEN [elements3d[e] EXCEPT !.active = onoroff] ELSE elements3d[e]]
    /\ UNCHANGED <<updating, nodes, nodelookup, elementlookup, fecolors, removehidden, faceset>>
Enable(which, onoroff) ==
    /\ which # {}
    /\ elements3d' = [e \in DOMAIN elements3d |-> IF e \in which
                      THEN [elements3d[e] EXCEPT !.active = onoroff] ELSE elements3d[e]]
    /\ updating' = TRUE
    /\ UNCHANGED <<nodes, nodelookup, elementlookup, fecolors, removehidden, faceset>>

Intersects(halfspace, elem) ==
    LET front == {c \in 1..8 : nodes[nodelookup[elem.nodes[c]]].number \in halfspace}
    IN  front # {} /\ front # 1..8

EnableSome == \E onoroff \in BOOLEAN :
    \/ Enable(DOMAIN elements3d, onoroff)
    \/ \E h \in HalfSpaces :
         Enable({e \in DOMAIN elements3d : Intersects(h, elements3d[e])}, onoroff)
    \/ \E number \in Switched :
         Known(number) /\ Enable({elementlookup[number]}, onoroff)
    \/ \E l \in {LayerOf[n] : n \in DOMAIN LayerOf} :
         Enable({e \in DOMAIN elements3d : elements3d[e].layerindex = l}, onoroff)

RemoveHiddenFaces == /\ removehidden' = ~removehidden /\ updating' = TRUE
                     /\ UNCHANGED <<femlists, faceset>>

FEMNext == \/ UpdateFEM \/ ResetFEM \/ AddNodes \/ Add3DElements
           \/ EnableSome \/ RemoveHiddenFaces
           \/ \E q \in Quads : Add2DElement(q)
           \/ \E what \in Painted : SetColor(what)

-----------------------------------------------------------------------------
(* What is shown, once no update is due, is a closed picture of the body:   *)
(* every face that only one active element has is there, in the colours of  *)
(* its nodes and element, and no face of an inactive element is; with the   *)
(* hidden faces kept, every face of every active element is there.          *)
Sides3(elem) == {CornersAt(elem.nodes, f) : f \in 1..6}
Wanted == {elements3d[e] : e \in Active}
NumbersOf(face) == {nodes[face[1][c]].number : c \in 1..4}
SurfaceShown == ~updating =>
    LET shown == {NumbersOf(face) : face \in faceset}
        all   == UNION {Sides3(e) : e \in Wanted}
    IN  /\ shown \subseteq all
        /\ \A e \in Wanted : \A side \in Sides3(e) :
             (~removehidden \/ \A other \in Wanted \ {e} : side \notin Sides3(other))
             => side \in shown
        /\ \A face \in faceset : \E e \in Wanted :
             /\ NumbersOf(face) \in Sides3(e)
             /\ \A c \in 1..4 : face[2][c] = ColorIdx(face[1][c], e)

(* The number of a 3D element leads to that element, whatever was added     *)
(* since, and the number of a 2D element to no 3D element: changing the     *)
(* colour or the visibility of one never changes another.                   *)
OwnEntry == \A n \in DOMAIN elementlookup : Known(n) =>
    n \in DOMAIN Hexes /\ elements3d[elementlookup[n]].nodes = Hexes[n]
=============================================================================
