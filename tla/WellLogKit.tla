----------------------------- MODULE WellLogKit -----------------------------
(***************************************************************************)
(* SmWellLogKit (nodekits/SmWellLogKit.cpp): the curves of a well log drawn *)
(* to the left and right of the well.  A change of a field schedules a     *)
(* one-shot sensor, which makes the geometry anew; drawing turns the       *)
(* curves towards the viewer; a tooltip tells the values that are picked.  *)
(***************************************************************************)
EXTENDS Integers, Sequences, SequencesExt, FiniteSets

CONSTANTS Wells,      \* what an application sets the fields to
          UndefVal,   \* undefVal, and what stands for an undefined coordinate
          ViewAxes    \* the directions that may face the viewer

NoAxis == "none"
(* Curves have a value for each coordinate, and no tops are set without.    *)
WellAssumption ==
  /\ UndefVal \in Int /\ NoAxis \notin ViewAxes
  /\ \A w \in Wells : /\ w.z \in Seq(Int) /\ w.left \in Seq(Int) /\ w.right \in Seq(Int)
                     /\ Len(w.left) >= Len(w.z) /\ Len(w.right) >= Len(w.z)
                     /\ w.tops \in Seq(Int) /\ (w.z = << >> => w.tops = << >>)

VARIABLES wellFields,     \* z: wellCoord; left, right: the curves; tops: topsDepths
          scheduled,  \* oneshot
          poslist, leftoffset, rightoffset, coordIndex, lineSet, topsList,
          prevaxis, axis,   \* axis: the one that coord was made for
          active,     \* isActive of the tooltip, which then grabs the events
          wellDrawn       \* history: what the last step has drawn

geometry == <<poslist, leftoffset, rightoffset, coordIndex, lineSet, topsList>>
wellvars == <<wellFields, scheduled, geometry, prevaxis, axis, active, wellDrawn>>

FrontAxis == CHOOSE a \in ViewAxes : TRUE      \* (1, 0, 0)

(* updateList: positions that are undefined are left out. *)
UpdateList(f) ==
  LET list[i \in 0..Len(f.z)] ==
        IF i = 0 THEN << >>
        ELSE IF f.z[i] # UndefVal
             THEN Append(list[i - 1],
                         [z |-> f.z[i], left |-> f.left[i], right |-> f.right[i], realidx |-> i])
        ELSE list[i - 1]
  IN  list[Len(f.z)]

(* buildGeometry: how far a value is from the well, in units of which its  *)
(* curve's half size has as many as the curve has from least to greatest.  *)
(* For the left curve the greatest value is at least -DBL_MIN, here 0.     *)
Offsets(curve, atleast) ==
  LET defined == {v \in ToSet(curve) : v # UndefVal}
      least == CHOOSE v \in defined : \A w \in defined : v <= w
      greatest == CHOOSE v \in defined \cup atleast : \A w \in defined \cup atleast : w <= v
      diff == IF greatest = least THEN 1 ELSE greatest - least
  IN  [i \in DOMAIN curve |-> IF curve[i] = UndefVal THEN 0 ELSE curve[i] - least + diff]

Curve(p, side) == [i \in DOMAIN p |-> p[i][side]]
Joined(c) == {i \in 1..(Len(c) - 1) : c[i] # UndefVal /\ c[i + 1] # UndefVal}

(* Mutant: a face only asks for the value at its upper end. *)
Face_Bug(p, i, side) ==
  LET n == Len(p)  c == Curve(p, side) IN
  IF c[i] = UndefVal THEN << >>
  ELSE IF side = "left" THEN <<<<i, n + i, n + i + 1, i + 1>>>>
       ELSE <<<<i, i + 1, 2 * n + i + 1, 2 * n + i>>>>

(* A face joins two positions to their values; points 1..n are on the      *)
(* well, the next n are those of the left curve, then those of the right.  *)
Face(p, i, side) ==
  LET n == Len(p)  c == Curve(p, side) IN
  IF c[i] = UndefVal \/ c[i + 1] = UndefVal THEN << >>
  ELSE IF side = "left" THEN <<<<i, n + i, n + i + 1, i + 1>>>>
       ELSE <<<<i, i + 1, 2 * n + i + 1, 2 * n + i>>>>

CurveFaces(p) ==
  LET faces[i \in 0..Len(p)] ==
        IF i = 0 THEN << >>
        ELSE IF i = Len(p) THEN faces[i - 1]
        ELSE faces[i - 1] \o Face(p, i, "left") \o Face(p, i, "right")
  IN  faces[Len(p)]

(* The index of the line set: how much room it is given, how much is used. *)
LineSet(p) ==
  LET used(side) == LET c == Curve(p, side) IN
        IF Cardinality(Joined(c)) <= 1 THEN 0
        ELSE Cardinality({i \in 1..(Len(c) - 1) : c[i] # UndefVal}) + 1
      l == Cardinality(Joined(Curve(p, "left")))  r == Cardinality(Joined(Curve(p, "right")))
  IN  [room |-> IF l > 1 /\ r > 1 THEN l + r + 2
                ELSE (IF l > 1 THEN l ELSE 0) + (IF r > 1 THEN r ELSE 0) + 1,
       used |-> used("left") + used("right")]

(* buildTopsSceneGraph: a top is at the first coordinate as deep as itself, *)
(* or at the last one.                                                      *)
TopsList(f) ==
  [k \in DOMAIN f.tops |->
     LET at == SelectInSeq(f.z, LAMBDA z : z <= -f.tops[k]) IN IF at = 0 THEN Len(f.z) ELSE at]
-----------------------------------------------------------------------------
WellInit ==
  /\ wellFields = [z |-> << >>, left |-> << >>, right |-> << >>, tops |-> << >>]
  /\ scheduled = FALSE /\ poslist = << >> /\ leftoffset = << >> /\ rightoffset = << >>
  /\ coordIndex = << >> /\ lineSet = [room |-> 0, used |-> 0] /\ topsList = << >>
  /\ prevaxis = NoAxis /\ axis = FrontAxis /\ active = FALSE /\ wellDrawn = << >>

(* A field changes, and notify. *)
SetFields(w) ==
  /\ wellFields' = w /\ scheduled' = TRUE /\ wellDrawn' = << >>
  /\ UNCHANGED <<geometry, prevaxis, axis, active>>

(* Mutant: the axis that was last seen is kept. *)
WellOneshotCB_Bug ==
  /\ scheduled /\ scheduled' = FALSE
  /\ poslist' = UpdateList(wellFields)
  /\ leftoffset' = Offsets(Curve(poslist', "left"), {0})
  /\ rightoffset' = Offsets(Curve(poslist', "right"), {})
  /\ coordIndex' = CurveFaces(poslist') /\ lineSet' = LineSet(poslist')
  /\ topsList' = TopsList(wellFields)
  /\ axis' = FrontAxis /\ wellDrawn' = << >>
  /\ UNCHANGED <<wellFields, prevaxis, active>>

(* oneshot_cb: updateList, buildGeometry, buildTopsSceneGraph, generateFaces *)
WellOneshotCB ==
  /\ scheduled /\ scheduled' = FALSE
  /\ poslist' = UpdateList(wellFields)
  /\ leftoffset' = Offsets(Curve(poslist', "left"), {0})
  /\ rightoffset' = Offsets(Curve(poslist', "right"), {})
  /\ coordIndex' = CurveFaces(poslist') /\ lineSet' = LineSet(poslist')
  /\ topsList' = TopsList(wellFields)
  /\ axis' = FrontAxis /\ prevaxis' = NoAxis /\ wellDrawn' = << >>
  /\ UNCHANGED <<wellFields, active>>

(* GLRender and callback_cb: the faces are turned when the axis is another *)
(* than at the last drawing; while a change is pending nothing is drawn.   *)
RenderWell(a) ==
  /\ IF scheduled
     THEN wellDrawn' = << >> /\ UNCHANGED <<axis, prevaxis>>
     ELSE /\ prevaxis' = a
          /\ axis' = IF a # prevaxis THEN a ELSE axis
          /\ wellDrawn' = <<[faces |-> coordIndex, axis |-> axis', viewer |-> a]>>
  /\ UNCHANGED <<wellFields, scheduled, geometry, active>>

(* handleEvent: a press on the well, or a movement over it while the        *)
(* tooltip shows; findPickIdx and setTooltipInfo find no position in an     *)
(* empty list.  Events are left alone while a change is pending.            *)
PickEvent ==
  /\ ~scheduled /\ poslist # << >> /\ active' = TRUE /\ wellDrawn' = << >>
  /\ UNCHANGED <<wellFields, scheduled, geometry, prevaxis, axis>>

ReleaseEvent ==
  /\ active' = (active /\ scheduled) /\ wellDrawn' = << >>
  /\ UNCHANGED <<wellFields, scheduled, geometry, prevaxis, axis>>

WellNext ==
  \/ \E w \in Wells : SetFields(w)
  \/ WellOneshotCB \/ \E a \in ViewAxes : RenderWell(a) \/ PickEvent \/ ReleaseEvent
-----------------------------------------------------------------------------
(* Whatever is drawn shows the fields as they are, turned to the viewer:   *)
(* no change that comes between the sensor and a drawing is lost, and new  *)
(* geometry is turned again although the viewer has not moved.             *)
DrawnFresh ==
  \A k \in DOMAIN wellDrawn :
    /\ wellDrawn[k].faces = CurveFaces(UpdateList(wellFields))
    /\ wellDrawn[k].axis = wellDrawn[k].viewer

(* The faces of a curve stand where it is defined at both ends, and are no  *)
(* wider than the size of the curve; the line set has room for its index    *)
(* if no value inside is undefined; tops are on the well.                   *)
FacesRight ==
  LET n == Len(poslist)
      defined(k) == IF k <= n THEN TRUE
                    ELSE IF k <= 2 * n THEN poslist[k - n].left # UndefVal
                    ELSE poslist[k - 2 * n].right # UndefVal
      gapless == \A i \in DOMAIN poslist :
                   poslist[i].left # UndefVal /\ poslist[i].right # UndefVal
      width(offsets) == \A i, j \in DOMAIN offsets : offsets[i] # 0 /\ offsets[j] # 0 =>
                          offsets[i] <= 2 * offsets[j]
  IN  /\ \A f \in ToSet(coordIndex) : \A k \in ToSet(f) : k \in 1..(3 * n) /\ defined(k)
      /\ Len(coordIndex) = Cardinality(Joined(Curve(poslist, "left")))
                           + Cardinality(Joined(Curve(poslist, "right")))
      /\ width(leftoffset) /\ width(rightoffset)
      /\ gapless => lineSet.used <= lineSet.room
      /\ \A k \in ToSet(topsList) : k \in DOMAIN wellFields.z \/ scheduled
=============================================================================
