------------------------------ MODULE Displays ------------------------------
(* Node kits that show values of their fields: slices of a pie, axes, the    *)
(* annotations along an axis, and objects in a hierarchy.                    *)
EXTENDS Integers, Sequences, FiniteSets, SequencesExt
-----------------------------------------------------------------------------
(* SmPieChart: a slice for each value, between points of a circle and the    *)
(* borders of the values among them.  Field sensors make the geometry anew;  *)
(* retraction has none.                                                      *)

CONSTANTS Values, Numbers,    \* values of values, lengths of colors
          Circle              \* numdefaultpoints - 1

VARIABLES valueType, values, colors,
          sensors,            \* fields whose sensors are scheduled
          slices              \* of the scene: [color, from, to]

pievars == <<valueType, values, colors, sensors, slices>>

PieInit == /\ valueType = "ITEM_SIZE" /\ values = << >> /\ colors = 0
           /\ sensors = {} /\ slices = << >>

PieAssumption == Circle \in Nat \ {0} /\ Values \subseteq Seq(Int)

Accumulated(s) == LET accum[i \in 0..Len(s)] == IF i = 0 THEN 0 ELSE accum[i - 1] + s[i]
                  IN  accum
Increasing == \A i \in DOMAIN values : values[i] >= (IF i = 1 THEN 0 ELSE values[i - 1])
Sumvalues == IF valueType = "ITEM_SIZE" THEN Accumulated(values)[Len(values)]
             ELSE values[Len(values)]
(* Borders and points of the circle are fractions of it; they are compared  *)
(* as multiples of 1 / (Circle * Sumvalues).                                *)
(* Mutant: the borders are not added up. *)
Border_Bug(i) == Circle * values[i]
Border(i) == Circle * (IF valueType = "ITEM_SIZE" THEN Accumulated(values)[i]
                       ELSE values[i])
Raw == [i \in 1..(Circle + 1) |-> [point |-> (i - 1) * Sumvalues, index |-> -1]]
         \o [i \in 1..(Len(values) - 1) |-> [point |-> Border(i), index |-> i]]
(* The bubble sort keeps the order of equal points.                         *)
Sorted ==
    LET raw == Raw
        Comes(j, i) == \/ raw[j].point < raw[i].point
                       \/ raw[j].point = raw[i].point /\ j < i
        Before(i) == {j \in DOMAIN raw : Comes(j, i)}
        place == [i \in DOMAIN raw |-> Cardinality(Before(i)) + 1]
    IN  [k \in DOMAIN raw |-> raw[CHOOSE i \in DOMAIN raw : place[i] = k]]
(* A point of the circle belongs to the item of the border before it.       *)
IndexAt(s, k) == LET borders == {j \in 1..k : s[j].index # -1}
                 IN  IF borders = {} THEN 0
                     ELSE s[CHOOSE j \in borders : \A l \in borders : l <= j].index
Indexed == LET s == Sorted
           IN  [k \in DOMAIN s |-> [point |-> s[k].point, index |-> IndexAt(s, k)]]
(* Of equal neighbours the first goes; the one that takes its place is not  *)
(* compared with the next.                                                  *)
Collapsed(s) ==
    LET left[i \in 0..Len(s)] ==
          IF i = 0 THEN s
          ELSE LET t == left[i - 1]
               IN  IF i < Len(t) /\ t[i].point = t[i + 1].point THEN RemoveAt(t, i) ELSE t
    IN  left[Len(s)]
PiePoints == Collapsed(Indexed)

(* A slice opens where the index changes, and closes at the next point, or  *)
(* at the first one after the last.  Slices take the colors in order.       *)
Opens(p) == {i \in DOMAIN p : i = 1 \/ p[i].index # p[i - 1].index}
Slices ==
    LET p == PiePoints
        Nth(k) == CHOOSE i \in Opens(p) : Cardinality({j \in Opens(p) : j < i}) = k - 1
    IN  [k \in 1..Cardinality(Opens(p)) |->
           [color |-> k, from |-> p[Nth(k)].point,
            to |-> IF k = Cardinality(Opens(p)) THEN p[Len(p)].point ELSE p[Nth(k + 1)].point]]
GenerateGeometry ==
    slices' = IF colors # Len(values) \/ values = << >>
                 \/ (valueType = "ITEM_BORDER" /\ ~Increasing)
              THEN << >> ELSE Slices

(* The one-shot sensor is triggered by the sensor of a field at once.       *)
Update(f) == /\ f \in sensors /\ sensors' = sensors \ {f} /\ GenerateGeometry
             /\ UNCHANGED <<valueType, values, colors>>
SetValueType(t) == /\ valueType' = t /\ sensors' = sensors \cup {"valueType"}
                   /\ UNCHANGED <<values, colors, slices>>
SetValues(v) == /\ values' = v /\ sensors' = sensors \cup {"values"}
                /\ UNCHANGED <<valueType, colors, slices>>
SetColors(c) == /\ colors' = c /\ sensors' = sensors \cup {"colors"}
                /\ UNCHANGED <<valueType, values, slices>>

PieNext == \/ \E f \in sensors : Update(f)
           \/ \E t \in {"ITEM_SIZE", "ITEM_BORDER"} : SetValueType(t)
           \/ \E v \in Values : SetValues(v)
           \/ \E c \in Numbers : SetColors(c)
-----------------------------------------------------------------------------
(* With a color for each value, and no value or step of nothing, each item  *)
(* has its slice in its color: from the border before it to its own.        *)
Steps == [i \in DOMAIN values |-> IF valueType = "ITEM_SIZE" \/ i = 1 THEN values[i]
                                  ELSE values[i] - values[i - 1]]
SlicesRight ==
    sensors = {} /\ colors = Len(values) /\ (\A i \in DOMAIN values : Steps[i] > 0) =>
        /\ Len(slices) = Len(values)
        /\ \A i \in DOMAIN slices :
              slices[i] = [color |-> i, from |-> Circle * Accumulated(Steps)[i - 1],
                           to |-> Circle * Accumulated(Steps)[i]]
-----------------------------------------------------------------------------
(* SmAxisDisplayKit: a small picture of axes, made anew by a one-shot sensor *)
(* and drawn after the rest of the scene.  A null axis is 0.                 *)

CONSTANTS AxesValues, ColorValues, ArrowValues, TextValues, None

DisplayAssumption == AxesValues \subseteq Seq(Int)

VARIABLES axes, displayColors, enableArrows, annotations, drawAsLines, headlight, displayOrientation,
          oneshot,         \* it is scheduled
          axessep,         \* the separators made last, one for each axis
          camera,          \* [connected, from]: from is where it looks from
          delayedpaths,    \* of the frame being drawn
          frame            \* history: what that frame drew of the kit

displayvars == <<axes, displayColors, enableArrows, annotations, drawAsLines, headlight, displayOrientation,
                 oneshot, axessep, camera, delayedpaths, frame>>
displayfields == <<axes, displayColors, enableArrows, annotations, drawAsLines, headlight, displayOrientation>>

DisplayInit ==
    /\ axes = << >> /\ displayColors = <<"white">> /\ enableArrows = <<TRUE>>
    /\ annotations = << >> /\ drawAsLines = FALSE /\ headlight = TRUE /\ displayOrientation = 0
    /\ oneshot = FALSE /\ axessep = << >>
    /\ camera = [connected |-> FALSE, from |-> None]
    /\ delayedpaths = 0 /\ frame = None

(* notify: any field of the kit, but not its parts.                         *)
Notify == oneshot' = TRUE /\ UNCHANGED <<axessep, camera, delayedpaths, frame>>
SetAxes(a) == /\ axes' = a /\ Notify
              /\ UNCHANGED <<displayColors, enableArrows, annotations, drawAsLines, headlight, displayOrientation>>
SetLooks(c, e, t) == /\ displayColors' = c /\ enableArrows' = e /\ annotations' = t /\ Notify
                     /\ UNCHANGED <<axes, drawAsLines, headlight, displayOrientation>>
SetFlags(d, h, o) == /\ drawAsLines' = d /\ headlight' = h /\ displayOrientation' = o /\ Notify
                     /\ UNCHANGED <<axes, displayColors, enableArrows, annotations>>

(* oneshot_cb: too few colors or arrows end in their last one, too few      *)
(* annotations in none.                                                     *)
OrLast(s, i) == IF i <= Len(s) THEN s[i] ELSE s[Len(s)]
AxisSep(i) == [axis |-> axes[i], color |-> OrLast(displayColors, i), lines |-> drawAsLines,
               arrow |-> OrLast(enableArrows, i),
               text |-> IF i <= Len(annotations) THEN annotations[i] ELSE ""]
(* Mutant: an axis that is skipped ends the axes. *)
Shown_Bug == {i \in DOMAIN axes : \A j \in 1..i : axes[j] # 0}
Shown == {i \in DOMAIN axes : axes[i] # 0}
AxisSeps ==
    LET seps[i \in 0..Len(axes)] == IF i = 0 THEN << >>
                                    ELSE IF i \in Shown THEN Append(seps[i - 1], AxisSep(i))
                                    ELSE seps[i - 1]
    IN  seps[Len(axes)]
OneshotCB ==
    /\ oneshot /\ oneshot' = FALSE
    /\ axessep' = AxisSeps
    /\ camera' = [camera EXCEPT !.connected = TRUE]
    /\ UNCHANGED <<displayfields, delayedpaths, frame>>

(* GLRender: in the main pass the kit only asks to be drawn later.  Then    *)
(* the camera's callback comes before its camera.                           *)
GLRender == /\ delayedpaths < 1 /\ delayedpaths' = delayedpaths + 1 /\ frame' = None
            /\ UNCHANGED <<displayfields, oneshot, axessep, camera>>
Looks == IF camera.connected THEN displayOrientation ELSE 0
DelayedGLRender ==
    /\ delayedpaths > 0 /\ delayedpaths' = delayedpaths - 1
    /\ camera' = [camera EXCEPT !.from = displayOrientation]
    /\ frame' = [lit |-> headlight, from |-> displayOrientation, looks |-> Looks]
    /\ UNCHANGED <<displayfields, oneshot, axessep>>

DisplayNext == \/ \E a \in AxesValues : SetAxes(a)
               \/ \E c \in ColorValues, e \in ArrowValues, t \in TextValues : SetLooks(c, e, t)
               \/ \E d, h \in BOOLEAN, o \in {0, 1} : SetFlags(d, h, o)
               \/ OneshotCB \/ GLRender \/ DelayedGLRender
-----------------------------------------------------------------------------
(* With no update waiting, every axis but the null vectors is there, in     *)
(* order and with what the fields give its own number.                      *)
AxesFollow ==
    ~oneshot =>
        /\ Len(axessep) = Cardinality(Shown)
        /\ \A i \in Shown :
              LET s == axessep[Cardinality({j \in Shown : j <= i})]
              IN  /\ s.axis = axes[i] /\ s.lines = drawAsLines
                  /\ i <= Len(displayColors) => s.color = displayColors[i]
                  /\ i <= Len(enableArrows) => s.arrow = enableArrows[i]

(* A picture drawn with no update waiting is seen from where it is looked   *)
(* at, also when the orientation was just turned.                           *)
SeenFromItsPlace ==
    [][frame' # frame /\ frame' # None /\ ~oneshot => frame'.from = frame'.looks]_displayvars
-----------------------------------------------------------------------------
(* SmAnnotationAxis: texts along a line, as many as there is room for, which *)
(* change at most every half second, and the line itself.  Positions lie on  *)
(* an axis; a place is seen in front of Horizon.  Time is in half seconds.   *)

CONSTANTS Axes,        \* values of annotationPos
          Views,       \* [eye, zoom]
          Gap, Horizon, Ticks

AnnotationAssumption ==
    /\ Axes \subseteq Seq(Int) /\ Ticks \subseteq Int /\ Gap \in Int /\ Horizon \in Int
    /\ Views # {} /\ Views \subseteq [eye : Int, zoom : Int]
    /\ None \notin Int /\ None \notin [vertex : Seq(Int), numVertices : Seq(Int)]

VARIABLES annotationPos, renderAxis, axisTickSize, view,
          text, axisidx, lines,  \* made from them: texts are <<position, index>>
          age,                   \* time since lastchanged, up to 1
          alarm,                 \* half seconds left, or None
          regen,                 \* regen_sensor is scheduled
          touched,               \* a redraw is due
          collecting             \* the last rendering was below a collector

axisfields == <<annotationPos, renderAxis, axisTickSize, view>>
annotationvars == <<axisfields, text, axisidx, lines, age, alarm, regen, touched, collecting>>

AxisInit == /\ annotationPos = << >> /\ renderAxis = FALSE /\ axisTickSize = 0
            /\ view = CHOOSE v \in Views : TRUE
            /\ text = << >> /\ axisidx = << >> /\ lines = None
            /\ age = 1 /\ alarm = None /\ regen = FALSE
            /\ touched = TRUE /\ collecting = FALSE

(* add_anno_text: the ends, then the middle of ever shorter pieces.         *)
Seen(i) == annotationPos[i] < Horizon + view.eye
Apart(i, j) == LET d == (annotationPos[i] - annotationPos[j]) * view.zoom
               IN  (IF d < 0 THEN -d ELSE d) > Gap
Corners(i, j) == CASE Seen(i) /\ Seen(j) -> IF Apart(i, j) THEN <<i, j>> ELSE << >>
                   [] Seen(i) /\ ~Seen(j) -> <<i>>
                   [] ~Seen(i) /\ Seen(j) -> <<j>>
                   [] OTHER -> << >>
Middle(i, m, j) == IF /\ Seen(m)
                      /\ \/ Seen(i) /\ Apart(m, i)
                         \/ ~Seen(i) /\ Seen(j) /\ Apart(m, j)
                   THEN <<m>> ELSE << >>
Half(i, j) == (i + j - 2) \div 2 + 1     \* annotationPos counts from 0 in the code
Between(i, j) ==    \* no piece can be halved as often as it has positions
    LET texts[n \in 0..Len(annotationPos)] ==
          [a \in DOMAIN annotationPos |-> [b \in DOMAIN annotationPos |->
             IF n = 0 \/ Half(a, b) \in {a, b} THEN << >>
             ELSE Middle(a, Half(a, b), b) \o texts[n - 1][a][Half(a, b)]
                                           \o texts[n - 1][Half(a, b)][b]]]
    IN  texts[Len(annotationPos)][i][j]
AddAnnoText == LET n == Len(annotationPos)
               IN  IF n < 2 THEN << >> ELSE Corners(1, n) \o Between(1, n)

(* GLRender, below a collector: the collector draws the texts, the own ones *)
(* are emptied if there are any.                                            *)
RenderCollecting ==
    /\ text' = IF AddAnnoText # << >> THEN << >> ELSE text
    /\ touched' = FALSE /\ collecting' = TRUE
    /\ UNCHANGED <<axisfields, axisidx, lines, age, alarm, regen>>

(* GLRender otherwise.                                                      *)
(* Mutant: a change within half a second is dropped. *)
PutOff_Bug == UNCHANGED alarm
PutOff == alarm' = IF alarm = None THEN 2 ELSE alarm
Render ==
    LET l1 == AddAnnoText
    IN  /\ touched' = FALSE /\ collecting' = FALSE
        /\ \/ l1 = axisidx /\ UNCHANGED <<text, axisidx, age, alarm>>
           \/ l1 # axisidx /\ age < 1 /\ PutOff /\ UNCHANGED <<text, axisidx, age>>
           \/ /\ l1 # axisidx /\ age = 1
              /\ text' = [k \in DOMAIN l1 |-> <<annotationPos[l1[k]], l1[k]>>]
              /\ axisidx' = l1 /\ age' = 0 /\ UNCHANGED alarm
        /\ UNCHANGED <<axisfields, lines, regen>>

(* alarmCB touches the kit.                                                 *)
AlarmCB == /\ alarm = 0 /\ alarm' = None /\ touched' = TRUE
           /\ UNCHANGED <<axisfields, text, axisidx, lines, age, regen, collecting>>
Pass == /\ alarm # 0 /\ (age < 1 \/ alarm # None)
        /\ age' = 1 /\ alarm' = IF alarm = None THEN None ELSE alarm - 1
        /\ UNCHANGED <<axisfields, text, axisidx, lines, regen, touched, collecting>>

(* notify                                                                   *)
AnnotationNotify == regen' = TRUE /\ touched' = TRUE
          /\ UNCHANGED <<view, text, axisidx, lines, age, alarm, collecting>>
SetPos(p) == annotationPos' = p /\ AnnotationNotify /\ UNCHANGED <<renderAxis, axisTickSize>>
SetRenderAxis(b) == renderAxis' = b /\ AnnotationNotify /\ UNCHANGED <<annotationPos, axisTickSize>>
SetTickSize(s) == axisTickSize' = s /\ AnnotationNotify /\ UNCHANGED <<annotationPos, renderAxis>>
MoveCamera(v) == /\ view' = v /\ touched' = TRUE
                 /\ UNCHANGED <<annotationPos, renderAxis, axisTickSize, text, axisidx, lines,
                                age, alarm, regen, collecting>>

(* regen_geometry                                                           *)
Lines == LET n == Len(annotationPos)
         IN  [vertex |-> [i \in 1..(IF axisTickSize = 0 THEN n ELSE 3 * n) |->
                IF i <= n THEN annotationPos[i]
                ELSE annotationPos[(i - n - 1) \div 2 + 1]
                       + (IF (i - n) % 2 = 0 THEN axisTickSize ELSE 0)],
              numVertices |-> <<n>> \o [i \in 1..(IF axisTickSize = 0 THEN 0 ELSE n) |-> 2]]
RegenGeometry == /\ regen /\ regen' = FALSE
                 /\ lines' = IF renderAxis THEN Lines ELSE lines
                 /\ UNCHANGED <<axisfields, text, axisidx, age, alarm, touched, collecting>>

AxisNext == \/ RenderCollecting \/ Render \/ AlarmCB \/ Pass \/ RegenGeometry
            \/ \E p \in Axes : SetPos(p)
            \/ \E b \in BOOLEAN : SetRenderAxis(b)
            \/ \E s \in Ticks : SetTickSize(s)
            \/ \E v \in Views : MoveCamera(v)
-----------------------------------------------------------------------------
(* A change of what there is room for is not lost because it came too early *)
(* after another: texts are as they should be, or a redraw or an alarm is   *)
(* still to come.  Below a collector the texts are not the kit's own.       *)
ChangeNotLost == touched \/ alarm # None \/ collecting \/ axisidx = AddAnnoText

(* No text is drawn twice, and the line drawn is that of the fields, with a *)
(* tick at each position of them.                                           *)
EachOnce == \A k, l \in DOMAIN axisidx : axisidx[k] = axisidx[l] => k = l
LineFollows ==
    renderAxis /\ ~regen =>
        /\ lines # None
        /\ lines.numVertices[1] = Len(annotationPos)
        /\ \A i \in DOMAIN annotationPos :
              /\ lines.vertex[i] = annotationPos[i]
              /\ axisTickSize # 0 =>
                    LET tick == Len(annotationPos) + 2 * i
                    IN  lines.vertex[tick] - lines.vertex[tick - 1] = axisTickSize
AxisShown == ChangeNotLost /\ EachOnce /\ LineFollows
-----------------------------------------------------------------------------
(* SmDynamicObjectKit (nodekits/SmDynamicObjectKit.cpp): a hierarchy of    *)
(* objects that the application moves.  Objects are found by an id that    *)
(* need not be unique, and an object has either a position on the map      *)
(* (utmPosition) or one relative to its parent (relativePosition).         *)
(* Elevations are left out; fields change of the objects in Edited alone.  *)

CONSTANTS Objects, Root, ObjectId, Ids, Spots, Edited

VARIABLES childList, hasRelativePosition, dynamicPosition, visible,
          parts,      \* of each object: the position parts it has, with values
          drawn       \* history: the objects drawn since the last change
dynamicvars == <<childList, hasRelativePosition, dynamicPosition, visible, parts, drawn>>

DynInit ==
    /\ childList = [o \in Objects |-> << >>]
    /\ hasRelativePosition = [o \in Objects |-> FALSE]
    /\ dynamicPosition = [o \in Objects |-> CHOOSE p \in Spots : TRUE]
    /\ visible = [o \in Objects |-> TRUE]
    /\ parts = [o \in Objects |-> [kind \in {} |-> 0]] /\ drawn = {}

ChildrenOf(o) == ToSet(childList[o])

(* getObjectByObjectId: depth first, an object before its children; the    *)
(* objects below an object in that order, of which no way down has more    *)
(* than there are.                                                         *)
Below(o) ==
    LET list[n \in Nat] == [p \in Objects |->
          IF n = 0 THEN <<p>>
          ELSE <<p>> \o FlattenSeq([i \in DOMAIN childList[p] |-> list[n - 1][childList[p][i]]])]
    IN  list[Cardinality(Objects)][o]
WithId(list, id) == SelectSeq(list, LAMBDA o : ObjectId[o] = id)
ObjectById(id) == LET found == WithId(Below(Root), id)
                  IN  IF found = << >> THEN {} ELSE {found[1]}

(* addObject, which the application calls for an object that has no parent *)
(* yet.  The position is relative to any parent but the root.        *)
(* Mutant: added to every parent of that id. *)
AddObject_Bug(o, parentId) ==
    LET to == ToSet(WithId(Below(Root), parentId))
    IN  /\ \A p \in Objects : o \notin ChildrenOf(p)
        /\ childList' = [p \in Objects |-> IF p \in to THEN Append(childList[p], o)
                                           ELSE childList[p]]
        /\ hasRelativePosition' = [hasRelativePosition EXCEPT ![o] = @ \/ (to \notin {{}, {Root}})]
        /\ drawn' = {} /\ UNCHANGED <<dynamicPosition, visible, parts>>
AddObject(o, parentId) ==
    LET to == ObjectById(parentId)
    IN  /\ \A p \in Objects : o \notin ChildrenOf(p)
        /\ childList' = [p \in Objects |-> IF p \in to THEN Append(childList[p], o)
                                           ELSE childList[p]]
        /\ hasRelativePosition' = [hasRelativePosition EXCEPT ![o] = @ \/ (to \notin {{}, {Root}})]
        /\ drawn' = {} /\ UNCHANGED <<dynamicPosition, visible, parts>>

(* removeObject: the first one below the root.                             *)
RemoveObject(id) ==
    LET found == WithId(Tail(Below(Root)), id)
    IN  /\ childList' = IF found = << >> THEN childList
                        ELSE [p \in Objects |-> RemoveFirst(childList[p], found[1])]
        /\ drawn' = {}
        /\ UNCHANGED <<hasRelativePosition, dynamicPosition, visible, parts>>

SetPosition(o, p) == /\ dynamicPosition' = [dynamicPosition EXCEPT ![o] = p] /\ drawn' = {}
                     /\ UNCHANGED <<childList, hasRelativePosition, visible, parts>>
SetRelative(o, onoff) ==
    /\ hasRelativePosition' = [hasRelativePosition EXCEPT ![o] = onoff] /\ drawn' = {}
    /\ UNCHANGED <<childList, dynamicPosition, visible, parts>>
SetGeometryVisibility(o) == /\ visible' = [visible EXCEPT ![o] = ~@] /\ drawn' = {}
                            /\ UNCHANGED <<childList, hasRelativePosition, dynamicPosition, parts>>

(* reset names utmposition and position, which are no parts: what is left  *)
(* is to drop the children.                                                *)
Reset(o) == /\ childList' = [childList EXCEPT ![o] = << >>]
            /\ visible' = [visible EXCEPT ![o] = TRUE] /\ drawn' = {}
            /\ UNCHANGED <<hasRelativePosition, dynamicPosition, parts>>

(* updateScene: the part of the other kind is removed.                     *)
(* Mutant: it stays. *)
UpdateScene_Bug(o) ==
    [kind \in DOMAIN parts[o] \cup {IF hasRelativePosition[o] THEN "relative" ELSE "utm"}
        |-> dynamicPosition[o]]
UpdateScene(o) == IF hasRelativePosition[o] THEN [kind \in {"relative"} |-> dynamicPosition[o]]
                  ELSE [kind \in {"utm"} |-> dynamicPosition[o]]

(* GLRender of the root: an object that is hidden hides those below it.    *)
DrawnBelow(o) == {p \in Objects : \A S \in SUBSET Objects :
    o \in S /\ (\A q \in S : visible[q] => ChildrenOf(q) \subseteq S) => p \in S}
ObjectGLRender ==
    /\ drawn' = DrawnBelow(Root)
    /\ parts' = [o \in Objects |-> IF o \in drawn' THEN UpdateScene(o) ELSE parts[o]]
    /\ UNCHANGED <<childList, hasRelativePosition, dynamicPosition, visible>>

DynNext ==
    \/ \E o \in Objects \ {Root}, id \in Ids : AddObject(o, id)
    \/ \E id \in Ids \ {ObjectId[Root]} : RemoveObject(id)
    \/ \E o \in Edited : \/ \E p \in Spots : SetPosition(o, p)
                          \/ \E onoff \in BOOLEAN : SetRelative(o, onoff)
                          \/ SetGeometryVisibility(o) \/ Reset(o)
    \/ ObjectGLRender
-----------------------------------------------------------------------------
(* What is drawn has one position, the one in the fields and of the kind    *)
(* the fields ask for, after any changes between two drawings; and what is  *)
(* in the hierarchy is there once, whatever ids are shared: no object has   *)
(* two places, and the root none.                                           *)
OnePlace ==
    /\ \A o \in drawn :
         /\ DOMAIN parts[o] = {IF hasRelativePosition[o] THEN "relative" ELSE "utm"}
         /\ \A kind \in DOMAIN parts[o] : parts[o][kind] = dynamicPosition[o]
    /\ \A p, q \in Objects : \A i \in DOMAIN childList[p], j \in DOMAIN childList[q] :
         /\ childList[p][i] # Root
         /\ childList[p][i] = childList[q][j] => p = q /\ i = j
=============================================================================
