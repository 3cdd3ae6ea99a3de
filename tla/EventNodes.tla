----------------------------- MODULE EventNodes -----------------------------
(* Nodes that answer events: callbacks for picks, keys that enable children, the*)
(* buttons of the mouse that pan a camera, draggers with a field that they follow*)
(* and that follows them, a camera path edited by mouse, and a track that grows.*)
EXTENDS Integers, Sequences, SequencesExt
-----------------------------------------------------------------------------
(* PickCallback: callbacks for picks of what is below the node, at once or   *)
(* through a one-shot sensor for each pick.  The nodes lie below each other, *)
(* and a shape below all of them.                                            *)

CONSTANTS PickNodes,      \* 1..n, from the outermost inwards
          PickPositions,      \* where an event can be: what it picks tells it, too
          Misses,         \* the positions where the shape is not
          MaxPending

VARIABLES fields,         \* of each node, its fields
          last,           \* of each node, the members for the last event
          pickedpoint,    \* of each node, the point of an immediate pick, or 0
          objectSpacePickedPoint,
          pending,        \* the sensors, in the order they were scheduled in
          told            \* history: the last callback's pick, what it was told
                          \* of it, and whether it came too early

pickvars == <<fields, last, pickedpoint, objectSpacePickedPoint, pending, told>>

NoPick == [pos |-> 0, press |-> TRUE, button |-> 0]
PickInit ==
    /\ fields = [n \in PickNodes |-> [pickable |-> FALSE, onMousePress |-> TRUE,
            onMouseRelease |-> FALSE, onButton2 |-> FALSE, delayTrigger |-> TRUE]]
    /\ last = [n \in PickNodes |-> NoPick]
    /\ pickedpoint = [n \in PickNodes |-> 0]
    /\ objectSpacePickedPoint = [n \in PickNodes |-> 0]
    /\ pending = << >>
    /\ told = [own |-> NoPick, answer |-> NoPick, early |-> FALSE]

SetField(n, f, v) ==
    /\ fields' = [fields EXCEPT ![n][f] = v]
    /\ UNCHANGED <<last, pickedpoint, objectSpacePickedPoint, pending, told>>

(* getCurrentPickedPoint, currentIsMouseDown, isButton1 and isButton2, asked *)
(* from a callback with this data as current.                                *)
Answer(current, pos, members) ==
    IF current # NoPick THEN current
    ELSE [pos |-> pos, press |-> members.press, button |-> members.button]

(* handleEvent                                                              *)
Wants(n, e) == /\ fields[n].pickable
               /\ IF e.press THEN fields[n].onMousePress ELSE fields[n].onMouseRelease
               /\ e.button = 2 => fields[n].onButton2
(* Those that come to see the event: the first that takes the pick does not *)
(* pass it on.  Its call of isHandled() leaves the event unhandled.         *)
Takes(e) == IF e.pos \in Misses THEN {} ELSE {n \in PickNodes : Wants(n, e)}
Sees(e) == {n \in PickNodes : \A k \in Takes(e) : n <= k}
(* buttonnum is set before the pick is tested, the rest after.              *)
Members(n, e) == IF n \in Takes(e) \cap Sees(e) THEN e
                 ELSE IF n \in Sees(e) /\ Wants(n, e) THEN [last[n] EXCEPT !.button = e.button]
                 ELSE last[n]
PickHandleEvent(e) ==
    LET taken == Takes(e) \cap Sees(e)
    IN  /\ last' = [n \in PickNodes |-> Members(n, e)]
        /\ objectSpacePickedPoint' =
               [n \in PickNodes |-> IF n \in taken THEN e.pos ELSE objectSpacePickedPoint[n]]
        /\ \A n \in taken : fields[n].delayTrigger => Len(pending) < MaxPending
        /\ \/ /\ \A n \in taken : fields[n].delayTrigger
              /\ pending' = IF taken = {} THEN pending
                            ELSE Append(pending, [node |-> CHOOSE n \in taken : TRUE, data |-> e])
              /\ UNCHANGED told
           \/ \E n \in taken :
              /\ ~fields[n].delayTrigger
              /\ told' = [own |-> e, answer |-> Answer(NoPick, e.pos, last'[n]), early |-> FALSE]
              /\ UNCHANGED pending
        /\ UNCHANGED <<fields, pickedpoint>>    \* deleted after the callbacks

(* The sensor manager runs the sensors of the lowest priority first, those  *)
(* of one priority in no order that is promised.                            *)
(* Mutant: the sensors all have the same priority. *)
Priority_Bug(s) == 1
Priority(s) == IF s.data.press THEN 1 ELSE 2
SensorCB ==
    \E i \in DOMAIN pending :
    LET s == pending[i]
    IN  /\ \A j \in DOMAIN pending : Priority(s) <= Priority(pending[j])
        /\ pending' = RemoveAt(pending, i)
        /\ told' = [own |-> s.data,
                    answer |-> Answer(s.data, pickedpoint[s.node], last[s.node]),
                    early |-> ~s.data.press /\ \E j \in 1..(i - 1) : pending[j].data.press]
        /\ UNCHANGED <<fields, last, pickedpoint, objectSpacePickedPoint>>

PickNext ==
    \/ \E n \in PickNodes, f \in DOMAIN fields[1], v \in BOOLEAN : SetField(n, f, v)
    \/ \E p \in PickPositions, d \in BOOLEAN, b \in {1, 2} :
          PickHandleEvent([pos |-> p, press |-> d, button |-> b])
    \/ SensorCB

PickSpec == PickInit /\ [][PickNext]_pickvars
-----------------------------------------------------------------------------
(* A callback is told of the click it stands for, whatever clicks came      *)
(* between it and the callback, and a release is never delivered while a    *)
(* press before it still waits.                                             *)
PicksTold == told.answer = told.own /\ ~told.early
-----------------------------------------------------------------------------
(* SmSwitchboard draws the children that are enabled; SmSwitchboardOperator  *)
(* has keys enable them.  The fields enable, key and behavior run in         *)
(* parallel, each with its own number of values.                             *)

CONSTANTS Keys, Behaviors, MaxKeys, Children

VARIABLES enable, key, behavior, children,
          down       \* history: the keys that are down

switchvars == <<enable, key, behavior, children, down>>

SwitchInit == /\ enable = <<FALSE>> /\ key = <<"UNDEFINED">> /\ behavior = <<"TOGGLE">>
              /\ children = 0 /\ down = {}

(* The application.                                                         *)
SetKeys(ks, bs) == /\ key' = ks /\ behavior' = bs
                   /\ UNCHANGED <<enable, children, down>>
SetChildren(n) == /\ children' = n /\ UNCHANGED <<enable, key, behavior, down>>

(* handleEvent of the operator, for the entries of the key in order: those  *)
(* with no behavior toggle.                                                 *)
BehaviorOf(i) == IF i <= Len(behavior) THEN behavior[i] ELSE "TOGGLE"
Answers(i, k, isdown) == /\ key[i] = k
                         /\ \/ BehaviorOf(i) = "TOGGLE" /\ isdown
                            \/ BehaviorOf(i) \in {"HOLD", "INVERSE_HOLD"}
Answered(k, isdown) == {i \in DOMAIN key : Answers(i, k, isdown)}
(* enable.setNum() leaves the values up to the new last one as memory had   *)
(* them; that one is read by a toggle, or set.                              *)
NewLen(k, isdown) ==
    CHOOSE n \in {Len(enable)} \cup Answered(k, isdown) :
        \A i \in {Len(enable)} \cup Answered(k, isdown) : i <= n
(* Mutant: a key that is held counts as pressed when it is released. *)
Set_Bug(i, old, isdown) ==
    CASE BehaviorOf(i) = "TOGGLE" -> ~old
      [] BehaviorOf(i) = "HOLD" -> TRUE
      [] BehaviorOf(i) = "INVERSE_HOLD" -> ~isdown
Set(i, old, isdown) ==
    CASE BehaviorOf(i) = "TOGGLE" -> ~old
      [] BehaviorOf(i) = "HOLD" -> isdown
      [] BehaviorOf(i) = "INVERSE_HOLD" -> ~isdown
KeyEvent(k, isdown) ==
    \E memory \in [1..NewLen(k, isdown) -> BOOLEAN] :
       /\ \A i \in DOMAIN enable : memory[i] = enable[i]
       /\ enable' = [i \in DOMAIN memory |->
                        IF i \in Answered(k, isdown) THEN Set(i, memory[i], isdown)
                        ELSE memory[i]]
       /\ down' = IF isdown THEN down \cup {k} ELSE down \ {k}
       /\ UNCHANGED <<key, behavior, children>>

(* doAction of the switchboard; search finds the node itself first.         *)
ChildOf(i) == (i - 1) % children
Traversed == IF children = 0 THEN {} ELSE {ChildOf(i) : i \in {j \in DOMAIN enable : enable[j]}}
BoxTraversed == IF children = 0 THEN {} ELSE {ChildOf(i) : i \in DOMAIN enable}

SwitchNext ==
    \/ \E ks \in UNION {[1..n -> Keys] : n \in 1..MaxKeys},
          bs \in UNION {[1..n -> Behaviors] : n \in 1..MaxKeys} : SetKeys(ks, bs)
    \/ \E n \in Children : SetChildren(n)
    \/ \E k \in Keys, d \in BOOLEAN : KeyEvent(k, d)

SwitchSpec == SwitchInit /\ [][SwitchNext]_switchvars
-----------------------------------------------------------------------------
(* A key that was heard leaves each entry it holds as its being down asks,  *)
(* in one event for all of them, and entries of other keys as they were.    *)
KeysObeyed ==
    [][down' # down =>
         \A i \in DOMAIN key :
            LET k == CHOOSE x \in Keys : (x \in down) # (x \in down')
            IN  IF key[i] # k THEN i \in DOMAIN enable => enable'[i] = enable[i]
                ELSE /\ BehaviorOf(i) = "HOLD" => enable'[i] = (k \in down')
                     /\ BehaviorOf(i) = "INVERSE_HOLD" => enable'[i] = (k \notin down')]_switchvars

(* What is drawn or gets events lies in the bounding box.                   *)
DrawnIsBoxed == Traversed \subseteq BoxTraversed
-----------------------------------------------------------------------------
(* SmPanEventHandler: each of three buttons enables a movement of the camera *)
(* between the last position of the mouse and the next.  The handler gets    *)
(* only the events that no node before it took.  The ground is a line: a     *)
(* UTMCamera is above one place of it, looks down with a tilt, and a mouse   *)
(* at p points height * (p + tilt) beyond the place.                         *)

CONSTANTS PanPositions,   \* of the mouse
          Heights,     \* of the camera
          Tilts,
          MaxPlace,    \* bound on where the camera goes
          NoGrip

VARIABLES dragenabled, spinenabled, zoomenabled, lastmouseposition,   \* SmPanEventHandlerP
          place, height, tilt,    \* the camera
          panMouse,                  \* where the mouse is
          panSeen,                   \* history: the handler got the last movement
          grip                    \* history: what the mouse points at in a drag

buttonvars == <<dragenabled, spinenabled, zoomenabled>>
Places == (-MaxPlace)..MaxPlace
Ground == place + height * (panMouse + tilt)

(* lastmouseposition is not initialized. *)
PanInit ==
    /\ dragenabled = FALSE /\ spinenabled = FALSE /\ zoomenabled = FALSE
    /\ lastmouseposition \in PanPositions
    /\ place = 0 /\ height \in Heights /\ tilt = 0
    /\ panMouse \in PanPositions /\ panSeen = FALSE /\ grip = NoGrip

(* What the mouse points at is held from the press of button 1, and from any *)
(* other movement of the camera.                                             *)
Gripped == grip' = IF dragenabled' /\ panSeen' THEN Ground' ELSE NoGrip

(* A button goes down or up.                                                 *)
Buttons(drag, spin, zoom) ==
    /\ dragenabled' = drag /\ spinenabled' = spin /\ zoomenabled' = zoom
    /\ UNCHANGED <<lastmouseposition, place, height, tilt, panMouse, panSeen>>
    /\ IF drag = dragenabled THEN UNCHANGED grip ELSE Gripped
Button(press) == \/ Buttons(press, spinenabled, zoomenabled)
                 \/ Buttons(dragenabled, press, zoomenabled)
                 \/ Buttons(dragenabled, spinenabled, press)

(* zoom: to another height, along the direction of view.                     *)
Wheel == \E h \in Heights \ {height} :
    /\ height' = h /\ place' = place + (height - h) * tilt /\ place' \in Places
    /\ UNCHANGED <<buttonvars, lastmouseposition, tilt, panMouse, panSeen>>
    /\ Gripped

(* pan: the plane it takes the points from is as high above the camera as    *)
(* the ground is below it, and the camera moves by the difference, which     *)
(* there has the other sign.                                                 *)
Panned(from, to) ==
    LET Above(p) == -height * (p + tilt)
    IN  place + Above(to) - Above(from)

(* Mutant: positions are remembered only while a button is down. *)
Remembered_Bug(position) ==
    IF dragenabled \/ spinenabled \/ zoomenabled THEN position ELSE lastmouseposition
Remembered(position) == position

(* A movement pans, spins (cam_spin: around the point that is looked at, or  *)
(* not at all) and zooms in this order, as far as each is enabled.           *)
Location(position) == \E t \in Tilts, h \in Heights :
    LET from == lastmouseposition
        panned == IF dragenabled THEN Panned(from, position) ELSE place
    IN  /\ ~spinenabled \/ position = from => t = tilt
        /\ ~zoomenabled \/ position = from => h = height
        /\ panMouse' = position /\ panSeen' = TRUE
        /\ lastmouseposition' = Remembered(position)
        /\ tilt' = t /\ height' = h
        /\ place' = panned + height * (tilt - t) + (height - h) * t /\ place' \in Places
        /\ UNCHANGED buttonvars
        /\ IF panSeen /\ t = tilt /\ h = height THEN UNCHANGED grip ELSE Gripped

(* A node before the handler takes the movement.                             *)
Taken(position) ==
    /\ panMouse' = position /\ panSeen' = FALSE /\ grip' = NoGrip
    /\ UNCHANGED <<buttonvars, lastmouseposition, place, height, tilt>>

PanNext == \/ \E press \in BOOLEAN : Button(press)
           \/ Wheel
           \/ \E p \in PanPositions : Location(p) \/ Taken(p)

panvars == <<buttonvars, lastmouseposition, place, height, tilt, panMouse, panSeen, grip>>
PanSpec == PanInit /\ [][PanNext]_panvars

(* What is computed with are whole numbers.                                  *)
PanAssumption == PanPositions \subseteq Int /\ Heights \subseteq Int /\ Tilts \subseteq Int
                 /\ MaxPlace \in Nat
-----------------------------------------------------------------------------
(* In a drag the ground stays under the mouse, whatever other buttons went   *)
(* down and up meanwhile without moving the camera: movements before the     *)
(* press count too, and none counts twice.                                   *)
GripKept == grip # NoGrip => grip = Ground
-----------------------------------------------------------------------------
(* SoAngle1Dragger: an angle and the rotation of a motion matrix that follow *)
(* each other.  Angles are whole numbers, Turn of them a full circle.  The   *)
(* sensor has priority 0: it runs as soon as its field changes.              *)

CONSTANTS Turn, Step,          \* the longest way between two motions
          MaxAngle,            \* bound of a drag and of where it begins
          Angles               \* that the application sets

VARIABLES angle, lastAngle, adder, startDrag,
          matrix, startMatrix, \* rotations, modulo Turn
          dragging,
          turned               \* history: how far since the drag began

anglevars == <<angle, lastAngle, adder, startDrag, matrix, startMatrix, dragging, turned>>

AngleInit == /\ angle = 0 /\ lastAngle = 0 /\ adder = 0 /\ startDrag = 0
             /\ matrix = 0 /\ startMatrix = 0 /\ dragging = FALSE /\ turned = 0

(* angleCallback                                                            *)
SetAngle(a) == /\ angle' = a /\ matrix' = a % Turn
               /\ UNCHANGED <<lastAngle, adder, startDrag, startMatrix, dragging, turned>>
DragStart == /\ ~dragging /\ dragging' = TRUE /\ angle \in (-MaxAngle)..MaxAngle
             /\ lastAngle' = 0 /\ adder' = 0 /\ startDrag' = angle
             /\ startMatrix' = matrix /\ turned' = 0
             /\ UNCHANGED <<angle, matrix>>
(* drag: atan2 gives an angle of half a turn to either side; if it jumps by *)
(* more than 350 of 360 degrees, it has gone around.                        *)
Atan2(a) == LET m == a % Turn IN  IF 2 * m > Turn THEN m - Turn ELSE m
Around(tmp) == LET diff == lastAngle - tmp
               IN  36 * (IF diff < 0 THEN -diff ELSE diff) > 35 * Turn
(* Mutant: going around always adds a turn. *)
Adder_Bug(tmp) == IF Around(tmp) THEN adder + Turn ELSE adder
Adder(tmp) == IF ~Around(tmp) THEN adder
              ELSE IF lastAngle < 0 THEN adder - Turn ELSE adder + Turn
Drag(step) ==
    LET tmp == Atan2(turned + step)
    IN  /\ dragging /\ turned + step \in (-MaxAngle)..MaxAngle
        /\ turned' = turned + step /\ matrix' = (startMatrix + turned + step) % Turn
        /\ adder' = Adder(tmp) /\ lastAngle' = tmp
        /\ angle' = startDrag + tmp + adder'    \* the sensor is detached
        /\ UNCHANGED <<startDrag, startMatrix, dragging>>
DragFinish == /\ dragging /\ dragging' = FALSE
              /\ UNCHANGED <<angle, lastAngle, adder, startDrag, matrix, startMatrix, turned>>

AngleNext == \/ \E a \in Angles : SetAngle(a)
             \/ DragStart \/ DragFinish
             \/ \E s \in (-Step)..Step : Drag(s)

AngleSpec == AngleInit /\ [][AngleNext]_anglevars

(* Motions follow each other in less than ten degrees.                      *)
AngleAssumption == /\ Turn \in Nat /\ Step \in Nat /\ 36 * Step < Turn
                   /\ MaxAngle \in Nat /\ Angles \subseteq Int
-----------------------------------------------------------------------------
(* The angle and the rotation that is seen agree, who ever turned last; and *)
(* while it is dragged in steps below ten degrees the angle counts every    *)
(* turn.  A longer step over the far side loses or gains one.               *)
AngleSeen == angle % Turn = matrix
TurnsCounted == [][angle' # angle /\ turned' # turned => angle' = startDrag + turned']_anglevars
-----------------------------------------------------------------------------
(* SmRangeTranslate1Dragger: a translation within a range, and that of the   *)
(* dragger inside.  The sensors have priority 0: they run as soon as their   *)
(* field changes.                                                            *)

CONSTANTS Ranges, Locations

VARIABLES range, translation, inner,
          arrows               \* those of front and rear that are shown

rangevars == <<range, translation, inner, arrows>>

RangeInit == /\ range = [low |-> 0, high |-> 1] /\ translation = 0 /\ inner = 0
             /\ arrows = {"front", "rear"}

(* draggerCallback: the dragger inside has moved to x.                      *)
Clamped(x) == IF x > range.high THEN range.high ELSE IF x < range.low THEN range.low ELSE x
DraggerCallback(x) ==
    /\ inner' = Clamped(x) /\ translation' = Clamped(x)    \* the sensor is detached
    /\ arrows' = {"front", "rear"} \ (IF x > range.high THEN {"front"}
                                      ELSE IF x < range.low THEN {"rear"} ELSE {})
    /\ UNCHANGED <<range>>
SetTranslation(x) == /\ translation' = x /\ inner' = x    \* translationChangedCallback
                     /\ UNCHANGED <<range, arrows>>
SetRange(r) == range' = r /\ UNCHANGED <<translation, inner, arrows>>

RangeNext == \/ \E x \in Locations : DraggerCallback(x) \/ SetTranslation(x)
             \/ \E r \in Ranges : SetRange(r)

RangeSpec == RangeInit /\ [][RangeNext]_rangevars

RangeAssumption == /\ Locations \subseteq Int
                   /\ \A r \in Ranges : r.low \in Int /\ r.high \in Int /\ r.low <= r.high
-----------------------------------------------------------------------------
(* The dragger inside is where the field says; dragged, it stays in range,  *)
(* and shows no arrow to where it cannot go.                                *)
InnerFollows == inner = translation
DraggedInRange ==
    [][arrows' # arrows =>
         /\ translation' \in range.low..range.high
         /\ "front" \notin arrows' => translation' = range.high
         /\ "rear" \notin arrows' => translation' = range.low]_rangevars
-----------------------------------------------------------------------------
(* SoCameraPathEditKit (nodekits/SoCameraPathEditKit.cpp): a camera path   *)
(* edited by mouse.  A control point is an index into four lists that are  *)
(* kept sorted by time, so an edit of one point renumbers the others, and  *)
(* the number of the active point with them.                               *)
(*                                                                         *)
(* orientation[i] is <<name, turn>>: names tell the points apart and are   *)
(* no part of the code.  Lists are numbered from 1, the code's from 0.     *)
(* Not modelled: insertion by index, the tags, the drawing of draggers.    *)

CONSTANTS PathPlaces, Times, MaxPoints, Names

VARIABLES position, coordinates, orientation, timestamp, activePoint,
          dragged         \* a dragger moved and its field sensor has not run

lists == <<position, coordinates, orientation, timestamp>>
pathvars == <<lists, activePoint, dragged>>
Nothing == <<"none", 0>>

PathInit ==
    /\ orientation = << <<1, 0>>, <<2, 0>> >>
    /\ position = <<1, 2>> /\ coordinates = position
    /\ timestamp = <<0, 2>> /\ activePoint = 1 /\ dragged = Nothing

(* setTimestamp: the point idx moves to the first place whose time is not  *)
(* before its own; Slot is where it is inserted, Moved what becomes of a   *)
(* list, NewIndex where the point is in the end.                           *)
After(times, t) == {i \in DOMAIN times : t <= times[i]}
Slot(times, t) == IF After(times, t) = {} THEN Len(times) + 1 ELSE Min(After(times, t))
(* Mutant: a point that moves up is removed one place too far. *)
Moved_Bug(list, slot, idx, value) ==
    LET inserted == InsertAt(list, slot, value)
    IN  IF slot = idx THEN [list EXCEPT ![idx] = value]
        ELSE RemoveAt(inserted, IF idx < Len(list) THEN idx + 1 ELSE idx)
Moved(list, slot, idx, value) ==
    LET inserted == InsertAt(list, slot, value)
    IN  IF slot = idx THEN [list EXCEPT ![idx] = value]
        ELSE RemoveAt(inserted, IF slot < idx THEN idx + 1 ELSE idx)
NewIndex(slot, idx) == IF slot > idx THEN slot - 1 ELSE slot

(* Mutant: the points between are taken for active after a move down. *)
Followed_Bug(active, idx, i) ==
    IF active = idx THEN i
    ELSE IF idx < active /\ active <= i THEN active - 1 ELSE active
Followed(active, idx, i) ==
    IF active = idx THEN i
    ELSE IF idx < active /\ active <= i THEN active - 1
    ELSE IF i <= active /\ active < idx THEN active + 1 ELSE active

(* setTimestamp, of the application, or of the active point in timeCallback. *)
SetTimestamp(idx, t) ==
    LET slot == Slot(timestamp, t)
    IN  /\ timestamp' = Moved(timestamp, slot, idx, t)
        /\ coordinates' = Moved(coordinates, slot, idx, position[idx])
        /\ position' = Moved(position, slot, idx, position[idx])
        /\ orientation' = Moved(orientation, slot, idx, orientation[idx])
        /\ activePoint' = Followed(activePoint, idx, NewIndex(slot, idx))
        /\ UNCHANGED dragged

(* insertControlpoint with a time: room is made in front, where the old    *)
(* values stay for the moment, the new first point moves to its time, and  *)
(* gets its values there.                                                  *)
InsertControlpoint(p, t, name) ==
    LET room(list) == <<list[1]>> \o list
        slot == Slot(room(timestamp), t)
        i    == NewIndex(slot, 1)
        moved(list, value) == Moved(room(list), slot, 1, value)
    IN  /\ Len(position) < MaxPoints /\ \A o \in ToSet(orientation) : o[1] # name
        /\ timestamp' = moved(timestamp, t)
        /\ coordinates' = [moved(coordinates, position[1]) EXCEPT ![i] = p]
        /\ position' = [moved(position, position[1]) EXCEPT ![i] = p]
        /\ orientation' = [moved(orientation, orientation[1]) EXCEPT ![i] = <<name, 0>>]
        /\ activePoint' = Followed(activePoint + 1, 1, i)
        /\ UNCHANGED dragged

(* pickCallback, button 2, and deleteControlpoint.                         *)
DeleteControlpoint(idx) ==
    /\ Len(position) > 2
    /\ position' = RemoveAt(position, idx) /\ coordinates' = RemoveAt(coordinates, idx)
    /\ timestamp' = RemoveAt(timestamp, idx) /\ orientation' = RemoveAt(orientation, idx)
    /\ activePoint' = IF activePoint >= idx /\ activePoint # 1
                      THEN activePoint - 1 ELSE activePoint
    /\ UNCHANGED dragged

(* pickCallback, button 1 on a point.                                      *)
Select(idx) == /\ activePoint' = idx /\ UNCHANGED <<lists, dragged>>

(* A dragger moves; its sensor is delayed, and acts on the point that is   *)
(* active by then (posCallback, orCallback).                               *)
PathDrag(what) == /\ dragged = Nothing /\ dragged' = what /\ UNCHANGED <<lists, activePoint>>
PosCallback ==
    /\ dragged[1] = "place"
    /\ position' = [position EXCEPT ![activePoint] = dragged[2]]
    /\ coordinates' = [coordinates EXCEPT ![activePoint] = dragged[2]]
    /\ dragged' = Nothing /\ UNCHANGED <<orientation, timestamp, activePoint>>
OrCallback ==
    /\ dragged[1] = "turn"
    /\ orientation' = [orientation EXCEPT ![activePoint][2] = dragged[2]]
    /\ dragged' = Nothing /\ UNCHANGED <<position, coordinates, timestamp, activePoint>>

PathNext ==
    \/ \E idx \in DOMAIN position, t \in Times : SetTimestamp(idx, t)
    \/ \E p \in PathPlaces, t \in Times, name \in Names :
          InsertControlpoint(p, t, name)
    \/ \E idx \in DOMAIN position : DeleteControlpoint(idx) \/ Select(idx)
    \/ \E p \in PathPlaces : PathDrag(<<"place", p>>)
    \/ \E turn \in {0, 1} : PathDrag(<<"turn", turn>>)
    \/ PosCallback \/ OrCallback

PathSpec == PathInit /\ [][PathNext]_pathvars
-----------------------------------------------------------------------------
PathAssumption == Times \subseteq Int /\ MaxPoints \in Nat

(* The four lists stay parallel and in the order of time, whatever the     *)
(* order of edits: what is drawn and picked (coordinates) is what the path *)
(* goes through (position), and no point is lost or there twice.           *)
PathOrdered ==
    /\ coordinates = position
    /\ Len(orientation) = Len(position) /\ Len(timestamp) = Len(position)
    /\ \A i \in 2..Len(timestamp) : timestamp[i - 1] <= timestamp[i]
    /\ \A i, j \in DOMAIN orientation : i # j => orientation[i][1] # orientation[j][1]
    /\ activePoint \in DOMAIN position

(* An edit that renumbers the points does not make another one active,     *)
(* unless the active one is deleted.                                       *)
PointOf(list, i) == list[i][1]
ActiveStays ==
    [][(orientation' # orientation
        /\ \E o \in ToSet(orientation') : o[1] = PointOf(orientation, activePoint))
       => PointOf(orientation', activePoint') = PointOf(orientation, activePoint)]_pathvars
-----------------------------------------------------------------------------
(* SmTrack: the newest part of a track, by its time stamps.                  *)

CONSTANTS TrackPlaces, TrackTimes, Lengths, Intervals, TrackMaxPoints

VARIABLES track, timeStamps, trackLength, pointInterval, lineInterval,
          startix,
          sensor,     \* tracklengthsensor is scheduled
          direct      \* history: the points changed without append()

trackvars == <<track, timeStamps, trackLength, pointInterval, lineInterval, startix, sensor,
               direct>>

TrackInit == /\ track = <<0>> /\ timeStamps = <<0>>
             /\ trackLength = CHOOSE l \in Lengths : \A m \in Lengths : m <= l
             /\ pointInterval = 1 /\ lineInterval = 0
             /\ startix = 0 /\ sensor = FALSE /\ direct = FALSE

(* updateInterval: from the newest point back to one that is as old as the  *)
(* track is long.  Without points a time before the first is read, and not  *)
(* used.                                                                    *)
OldEnough(stamps) == {i \in DOMAIN stamps : stamps[Len(stamps)] - stamps[i] >= trackLength}
(* Mutant: the search goes on to the oldest of them. *)
Interval_Bug(stamps) ==
    IF OldEnough(stamps) = {} THEN 0
    ELSE (CHOOSE i \in OldEnough(stamps) : \A k \in OldEnough(stamps) : i <= k) - 1
Interval(stamps) ==
    IF OldEnough(stamps) = {} THEN 0
    ELSE (CHOOSE i \in OldEnough(stamps) : \A k \in OldEnough(stamps) : k <= i) - 1

Appended(trackPlace, time) ==
    /\ Len(timeStamps) = Len(track) /\ Len(track) < TrackMaxPoints
    /\ timeStamps' = Append(timeStamps, time) /\ track' = Append(track, trackPlace)
    /\ startix' = Interval(timeStamps') /\ direct' = FALSE
    /\ UNCHANGED <<trackLength, pointInterval, lineInterval, sensor>>
DeleteValues ==
    /\ track' = << >> /\ timeStamps' = << >> /\ direct' = TRUE
    /\ UNCHANGED <<trackLength, pointInterval, lineInterval, startix, sensor>>
SetTrackLength(l) ==
    /\ trackLength' = l /\ sensor' = TRUE
    /\ UNCHANGED <<track, timeStamps, pointInterval, lineInterval, startix, direct>>
UpdateIntervalCB ==
    /\ sensor /\ sensor' = FALSE /\ startix' = Interval(timeStamps) /\ direct' = FALSE
    /\ UNCHANGED <<track, timeStamps, trackLength, pointInterval, lineInterval>>
SetIntervals(p, l) ==
    /\ pointInterval' = p /\ lineInterval' = l
    /\ UNCHANGED <<track, timeStamps, trackLength, startix, sensor, direct>>

(* GLRender: 1 is the first point.                                          *)
Every(first, step) == IF step = 0 THEN {}
                      ELSE {i \in first..Len(track) : (i - first) % step = 0}
Points == IF trackLength = 0 THEN {} ELSE Every(startix + 1, pointInterval)
Segments == IF trackLength = 0 THEN {} ELSE {<<i - 1, i>> : i \in Every(startix + 2, lineInterval)}
(* computeBBox                                                              *)
Boxed == (startix + 1)..Len(track)

TrackNext ==
    \/ \E p \in TrackPlaces, t \in TrackTimes : Appended(p, t)
    \/ DeleteValues \/ UpdateIntervalCB
    \/ \E l \in Lengths : SetTrackLength(l)
    \/ \E p, l \in Intervals : SetIntervals(p, l)

TrackSpec == TrackInit /\ [][TrackNext]_trackvars

TrackAssumption == /\ TrackTimes \subseteq Int /\ Lengths \subseteq Int /\ Intervals \subseteq Nat
                   /\ \E l \in Lengths : \A m \in Lengths : m <= l
-----------------------------------------------------------------------------
(* What is drawn of a track reaches back trackLength, to the newest point   *)
(* that is that old: nothing older is drawn and nothing newer left out.     *)
(* Points, lines and the bounding box begin together.                       *)
TrackReaches ==
    ~sensor /\ ~direct /\ trackLength # 0 /\ pointInterval = 1 =>
        /\ \A i \in DOMAIN track :
              timeStamps[Len(track)] - timeStamps[i] < trackLength
                 /\ (\A k \in i..Len(track) :
                        timeStamps[Len(track)] - timeStamps[k] < trackLength)
                  => i \in Points
        /\ \A i \in Points, k \in DOMAIN track :
              k > i => timeStamps[Len(track)] - timeStamps[k] < trackLength
TrackBoxed == /\ Points \subseteq Boxed
              /\ \A s \in Segments : s[1] \in Boxed /\ s[2] \in Boxed
TrackRight == TrackReaches /\ TrackBoxed
-----------------------------------------------------------------------------
(* Together: a callback is told of its own pick, what is drawn has a box,    *)
(* the ground stays under the mouse, fields and draggers agree, the points   *)
(* of a path are in the order of time, and a track is drawn to its length.   *)
EventsAnswered ==
    /\ PicksTold /\ DrawnIsBoxed /\ GripKept /\ AngleSeen /\ InnerFollows
    /\ PathOrdered /\ TrackRight

(* And step by step: keys do what they are bound to, turns are counted, a    *)
(* drag stays in its range, and the active point of a path the one picked.   *)
AnswersKept == KeysObeyed /\ TurnsCounted /\ DraggedInRange /\ ActiveStays
=============================================================================
