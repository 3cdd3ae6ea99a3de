-------------------------- MODULE EventNodesProofs --------------------------
(* Proofs about EventNodes and TooltipKit: for any number of nodes and       *)
(* pending callbacks, any keys, positions of mouse and camera, angles and    *)
(* ranges, control points and their times, tracks, scene graphs and times to *)
(* rest.                                                                     *)
EXTENDS EventNodes, TooltipKit, WellFoundedInduction, TLAPS

Clicks == [pos: PickPositions, press: BOOLEAN, button: {1, 2}]
Sensors == [node: PickNodes, data: Clicks]

(* A click is never the data that stands for no pick.                       *)
PickInv == pending \in Seq(Sensors) /\ PicksTold

(* A sensor that ran leaves the others waiting.                             *)
LEMMA RemovedSensor ==
  ASSUME NEW S, NEW s \in Seq(S), NEW k \in DOMAIN s
  PROVE  RemoveAt(s, k) \in Seq(S)
  <1> DEFINE a == SubSeq(s, 1, k - 1)
             c == SubSeq(s, k + 1, Len(s))
  <1>1. k \in 1..Len(s) /\ Len(s) \in Nat
    OBVIOUS
  <1>2. a \in Seq(S) /\ c \in Seq(S)
    BY <1>1
  <1> HIDE DEF a, c
  <1>3. a \o c \in Seq(S)
    BY <1>2
  <1> QED
    BY <1>3 DEF RemoveAt, a, c

LEMMA ClickIsPick ==
  ASSUME NEW e \in Clicks
  PROVE  e # NoPick
  BY DEF Clicks, NoPick

LEMMA PickBegins == PickInit => PickInv
  <1> SUFFICES ASSUME PickInit PROVE PickInv
    OBVIOUS
  <1>1. pending \in Seq(Sensors)
    BY DEF PickInit
  <1>2. PicksTold
    BY DEF PickInit, PicksTold
  <1> QED
    BY <1>1, <1>2 DEF PickInv

(* An event: a callback at once is told of it by the members just set.      *)
LEMMA EventTold ==
  ASSUME PickInv, NEW e \in Clicks, PickHandleEvent(e)
  PROVE  PickInv'
  <1> DEFINE taken == Takes(e) \cap Sees(e)
  <1>1. taken \subseteq PickNodes
    BY DEF Takes
  <1>2. \A n \in taken : last'[n] = e
    BY <1>1 DEF PickHandleEvent, Members
  <1>3. CASE /\ pending' = IF taken = {} THEN pending
                           ELSE Append(pending, [node |-> CHOOSE n \in taken : TRUE, data |-> e])
             /\ UNCHANGED told
    <2>1. pending' \in Seq(Sensors)
      <3>1. CASE taken = {}
        BY <1>3, <3>1 DEF PickInv
      <3>2. CASE taken # {}
        <4>1. PICK n \in PickNodes : n = CHOOSE x \in taken : TRUE
          BY <1>1, <3>2
        <4>2. [node |-> n, data |-> e] \in Sensors
          BY DEF Sensors
        <4> QED
          BY <1>3, <3>2, <4>1, <4>2 DEF PickInv
      <3> QED
        BY <3>1, <3>2
    <2> QED
      BY <1>3, <2>1 DEF PickInv, PicksTold
  <1>4. ASSUME NEW n \in taken,
               told' = [own |-> e, answer |-> Answer(NoPick, e.pos, last'[n]), early |-> FALSE],
               UNCHANGED pending
        PROVE  PickInv'
    <2>1. Answer(NoPick, e.pos, last'[n]) = [pos |-> e.pos, press |-> e.press, button |-> e.button]
      BY <1>2 DEF Answer
    <2>2. e = [pos |-> e.pos, press |-> e.press, button |-> e.button]
      BY DEF Clicks
    <2>3. told'.answer = told'.own /\ ~told'.early
      BY <1>4, <2>1, <2>2
    <2> QED
      BY <1>4, <2>3 DEF PickInv, PicksTold
  <1> QED
    BY <1>3, <1>4 DEF PickHandleEvent

(* A sensor: it has data, which it answers with; and a release runs only    *)
(* when no press waits at all, as those have the lower priority.            *)
LEMMA SensorTold ==
  ASSUME PickInv, SensorCB
  PROVE  PickInv'
  <1>1. PICK i \in DOMAIN pending :
          /\ \A j \in DOMAIN pending : Priority(pending[i]) =< Priority(pending[j])
          /\ pending' = RemoveAt(pending, i)
          /\ told' = [own |-> pending[i].data,
                      answer |-> Answer(pending[i].data, pickedpoint[pending[i].node],
                                        last[pending[i].node]),
                      early |-> /\ ~pending[i].data.press
                                /\ \E j \in 1..(i - 1) : pending[j].data.press]
    BY DEF SensorCB
  <1>2. pending \in Seq(Sensors)
    BY DEF PickInv
  <1>3. pending[i].data \in Clicks
    <2>1. pending[i] \in Sensors
      BY <1>2
    <2> QED
      BY <2>1 DEF Sensors
  <1>4. told'.answer = told'.own
    BY <1>1, <1>3, ClickIsPick DEF Answer
  <1>5. ASSUME ~pending[i].data.press, NEW j \in 1..(i - 1), pending[j].data.press
        PROVE  FALSE
    <2>1. j \in DOMAIN pending
      BY <1>2
    <2>2. Priority(pending[i]) = 2 /\ Priority(pending[j]) = 1
      BY <1>5 DEF Priority
    <2> QED
      BY <1>1, <2>1, <2>2
  <1>6. ~told'.early
    BY <1>1, <1>5
  <1>7. pending' \in Seq(Sensors)
    BY <1>1, <1>2, RemovedSensor
  <1> QED
    BY <1>4, <1>6, <1>7 DEF PickInv, PicksTold

(* Every callback is told of the click it stands for, at once or later, and *)
(* no release overtakes a press, however many nodes and clicks there are.   *)
THEOREM PicksAreTold == PickSpec => []PicksTold
  <1>1. PickInv /\ [PickNext]_pickvars => PickInv'
    <2> SUFFICES ASSUME PickInv, [PickNext]_pickvars PROVE PickInv'
      OBVIOUS
    <2>1. ASSUME NEW n \in PickNodes, NEW f, NEW v, SetField(n, f, v) PROVE PickInv'
      BY <2>1 DEF SetField, PickInv, PicksTold
    <2>2. ASSUME NEW p \in PickPositions, NEW d \in BOOLEAN, NEW b \in {1, 2},
                 PickHandleEvent([pos |-> p, press |-> d, button |-> b])
          PROVE  PickInv'
      <3>1. [pos |-> p, press |-> d, button |-> b] \in Clicks
        BY DEF Clicks
      <3> QED
        BY <2>2, <3>1, EventTold
    <2>3. CASE SensorCB
      BY <2>3, SensorTold
    <2>4. CASE UNCHANGED pickvars
      BY <2>4 DEF pickvars, PickInv, PicksTold
    <2> QED
      BY <2>1, <2>2, <2>3, <2>4 DEF PickNext
  <1>2. PickInv => PicksTold
    BY DEF PickInv
  <1> QED
    BY <1>1, <1>2, PickBegins, PTL DEF PickSpec

-----------------------------------------------------------------------------
(* The camera.  While the mouse holds a place of the ground, the handler    *)
(* has seen the last movement, and remembers where the mouse is.            *)
PanType ==
  /\ place \in Int /\ height \in Int /\ tilt \in Int
  /\ panMouse \in Int /\ lastmouseposition \in Int
  /\ dragenabled \in BOOLEAN /\ panSeen \in BOOLEAN
Remembers == panSeen => lastmouseposition = panMouse
Holds == grip # NoGrip => dragenabled /\ panSeen /\ grip = Ground

PanInv == PanType /\ Remembers /\ Holds

LEMMA PanBegins == PanAssumption /\ PanInit => PanInv
  <1> SUFFICES ASSUME PanAssumption, PanInit PROVE PanInv
    OBVIOUS
  <1>1. place \in Int /\ height \in Int /\ tilt \in Int /\ panMouse \in Int
    BY DEF PanAssumption, PanInit
  <1>2. lastmouseposition \in Int
    BY DEF PanAssumption, PanInit
  <1>3. dragenabled \in BOOLEAN /\ panSeen = FALSE /\ grip = NoGrip
    BY DEF PanInit
  <1> QED
    BY <1>1, <1>2, <1>3 DEF PanInv, PanType, Remembers, Holds

(* A new grip is where the mouse points at then.                            *)
LEMMA GrippedHolds ==
  ASSUME Gripped
  PROVE  Holds'
  BY DEF Gripped, Holds

LEMMA ButtonKeeps ==
  ASSUME PanInv, NEW drag \in BOOLEAN, NEW spin, NEW zoom, Buttons(drag, spin, zoom)
  PROVE  PanInv'
  <1>1. PanType' /\ Remembers'
    BY DEF PanInv, PanType, Remembers, Buttons
  <1>2. CASE drag = dragenabled
    BY <1>1, <1>2 DEF PanInv, Holds, Ground, Buttons
  <1>3. CASE drag # dragenabled
    <2>1. Gripped
      BY <1>3 DEF Buttons
    <2> QED
      BY <1>1, <2>1, GrippedHolds DEF PanInv
  <1> QED
    BY <1>2, <1>3

LEMMA WheelKeeps ==
  ASSUME PanAssumption, PanInv, Wheel
  PROVE  PanInv'
  <1>1. PanType' /\ Remembers'
    BY DEF PanAssumption, PanInv, PanType, Remembers, Wheel, Places, buttonvars
  <1>2. Gripped
    BY DEF Wheel
  <1> QED
    BY <1>1, <1>2, GrippedHolds DEF PanInv

(* In a drag without another movement of the camera: what it moves by is    *)
(* what the mouse has moved by on the ground.                               *)
LEMMA PannedGround ==
  ASSUME PanType, NEW from \in Int, NEW to \in Int
  PROVE  Panned(from, to) + height * (to + tilt) = place + height * (from + tilt)
  <1>1. PICK a \in Int : a = height * (from + tilt)
    BY DEF PanType
  <1>2. PICK b \in Int : b = height * (to + tilt)
    BY DEF PanType
  <1>3. -height * (from + tilt) = -a /\ -height * (to + tilt) = -b
    BY <1>1, <1>2 DEF PanType
  <1>4. Panned(from, to) = place + -b - -a
    BY <1>3 DEF Panned
  <1> QED
    BY <1>1, <1>2, <1>4 DEF PanType

LEMMA LocationKeeps ==
  ASSUME PanAssumption, PanInv, NEW spot \in PanPositions, Location(spot)
  PROVE  PanInv'
  <1> DEFINE from == lastmouseposition
             panned == IF dragenabled THEN Panned(from, spot) ELSE place
  <1>1. PICK t \in Tilts, h \in Heights :
          /\ panMouse' = spot /\ panSeen' = TRUE /\ lastmouseposition' = spot
          /\ tilt' = t /\ height' = h /\ dragenabled' = dragenabled
          /\ place' = panned + height * (tilt - t) + (height - h) * t /\ place' \in Places
          /\ IF panSeen /\ t = tilt /\ h = height THEN UNCHANGED grip ELSE Gripped
    BY DEF Location, Remembered, buttonvars
  <1>2. spot \in Int /\ t \in Int /\ h \in Int /\ place' \in Int
    BY <1>1 DEF PanAssumption, Places
  <1>3. PanType' /\ Remembers'
    BY <1>1, <1>2 DEF PanInv, PanType, Remembers
  <1>4. CASE panSeen /\ t = tilt /\ h = height
    <2>1. ASSUME grip = NoGrip PROVE Holds'
      BY <1>1, <1>4, <2>1 DEF Holds
    <2>2. ASSUME grip # NoGrip PROVE Holds'
      <3>1. dragenabled /\ grip = Ground /\ from = panMouse
        BY <1>4, <2>2 DEF PanInv, Holds, Remembers
      <3>2. panned \in Int /\ panned = Panned(panMouse, spot)
        BY <1>2, <3>1 DEF PanInv, PanType, Panned
      <3>3. height * (tilt - t) = 0 /\ (height - h) * t = 0
        BY <1>4 DEF PanInv, PanType
      <3> HIDE DEF panned
      <3>4. place' = panned
        BY <1>1, <3>2, <3>3
      <3>5. Ground' = place' + height * (spot + tilt)
        BY <1>1, <1>4 DEF Ground
      <3>6. Ground' = Ground
        BY <1>2, <3>2, <3>4, <3>5, PannedGround DEF PanInv, PanType, Ground
      <3> QED
        BY <1>1, <1>4, <3>1, <3>6 DEF Holds
    <2> QED
      BY <1>3, <2>1, <2>2 DEF PanInv
  <1>5. CASE ~(panSeen /\ t = tilt /\ h = height)
    BY <1>1, <1>3, <1>5, GrippedHolds DEF PanInv
  <1> QED
    BY <1>4, <1>5

LEMMA TakenKeeps ==
  ASSUME PanAssumption, PanInv, NEW spot \in PanPositions, Taken(spot)
  PROVE  PanInv'
  BY DEF PanAssumption, PanInv, PanType, Remembers, Holds, Taken, buttonvars

(* Whatever the camera, the buttons and the nodes before the handler do,    *)
(* the ground does not slip from under a mouse that drags it.               *)
THEOREM GripIsKept == PanAssumption => (PanSpec => []GripKept)
  <1> SUFFICES ASSUME PanAssumption PROVE PanSpec => []GripKept
    OBVIOUS
  <1>1. PanInit => PanInv
    BY PanBegins
  <1>2. PanInv /\ [PanNext]_panvars => PanInv'
    <2> SUFFICES ASSUME PanInv, [PanNext]_panvars PROVE PanInv'
      OBVIOUS
    <2>1. ASSUME NEW press \in BOOLEAN, Button(press) PROVE PanInv'
      <3>1. dragenabled \in BOOLEAN
        BY DEF PanInv, PanType
      <3> QED
        BY <2>1, <3>1, ButtonKeeps DEF Button
    <2>2. CASE Wheel
      BY <2>2, WheelKeeps
    <2>3. ASSUME NEW p \in PanPositions, Location(p) \/ Taken(p) PROVE PanInv'
      BY <2>3, LocationKeeps, TakenKeeps
    <2>4. CASE UNCHANGED panvars
      BY <2>4 DEF panvars, buttonvars, PanInv, PanType, Remembers, Holds, Ground
    <2> QED
      BY <2>1, <2>2, <2>3, <2>4 DEF PanNext
  <1>3. PanInv => GripKept
    BY DEF PanInv, Holds, GripKept
  <1> QED
    BY <1>1, <1>2, <1>3, PTL DEF PanSpec

-----------------------------------------------------------------------------
(* The keys of a switchboard.                                               *)
SwitchInv == enable \in Seq(BOOLEAN) /\ \E n \in Nat : DOMAIN key = 1..n

(* Numbers of which one bounds all have a largest one.                      *)
LEMMA HasLargest ==
  ASSUME NEW N \in Nat, NEW S \in SUBSET (0..N), S # {}
  PROVE  \E n \in S : \A i \in S : i =< n
  <1> DEFINE T == {N - i : i \in S}
  <1>1. T \subseteq Nat /\ T # {}
    <2>1. \A i \in S : N - i \in Nat
      OBVIOUS
    <2>2. PICK i \in S : TRUE
      OBVIOUS
    <2>3. N - i \in T
      OBVIOUS
    <2> QED
      BY <2>1, <2>3
  <1>2. PICK m \in T : \A y \in T : ~(<<y, m>> \in OpToRel(<, Nat))
    <2> HIDE DEF T
    <2> QED
      BY <1>1, WFMin, NatLessThanWellFounded
  <1>3. PICK n \in S : m = N - n
    BY <1>2
  <1>4. ASSUME NEW i \in S
        PROVE  i =< n
    <2>1. N - i \in Nat /\ m \in Nat /\ N - i \in T
      BY <1>1, <1>2
    <2>2. ~(N - i < m)
      BY <1>2, <2>1 DEF OpToRel
    <2> QED
      BY <1>3, <2>2
  <1> QED
    BY <1>4

(* And numbers have a smallest one.                                         *)
LEMMA HasSmallest ==
  ASSUME NEW S \in SUBSET Nat, S # {}
  PROVE  Min(S) \in S /\ \A i \in S : Min(S) =< i
  <1>1. PICK m \in S : \A y \in S : ~(<<y, m>> \in OpToRel(<, Nat))
    BY WFMin, NatLessThanWellFounded
  <1>2. \A i \in S : m =< i
    <2> TAKE i \in S
    <2>1. i \in Nat /\ m \in Nat /\ i \in S
      BY <1>1
    <2>2. ~(<<i, m>> \in OpToRel(<, Nat))
      BY <1>1, <2>1
    <2>3. ~(i < m)
      BY <2>1, <2>2 DEF OpToRel
    <2> QED
      BY <2>1, <2>3
  <1> QED
    BY <1>1, <1>2 DEF Min

(* The field is as long as before, or as far as an entry was heard.         *)
LEMMA NewLength ==
  ASSUME SwitchInv, NEW k, NEW isdown
  PROVE  /\ NewLen(k, isdown) \in Nat /\ Len(enable) =< NewLen(k, isdown)
         /\ \A i \in Answered(k, isdown) : i =< NewLen(k, isdown)
  <1> DEFINE S == {Len(enable)} \cup Answered(k, isdown)
  <1>1. PICK n \in Nat : DOMAIN key = 1..n
    BY DEF SwitchInv
  <1>2. Len(enable) \in Nat
    BY DEF SwitchInv
  <1>3. PICK N \in Nat : N = Len(enable) + n
    BY <1>1, <1>2
  <1>4. S \in SUBSET (0..N) /\ S # {}
    BY <1>1, <1>2, <1>3 DEF Answered
  <1>5. Len(enable) \in S /\ Answered(k, isdown) \subseteq S
    OBVIOUS
  <1>6. NewLen(k, isdown) = CHOOSE x \in S : \A i \in S : i =< x
    BY DEF NewLen
  <1> HIDE DEF S
  <1>7. \E x \in S : \A i \in S : i =< x
    BY <1>3, <1>4, HasLargest
  <1>8. PICK x \in S : x = NewLen(k, isdown) /\ \A i \in S : i =< x
    BY <1>6, <1>7
  <1>9. x \in Nat
    BY <1>3, <1>4
  <1>10. Len(enable) =< x /\ \A i \in Answered(k, isdown) : i =< x
    BY <1>5, <1>8
  <1> QED
    BY <1>8, <1>9, <1>10

LEMMA KeyKeeps ==
  ASSUME SwitchInv, NEW k, NEW isdown \in BOOLEAN, KeyEvent(k, isdown)
  PROVE  /\ SwitchInv'
         /\ \A i \in DOMAIN enable : i \notin Answered(k, isdown) => enable'[i] = enable[i]
         /\ \A i \in Answered(k, isdown) :
              /\ BehaviorOf(i) = "HOLD" => enable'[i] = isdown
              /\ BehaviorOf(i) = "INVERSE_HOLD" => enable'[i] = ~isdown
  <1> DEFINE n == NewLen(k, isdown)
  <1>1. PICK memory \in [1..n -> BOOLEAN] :
          /\ \A i \in DOMAIN enable : memory[i] = enable[i]
          /\ enable' = [i \in DOMAIN memory |->
                          IF i \in Answered(k, isdown) THEN Set(i, memory[i], isdown)
                          ELSE memory[i]]
          /\ UNCHANGED key
    BY DEF KeyEvent
  <1>2. n \in Nat /\ Len(enable) =< n /\ \A i \in Answered(k, isdown) : i =< n
    BY NewLength
  <1> HIDE DEF n
  <1>3. DOMAIN enable = 1..Len(enable) /\ Len(enable) \in Nat
    BY DEF SwitchInv
  <1>4. \A i \in DOMAIN enable : i \notin Answered(k, isdown) => enable'[i] = enable[i]
    BY <1>1, <1>2, <1>3
  <1>5. \A i \in Answered(k, isdown) : i \in 1..n
    BY <1>2 DEF Answered, SwitchInv
  <1>6. ASSUME NEW i \in Answered(k, isdown)
        PROVE  /\ BehaviorOf(i) = "HOLD" => enable'[i] = isdown
               /\ BehaviorOf(i) = "INVERSE_HOLD" => enable'[i] = ~isdown
    <2>1. enable'[i] = Set(i, memory[i], isdown)
      BY <1>1, <1>5
    <2> QED
      BY <2>1 DEF Set
  <1>7. ASSUME NEW i \in 1..n, i \in Answered(k, isdown)
        PROVE  Set(i, memory[i], isdown) \in BOOLEAN
    <2>1. BehaviorOf(i) \in {"TOGGLE", "HOLD", "INVERSE_HOLD"}
      BY <1>7 DEF Answered, Answers
    <2>2. memory[i] \in BOOLEAN
      BY <1>1, <1>7
    <2> QED
      BY <2>1, <2>2 DEF Set
  <1>8. enable' \in [1..n -> BOOLEAN]
    BY <1>1, <1>7
  <1>9. enable' \in Seq(BOOLEAN)
    BY <1>2, <1>8
  <1> QED
    BY <1>1, <1>4, <1>6, <1>9 DEF SwitchInv

(* A key moved: it alone is in one of the sets of keys and not in the other. *)
LEMMA MovedKey ==
  ASSUME NEW k \in Keys, NEW isdown \in BOOLEAN, down' # down,
         down' = IF isdown THEN down \cup {k} ELSE down \ {k}
  PROVE  /\ k = CHOOSE x \in Keys : (x \in down) # (x \in down')
         /\ isdown = (k \in down')
  <1>1. (k \in down) # (k \in down')
    OBVIOUS
  <1>2. \A x \in Keys : (x \in down) # (x \in down') => x = k
    OBVIOUS
  <1>3. isdown = (k \in down')
    OBVIOUS
  <1> QED
    BY <1>1, <1>2, <1>3

LEMMA KeyStep ==
  ASSUME SwitchInv, NEW k \in Keys, NEW isdown \in BOOLEAN, KeyEvent(k, isdown),
         down' # down, NEW i \in DOMAIN key
  PROVE  LET x == CHOOSE x \in Keys : (x \in down) # (x \in down')
         IN  IF key[i] # x THEN i \in DOMAIN enable => enable'[i] = enable[i]
             ELSE /\ BehaviorOf(i) = "HOLD" => enable'[i] = (x \in down')
                  /\ BehaviorOf(i) = "INVERSE_HOLD" => enable'[i] = (x \notin down')
  <1>1. /\ k = CHOOSE x \in Keys : (x \in down) # (x \in down')
        /\ isdown = (k \in down')
    BY MovedKey DEF KeyEvent
  <1>2. CASE key[i] # k
    <2>1. i \notin Answered(k, isdown)
      BY <1>2 DEF Answered, Answers
    <2> QED
      BY <1>1, <1>2, <2>1, KeyKeeps
  <1>3. CASE key[i] = k
    <2>1. ASSUME BehaviorOf(i) \in {"HOLD", "INVERSE_HOLD"}
          PROVE  i \in Answered(k, isdown)
      BY <1>3, <2>1 DEF Answered, Answers
    <2>2. BehaviorOf(i) = "HOLD" => enable'[i] = (k \in down')
      BY <1>1, <2>1, KeyKeeps
    <2>3. BehaviorOf(i) = "INVERSE_HOLD" => enable'[i] = (k \notin down')
      <3> SUFFICES ASSUME BehaviorOf(i) = "INVERSE_HOLD" PROVE enable'[i] = (k \notin down')
        OBVIOUS
      <3>1. enable'[i] = ~isdown
        BY <2>1, KeyKeeps
      <3> QED
        BY <1>1, <3>1
    <2> QED
      BY <1>1, <1>3, <2>2, <2>3
  <1> QED
    BY <1>2, <1>3

(* A key that goes down or up leaves every entry it holds as its being down *)
(* asks, and entries of other keys alone, however many entries and keys.    *)
THEOREM KeysAreObeyed == SwitchSpec => KeysObeyed
  <1>1. SwitchInit => SwitchInv
    BY DEF SwitchInit, SwitchInv
  <1>2. SwitchInv /\ [SwitchNext]_switchvars => SwitchInv'
    <2> SUFFICES ASSUME SwitchInv, [SwitchNext]_switchvars PROVE SwitchInv'
      OBVIOUS
    <2>1. ASSUME NEW ks \in UNION {[1..n -> Keys] : n \in 1..MaxKeys}, NEW bs, SetKeys(ks, bs)
          PROVE  SwitchInv'
      <3>1. PICK n \in 1..MaxKeys : ks \in [1..n -> Keys]
        OBVIOUS
      <3>2. n \in Nat /\ DOMAIN ks = 1..n
        BY <3>1
      <3> QED
        BY <2>1, <3>2 DEF SetKeys, SwitchInv
    <2>2. ASSUME NEW n \in Children, SetChildren(n) PROVE SwitchInv'
      BY <2>2 DEF SetChildren, SwitchInv
    <2>3. ASSUME NEW k \in Keys, NEW d \in BOOLEAN, KeyEvent(k, d) PROVE SwitchInv'
      BY <2>3, KeyKeeps
    <2>4. CASE UNCHANGED switchvars
      BY <2>4 DEF switchvars, SwitchInv
    <2> QED
      BY <2>1, <2>2, <2>3, <2>4 DEF SwitchNext
  <1> DEFINE Obeyed ==
        down' # down =>
          \A i \in DOMAIN key :
            LET k == CHOOSE x \in Keys : (x \in down) # (x \in down')
            IN  IF key[i] # k THEN i \in DOMAIN enable => enable'[i] = enable[i]
                ELSE /\ BehaviorOf(i) = "HOLD" => enable'[i] = (k \in down')
                     /\ BehaviorOf(i) = "INVERSE_HOLD" => enable'[i] = (k \notin down')
  <1>3. SwitchInv /\ [SwitchNext]_switchvars => [Obeyed]_switchvars
    <2> SUFFICES ASSUME SwitchInv, [SwitchNext]_switchvars, down' # down PROVE Obeyed
      OBVIOUS
    <2>1. PICK k \in Keys, d \in BOOLEAN : KeyEvent(k, d)
      BY DEF SwitchNext, SetKeys, SetChildren, switchvars
    <2> QED
      BY <2>1, KeyStep
  <1> QED
    BY <1>1, <1>2, <1>3, PTL DEF SwitchSpec, KeysObeyed

(* What is drawn is a part of what has a box, by the way they are found.    *)
LEMMA TraversedInBox == DrawnIsBoxed
  BY DEF DrawnIsBoxed, Traversed, BoxTraversed

-----------------------------------------------------------------------------
(* The dragged angle.  A remainder is what is left after whole turns.       *)
LEMMA Remainder ==
  ASSUME NEW t \in Nat, t > 0, NEW a \in Int
  PROVE  a % t \in 0..(t - 1) /\ \E q \in Int : a = q * t + (a % t)
  <1>1. a % t \in 0..(t - 1) /\ a = t * (a \div t) + (a % t) /\ a \div t \in Int
    BY Z3
  <1> QED
    BY <1>1, Z3

LEMMA LeftAfterTurns ==
  ASSUME NEW t \in Nat, t > 0, NEW a \in Int, NEW q \in Int, NEW r \in 0..(t - 1),
         a = q * t + r
  PROVE  a % t = r
  <1>1. PICK p \in Int : a = p * t + (a % t)
    BY Remainder
  <1>2. a % t \in 0..(t - 1)
    BY Remainder
  <1>3. (p - q) * t = r - (a % t)
    BY <1>1, <1>2, Z3
  <1>4. ASSUME p - q >= 1 PROVE FALSE
    <2>1. (p - q) * t >= t
      BY <1>4, Z3
    <2> QED
      BY <1>2, <1>3, <2>1
  <1>5. ASSUME p - q =< -1 PROVE FALSE
    <2>1. (p - q) * t =< -t
      BY <1>5, Z3
    <2> QED
      BY <1>2, <1>3, <2>1
  <1>6. p = q
    BY <1>4, <1>5
  <1> QED
    BY <1>2, <1>3, <1>6, Z3

(* A rotation further is where the sum of the angles is.                    *)
LEMMA RotatedFurther ==
  ASSUME NEW t \in Nat, t > 0, NEW a \in Int, NEW b \in Int
  PROVE  ((a % t) + b) % t = (a + b) % t
  <1>1. PICK p \in Int : a = p * t + (a % t)
    BY Remainder
  <1>2. PICK c \in Int : c = (a % t) + b
    BY Remainder
  <1>3. PICK q \in Int : c = q * t + (c % t)
    BY Remainder
  <1>4. a % t \in Int /\ c % t \in 0..(t - 1)
    BY Remainder
  <1>5. p * t + q * t = (p + q) * t
    BY Z3
  <1>6. a + b = (p + q) * t + (c % t)
    BY <1>1, <1>2, <1>3, <1>4, <1>5
  <1> QED
    <2>1. PICK k \in Int, r \in 0..(t - 1), d \in Int :
            k = p + q /\ r = c % t /\ d = a + b
      BY <1>1, <1>3, <1>4
    <2>2. d = k * t + r
      BY <1>6, <2>1
    <2>3. d % t = r
      BY <2>1, <2>2, LeftAfterTurns
    <2> QED
      BY <1>2, <2>1, <2>3

(* atan2: within half a turn, whole turns away.                             *)
LEMMA HalfTurn ==
  ASSUME AngleAssumption, NEW a \in Int
  PROVE  /\ Atan2(a) \in Int /\ 2 * Atan2(a) =< Turn /\ 2 * Atan2(a) > -Turn
         /\ \E q \in Int : a = q * Turn + Atan2(a)
  <1>1. Turn \in Nat /\ Turn > 0
    BY DEF AngleAssumption
  <1>2. PICK q \in Int : a = q * Turn + (a % Turn)
    BY <1>1, Remainder
  <1>3. PICK m \in 0..(Turn - 1) : m = a % Turn
    BY <1>1, Remainder
  <1>4. CASE 2 * m > Turn
    <2>1. Atan2(a) = m - Turn
      BY <1>3, <1>4 DEF Atan2
    <2>2. a = (q + 1) * Turn + (m - Turn) /\ q + 1 \in Int
      BY <1>1, <1>2, <1>3, Z3
    <2>3. \E p \in Int : a = p * Turn + (m - Turn)
      BY <2>2
    <2> QED
      BY <1>1, <1>4, <2>1, <2>3
  <1>5. CASE ~(2 * m > Turn)
    <2>1. Atan2(a) = m
      BY <1>3, <1>5 DEF Atan2
    <2>2. \E p \in Int : a = p * Turn + m
      BY <1>2, <1>3
    <2> QED
      BY <1>1, <1>5, <2>1, <2>2
  <1> QED
    BY <1>4, <1>5

LEMMA LessThanTwoTurns ==
  ASSUME NEW t \in Nat, t > 0, NEW k \in Int, k * t < 2 * t, k * t > -(2 * t)
  PROVE  k * t \in {-t, 0, t}
  <1>1. ASSUME k >= 2 PROVE FALSE
    <2>1. k * t >= 2 * t
      BY <1>1, Z3
    <2> QED
      BY <2>1
  <1>2. ASSUME k =< -2 PROVE FALSE
    <2>1. k * t =< -(2 * t)
      BY <1>2, Z3
    <2> QED
      BY <2>1
  <1>3. k \in {-1, 0, 1}
    BY <1>1, <1>2
  <1> QED
    BY <1>3

LEMMA GoneAround ==
  ASSUME NEW a \in Int, NEW b \in Int, NEW s \in Int, NEW w \in Int, NEW g \in Int,
         NEW l \in Int, NEW t \in Int, b = a + s, a = w + l, b = g + w + t
  PROVE  g = s + l - t
  OBVIOUS

(* A step below ten degrees: the turns that are added are those gone around. *)
LEMMA TurnsAdded ==
  ASSUME AngleAssumption, NEW a \in Int, NEW s \in (-Step)..Step, NEW b \in Int, b = a + s,
         lastAngle = Atan2(a), adder = a - lastAngle
  PROVE  Adder(Atan2(b)) = b - Atan2(b)
  <1> DEFINE tmp == Atan2(b)
  <1>1. Turn \in Nat /\ Turn > 0 /\ Step \in Nat /\ 36 * Step < Turn
    BY DEF AngleAssumption
  <1>2. PICK p \in Int : a = p * Turn + lastAngle
    BY HalfTurn
  <1>3. lastAngle \in Int /\ 2 * lastAngle =< Turn /\ 2 * lastAngle > -Turn
    BY HalfTurn
  <1>4. s \in Int
    BY <1>1
  <1>5. PICK q \in Int : b = q * Turn + tmp
    BY HalfTurn
  <1>6. tmp \in Int /\ 2 * tmp =< Turn /\ 2 * tmp > -Turn
    BY HalfTurn
  <1> HIDE DEF tmp
  <1>7. PICK k \in Int : k = q - p
    OBVIOUS
  <1>8. PICK gone \in Int : gone = k * Turn
    BY <1>1
  <1>9. PICK whole \in Int : whole = p * Turn
    BY <1>1
  <1>10. q * Turn = gone + whole
    BY <1>1, <1>7, <1>8, <1>9, Z3
  <1>11. a = whole + lastAngle /\ b = gone + whole + tmp
    BY <1>2, <1>5, <1>9, <1>10
  <1>12. gone = s + lastAngle - tmp
    BY <1>3, <1>4, <1>6, <1>11, GoneAround
  <1>13. gone < 2 * Turn /\ gone > -(2 * Turn)
    BY <1>1, <1>3, <1>6, <1>12
  <1>14. gone \in {-Turn, 0, Turn}
    BY <1>1, <1>8, <1>13, LessThanTwoTurns
  <1>15. adder + gone = b - tmp
    BY <1>1, <1>3, <1>6, <1>12
  <1>16. Adder(tmp) = adder + gone
    <2>1. CASE gone = 0
      <3>1. ~Around(tmp)
        BY <1>1, <1>3, <1>6, <1>12, <2>1 DEF Around
      <3> QED
        BY <1>3, <2>1, <3>1 DEF Adder
    <2>2. CASE gone = Turn
      <3>1. Around(tmp) /\ ~(lastAngle < 0)
        BY <1>1, <1>3, <1>6, <1>12, <2>2 DEF Around
      <3> QED
        BY <2>2, <3>1 DEF Adder
    <2>3. CASE gone = -Turn
      <3>1. Around(tmp) /\ lastAngle < 0
        BY <1>1, <1>3, <1>6, <1>12, <2>3 DEF Around
      <3> QED
        BY <1>1, <1>3, <2>3, <3>1 DEF Adder
    <2> QED
      BY <1>14, <2>1, <2>2, <2>3
  <1> QED
    BY <1>15, <1>16 DEF tmp

(* In a drag what was added is the whole turns of it, and the rotation it   *)
(* began from is that of the angle it began from.                           *)
AngleType == /\ angle \in Int /\ startDrag \in Int /\ turned \in Int
             /\ angle % Turn = matrix
Counting == dragging => /\ lastAngle = Atan2(turned) /\ adder = turned - lastAngle
                        /\ startMatrix = startDrag % Turn
AngleInv == AngleType /\ Counting

LEMMA AngleBegins == AngleAssumption /\ AngleInit => AngleInv
  <1> SUFFICES ASSUME AngleAssumption, AngleInit PROVE AngleInv
    OBVIOUS
  <1>1. Turn \in Nat /\ Turn > 0
    BY DEF AngleAssumption
  <1>2. 0 = 0 * Turn + 0 /\ 0 \in 0..(Turn - 1)
    BY <1>1
  <1>3. 0 % Turn = 0
    BY <1>1, <1>2, LeftAfterTurns
  <1> QED
    BY <1>3 DEF AngleInit, AngleInv, AngleType, Counting

LEMMA DragKeeps ==
  ASSUME AngleAssumption, AngleInv, NEW s \in (-Step)..Step, Drag(s)
  PROVE  AngleInv' /\ angle' = startDrag + turned'
  <1>1. /\ Turn \in Nat /\ Turn > 0 /\ Step \in Nat
    BY DEF AngleAssumption
  <1>2. /\ turned \in Int /\ startDrag \in Int /\ startMatrix = startDrag % Turn
        /\ lastAngle = Atan2(turned) /\ adder = turned - lastAngle
    BY DEF AngleInv, AngleType, Counting, Drag
  <1>3. PICK t \in Int : t = turned + s
    BY <1>1, <1>2
  <1>4. Adder(Atan2(t)) = t - Atan2(t)
    BY <1>2, <1>3, TurnsAdded
  <1>5. Atan2(t) \in Int
    BY HalfTurn
  <1>6. /\ turned' = t /\ lastAngle' = Atan2(t) /\ adder' = Adder(Atan2(t))
        /\ angle' = startDrag + Atan2(t) + adder'
        /\ matrix' = (startMatrix + turned + s) % Turn
        /\ startDrag' = startDrag /\ startMatrix' = startMatrix /\ dragging'
    BY <1>3 DEF Drag
  <1>7. angle' = startDrag + t
    BY <1>2, <1>4, <1>5, <1>6
  <1>8. startMatrix + turned + s = (startDrag % Turn) + t
    BY <1>1, <1>2, <1>3, Remainder
  <1>9. matrix' = (startDrag + t) % Turn
    BY <1>1, <1>2, <1>6, <1>8, RotatedFurther
  <1>10. AngleType'
    BY <1>2, <1>6, <1>7, <1>9 DEF AngleType
  <1>11. Counting'
    <2>1. Atan2(turned)' = Atan2(t)
      BY <1>6 DEF Atan2
    <2> QED
      BY <1>2, <1>4, <1>6, <2>1 DEF Counting
  <1> QED
    BY <1>6, <1>7, <1>10, <1>11 DEF AngleInv

LEMMA DragBegins ==
  ASSUME AngleAssumption, AngleInv, DragStart
  PROVE  AngleInv'
  <1>1. Turn \in Nat /\ Turn > 0
    BY DEF AngleAssumption
  <1>2. 0 = 0 * Turn + 0 /\ 0 \in 0..(Turn - 1)
    BY <1>1
  <1>3. 0 % Turn = 0
    BY <1>1, <1>2, LeftAfterTurns
  <1>4. /\ lastAngle' = 0 /\ adder' = 0 /\ turned' = 0 /\ angle' = angle /\ matrix' = matrix
        /\ startDrag' = angle /\ startMatrix' = matrix
    BY DEF DragStart
  <1>5. Atan2(turned)' = 0
    BY <1>1, <1>3, <1>4 DEF Atan2
  <1> QED
    BY <1>4, <1>5 DEF AngleInv, AngleType, Counting

LEMMA AngleStep ==
  ASSUME AngleAssumption, AngleInv, [AngleNext]_anglevars
  PROVE  AngleInv' /\ (angle' # angle /\ turned' # turned => angle' = startDrag + turned')
  <1>1. ASSUME NEW a \in Angles, SetAngle(a)
        PROVE  AngleInv' /\ turned' = turned
    <2>1. a \in Int
      BY DEF AngleAssumption
    <2> QED
      BY <1>1, <2>1 DEF SetAngle, AngleInv, AngleType, Counting, Atan2
  <1>2. CASE DragStart
    BY <1>2, DragBegins DEF DragStart
  <1>3. CASE DragFinish
    BY <1>3 DEF DragFinish, AngleInv, AngleType, Counting
  <1>4. ASSUME NEW s \in (-Step)..Step, Drag(s)
        PROVE  AngleInv' /\ angle' = startDrag + turned'
    BY <1>4, DragKeeps
  <1>5. CASE UNCHANGED anglevars
    BY <1>5 DEF anglevars, AngleInv, AngleType, Counting, Atan2
  <1> QED
    BY <1>1, <1>2, <1>3, <1>4, <1>5 DEF AngleNext

(* Whoever turns the angle or the matrix, they agree.                       *)
THEOREM AngleIsSeen == AngleAssumption => (AngleSpec => []AngleSeen)
  <1> SUFFICES ASSUME AngleAssumption PROVE AngleSpec => []AngleSeen
    OBVIOUS
  <1>1. AngleInit => AngleInv
    BY AngleBegins
  <1>2. AngleInv /\ [AngleNext]_anglevars => AngleInv'
    BY AngleStep
  <1>3. AngleInv => AngleSeen
    BY DEF AngleInv, AngleType, AngleSeen
  <1> QED
    BY <1>1, <1>2, <1>3, PTL DEF AngleSpec

(* A drag in steps below ten degrees counts every turn, for any finer       *)
(* division of the circle and however far it goes.                          *)
THEOREM TurnsAreCounted == AngleAssumption => (AngleSpec => TurnsCounted)
  <1> SUFFICES ASSUME AngleAssumption PROVE AngleSpec => TurnsCounted
    OBVIOUS
  <1> DEFINE Counted == angle' # angle /\ turned' # turned => angle' = startDrag + turned'
  <1>1. AngleInit => AngleInv
    BY AngleBegins
  <1>2. AngleInv /\ [AngleNext]_anglevars => AngleInv' /\ [Counted]_anglevars
    BY AngleStep
  <1> QED
    BY <1>1, <1>2, PTL DEF AngleSpec, TurnsCounted

-----------------------------------------------------------------------------
(* The translation within a range.                                          *)
RangeInv == /\ range.low \in Int /\ range.high \in Int /\ range.low =< range.high
            /\ translation \in Int /\ inner = translation

LEMMA RangeStep ==
  ASSUME RangeAssumption, RangeInv, [RangeNext]_rangevars
  PROVE  /\ RangeInv'
         /\ arrows' # arrows =>
              /\ translation' \in range.low..range.high
              /\ "front" \notin arrows' => translation' = range.high
              /\ "rear" \notin arrows' => translation' = range.low
  <1>1. ASSUME NEW x \in Locations, DraggerCallback(x)
        PROVE  /\ RangeInv' /\ translation' \in range.low..range.high
               /\ "front" \notin arrows' => translation' = range.high
               /\ "rear" \notin arrows' => translation' = range.low
    <2>1. x \in Int
      BY DEF RangeAssumption
    <2>2. Clamped(x) \in range.low..range.high
      BY <2>1 DEF Clamped, RangeInv
    <2>3. inner' = Clamped(x) /\ translation' = Clamped(x) /\ range' = range
      BY <1>1 DEF DraggerCallback
    <2>4. RangeInv'
      BY <2>2, <2>3 DEF RangeInv
    <2>5. ASSUME "front" \notin arrows' PROVE x > range.high
      BY <1>1, <2>5 DEF DraggerCallback
    <2>6. ASSUME "rear" \notin arrows' PROVE ~(x > range.high) /\ x < range.low
      BY <1>1, <2>6 DEF DraggerCallback
    <2> QED
      BY <2>2, <2>3, <2>4, <2>5, <2>6 DEF Clamped
  <1>2. ASSUME NEW x \in Locations, SetTranslation(x)
        PROVE  RangeInv' /\ arrows' = arrows
    BY <1>2 DEF SetTranslation, RangeInv, RangeAssumption
  <1>3. ASSUME NEW r \in Ranges, SetRange(r)
        PROVE  RangeInv' /\ arrows' = arrows
    BY <1>3 DEF SetRange, RangeInv, RangeAssumption
  <1>4. CASE UNCHANGED rangevars
    BY <1>4 DEF rangevars, RangeInv
  <1> QED
    BY <1>1, <1>2, <1>3, <1>4 DEF RangeNext

(* The dragger inside is where the field says, for any range.               *)
THEOREM InnerIsFollowed == RangeAssumption => (RangeSpec => []InnerFollows)
  <1> SUFFICES ASSUME RangeAssumption PROVE RangeSpec => []InnerFollows
    OBVIOUS
  <1>1. RangeInit => RangeInv
    BY DEF RangeInit, RangeInv
  <1>2. RangeInv /\ [RangeNext]_rangevars => RangeInv'
    BY RangeStep
  <1>3. RangeInv => InnerFollows
    BY DEF RangeInv, InnerFollows
  <1> QED
    BY <1>1, <1>2, <1>3, PTL DEF RangeSpec

(* Dragged, it stays in the range and shows no arrow to where it ends.      *)
THEOREM DragsInRange == RangeAssumption => (RangeSpec => DraggedInRange)
  <1> SUFFICES ASSUME RangeAssumption PROVE RangeSpec => DraggedInRange
    OBVIOUS
  <1> DEFINE Shown == arrows' # arrows =>
                        /\ translation' \in range.low..range.high
                        /\ "front" \notin arrows' => translation' = range.high
                        /\ "rear" \notin arrows' => translation' = range.low
  <1>1. RangeInit => RangeInv
    BY DEF RangeInit, RangeInv
  <1>2. RangeInv /\ [RangeNext]_rangevars => RangeInv' /\ [Shown]_rangevars
    BY RangeStep
  <1> QED
    BY <1>1, <1>2, PTL DEF RangeSpec, DraggedInRange

-----------------------------------------------------------------------------
(* The points of a camera path.                                             *)

(* The number that point k of the new order had in the old one, when idx    *)
(* moves to slot.                                                           *)
Which(slot, idx, k) ==
    IF k = NewIndex(slot, idx) THEN idx
    ELSE IF slot > idx THEN IF k < idx \/ k >= slot THEN k ELSE k + 1
    ELSE IF k < slot \/ k > idx THEN k ELSE k - 1

Sorted(s) == \A i, j \in DOMAIN s : i =< j => s[i] =< s[j]
Distinct(s) == \A i, j \in DOMAIN s : i # j => s[i][1] # s[j][1]

With(l, s, i, e) ==
    /\ Len(l) = Len(s) + 1
    /\ \A k \in 1..(Len(s) + 1) : l[k] = IF k < i THEN s[k] ELSE IF k = i THEN e ELSE s[k - 1]

LEMMA InsertedIs ==
  ASSUME NEW S, NEW s \in Seq(S), NEW i \in 1..(Len(s) + 1), NEW e \in S
  PROVE  InsertAt(s, i, e) \in Seq(S) /\ With(InsertAt(s, i, e), s, i, e)
  <1> DEFINE a == SubSeq(s, 1, i - 1)
             c == SubSeq(s, i, Len(s))
  <1>1. Len(s) \in Nat /\ i \in Int
    OBVIOUS
  <1>2. a \in Seq(S) /\ Len(a) = i - 1 /\ \A k \in 1..(i - 1) : a[k] = s[k]
    BY <1>1
  <1>3. /\ c \in Seq(S) /\ Len(c) = Len(s) - i + 1
        /\ \A k \in 1..(Len(s) - i + 1) : c[k] = s[i + k - 1]
    BY <1>1
  <1> HIDE DEF a, c
  <1>4. /\ <<e>> \o c \in Seq(S) /\ Len(<<e>> \o c) = Len(s) - i + 2 /\ (<<e>> \o c)[1] = e
        /\ \A k \in 2..(Len(s) - i + 2) : (<<e>> \o c)[k] = c[k - 1]
    BY <1>1, <1>3
  <1> DEFINE d == <<e>> \o c
  <1>5. /\ d \in Seq(S) /\ Len(d) = Len(s) - i + 2 /\ d[1] = e
        /\ \A k \in 2..(Len(s) - i + 2) : d[k] = s[i + k - 2]
    BY <1>1, <1>3, <1>4
  <1>6. InsertAt(s, i, e) = a \o d
    <2>1. InsertAt(s, i, e) = a \o <<e>> \o c
      BY DEF InsertAt, a, c
    <2> QED
      BY <2>1, <1>2, <1>3
  <1> HIDE DEF d
  <1>7. a \o d \in Seq(S) /\ Len(a \o d) = Len(s) + 1
    BY <1>1, <1>2, <1>5
  <1>8. ASSUME NEW k \in 1..(Len(s) + 1)
        PROVE  (a \o d)[k] = IF k < i THEN s[k] ELSE IF k = i THEN e ELSE s[k - 1]
    <2>1. (a \o d)[k] = IF k =< Len(a) THEN a[k] ELSE d[k - Len(a)]
      BY <1>1, <1>2, <1>5, <1>8
    <2>2. CASE k < i
      BY <2>1, <2>2, <1>1, <1>2, <1>8
    <2>3. CASE k = i
      BY <2>1, <2>3, <1>1, <1>2, <1>5, <1>8
    <2>4. CASE k > i
      <3>1. k - Len(a) \in 2..(Len(s) - i + 2) /\ i + (k - Len(a)) - 2 = k - 1
        BY <2>4, <1>1, <1>2, <1>8
      <3> QED
        BY <3>1, <2>1, <2>4, <1>1, <1>2, <1>5, <1>8
    <2> QED
      <3>1. k < i \/ k = i \/ k > i
        BY <1>1, <1>8
      <3> QED
        BY <3>1, <2>2, <2>3, <2>4
  <1> QED
    BY <1>6, <1>7, <1>8 DEF With

Without(l, s, i) ==
    /\ Len(l) = Len(s) - 1
    /\ \A k \in 1..(Len(s) - 1) : l[k] = IF k < i THEN s[k] ELSE s[k + 1]

LEMMA RemovedIs ==
  ASSUME NEW S, NEW s \in Seq(S), NEW i \in 1..Len(s)
  PROVE  RemoveAt(s, i) \in Seq(S) /\ Without(RemoveAt(s, i), s, i)
  <1> DEFINE a == SubSeq(s, 1, i - 1)
             c == SubSeq(s, i + 1, Len(s))
  <1>1. Len(s) \in Nat /\ i \in Int
    OBVIOUS
  <1>2. a \in Seq(S) /\ Len(a) = i - 1 /\ \A k \in 1..(i - 1) : a[k] = s[k]
    BY <1>1
  <1>3. /\ c \in Seq(S) /\ Len(c) = Len(s) - i
        /\ \A k \in 1..(Len(s) - i) : c[k] = s[i + k]
    BY <1>1
  <1> HIDE DEF a, c
  <1>4. a \o c \in Seq(S) /\ Len(a \o c) = Len(s) - 1
    <2>1. a \in Seq(S) /\ c \in Seq(S)
      BY <1>2, <1>3
    <2>2. a \o c \in Seq(S) /\ Len(a \o c) = Len(a) + Len(c)
      BY <2>1
    <2> QED
      BY <2>2, <1>1, <1>2, <1>3
  <1>5. ASSUME NEW k \in 1..(Len(s) - 1)
        PROVE  (a \o c)[k] = IF k < i THEN s[k] ELSE s[k + 1]
    <2>1. (a \o c)[k] = IF k =< Len(a) THEN a[k] ELSE c[k - Len(a)]
      BY <1>1, <1>2, <1>3, <1>5
    <2>2. CASE k < i
      BY <2>1, <2>2, <1>1, <1>2, <1>5
    <2>3. CASE k >= i
      <3>1. k - Len(a) \in 1..(Len(s) - i) /\ i + (k - Len(a)) = k + 1
        BY <2>3, <1>1, <1>2, <1>5
      <3> QED
        BY <3>1, <2>1, <2>3, <1>1, <1>2, <1>3, <1>5
    <2> QED
      <3>1. k < i \/ k >= i
        BY <1>1, <1>5
      <3> QED
        BY <3>1, <2>2, <2>3
  <1> QED
    BY <1>4, <1>5 DEF RemoveAt, Without, a, c

(* Insertion and removal together move one point.                           *)
MoveOf(m, s, slot, idx, e) ==
    /\ Len(m) = Len(s)
    /\ \A k \in 1..Len(s) : m[k] = IF k = NewIndex(slot, idx) THEN e ELSE s[Which(slot, idx, k)]

LEMMA MovedIs ==
  ASSUME NEW S, NEW s \in Seq(S), NEW idx \in 1..Len(s), NEW slot \in 1..(Len(s) + 1), NEW e \in S
  PROVE  /\ Moved(s, slot, idx, e) \in Seq(S)
         /\ MoveOf(Moved(s, slot, idx, e), s, slot, idx, e)
  <1>1. Len(s) \in Nat /\ idx \in Int /\ slot \in Int
    OBVIOUS
  <1>2. CASE slot = idx
    <2>1. Moved(s, slot, idx, e) = [s EXCEPT ![idx] = e]
      BY <1>2 DEF Moved
    <2> QED
      BY <2>1, <1>1, <1>2 DEF NewIndex, Which, MoveOf
  <1>3. CASE slot # idx
    <2> DEFINE in == InsertAt(s, slot, e)
               out == IF slot < idx THEN idx + 1 ELSE idx
    <2>1. Moved(s, slot, idx, e) = RemoveAt(in, out)
      BY <1>3 DEF Moved
    <2>2. /\ in \in Seq(S) /\ Len(in) = Len(s) + 1
          /\ \A k \in 1..(Len(s) + 1) :
                in[k] = IF k < slot THEN s[k] ELSE IF k = slot THEN e ELSE s[k - 1]
      <3>1. in \in Seq(S) /\ With(in, s, slot, e)
        BY InsertedIs
      <3> QED
        BY <3>1 DEF With
    <2> HIDE DEF in
    <2>3. out \in 1..Len(in) /\ out \in Int
      BY <1>1, <2>2
    <2> HIDE DEF out
    <2>4. /\ RemoveAt(in, out) \in Seq(S) /\ Len(RemoveAt(in, out)) = Len(in) - 1
          /\ \A k \in 1..(Len(in) - 1) :
                RemoveAt(in, out)[k] = IF k < out THEN in[k] ELSE in[k + 1]
      BY <2>2, <2>3, RemovedIs DEF Without
    <2>5. ASSUME NEW k \in 1..Len(s)
          PROVE  RemoveAt(in, out)[k]
                   = IF k = NewIndex(slot, idx) THEN e ELSE s[Which(slot, idx, k)]
      <3>1. RemoveAt(in, out)[k] = IF k < out THEN in[k] ELSE in[k + 1]
        BY <2>2, <2>4, <2>5, <1>1
      <3>2. /\ in[k] = IF k < slot THEN s[k] ELSE IF k = slot THEN e ELSE s[k - 1]
            /\ in[k + 1] = IF k + 1 < slot THEN s[k + 1] ELSE IF k + 1 = slot THEN e ELSE s[k]
        <4>1. k \in 1..(Len(s) + 1) /\ k + 1 \in 1..(Len(s) + 1) /\ (k + 1) - 1 = k
          BY <1>1, <2>5
        <4> QED
          BY <2>2, <4>1
      <3>3. CASE slot < idx
        BY <3>1, <3>2, <3>3, <1>1, <2>5 DEF NewIndex, Which, out
      <3>4. CASE slot > idx
        BY <3>1, <3>2, <3>4, <1>1, <2>5 DEF NewIndex, Which, out
      <3> QED
        BY <3>3, <3>4, <1>1, <1>3
    <2> QED
      BY <2>1, <2>2, <2>4, <2>5, <1>1 DEF MoveOf
  <1> QED
    BY <1>2, <1>3

(* The point goes in front of the first that is not before it.              *)
LEMMA SlotIs ==
  ASSUME NEW times \in Seq(Int), NEW t \in Int, Sorted(times)
  PROVE  /\ Slot(times, t) \in 1..(Len(times) + 1)
         /\ \A k \in 1..Len(times) : k < Slot(times, t) => times[k] < t
         /\ \A k \in 1..Len(times) : k >= Slot(times, t) => t =< times[k]
  <1>1. Len(times) \in Nat /\ DOMAIN times = 1..Len(times)
    OBVIOUS
  <1>2. \A k \in 1..Len(times) : times[k] \in Int
    OBVIOUS
  <1>3. After(times, t) \in SUBSET Nat
    BY <1>1 DEF After
  <1>4. CASE After(times, t) = {}
    <2>1. Slot(times, t) = Len(times) + 1
      BY <1>4 DEF Slot
    <2>2. \A k \in 1..Len(times) : times[k] < t
      BY <1>1, <1>2, <1>4 DEF After
    <2> QED
      BY <2>1, <2>2, <1>1
  <1>5. CASE After(times, t) # {}
    <2> DEFINE m == Slot(times, t)
    <2>1. m \in After(times, t) /\ \A i \in After(times, t) : m =< i
      BY <1>3, <1>5, HasSmallest DEF Slot
    <2> HIDE DEF m
    <2>2. m \in 1..Len(times) /\ t =< times[m]
      BY <2>1, <1>1 DEF After
    <2>3. ASSUME NEW k \in 1..Len(times), k < m PROVE times[k] < t
      <3>1. k \notin After(times, t)
        BY <2>1, <2>2, <2>3
      <3> QED
        BY <3>1, <2>3, <1>1, <1>2 DEF After
    <2>4. ASSUME NEW k \in 1..Len(times), k >= m PROVE t =< times[k]
      <3>1. times[m] =< times[k]
        BY <2>2, <2>4, <1>1 DEF Sorted
      <3>2. times[m] \in Int /\ times[k] \in Int
        BY <2>2, <2>4, <1>2
      <3> QED
        BY <3>1, <3>2, <2>2
    <2> QED
      BY <2>2, <2>3, <2>4, <1>1 DEF m
  <1> QED
    BY <1>4, <1>5

(* Moving a point renumbers the others, one to one and in their order.      *)
Renumbers(slot, idx, n) ==
    /\ NewIndex(slot, idx) \in 1..n
    /\ \A k \in 1..n : /\ Which(slot, idx, k) \in 1..n
                       /\ Which(slot, idx, k) = idx <=> k = NewIndex(slot, idx)
                       /\ k < NewIndex(slot, idx) => Which(slot, idx, k) < slot
                       /\ k > NewIndex(slot, idx) => Which(slot, idx, k) >= slot
    /\ \A i, k \in 1..n : i # k => Which(slot, idx, i) # Which(slot, idx, k)
    /\ \A i, k \in 1..n : i < k /\ i # NewIndex(slot, idx) /\ k # NewIndex(slot, idx)
                            => Which(slot, idx, i) < Which(slot, idx, k)

LEMMA WhichIs ==
  ASSUME NEW n \in Nat, NEW idx \in 1..n, NEW slot \in 1..(n + 1)
  PROVE  Renumbers(slot, idx, n)
  <1>1. idx \in Int /\ slot \in Int
    OBVIOUS
  <1>2. NewIndex(slot, idx) \in 1..n
    BY <1>1 DEF NewIndex
  <1>3. ASSUME NEW k \in 1..n
        PROVE  /\ Which(slot, idx, k) \in 1..n
               /\ Which(slot, idx, k) = idx <=> k = NewIndex(slot, idx)
               /\ k < NewIndex(slot, idx) => Which(slot, idx, k) < slot
               /\ k > NewIndex(slot, idx) => Which(slot, idx, k) >= slot
    BY <1>1, <1>3 DEF NewIndex, Which
  <1>4. ASSUME NEW i \in 1..n, NEW k \in 1..n, i # k
        PROVE  Which(slot, idx, i) # Which(slot, idx, k)
    BY <1>1, <1>4 DEF NewIndex, Which
  <1>5. ASSUME NEW i \in 1..n, NEW k \in 1..n, i < k,
               i # NewIndex(slot, idx), k # NewIndex(slot, idx)
        PROVE  Which(slot, idx, i) < Which(slot, idx, k)
    BY <1>1, <1>5 DEF NewIndex, Which
  <1> QED
    BY <1>2, <1>3, <1>4, <1>5 DEF Renumbers

(* activePoint is renumbered as the points are.                             *)
LEMMA FollowedIs ==
  ASSUME NEW n \in Nat, NEW idx \in 1..n, NEW slot \in 1..(n + 1), NEW a \in 1..n
  PROVE  /\ Followed(a, idx, NewIndex(slot, idx)) \in 1..n
         /\ Which(slot, idx, Followed(a, idx, NewIndex(slot, idx))) = a
  <1>1. idx \in Int /\ slot \in Int /\ a \in Int
    OBVIOUS
  <1> QED
    BY <1>1 DEF NewIndex, Which, Followed

(* Times that were sorted are so after one of them has changed.             *)
LEMMA MovedSorted ==
  ASSUME NEW s \in Seq(Int), NEW t \in Int, NEW idx \in 1..Len(s), Sorted(s)
  PROVE  Sorted(Moved(s, Slot(s, t), idx, t))
  <1> DEFINE slot == Slot(s, t)
             j == NewIndex(slot, idx)
             m == Moved(s, slot, idx, t)
             n == Len(s)
  <1>1. n \in Nat /\ \A k \in 1..n : s[k] \in Int
    OBVIOUS
  <1>2. /\ slot \in 1..(n + 1)
        /\ \A k \in 1..n : k < slot => s[k] < t
        /\ \A k \in 1..n : k >= slot => t =< s[k]
    BY SlotIs
  <1> HIDE DEF slot
  <1>3. /\ m \in Seq(Int) /\ Len(m) = n
        /\ \A k \in 1..n : m[k] = IF k = j THEN t ELSE s[Which(slot, idx, k)]
    <2>1. slot \in 1..(Len(s) + 1) /\ t \in Int
      BY <1>2
    <2>2. m \in Seq(Int) /\ MoveOf(m, s, slot, idx, t)
      BY <2>1, MovedIs
    <2> QED
      BY <2>2 DEF MoveOf
  <1>4. /\ j \in 1..n
        /\ \A k \in 1..n : /\ Which(slot, idx, k) \in 1..n
                           /\ k < j => Which(slot, idx, k) < slot
                           /\ k > j => Which(slot, idx, k) >= slot
        /\ \A i, k \in 1..n : i < k /\ i # j /\ k # j
                                => Which(slot, idx, i) < Which(slot, idx, k)
    <2>1. Renumbers(slot, idx, n)
      BY <1>1, <1>2, WhichIs
    <2> QED
      BY <2>1 DEF Renumbers
  <1> HIDE DEF m, j, n
  <1>5. ASSUME NEW i \in 1..n, NEW k \in 1..n, i < k
        PROVE  m[i] =< m[k]
    <2>1. i \in Int /\ k \in Int /\ j \in Int
      BY <1>1, <1>4
    <2>2. CASE i = j
      <3>1. m[i] = t /\ m[k] = s[Which(slot, idx, k)] /\ Which(slot, idx, k) >= slot
        BY <1>3, <1>4, <1>5, <2>1, <2>2
      <3> QED
        BY <3>1, <1>2, <1>4
    <2>3. CASE k = j
      <3>1. m[k] = t /\ m[i] = s[Which(slot, idx, i)] /\ Which(slot, idx, i) < slot
        BY <1>3, <1>4, <1>5, <2>1, <2>3
      <3>2. s[Which(slot, idx, i)] < t /\ s[Which(slot, idx, i)] \in Int
        BY <3>1, <1>1, <1>2, <1>4
      <3> QED
        BY <3>1, <3>2
    <2>4. CASE i # j /\ k # j
      <3>1. m[i] = s[Which(slot, idx, i)] /\ m[k] = s[Which(slot, idx, k)]
        BY <1>3, <2>4
      <3>2. /\ Which(slot, idx, i) \in 1..n /\ Which(slot, idx, k) \in 1..n
            /\ Which(slot, idx, i) =< Which(slot, idx, k)
        BY <1>1, <1>4, <1>5, <2>4
      <3> QED
        BY <3>1, <3>2 DEF Sorted, n
    <2> QED
      BY <2>2, <2>3, <2>4
  <1>6. \A i \in 1..n : m[i] \in Int
    BY <1>3
  <1>7. ASSUME NEW i \in DOMAIN m, NEW k \in DOMAIN m, i =< k
        PROVE  m[i] =< m[k]
    <2>1. i \in 1..n /\ k \in 1..n
      BY <1>3
    <2> QED
      BY <2>1, <1>1, <1>5, <1>6, <1>7
  <1> QED
    BY <1>7 DEF Sorted, m, slot

(* Points that were told apart are so in any order.                         *)
LEMMA MovedDistinct ==
  ASSUME NEW S, NEW s \in Seq(S), NEW idx \in 1..Len(s), NEW slot \in 1..(Len(s) + 1),
         Distinct(s)
  PROVE  /\ Distinct(Moved(s, slot, idx, s[idx]))
         /\ \A k \in 1..Len(s) : Moved(s, slot, idx, s[idx])[k] = s[Which(slot, idx, k)]
  <1> DEFINE m == Moved(s, slot, idx, s[idx])
             n == Len(s)
  <1>1. n \in Nat /\ s[idx] \in S
    OBVIOUS
  <1>2. /\ m \in Seq(S) /\ Len(m) = n
        /\ \A k \in 1..n : m[k] = IF k = NewIndex(slot, idx) THEN s[idx]
                                  ELSE s[Which(slot, idx, k)]
    <2>1. m \in Seq(S) /\ MoveOf(m, s, slot, idx, s[idx])
      BY <1>1, MovedIs
    <2> QED
      BY <2>1 DEF MoveOf
  <1> HIDE DEF m
  <1>3. \A k \in 1..n : m[k] = s[Which(slot, idx, k)]
    BY <1>2 DEF Which
  <1>4. /\ \A k \in 1..n : Which(slot, idx, k) \in 1..n
        /\ \A i, k \in 1..n : i # k => Which(slot, idx, i) # Which(slot, idx, k)
    <2>1. idx \in 1..n /\ slot \in 1..(n + 1)
      OBVIOUS
    <2>2. Renumbers(slot, idx, n)
      BY <1>1, <2>1, WhichIs
    <2> QED
      BY <2>2 DEF Renumbers
  <1>5. ASSUME NEW i \in DOMAIN m, NEW k \in DOMAIN m, i # k
        PROVE  m[i][1] # m[k][1]
    <2>1. i \in 1..n /\ k \in 1..n
      BY <1>2
    <2>2. Which(slot, idx, i) \in DOMAIN s /\ Which(slot, idx, k) \in DOMAIN s
      BY <2>1, <1>4
    <2> QED
      BY <2>1, <2>2, <1>3, <1>4, <1>5 DEF Distinct
  <1> QED
    BY <1>3, <1>5 DEF Distinct, m

Spots == PathPlaces \cup {1, 2}
Turned == (Names \cup {1, 2}) \X {0, 1}
PathType == /\ position \in Seq(Spots) /\ coordinates \in Seq(Spots)
            /\ orientation \in Seq(Turned) /\ timestamp \in Seq(Int)
            /\ activePoint \in 1..Len(position)
            /\ dragged \in {Nothing} \cup ({"place"} \X PathPlaces) \cup ({"turn"} \X {0, 1})

(* Inductive: PathOrdered, with times sorted wherever they are.             *)
PathInv == /\ PathType /\ coordinates = position
           /\ Len(orientation) = Len(position) /\ Len(timestamp) = Len(position)
           /\ Sorted(timestamp) /\ Distinct(orientation)

(* The active point is the same before and after.                           *)
SamePoint == PointOf(orientation', activePoint') = PointOf(orientation, activePoint)

LEMMA PathBegins == PathInit => PathInv
  <1> SUFFICES ASSUME PathInit PROVE PathInv
    OBVIOUS
  <1>1. position \in Seq(Spots) /\ Len(position) = 2 /\ coordinates = position
    BY DEF PathInit, Spots
  <1>2. /\ orientation \in Seq(Turned) /\ Len(orientation) = 2
        /\ orientation[1] = <<1, 0>> /\ orientation[2] = <<2, 0>>
    BY DEF PathInit, Turned
  <1>3. timestamp \in Seq(Int) /\ Len(timestamp) = 2 /\ timestamp[1] = 0 /\ timestamp[2] = 2
    BY DEF PathInit
  <1>4. activePoint = 1 /\ dragged = Nothing
    BY DEF PathInit
  <1>5. Sorted(timestamp)
    BY <1>3 DEF Sorted
  <1>6. Distinct(orientation)
    BY <1>2 DEF Distinct
  <1> QED
    BY <1>1, <1>2, <1>3, <1>4, <1>5, <1>6 DEF PathInv, PathType

(* A change of time moves all four lists alike.                             *)
LEMMA TimeKeeps ==
  ASSUME PathAssumption, PathInv, NEW idx \in DOMAIN position, NEW t \in Times,
         SetTimestamp(idx, t)
  PROVE  PathInv' /\ SamePoint
  <1> DEFINE n == Len(position)
             slot == Slot(timestamp, t)
             j == NewIndex(slot, idx)
  <1>1. /\ position \in Seq(Spots) /\ orientation \in Seq(Turned) /\ timestamp \in Seq(Int)
        /\ coordinates = position /\ Len(orientation) = n /\ Len(timestamp) = n
        /\ activePoint \in 1..n /\ Sorted(timestamp) /\ Distinct(orientation)
    BY DEF PathInv, PathType
  <1>2. n \in Nat /\ idx \in 1..n /\ t \in Int
    BY <1>1 DEF PathAssumption
  <1>3. slot \in 1..(n + 1)
    BY <1>1, <1>2, SlotIs
  <1>4. /\ timestamp' = Moved(timestamp, slot, idx, t)
        /\ position' = Moved(position, slot, idx, position[idx])
        /\ coordinates' = position'
        /\ orientation' = Moved(orientation, slot, idx, orientation[idx])
        /\ activePoint' = Followed(activePoint, idx, j)
        /\ dragged' = dragged
    BY <1>1 DEF SetTimestamp
  <1> HIDE DEF slot
  <1>5. position' \in Seq(Spots) /\ Len(position') = n
    <2>1. position[idx] \in Spots
      BY <1>1
    <2>2. position' \in Seq(Spots) /\ MoveOf(position', position, slot, idx, position[idx])
      BY <1>1, <1>3, <1>4, <2>1, MovedIs
    <2> QED
      BY <2>2 DEF MoveOf
  <1>6. timestamp' \in Seq(Int) /\ Len(timestamp') = n
    <2>1. timestamp' \in Seq(Int) /\ MoveOf(timestamp', timestamp, slot, idx, t)
      BY <1>1, <1>2, <1>3, <1>4, MovedIs
    <2> QED
      BY <1>1, <2>1 DEF MoveOf
  <1>7. orientation' \in Seq(Turned) /\ Len(orientation') = n
    <2>1. orientation[idx] \in Turned
      BY <1>1, <1>2
    <2>2. /\ orientation' \in Seq(Turned)
          /\ MoveOf(orientation', orientation, slot, idx, orientation[idx])
      BY <1>1, <1>2, <1>3, <1>4, <2>1, MovedIs
    <2> QED
      BY <1>1, <2>2 DEF MoveOf
  <1>8. Sorted(timestamp')
    BY <1>1, <1>2, <1>4, MovedSorted DEF slot
  <1>9. /\ Distinct(orientation')
        /\ \A k \in 1..n : orientation'[k] = orientation[Which(slot, idx, k)]
    BY <1>1, <1>2, <1>3, <1>4, MovedDistinct
  <1>10. activePoint' \in 1..n /\ Which(slot, idx, activePoint') = activePoint
    BY <1>1, <1>2, <1>3, <1>4, FollowedIs
  <1>11. SamePoint
    BY <1>9, <1>10 DEF SamePoint, PointOf
  <1>12. dragged' \in {Nothing} \cup ({"place"} \X PathPlaces) \cup ({"turn"} \X {0, 1})
    BY <1>4 DEF PathInv, PathType
  <1>13. PathType'
    BY <1>4, <1>5, <1>6, <1>7, <1>10, <1>12 DEF PathType, Nothing
  <1> QED
    BY <1>4, <1>5, <1>6, <1>7, <1>8, <1>9, <1>11, <1>13 DEF PathInv

(* Room in front.                                                           *)
Room(s) == <<s[1]>> \o s

LEMMA RoomIs ==
  ASSUME NEW S, NEW s \in Seq(S), Len(s) >= 1
  PROVE  /\ Room(s) \in Seq(S) /\ Len(Room(s)) = Len(s) + 1 /\ Room(s)[1] = s[1]
         /\ \A k \in 2..(Len(s) + 1) : Room(s)[k] = s[k - 1]
  <1>1. Len(s) \in Nat /\ s[1] \in S
    OBVIOUS
  <1> QED
    BY <1>1 DEF Room

LEMMA RoomSorted ==
  ASSUME NEW s \in Seq(Int), Len(s) >= 1, Sorted(s)
  PROVE  Sorted(Room(s))
  <1> DEFINE r == Room(s)
             n == Len(s)
  <1>1. n \in Nat /\ DOMAIN s = 1..n /\ \A k \in 1..n : s[k] \in Int
    OBVIOUS
  <1>2. /\ r \in Seq(Int) /\ Len(r) = n + 1 /\ r[1] = s[1]
        /\ \A k \in 2..(n + 1) : r[k] = s[k - 1]
    BY RoomIs
  <1> HIDE DEF r, n
  <1>3. ASSUME NEW i \in DOMAIN r, NEW k \in DOMAIN r, i =< k
        PROVE  r[i] =< r[k]
    <2>1. i \in 1..(n + 1) /\ k \in 1..(n + 1)
      BY <1>2
    <2>2. CASE i = 1 /\ k = 1
      BY <2>2, <1>2
    <2>3. CASE i = 1 /\ k # 1
      <3>1. r[k] = s[k - 1] /\ k - 1 \in 1..n /\ 1 \in 1..n /\ 1 =< k - 1
        BY <2>1, <2>3, <1>1, <1>2
      <3>2. s[1] =< s[k - 1]
        BY <3>1, <1>1 DEF Sorted
      <3> QED
        BY <3>1, <3>2, <2>3, <1>2
    <2>4. CASE i # 1
      <3>1. /\ r[k] = s[k - 1] /\ r[i] = s[i - 1] /\ k - 1 \in 1..n /\ i - 1 \in 1..n
            /\ i - 1 =< k - 1
        BY <2>1, <2>4, <1>1, <1>2, <1>3
      <3>2. s[i - 1] =< s[k - 1]
        BY <3>1, <1>1 DEF Sorted
      <3> QED
        BY <3>1, <3>2
    <2> QED
      BY <2>2, <2>3, <2>4
  <1> QED
    BY <1>3 DEF Sorted, r

(* What becomes of a list: the new point is at its slot, and before and     *)
(* after it are the old ones.                                               *)
NewListOf(l, s, slot, e) ==
    /\ Len(l) = Len(s) + 1
    /\ \A k \in 1..(Len(s) + 1) :
          l[k] = IF k = NewIndex(slot, 1) THEN e ELSE s[Which(slot, 1, k) - 1]
NewList(s, slot, v, e) == [Moved(Room(s), slot, 1, v) EXCEPT ![NewIndex(slot, 1)] = e]

LEMMA NewListIs ==
  ASSUME NEW S, NEW s \in Seq(S), Len(s) >= 1, NEW slot \in 1..(Len(s) + 2), NEW v \in S, NEW e \in S
  PROVE  NewList(s, slot, v, e) \in Seq(S) /\ NewListOf(NewList(s, slot, v, e), s, slot, e)
  <1> DEFINE r == Room(s)
             n == Len(s) + 1
             m == Moved(r, slot, 1, v)
             j == NewIndex(slot, 1)
  <1>1. n \in Nat /\ 1 \in 1..n /\ slot \in 1..(n + 1)
    OBVIOUS
  <1>2. /\ r \in Seq(S) /\ Len(r) = n
        /\ \A k \in 2..n : r[k] = s[k - 1]
    BY RoomIs
  <1> HIDE DEF r
  <1>3. m \in Seq(S) /\ MoveOf(m, r, slot, 1, v)
    <2>1. 1 \in 1..Len(r) /\ slot \in 1..(Len(r) + 1)
      BY <1>1, <1>2
    <2> QED
      BY <1>2, <2>1, MovedIs
  <1>4. Renumbers(slot, 1, n)
    <2> HIDE DEF n
    <2> QED
      BY <1>1, WhichIs
  <1> HIDE DEF m, n, j
  <1> DEFINE l == [m EXCEPT ![j] = e]
  <1>5. j \in 1..n
    BY <1>4 DEF Renumbers, j
  <1>6. l \in Seq(S) /\ Len(l) = n /\ \A k \in 1..n : l[k] = IF k = j THEN e ELSE m[k]
    <2>1. m \in Seq(S) /\ Len(m) = n
      BY <1>2, <1>3 DEF MoveOf
    <2> QED
      BY <2>1, <1>5
  <1> HIDE DEF l
  <1>7. ASSUME NEW k \in 1..n, k # j
        PROVE  l[k] = s[Which(slot, 1, k) - 1]
    <2>1. m[k] = r[Which(slot, 1, k)]
      BY <1>2, <1>3, <1>7 DEF MoveOf, j
    <2>2. Which(slot, 1, k) \in 1..n /\ Which(slot, 1, k) # 1
      BY <1>4, <1>7 DEF Renumbers, j
    <2>3. Which(slot, 1, k) \in 2..n
      BY <2>2, <1>1
    <2> QED
      BY <2>1, <2>3, <1>2, <1>6, <1>7
  <1>8. NewList(s, slot, v, e) = l
    BY DEF NewList, l, m, j, r
  <1> QED
    BY <1>6, <1>7, <1>8 DEF n, j, NewListOf

(* A new point, with a name of its own, goes to its time.                   *)
LEMMA InsertKeeps ==
  ASSUME PathAssumption, PathInv, NEW p \in PathPlaces, NEW t \in Times, NEW name \in Names,
         InsertControlpoint(p, t, name)
  PROVE  PathInv' /\ SamePoint
  <1> DEFINE n == Len(position)
             times == Room(timestamp)
             slot == Slot(times, t)
             i == NewIndex(slot, 1)
  <1>1. /\ position \in Seq(Spots) /\ orientation \in Seq(Turned) /\ timestamp \in Seq(Int)
        /\ coordinates = position /\ Len(orientation) = n /\ Len(timestamp) = n
        /\ activePoint \in 1..n /\ Sorted(timestamp) /\ Distinct(orientation)
    BY DEF PathInv, PathType
  <1>2. n \in Nat /\ n >= 1 /\ t \in Int
    BY <1>1 DEF PathAssumption
  <1>3. times \in Seq(Int) /\ Len(times) = n + 1 /\ Sorted(times)
    BY <1>1, <1>2, RoomIs, RoomSorted
  <1>4. /\ timestamp' = Moved(times, slot, 1, t)
        /\ position' = NewList(position, slot, position[1], p)
        /\ coordinates' = position'
        /\ orientation' = NewList(orientation, slot, orientation[1], <<name, 0>>)
        /\ activePoint' = Followed(activePoint + 1, 1, i)
        /\ dragged' = dragged
        /\ \A o \in ToSet(orientation) : o[1] # name
    BY <1>1 DEF InsertControlpoint, NewList, Room
  <1> HIDE DEF times
  <1>5. slot \in 1..(n + 2)
    <2>1. slot \in 1..(Len(times) + 1)
      BY <1>2, <1>3, SlotIs
    <2> QED
      BY <2>1, <1>2, <1>3
  <1>6. timestamp' \in Seq(Int) /\ Len(timestamp') = n + 1 /\ Sorted(timestamp')
    <2>1. 1 \in 1..Len(times) /\ slot \in 1..(Len(times) + 1)
      BY <1>2, <1>3, <1>5
    <2>2. timestamp' \in Seq(Int) /\ MoveOf(timestamp', times, slot, 1, t)
      BY <1>2, <1>3, <1>4, <2>1, MovedIs
    <2>3. Sorted(timestamp')
      BY <1>2, <1>3, <1>4, <2>1, MovedSorted
    <2> QED
      BY <1>3, <2>2, <2>3 DEF MoveOf
  <1> HIDE DEF slot
  <1>7. position' \in Seq(Spots) /\ Len(position') = n + 1
    <2>1. position[1] \in Spots /\ p \in Spots
      BY <1>1, <1>2 DEF Spots
    <2> QED
      BY <1>1, <1>2, <1>4, <1>5, <2>1, NewListIs DEF NewListOf
  <1>8. /\ orientation' \in Seq(Turned) /\ Len(orientation') = n + 1
        /\ \A k \in 1..(n + 1) :
              orientation'[k] = IF k = i THEN <<name, 0>> ELSE orientation[Which(slot, 1, k) - 1]
    <2>1. orientation[1] \in Turned /\ <<name, 0>> \in Turned
      BY <1>1, <1>2 DEF Turned
    <2> DEFINE new == <<name, 0>>
    <2>2. new \in Turned /\ orientation' = NewList(orientation, slot, orientation[1], new)
      BY <1>4, <2>1
    <2> HIDE DEF new
    <2>3. orientation' \in Seq(Turned) /\ NewListOf(orientation', orientation, slot, new)
      BY <1>1, <1>2, <1>5, <2>1, <2>2, NewListIs
    <2> QED
      BY <1>1, <2>3 DEF NewListOf, new
  <1> DEFINE m == n + 1
  <1>9. m \in Nat /\ 1 \in 1..m /\ slot \in 1..(m + 1) /\ activePoint + 1 \in 1..m
    BY <1>1, <1>2, <1>5
  <1>10. Renumbers(slot, 1, m)
    <2> HIDE DEF m
    <2> QED
      BY <1>9, WhichIs
  <1>11. activePoint' \in 1..m /\ Which(slot, 1, activePoint') = activePoint + 1
    <2> DEFINE a == activePoint + 1
    <2>1. a \in 1..m /\ activePoint' = Followed(a, 1, NewIndex(slot, 1))
      BY <1>4, <1>9
    <2> HIDE DEF m, a
    <2>2. activePoint' \in 1..m /\ Which(slot, 1, activePoint') = a
      BY <1>9, <2>1, FollowedIs
    <2> QED
      BY <2>2 DEF a
  <1>12. \A k \in 1..m : k # i => Which(slot, 1, k) - 1 \in 1..n
    <2>1. ASSUME NEW k \in 1..m, k # i PROVE Which(slot, 1, k) - 1 \in 1..n
      <3>1. Which(slot, 1, k) \in 1..m /\ Which(slot, 1, k) # 1
        BY <1>10, <2>1 DEF Renumbers
      <3> QED
        BY <3>1, <1>2
    <2> QED
      BY <2>1
  <1>13. Distinct(orientation')
    <2>1. ASSUME NEW k \in 1..m, k # i
          PROVE  orientation'[k][1] # name
      <3>1. /\ orientation'[k] = orientation[Which(slot, 1, k) - 1]
            /\ Which(slot, 1, k) - 1 \in DOMAIN orientation
        BY <1>1, <1>8, <1>12, <2>1
      <3>2. orientation'[k] \in ToSet(orientation)
        BY <3>1 DEF ToSet
      <3> QED
        BY <3>2, <1>4
    <2>2. ASSUME NEW k \in 1..m, NEW l \in 1..m, k # l, k # i, l # i
          PROVE  orientation'[k][1] # orientation'[l][1]
      <3>1. /\ orientation'[k] = orientation[Which(slot, 1, k) - 1]
            /\ orientation'[l] = orientation[Which(slot, 1, l) - 1]
        BY <1>8, <2>2
      <3>2. /\ Which(slot, 1, k) - 1 \in 1..n /\ Which(slot, 1, l) - 1 \in 1..n
            /\ Which(slot, 1, k) \in 1..m /\ Which(slot, 1, l) \in 1..m
            /\ Which(slot, 1, k) # Which(slot, 1, l)
        BY <1>10, <1>12, <2>2 DEF Renumbers
      <3>3. Which(slot, 1, k) - 1 # Which(slot, 1, l) - 1
        BY <3>2
      <3> QED
        BY <3>1, <3>2, <3>3, <1>1 DEF Distinct
    <2>3. ASSUME NEW k \in DOMAIN orientation', NEW l \in DOMAIN orientation', k # l
          PROVE  orientation'[k][1] # orientation'[l][1]
      <3>1. k \in 1..m /\ l \in 1..m
        BY <1>8
      <3>2. i \in 1..m /\ orientation'[i][1] = name
        BY <1>8, <1>10 DEF Renumbers
      <3> QED
        BY <3>1, <3>2, <2>1, <2>2, <2>3
    <2> QED
      BY <2>3 DEF Distinct
  <1>14. SamePoint
    <2>1. activePoint' # i
      <3>1. Which(slot, 1, activePoint') # 1
        BY <1>1, <1>2, <1>11
      <3>2. \A k \in 1..m : Which(slot, 1, k) = 1 <=> k = i
        BY <1>10 DEF Renumbers
      <3> QED
        BY <3>1, <3>2, <1>11
    <2>2. (activePoint + 1) - 1 = activePoint
      BY <1>1
    <2> QED
      BY <2>1, <2>2, <1>8, <1>11 DEF SamePoint, PointOf
  <1>15. dragged' \in {Nothing} \cup ({"place"} \X PathPlaces) \cup ({"turn"} \X {0, 1})
    BY <1>4 DEF PathInv, PathType
  <1>16. PathType'
    BY <1>4, <1>6, <1>7, <1>8, <1>11, <1>15 DEF PathType, Nothing
  <1> QED
    BY <1>4, <1>6, <1>7, <1>8, <1>13, <1>14, <1>16 DEF PathInv

(* Without a point the others keep their order; the active one stays so,    *)
(* unless it was that point.                                                *)
LEMMA DeleteKeeps ==
  ASSUME PathInv, NEW idx \in DOMAIN position, DeleteControlpoint(idx)
  PROVE  /\ PathInv'
         /\ (\E o \in ToSet(orientation') : o[1] = PointOf(orientation, activePoint)) => SamePoint
  <1> DEFINE n == Len(position)
  <1>1. /\ position \in Seq(Spots) /\ orientation \in Seq(Turned) /\ timestamp \in Seq(Int)
        /\ coordinates = position /\ Len(orientation) = n /\ Len(timestamp) = n
        /\ activePoint \in 1..n /\ Sorted(timestamp) /\ Distinct(orientation)
    BY DEF PathInv, PathType
  <1>2. n \in Nat /\ idx \in 1..n /\ n > 2
    BY <1>1 DEF DeleteControlpoint
  <1>3. /\ timestamp' = RemoveAt(timestamp, idx) /\ orientation' = RemoveAt(orientation, idx)
        /\ position' = RemoveAt(position, idx) /\ coordinates' = position'
        /\ activePoint' = IF activePoint >= idx /\ activePoint # 1
                          THEN activePoint - 1 ELSE activePoint
        /\ dragged' = dragged
    BY <1>1 DEF DeleteControlpoint
  <1>4. position' \in Seq(Spots) /\ Len(position') = n - 1
    BY <1>1, <1>2, <1>3, RemovedIs DEF Without
  <1>5. /\ orientation' \in Seq(Turned) /\ Len(orientation') = n - 1
        /\ \A k \in 1..(n - 1) : orientation'[k] = IF k < idx THEN orientation[k]
                                                   ELSE orientation[k + 1]
    <2>1. orientation' \in Seq(Turned) /\ Without(orientation', orientation, idx)
      BY <1>1, <1>2, <1>3, RemovedIs
    <2> QED
      BY <1>1, <2>1 DEF Without
  <1>6. /\ timestamp' \in Seq(Int) /\ Len(timestamp') = n - 1
        /\ \A k \in 1..(n - 1) : timestamp'[k] = IF k < idx THEN timestamp[k]
                                                 ELSE timestamp[k + 1]
    <2>1. timestamp' \in Seq(Int) /\ Without(timestamp', timestamp, idx)
      BY <1>1, <1>2, <1>3, RemovedIs
    <2> QED
      BY <1>1, <2>1 DEF Without
  <1>7. activePoint' \in 1..(n - 1)
    BY <1>1, <1>2, <1>3
  <1>8. Sorted(timestamp')
    <2> DEFINE old(k) == IF k < idx THEN k ELSE k + 1
    <2>1. ASSUME NEW i \in DOMAIN timestamp', NEW k \in DOMAIN timestamp', i =< k
          PROVE  timestamp'[i] =< timestamp'[k]
      <3>1. i \in 1..(n - 1) /\ k \in 1..(n - 1)
        BY <1>6
      <3>2. timestamp'[i] = timestamp[old(i)] /\ timestamp'[k] = timestamp[old(k)]
        BY <3>1, <1>6
      <3>3. old(i) \in 1..n /\ old(k) \in 1..n /\ old(i) =< old(k)
        BY <3>1, <1>2, <2>1
      <3> QED
        BY <3>2, <3>3, <1>1 DEF Sorted
    <2> QED
      BY <2>1 DEF Sorted
  <1>9. Distinct(orientation')
    <2> DEFINE old(k) == IF k < idx THEN k ELSE k + 1
    <2>1. ASSUME NEW i \in DOMAIN orientation', NEW k \in DOMAIN orientation', i # k
          PROVE  orientation'[i][1] # orientation'[k][1]
      <3>1. i \in 1..(n - 1) /\ k \in 1..(n - 1)
        BY <1>5
      <3>2. orientation'[i] = orientation[old(i)] /\ orientation'[k] = orientation[old(k)]
        BY <3>1, <1>5
      <3>3. old(i) \in 1..n /\ old(k) \in 1..n /\ old(i) # old(k)
        BY <3>1, <1>2, <2>1
      <3> QED
        BY <3>2, <3>3, <1>1 DEF Distinct
    <2> QED
      BY <2>1 DEF Distinct
  <1>10. ASSUME NEW o \in ToSet(orientation'), o[1] = PointOf(orientation, activePoint)
         PROVE  SamePoint
    <2> DEFINE old(k) == IF k < idx THEN k ELSE k + 1
    <2>1. PICK k \in DOMAIN orientation' : o = orientation'[k]
      BY DEF ToSet
    <2>2. k \in 1..(n - 1) /\ o = orientation[old(k)] /\ old(k) \in 1..n
      BY <1>2, <1>5, <2>1
    <2>3. activePoint = old(k)
      BY <2>2, <1>1, <1>10 DEF Distinct, PointOf
    <2>4. activePoint # idx
      BY <2>2, <2>3, <1>2
    <2>5. activePoint' = k
      BY <2>2, <2>3, <2>4, <1>2, <1>3
    <2> QED
      BY <2>1, <2>2, <2>3, <2>5 DEF SamePoint, PointOf
  <1>11. dragged' \in {Nothing} \cup ({"place"} \X PathPlaces) \cup ({"turn"} \X {0, 1})
    BY <1>3 DEF PathInv, PathType
  <1>12. PathType'
    BY <1>3, <1>4, <1>5, <1>6, <1>7, <1>11 DEF PathType, Nothing
  <1> QED
    BY <1>3, <1>4, <1>5, <1>6, <1>8, <1>9, <1>10, <1>12 DEF PathInv

(* What a dragger did comes to the point that is active now.                *)
LEMMA PosKeeps ==
  ASSUME PathInv, PosCallback
  PROVE  PathInv' /\ UNCHANGED orientation
  <1>1. dragged[2] \in Spots
    <2>1. dragged \in {"place"} \X PathPlaces
      BY DEF PathInv, PathType, PosCallback, Nothing
    <2> QED
      BY <2>1 DEF Spots
  <1>2. position' \in Seq(Spots) /\ Len(position') = Len(position) /\ coordinates' = position'
    <2>1. position \in Seq(Spots) /\ coordinates = position /\ activePoint \in 1..Len(position)
      BY DEF PathInv, PathType
    <2> QED
      BY <1>1, <2>1 DEF PosCallback
  <1> QED
    BY <1>2 DEF PathInv, PathType, PosCallback, Nothing

LEMMA OrKeeps ==
  ASSUME PathInv, OrCallback
  PROVE  PathInv' /\ SamePoint
  <1> DEFINE n == Len(position)
             both == [orientation[activePoint] EXCEPT ![2] = dragged[2]]
  <1>1. dragged[2] \in {0, 1}
    <2>1. dragged \in {"turn"} \X {0, 1}
      BY DEF PathInv, PathType, OrCallback, Nothing
    <2> QED
      BY <2>1
  <1>2. /\ orientation \in Seq(Turned) /\ Len(orientation) = n /\ activePoint \in 1..n
        /\ Distinct(orientation)
    BY DEF PathInv, PathType
  <1>3. both \in Turned /\ both[1] = orientation[activePoint][1]
    <2>1. orientation[activePoint] \in Turned
      BY <1>2
    <2> HIDE DEF both
    <2>2. PICK a \in Names \cup {1, 2}, b \in {0, 1} : orientation[activePoint] = <<a, b>>
      BY <2>1 DEF Turned
    <2>3. both = <<a, dragged[2]>>
      BY <2>2 DEF both
    <2>4. both \in Turned
      BY <1>1, <2>2, <2>3 DEF Turned
    <2> QED
      BY <2>2, <2>3, <2>4
  <1>4. orientation' = [orientation EXCEPT ![activePoint] = both]
    BY DEF OrCallback
  <1> HIDE DEF both
  <1>5. /\ orientation' \in Seq(Turned) /\ Len(orientation') = n
        /\ \A k \in 1..n : orientation'[k][1] = orientation[k][1]
    BY <1>2, <1>3, <1>4
  <1>6. Distinct(orientation')
    BY <1>2, <1>5 DEF Distinct
  <1>7. UNCHANGED <<position, coordinates, timestamp, activePoint>> /\ dragged' = Nothing
    BY DEF OrCallback
  <1>8. SamePoint
    BY <1>2, <1>5, <1>7 DEF SamePoint, PointOf
  <1> QED
    BY <1>5, <1>6, <1>7, <1>8 DEF PathInv, PathType, Nothing

(* A step leaves the path in order, and the active point the active one.    *)
Stays == orientation' # orientation /\ (\E o \in ToSet(orientation') : o[1] = PointOf(orientation, activePoint))
           => SamePoint

LEMMA PathStep ==
  ASSUME PathAssumption, PathInv, [PathNext]_pathvars
  PROVE  PathInv' /\ Stays
  <1>1. ASSUME NEW idx \in DOMAIN position, NEW t \in Times, SetTimestamp(idx, t)
        PROVE  PathInv' /\ Stays
    BY <1>1, TimeKeeps DEF Stays
  <1>2. ASSUME NEW p \in PathPlaces, NEW t \in Times, NEW name \in Names,
               InsertControlpoint(p, t, name)
        PROVE  PathInv' /\ Stays
    BY <1>2, InsertKeeps DEF Stays
  <1>3. ASSUME NEW idx \in DOMAIN position, DeleteControlpoint(idx)
        PROVE  PathInv' /\ Stays
    BY <1>3, DeleteKeeps DEF Stays
  <1>4. ASSUME NEW idx \in DOMAIN position, Select(idx)
        PROVE  PathInv' /\ Stays
    <2>1. activePoint' \in 1..Len(position)
      BY <1>4 DEF Select, PathInv, PathType
    <2> QED
      BY <1>4, <2>1 DEF Select, PathInv, PathType, lists, Stays, Nothing
  <1>5. ASSUME NEW p \in PathPlaces, PathDrag(<<"place", p>>)
        PROVE  PathInv' /\ Stays
    BY <1>5 DEF PathDrag, PathInv, PathType, lists, Stays, Nothing
  <1>6. ASSUME NEW turn \in {0, 1}, PathDrag(<<"turn", turn>>)
        PROVE  PathInv' /\ Stays
    BY <1>6 DEF PathDrag, PathInv, PathType, lists, Stays, Nothing
  <1>7. CASE PosCallback
    BY <1>7, PosKeeps DEF Stays
  <1>8. CASE OrCallback
    BY <1>8, OrKeeps DEF Stays
  <1>9. CASE UNCHANGED pathvars
    BY <1>9 DEF pathvars, lists, PathInv, PathType, Stays, Nothing
  <1> QED
    BY <1>1, <1>2, <1>3, <1>4, <1>5, <1>6, <1>7, <1>8, <1>9 DEF PathNext

LEMMA PathInOrder == PathInv => PathOrdered
  <1> SUFFICES ASSUME PathInv PROVE PathOrdered
    OBVIOUS
  <1>1. /\ position \in Seq(Spots) /\ orientation \in Seq(Turned) /\ timestamp \in Seq(Int)
        /\ activePoint \in 1..Len(position)
    BY DEF PathInv, PathType
  <1>2. \A i \in 2..Len(timestamp) : timestamp[i - 1] =< timestamp[i]
    <2> TAKE i \in 2..Len(timestamp)
    <2>1. i - 1 \in DOMAIN timestamp /\ i \in DOMAIN timestamp /\ i - 1 =< i
      BY <1>1
    <2> QED
      BY <2>1 DEF PathInv, Sorted
  <1>3. \A i, j \in DOMAIN orientation : i # j => orientation[i][1] # orientation[j][1]
    BY DEF PathInv, Distinct
  <1>4. activePoint \in DOMAIN position
    BY <1>1
  <1> QED
    BY <1>2, <1>3, <1>4 DEF PathOrdered, PathInv

(* Whatever the order of edits, of however many points: the four lists are  *)
(* parallel and in the order of time, no point is lost or there twice, and  *)
(* the number of the active point is one of them.                           *)
THEOREM PathInOrderOfTime == PathAssumption => (PathSpec => []PathOrdered)
  <1> SUFFICES ASSUME PathAssumption PROVE PathSpec => []PathOrdered
    OBVIOUS
  <1>1. PathInv /\ [PathNext]_pathvars => PathInv'
    BY PathStep
  <1> QED
    BY <1>1, PathBegins, PathInOrder, PTL DEF PathSpec

(* An edit that renumbers the points makes no other one active.             *)
THEOREM ActivePointStays == PathAssumption => (PathSpec => ActiveStays)
  <1> SUFFICES ASSUME PathAssumption PROVE PathSpec => ActiveStays
    OBVIOUS
  <1>1. PathInv /\ [PathNext]_pathvars
          => PathInv'
             /\ [(orientation' # orientation
                  /\ \E o \in ToSet(orientation') : o[1] = PointOf(orientation, activePoint))
                 => PointOf(orientation', activePoint') = PointOf(orientation, activePoint)]_pathvars
    BY PathStep DEF Stays, SamePoint
  <1> QED
    BY <1>1, PathBegins, PTL DEF PathSpec, ActiveStays
-----------------------------------------------------------------------------
(* The points of a track.                                                   *)
TrackType == /\ track \in Seq(TrackPlaces \cup {0}) /\ timeStamps \in Seq(Int)
             /\ Len(timeStamps) = Len(track)
             /\ trackLength \in Int /\ pointInterval \in Nat /\ lineInterval \in Nat
             /\ startix \in Nat

(* Inductive: what is drawn begins where the stamps say, unless the sensor  *)
(* waits for a new length or the points were taken away.                    *)
TrackInv == TrackType /\ (~sensor /\ ~direct => startix = Interval(timeStamps))

LEMMA IntervalIs ==
  ASSUME NEW stamps \in Seq(Int), trackLength \in Int
  PROVE  /\ Interval(stamps) \in Nat
         /\ \A i \in DOMAIN stamps : stamps[Len(stamps)] - stamps[i] >= trackLength
                                      => i =< Interval(stamps) + 1
         /\ \/ Interval(stamps) = 0
            \/ /\ Interval(stamps) + 1 \in DOMAIN stamps
               /\ stamps[Len(stamps)] - stamps[Interval(stamps) + 1] >= trackLength
  <1> DEFINE n == Len(stamps)
             old == OldEnough(stamps)
  <1>1. n \in Nat /\ DOMAIN stamps = 1..n
    OBVIOUS
  <1>2. old \subseteq 0..n /\ old \subseteq 1..n
    BY <1>1 DEF OldEnough
  <1>3. CASE old = {}
    <2>1. Interval(stamps) = 0
      BY <1>3 DEF Interval
    <2>2. \A i \in DOMAIN stamps : ~(stamps[Len(stamps)] - stamps[i] >= trackLength)
      BY <1>3 DEF OldEnough
    <2> QED
      BY <2>1, <2>2
  <1>4. CASE old # {}
    <2> DEFINE m == CHOOSE i \in old : \A k \in old : k =< i
    <2>1. \E i \in old : \A k \in old : k =< i
      <3> HIDE DEF old, n
      <3> QED
        BY <1>1, <1>2, <1>4, HasLargest
    <2>2. m \in old /\ \A k \in old : k =< m
      BY <2>1
    <2>3. Interval(stamps) = m - 1
      BY <1>4 DEF Interval
    <2> HIDE DEF m
    <2>4. m \in 1..n
      BY <1>2, <2>2
    <2>5. m - 1 \in Nat /\ (m - 1) + 1 = m
      BY <1>1, <2>4
    <2>6. stamps[Len(stamps)] - stamps[m] >= trackLength
      BY <2>2 DEF OldEnough
    <2>7. \A i \in DOMAIN stamps : stamps[Len(stamps)] - stamps[i] >= trackLength => i =< m
      BY <2>2 DEF OldEnough
    <2> QED
      BY <1>1, <2>3, <2>4, <2>5, <2>6, <2>7
  <1> QED
    BY <1>3, <1>4

LEMMA TrackBegins == TrackAssumption /\ TrackInit => TrackInv
  <1> SUFFICES ASSUME TrackAssumption, TrackInit PROVE TrackInv
    OBVIOUS
  <1>1. trackLength \in Int
    <2>1. trackLength \in Lengths
      BY DEF TrackAssumption, TrackInit
    <2> QED
      BY <2>1 DEF TrackAssumption
  <1>2. timeStamps \in Seq(Int) /\ Len(timeStamps) = 1
    BY DEF TrackInit
  <1>3. Interval(timeStamps) = 0
    <2>1. /\ Interval(timeStamps) \in Nat
          /\ \/ Interval(timeStamps) = 0
             \/ Interval(timeStamps) + 1 \in DOMAIN timeStamps
      BY <1>1, <1>2, IntervalIs
    <2> QED
      BY <1>2, <2>1
  <1>4. track \in Seq(TrackPlaces \cup {0}) /\ Len(track) = 1
    BY DEF TrackInit
  <1> QED
    BY <1>1, <1>2, <1>3, <1>4 DEF TrackInv, TrackType, TrackInit

LEMMA TrackStep ==
  ASSUME TrackAssumption, TrackInv, [TrackNext]_trackvars
  PROVE  TrackInv'
  <1>1. ASSUME NEW p \in TrackPlaces, NEW t \in TrackTimes, Appended(p, t)
        PROVE  TrackInv'
    <2>1. t \in Int
      BY DEF TrackAssumption
    <2>2. /\ track' \in Seq(TrackPlaces \cup {0}) /\ timeStamps' \in Seq(Int)
          /\ Len(timeStamps') = Len(track')
      BY <1>1, <2>1 DEF Appended, TrackInv, TrackType
    <2>3. Interval(timeStamps') \in Nat
      BY <2>2, IntervalIs DEF TrackInv, TrackType
    <2>4. startix' = Interval(timeStamps)'
      BY <1>1 DEF Appended, Interval, OldEnough
    <2> QED
      BY <1>1, <2>2, <2>3, <2>4 DEF Appended, TrackInv, TrackType
  <1>2. CASE DeleteValues
    BY <1>2 DEF DeleteValues, TrackInv, TrackType
  <1>3. CASE UpdateIntervalCB
    <2>1. Interval(timeStamps) \in Nat
      BY IntervalIs DEF TrackInv, TrackType
    <2>2. startix' = Interval(timeStamps)'
      BY <1>3 DEF UpdateIntervalCB, Interval, OldEnough
    <2> QED
      BY <1>3, <2>1, <2>2 DEF UpdateIntervalCB, TrackInv, TrackType
  <1>4. ASSUME NEW l \in Lengths, SetTrackLength(l)
        PROVE  TrackInv'
    BY <1>4 DEF SetTrackLength, TrackInv, TrackType, TrackAssumption
  <1>5. ASSUME NEW p \in Intervals, NEW l \in Intervals, SetIntervals(p, l)
        PROVE  TrackInv'
    <2>1. Interval(timeStamps)' = Interval(timeStamps)
      BY <1>5 DEF SetIntervals, Interval, OldEnough
    <2> QED
      BY <1>5, <2>1 DEF SetIntervals, TrackInv, TrackType, TrackAssumption
  <1>6. CASE UNCHANGED trackvars
    <2>1. Interval(timeStamps)' = Interval(timeStamps)
      BY <1>6 DEF trackvars, Interval, OldEnough
    <2> QED
      BY <1>6, <2>1 DEF trackvars, TrackInv, TrackType
  <1> QED
    BY <1>1, <1>2, <1>3, <1>4, <1>5, <1>6 DEF TrackNext

LEMMA TrackDrawn ==
  ASSUME TrackInv
  PROVE  TrackRight
  <1> DEFINE n == Len(track)
  <1>1. /\ n \in Nat /\ DOMAIN track = 1..n /\ DOMAIN timeStamps = 1..n /\ Len(timeStamps) = n
        /\ \A k \in 1..n : timeStamps[k] \in Int
        /\ startix \in Nat /\ pointInterval \in Nat /\ lineInterval \in Nat /\ trackLength \in Int
        /\ timeStamps \in Seq(Int)
    BY DEF TrackInv, TrackType
  <1>2. Points \subseteq Boxed
    BY <1>1 DEF Points, Every, Boxed
  <1>3. \A s \in Segments : s[1] \in Boxed /\ s[2] \in Boxed
    <2>1. ASSUME NEW s \in Segments PROVE s[1] \in Boxed /\ s[2] \in Boxed
      <3>1. PICK i \in Every(startix + 2, lineInterval) : s = <<i - 1, i>>
        BY <2>1 DEF Segments
      <3>2. i \in (startix + 2)..n
        BY <3>1 DEF Every
      <3> QED
        BY <3>1, <3>2, <1>1 DEF Boxed
    <2> QED
      BY <2>1
  <1>4. ASSUME ~sensor, ~direct, trackLength # 0, pointInterval = 1
        PROVE  /\ \A i \in DOMAIN track :
                    timeStamps[n] - timeStamps[i] < trackLength
                       /\ (\A k \in i..n : timeStamps[n] - timeStamps[k] < trackLength)
                        => i \in Points
               /\ \A i \in Points, k \in DOMAIN track :
                    k > i => timeStamps[n] - timeStamps[k] < trackLength
    <2>1. Points = (startix + 1)..n
      <3>1. \A i \in (startix + 1)..n : (i - (startix + 1)) % 1 = 0
        BY <1>1
      <3> QED
        BY <1>1, <1>4, <3>1 DEF Points, Every
    <2>2. /\ \A i \in 1..n : timeStamps[n] - timeStamps[i] >= trackLength => i =< startix + 1
          /\ \/ startix = 0
             \/ /\ startix + 1 \in 1..n
                /\ timeStamps[n] - timeStamps[startix + 1] >= trackLength
      BY <1>1, <1>4, IntervalIs DEF TrackInv
    <2>3. ASSUME NEW i \in 1..n, \A k \in i..n : timeStamps[n] - timeStamps[k] < trackLength
          PROVE  i \in Points
      <3>1. CASE startix = 0
        BY <2>1, <3>1, <1>1
      <3>2. CASE startix # 0
        <4> DEFINE s == startix + 1
        <4>1. s \in 1..n /\ timeStamps[n] - timeStamps[s] >= trackLength
          BY <2>2, <3>2
        <4>2. n \in 1..n
          BY <4>1, <1>1
        <4>3. timeStamps[n] - timeStamps[s] \in Int
          BY <4>1, <4>2, <1>1
        <4> HIDE DEF s
        <4>4. s \notin i..n
          BY <2>3, <4>1, <4>3, <1>1
        <4>5. s < i
          BY <4>1, <4>4, <2>3, <1>1
        <4> QED
          BY <2>1, <2>3, <4>5, <1>1 DEF s
      <3> QED
        BY <3>1, <3>2
    <2>4. ASSUME NEW i \in Points, NEW k \in 1..n, k > i
          PROVE  timeStamps[n] - timeStamps[k] < trackLength
      <3>1. i \in (startix + 1)..n /\ n \in 1..n
        BY <2>1, <2>4, <1>1
      <3>2. timeStamps[n] - timeStamps[k] \in Int
        BY <3>1, <1>1
      <3>3. ~(timeStamps[n] - timeStamps[k] >= trackLength)
        BY <2>2, <2>4, <3>1, <1>1
      <3> QED
        BY <3>2, <3>3, <1>1
    <2> QED
      BY <2>3, <2>4, <1>1
  <1>5. TrackReaches
    BY <1>4 DEF TrackReaches
  <1> QED
    BY <1>2, <1>3, <1>5 DEF TrackRight, TrackBoxed

(* Whenever nothing waits, a track is drawn over its length in time, and    *)
(* its points and lines are in its box.                                     *)
THEOREM TrackIsRight == TrackAssumption => (TrackSpec => []TrackRight)
  <1> SUFFICES ASSUME TrackAssumption PROVE TrackSpec => []TrackRight
    OBVIOUS
  <1>1. TrackInv /\ [TrackNext]_trackvars => TrackInv'
    BY TrackStep
  <1>2. TrackInv => TrackRight
    BY TrackDrawn
  <1>3. TrackInit => TrackInv
    BY TrackBegins
  <1> QED
    BY <1>1, <1>2, <1>3, PTL DEF TrackSpec
-----------------------------------------------------------------------------
(* All of them side by side: they share no variable, and keep what they     *)
(* promise for any nodes, keys, positions, angles and ranges.               *)
Nodes == /\ PickSpec /\ SwitchSpec /\ PanSpec /\ AngleSpec /\ RangeSpec
         /\ PathSpec /\ TrackSpec
NodesAssumption == /\ PanAssumption /\ AngleAssumption /\ RangeAssumption
                   /\ PathAssumption /\ TrackAssumption

(* A state in which every event was answered stays one.                     *)
THEOREM EventsAreAnswered == NodesAssumption => (Nodes => []EventsAnswered)
  <1> SUFFICES ASSUME NodesAssumption PROVE Nodes => []EventsAnswered
    OBVIOUS
  <1>1. /\ (PanSpec => []GripKept) /\ (AngleSpec => []AngleSeen) /\ (RangeSpec => []InnerFollows)
        /\ (PathSpec => []PathOrdered) /\ (TrackSpec => []TrackRight)
    BY GripIsKept, AngleIsSeen, InnerIsFollowed, PathInOrderOfTime, TrackIsRight
       DEF NodesAssumption
  <1>2. PicksTold /\ DrawnIsBoxed /\ GripKept /\ AngleSeen /\ InnerFollows
          /\ PathOrdered /\ TrackRight => EventsAnswered
    BY DEF EventsAnswered
  <1> QED
    BY <1>1, <1>2, PicksAreTold, TraversedInBox, PTL DEF Nodes

(* And every step of theirs keeps to what was asked for.                    *)
THEOREM AnswersAreKept == NodesAssumption => (Nodes => AnswersKept)
  <1> SUFFICES ASSUME NodesAssumption PROVE Nodes => AnswersKept
    OBVIOUS
  <1>1. /\ (AngleSpec => TurnsCounted) /\ (RangeSpec => DraggedInRange)
        /\ (PathSpec => ActiveStays)
    BY TurnsAreCounted, DragsInRange, ActivePointStays DEF NodesAssumption
  <1> QED
    BY <1>1, KeysAreObeyed, PTL DEF Nodes, AnswersKept

-----------------------------------------------------------------------------
(* The tooltip.                                                             *)

(* Every variable keeps its type, the counts of references, which go up    *)
(* and down, included: they need to be balanced for that.                  *)
THEOREM TooltipTyped == Spec => [](TypeOK /\ RefsBalanced)
  <1> USE TimeAssumption, TipAssumption, RootAssumption
  <1> DEFINE IInv == TypeOK /\ RefsBalanced
  <1>0. 0 \in 0..TriggerTime /\ TriggerTime \in 0..TriggerTime
    OBVIOUS
  <1>1. Init => IInv
    <2> SUFFICES ASSUME Init PROVE IInv
      OBVIOUS
    <2>1. refs \in [Roots -> Nat]
      BY DEF Init
    <2> QED
      BY <1>0, <2>1 DEF Init, TypeOK, RefsBalanced
  <1>2. IInv /\ [Next]_vars => IInv'
    <2> SUFFICES ASSUME IInv, [Next]_vars PROVE IInv'
      OBVIOUS
    <2> USE DEF TypeOK, RefsBalanced
    <2>1. ASSUME NEW p \in Positions, Grabbed(p) PROVE IInv'
      BY <1>0, <2>1 DEF Grabbed, Moves, alarm
    <2>2. ASSUME NEW p \in Positions, NEW r \in Roots, HandleEvent(p, r) PROVE IInv'
      <3>1. mouse' \in Positions /\ rested' = 0 /\ seen' \in BOOLEAN /\ automatic' = TRUE
        BY <2>2 DEF HandleEvent, Moves
      <3>2. CASE autoTrigger /\ Restart(p, r)
        <4> DEFINE kept == IF scheduled THEN Unref(refs, alarm_root) ELSE refs
        <4>1. kept = [q \in Roots |-> 0]
          BY DEF Unref
        <4>2. Ref(kept, r) = [q \in Roots |-> IF q = r THEN 1 ELSE 0]
          BY <4>1 DEF Ref
        <4>3. /\ refs' = [q \in Roots |-> IF q = r THEN 1 ELSE 0]
              /\ alarm_root' = r /\ alarm_pos' = p /\ scheduled' = TRUE
              /\ due' = TriggerTime /\ isActive' = FALSE
          BY <3>2, <4>2 DEF Restart
        <4> QED
          BY <1>0, <2>2, <3>1, <4>3 DEF HandleEvent
      <3>3. CASE ~autoTrigger /\ UNCHANGED <<isActive, alarm>>
        BY <1>0, <2>2, <3>1, <3>3 DEF HandleEvent, alarm
      <3> QED
        BY <2>2, <3>2, <3>3 DEF HandleEvent
    <2>3. CASE Ring
      <3>1. refs' = [q \in Roots |-> 0]
        BY <2>3 DEF Ring, Unref
      <3>2. refs' \in [Roots -> Nat]
        BY <3>1
      <3>3. (isActive \/ alarm_pos \in HasTip) \in BOOLEAN
        OBVIOUS
      <3> QED
        BY <2>3, <3>1, <3>2, <3>3 DEF Ring, pointer, ghosts
    <2>4. CASE Tick
      <3>1. rested' \in 0..TriggerTime /\ due' \in 0..TriggerTime
        BY <2>4 DEF Tick
      <3> QED
        BY <2>4, <3>1 DEF Tick, ghosts
    <2>5. ASSUME NEW on \in BOOLEAN, SetAutoTrigger(on) PROVE IInv'
      BY <2>5 DEF SetAutoTrigger, pointer, alarm, ghosts
    <2>6. ASSUME NEW on \in BOOLEAN, SetPickedPoint(on) PROVE IInv'
      BY <2>6 DEF SetPickedPoint, pointer, alarm
    <2>7. CASE UNCHANGED vars
      BY <2>7 DEF vars, pointer, alarm, ghosts
    <2> QED
      BY <2>1, <2>2, <2>3, <2>4, <2>5, <2>6, <2>7 DEF Next
  <1> QED
    BY <1>1, <1>2, PTL DEF Spec

(* The assertions on alarm_root hold: one reference per scheduled alarm.   *)
THEOREM ReferencesBalanced == Spec => []RefsBalanced
  BY TooltipTyped, PTL
-----------------------------------------------------------------------------
(* The alarm of the last movement rings when the mouse has rested, and the *)
(* movement was to where the mouse is.                                     *)
AlarmForRest ==
  seen /\ scheduled => alarm_pos = mouse /\ rested + due >= TriggerTime

RestInv == AlarmForRest /\ GoneWhenMoved

(* This is kept by every callback, event and call: inductive with TypeOK.  *)
LEMMA RestInvariant == Spec => []RestInv
  <1> USE TimeAssumption, TipAssumption, RootAssumption
  <1>1. Init => RestInv
    BY DEF Init, RestInv, AlarmForRest, GoneWhenMoved
  <1>2. TypeOK /\ RestInv /\ [Next]_vars => RestInv'
    <2> SUFFICES ASSUME TypeOK, RestInv, [Next]_vars PROVE RestInv'
      OBVIOUS
    <2> USE DEF RestInv, AlarmForRest, GoneWhenMoved
    <2>1. ASSUME NEW p \in Positions, Grabbed(p) PROVE RestInv'
      BY <2>1 DEF Grabbed, Moves
    <2>2. ASSUME NEW p \in Positions, NEW r \in Roots, HandleEvent(p, r) PROVE RestInv'
      BY <2>2 DEF HandleEvent, Moves, Restart
    <2>3. CASE Ring
      BY <2>3 DEF Ring, pointer, ghosts
    <2>4. CASE Tick
      <3>1. rested \in 0..TriggerTime /\ due \in 0..TriggerTime
        BY DEF TypeOK
      <3>2. rested + due >= TriggerTime => rested' + due' >= TriggerTime
        BY <2>4, <3>1 DEF Tick
      <3> QED
        BY <2>4, <3>2 DEF Tick, ghosts
    <2>5. ASSUME NEW on \in BOOLEAN, SetAutoTrigger(on) PROVE RestInv'
      BY <2>5 DEF SetAutoTrigger, pointer, alarm, ghosts
    <2>6. ASSUME NEW on \in BOOLEAN, SetPickedPoint(on) PROVE RestInv'
      BY <2>6 DEF SetPickedPoint, pointer, alarm
    <2>7. CASE UNCHANGED vars
      BY <2>7 DEF vars, pointer, alarm, ghosts
    <2> QED
      BY <2>1, <2>2, <2>3, <2>4, <2>5, <2>6, <2>7 DEF Next
  <1> QED
    BY <1>1, <1>2, TooltipTyped, PTL DEF Spec

(* A tooltip that popped up is gone with the next movement the kit sees.   *)
THEOREM MovedIsGone == Spec => []GoneWhenMoved
  <1>1. RestInv => GoneWhenMoved
    BY DEF RestInv
  <1> QED
    BY <1>1, RestInvariant, PTL

(* However the movements, the clock and the alarm interleave, a tooltip    *)
(* pops up under a mouse that has rested for the whole trigger time, if    *)
(* the kit saw its last movement.                                          *)
THEOREM RestedFirst == Spec => OnlyAfterRest
  <1>1. TypeOK /\ RestInv =>
          (Ring /\ seen /\ alarm_pos \in HasTip => alarm_pos = mouse /\ rested >= TriggerTime)
    BY DEF TypeOK, RestInv, AlarmForRest, Ring
  <1>2. TypeOK /\ RestInv /\ [Next]_vars =>
          [Ring /\ seen /\ alarm_pos \in HasTip =>
             alarm_pos = mouse /\ rested >= TriggerTime]_vars
    BY <1>1
  <1> QED
    BY <1>2, TooltipTyped, RestInvariant, PTL DEF Spec, OnlyAfterRest
=============================================================================
