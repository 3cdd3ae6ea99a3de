----------------------- MODULE CameraControlKitProofs -----------------------
(* Theorems about CameraControlKit, for any places, times of seeks and     *)
(* size of the log of mouse positions.                                     *)
EXTENDS CameraControlKit, TLAPS

(* What InteractionsCounted compares the counter with. *)
LEMMA CountType == ASSUME NEW m PROVE Examiner!Count(m) \in {0, 1}
BY DEF Examiner!Count

(* The counter follows the mode in every change of it. *)
LEMMA SetModeCounts ==
  ASSUME InteractionsCounted, NEW m, NEW h, Examiner!SetMode(m, h)
  PROVE  InteractionsCounted'
<1>1. currentmode' = m /\ intcnt' = intcnt + Examiner!Count(m) - Examiner!Count(currentmode)
  BY DEF Examiner!SetMode
<1>2. intcnt = Examiner!Count(currentmode)
  BY DEF InteractionsCounted, Examiner!InteractionsCounted
<1>3. intcnt' = Examiner!Count(m)
  <2> DEFINE new == Examiner!Count(m)
             old == Examiner!Count(currentmode)
  <2>1. new \in {0, 1} /\ old \in {0, 1}
    BY CountType
  <2>2. intcnt' = old + new - old
    BY <1>1, <1>2
  <2> HIDE DEF new, old
  <2>3. intcnt' = new
    BY <2>1, <2>2
  <2> QED
    BY <2>3 DEF new
<1> QED
  BY <1>1, <1>3 DEF InteractionsCounted, Examiner!InteractionsCounted, Examiner!Count, Examiner!Active, Examiner!Modes

(* Whoever acts, the examiner changes only by an event it handles.         *)
LEMMA ExaminerSteps ==
  ASSUME [Next]_vars
  PROVE  \/ UNCHANGED examiner
         \/ \E e \in Examiner!Events : Examiner!HandleEvent(e)
BY DEF Next, vars, HandleEvent, ViewAll, GLRender, Pulse, SeekToPoint, SeekSensor,
       Tick, SetEventHandler, examiner, Examiner!PreRender, Examiner!examiner, Examiner!keys

(* Whatever the order of buttons and keys, whichever handler is set and    *)
(* whatever else moves the camera, the counter of interactions is one      *)
(* while the examiner has one and zero otherwise.                          *)
THEOREM OneInteraction == Spec => []InteractionsCounted
<1>1. Init => InteractionsCounted
  BY DEF Init, Examiner!ExaminerInit, InteractionsCounted,
         Examiner!InteractionsCounted, Examiner!Count, Examiner!Active
<1>2. InteractionsCounted /\ [Next]_vars => InteractionsCounted'
  <2> SUFFICES ASSUME InteractionsCounted, [Next]_vars PROVE InteractionsCounted'
    OBVIOUS
  <2>1. CASE UNCHANGED examiner
    BY <2>1 DEF examiner, InteractionsCounted, Examiner!InteractionsCounted, Examiner!Count
  <2>2. ASSUME NEW e \in Examiner!Events, Examiner!HandleEvent(e)
        PROVE  InteractionsCounted'
    <3>1. \E m, h : Examiner!SetMode(m, h)
      BY <2>2 DEF Examiner!HandleEvent
    <3> QED
      BY <3>1, SetModeCounts
  <2> QED
    BY <2>1, <2>2, ExaminerSteps
<1> QED
  BY <1>1, <1>2, PTL DEF Spec

(* The modes that need a button are chosen only while one is down. *)
LEMMA ModeNeedsButton ==
  ASSUME NEW down, NEW h, NEW fast
  PROVE  /\ Examiner!NewMode(down, h, fast) \in {"DRAGGING", "PANNING", "ZOOMING"}
              => "button1" \in down \/ "button3" \in down
         /\ Examiner!NewMode(down, h, fast) = "SPINNING" => "button1" \notin down
<1>1. /\ Examiner!ModeOf(down) \in {"DRAGGING", "PANNING", "ZOOMING"}
           => "button1" \in down \/ "button3" \in down
      /\ Examiner!ModeOf(down) # "SPINNING"
  BY DEF Examiner!ModeOf
<1>2. Examiner!Nothing(down) => "button1" \notin down
  BY DEF Examiner!Nothing
<1> QED
  BY <1>1, <1>2 DEF Examiner!NewMode

(* What the mouse does to the camera needs a button that is down, and a    *)
(* spin ends when button 1 is pressed, in every order of events.           *)
LEMMA ExaminerHeld == Spec => []Examiner!ModesHeld
<1> USE DEF Examiner!ModesHeld
<1>1. Init => Examiner!ModesHeld
  BY DEF Init, Examiner!ExaminerInit
<1>2. Examiner!ModesHeld /\ [Next]_vars => Examiner!ModesHeld'
  <2> SUFFICES ASSUME Examiner!ModesHeld, [Next]_vars PROVE Examiner!ModesHeld'
    OBVIOUS
  <2>1. CASE UNCHANGED examiner
    BY <2>1 DEF examiner
  <2>2. ASSUME NEW e \in Examiner!Events, Examiner!HandleEvent(e)
        PROVE  Examiner!ModesHeld'
    <3> DEFINE down == {k \in {"button1", "button3", "ctrl", "shift"} :
                          \/ k = "button1" /\ button1down'
                          \/ k = "button3" /\ button3down'
                          \/ k = "ctrl" /\ ctrldown'
                          \/ k = "shift" /\ shiftdown'}
    <3>1. \E h, fast : currentmode' = Examiner!NewMode(down, h, fast)
      BY <2>2 DEF Examiner!HandleEvent, Examiner!SetMode
    <3>2. ("button1" \in down <=> button1down') /\ ("button3" \in down <=> button3down')
      OBVIOUS
    <3> HIDE DEF down
    <3> QED
      BY <3>1, <3>2, ModeNeedsButton
  <2> QED
    BY <2>1, <2>2, ExaminerSteps
<1> QED
  BY <1>1, <1>2, PTL DEF Spec

(* The timer of the helicopter runs exactly while it flies, also when the  *)
(* kit has got another event handler in the meantime.                      *)
LEMMA FlightsHeld == Spec => []Helicopter!FliesWhileHeld
<1> USE DEF Helicopter!FliesWhileHeld
<1>1. Init => Helicopter!FliesWhileHeld
  BY DEF Init, Helicopter!HelicopterInit
<1>2. Helicopter!FliesWhileHeld /\ [Next]_vars => Helicopter!FliesWhileHeld'
  <2> SUFFICES ASSUME Helicopter!FliesWhileHeld, [Next]_vars PROVE Helicopter!FliesWhileHeld'
    OBVIOUS
  <2> USE DEF helicopter, Helicopter!helicopter
  <2>1. ASSUME NEW e, Helicopter!HandleEvent(e) PROVE Helicopter!FliesWhileHeld'
    <3>1. ASSUME NEW b \in DOMAIN Helicopter!Down, Helicopter!Press(b)
          PROVE  Helicopter!FliesWhileHeld'
      BY <3>1 DEF Helicopter!Press, Helicopter!Down
    <3>2. CASE Helicopter!Release
      BY <3>2 DEF Helicopter!Release
    <3>3. CASE UNCHANGED helicopter
      BY <3>3
    <3> QED
      BY <2>1, <3>1, <3>2, <3>3 DEF Helicopter!HandleEvent
  <2>2. CASE Helicopter!Pulse
    BY <2>2 DEF Helicopter!Pulse
  <2>3. CASE UNCHANGED helicopter
    BY <2>3
  <2>4. \/ \E e : Helicopter!HandleEvent(e)
        \/ Helicopter!Pulse
        \/ UNCHANGED helicopter
    BY DEF Next, vars, HandleEvent, ViewAll, GLRender, Pulse, SeekToPoint, SeekSensor,
           Tick, SetEventHandler
  <2> QED
    BY <2>1, <2>2, <2>3, <2>4
<1> QED
  BY <1>1, <1>2, PTL DEF Spec

(* Whatever moves the camera is held by a button, whichever handler gets   *)
(* the events and is replaced by which.                                    *)
THEOREM HeldByButtons == Spec => []ModesHeld
<1>1. Examiner!ModesHeld /\ Helicopter!FliesWhileHeld => ModesHeld
  BY DEF ModesHeld
<1> QED
  BY <1>1, ExaminerHeld, FlightsHeld, PTL

(* The log of a drag has no more positions than were seen since it began,  *)
(* and a drag has its button.                                              *)
DragInv ==
  /\ historysize \in Nat /\ positions \in Nat
  /\ currentmode = "DRAGGING" => button1down /\ historysize =< positions

(* An event adds at most one position to log and count alike, and a drag   *)
(* begins with none.  What ends a drag is no movement of the mouse, so     *)
(* that the count of before the event will do.                             *)
LEMMA EventKeepsLog ==
  ASSUME DragInv, NEW e, Examiner!HandleEvent(e)
  PROVE  /\ DragInv'
         /\ currentmode # "SPINNING" /\ currentmode' = "SPINNING" => positions >= 3
<1> USE LogAssumption
<1> DEFINE Down == {k \in {"button1", "button3", "ctrl", "shift"} :
                      \/ k = "button1" /\ button1down'
                      \/ k = "button3" /\ button3down'
                      \/ k = "ctrl" /\ ctrldown'
                      \/ k = "shift" /\ shiftdown'}
<1>1. PICK n \in Examiner!Logged(e), fast \in BOOLEAN :
        /\ Examiner!SetMode(Examiner!NewMode(Down, Examiner!UpTo(n), fast), Examiner!UpTo(n))
        /\ positions' = IF currentmode' = "DRAGGING" /\ currentmode # "DRAGGING"
                          THEN 0 ELSE Examiner!UpTo(positions + (n - historysize))
  BY DEF Examiner!HandleEvent
<1>2. n \in Nat /\ n - historysize \in {0, 1}
  BY DEF DragInv, Examiner!Logged
<1>3. "button1" \in Down <=> button1down'
  OBVIOUS
<1>4. e.kind = "location" => (button1down' <=> button1down)
  BY DEF Examiner!HandleEvent
<1> HIDE DEF Down
<1> DEFINE h == Examiner!UpTo(n)
           m == Examiner!NewMode(Down, h, fast)
           p == Examiner!UpTo(positions + (n - historysize))
<1>5. /\ currentmode' = m
      /\ historysize' = IF m = "DRAGGING" /\ m # currentmode THEN 0 ELSE h
  BY <1>1 DEF Examiner!SetMode
<1>6. /\ m = "SPINNING" => \/ currentmode = "SPINNING"
                           \/ currentmode = "DRAGGING" /\ h >= 3 /\ "button1" \notin Down
      /\ m = "DRAGGING" => "button1" \in Down
  BY DEF Examiner!NewMode, Examiner!ModeOf, Examiner!Nothing
<1>7. h \in Nat /\ p \in Nat /\ (currentmode = "DRAGGING" => h =< p)
  BY <1>2 DEF Examiner!UpTo, DragInv
<1>8. e.kind # "location" => n = historysize
  BY DEF Examiner!Logged
<1>9. n >= h
  BY <1>2 DEF Examiner!UpTo
<1> HIDE DEF h, m, p
<1>10. positions' = IF m = "DRAGGING" /\ currentmode # "DRAGGING" THEN 0 ELSE p
  BY <1>1, <1>5 DEF p
<1>11. DragInv'
  BY <1>3, <1>5, <1>6, <1>7, <1>10 DEF DragInv
<1>12. ASSUME currentmode # "SPINNING", currentmode' = "SPINNING" PROVE positions >= 3
  <2>1. currentmode = "DRAGGING" /\ h >= 3 /\ ~button1down'
    BY <1>3, <1>5, <1>6, <1>12
  <2>2. e.kind # "location"
    BY <2>1, <1>4 DEF DragInv
  <2> QED
    BY <2>1, <2>2, <1>2, <1>7, <1>8, <1>9 DEF DragInv
<1> QED
  BY <1>11, <1>12

(* A drag ends in a spin only on three positions of this drag, whatever    *)
(* handleEvent left in the log of earlier ones.                            *)
THEOREM SpunByDrag == Spec => SpinFromDrag
<1> DEFINE Spun == currentmode # "SPINNING" /\ currentmode' = "SPINNING" => positions >= 3
<1>1. Init => DragInv
  BY DEF Init, Examiner!ExaminerInit, DragInv
<1>2. DragInv /\ [Next]_vars => DragInv' /\ [Spun]_vars
  <2> SUFFICES ASSUME DragInv, [Next]_vars PROVE DragInv' /\ Spun
    OBVIOUS
  <2>1. CASE UNCHANGED examiner
    BY <2>1 DEF examiner, DragInv
  <2>2. ASSUME NEW e \in Examiner!Events, Examiner!HandleEvent(e)
        PROVE  DragInv' /\ Spun
    BY <2>2, EventKeepsLog
  <2> QED
    BY <2>1, <2>2, ExaminerSteps
<1> QED
  BY <1>1, <1>2, PTL DEF Spec, SpinFromDrag
-----------------------------------------------------------------------------
(* Division by the time of a seek rounds down, so that it keeps the order. *)
LEMMA Quotient ==
  ASSUME NEW a \in Int, NEW t \in Nat \ {0}
  PROVE  /\ a \div t \in Int
         /\ t * (a \div t) =< a
         /\ a < t * (a \div t) + t
BY Z3

LEMMA ProductMonotone ==
  ASSUME NEW t \in Nat, NEW p \in Int, NEW q \in Int, p =< q
  PROVE  t * p =< t * q
BY Z3

LEMMA QuotientMonotone ==
  ASSUME NEW a \in Int, NEW b \in Int, NEW t \in Nat \ {0}, a =< b
  PROVE  a \div t =< b \div t
<1>1. PICK p \in Int : p = a \div t /\ t * p =< a /\ a < t * p + t
  BY Quotient
<1>2. PICK q \in Int : q = b \div t /\ t * q =< b /\ b < t * q + t
  BY Quotient
<1>3. ASSUME q + 1 =< p PROVE FALSE
  <2>1. t * (q + 1) =< t * p
    BY <1>3, ProductMonotone
  <2>2. t * (q + 1) = t * q + t
    OBVIOUS
  <2> QED
    BY <2>1, <2>2, <1>1, <1>2
<1> QED
  BY <1>1, <1>2, <1>3

LEMMA QuotientOfProduct ==
  ASSUME NEW x \in Int, NEW t \in Nat \ {0}
  PROVE  (x * t) \div t = x
<1>1. PICK p \in Int : p = (x * t) \div t /\ t * p =< t * x /\ t * x < t * p + t
  BY Quotient
<1>2. ASSUME NEW i \in Int, NEW j \in Int, i + 1 =< j PROVE t * i + t =< t * j
  <2>1. t * (i + 1) =< t * j
    BY <1>2, ProductMonotone
  <2> QED
    BY <2>1
<1> QED
  BY <1>1, <1>2

(* How far a seek of x has come when e of its time t has elapsed. *)
Way(x, e, t) == (x * e) \div t

(* Later on the way it has come further, and never beyond the end. *)
LEMMA WayMonotone ==
  ASSUME NEW x \in Int, NEW t \in Nat \ {0}, NEW d \in 0..t, NEW e \in d..t
  PROVE  /\ Way(x, d, t) \in Int /\ Way(x, e, t) \in Int
         /\ x >= 0 => Way(x, d, t) =< Way(x, e, t) /\ Way(x, e, t) =< x
         /\ x < 0 => Way(x, e, t) =< Way(x, d, t) /\ x =< Way(x, e, t)
<1>1. /\ d \in Nat /\ e \in Nat /\ d =< e /\ e =< t
      /\ x * d \in Int /\ x * e \in Int /\ x * t \in Int
  OBVIOUS
<1>2. CASE x >= 0
  <2>1. x * d =< x * e /\ x * e =< x * t
    BY <1>1, <1>2, ProductMonotone
  <2> QED
    BY <1>1, <1>2, <2>1, QuotientMonotone, QuotientOfProduct, Quotient DEF Way
<1>3. CASE x < 0
  <2>1. (-x) * d =< (-x) * e /\ (-x) * e =< (-x) * t
    BY <1>1, <1>3, ProductMonotone
  <2>2. x * e =< x * d /\ x * t =< x * e
    BY <2>1, <1>1
  <2> QED
    BY <1>1, <1>3, <2>2, QuotientMonotone, QuotientOfProduct, Quotient DEF Way
<1> QED
  BY <1>2, <1>3

(* A seek that nobody has disturbed has the camera where it was put at     *)
(* some earlier moment of this seek: at first at its start.                *)
SeekInv ==
  /\ camera \in Int
  /\ seek # NoSeek =>
       /\ seek \in [start : Int, end : Places, time : Nat \ {0}, elapsed : Nat]
       /\ seek.elapsed =< seek.time
       /\ undisturbed => \E d \in 0..seek.elapsed :
                            camera = seek.start + Way(seek.end - seek.start, d, seek.time)

LEMMA PlacesAreNumbers == (\A p \in Places : p \in Int) /\ \A s \in SeekTimes : s \in Nat
BY SeekAssumption

(* What any step does to the camera and to the seek. *)
LEMMA SeekSteps ==
  ASSUME [Next]_vars
  PROVE  \/ /\ camera' = camera \/ camera' \in Places
            /\ seek' = seek
            /\ undisturbed' = undisturbed \/ undisturbed' = (undisturbed /\ camera' = camera)
            /\ camera' # camera => ~undisturbed'
         \/ \E p \in Places, time \in SeekTimes : SeekToPoint(p, time)
         \/ SeekSensor
         \/ Tick
<1> USE DEF Disturb
<1>1. ASSUME NEW e, HandleEvent(e)
      PROVE  (camera' = camera \/ camera' \in Places) /\ seek' = seek
  BY <1>1 DEF HandleEvent, Examiner!HandleEvent, Helicopter!HandleEvent, Helicopter!Press,
              Helicopter!Release, Helicopter!helicopter
<1>2. ASSUME NEW e, HandleEvent(e)
      PROVE  undisturbed' = (undisturbed /\ camera' = camera)
  BY <1>2 DEF HandleEvent
<1>3. ASSUME ViewAll \/ GLRender \/ Pulse
      PROVE  /\ camera' \in Places /\ seek' = seek
             /\ undisturbed' = (undisturbed /\ camera' = camera)
  BY <1>3 DEF ViewAll, GLRender, Pulse, Examiner!PreRender, Helicopter!Pulse
<1>4. ASSUME NEW h, SetEventHandler(h)
      PROVE  camera' = camera /\ seek' = seek /\ undisturbed' = undisturbed
  BY <1>4 DEF SetEventHandler
<1>5. CASE UNCHANGED vars
  BY <1>5 DEF vars
<1>6. CASE Next
  BY <1>1, <1>2, <1>3, <1>4, <1>6 DEF Next
<1> QED
  BY <1>5, <1>6

(* The end of a seek is nearer from later on its way. *)
LEMMA SensorGoesThere ==
  ASSUME SeekInv, SeekSensor
  PROVE  /\ SeekInv'
         /\ undisturbed => Seeks!Distance(camera', seek.end)
                             =< Seeks!Distance(camera, seek.end)
         /\ seek' = NoSeek => camera' = seek.end
<1> USE SeekAssumption, PlacesAreNumbers
<1> DEFINE x == seek.end - seek.start
<1>1. /\ seek # NoSeek
      /\ undisturbed' = undisturbed
      /\ camera' = IF Seeks!Over THEN seek.end ELSE Seeks!Between(seek)
      /\ seek' = IF Seeks!Over THEN NoSeek ELSE seek
  BY DEF SeekSensor, Seeks!SeekSensor, Seeks!IsSeeking
<1>2. /\ seek \in [start : Int, end : Places, time : Nat \ {0}, elapsed : Nat]
      /\ seek.start \in Int /\ seek.end \in Int /\ seek.time \in Nat \ {0}
      /\ seek.elapsed \in 0..seek.time /\ x \in Int
      /\ camera \in Int
  <2>1. seek \in [start : Int, end : Places, time : Nat \ {0}, elapsed : Nat]
    BY <1>1 DEF SeekInv
  <2>2. seek.elapsed =< seek.time /\ camera \in Int
    BY <1>1 DEF SeekInv
  <2>3. /\ seek.start \in Int /\ seek.end \in Int /\ seek.time \in Nat \ {0}
        /\ seek.elapsed \in Nat
    BY <2>1, PlacesAreNumbers
  <2> QED
    BY <2>1, <2>2, <2>3
<1>3. Seeks!Between(seek) = seek.start + Way(x, seek.elapsed, seek.time)
  BY DEF Seeks!Between, Way
<1>4. Way(x, seek.elapsed, seek.time) \in Int
  BY <1>2, WayMonotone
<1>5. CASE Seeks!Over
  BY <1>1, <1>2, <1>5 DEF SeekInv, Seeks!Distance
<1>6. CASE ~Seeks!Over
  <2>1. camera' = seek.start + Way(x, seek.elapsed, seek.time) /\ seek' = seek /\ seek' # NoSeek
    BY <1>1, <1>3, <1>6
  <2>2. seek.elapsed \in 0..seek.elapsed
    BY <1>2
  <2>3. SeekInv'
    BY <1>1, <1>2, <1>4, <2>1, <2>2 DEF SeekInv
  <2>4. ASSUME undisturbed
        PROVE  Seeks!Distance(camera', seek.end) =< Seeks!Distance(camera, seek.end)
    <3>1. PICK d \in 0..seek.elapsed : camera = seek.start + Way(x, d, seek.time)
      BY <1>1, <2>4 DEF SeekInv
    <3>2. d \in 0..seek.time /\ seek.elapsed \in d..seek.time
      BY <1>2
    <3> DEFINE v == Way(x, d, seek.time)
               w == Way(x, seek.elapsed, seek.time)
    <3>3. /\ v \in Int /\ w \in Int
          /\ x >= 0 => v =< w /\ w =< x
          /\ x < 0 => w =< v /\ x =< w
      BY <1>2, <3>2, WayMonotone
    <3>4. camera = seek.start + v /\ camera' = seek.start + w /\ seek.end = seek.start + x
      BY <1>2, <2>1, <3>1
    <3> HIDE DEF v, w, x
    <3> QED
      BY <1>2, <3>3, <3>4 DEF Seeks!Distance
  <2> QED
    BY <2>1, <2>3, <2>4
<1> QED
  BY <1>5, <1>6

(* A seek that nobody disturbs takes the camera nearer with every step,    *)
(* also when it replaced another one half way, and it ends at its end.     *)
THEOREM SeeksGoThere == Spec => SeekGoesThere
<1> USE SeekAssumption, PlacesAreNumbers
<1> DEFINE Goes == SeekSensor =>
                     /\ undisturbed => Seeks!Distance(camera', seek.end)
                                         =< Seeks!Distance(camera, seek.end)
                     /\ seek' = NoSeek => camera' = seek.end
<1>1. Init => SeekInv
  BY DEF Init, Seeks!SeekInit, SeekInv
<1>2. SeekInv /\ [Next]_vars => SeekInv' /\ [Goes]_vars
  <2> SUFFICES ASSUME SeekInv, [Next]_vars PROVE SeekInv' /\ Goes
    OBVIOUS
  <2>1. Goes
    BY SensorGoesThere
  <2>2. SeekSensor => SeekInv'
    BY SensorGoesThere
  <2>3. ASSUME /\ camera' = camera \/ camera' \in Places
               /\ seek' = seek
               /\ undisturbed' = undisturbed \/ undisturbed' = (undisturbed /\ camera' = camera)
               /\ camera' # camera => ~undisturbed'
        PROVE  SeekInv'
    <3>1. camera' \in Int
      BY <2>3, PlacesAreNumbers DEF SeekInv
    <3>2. undisturbed' => undisturbed /\ camera' = camera
      BY <2>3 DEF SeekInv
    <3> QED
      BY <2>3, <3>1, <3>2 DEF SeekInv
  <2>4. ASSUME NEW p \in Places, NEW time \in SeekTimes, SeekToPoint(p, time)
        PROVE  SeekInv'
    <3>1. CASE time = 0
      <4>1. camera' = p /\ seek' = seek /\ ~undisturbed'
        BY <2>4, <3>1 DEF SeekToPoint, Seeks!SeekToPoint
      <4> QED
        BY <4>1 DEF SeekInv
    <3>2. CASE time # 0
      <4>1. /\ seek' = [start |-> camera, end |-> p, time |-> time, elapsed |-> 0]
            /\ camera' = camera /\ undisturbed' = TRUE
        BY <2>4, <3>2 DEF SeekToPoint, Seeks!SeekToPoint
      <4>2. time \in Nat \ {0} /\ camera \in Int /\ p \in Int
        BY <3>2 DEF SeekInv
      <4>3. Way(p - camera, 0, time) = 0
        BY <4>2 DEF Way
      <4>4. camera' = camera + Way(p - camera, 0, time) /\ 0 \in 0..0
        BY <4>1, <4>2, <4>3
      <4> QED
        BY <4>1, <4>2, <4>4 DEF SeekInv
    <3> QED
      BY <3>1, <3>2
  <2>5. ASSUME Tick PROVE SeekInv'
    <3>1. /\ seek # NoSeek /\ ~(seek.elapsed >= seek.time)
          /\ seek' = [seek EXCEPT !.elapsed = @ + 1]
          /\ camera' = camera /\ undisturbed' = undisturbed
      BY <2>5 DEF Tick, Seeks!Tick, Seeks!IsSeeking, Seeks!Over
    <3>2. /\ seek \in [start : Int, end : Places, time : Nat \ {0}, elapsed : Nat]
          /\ seek.elapsed \in Nat /\ seek.time \in Nat \ {0}
      BY <3>1 DEF SeekInv
    <3>3. /\ seek' \in [start : Int, end : Places, time : Nat \ {0}, elapsed : Nat]
          /\ seek'.start = seek.start /\ seek'.end = seek.end /\ seek'.time = seek.time
          /\ seek'.elapsed = seek.elapsed + 1 /\ seek'.elapsed =< seek'.time
          /\ 0..seek.elapsed \subseteq 0..seek'.elapsed
      BY <3>1, <3>2
    <3>4. ASSUME undisturbed
          PROVE  \E d \in 0..seek'.elapsed :
                    camera = seek.start + Way(seek.end - seek.start, d, seek.time)
      BY <3>1, <3>3, <3>4 DEF SeekInv
    <3> QED
      BY <3>1, <3>3, <3>4 DEF SeekInv
  <2> QED
    BY <2>1, <2>2, <2>3, <2>4, <2>5, SeekSteps
<1> QED
  BY <1>1, <1>2, PTL DEF Spec, SeekGoesThere
=============================================================================
