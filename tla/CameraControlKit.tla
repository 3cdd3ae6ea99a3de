-------------------------- MODULE CameraControlKit --------------------------
(***************************************************************************)
(* SmCameraControlKit (nodekits/SmCameraControlKit.cpp) with its parts: a  *)
(* camera, an event handler that may be replaced, and the seeks of         *)
(* cameracontrol.  User events, the timers of seek and helicopter,         *)
(* rendering and the application all move the same camera.                 *)
(***************************************************************************)
EXTENDS Integers, FiniteSets

CONSTANTS Places, SeekTimes, NoSeek, LogSize

ASSUME SeekAssumption == /\ Places \subseteq Nat /\ SeekTimes \subseteq Nat
                         /\ NoSeek \notin [start : Int, end : Places,
                                           time : Nat, elapsed : Nat]
ASSUME LogAssumption  == LogSize \in Nat /\ LogSize > 2

VARIABLES
  eventHandler,   \* the field
  camera,         \* where the kit's camera is
  seek,           \* its running seek, or NoSeek
  currentmode, button1down, button3down, ctrldown, shiftdown, historysize,
  intcnt, button3enabled, positions,               \* the examiner
  state, flydirection, pulseenabled,               \* the helicopter
  undisturbed     \* for the properties: only the seek has moved the camera
                  \* since it began

Seeks      == INSTANCE CameraControl
Examiner   == INSTANCE ExaminerEventHandler WITH Anywhere <- Places
Helicopter == INSTANCE HelicopterEventHandler WITH Anywhere <- Places

examiner   == <<currentmode, button1down, button3down, ctrldown, shiftdown,
                historysize, intcnt, button3enabled, positions>>
helicopter == <<state, flydirection, pulseenabled>>
vars == <<eventHandler, camera, seek, examiner, helicopter, undisturbed>>

Init == /\ eventHandler = "examiner"
        /\ Seeks!SeekInit /\ Examiner!ExaminerInit /\ Helicopter!HelicopterInit
        /\ undisturbed = FALSE

(* The seek, if there is one, is no longer the only one to move the camera. *)
Disturb == undisturbed' = (undisturbed /\ camera' = camera)

(* handleEvent, for an event the scene does not handle first.  The press   *)
(* of V is viewAll, whatever the event handler.                            *)
HandleEvent(e) ==
  /\ \/ eventHandler = "examiner" /\ Examiner!HandleEvent(e) /\ UNCHANGED helicopter
     \/ eventHandler = "helicopter" /\ Helicopter!HandleEvent(e) /\ UNCHANGED examiner
  /\ Disturb
  /\ UNCHANGED <<eventHandler, seek>>

ViewAll ==
  /\ camera' \in Places
  /\ Disturb
  /\ UNCHANGED <<eventHandler, seek, examiner, helicopter>>

(* GLRender *)
GLRender ==
  /\ eventHandler = "examiner" /\ Examiner!PreRender
  /\ Disturb
  /\ UNCHANGED <<eventHandler, seek, helicopter>>

(* The timer of a helicopter, which goes on when another handler is set. *)
Pulse ==
  /\ Helicopter!Pulse
  /\ Disturb
  /\ UNCHANGED <<eventHandler, seek, examiner>>

(* seekToPoint *)
SeekToPoint(p, time) ==
  /\ Seeks!SeekToPoint(p, time)
  /\ undisturbed' = (time # 0)
  /\ UNCHANGED <<eventHandler, examiner, helicopter>>

SeekSensor ==
  /\ Seeks!SeekSensor
  /\ UNCHANGED <<eventHandler, examiner, helicopter, undisturbed>>

Tick ==
  /\ Seeks!Tick
  /\ UNCHANGED <<eventHandler, examiner, helicopter, undisturbed>>

(* notify, for the eventHandler field: the application keeps the handlers. *)
SetEventHandler(h) ==
  /\ eventHandler' = h
  /\ UNCHANGED <<camera, seek, examiner, helicopter, undisturbed>>

Next == \/ \E e \in Examiner!Events : HandleEvent(e)
        \/ ViewAll \/ GLRender \/ Pulse
        \/ \E h \in {"examiner", "helicopter"} : SetEventHandler(h)
        \/ \E p \in Places, time \in SeekTimes : SeekToPoint(p, time)
        \/ SeekSensor \/ Tick

Spec     == Init /\ [][Next]_vars
FairSpec == Spec /\ WF_vars(SeekSensor) /\ WF_vars(Tick)

(* isAnimating *)
IsAnimating ==
  \/ Seeks!IsSeeking
  \/ eventHandler = "examiner" /\ Examiner!IsAnimating
  \/ eventHandler = "helicopter" /\ Helicopter!IsAnimating
-----------------------------------------------------------------------------
(* The parts have their types: in particular, the log of mouse positions   *)
(* fits its arrays, and a seek that has run out of time does not go on.    *)
TypeOK ==
  /\ Seeks!SeekTypeOK /\ Examiner!ExaminerTypeOK /\ Helicopter!HelicopterTypeOK
  /\ undisturbed \in BOOLEAN

(* Whatever the order of buttons and keys, and whichever handler gets      *)
(* them, the examiner counts one interaction exactly while it has one.     *)
InteractionsCounted == Examiner!InteractionsCounted

(* The mouse moves the camera only while a button is held; a spin is over  *)
(* as soon as button 1 is pressed again.  The helicopter's timer runs      *)
(* exactly while a button is held, and a direction belongs to the flight   *)
(* in progress.                                                            *)
ModesHeld == Examiner!ModesHeld /\ Helicopter!FliesWhileHeld

(* A drag ends in a spin only on the evidence of three positions of this   *)
(* drag, never of an earlier one.                                          *)
SpinFromDrag ==
  [][currentmode # "SPINNING" /\ currentmode' = "SPINNING" => positions >= 3]_vars

(* A seek that nobody disturbs takes the camera nearer with every step,    *)
(* also when it replaced another one half way, and it ends at its end.     *)
SeekGoesThere ==
  [][SeekSensor =>
       /\ undisturbed => Seeks!Distance(camera', seek.end)
                           =< Seeks!Distance(camera, seek.end)
       /\ seek' = NoSeek => camera' = seek.end]_vars

(* Seeks end, whatever the user and the rest of the application do, unless *)
(* there are new ones for ever.                                            *)
SeekEnds ==
  <>[][seek' \in {seek, NoSeek} \/ Seeks!Tick]_vars => <>[](seek = NoSeek)

(* Whoever monitors isAnimating, as a comment of the helicopter puts it,   *)
(* is told of a flight in progress; the code does not tell.                *)
FlightIsAnimating ==
  eventHandler = "helicopter" /\ state # "WAIT_FOR_BUTTONDOWN" => IsAnimating
=============================================================================
