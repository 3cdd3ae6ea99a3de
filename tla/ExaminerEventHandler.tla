----------------------- MODULE ExaminerEventHandler -----------------------
(***************************************************************************)
(* SmExaminerEventHandler (eventhandlers/SmExaminerEventHandler.cpp): what *)
(* the mouse does to the camera depends on a mode, which follows from the  *)
(* buttons and modifier keys that are down.  Releasing the button of a     *)
(* drag in motion lets the camera spin on by itself.                       *)
(*                                                                         *)
(* Where the camera goes is data: whoever moves it may move it anywhere.   *)
(***************************************************************************)
EXTENDS Integers, FiniteSets

CONSTANTS
  LogSize,   \* MOUSEPOSLOGSIZE, at least 3 as addToLog asserts
  Anywhere   \* the places the camera may be at

VARIABLES
  currentmode,
  button1down, button3down, ctrldown, shiftdown,
  historysize,      \* of the log of mouse positions
  intcnt,           \* interactions in progress
  button3enabled,
  camera,           \* where it is
  positions         \* for the properties: how many were seen since the drag
                    \* began, up to LogSize

keys     == <<button1down, button3down, ctrldown, shiftdown>>
examiner == <<currentmode, keys, historysize, intcnt, button3enabled, positions>>

Modes  == {"IDLE", "DRAGGING", "SPINNING", "PANNING", "ZOOMING"}
Active == Modes \ {"IDLE"}

ExaminerInit ==
  /\ currentmode = "IDLE"
  /\ button1down = FALSE /\ button3down = FALSE
  /\ ctrldown = FALSE /\ shiftdown = FALSE
  /\ historysize = 0 /\ intcnt = 0 /\ positions = 0
  /\ button3enabled \in BOOLEAN   \* FALSE is an SmSphereEventHandler

(* An event says whether Ctrl and Shift were down before it. *)
Kinds  == {"button1", "button2", "button3", "wheel", "ctrl", "shift",
           "location", "motion3"}
Events == {e \in [kind : Kinds, press : BOOLEAN, ctrl : BOOLEAN, shift : BOOLEAN] :
             e.kind \in {"location", "motion3"} => ~e.press}

(* A button 3 that is disabled and down without button 1 clears the bits   *)
(* of the modifiers too.                                                   *)
Nothing(down) ==
  \/ down = {}
  \/ "button3" \in down /\ "button1" \notin down /\ ~button3enabled

(* Mutant: Ctrl with both buttons goes on zooming, also when they are up. *)
ModeOf_Bug(down) ==
  CASE Nothing(down) -> "IDLE"
    [] down = {"button1"} -> "DRAGGING"
    [] down \in {{"button3"}, {"ctrl", "button1"}, {"shift", "button1"}} -> "PANNING"
    [] "ctrl" \in down -> "ZOOMING"
    [] OTHER -> "IDLE"

ModeOf(down) ==
  CASE Nothing(down) -> "IDLE"
    [] down = {"button1"} -> "DRAGGING"
    [] down \in {{"button3"}, {"ctrl", "button1"}, {"shift", "button1"}} -> "PANNING"
    [] down \in {{"button1", "button3"}, {"ctrl", "button3"},
                 {"ctrl", "shift", "button1"}} -> "ZOOMING"
    [] OTHER -> "IDLE"

(* With nothing down a spin goes on, and a drag becomes one if there are   *)
(* three positions and the mouse was fast; that enableSpin is TRUE is part *)
(* of being fast.                                                          *)
NewMode(down, h, fast) ==
  CASE Nothing(down) /\ currentmode = "SPINNING" -> "SPINNING"
    [] Nothing(down) /\ currentmode = "DRAGGING" /\ h >= 3 /\ fast -> "SPINNING"
    [] OTHER -> ModeOf(down)

Count(m) == IF m \in Active THEN 1 ELSE 0

(* Mutant: the end of a spin is not counted. *)
SetMode_Count_Bug(m, h) ==
  /\ currentmode' = m
  /\ intcnt' = IF currentmode = "SPINNING" THEN intcnt + (IF m = "IDLE" THEN 0 ELSE 1)
               ELSE intcnt + Count(m) - Count(currentmode)
  /\ historysize' = IF m = "DRAGGING" /\ m # currentmode THEN 0 ELSE h

(* Mutant: the log of the last drag is kept. *)
SetMode_Log_Bug(m, h) ==
  /\ currentmode' = m
  /\ intcnt' = intcnt + Count(m) - Count(currentmode)
  /\ historysize' = h

(* setMode: entering and leaving a mode counts, a drag clears the log. *)
SetMode(m, h) ==
  /\ currentmode' = m
  /\ intcnt' = intcnt + Count(m) - Count(currentmode)
  /\ historysize' = IF m = "DRAGGING" /\ m # currentmode THEN 0 ELSE h

Moves(e, h) ==
  \/ e.kind = "wheel" /\ e.press
  \/ e.kind = "motion3"
  \/ e.kind = "location" /\ \/ currentmode \in {"PANNING", "ZOOMING"}
                            \/ currentmode = "DRAGGING" /\ h >= 2

(* addToLog, for a drag: a position that was the last one is not added. *)
Logged(e) ==
  IF e.kind = "location" /\ currentmode = "DRAGGING"
    THEN {n \in {historysize, historysize + 1} : n > 0} ELSE {historysize}

UpTo(n) == IF n > LogSize THEN LogSize ELSE n

(* handleEvent *)
HandleEvent(e) ==
  LET is(kind, otherwise) == IF e.kind = kind THEN e.press ELSE otherwise
  IN  /\ button1down' = is("button1", button1down)
      /\ button3down' = is("button3", button3down)
      /\ ctrldown' = is("ctrl", e.ctrl)
      /\ shiftdown' = is("shift", e.shift)
      /\ \E n \in Logged(e), fast \in {FALSE, currentmode = "DRAGGING"} :
           LET h == UpTo(n)
               down == {k \in {"button1", "button3", "ctrl", "shift"} :
                          \/ k = "button1" /\ button1down'
                          \/ k = "button3" /\ button3down'
                          \/ k = "ctrl" /\ ctrldown'
                          \/ k = "shift" /\ shiftdown'}
           IN  /\ camera' \in IF Moves(e, h) THEN Anywhere ELSE {camera}
               /\ SetMode(NewMode(down, h, fast), h)
               /\ positions' = IF currentmode' = "DRAGGING" /\ currentmode # "DRAGGING"
                                 THEN 0 ELSE UpTo(positions + (n - historysize))
      /\ UNCHANGED button3enabled

(* preRender: the camera spins on. *)
PreRender ==
  /\ currentmode = "SPINNING"
  /\ camera' \in Anywhere
  /\ UNCHANGED examiner

IsAnimating == currentmode # "IDLE"
-----------------------------------------------------------------------------
(* Every part of the state has its type; the log fits its arrays. *)
ExaminerTypeOK ==
  /\ currentmode \in Modes
  /\ {button1down, button3down, ctrldown, shiftdown, button3enabled} \subseteq BOOLEAN
  /\ historysize \in 0..LogSize /\ positions \in 0..LogSize
  /\ camera \in Anywhere

(* Whatever the order of buttons and keys, the counter of interactions is  *)
(* one while there is one and zero otherwise.                              *)
InteractionsCounted == intcnt = Count(currentmode)

(* The mouse moves the camera only while a button is held; a spin is over  *)
(* as soon as button 1 is pressed again.                                   *)
ModesHeld ==
  /\ currentmode \in {"DRAGGING", "PANNING", "ZOOMING"} => button1down \/ button3down
  /\ currentmode = "SPINNING" => ~button1down
=============================================================================
