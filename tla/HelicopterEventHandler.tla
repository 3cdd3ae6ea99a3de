---------------------- MODULE HelicopterEventHandler ----------------------
(***************************************************************************)
(* SmHelicopterEventHandler (eventhandlers/SmHelicopterEventHandler.cpp)   *)
(* with the pulse of its base class: while a button is down a timer moves  *)
(* the camera, further the farther the mouse is from where it was pressed. *)
(***************************************************************************)
EXTENDS Integers

CONSTANT Anywhere   \* the places the camera may be at

VARIABLES state, flydirection, pulseenabled, camera

helicopter == <<state, flydirection, pulseenabled>>

Down == [button1 |-> "LMB_DOWN", button2 |-> "RMB_DOWN", button3 |-> "MMB_DOWN"]

HelicopterInit ==
  state = "WAIT_FOR_BUTTONDOWN" /\ flydirection = "NONE" /\ pulseenabled = FALSE

Press(button) ==
  /\ state = "WAIT_FOR_BUTTONDOWN"
  /\ state' = Down[button] /\ pulseenabled' = TRUE
  /\ UNCHANGED <<flydirection, camera>>

(* Mutant: the direction of the flight is remembered. *)
Release_Bug ==
  /\ state # "WAIT_FOR_BUTTONDOWN"
  /\ state' = "WAIT_FOR_BUTTONDOWN" /\ pulseenabled' = FALSE
  /\ UNCHANGED <<flydirection, camera>>

(* The release of any button, also of another one. *)
Release ==
  /\ state # "WAIT_FOR_BUTTONDOWN"
  /\ state' = "WAIT_FOR_BUTTONDOWN" /\ pulseenabled' = FALSE
  /\ flydirection' = "NONE"
  /\ UNCHANGED camera

(* handleEvent *)
HandleEvent(e) ==
  \/ e.kind \in DOMAIN Down /\ e.press /\ Press(e.kind)
  \/ e.kind \in DOMAIN Down /\ ~e.press /\ Release
  \/ /\ \/ e.kind \notin DOMAIN Down
        \/ e.press /\ state # "WAIT_FOR_BUTTONDOWN"
        \/ ~e.press /\ state = "WAIT_FOR_BUTTONDOWN"
     /\ UNCHANGED <<helicopter, camera>>

(* pulse: dy is the way of the mouse up or down, after the 20 pixels that  *)
(* turning round takes; the first of it decides the direction.             *)
Pulse ==
  /\ pulseenabled
  /\ camera' \in Anywhere
  /\ \E dy \in {-1, 0, 1} :
       flydirection' = IF state = "LMB_DOWN" /\ flydirection = "NONE" /\ dy # 0
                         THEN IF dy > 0 THEN "FWD" ELSE "BACK"
                         ELSE flydirection
  /\ UNCHANGED <<state, pulseenabled>>

(* isAnimating of the base class: the handler has an isAnimation instead. *)
IsAnimating == FALSE
-----------------------------------------------------------------------------
(* Every part of the state has its type. *)
HelicopterTypeOK ==
  /\ state \in {"WAIT_FOR_BUTTONDOWN"} \cup {Down[b] : b \in DOMAIN Down}
  /\ flydirection \in {"NONE", "FWD", "BACK"} /\ pulseenabled \in BOOLEAN

(* The timer runs exactly while a button is held, and a direction belongs  *)
(* to the flight in progress.                                              *)
FliesWhileHeld ==
  /\ pulseenabled <=> state # "WAIT_FOR_BUTTONDOWN"
  /\ flydirection # "NONE" => state = "LMB_DOWN"
=============================================================================
