----------------------------- MODULE TooltipKit -----------------------------
(***************************************************************************)
(* SmTooltipKit (nodekits/SmTooltipKit.cpp).  Every mouse movement the kit *)
(* sees restarts an alarm; when the alarm rings the kit picks at the       *)
(* position of that movement, below the root it was traversed from, and    *)
(* shows the text of the SmTooltip node it finds there.                    *)
(*                                                                         *)
(* Time passes in ticks; an alarm rings at its time or later.              *)
(***************************************************************************)
EXTENDS Integers

CONSTANTS
  Positions,  \* of the mouse
  NoPosition,
  HasTip,     \* the positions over a shape with an SmTooltip
  Roots,      \* the scene graphs the kit is in
  NoRoot,
  TriggerTime   \* autoTriggerTime

ASSUME TimeAssumption      == TriggerTime \in Nat \ {0}
ASSUME TipAssumption       == HasTip \subseteq Positions
ASSUME RootAssumption      == NoRoot \notin Roots /\ NoPosition \notin Positions

VARIABLES
  mouse, rested,        \* where the mouse is, and for how many ticks
  autoTrigger, isActive, \* fields
  scheduled, due,       \* the alarm, and the ticks until its time
  alarm_root, alarm_pos,
  refs,                 \* refs[r]: the references the kit holds to root r
  seen, automatic       \* for the properties: the kit saw the last movement,
                        \* the application did not use the tooltip since

pointer == <<mouse, rested>>
alarm   == <<scheduled, due, alarm_root, alarm_pos, refs>>
ghosts  == <<seen, automatic>>
vars    == <<pointer, autoTrigger, isActive, alarm, ghosts>>

Init == /\ mouse \in Positions /\ rested = 0
        /\ autoTrigger = TRUE /\ isActive = FALSE
        /\ scheduled = FALSE /\ due = 0
        /\ alarm_root = NoRoot /\ alarm_pos = NoPosition
        /\ refs = [r \in Roots |-> 0]
        /\ seen = FALSE /\ automatic = TRUE

Ref(rs, r)   == [q \in Roots |-> IF q = r THEN rs[q] + 1 ELSE rs[q]]
Unref(rs, r) == [q \in Roots |-> IF q = r THEN rs[q] - 1 ELSE rs[q]]

Moves(p, kitsees) == /\ p # mouse
                     /\ mouse' = p /\ rested' = 0
                     /\ seen' = kitsees /\ automatic' = TRUE

(* Mutant: the reference to the root of the last movement is kept. *)
Restart_Bug(p, root) ==
  /\ isActive' = FALSE
  /\ refs' = Ref(refs, root)
  /\ alarm_root' = root /\ alarm_pos' = p
  /\ scheduled' = TRUE /\ due' = TriggerTime

(* Mutant: an alarm that is scheduled already keeps its time. *)
Restart_Late_Bug(p, root) ==
  /\ isActive' = FALSE
  /\ refs' = Ref(IF scheduled THEN Unref(refs, alarm_root) ELSE refs, root)
  /\ alarm_root' = root /\ alarm_pos' = p
  /\ scheduled' = TRUE /\ due' = IF scheduled THEN due ELSE TriggerTime

(* Mutant: an alarm that was scheduled is not scheduled again. *)
Restart_Lost_Bug(p, root) ==
  /\ isActive' = FALSE
  /\ refs' = IF scheduled THEN Unref(refs, alarm_root) ELSE Ref(refs, root)
  /\ alarm_root' = IF scheduled THEN NoRoot ELSE root
  /\ alarm_pos' = p
  /\ scheduled' = ~scheduled /\ due' = TriggerTime

(* handleEvent for a movement, when autoTrigger is TRUE. *)
Restart(p, root) ==
  /\ isActive' = FALSE
  /\ refs' = Ref(IF scheduled THEN Unref(refs, alarm_root) ELSE refs, root)
  /\ alarm_root' = root /\ alarm_pos' = p
  /\ scheduled' = TRUE /\ due' = TriggerTime

(* Mutant: nothing is done while a tooltip is shown. *)
HandleEvent_Bug(p, root) ==
  /\ Moves(p, autoTrigger)
  /\ \/ autoTrigger /\ ~isActive /\ Restart(p, root)
     \/ (~autoTrigger \/ isActive) /\ UNCHANGED <<isActive, alarm>>
  /\ UNCHANGED autoTrigger

(* handleEvent *)
HandleEvent(p, root) ==
  /\ Moves(p, autoTrigger)
  /\ \/ autoTrigger /\ Restart(p, root)
     \/ ~autoTrigger /\ UNCHANGED <<isActive, alarm>>
  /\ UNCHANGED autoTrigger

(* A node before the kit handles the movement. *)
Grabbed(p) ==
  /\ Moves(p, FALSE)
  /\ UNCHANGED <<autoTrigger, isActive, alarm>>

(* alarm_cb; it does not look at autoTrigger or at the mouse. *)
Ring ==
  /\ scheduled /\ due = 0
  /\ isActive' = (isActive \/ alarm_pos \in HasTip)
  /\ scheduled' = FALSE
  /\ refs' = Unref(refs, alarm_root) /\ alarm_root' = NoRoot
  /\ UNCHANGED <<pointer, autoTrigger, due, alarm_pos, ghosts>>

(* The alarm is late at most as long as the mouse is known to rest. *)
Tick ==
  /\ rested < TriggerTime \/ due > 0
  /\ rested' = IF rested < TriggerTime THEN rested + 1 ELSE rested
  /\ due' = IF due > 0 THEN due - 1 ELSE 0
  /\ UNCHANGED <<mouse, autoTrigger, isActive, scheduled, alarm_root, alarm_pos,
                 refs, ghosts>>

SetAutoTrigger(on) ==
  /\ autoTrigger' = on
  /\ UNCHANGED <<pointer, isActive, alarm, ghosts>>

(* setPickedPoint, called with a point or with NULL *)
SetPickedPoint(on) ==
  /\ isActive' = on /\ automatic' = FALSE
  /\ UNCHANGED <<pointer, autoTrigger, alarm, seen>>

Next == \/ \E p \in Positions : Grabbed(p) \/ \E r \in Roots : HandleEvent(p, r)
        \/ Ring \/ Tick
        \/ \E on \in BOOLEAN : SetAutoTrigger(on) \/ SetPickedPoint(on)

Spec     == Init /\ [][Next]_vars
FairSpec == Spec /\ WF_vars(Ring) /\ WF_vars(Tick)
-----------------------------------------------------------------------------
TypeOK ==
  /\ mouse \in Positions /\ alarm_pos \in Positions \cup {NoPosition}
  /\ rested \in 0..TriggerTime /\ due \in 0..TriggerTime
  /\ autoTrigger \in BOOLEAN /\ isActive \in BOOLEAN /\ scheduled \in BOOLEAN
  /\ alarm_root \in Roots \cup {NoRoot}
  /\ refs \in [Roots -> Nat]
  /\ seen \in BOOLEAN /\ automatic \in BOOLEAN

(* What the two assertions on alarm_root rely on, and the destructor: the  *)
(* kit holds one reference, to the root of the scheduled alarm, and none   *)
(* when no alarm is scheduled.                                             *)
RefsBalanced ==
  /\ scheduled <=> alarm_root # NoRoot
  /\ \A r \in Roots : refs[r] = IF r = alarm_root THEN 1 ELSE 0

(* A tooltip pops up only under a mouse that has rested for the time, if   *)
(* the kit saw the last movement.                                          *)
OnlyAfterRest ==
  [][Ring /\ seen /\ alarm_pos \in HasTip =>
       alarm_pos = mouse /\ rested >= TriggerTime]_vars

(* A tooltip that popped up is gone as soon as the kit sees the mouse move. *)
GoneWhenMoved ==
  isActive /\ seen /\ automatic => mouse = alarm_pos /\ mouse \in HasTip

(* A mouse that rests over a shape with a tooltip gets to see it, unless   *)
(* the application interferes.                                             *)
PopsUp ==
  \A p \in HasTip :
    (seen /\ mouse = p /\ automatic) ~> (isActive \/ mouse # p \/ ~automatic)

(* Tooltips pop up by themselves only while autoTrigger is TRUE, as its    *)
(* documentation says; the code does not keep this.                        *)
OnlyWhenOn == [][Ring /\ isActive' /\ ~isActive => autoTrigger]_vars
=============================================================================
