--------------------------- MODULE CameraControl ---------------------------
(***************************************************************************)
(* misc/cameracontrol.cpp as one camera sees it: its entry in the table of *)
(* running seeks, and the timer that takes the camera from where it was    *)
(* when the seek began to the end point.  Position and orientation are one *)
(* number, and the seek moves evenly between the two.                      *)
(***************************************************************************)
EXTENDS Integers

CONSTANTS Places, SeekTimes, NoSeek

VARIABLES
  camera,   \* where it is
  seek      \* its entry in cameradict, or NoSeek

SeekInit == camera \in Places /\ seek = NoSeek

IsSeeking == seek # NoSeek

(* Mutant: a seek that replaces another one keeps its starting point. *)
SeekToPoint_Bug(p, time) ==
  \/ time = 0 /\ camera' = p /\ UNCHANGED seek
  \/ /\ time # 0
     /\ seek' = [start |-> IF IsSeeking THEN seek.start ELSE camera,
                 end |-> p, time |-> time, elapsed |-> 0]
     /\ UNCHANGED camera

(* cam_seek_to_point, and cam_seek_to_node once it has found the point.    *)
(* A seek that takes no time leaves a running one alone.                   *)
SeekToPoint(p, time) ==
  \/ time = 0 /\ camera' = p /\ UNCHANGED seek
  \/ /\ time # 0
     /\ seek' = [start |-> camera, end |-> p, time |-> time, elapsed |-> 0]
     /\ UNCHANGED camera

(* A seek is over when its time is, or the little of it that is shorter    *)
(* than the interval of the timer.                                         *)
Over == seek.elapsed >= seek.time

Between(s) == s.start + ((s.end - s.start) * s.elapsed) \div s.time

(* Mutant: a seek ends only if the timer is in time. *)
SeekSensor_Bug ==
  /\ IsSeeking
  /\ camera' = Between(seek)
  /\ seek' = IF Over /\ camera # seek.end THEN NoSeek ELSE seek

(* seeksensorCB *)
SeekSensor ==
  /\ IsSeeking
  /\ camera' = IF Over THEN seek.end ELSE Between(seek)
  /\ seek' = IF Over THEN NoSeek ELSE seek

(* Time passes. *)
Tick == /\ IsSeeking /\ ~Over
        /\ seek' = [seek EXCEPT !.elapsed = @ + 1]
        /\ UNCHANGED camera
-----------------------------------------------------------------------------
(* A seek in progress goes between two places and takes some time. *)
SeekTypeOK ==
  /\ camera \in Places
  /\ IsSeeking => /\ seek.start \in Places /\ seek.end \in Places
                  /\ seek.time \in SeekTimes \ {0}
                  /\ seek.elapsed \in 0..seek.time

Distance(p, q) == IF p > q THEN p - q ELSE q - p
=============================================================================
