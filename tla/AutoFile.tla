------------------------------ MODULE AutoFile ------------------------------
(***************************************************************************)
(* The AutoFile node (nodes/AutoFile.cpp): an SoFile that polls the file   *)
(* it shows and reads it again when the file has been modified.            *)
(*                                                                         *)
(* A timer sensor, rescheduler, triggers an idle sensor, idler, which      *)
(* stats the file and starts a second timer, toucher, when the stat        *)
(* differs from the recorded one.  toucher stats once more and touches the *)
(* name field, which makes SoFile read the file.                           *)
(*                                                                         *)
(* Time is abstract: a scheduled sensor fires at any later moment.  What   *)
(* stat() tells of a file, st_mtime and st_size, is one number, its stamp. *)
(***************************************************************************)
EXTENDS Integers

CONSTANTS
  Names,       \* the file names a user can set
  NoName,      \* the empty SbString
  MaxVersion,  \* bound on the writes of a file
  Environment  \* which of the liberties below the user and the disk take

(* "deactivate":  the user may set active to FALSE and back                *)
(* "early write": a file may be written before the idle sensor has seen    *)
(*                the name the user set                                    *)
(* "move":        a file may be moved away and back, its mtime unchanged   *)
(* "same second": a write may leave st_mtime and st_size as they were      *)
Liberties == {"deactivate", "early write", "move", "same second"}

ASSUME NamesAssumption       == NoName \notin Names
ASSUME MaxVersionAssumption  == MaxVersion \in Nat \ {0}
ASSUME EnvironmentAssumption == Environment \subseteq Liberties

VARIABLES
  active, name,                 \* the fields
  present, version, stamp,      \* the disk: files that exist, their contents
                                \* and what stat() says of them
  shown, sofull,                \* SoFile: the contents read last, and the
                                \* full name of the file they came from
  currname, fullname, recorded, \* AutoFileP; recorded is mtime and size, or
                                \* NotValid while mtimevalid is FALSE
  rescheduler, idler, toucher   \* whether each sensor is scheduled

fields  == <<active, name>>
disk    == <<present, version, stamp>>
sofile  == <<shown, sofull>>
known   == <<currname, fullname, recorded>>
sensors == <<rescheduler, idler, toucher>>
vars    == <<fields, disk, sofile, known, sensors>>

AnyName   == Names \cup {NoName}
NotValid  == 0
Stamps    == 1..MaxVersion
Contents  == [file : AnyName, version : 0..MaxVersion]
NothingRead == [file |-> NoName, version |-> 0]
Latest(f) == [file |-> f, version |-> version[f]]

TypeOK ==
  /\ active \in BOOLEAN /\ name \in AnyName
  /\ present \subseteq Names
  /\ version \in [Names -> Stamps] /\ stamp \in [Names -> Stamps]
  /\ shown \in Contents /\ sofull \in AnyName
  /\ currname \in AnyName /\ fullname \in AnyName
  /\ recorded \in Stamps \cup {NotValid}
  /\ rescheduler \in BOOLEAN /\ idler \in BOOLEAN /\ toucher \in BOOLEAN
-----------------------------------------------------------------------------
(* The constructor schedules the rescheduler: "go". *)
Init ==
  /\ active = TRUE /\ name = NoName
  /\ present = Names
  /\ version = [f \in Names |-> 1] /\ stamp = [f \in Names |-> 1]
  /\ shown = NothingRead /\ sofull = NoName
  /\ currname = NoName /\ fullname = NoName /\ recorded = NotValid
  /\ rescheduler = TRUE /\ idler = FALSE /\ toucher = FALSE

(* AutoFile::readNamedFile: SoFile opens and reads the file f.  When it    *)
(* cannot be opened the children stay; what getFullName() then answers is  *)
(* SoFile's business, and both answers are allowed.                        *)
ReadNamedFile(f) ==
  \/ /\ f \in present
     /\ shown' = Latest(f) /\ sofull' = f
  \/ /\ f \notin present
     /\ sofull' \in {sofull, NoName}
     /\ UNCHANGED shown

(* The user sets the name field; SoFile reads the file at once. *)
SetName(f) ==
  /\ name' = f
  /\ ReadNamedFile(f)
  /\ UNCHANGED <<active, disk, known, sensors>>

(* Mutant: the sensors' isScheduled() is not asked before scheduling. *)
Activate_Bug ==
  /\ active' = TRUE
  /\ rescheduler' = TRUE
  /\ UNCHANGED <<name, disk, sofile, known, idler, toucher>>

(* AutoFile::notify on active: TRUE restarts the polling unless it runs,   *)
(* FALSE unschedules all three sensors.                                    *)
Activate ==
  /\ active' = TRUE
  /\ rescheduler' = (rescheduler \/ ~idler)
  /\ UNCHANGED <<name, disk, sofile, known, idler, toucher>>

Deactivate ==
  /\ "deactivate" \in Environment
  /\ active' = FALSE
  /\ rescheduler' = FALSE /\ idler' = FALSE /\ toucher' = FALSE
  /\ UNCHANGED <<name, disk, sofile, known>>

(* AutoFileP::rescheduler_cb *)
Reschedule ==
  /\ rescheduler
  /\ rescheduler' = FALSE
  /\ idler' = (idler \/ active)
  /\ UNCHANGED <<fields, disk, sofile, known, toucher>>

(* AutoFileP::idler_cb on a name it has not seen: remember the name and    *)
(* the stat of the file, if stat() succeeds.                               *)
IdleNewName ==
  /\ name # NoName /\ name # currname
  /\ currname' = name /\ fullname' = sofull
  /\ recorded' = IF sofull \in present THEN stamp[sofull] ELSE recorded
  /\ UNCHANGED toucher

(* Mutant: the new stat is recorded before it is compared. *)
IdleOldName_Bug ==
  /\ name # NoName /\ name = currname
  /\ fullname \in present
  /\ recorded' = stamp[fullname]
  /\ UNCHANGED <<currname, fullname, toucher>>

(* ... on the name it knows: compare the stat with the recorded one and    *)
(* start the toucher when they differ, unless it is already running.       *)
IdleOldName ==
  /\ name # NoName /\ name = currname
  /\ fullname \in present
  /\ recorded' = stamp[fullname]
  /\ toucher' = (toucher \/ recorded \notin {NotValid, stamp[fullname]})
  /\ UNCHANGED <<currname, fullname>>

(* ... with no name, or when stat() fails. *)
IdleNothing ==
  /\ name = NoName \/ (name = currname /\ fullname \notin present)
  /\ UNCHANGED <<known, toucher>>

Idle ==
  /\ idler
  /\ idler' = FALSE
  /\ IF active
       THEN /\ rescheduler' = TRUE
            /\ IdleNewName \/ IdleOldName \/ IdleNothing
       ELSE UNCHANGED <<rescheduler, known, toucher>>
  /\ UNCHANGED <<fields, disk, sofile>>

(* Mutant: reload when the stat has changed since the last poll. *)
Settled_Bug == active /\ fullname \in present /\ stamp[fullname] # recorded

(* The test of AutoFileP::toucher_cb: the file is still the one recorded. *)
Settled == active /\ fullname \in present /\ stamp[fullname] = recorded

(* AutoFileP::toucher_cb: touch the name, so that SoFile reads it again. *)
Touch ==
  /\ toucher
  /\ toucher' = FALSE
  /\ IF Settled THEN ReadNamedFile(name) ELSE UNCHANGED sofile
  /\ UNCHANGED <<fields, disk, known, rescheduler, idler>>
-----------------------------------------------------------------------------
(* The disk.  A file is written at most MaxVersion - 1 times. *)
Write(f) ==
  /\ f \in present /\ version[f] < MaxVersion
  /\ "early write" \in Environment \/ f # name \/ f = currname
  /\ version' = [version EXCEPT ![f] = @ + 1]
  /\ \/ stamp' = [stamp EXCEPT ![f] = @ + 1]
     \/ "same second" \in Environment /\ UNCHANGED stamp
  /\ UNCHANGED <<fields, present, sofile, known, sensors>>

Move(f) ==
  /\ "move" \in Environment
  /\ present' = IF f \in present THEN present \ {f} ELSE present \cup {f}
  /\ UNCHANGED <<fields, version, stamp, sofile, known, sensors>>

Next ==
  \/ \E f \in AnyName : SetName(f)
  \/ Activate
  \/ Deactivate
  \/ Reschedule
  \/ Idle
  \/ Touch
  \/ \E f \in Names : Write(f) \/ Move(f)

(* Coin processes its timer queue and, when the application is idle or at  *)
(* the latest after the delay-sensor timeout, its delay queue: a scheduled *)
(* sensor is triggered.  Nothing is assumed of the user or of the disk.    *)
Fairness == WF_vars(Reschedule) /\ WF_vars(Idle) /\ WF_vars(Touch)

Spec     == Init /\ [][Next]_vars
FairSpec == Spec /\ Fairness
-----------------------------------------------------------------------------
(* The polling neither dies nor doubles: while the node is active exactly  *)
(* one of rescheduler and idler is scheduled, and an inactive node has no  *)
(* sensor scheduled, whatever order the user's toggles and the three       *)
(* callbacks come in.                                                      *)
OnePoller ==
  /\ active => (rescheduler \/ idler) /\ ~(rescheduler /\ idler)
  /\ ~active => ~rescheduler /\ ~idler /\ ~toucher

(* A modification is not forgotten: when the node has looked at the file   *)
(* it shows and the contents on disk are newer, then either the stat still *)
(* differs from the recorded one (the next poll will see it) or the reload *)
(* is scheduled.  It holds for a user who does not deactivate the node and *)
(* a disk that takes none of the liberties.                                *)
Shows(f) == shown = Latest(f)
NoLostUpdate ==
  name \in Names /\ currname = name =>
    \/ Shows(name)
    \/ recorded # stamp[name]
    \/ toucher

(* The doc's claim, AutoFile.cpp:35: when the user leaves the node active  *)
(* and its name alone, the node ends up showing what is on disk.           *)
EventuallyShown ==
  \A f \in Names :
    <>[](active /\ name = f /\ f \in present) => <>[](Shows(f))

(* The node that polls implements the node that mirrors the file. *)
Mirror == INSTANCE FileMirror
Implements == Mirror!Spec
=============================================================================
