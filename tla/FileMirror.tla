----------------------------- MODULE FileMirror -----------------------------
(***************************************************************************)
(* What AutoFile promises, with none of its sensors: a node that shows the *)
(* file called name, reads it when the name is set, and reads it again     *)
(* sooner or later once the file on disk is newer than what is shown.      *)
(* AutoFile.cpp:35, "used to automatically reload files when modified".    *)
(***************************************************************************)
EXTENDS Naturals

CONSTANTS
  Names,    \* the file names a user can set
  NoName    \* the empty SbString

VARIABLES
  name,     \* the file the node shows
  version,  \* version[f]: the contents on disk, counted by its writes
  shown     \* [file, version] read last; file is NoName before any reading

NothingRead == [file |-> NoName, version |-> 0]

Latest(f) == [file |-> f, version |-> version[f]]

Init == /\ name = NoName
        /\ version = [f \in Names |-> 1]
        /\ shown = NothingRead

(* The node reads the file when it is given a name. *)
SetName(f) == /\ name' = f
              /\ shown' = IF f \in Names THEN Latest(f) ELSE shown
              /\ UNCHANGED version

(* Another process writes a file. *)
Write(f) == /\ version' = [version EXCEPT ![f] = @ + 1]
            /\ UNCHANGED <<name, shown>>

Stale == name \in Names /\ shown # Latest(name)

Reload == /\ Stale
          /\ shown' = Latest(name)
          /\ UNCHANGED <<name, version>>

vars == <<name, version, shown>>

Next == \/ \E f \in Names \cup {NoName} : SetName(f)
        \/ \E f \in Names : Write(f)
        \/ Reload

Spec == Init /\ [][Next]_vars /\ WF_vars(Reload)
=============================================================================
