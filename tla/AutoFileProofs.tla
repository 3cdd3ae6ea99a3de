--------------------------- MODULE AutoFileProofs ---------------------------
(* Theorems about AutoFile, for any set of names and any bound on writes. *)
EXTENDS AutoFile, TLAPS

(* The parameters, as the provers are to know them. *)
USE NamesAssumption, MaxVersionAssumption, EnvironmentAssumption

(* Every variable keeps its type, in every environment: Spec of AutoFile   *)
(* with all the callbacks of AutoFile.cpp.                                 *)
THEOREM TypeCorrect == Spec => []TypeOK
<1> DEFINE IInv == TypeOK /\ \A f \in Names : stamp[f] =< version[f]
<1>1. Init => IInv
  <2> SUFFICES ASSUME Init PROVE IInv
    OBVIOUS
  <2>1. 1 \in Stamps
    BY DEF Stamps
  <2>2. shown \in Contents
    BY DEF Init, NothingRead, Contents, AnyName
  <2>3. \A f \in Names : stamp[f] =< version[f]
    <3>1. \A f \in Names : stamp[f] = 1 /\ version[f] = 1
      BY DEF Init
    <3>2. 1 =< 1
      OBVIOUS
    <3> QED
      BY <3>1, <3>2
  <2>4. version \in [Names -> Stamps] /\ stamp \in [Names -> Stamps]
    BY <2>1 DEF Init
  <2> QED
    BY <2>2, <2>3, <2>4 DEF Init, TypeOK, AnyName, NotValid
<1>2. IInv /\ [Next]_vars => IInv'
  <2> SUFFICES ASSUME IInv, [Next]_vars PROVE IInv'
    OBVIOUS
  <2> USE DEF TypeOK, fields, disk, sofile, known, sensors
  <2>0. ASSUME NEW f \in AnyName, ReadNamedFile(f)
        PROVE  shown' \in Contents /\ sofull' \in AnyName
    BY <2>0 DEF ReadNamedFile, Latest, Contents, AnyName, Stamps
  <2>1. ASSUME NEW f \in AnyName, SetName(f) PROVE IInv'
    BY <2>0, <2>1 DEF SetName
  <2>2. CASE Activate
    BY <2>2 DEF Activate
  <2>3. CASE Deactivate
    BY <2>3 DEF Deactivate
  <2>4. CASE Reschedule
    BY <2>4 DEF Reschedule
  <2>5. CASE Idle
    <3>1. stamp[fullname] \in Stamps \/ fullname \notin present
      OBVIOUS
    <3>2. stamp[sofull] \in Stamps \/ sofull \notin present
      OBVIOUS
    <3> QED
      BY <2>5, <3>1, <3>2 DEF Idle, IdleNewName, IdleOldName, IdleNothing
  <2>6. CASE Touch
    BY <2>0, <2>6 DEF Touch
  <2>7. ASSUME NEW f \in Names, Write(f) PROVE IInv'
    <3>0. \A g \in Names : /\ version[g] \in Stamps /\ stamp[g] \in Stamps
                           /\ stamp[g] =< version[g]
      OBVIOUS
    <3>1. version[f] + 1 \in Stamps /\ stamp[f] + 1 \in Stamps
      <4>1. version[f] < MaxVersion
        BY <2>7 DEF Write
      <4> QED
        BY <3>0, <4>1 DEF Stamps
    <3>2. version' \in [Names -> Stamps] /\ stamp' \in [Names -> Stamps]
      BY <2>7, <3>1 DEF Write
    <3>3. \A g \in Names : stamp'[g] =< version'[g]
      <4>1. version' = [version EXCEPT ![f] = @ + 1]
        BY <2>7 DEF Write
      <4>2. stamp' = [stamp EXCEPT ![f] = @ + 1] \/ stamp' = stamp
        BY <2>7 DEF Write
      <4> QED
        BY <3>0, <4>1, <4>2 DEF Stamps
    <3> QED
      BY <2>7, <3>2, <3>3 DEF Write
  <2>8. ASSUME NEW f \in Names, Move(f) PROVE IInv'
    BY <2>8 DEF Move
  <2>9. CASE UNCHANGED vars
    BY <2>9 DEF vars
  <2> QED
    BY <2>1, <2>2, <2>3, <2>4, <2>5, <2>6, <2>7, <2>8, <2>9 DEF Next
<1> QED
  BY <1>1, <1>2, PTL DEF Spec

(* The polling neither dies nor doubles, in every environment: what        *)
(* AutoFile::notify asks of the sensors before scheduling one is enough.   *)
THEOREM PollerAlive == Spec => []OnePoller
<1>1. Init => OnePoller
  BY DEF Init, OnePoller
<1>2. TypeOK /\ OnePoller /\ [Next]_vars => OnePoller'
  <2> SUFFICES ASSUME TypeOK, OnePoller, [Next]_vars PROVE OnePoller'
    OBVIOUS
  <2> USE DEF OnePoller, fields, sensors
  <2>0. active \in BOOLEAN /\ rescheduler \in BOOLEAN /\ idler \in BOOLEAN
    BY DEF TypeOK
  <2>1. ASSUME NEW f \in AnyName, SetName(f) PROVE OnePoller'
    BY <2>1 DEF SetName
  <2>2. CASE Activate
    BY <2>0, <2>2 DEF Activate
  <2>3. CASE Deactivate
    BY <2>3 DEF Deactivate
  <2>4. CASE Reschedule
    BY <2>0, <2>4 DEF Reschedule
  <2>5. CASE Idle
    BY <2>0, <2>5 DEF Idle
  <2>6. CASE Touch
    BY <2>6 DEF Touch
  <2>7. ASSUME NEW f \in Names, Write(f) PROVE OnePoller'
    BY <2>7 DEF Write
  <2>8. ASSUME NEW f \in Names, Move(f) PROVE OnePoller'
    BY <2>8 DEF Move
  <2>9. CASE UNCHANGED vars
    BY <2>9 DEF vars
  <2> QED
    BY <2>1, <2>2, <2>3, <2>4, <2>5, <2>6, <2>7, <2>8, <2>9 DEF Next
<1> QED
  BY <1>1, <1>2, TypeCorrect, PTL DEF Spec

-----------------------------------------------------------------------------
(* What the callbacks know of the file in an environment without           *)
(* liberties: the recorded stat is that of the file of currname, and never *)
(* ahead of the disk; and a name no poll has seen yet is shown as it is.   *)
Remembered ==
  /\ present = Names /\ active
  /\ name \in Names => sofull = name
  /\ currname \in Names => /\ fullname = currname
                           /\ recorded \in 1..stamp[currname]
  /\ name \in Names /\ name # currname => Shows(name)

(* A modification of the file is never forgotten by the three callbacks,   *)
(* when the user leaves active alone and the disk takes no liberty.        *)
THEOREM NothingLost ==
  ASSUME Environment = {}
  PROVE  Spec => []NoLostUpdate
<1> DEFINE IInv == Remembered /\ NoLostUpdate
<1>1. Init => IInv
  BY DEF Init, Remembered, NoLostUpdate
<1>2. TypeOK /\ IInv /\ [Next]_vars => IInv'
  <2> SUFFICES ASSUME TypeOK, IInv, [Next]_vars PROVE IInv'
    OBVIOUS
  <2> USE DEF Remembered, NoLostUpdate, Shows, Latest, fields, disk, sofile,
              known, sensors
  <2>0. /\ NoName \notin Names /\ name \in AnyName /\ currname \in AnyName
        /\ \A f \in Names : stamp[f] \in Nat \ {0}
    BY DEF TypeOK, Stamps
  <2>1. ASSUME NEW f \in AnyName, SetName(f) PROVE IInv'
    BY <2>0, <2>1 DEF SetName, ReadNamedFile
  <2>2. CASE Activate
    BY <2>2 DEF Activate
  <2>3. CASE Deactivate
    BY <2>3 DEF Deactivate
  <2>4. CASE Reschedule
    BY <2>4 DEF Reschedule
  <2>5. CASE Idle
    <3>1. CASE IdleNewName
      <4>1. name \in Names /\ sofull = name /\ Shows(name)
        BY <2>0, <3>1 DEF IdleNewName, AnyName
      <4>2. /\ currname' = name /\ fullname' = name
            /\ recorded' = stamp[name]
        BY <3>1, <4>1 DEF IdleNewName
      <4> QED
        BY <2>0, <2>5, <4>1, <4>2 DEF Idle
    <3>2. CASE IdleOldName
      <4>1. name \in Names /\ fullname = name /\ recorded # NotValid
        BY <2>0, <3>2 DEF IdleOldName, AnyName, NotValid
      <4>2. recorded' = stamp[name]
        BY <3>2, <4>1 DEF IdleOldName
      <4>3. toucher \/ recorded # stamp[name] => toucher'
        BY <3>2, <4>1 DEF IdleOldName
      <4>4. currname = name /\ currname' = name /\ fullname' = name
        BY <3>2, <4>1 DEF IdleOldName
      <4>5. name \in Names => Shows(name) \/ toucher'
        BY <4>3, <4>4
      <4>6. UNCHANGED <<fields, disk, sofile>>
        BY <2>5 DEF Idle
      <4>7. NoLostUpdate'
        BY <4>5, <4>6
      <4>8. stamp[name] \in 1..stamp[name]
        BY <2>0, <4>1
      <4> QED
        BY <2>0, <4>1, <4>2, <4>4, <4>6, <4>7, <4>8
    <3>3. CASE IdleNothing
      BY <2>5, <3>3 DEF Idle, IdleNothing
    <3> QED
      BY <2>5, <3>1, <3>2, <3>3 DEF Idle
  <2>6. CASE Touch
    BY <2>0, <2>6 DEF Touch, Settled, ReadNamedFile
  <2>7. ASSUME NEW f \in Names, Write(f) PROVE IInv'
    <3>1. /\ f # name \/ f = currname
          /\ stamp' = [stamp EXCEPT ![f] = @ + 1]
          /\ version' = [version EXCEPT ![f] = @ + 1]
          /\ UNCHANGED <<fields, present, sofile, known, sensors>>
      BY <2>7 DEF Write
    <3>2. \A g \in Names : stamp'[g] = IF g = f THEN stamp[g] + 1 ELSE stamp[g]
      BY <3>1 DEF TypeOK
    <3>3. currname \in Names => /\ recorded \in 1..stamp'[currname]
                                /\ currname = f => recorded # stamp'[currname]
      BY <2>0, <3>2
    <3>4. \A g \in Names \ {f} : version'[g] = version[g] /\ stamp'[g] = stamp[g]
      BY <3>1, <3>2 DEF TypeOK
    <3> QED
      BY <2>0, <3>1, <3>3, <3>4
  <2>8. ASSUME NEW f \in Names, Move(f) PROVE IInv'
    BY <2>8 DEF Move
  <2>9. CASE UNCHANGED vars
    BY <2>9 DEF vars
  <2> QED
    BY <2>1, <2>2, <2>3, <2>4, <2>5, <2>6, <2>7, <2>8, <2>9 DEF Next
<1> QED
  BY <1>1, <1>2, TypeCorrect, PTL DEF Spec

(* Whatever the callbacks do, and even when the user deactivates the node  *)
(* or writes the file early, the node only ever shows a file as it was     *)
(* when it read it: every step of AutoFile is a step of the mirror or none *)
(* at all, as long as the files stay where they are.                       *)
THEOREM MirrorsTheFile ==
  ASSUME "move" \notin Environment
  PROVE  Spec => Mirror!Init /\ [][Mirror!Next]_Mirror!vars
<1> DEFINE IInv == present = Names
<1>1. Init => IInv /\ Mirror!Init
  BY DEF Init, NothingRead, Mirror!Init, Mirror!NothingRead
<1>2. IInv /\ [Next]_vars => IInv' /\ [Mirror!Next]_Mirror!vars
  <2> SUFFICES ASSUME IInv, [Next]_vars
               PROVE  IInv' /\ [Mirror!Next]_Mirror!vars
    OBVIOUS
  <2> USE DEF fields, disk, sofile, Latest, Mirror!vars, Mirror!Latest
  <2>1. ASSUME NEW f \in AnyName, SetName(f)
        PROVE  IInv' /\ Mirror!Next
    BY <2>1 DEF SetName, ReadNamedFile, AnyName, Mirror!Next, Mirror!SetName
  <2>2. CASE Activate
    BY <2>2 DEF Activate
  <2>3. CASE Deactivate
    BY <2>3 DEF Deactivate
  <2>4. CASE Reschedule
    BY <2>4 DEF Reschedule
  <2>5. CASE Idle
    BY <2>5 DEF Idle
  <2>6. CASE Touch
    BY <2>6 DEF Touch, ReadNamedFile, Mirror!Next, Mirror!Reload, Mirror!Stale
  <2>7. ASSUME NEW f \in Names, Write(f)
        PROVE  IInv' /\ Mirror!Next
    BY <2>7 DEF Write, Mirror!Next, Mirror!Write
  <2>8. ASSUME NEW f \in Names, Move(f) PROVE FALSE
    BY <2>8 DEF Move
  <2>9. CASE UNCHANGED vars
    BY <2>9 DEF vars
  <2> QED
    BY <2>1, <2>2, <2>3, <2>4, <2>5, <2>6, <2>7, <2>8, <2>9 DEF Next
<1> QED
  BY <1>1, <1>2, PTL DEF Spec
=============================================================================
