-------------------------- MODULE ViewpointWrapper --------------------------
(***************************************************************************)
(* SmViewpointWrapper (nodes/ViewpointWrapper.cpp): a camera that follows  *)
(* the bound one of the VRML viewpoints of a scene graph, and that writes  *)
(* its own movements back to it.  The viewpoints form a stack, ordered by  *)
(* the set_bind events the application sends them.                         *)
(*                                                                         *)
(* Every field of interest has a sensor in Coin's delay queue, whose       *)
(* callback runs some time after the change and reads the values of then.  *)
(* Where a camera or a viewpoint is, is one number, and what a scene graph *)
(* does to a viewpoint is to add another one to it.                        *)
(***************************************************************************)
EXTENDS Integers, Sequences, SequencesExt

CONSTANTS
  Viewpoints, NoViewpoint,
  Scene,    \* the viewpoints as a search of the scene graph meets them
  Fields,   \* of the camera, with a sensor each
  Poses     \* the number of poses; they wrap around

ASSUME PosesAssumption == Poses \in Nat \ {0}
ASSUME GraphAssumption == /\ Scene \in Seq(Viewpoints) /\ Scene # <<>>
                          /\ NoViewpoint \notin Viewpoints

VARIABLES
  nodelist,           \* the stack, empty before setSceneGraph
  pathtoviewpoint,    \* the bound viewpoint, or NoViewpoint
  set_bind, isBound,  \* fields of the viewpoints
  viewpoint, matrix,  \* where every viewpoint is in its scene graph, and
                      \* where the scene graph puts it
  camera,             \* position, orientation and heightAngle
  set_bind_sensors,   \* the scheduled ones, by their index in the list
  fieldsensors,       \* the fields whose sensors are scheduled
  pathsensor          \* the sensor of the bound viewpoint is scheduled

stack   == <<nodelist, pathtoviewpoint, isBound>>
scene   == <<viewpoint, matrix>>
sensors == <<set_bind_sensors, fieldsensors, pathsensor>>
vars    == <<stack, set_bind, scene, camera, sensors>>

Pose == 0..(Poses - 1)

(* gmaction and its inverse *)
World(v) == (viewpoint[v] + matrix[v]) % Poses
Local(v) == (camera - matrix[v]) % Poses

Init == /\ nodelist = <<>> /\ pathtoviewpoint = NoViewpoint
        /\ set_bind = [v \in Viewpoints |-> FALSE]
        /\ isBound = [v \in Viewpoints |-> FALSE]
        /\ viewpoint \in [Viewpoints -> Pose]
        /\ matrix = [v \in Viewpoints |-> 0]
        /\ camera = 0
        /\ set_bind_sensors = {} /\ fieldsensors = {} /\ pathsensor = FALSE
-----------------------------------------------------------------------------
(* The sensors that are attached to the set_bind field of v. *)
SensorsOf(v) == {k \in DOMAIN Scene : Scene[k] = v}

(* A change of v, or of its scene graph, is a change of the path to it. *)
PathChanges(v) == pathsensor' = (pathsensor \/ v = pathtoviewpoint)

(* Whether a set_bind or isBound event is such a change, Coin decides. *)
PathMayChange(v) == pathsensor' \in {pathsensor, pathsensor \/ v = pathtoviewpoint}

(* setSceneGraph: the first viewpoint is to be bound. *)
SetSceneGraph ==
  /\ nodelist = <<>>
  /\ nodelist' = Scene
  /\ set_bind' = [set_bind EXCEPT ![Scene[1]] = TRUE]
  /\ set_bind_sensors' = SensorsOf(Scene[1])
  /\ UNCHANGED <<pathtoviewpoint, isBound, scene, camera, fieldsensors, pathsensor>>

(* The application sends a viewpoint a set_bind event. *)
SetBind(v, on) ==
  /\ nodelist # <<>>
  /\ set_bind' = [set_bind EXCEPT ![v] = on]
  /\ set_bind_sensors' = set_bind_sensors \cup SensorsOf(v)
  /\ PathMayChange(v)
  /\ UNCHANGED <<stack, scene, camera, fieldsensors>>

(* The application moves a viewpoint, or the scene graph around it. *)
MoveViewpoint(v, p, m) ==
  /\ viewpoint' = [viewpoint EXCEPT ![v] = p]
  /\ matrix' = [matrix EXCEPT ![v] = m]
  /\ PathChanges(v)
  /\ UNCHANGED <<stack, set_bind, camera, set_bind_sensors, fieldsensors>>

(* The user moves the camera, changing some of its fields. *)
MoveCamera(p, fields) ==
  /\ p # camera /\ fields # {}
  /\ camera' = p
  /\ fieldsensors' = fieldsensors \cup fields
  /\ UNCHANGED <<stack, set_bind, scene, set_bind_sensors, pathsensor>>
-----------------------------------------------------------------------------
(* Mutant: the viewpoint that was bound is not told. *)
SetViewpoint_Silent_Bug(v) ==
  /\ pathtoviewpoint' = v
  /\ isBound' = [isBound EXCEPT ![v] = TRUE]
  /\ pathsensor' \in BOOLEAN
  /\ camera' = World(v) /\ fieldsensors' = {}

(* setViewpoint: the camera is moved with its own sensors detached, which  *)
(* unschedules them; the path sensor is attached before the isBound event. *)
SetViewpoint(v) ==
  /\ pathtoviewpoint' = v
  /\ isBound' = [w \in Viewpoints |-> w = v \/ (isBound[w] /\ w # pathtoviewpoint)]
  /\ pathsensor' \in BOOLEAN
  /\ camera' = World(v) /\ fieldsensors' = {}

BindTopOfStack == SetViewpoint(nodelist'[1])

(* set_bind_cb of the sensor with index k: it deals with the node that has *)
(* this index in the stack now.  A TRUE event puts it on top.              *)
Bind(k) ==
  LET node == nodelist[k]
  IN  /\ set_bind[node]
      /\ \/ /\ pathtoviewpoint = node
            /\ UNCHANGED <<stack, camera, fieldsensors, pathsensor>>
         \/ /\ pathtoviewpoint # node
            /\ nodelist' = <<node>> \o RemoveAt(nodelist, k)
            /\ BindTopOfStack

(* Mutant: the next viewpoint is not bound. *)
Unbind_Bug(k) ==
  LET node == nodelist[k]
  IN  /\ ~set_bind[node]
      /\ nodelist' = IF k = 1 THEN Append(Tail(nodelist), node) ELSE nodelist
      /\ UNCHANGED <<pathtoviewpoint, isBound, camera, fieldsensors, pathsensor>>

(* A FALSE event takes the top of the stack to its bottom. *)
Unbind(k) ==
  LET node == nodelist[k]
  IN  /\ ~set_bind[node]
      /\ \/ /\ k = 1
            /\ nodelist' = Append(Tail(nodelist), node)
            /\ BindTopOfStack
         \/ /\ k # 1
            /\ UNCHANGED <<stack, camera, fieldsensors, pathsensor>>

SetBindCb(k) ==
  /\ k \in set_bind_sensors
  /\ set_bind_sensors' = set_bind_sensors \ {k}
  /\ Bind(k) \/ Unbind(k)
  /\ UNCHANGED <<set_bind, scene>>

(* Mutant: the camera's position is written as it is. *)
UpdateViewpoint_Bug(f) ==
  /\ f \in fieldsensors
  /\ fieldsensors' = fieldsensors \ {f}
  /\ \/ pathtoviewpoint = NoViewpoint /\ UNCHANGED <<viewpoint, pathsensor>>
     \/ /\ pathtoviewpoint # NoViewpoint
        /\ viewpoint' = [viewpoint EXCEPT ![pathtoviewpoint] = camera]
        /\ pathsensor' = FALSE
  /\ UNCHANGED <<stack, set_bind, matrix, camera, set_bind_sensors>>

(* fieldsensor_cb: the bound viewpoint is moved with the path sensor       *)
(* detached, which unschedules it.                                         *)
UpdateViewpoint(f) ==
  /\ f \in fieldsensors
  /\ fieldsensors' = fieldsensors \ {f}
  /\ \/ pathtoviewpoint = NoViewpoint /\ UNCHANGED <<viewpoint, pathsensor>>
     \/ /\ pathtoviewpoint # NoViewpoint
        /\ viewpoint' = [viewpoint EXCEPT ![pathtoviewpoint] = Local(pathtoviewpoint)]
        /\ pathsensor' = FALSE
  /\ UNCHANGED <<stack, set_bind, matrix, camera, set_bind_sensors>>

(* pathsensor_cb *)
UpdateCamera ==
  /\ pathsensor
  /\ pathsensor' = FALSE
  /\ camera' = World(pathtoviewpoint) /\ fieldsensors' = {}
  /\ UNCHANGED <<stack, set_bind, scene, set_bind_sensors>>

Callbacks == \/ \E k \in DOMAIN Scene : SetBindCb(k)
             \/ \E f \in Fields : UpdateViewpoint(f)
             \/ UpdateCamera

Next == \/ SetSceneGraph \/ Callbacks
        \/ \E v \in Viewpoints :
             \/ \E on \in BOOLEAN : SetBind(v, on)
             \/ \E p, m \in Pose : MoveViewpoint(v, p, m)
        \/ \E p \in Pose, fs \in SUBSET Fields : MoveCamera(p, fs)

Spec     == Init /\ [][Next]_vars
FairSpec == /\ Spec
            /\ \A k \in DOMAIN Scene : WF_vars(SetBindCb(k))
-----------------------------------------------------------------------------
TypeOK ==
  /\ nodelist \in Seq(Viewpoints) /\ Len(nodelist) \in {0, Len(Scene)}
  /\ pathtoviewpoint \in Viewpoints \cup {NoViewpoint}
  /\ set_bind \in [Viewpoints -> BOOLEAN] /\ isBound \in [Viewpoints -> BOOLEAN]
  /\ viewpoint \in [Viewpoints -> Pose] /\ matrix \in [Viewpoints -> Pose]
  /\ camera \in Pose
  /\ set_bind_sensors \subseteq DOMAIN Scene /\ fieldsensors \subseteq Fields
  /\ pathsensor \in BOOLEAN
  /\ pathtoviewpoint = NoViewpoint => ~pathsensor

(* Once any viewpoint is bound, the top of the stack is; it and no other   *)
(* viewpoint has been told so.                                             *)
TopIsBound ==
  /\ pathtoviewpoint # NoViewpoint => nodelist[1] = pathtoviewpoint
  /\ \A v \in Viewpoints : isBound[v] <=> v = pathtoviewpoint

(* The camera is where the bound viewpoint is, unless a sensor that will   *)
(* make it so is scheduled: neither of the two ways to copy, which         *)
(* unschedule one another, loses the last change.                          *)
InSync ==
  pathtoviewpoint # NoViewpoint /\ ~pathsensor /\ fieldsensors = {} =>
    camera = World(pathtoviewpoint)

(* A scene graph with viewpoints gets one bound, whatever events the       *)
(* application sends meanwhile.                                            *)
GetsBound == nodelist # <<>> ~> pathtoviewpoint # NoViewpoint

(* What the comments in set_bind_cb say of a FALSE event: if the viewpoint *)
(* it was sent to is on top of the stack, it goes to the bottom.  The code *)
(* looks up another viewpoint once the stack is not in the order of the    *)
(* scene graph.                                                            *)
FalseEventUnbinds ==
  [][\A k \in DOMAIN Scene :
       /\ SetBindCb(k) /\ ~set_bind[Scene[k]] /\ pathtoviewpoint = Scene[k]
       => pathtoviewpoint' # Scene[k]]_vars
=============================================================================
