---------------------------- MODULE KeyValueMap ----------------------------
(***************************************************************************)
(* What SmHash promises its callers: dictionaries, each a partial function *)
(* from keys to objects, and the value every call returns.                 *)
(***************************************************************************)
CONSTANTS
  Tables,   \* the dictionaries
  Keys, Objects,
  NoObject  \* what is stored under a key that is not there

VARIABLES
  dict,     \* dict[t][k]: the object stored in t under k, or NoObject
  returned  \* what the last call returned

vars == <<dict, returned>>

Empty == [k \in Keys |-> NoObject]

Init == /\ dict = [t \in Tables |-> Empty]
        /\ returned = FALSE

(* TRUE when the key is new. *)
Put(t, k, obj) ==
  /\ dict' = [dict EXCEPT ![t][k] = obj]
  /\ returned' = (dict[t][k] = NoObject)

(* The object, or FALSE. *)
Get(t, k) ==
  /\ returned' = IF dict[t][k] = NoObject THEN FALSE ELSE dict[t][k]
  /\ UNCHANGED dict

(* TRUE when the key was there. *)
Remove(t, k) ==
  /\ dict' = [dict EXCEPT ![t][k] = NoObject]
  /\ returned' = (dict[t][k] # NoObject)

Clear(t) ==
  /\ dict' = [dict EXCEPT ![t] = Empty]
  /\ UNCHANGED returned

Assign(t, from) ==
  /\ dict' = [dict EXCEPT ![t] = dict[from]]
  /\ UNCHANGED returned

Next == \E t \in Tables :
          \/ \E k \in Keys, obj \in Objects : Put(t, k, obj)
          \/ \E k \in Keys : Get(t, k) \/ Remove(t, k)
          \/ Clear(t)
          \/ \E from \in Tables : Assign(t, from)

Spec == Init /\ [][Next]_vars
=============================================================================
