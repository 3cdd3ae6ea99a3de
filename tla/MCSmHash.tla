------------------------------ MODULE MCSmHash ------------------------------
(* SmHash on keys that are integers, with the default hash function. *)
EXTENDS SmHash

(* default_hash_func: the key itself. *)
MCHash == [k \in Keys |-> k]
=============================================================================
