-------------------------- MODULE MCObjectResource --------------------------
(* Instances of ObjectResource for TLC. *)
EXTENDS ObjectResource
CONSTANTS b1, b2, k1, k2
OneEach == [b \in {b1, b2} |-> IF b = b1 THEN k1 ELSE k2]
Second == {b2}
=============================================================================
