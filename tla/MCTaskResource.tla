--------------------------- MODULE MCTaskResource ---------------------------
(* Instances of TaskResource for TLC. *)
EXTENDS TaskResource
CONSTANTS r1, r2
All == {r1, r2}
First == {r1}
None == {}
=============================================================================
