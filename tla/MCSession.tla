----------------------------- MODULE MCSession -----------------------------
(* Instances of Session for TLC. *)
EXTENDS Session
CONSTANTS c1, c2, c3
TwoWriters == {c1, c2}
=============================================================================
