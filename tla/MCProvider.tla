---------------------------- MODULE MCProvider ----------------------------
(* Instances of Provider for TLC. *)
EXTENDS Provider
CONSTANTS h1, h2, h3, put, post, get, poll, log

Plan(k1, s1, k2, s2, k3, s3) ==
  [kind   |-> [h \in Handlers |-> IF h = h1 THEN k1 ELSE IF h = h2 THEN k2 ELSE k3],
   script |-> [h \in Handlers |-> IF h = h1 THEN s1 ELSE IF h = h2 THEN s2 ELSE s3]]

\* A create that waits for both mutexes with others, two writers, and a task.
SmallPlans ==
  {Plan("create", <<put, post>>, "drop", <<>>, "read", <<get>>),
   Plan("write", <<put>>, "destroy", <<post>>, "drop", <<>>),
   Plan("task", <<post, poll, log>>, "drop", <<>>, "drop", <<>>)}
TwoWriters == {put, post}
=============================================================================
