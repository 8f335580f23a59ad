------------------------------ MODULE CallOnce ------------------------------
(***************************************************************************)
(* What Client.do (internal/proxmox/client.go) promises to the resources   *)
(* that call it, with no ticket, lock, retry or wire in sight: a call has  *)
(* at most one effect on the server, an "ok" answer comes after that       *)
(* effect, a definite refusal means there is none and never will be one,   *)
(* and an uncertain answer (no response, or a 5xx) leaves both open: the   *)
(* effect may even come after the call has returned.                       *)
(***************************************************************************)

CONSTANT Calls          \* the calls made through one Client

VARIABLES
  phase,                \* "idle", "open" or "closed", per call
  answer,               \* what the call returned, "none" before it does
  effect                \* the calls the server has carried out

vars == <<phase, answer, effect>>

Certain == {"ok"}
Refused == {"notfound", "unauthorized"}
Uncertain == {"failed", "opaque"}
Answers == Certain \cup Refused \cup Uncertain

Init ==
  /\ phase = [c \in Calls |-> "idle"]
  /\ answer = [c \in Calls |-> "none"]
  /\ effect = {}

Open(c) ==
  /\ phase[c] = "idle"
  /\ phase' = [phase EXCEPT ![c] = "open"]
  /\ UNCHANGED <<answer, effect>>

\* A late request still takes effect, but only where the caller was not told
\* a definite outcome.
Execute(c) ==
  /\ c \notin effect
  /\ \/ phase[c] = "open"
     \/ phase[c] = "closed" /\ answer[c] \in Uncertain
  /\ effect' = effect \cup {c}
  /\ UNCHANGED <<phase, answer>>

Close(c, a) ==
  /\ phase[c] = "open"
  /\ a \in Certain => c \in effect
  /\ a \in Refused => c \notin effect
  /\ phase' = [phase EXCEPT ![c] = "closed"]
  /\ answer' = [answer EXCEPT ![c] = a]
  /\ UNCHANGED effect

Next ==
  \E c \in Calls :
    \/ Open(c)
    \/ Execute(c)
    \/ \E a \in Answers : Close(c, a)

Spec == Init /\ [][Next]_vars
=============================================================================
