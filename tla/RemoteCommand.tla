--------------------------- MODULE RemoteCommand ---------------------------
(***************************************************************************)
(* What SSHClient.Run (internal/proxmox/ssh.go) promises to the host       *)
(* resource, with no process, key file, timer or retry in sight.  A        *)
(* command is sent to the node at most Max times, one copy after the       *)
(* other, and only until Run has answered; "ok" says that the copy sent    *)
(* last ran and succeeded.  It is at-least-once, no more: after "error"    *)
(* the command may have run never, once or several times, and a copy sent  *)
(* in time may run when Run has long answered.                             *)
(***************************************************************************)
EXTENDS Naturals

CONSTANTS Runs, Max

VARIABLES
  phase,                \* "idle", "open" or "closed", per run
  answer,               \* what the run returned, "none" before it does
  sent,                 \* how many copies of the command were sent
  ran,                  \* the copies that ran to an end
  succeeded             \* those that ended with exit status 0

vars == <<phase, answer, sent, ran, succeeded>>

Init ==
  /\ phase = [r \in Runs |-> "idle"]
  /\ answer = [r \in Runs |-> "none"]
  /\ sent = [r \in Runs |-> 0]
  /\ ran = [r \in Runs |-> {}]
  /\ succeeded = [r \in Runs |-> {}]

Open(r) ==
  /\ phase[r] = "idle"
  /\ phase' = [phase EXCEPT ![r] = "open"]
  /\ UNCHANGED <<answer, sent, ran, succeeded>>

Send(r) ==
  /\ phase[r] = "open"
  /\ sent[r] < Max
  /\ sent' = [sent EXCEPT ![r] = sent[r] + 1]
  /\ UNCHANGED <<phase, answer, ran, succeeded>>

Execute(r, n, success) ==
  /\ n \in (1..sent[r]) \ ran[r]
  /\ ran' = [ran EXCEPT ![r] = ran[r] \cup {n}]
  /\ succeeded' = IF success THEN [succeeded EXCEPT ![r] = succeeded[r] \cup {n}]
                  ELSE succeeded
  /\ UNCHANGED <<phase, answer, sent>>

Close(r, a) ==
  /\ phase[r] = "open"
  /\ a = "ok" => sent[r] \in succeeded[r]
  /\ phase' = [phase EXCEPT ![r] = "closed"]
  /\ answer' = [answer EXCEPT ![r] = a]
  /\ UNCHANGED <<sent, ran, succeeded>>

\* Without a transport nothing is sent: an apply fails, a read keeps the state
\* it has.
Decline(r, a) ==
  /\ phase[r] = "idle"
  /\ a \in {"error", "skipped"}
  /\ phase' = [phase EXCEPT ![r] = "closed"]
  /\ answer' = [answer EXCEPT ![r] = a]
  /\ UNCHANGED <<sent, ran, succeeded>>

Next ==
  \E r \in Runs :
    \/ Open(r)
    \/ Send(r)
    \/ \E n \in 1..Max, success \in BOOLEAN : Execute(r, n, success)
    \/ \E a \in {"ok", "error"} : Close(r, a)
    \/ \E a \in {"error", "skipped"} : Decline(r, a)

Spec == Init /\ [][Next]_vars
=============================================================================
