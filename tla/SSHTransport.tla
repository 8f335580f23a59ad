---------------------------- MODULE SSHTransport ----------------------------
(***************************************************************************)
(* The SSH transport of a configured provider: SSHClient.Run, runOnce and  *)
(* identityFile in internal/proxmox/ssh.go, called by the host resource.   *)
(*                                                                         *)
(* Each run of a command is a process of its own: it makes an identity     *)
(* file where the key is given as text, hands the command to ssh, and      *)
(* tries again after a failure whose text looks like a connection reset.   *)
(* ssh is modelled by what it can do: the copy of the command it sent may  *)
(* run at any later time or never, and an attempt may fail whatever its    *)
(* copy did or still does (a connection lost, the 45 s timeout).  The      *)
(* provider process may be killed at any time.                             *)
(***************************************************************************)
EXTENDS Configuration

CONSTANTS
  Runs,                 \* the calls of SSHClient.Run
  Reads,                \* those from Read; the others are from apply
  maxSSHAttempts        \* 4 in the code

ASSUME TransportAssumption == maxSSHAttempts \in Nat \ {0} /\ Reads \subseteq Runs

VARIABLES
  pc,                   \* where each run is
  attempt,              \* its attempt
  file,                 \* its identity file in the temporary directory
  copies,               \* what the node did with the command of each attempt
  result,               \* what Run returned
  alive                 \* the provider process runs

runs == <<pc, attempt, file, copies, result, alive>>
transport == <<configuration, runs>>

Attempts == 1..maxSSHAttempts

TransportTypeOK ==
  /\ block \in AllBlocks
  /\ client = NoClient \/ (client = NewClient(block) /\ ~Refused(block))
  /\ pc \in [Runs -> {"idle", "identity", "write", "close", "ssh", "sleep", "done"}]
  /\ attempt \in [Runs -> Attempts]
  /\ file \in [Runs -> {"none", "empty", "key"}]
  /\ copies \in [Runs -> [Attempts -> {"none", "sent", "succeeded", "failed"}]]
  /\ result \in [Runs -> {"none", "ok", "error", "skipped"}]
  /\ alive \in BOOLEAN

TransportInit ==
  /\ ConfigurationInit
  /\ pc = [r \in Runs |-> "idle"]
  /\ attempt = [r \in Runs |-> 1]
  /\ file = [r \in Runs |-> "none"]
  /\ copies = [r \in Runs |-> [n \in Attempts |-> "none"]]
  /\ result = [r \in Runs |-> "none"]
  /\ alive = TRUE

-----------------------------------------------------------------------------
\* One run.

At(r, label) == alive /\ pc[r] = label
Go(r, label) == pc' = [pc EXCEPT ![r] = label]
File(r, content) == file' = [file EXCEPT ![r] = content]

Return(r, a) ==
  /\ Go(r, "done")
  /\ result' = [result EXCEPT ![r] = a]

\* The command leaves with this attempt's ssh.
Send(r) ==
  /\ Go(r, "ssh")
  /\ copies' = [copies EXCEPT ![r][attempt[r]] = "sent"]

Call(r) ==
  /\ At(r, "idle")
  /\ client # NoClient /\ client.ssh # NoSSH
  /\ Go(r, "identity")
  /\ UNCHANGED <<configuration, attempt, file, copies, result, alive>>

\* No ssh_host: apply says so, Read returns the state it was given.
Decline(r) ==
  /\ At(r, "idle")
  /\ client # NoClient /\ client.ssh = NoSSH
  /\ Return(r, IF r \in Reads THEN "skipped" ELSE "error")
  /\ UNCHANGED <<configuration, attempt, file, copies, alive>>

\* An identity given by a path or left to the agent needs no file of ours.
UseIdentity(r) ==
  /\ At(r, "identity")
  /\ client.ssh.identity # "pem"
  /\ Send(r)
  /\ UNCHANGED <<configuration, attempt, file, result, alive>>

CreateTemp(r) ==
  /\ At(r, "identity")
  /\ client.ssh.identity = "pem"
  /\ \/ File(r, "empty") /\ Go(r, "write") /\ UNCHANGED result
     \/ Return(r, "error") /\ UNCHANGED file
  /\ UNCHANGED <<configuration, attempt, copies, alive>>

\* Chmod and WriteString; a failure of either removes the file.
WriteKey(r) ==
  /\ At(r, "write")
  /\ \/ File(r, "key") /\ Go(r, "close") /\ UNCHANGED result
     \/ File(r, "none") /\ Return(r, "error")
  /\ UNCHANGED <<configuration, attempt, copies, alive>>

\* A failing Close that leaves the key behind.
FaultyCloseKey(r) ==
  /\ At(r, "close")
  /\ \/ Send(r) /\ UNCHANGED result
     \/ Return(r, "error") /\ UNCHANGED copies
  /\ UNCHANGED <<configuration, attempt, file, alive>>

CloseKey(r) ==
  /\ At(r, "close")
  /\ \/ Send(r) /\ UNCHANGED <<file, result>>
     \/ File(r, "none") /\ Return(r, "error") /\ UNCHANGED copies
  /\ UNCHANGED <<configuration, attempt, alive>>

\* ssh ends with the exit status 0 of the command.
Succeed(r) ==
  /\ At(r, "ssh")
  /\ copies[r][attempt[r]] = "succeeded"
  /\ File(r, "none")
  /\ Return(r, "ok")
  /\ UNCHANGED <<configuration, attempt, copies, alive>>

\* Faults: the last attempt falls out of the loop as a success; one attempt too
\* many; a retry that is not counted.
FaultyFail(r) ==
  /\ At(r, "ssh")
  /\ File(r, "none")
  /\ IF attempt[r] < maxSSHAttempts THEN Go(r, "sleep") /\ UNCHANGED result
     ELSE Return(r, "ok")
  /\ UNCHANGED <<configuration, attempt, copies, alive>>

FaultyRetry(r) ==
  /\ At(r, "ssh")
  /\ File(r, "none")
  /\ \/ attempt[r] <= maxSSHAttempts /\ Go(r, "sleep") /\ UNCHANGED result
     \/ Return(r, "error")
  /\ UNCHANGED <<configuration, attempt, copies, alive>>

FaultyWake(r) ==
  /\ At(r, "sleep")
  /\ Go(r, "identity")
  /\ UNCHANGED <<configuration, attempt, file, copies, result, alive>>

\* ssh fails: it cannot start or connect, the command fails, the connection is
\* lost, or the attempt times out.  Only what ssh wrote makes it a reset worth
\* another attempt: the command may have failed by itself, or have succeeded.
Fail(r) ==
  /\ At(r, "ssh")
  /\ File(r, "none")
  /\ \/ attempt[r] < maxSSHAttempts /\ Go(r, "sleep") /\ UNCHANGED result
     \/ Return(r, "error")
  /\ UNCHANGED <<configuration, attempt, copies, alive>>

\* After attempt * 250 ms the next attempt starts from the beginning.
Wake(r) ==
  /\ At(r, "sleep")
  /\ attempt' = [attempt EXCEPT ![r] = attempt[r] + 1]
  /\ Go(r, "identity")
  /\ UNCHANGED <<configuration, file, copies, result, alive>>

-----------------------------------------------------------------------------
\* The node, the machine and the whole.

\* The node runs a copy of the command it got, at any time.
Execute(r, n) ==
  /\ copies[r][n] = "sent"
  /\ \E outcome \in {"succeeded", "failed"} : copies' = [copies EXCEPT ![r][n] = outcome]
  /\ UNCHANGED <<configuration, pc, attempt, file, result, alive>>

Kill ==
  /\ alive
  /\ alive' = FALSE
  /\ UNCHANGED <<configuration, pc, attempt, file, copies, result>>

Progress(r) ==
  \/ Call(r) \/ Decline(r)
  \/ UseIdentity(r) \/ CreateTemp(r) \/ WriteKey(r) \/ CloseKey(r)
  \/ Succeed(r) \/ Fail(r) \/ Wake(r)

TransportNext ==
  \/ alive /\ Configure /\ UNCHANGED runs
  \/ \E r \in Runs : Progress(r)
  \/ \E r \in Runs, n \in Attempts : Execute(r, n)
  \/ Kill

TransportSpec == TransportInit /\ [][TransportNext]_transport

\* Go schedules every run; the context of an attempt ends its ssh after 45 s.
TransportFairness == \A r \in Runs : WF_transport(Progress(r))
TransportFairSpec == TransportSpec /\ TransportFairness

-----------------------------------------------------------------------------
\* Properties.

\* The private key is on disk only while an attempt of a living provider needs
\* it, whichever step of making the file or of the command fails, and it is
\* there, written in full, as long as ssh may read it (identityFile, and the
\* deferred cleanup of runOnce).  A kill is all that can leave it behind.
KeyFileLives ==
  alive => \A r \in Runs :
    /\ file[r] # "none" => pc[r] \in {"write", "close", "ssh"} /\ client.ssh.identity = "pem"
    /\ pc[r] = "ssh" /\ client.ssh.identity = "pem" => file[r] = "key"

\* What Run promises, whatever its attempts go through.  Attempts send their
\* copies in order, so the last one is this attempt's or the one's before.
PhaseOf(r) ==
  IF pc[r] = "idle" THEN "idle" ELSE IF pc[r] = "done" THEN "closed" ELSE "open"
SentBy(r) == IF copies[r][attempt[r]] = "none" THEN attempt[r] - 1 ELSE attempt[r]
Ended(r, outcomes) == {n \in Attempts : copies[r][n] \in outcomes}

Remote == INSTANCE RemoteCommand WITH
  Max <- maxSSHAttempts,
  phase <- [r \in Runs |-> PhaseOf(r)],
  answer <- result,
  sent <- [r \in Runs |-> SentBy(r)],
  ran <- [r \in Runs |-> Ended(r, {"succeeded", "failed"})],
  succeeded <- [r \in Runs |-> Ended(r, {"succeeded"})]

\* Run implements its promise: no copy is sent after it answered, none beyond
\* maxSSHAttempts, and "ok" is never said of a command that did not run.
ImplementsRemoteCommand == Remote!Spec

\* How far a run is from its return: six steps an attempt, by where it stands.
StepsLeft(r) ==
  6 * (maxSSHAttempts - attempt[r]) +
    CASE pc[r] = "idle" -> 6 [] pc[r] = "identity" -> 5 [] pc[r] = "write" -> 4
      [] pc[r] = "close" -> 3 [] pc[r] = "ssh" -> 2 [] pc[r] = "sleep" -> 1 [] pc[r] = "done" -> 0

\* Every step of a run uses up one of those it has (Run's loop, ssh.go:112-125),
\* whichever part of an attempt fails and in what way, so that a run cannot go on
\* for ever; and it sleeps only before an attempt that is left to it.
EveryStepCounts ==
  [][\A r \in Runs : pc'[r] # pc[r] =>
       /\ StepsLeft(r)' < StepsLeft(r)
       /\ pc'[r] = "sleep" => StepsLeft(r)' > 6]_transport

\* A run that was begun returns, unless the provider is killed: the retries end,
\* however the attempts fail.
RunsReturn == \A r \in Runs : pc[r] = "identity" ~> pc[r] = "done" \/ ~alive
=============================================================================
