----------------------------- MODULE TaskResource -----------------------------
(***************************************************************************)
(* proxmox_task (internal/provider/task_resource.go) with TaskWait         *)
(* (internal/proxmox/task.go): Terraform creates, updates and destroys     *)
(* several task resources concurrently. Each operation takes writeMu,      *)
(* issues one API call, and polls the task that the call started until it  *)
(* stops, the poll fails or the deadline passes. The server runs tasks on  *)
(* its own time.                                                           *)
(*                                                                         *)
(* The call itself is used through the promise proved of Client.do (module *)
(* CallOnce): one effect at most, success only with the effect, and after  *)
(* an uncertain answer the effect may still come. Calls are numbered in    *)
(* the order the operations begin, and the task a call starts is known by  *)
(* the call's number, with 0 for the empty UPID.                           *)
(*                                                                         *)
(* Definitions called Faulty* are in no specification: each is the next    *)
(* definition with one plausible bug, for checking that a property sees it.*)
(***************************************************************************)
EXTENDS Naturals

CONSTANTS
  Resources,    \* the proxmox_task blocks of the configuration
  Awaiting,     \* those whose await is not false
  Inverse,      \* those with a destroy_method
  ByDelete,     \* those whose destroy_method is DELETE
  NoOne,        \* the holder of writeMu when it is free
  MaxCalls      \* bound: operations that reach the server

ASSUME TaskAssumption ==
  /\ Awaiting \subseteq Resources
  /\ ByDelete \subseteq Inverse
  /\ Inverse \subseteq Resources
  /\ NoOne \notin Resources
  /\ MaxCalls \in Nat

Ids == 1..MaxCalls

VARIABLES
  writeMu,      \* holder of Client.writeMu
  pc,           \* where each resource's operation stands
  current,      \* its call
  upid,         \* run()'s upid, 0 for ""
  expired,      \* cctx of TaskWait is done: deadline or cancelled apply
  present,      \* the resource is in the Terraform state
  begun,        \* calls numbered so far
  by,           \* whose call it is
  cause,        \* the operation it is made for
  told,         \* what the operation reported to Terraform
  cut,          \* calls whose response body broke off (client.go ignores it)
  bare,         \* calls sent without the parameters their block declares
  server        \* what became of the call on the server

runVars == <<pc, current, upid, expired>>
callVars == <<begun, by, cause>>
vars == <<writeMu, runVars, present, callVars, told, cut, bare, server>>

Causes == {"none", "create", "update", "destroy"}
Jobs == {"running", "ok", "failed"}
Fates == {"none", "sent", "applied", "refused"} \cup Jobs

Init ==
  /\ writeMu = NoOne
  /\ pc = [r \in Resources |-> "idle"]
  /\ current = [r \in Resources |-> 0]
  /\ upid = [r \in Resources |-> 0]
  /\ expired = [r \in Resources |-> FALSE]
  /\ present = [r \in Resources |-> FALSE]
  /\ begun = 0
  /\ by = [n \in Ids |-> NoOne]
  /\ cause = [n \in Ids |-> "none"]
  /\ told = [n \in Ids |-> "none"]
  /\ cut = {}
  /\ bare = {}
  /\ server = [n \in Ids |-> "none"]

-----------------------------------------------------------------------------
\* Terraform core picks an operation the state allows. Update runs for a change
\* of any attribute that does not force replacement: the triggers, but as well
\* await or timeout_seconds.
Begin(r) ==
  /\ pc[r] = "idle"
  /\ begun < MaxCalls
  /\ \E o \in Causes \ {"none"} :
       /\ present[r] <=> o # "create"
       /\ o = "destroy" => r \in Inverse
       /\ cause' = [cause EXCEPT ![begun + 1] = o]
  /\ begun' = begun + 1
  /\ by' = [by EXCEPT ![begun + 1] = r]
  /\ current' = [current EXCEPT ![r] = begun + 1]
  /\ pc' = [pc EXCEPT ![r] = "lock"]
  /\ UNCHANGED <<writeMu, upid, expired, present, told, cut, bare, server>>

\* Delete without a destroy_method only drops the state.
Forget(r) ==
  /\ pc[r] = "idle"
  /\ present[r]
  /\ r \notin Inverse
  /\ present' = [present EXCEPT ![r] = FALSE]
  /\ UNCHANGED <<writeMu, runVars, callVars, told, cut, bare, server>>

FaultyLockWrites(r) ==
  /\ pc[r] = "lock"
  /\ writeMu' = r
  /\ pc' = [pc EXCEPT ![r] = "send"]
  /\ UNCHANGED <<current, upid, expired, present, callVars, told, cut, bare, server>>

LockWrites(r) ==
  /\ pc[r] = "lock"
  /\ writeMu = NoOne
  /\ writeMu' = r
  /\ pc' = [pc EXCEPT ![r] = "send"]
  /\ UNCHANGED <<current, upid, expired, present, callVars, told, cut, bare, server>>

FaultyReturn(r, answer) ==
  /\ pc' = [pc EXCEPT ![r] = "idle"]
  /\ current' = [current EXCEPT ![r] = 0]
  /\ upid' = [upid EXCEPT ![r] = 0]
  /\ expired' = [expired EXCEPT ![r] = FALSE]
  /\ writeMu' = IF writeMu = r THEN NoOne ELSE writeMu
  /\ told' = [told EXCEPT ![current[r]] = answer]
  /\ present' = IF answer = "ok" \/ cause[current[r]] = "destroy"
                THEN [present EXCEPT ![r] = cause[current[r]] # "destroy"]
                ELSE present
  /\ UNCHANGED callVars

\* The end of run() and of the Terraform operation around it: the deferred
\* UnlockWrites, then on success the state is saved, or dropped by a destroy.
\* An error leaves the state as it was, so after a failed create there is none.
Return(r, answer) ==
  /\ pc' = [pc EXCEPT ![r] = "idle"]
  /\ current' = [current EXCEPT ![r] = 0]
  /\ upid' = [upid EXCEPT ![r] = 0]
  /\ expired' = [expired EXCEPT ![r] = FALSE]
  /\ writeMu' = IF writeMu = r THEN NoOne ELSE writeMu
  /\ told' = [told EXCEPT ![current[r]] = answer]
  /\ present' = IF answer = "ok"
                THEN [present EXCEPT ![r] = cause[current[r]] # "destroy"]
                ELSE present
  /\ UNCHANGED callVars

\* Invalid params, no destroy_path or an unsupported method: an error, no call.
Reject(r) ==
  /\ pc[r] \in {"lock", "send"}
  /\ Return(r, "error")
  /\ UNCHANGED <<cut, bare, server>>

\* Post and Put carry the body; Client.Delete takes none.
Send(r) ==
  /\ pc[r] = "send"
  /\ server' = [server EXCEPT ![current[r]] = "sent"]
  /\ bare' = IF cause[current[r]] = "destroy" /\ r \in ByDelete
             THEN bare \cup {current[r]}
             ELSE bare
  /\ pc' = [pc EXCEPT ![r] = "answer"]
  /\ UNCHANGED <<writeMu, current, upid, expired, present, callVars, told, cut>>

\* Delete passes await = TRUE whatever the block says.
Awaited(n) == cause[n] = "destroy" \/ by[n] \in Awaiting

FaultyReceive(r) ==
  /\ pc[r] = "answer"
  /\ server[current[r]] \in {"applied"} \cup Jobs
  /\ pc' = [pc EXCEPT ![r] = "poll"]
  /\ upid' = [upid EXCEPT ![r] = IF server[current[r]] \in Jobs THEN current[r] ELSE 0]
  /\ UNCHANGED <<writeMu, current, expired, present, callVars, told, cut, bare, server>>

\* A 2xx answer. Data that is no UPID means a synchronous call, which is done.
Receive(r) ==
  /\ pc[r] = "answer"
  /\ \/ /\ server[current[r]] = "applied"
        /\ Return(r, "ok")
     \/ /\ server[current[r]] \in Jobs
        /\ ~Awaited(current[r])
        /\ Return(r, "ok")
     \/ /\ server[current[r]] \in Jobs
        /\ Awaited(current[r])
        /\ pc' = [pc EXCEPT ![r] = "poll"]
        /\ upid' = [upid EXCEPT ![r] = current[r]]
        /\ UNCHANGED <<writeMu, current, expired, present, callVars, told>>
  /\ UNCHANGED <<cut, bare, server>>

\* A 2xx answer whose body breaks off: attempt() drops the read error, so what
\* remains of the UPID is taken for the data of a synchronous call.
ReceiveCut(r) ==
  /\ pc[r] = "answer"
  /\ server[current[r]] \in Jobs
  /\ cut' = cut \cup {current[r]}
  /\ Return(r, "ok")
  /\ UNCHANGED <<bare, server>>

\* An error status, a connection error or the HTTP timeout.
ReceiveError(r) ==
  /\ pc[r] = "answer"
  /\ Return(r, "error")
  /\ UNCHANGED <<cut, bare, server>>

FaultyPoll(r) ==
  /\ pc[r] = "poll"
  /\ \/ /\ server[upid[r]] \in {"ok", "failed"}
        /\ Return(r, "ok")
     \/ /\ server[upid[r]] = "running"
        /\ pc' = [pc EXCEPT ![r] = "select"]
        /\ UNCHANGED <<writeMu, current, upid, expired, present, callVars, told>>
  /\ UNCHANGED <<cut, bare, server>>

\* One turn of TaskWait: GET the status. Any failure of the GET, or a status
\* other than OK, ends the wait with an error, after a look at the task's log.
Poll(r) ==
  /\ pc[r] = "poll"
  /\ \/ /\ server[upid[r]] = "ok"
        /\ Return(r, "ok")
     \/ /\ pc' = [pc EXCEPT ![r] = "log"]
        /\ UNCHANGED <<writeMu, current, upid, expired, present, callVars, told>>
     \/ /\ server[upid[r]] = "running"
        /\ pc' = [pc EXCEPT ![r] = "select"]
        /\ UNCHANGED <<writeMu, current, upid, expired, present, callVars, told>>
  /\ UNCHANGED <<cut, bare, server>>

FaultySelect(r) ==
  /\ pc[r] = "select"
  /\ pc' = [pc EXCEPT ![r] = "poll"]
  /\ UNCHANGED <<writeMu, current, upid, expired, present, callVars, told, cut, bare, server>>

\* The select of TaskWait: the context, or the poll interval.
Select(r) ==
  /\ pc[r] = "select"
  /\ pc' = [pc EXCEPT ![r] = IF expired[r] THEN "log" ELSE "poll"]
  /\ UNCHANGED <<writeMu, current, upid, expired, present, callVars, told, cut, bare, server>>

\* TaskLogTail, best effort, then the error.
LogTail(r) ==
  /\ pc[r] = "log"
  /\ Return(r, "error")
  /\ UNCHANGED <<cut, bare, server>>

\* timeout_seconds runs out, or the apply is interrupted. A GET under way does
\* not notice: the Client's methods take no context.
Expire(r) ==
  /\ pc[r] \in {"poll", "select"}
  /\ ~expired[r]
  /\ expired' = [expired EXCEPT ![r] = TRUE]
  /\ UNCHANGED <<writeMu, pc, current, upid, present, callVars, told, cut, bare, server>>

-----------------------------------------------------------------------------
\* The server: takes a request, however late, and ends its tasks in its time.
ServerTake(n) ==
  /\ server[n] = "sent"
  /\ \E f \in {"running", "applied", "refused"} : server' = [server EXCEPT ![n] = f]
  /\ UNCHANGED <<writeMu, runVars, present, callVars, told, cut, bare>>

ServerFinish(n) ==
  /\ server[n] = "running"
  /\ \E f \in {"ok", "failed"} : server' = [server EXCEPT ![n] = f]
  /\ UNCHANGED <<writeMu, runVars, present, callVars, told, cut, bare>>

-----------------------------------------------------------------------------
Step(r) ==
  \/ Send(r)
  \/ Receive(r) \/ ReceiveCut(r) \/ ReceiveError(r)
  \/ Poll(r) \/ Select(r) \/ LogTail(r)

\* Terraform has nothing more to do.
Quiet ==
  /\ \A r \in Resources : pc[r] = "idle"
  /\ UNCHANGED vars

Next ==
  \/ \E r \in Resources :
       Begin(r) \/ Forget(r) \/ Reject(r) \/ LockWrites(r) \/ Step(r) \/ Expire(r)
  \/ \E n \in Ids : ServerTake(n) \/ ServerFinish(n)
  \/ Quiet

Spec == Init /\ [][Next]_vars

\* Goroutines run, clocks advance, and http.Client.Timeout ends every request,
\* so the client's steps and the deadline are weakly fair. Weak fairness is
\* enough for writeMu: MaxCalls operations take it, once each. Nothing is
\* assumed of the server: requests may vanish and tasks run for ever.
Fairness ==
  \A r \in Resources : WF_vars(Step(r)) /\ WF_vars(LockWrites(r)) /\ WF_vars(Expire(r))

FairSpec == Spec /\ Fairness

-----------------------------------------------------------------------------
PCs == {"idle", "lock", "send", "answer", "poll", "select", "log"}

\* The type invariant. A status poll or a log request always names a task: the
\* path is built from run()'s upid (task_resource.go:162-180).
TypeOK ==
  /\ writeMu \in Resources \cup {NoOne}
  /\ pc \in [Resources -> PCs]
  /\ current \in [Resources -> 0..MaxCalls]
  /\ upid \in [Resources -> 0..MaxCalls]
  /\ \A r \in Resources : pc[r] \in {"poll", "select", "log"} => upid[r] \in Ids
  /\ expired \in [Resources -> BOOLEAN]
  /\ present \in [Resources -> BOOLEAN]
  /\ begun \in 0..MaxCalls
  /\ by \in [Ids -> Resources \cup {NoOne}]
  /\ cause \in [Ids -> Causes]
  /\ told \in [Ids -> {"none", "ok", "error"}]
  /\ cut \subseteq Ids
  /\ bare \subseteq Ids
  /\ server \in [Ids -> Fates]

\* The operation of call n ended without seeing the end of the task: with an
\* error, or because nobody was to wait for it.
GaveUp(n) == told[n] = "error" \/ (told[n] = "ok" /\ (~Awaited(n) \/ n \in cut))

\* writeMu keeps the tasks of one provider apart (task_resource.go:130-132) as
\* long as their operations wait: of two running tasks, one was given up.
OverlapOnlyAfterGivingUp ==
  \A m, n \in Ids :
    m # n /\ server[m] = "running" /\ server[n] = "running" => GaveUp(m) \/ GaveUp(n)

\* Success of an awaited operation is the server's success (task_resource.go:
\* 57-58), for a synchronous call and for a task, now and later, unless the
\* response that named the task broke off.
SuccessIsReal ==
  \A n \in Ids :
    told[n] = "ok" /\ Awaited(n) /\ n \notin cut => server[n] \in {"ok", "applied"}

\* The calls of r that Terraform was told have succeeded.
Succeeded(r) == {n \in Ids : by[n] = r /\ told[n] = "ok"}

\* A resource with an inverse operation is in the Terraform state exactly when
\* its last successful call was not that inverse: failed, timed out and
\* repeated operations in between never lose or resurrect it.
StateFollowsSuccess ==
  \A r \in Inverse :
    present[r] <=> \E n \in Succeeded(r) :
                     /\ cause[n] # "destroy"
                     /\ \A m \in Succeeded(r) : m <= n

\* The turns of TaskWait that are left to r at the most once its context is done.
TurnsLeft(r) ==
  CASE pc[r] = "poll" -> 3 [] pc[r] = "select" -> 2 [] pc[r] = "log" -> 1 [] pc[r] = "idle" -> 0

\* The deadline binds (task.go:61-86): once it has passed, TaskWait ends the poll
\* it is at and goes on to its error, or to the success that this poll saw, with
\* no second poll; writeMu, which the others wait for, is free with its return.
DeadlineBinds ==
  [][\A r \in Resources : expired[r] =>
       /\ pc'[r] # pc[r] => TurnsLeft(r)' < TurnsLeft(r)
       /\ pc'[r] = "idle" <=> writeMu' # r]_vars

\* Every operation returns and frees writeMu, though a task may never end, a
\* request may never be answered and others hold the lock across their waits.
OperationsReturn == \A r \in Resources : pc[r] # "idle" ~> pc[r] = "idle"

-----------------------------------------------------------------------------
\* "the task is polled to completion and a non-OK result is a hard error"
\* (task_resource.go:57-58): what succeeded has completed. The code calls a
\* task a synchronous call when the response that names it breaks off.
PolledToCompletion ==
  \A n \in Ids : told[n] = "ok" /\ Awaited(n) => server[n] \in {"ok", "applied"}

\* "JSON parameters for the destroy operation, e.g. {"purge":1,"force":1}"
\* (task_resource.go:103): they reach the server. The code sends none of them
\* when the destroy_method is DELETE, the method the schema suggests.
ParametersAreSent == bare = {}
=============================================================================
