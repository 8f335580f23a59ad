------------------------------- MODULE Handlers -------------------------------
(***************************************************************************)
(* The handlers of proxmox_object, proxmox_task and the two data sources   *)
(* (internal/provider) side by side on one Client: which API calls each    *)
(* makes, which of them depend on the answer to the one before, and what   *)
(* each reports. Every handler that writes holds writeMu from its first    *)
(* call to its return; refreshes and data sources take no lock.            *)
(*                                                                         *)
(* A call is no more than CallOnce promises of it. Module Provider has the *)
(* same handlers on the real Client.do of module Session.                  *)
(*                                                                         *)
(* Definitions called Faulty* are in no specification: each is the next    *)
(* definition with one plausible bug, for checking that a property sees it.*)
(***************************************************************************)
EXTENDS Naturals, Sequences

CONSTANTS
  Calls,        \* one element per invocation of Client.do
  Handlers,     \* one element per invocation of a handler
  Plans,        \* what Terraform may have them do, see PlanOf
  Nobody        \* the holder of writeMu when it is free

VARIABLES
  phase, answer, effect,  \* of the calls: see CallOnce
  plan,         \* the element of Plans under way
  writeMu,      \* holder of Client.writeMu
  stage,        \* "idle", "lock", "call", "wait" or "done", per handler
  at,           \* its call under way or to be made next
  told          \* what it reported to Terraform

calls == <<phase, answer, effect>>
handlers == <<plan, writeMu, stage, at, told>>
vars == <<calls, handlers>>

Client == INSTANCE CallOnce

-----------------------------------------------------------------------------
\* "create" is a PUT and perhaps a POST to the parent collection; "write" is any
\* single write; "destroy" is a DELETE, and "drop" a destroy that makes no call;
\* "task" is a call, polls of its task, and at the end of the script the look at
\* its log; "read" is a GET.
Kinds == {"create", "write", "destroy", "drop", "task", "read"}

\* A kind for every handler, and in order the calls it may make.
PlanOf ==
  {p \in [kind : [Handlers -> Kinds], script : [Handlers -> Seq(Calls)]] :
     /\ \A h \in Handlers :
          Len(p.script[h]) \in CASE p.kind[h] = "create" -> {1, 2}
                                 [] p.kind[h] = "drop"   -> {0}
                                 [] p.kind[h] = "task"   -> Nat \ {0, 1, 2}
                                 [] OTHER                -> {1}
     /\ \A g, h \in Handlers : \A i \in DOMAIN p.script[g], j \in DOMAIN p.script[h] :
          p.script[g][i] = p.script[h][j] => g = h /\ i = j}

Kind(h) == plan.kind[h]
Script(h) == plan.script[h]
Current(h) == Script(h)[at[h]]

Writers == {h \in Handlers : Kind(h) # "read"}

HandlersInit ==
  /\ plan \in Plans
  /\ writeMu = Nobody
  /\ stage = [h \in Handlers |-> "idle"]
  /\ at = [h \in Handlers |-> 1]
  /\ told = [h \in Handlers |-> "none"]

Init == Client!Init /\ HandlersInit

\* The calls that may follow the answer a, by their place in the script: the POST
\* after a 404 of the PUT; the polls after an answer with a UPID; the log after
\* a failed poll or a failed task, or when the polls end with the deadline.
FaultyFollowing(h, a) ==
  CASE Kind(h) = "create" /\ at[h] < Len(Script(h)) -> IF a # "ok" THEN {2} ELSE {}
    [] Kind(h) = "task" /\ at[h] = 1 -> IF a = "ok" THEN {2} ELSE {}
    [] Kind(h) = "task" /\ at[h] \in 2..(Len(Script(h)) - 1) ->
         IF a = "ok" THEN {at[h] + 1, Len(Script(h))} ELSE {Len(Script(h))}
    [] OTHER -> {}

FaultyPolling(h, a) ==
  CASE Kind(h) = "create" /\ at[h] < Len(Script(h)) -> IF a = "notfound" THEN {2} ELSE {}
    [] Kind(h) = "task" -> IF a = "ok" THEN {at[h] + 1} ELSE {}
    [] OTHER -> {}

Following(h, a) ==
  CASE Kind(h) = "create" /\ at[h] < Len(Script(h)) -> IF a = "notfound" THEN {2} ELSE {}
    [] Kind(h) = "task" /\ at[h] = 1 -> IF a = "ok" THEN {2} ELSE {}
    [] Kind(h) = "task" /\ at[h] \in 2..(Len(Script(h)) - 1) ->
         IF a = "ok" THEN {at[h] + 1, Len(Script(h))} ELSE {Len(Script(h))}
    [] OTHER -> {}

Plainly(a) == IF a = "ok" THEN {"ok"} ELSE {"error"}

FaultyVerdicts(h, a) ==
  CASE Kind(h) = "destroy" -> IF a \in {"ok", "notfound", "opaque"} THEN {"ok"} ELSE {"error"}
    [] OTHER -> IF Following(h, a) = {} THEN Plainly(a) ELSE {}

\* What the handler may report after the answer a, if it returns then: a 404 is
\* success for a DELETE and, in a refresh, the end of the resource; what is read
\* may be no JSON; a task may be none, not awaited, or done; a failed one is an
\* error whatever its log.
Verdicts(h, a) ==
  CASE Kind(h) = "destroy" -> IF a \in {"ok", "notfound"} THEN {"ok"} ELSE {"error"}
    [] Kind(h) = "read" /\ a \in {"ok", "notfound"} -> {"ok", "error"}
    [] Kind(h) = "task" /\ at[h] = Len(Script(h)) -> {"error"}
    [] Kind(h) = "task" /\ at[h] \in 2..(Len(Script(h)) - 1) -> IF a = "ok" THEN {"ok"} ELSE {}
    [] Kind(h) = "create" /\ Following(h, a) # {} -> {}
    [] OTHER -> Plainly(a)

-----------------------------------------------------------------------------
\* The handlers' own steps.

Begin(h) ==
  /\ stage[h] = "idle"
  /\ stage' = [stage EXCEPT ![h] = IF h \in Writers THEN "lock" ELSE "call"]
  /\ UNCHANGED <<plan, writeMu, at, told>>

FaultyLockWrites(h) ==
  /\ stage[h] = "lock"
  /\ writeMu' = h
  /\ stage' = [stage EXCEPT ![h] = "call"]
  /\ UNCHANGED <<plan, at, told>>

LockWrites(h) ==
  /\ stage[h] = "lock"
  /\ writeMu = Nobody
  /\ writeMu' = h
  /\ stage' = [stage EXCEPT ![h] = "call"]
  /\ UNCHANGED <<plan, at, told>>

\* It enters Client.do and waits there.
Invoke(h) ==
  /\ stage[h] = "call"
  /\ Kind(h) # "drop"
  /\ stage' = [stage EXCEPT ![h] = "wait"]
  /\ UNCHANGED <<plan, writeMu, at, told>>

\* On with the next call, after a wait of TaskWait's poll interval perhaps.
Continue(h) ==
  /\ stage[h] = "wait"
  /\ answer[Current(h)] # "none"
  /\ \E i \in Following(h, answer[Current(h)]) : at' = [at EXCEPT ![h] = i]
  /\ stage' = [stage EXCEPT ![h] = "call"]
  /\ UNCHANGED <<plan, writeMu, told>>

FaultyFinish(h, t) ==
  /\ stage' = [stage EXCEPT ![h] = "done"]
  /\ told' = [told EXCEPT ![h] = t]
  /\ writeMu' = IF writeMu = h /\ t = "ok" THEN Nobody ELSE writeMu
  /\ UNCHANGED <<plan, at>>

\* The handler returns, and the deferred UnlockWrites with it.
Finish(h, t) ==
  /\ stage' = [stage EXCEPT ![h] = "done"]
  /\ told' = [told EXCEPT ![h] = t]
  /\ writeMu' = IF writeMu = h THEN Nobody ELSE writeMu
  /\ UNCHANGED <<plan, at>>

Return(h) ==
  /\ stage[h] = "wait"
  /\ answer[Current(h)] # "none"
  /\ \E t \in Verdicts(h, answer[Current(h)]) : Finish(h, t)

\* delete_method NONE: the lock is taken and no call made.
DropState(h) ==
  /\ stage[h] = "call"
  /\ Kind(h) = "drop"
  /\ Finish(h, "ok")

\* Refused under the lock without a call: an unsupported method, a PUT destroy
\* without delete_body.
Reject(h) ==
  /\ stage[h] = "call" /\ at[h] = 1
  /\ Kind(h) \in {"write", "task"}
  /\ Finish(h, "error")

-----------------------------------------------------------------------------
Own(h) == LockWrites(h) \/ Continue(h) \/ Return(h) \/ DropState(h)

Next ==
  \/ \E h \in Handlers : (Begin(h) \/ Own(h) \/ Reject(h)) /\ UNCHANGED calls
  \/ \E h \in Handlers : Invoke(h) /\ Client!Open(Current(h))
  \/ \E c \in Calls :
       /\ Client!Execute(c) \/ \E a \in Client!Answers : Client!Close(c, a)
       /\ UNCHANGED handlers

Spec == Init /\ [][Next]_vars

-----------------------------------------------------------------------------
\* The type invariant of the handlers.
TypeOK ==
  /\ plan \in Plans
  /\ writeMu \in Handlers \cup {Nobody}
  /\ stage \in [Handlers -> {"idle", "lock", "call", "wait", "done"}]
  /\ at \in [Handlers -> Nat]
  /\ \A h \in Handlers : Kind(h) # "drop" => at[h] \in DOMAIN Script(h)
  /\ told \in [Handlers -> {"none", "ok", "error"}]

\* writeMu puts the writes of one provider in a row ("concurrent applies do not
\* race on the same server", client.go:136-137): a write takes effect while its
\* own handler holds writeMu, however many calls that handler makes, unless it
\* is a request that the client was not told the outcome of.
WritesInTurn ==
  [][\A h \in Writers : \A i \in DOMAIN Script(h) :
       Script(h)[i] \in effect' \ effect =>
         writeMu = h \/ answer[Script(h)[i]] \in Client!Uncertain]_vars

\* The POST of a create that fell back (object_resource.go:149-153) never comes
\* on top of its PUT, not even on a PUT that arrives late.
CreatedOnce ==
  \A h \in Handlers : Kind(h) = "create" /\ Len(Script(h)) = 2 =>
    ~({Script(h)[1], Script(h)[2]} \subseteq effect)

\* The call that does what the handler is for.
Deed(h) == IF Kind(h) = "task" THEN Script(h)[1] ELSE Current(h)

\* A handler that writes reports success only for what the server has done: the
\* last call of a create, the call that started a task, or a DELETE, unless that
\* one found nothing to delete and never will.
ToldIsTrue ==
  \A h \in Writers : told[h] = "ok" /\ Kind(h) # "drop" =>
    \/ Deed(h) \in effect
    \/ Kind(h) = "destroy" /\ answer[Deed(h)] = "notfound"
=============================================================================
