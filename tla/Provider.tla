------------------------------- MODULE Provider -------------------------------
(***************************************************************************)
(* The handlers of module Handlers on the Client of module Session: what   *)
(* one provider process does. A handler that writes holds writeMu and, in  *)
(* ticket mode, takes mu inside it for every single call; a refresh or a   *)
(* data source takes mu alone. A long wait for a task holds writeMu, but   *)
(* mu only while it polls.                                                 *)
(***************************************************************************)
EXTENDS Session, Sequences

CONSTANTS Handlers, Plans, Nobody           \* see Handlers

VARIABLES plan, writeMu, stage, at, told    \* see Handlers

handlers == <<plan, writeMu, stage, at, told>>
providerVars == <<vars, handlers>>

\* The handlers, seeing of each call what CallOnce has of it.
H == INSTANCE Handlers WITH
  phase <- [c \in Calls |-> Phase(pc[c])],
  answer <- result,
  effect <- {c \in Calls : executed[c] # {}}

ASSUME ProviderAssumption ==
  /\ Nobody \notin Handlers
  /\ Plans \subseteq H!PlanOf
  /\ \A p \in Plans, h \in Handlers : \A i \in DOMAIN p.script[h] :
       p.script[h][i] \in Writes <=>
         p.kind[h] \in {"create", "write", "destroy"} \/ (p.kind[h] = "task" /\ i = 1)

ProviderInit == Init /\ H!HandlersInit

\* A step of a handler between its calls.
HandlerStep(h) == H!Own(h) /\ UNCHANGED vars

\* The handler goes into Client.do.
HandlerCalls(h) == H!Invoke(h) /\ Call(H!Current(h))

\* A step of Client.do, or of the server on its request.
ClientStep(c) == (Lock(c) \/ Client(c) \/ Server(c)) /\ UNCHANGED handlers

ProviderQuiet ==
  /\ \A h \in Handlers : stage[h] = "done"
  /\ UNCHANGED providerVars

ProviderNext ==
  \/ \E h \in Handlers :
       \/ (H!Begin(h) \/ H!Reject(h)) /\ UNCHANGED vars
       \/ HandlerStep(h)
       \/ HandlerCalls(h)
  \/ \E c \in Calls : ClientStep(c)
  \/ \E t \in live : Expire(t) /\ UNCHANGED handlers
  \/ ProviderQuiet

ProviderSpec == ProviderInit /\ [][ProviderNext]_providerVars

\* Goroutines run, and http.Client.Timeout ends every request (see Session); a
\* handler's wait between polls ends with the interval or the deadline. Weak
\* fairness is enough for both mutexes, as an apply makes finitely many calls.
ProviderFairSpec ==
  /\ ProviderSpec
  /\ \A h \in Handlers : WF_providerVars(HandlerStep(h)) /\ WF_providerVars(HandlerCalls(h))
  /\ \A c \in Calls : /\ WF_providerVars(Client(c) /\ UNCHANGED handlers)
                      /\ WF_providerVars(Lock(c) /\ UNCHANGED handlers)

-----------------------------------------------------------------------------
\* The properties of Handlers, of the handlers as they run here: see there.
HandlersTypeOK == H!TypeOK
WritesInTurn == H!WritesInTurn
CreatedOnce == H!CreatedOnce
ToldIsTrue == H!ToldIsTrue

\* The next step of h needs no mutex, or only one that is free: the handler goes
\* on, its call does, or the timeout of a request ends the wait for the server.
Advances(h) ==
  \/ stage[h] = "lock" /\ writeMu = Nobody
  \/ stage[h] = "call" /\ (H!Kind(h) = "drop" \/ pc[H!Current(h)] = "idle")
  \/ /\ stage[h] = "wait"
     /\ LET c == H!Current(h) IN
          \/ pc[c] \in {"login", "awaitLogin", "send", "awaitApi"}
          \/ pc[c] = "lock" /\ mu = NoCall
          \/ pc[c] = "done" /\ H!Following(h, result[c]) # {}
          \/ pc[c] = "done" /\ H!Verdicts(h, result[c]) # {}

\* Whose unlock h waits for: the holder of writeMu, or the handler for whose call
\* mu is held.
WaitsFor(h) ==
  {g \in Handlers :
     \/ stage[h] = "lock" /\ writeMu = g
     \/ /\ stage[h] = "wait" /\ pc[H!Current(h)] = "lock"
        /\ stage[g] = "wait" /\ mu = H!Current(g)}

\* mu (client.go:35, :190-216) is only ever taken inside writeMu (client.go:42):
\* behind every handler that waits for a mutex, at most two unlocks away, is one
\* that needs none. No return, of a handler or of a call, leaves a mutex locked,
\* and no answer leaves a handler with nothing to do.
NoDeadlock ==
  \A h \in Handlers : stage[h] \notin {"idle", "done"} =>
    \E g \in {h} \cup WaitsFor(h) \cup UNION {WaitsFor(k) : k \in WaitsFor(h)} : Advances(g)

\* Handlers on Client.do, with its lock, logins, repetitions and late requests,
\* behave like handlers on calls that are done at most once: what the models of
\* the resources take for granted.
ImplementsHandlers == H!Spec

\* mu is only ever taken inside writeMu (client.go:35-42), never the other way
\* round: no handler waits for ever, though one may hold writeMu across many
\* calls, and each of its calls queues for mu with those of the readers.
HandlersReturn == \A h \in Handlers : stage[h] # "idle" ~> stage[h] = "done"
=============================================================================
