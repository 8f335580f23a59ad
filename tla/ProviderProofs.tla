--------------------------- MODULE ProviderProofs ---------------------------
(***************************************************************************)
(* The handlers on Client.do behave like the handlers on CallOnce, and so  *)
(* have all that is proved of these.                                       *)
(***************************************************************************)
EXTENDS Provider, SessionProofs

\* The handlers with their proofs, on the same calls as H.
HP == INSTANCE HandlersProofs WITH
  phase <- [c \in Calls |-> Phase(pc[c])],
  answer <- result,
  effect <- {c \in Calls : executed[c] # {}}

-----------------------------------------------------------------------------
\* H and HP are the same definitions.

LEMMA SameStep == [H!Next]_(H!vars) <=> [HP!Next]_(HP!vars)
BY DEF H!Next, HP!Next, H!vars, HP!vars, H!calls, HP!calls, H!handlers, HP!handlers,
   H!Begin, HP!Begin, H!Own, HP!Own, H!Reject, HP!Reject, H!Invoke, HP!Invoke,
   H!LockWrites, HP!LockWrites, H!Continue, HP!Continue, H!Return, HP!Return,
   H!DropState, HP!DropState, H!Finish, HP!Finish, H!Writers, HP!Writers, H!Kind, HP!Kind,
   H!Script, HP!Script, H!Current, HP!Current, H!Following, HP!Following, H!Verdicts, HP!Verdicts,
   H!Plainly, HP!Plainly, H!Client!Open, HP!Client!Open, H!Client!Execute, HP!Client!Execute,
   H!Client!Close, HP!Client!Close, H!Client!Answers, HP!Client!Answers,
   H!Client!Certain, HP!Client!Certain, H!Client!Refused, HP!Client!Refused,
   H!Client!Uncertain, HP!Client!Uncertain

LEMMA SameInit == H!Init <=> HP!Init
BY DEF H!Init, HP!Init, H!HandlersInit, HP!HandlersInit, H!Client!Init, HP!Client!Init

LEMMA SamePlans == H!PlanOf = HP!PlanOf
BY DEF H!PlanOf, HP!PlanOf, H!Kinds, HP!Kinds

LEMMA PlansFit == Plans \subseteq HP!PlanOf /\ Nobody \notin Handlers
BY ProviderAssumption, SamePlans

-----------------------------------------------------------------------------
\* The invariants of the client and of the handlers together.
PInv == IInv /\ HP!IInv /\ HP!AskedInv

LEMMA InitPInv == ProviderInit => PInv /\ H!Init
<1> SUFFICES ASSUME ProviderInit PROVE PInv /\ H!Init
  OBVIOUS
<1>1. IInv /\ Promise!Init
  BY InitIInv, InitRefines DEF ProviderInit
<1>2. H!Init
  BY <1>1 DEF ProviderInit, H!Init, H!Client!Init, Promise!Init
<1>3. HP!IInv
  BY <1>2, SameInit, PlansFit, HP!InitIInv
<1>4. HP!AskedInv
  BY <1>2, SameInit, HP!InitAsked
<1> QED BY <1>1, <1>2, <1>3, <1>4 DEF PInv

\* A handler only ever makes the calls of its script.
LEMMA CallsOwn ==
  ASSUME PInv, NEW h \in Handlers, HandlerCalls(h)
  PROVE  H!Current(h) \in Calls
<1>1. HP!Kind(h) # "drop" /\ HP!TypeOK
  BY DEF HandlerCalls, H!Invoke, H!Kind, HP!Kind, PInv, HP!IInv
<1>2. HP!Current(h) \in Calls
  BY <1>1, PlansFit, HP!CurrentIsCall
<1> QED BY <1>2 DEF H!Current, HP!Current, H!Script, HP!Script

\* Every step is one of the client, or leaves it alone.
LEMMA ClientSteps == PInv /\ [ProviderNext]_providerVars => [Next]_vars
<1> SUFFICES ASSUME PInv, [ProviderNext]_providerVars PROVE [Next]_vars
  OBVIOUS
<1>1. ASSUME NEW h \in Handlers, HandlerCalls(h) PROVE Next
  BY <1>1, CallsOwn DEF HandlerCalls, Next
<1> QED BY <1>1 DEF ProviderNext, providerVars, HandlerStep, ClientStep, ProviderQuiet, Next

\* A step of the client on its own never opens a call.
LEMMA NothingOpens ==
  ASSUME NEW d \in Calls, ClientStep(d), IInv, NEW c \in Calls, Promise!Open(c)
  PROVE  FALSE
<1>1. pc[c] = "idle" /\ pc'[c] # "idle"
  BY DEF Promise!Open, Phase, IInv, TypeOK, PCs
<1>2. CASE Server(d)
  BY <1>1, <1>2 DEF Server, ServerLogin, ServerExecute, ServerRefuse, callVars
<1>3. CASE Lock(d) \/ Client(d)
  BY <1>1, <1>3 DEF Lock, Client, SendLogin, RecvLogin, SendApi, RecvApi, Abandon, Return,
     IInv, TypeOK
<1> QED BY <1>2, <1>3 DEF ClientStep

\* Every step is one of the handlers on CallOnce.
LEMMA HandlersStep == PInv /\ [ProviderNext]_providerVars => [H!Next]_(H!vars)
<1> SUFFICES ASSUME PInv, [ProviderNext]_providerVars PROVE [H!Next]_(H!vars)
  OBVIOUS
<1> USE DEF PInv
<1>1. [Promise!Next]_(Promise!vars)
  BY ClientSteps, StepRefines
<1>2. ASSUME UNCHANGED vars PROVE UNCHANGED H!calls
  BY <1>2 DEF H!calls, vars, callVars, serverVars
<1>3. ASSUME NEW h \in Handlers, (H!Begin(h) \/ H!Reject(h) \/ H!Own(h)) /\ UNCHANGED vars
      PROVE  H!Next
  BY <1>2, <1>3 DEF H!Next
<1>4. ASSUME NEW h \in Handlers, HandlerCalls(h) PROVE H!Next
  <2>1. PICK c \in Calls : c = H!Current(h) /\ Call(c)
    BY <1>4, CallsOwn DEF HandlerCalls
  <2>2. H!Client!Open(c)
    BY <2>1 DEF Call, H!Client!Open, Phase, IInv, TypeOK, PCs, serverVars
  <2> QED BY <1>4, <2>1, <2>2 DEF HandlerCalls, H!Next
<1>5. ASSUME NEW d \in Calls, ClientStep(d) PROVE [H!Next]_(H!vars)
  <2>1. UNCHANGED H!handlers
    BY <1>5 DEF ClientStep, handlers, H!handlers
  <2>2. CASE UNCHANGED Promise!vars
    BY <2>1, <2>2 DEF Promise!vars, H!vars, H!calls
  <2>3. ASSUME NEW c \in Calls, Promise!Execute(c) PROVE H!Next
    BY <2>1, <2>3 DEF H!Next, H!Client!Execute, Promise!Execute, H!Client!Uncertain,
       Promise!Uncertain
  <2>4. ASSUME NEW c \in Calls, NEW a \in Promise!Answers, Promise!Close(c, a) PROVE H!Next
    BY <2>1, <2>4 DEF H!Next, H!Client!Close, Promise!Close, H!Client!Answers, Promise!Answers,
       H!Client!Certain, Promise!Certain, H!Client!Refused, Promise!Refused,
       H!Client!Uncertain, Promise!Uncertain
  <2> QED BY <1>1, <1>5, <2>2, <2>3, <2>4, NothingOpens DEF Promise!Next
<1>6. ASSUME (\E t \in live : Expire(t) /\ UNCHANGED handlers) \/ UNCHANGED providerVars
      PROVE  UNCHANGED H!vars
  BY <1>6 DEF Expire, callVars, providerVars, vars, serverVars, handlers, H!vars, H!calls, H!handlers
<1> QED BY <1>3, <1>4, <1>5, <1>6 DEF ProviderNext, HandlerStep, ProviderQuiet

LEMMA NextPInv == PInv /\ [ProviderNext]_providerVars => PInv'
<1> SUFFICES ASSUME PInv, [ProviderNext]_providerVars PROVE PInv'
  OBVIOUS
<1>1. IInv'
  BY ClientSteps, NextIInv DEF PInv
<1>2. HP!IInv'
  BY HandlersStep, SameStep, PlansFit, HP!NextIInv DEF PInv
<1>3. HP!AskedInv'
  BY HandlersStep, SameStep, PlansFit, HP!NextAsked DEF PInv
<1> QED BY <1>1, <1>2, <1>3 DEF PInv

LEMMA ProviderInvariantHolds == ProviderSpec => []PInv
BY InitPInv, NextPInv, PTL DEF ProviderSpec

-----------------------------------------------------------------------------
\* On Client.do the handlers do what they do on CallOnce.
THEOREM HandlersRefinement == ProviderSpec => ImplementsHandlers
<1>1. ProviderInit => H!Init
  BY InitPInv
<1> QED BY <1>1, ProviderInvariantHolds, HandlersStep, PTL
        DEF ProviderSpec, ImplementsHandlers, H!Spec

\* The handlers' variables have their types on Client.do too.
THEOREM HandlersTypeCorrect == ProviderSpec => []HandlersTypeOK
<1>1. PInv => HandlersTypeOK
  BY DEF PInv, HP!IInv, HP!TypeOK, HandlersTypeOK, H!TypeOK, H!Kind, HP!Kind, H!Script, HP!Script
<1> QED BY <1>1, ProviderInvariantHolds, PTL

\* A PUT that the server carries out, now or late, rules out the POST after it.
THEOREM NeverCreatedTwice == ProviderSpec => []CreatedOnce
<1>1. HP!IInv => HP!CreatedOnce
  BY PlansFit, HP!IInvCreatesOnce
<1>2. PInv => CreatedOnce
  BY <1>1 DEF PInv, HP!CreatedOnce, CreatedOnce, H!CreatedOnce, H!Kind, HP!Kind, H!Script, HP!Script
<1> QED BY <1>2, ProviderInvariantHolds, PTL

\* What a handler reports as done has been done by the server.
THEOREM HandlersTellTruth == ProviderSpec => []ToldIsTrue
<1>1. PInv => ToldIsTrue
  BY DEF PInv, HP!IInv, HP!ToldIsTrue, ToldIsTrue, H!ToldIsTrue, H!Writers, HP!Writers,
     H!Deed, HP!Deed, H!Current, HP!Current, H!Kind, HP!Kind, H!Script, HP!Script
<1> QED BY <1>1, ProviderInvariantHolds, PTL

\* writeMu orders the effects on the server, across logins and repetitions.
THEOREM WritesTakeTurns == ProviderSpec => WritesInTurn
<1> DEFINE Effects == {c \in Calls : executed[c] # {}}
           A == \A h \in H!Writers : \A i \in DOMAIN H!Script(h) :
                  H!Script(h)[i] \in Effects' \ Effects =>
                    writeMu = h \/ result[H!Script(h)[i]] \in H!Client!Uncertain
<1>1. ASSUME PInv, [ProviderNext]_providerVars,
             NEW h \in H!Writers, NEW i \in DOMAIN H!Script(h),
             H!Script(h)[i] \in Effects' \ Effects
      PROVE  writeMu = h \/ result[H!Script(h)[i]] \in H!Client!Uncertain
  <2>1. [HP!Next]_(HP!vars) /\ HP!IInv
    BY <1>1, HandlersStep, SameStep DEF PInv
  <2>2. h \in HP!Writers /\ i \in DOMAIN HP!Script(h) /\ HP!Script(h)[i] = H!Script(h)[i]
    BY <1>1 DEF H!Writers, HP!Writers, H!Kind, HP!Kind, H!Script, HP!Script
  <2>3. writeMu = h \/ result[HP!Script(h)[i]] \in HP!Client!Uncertain
    BY <1>1, <2>1, <2>2, PlansFit, HP!StepInTurn
  <2> QED BY <2>2, <2>3 DEF H!Client!Uncertain, HP!Client!Uncertain
<1>2. PInv /\ [ProviderNext]_providerVars => [A]_(H!vars)
  BY <1>1
<1> QED BY <1>2, ProviderInvariantHolds, PTL DEF ProviderSpec, WritesInTurn, H!WritesInTurn
-----------------------------------------------------------------------------
\* The two mutexes.

\* A handler is at a call it has not made, or waits for one that it has.
LEMMA AtCall ==
  ASSUME PInv, NEW h \in Handlers, H!Kind(h) # "drop"
  PROVE  /\ H!Current(h) \in Calls
         /\ stage[h] = "call" => pc[H!Current(h)] = "idle"
         /\ stage[h] = "wait" => pc[H!Current(h)] # "idle"
<1> USE DEF PInv
<1>1. HP!Kind(h) # "drop" /\ HP!Current(h) = H!Current(h)
  BY DEF H!Kind, HP!Kind, H!Current, HP!Current, H!Script, HP!Script
<1>2. at[h] \in DOMAIN HP!Script(h) /\ HP!Current(h) \in Calls
  BY <1>1, PlansFit, HP!CurrentIsCall DEF HP!IInv
<1>3. ASSUME stage[h] = "call", pc[HP!Current(h)] # "idle" PROVE FALSE
  <2>1. HP!Asked(HP!Current(h))
    BY <1>2, <1>3 DEF HP!AskedInv, Phase
  <2>2. PICK g \in Handlers : \E i \in DOMAIN HP!Script(g) :
          /\ HP!Script(h)[at[h]] = HP!Script(g)[i]
          /\ i < at[g] \/ (i = at[g] /\ stage[g] \in {"wait", "done"})
    BY <2>1 DEF HP!Asked, HP!Current
  <2>3. PICK i \in DOMAIN HP!Script(g) :
          /\ HP!Script(h)[at[h]] = HP!Script(g)[i]
          /\ i < at[g] \/ (i = at[g] /\ stage[g] \in {"wait", "done"})
    BY <2>2
  <2>4. g = h /\ i = at[h]
    BY <1>2, <2>3, PlansFit, HP!ScriptFacts DEF HP!IInv, HP!TypeOK
  <2>5. at[h] \in Nat
    BY DEF HP!IInv, HP!TypeOK
  <2> QED BY <1>3, <2>3, <2>4, <2>5
<1>4. stage[h] = "wait" => pc[HP!Current(h)] # "idle"
  BY <1>2 DEF HP!AskedInv, Phase
<1> QED BY <1>1, <1>2, <1>3, <1>4

\* A handler that does not wait for a mutex can go on.
LEMMA NoMutexNoWait ==
  ASSUME PInv, NEW h \in Handlers, stage[h] \in {"call", "wait"},
         stage[h] = "wait" => pc[H!Current(h)] # "lock" \/ mu = NoCall
  PROVE  Advances(h)
<1> USE DEF PInv
<1>1. CASE stage[h] = "call"
  BY <1>1, AtCall DEF Advances
<1>2. CASE stage[h] = "wait"
  <2>1. H!Kind(h) # "drop"
    BY <1>2 DEF HP!IInv, HP!StageInv, HP!Kind, H!Kind
  <2>2. H!Current(h) \in Calls /\ pc[H!Current(h)] \in PCs \ {"idle"}
    BY <1>2, <2>1, AtCall DEF IInv, TypeOK
  <2>3. CASE pc[H!Current(h)] = "done"
    <3> DEFINE a == result[H!Current(h)]
    <3>1. a \in HP!Client!Answers
      BY <2>2, <2>3 DEF HP!IInv, HP!CallInv, Phase
    <3>2. HP!Kind(h) # "drop"
      BY <2>1 DEF HP!Kind, H!Kind
    <3>3. HP!Following(h, a) # {} \/ HP!Verdicts(h, a) # {}
      BY <3>1, <3>2, PlansFit, HP!Onward
    <3>4. H!Following(h, a) # {} \/ H!Verdicts(h, a) # {}
      BY <3>3 DEF H!Following, HP!Following, H!Verdicts, HP!Verdicts, H!Plainly, HP!Plainly,
         H!Kind, HP!Kind, H!Script, HP!Script
    <3> QED BY <1>2, <2>3, <3>4 DEF Advances
  <2>4. CASE pc[H!Current(h)] # "done"
    BY <1>2, <2>2, <2>4 DEF Advances, PCs
  <2> QED BY <2>3, <2>4
<1> QED BY <1>1, <1>2

\* Whoever holds mu is the call of a handler that waits for it.
LEMMA HolderOfMu ==
  ASSUME PInv, mu # NoCall
  PROVE  \E g \in Handlers :
           stage[g] = "wait" /\ mu = H!Current(g) /\ pc[H!Current(g)] # "lock"
<1> USE DEF PInv
<1>1. mu \in Calls /\ pc[mu] \in Holding
  BY DEF IInv, TypeOK, LockInv
<1>2. Phase(pc[mu]) = "open"
  BY <1>1 DEF Phase, Holding
<1>3. HP!Asked(mu)
  BY <1>1, <1>2 DEF HP!AskedInv
<1>4. PICK g \in Handlers : \E i \in DOMAIN HP!Script(g) : mu = HP!Script(g)[i]
  BY <1>3 DEF HP!Asked
<1>5. PICK i \in DOMAIN HP!Script(g) : mu = HP!Script(g)[i]
  BY <1>4
<1>6. stage[g] = "wait" /\ i = at[g]
  BY <1>1, <1>2, <1>5 DEF HP!IInv, HP!OpenInv
<1>7. mu = H!Current(g)
  BY <1>5, <1>6 DEF H!Current, H!Script, HP!Script
<1> QED BY <1>1, <1>6, <1>7 DEF Holding

\* From a handler that is in a call, or about to make one, mu is the only mutex
\* left to wait for.
LEMMA OneUnlockAway ==
  ASSUME PInv, NEW h \in Handlers, stage[h] \in {"call", "wait"}
  PROVE  \E g \in {h} \cup WaitsFor(h) : Advances(g)
<1>1. CASE stage[h] = "wait" /\ pc[H!Current(h)] = "lock" /\ mu # NoCall
  <2>1. PICK g \in Handlers :
          stage[g] = "wait" /\ mu = H!Current(g) /\ pc[H!Current(g)] # "lock"
    BY <1>1, HolderOfMu
  <2>2. Advances(g)
    BY <2>1, NoMutexNoWait
  <2>3. g \in WaitsFor(h)
    BY <1>1, <2>1 DEF WaitsFor
  <2> QED BY <2>2, <2>3
<1>2. CASE ~(stage[h] = "wait" /\ pc[H!Current(h)] = "lock" /\ mu # NoCall)
  BY <1>2, NoMutexNoWait
<1> QED BY <1>1, <1>2

\* The locks form no circle and none outlives its holder (client.go:35-42,
\* :143-144, :190-216), for any handlers and calls.
THEOREM NeverDeadlocked == ProviderSpec => []NoDeadlock
<1>1. ASSUME PInv PROVE NoDeadlock
  <2> SUFFICES ASSUME NEW h \in Handlers, stage[h] \notin {"idle", "done"}
               PROVE  \E g \in {h} \cup WaitsFor(h) \cup UNION {WaitsFor(k) : k \in WaitsFor(h)} :
                        Advances(g)
    BY DEF NoDeadlock
  <2>1. CASE stage[h] \in {"call", "wait"}
    BY <1>1, <2>1, OneUnlockAway
  <2>2. CASE stage[h] = "lock" /\ writeMu = Nobody
    BY <2>2 DEF Advances
  <2>3. CASE stage[h] = "lock" /\ writeMu # Nobody
    <3>1. writeMu \in Handlers /\ stage[writeMu] \in {"call", "wait"}
      BY <1>1, <2>3 DEF PInv, HP!IInv, HP!TypeOK, HP!LockInv
    <3>2. writeMu \in WaitsFor(h)
      BY <2>3, <3>1 DEF WaitsFor
    <3>3. \E g \in {writeMu} \cup WaitsFor(writeMu) : Advances(g)
      BY <1>1, <3>1, OneUnlockAway
    <3> QED BY <3>2, <3>3
  <2>4. stage[h] \in {"lock", "call", "wait"}
    BY <1>1 DEF PInv, HP!IInv, HP!TypeOK
  <2> QED BY <2>1, <2>2, <2>3, <2>4
<1> QED BY <1>1, ProviderInvariantHolds, PTL
=============================================================================
