------------------------ MODULE ObjectResourceProofs ------------------------
(***************************************************************************)
(* ObjectResource keeps its types, runs one handler at a time and saves    *)
(* only what the server has, for any set of blocks on an object with any   *)
(* keys and any number of edits and faults.                                *)
(***************************************************************************)
EXTENDS ObjectResource, TLAPS

-----------------------------------------------------------------------------
\* The inductive invariant.

\* The type invariant without the part about writeMu.
Typed ==
  /\ exists \in BOOLEAN
  /\ object \in Objects
  /\ late \subseteq Requests
  /\ want \in [Blocks -> BOOLEAN]
  /\ declared \in [Blocks -> Values]
  /\ method \in [Blocks -> Methods]
  /\ has \in [Blocks -> BOOLEAN]
  /\ body \in [Blocks -> Objects]
  /\ stateMethod \in [Blocks -> Methods]
  /\ writeMu \in Blocks \cup {NoBlock}
  /\ pc \in [Blocks -> {"idle", "plan", "lock", "call", "post"}]
  /\ op \in [Blocks -> {"none", "create", "update", "destroy"}]
  /\ plan \in [Blocks -> Objects]

\* The block whose calls are under way holds writeMu.
Exclusive == \A b \in Blocks : pc[b] \in {"call", "post"} <=> writeMu = b

-----------------------------------------------------------------------------
\* Objects.

LEMMA EmptyType == Empty \in Objects
  BY DEF Empty, Objects, Values

LEMMA DeclaredType ==
  ASSUME NEW b \in Blocks, declared \in [Blocks -> Values]
  PROVE  Declared(b) \in Objects
  BY DEF Declared, Objects

LEMMA MergeType ==
  ASSUME NEW old \in Objects, NEW new \in Objects
  PROVE  Merge(old, new) \in Objects
  BY DEF Merge, Objects

\* A PUT gives the object every value of its body.
LEMMA MergeMatches ==
  ASSUME NEW old \in Objects, NEW new \in Objects
  PROVE  SubsetMatches(Merge(old, new), new)
  BY DEF Merge, SubsetMatches

LEMMA MatchesItself == ASSUME NEW x PROVE SubsetMatches(x, x)
  BY DEF SubsetMatches

\* What the server is left with by a request.
LEMMA PerformedType ==
  ASSUME exists \in BOOLEAN, object \in Objects, NEW r \in Requests,
         Performed(r) \/ UNCHANGED <<exists, object>>
  PROVE  exists' \in BOOLEAN /\ object' \in Objects
<1>1. CASE UNCHANGED <<exists, object>>
  BY <1>1
<1>2. CASE /\ r.method = "PUT" /\ exists
           /\ object' = [k \in Keys |-> IF k \in r.unset THEN 0 ELSE Merge(object, r.body)[k]]
           /\ UNCHANGED exists
  <2>1. r.body \in Objects
    BY DEF Requests
  <2>2. Merge(object, r.body) \in Objects
    BY <2>1, MergeType
  <2> QED BY <1>2, <2>2 DEF Objects
<1>3. CASE r.method = "POST" /\ ~exists /\ exists' = TRUE /\ object' = r.body
  BY <1>3 DEF Requests
<1>4. CASE r.method = "DELETE" /\ exists /\ exists' = FALSE /\ object' = Empty
  BY <1>4, EmptyType
<1> QED BY <1>1, <1>2, <1>3, <1>4 DEF Performed

LEMMA RequestType ==
  ASSUME Typed, NEW b \in Blocks, Sends(b) # "NONE"
  PROVE  Request(b) \in Requests
<1>1. Sends(b) \in {"PUT", "POST", "DELETE"}
  BY DEF Sends, Typed, Methods
<1>2. KeyOf[b] \in Keys /\ plan[b] \in Objects
  BY ObjectAssumption DEF Typed
<1> QED BY <1>1, <1>2 DEF Request, Requests

\* What is carried out is a call.
LEMMA CarriedOutSends ==
  ASSUME NEW b \in Blocks, CarriedOut(b)
  PROVE  Sends(b) # "NONE"
  BY DEF CarriedOut, Performed, Request

\* A body that was carried out is on the server.
LEMMA CarriedOutMatches ==
  ASSUME Typed, NEW b \in Blocks, CarriedOut(b), op[b] \in {"create", "update"}
  PROVE  exists' /\ SubsetMatches(object', plan[b])
<1>1. Sends(b) \in {"PUT", "POST"} /\ object \in Objects /\ plan[b] \in Objects
  BY DEF Sends, Typed
<1>2. /\ Request(b).method = Sends(b) /\ Request(b).body = plan[b]
      /\ Request(b).unset = {}
  BY DEF Request
<1>3. CASE Sends(b) = "PUT"
  <2>1. exists' /\ object' = [k \in Keys |-> Merge(object, plan[b])[k]]
    BY <1>2, <1>3 DEF CarriedOut, Performed
  <2>2. object' = Merge(object, plan[b])
    BY <2>1 DEF Merge
  <2> QED BY <1>1, <2>1, <2>2, MergeMatches
<1>4. CASE Sends(b) = "POST"
  BY <1>1, <1>2, <1>4, MatchesItself DEF CarriedOut, Performed
<1> QED BY <1>1, <1>3, <1>4

LEMMA SetStateType ==
  ASSUME Typed, NEW b \in Blocks, NEW h \in BOOLEAN, NEW x \in Objects, NEW d \in Methods,
         SetState(b, h, x, d)
  PROVE  /\ has' \in [Blocks -> BOOLEAN]
         /\ body' \in [Blocks -> Objects]
         /\ stateMethod' \in [Blocks -> Methods]
  BY DEF SetState, Typed

LEMMA SaveOrDropType ==
  ASSUME Typed, NEW b \in Blocks, Save(b) \/ Drop(b) \/ UNCHANGED state
  PROVE  /\ has' \in [Blocks -> BOOLEAN]
         /\ body' \in [Blocks -> Objects]
         /\ stateMethod' \in [Blocks -> Methods]
<1>1. CASE Save(b)
  BY <1>1, SetStateType DEF Save, Typed
<1>2. CASE Drop(b)
  BY <1>2, SetStateType, EmptyType DEF Drop, Methods
<1>3. CASE UNCHANGED state
  BY <1>3 DEF state, Typed
<1> QED BY <1>1, <1>2, <1>3

-----------------------------------------------------------------------------
\* Every action keeps the two parts: one lemma per group of actions.

\* The world changes the configuration or the object, and no run.
LEMMA WorldKeeps ==
  ASSUME Typed, Exclusive, EditObject \/ LateRequest \/ \E b \in Blocks : EditConfig(b)
  PROVE  Typed' /\ Exclusive'
<1>1. CASE \E b \in Blocks : EditConfig(b)
  <2>1. PICK b \in Blocks : EditConfig(b)
    BY <1>1
  <2>2. UNCHANGED <<server, state, run>>
    BY <2>1 DEF EditConfig
  <2>3. want' \in [Blocks -> BOOLEAN]
    <3>1. want' = want \/ want' = [want EXCEPT ![b] = ~want[b]]
      BY <2>1 DEF EditConfig
    <3> QED BY <3>1 DEF Typed
  <2>4. declared' \in [Blocks -> Values] /\ method' \in [Blocks -> Methods]
    BY <2>1 DEF EditConfig, Typed
  <2> QED BY <2>2, <2>3, <2>4 DEF Typed, Exclusive, server, state, run
<1>2. CASE EditObject
  <2>1. exists' \in BOOLEAN /\ object' \in Objects
    BY <1>2, EmptyType DEF EditObject, Typed, Objects
  <2> QED BY <1>2, <2>1 DEF EditObject, Typed, Exclusive, config, state, run
<1>3. CASE LateRequest
  <2>1. PICK r \in late : late' = late \ {r} /\ (Performed(r) \/ TurnedDown(r))
    BY <1>3 DEF LateRequest
  <2>2. exists' \in BOOLEAN /\ object' \in Objects /\ late' \subseteq Requests
    BY <2>1, PerformedType DEF TurnedDown, Typed
  <2> QED BY <1>3, <2>2 DEF LateRequest, Typed, Exclusive, config, state, run
<1> QED BY <1>1, <1>2, <1>3

\* Refresh and import change the Terraform state only.
LEMMA RefreshKeeps ==
  ASSUME Typed, Exclusive, NEW b \in Blocks, Import(b) \/ Read(b) \/ ReadFails(b)
  PROVE  Typed' /\ Exclusive'
<1>1. /\ has' \in [Blocks -> BOOLEAN]
      /\ body' \in [Blocks -> Objects]
      /\ stateMethod' \in [Blocks -> Methods]
  <2>1. object \in Objects /\ method[b] \in Methods /\ stateMethod[b] \in Methods
    BY DEF Typed
  <2>2. CASE UNCHANGED state
    BY <2>2, SaveOrDropType
  <2>3. CASE \E h \in BOOLEAN, x \in {object, Empty}, d \in Methods : SetState(b, h, x, d)
    BY <2>1, <2>3, EmptyType, SetStateType
  <2> QED BY <2>1, <2>2, <2>3 DEF Import, Read, ReadFails, Methods
<1>2. pc' = pc \/ (pc[b] = "idle" /\ pc' = [pc EXCEPT ![b] = "plan"])
  BY DEF Import, Read, ReadFails, run
<1>3. UNCHANGED <<server, config, writeMu, op, plan>>
  BY DEF Import, Read, ReadFails, run
<1>4. Typed'
  BY <1>1, <1>2, <1>3 DEF Typed, server, config
<1>5. Exclusive'
  BY <1>2, <1>3 DEF Typed, Exclusive
<1> QED BY <1>4, <1>5

\* Planning.
LEMMA PlanKeeps ==
  ASSUME Typed, Exclusive, NEW b \in Blocks, Plan(b)
  PROVE  Typed' /\ Exclusive'
<1>1. PlannedOp(b) \in {"none", "create", "update", "destroy"}
  BY DEF PlannedOp
<1>2. PlannedBody(b) \in Objects /\ Empty \in Objects
  BY DeclaredType, EmptyType DEF PlannedBody, PlannedOver, Typed
<1>3. Typed'
  BY <1>1, <1>2 DEF Plan, Typed, server, config, state
<1>4. Exclusive'
  BY DEF Plan, Typed, Exclusive
<1> QED BY <1>3, <1>4

\* Taking writeMu.
LEMMA LockKeeps ==
  ASSUME Typed, Exclusive, NEW b \in Blocks, LockWrites(b)
  PROVE  Typed' /\ Exclusive'
<1>1. Typed'
  BY DEF LockWrites, Typed, server, config, state
<1>2. Exclusive'
  BY ObjectAssumption DEF LockWrites, Typed, Exclusive
<1> QED BY <1>1, <1>2

\* A handler under writeMu goes on to the POST or returns.
LEMMA HandlerKeeps ==
  ASSUME Typed, Exclusive, NEW b \in Blocks,
         pc[b] \in {"call", "post"},
         UNCHANGED config,
         exists' \in BOOLEAN, object' \in Objects, late' \subseteq Requests,
         Save(b) \/ Drop(b) \/ UNCHANGED state,
         \/ Done(b)
         \/ pc' = [pc EXCEPT ![b] = "post"] /\ UNCHANGED <<writeMu, op, plan>>
  PROVE  Typed' /\ Exclusive'
<1>1. Typed'
  BY SaveOrDropType, EmptyType DEF Done, Typed, config
<1>2. Exclusive'
  BY ObjectAssumption DEF Done, Typed, Exclusive
<1> QED BY <1>1, <1>2

LEMMA ApplyKeeps ==
  ASSUME Typed, Exclusive, NEW b \in Blocks, Apply(b) \/ CallFails(b) \/ LoginNotFound(b)
  PROVE  Typed' /\ Exclusive'
<1>1. pc[b] \in {"call", "post"} /\ UNCHANGED config
  BY DEF Apply, Create, Update, Delete, CallFails, LoginNotFound, Fault
<1>2. exists' \in BOOLEAN /\ object' \in Objects
  <2>1. CarriedOut(b) \/ UNCHANGED <<exists, object>>
    BY DEF Apply, Create, Update, Delete, CallFails, LoginNotFound, Refused, TurnedDown, server
  <2>2. CASE CarriedOut(b)
    BY <2>2, CarriedOutSends, RequestType, PerformedType DEF CarriedOut, Typed
  <2> QED BY <2>1, <2>2 DEF Typed
<1>3. late' \subseteq Requests
  <2>1. late' = late \/ (Fault(b) /\ late' = late \cup {Request(b)})
    BY DEF Apply, Create, Update, Delete, CallFails, LoginNotFound, server
  <2> QED BY <2>1, RequestType DEF Fault, Typed
<1>4. Save(b) \/ Drop(b) \/ UNCHANGED state
  BY DEF Apply, Create, Update, Delete, CallFails, LoginNotFound
<1>5. \/ Done(b)
      \/ pc' = [pc EXCEPT ![b] = "post"] /\ UNCHANGED <<writeMu, op, plan>>
  BY DEF Apply, Create, Update, Delete, CallFails, LoginNotFound
<1> QED BY <1>1, <1>2, <1>3, <1>4, <1>5, HandlerKeeps

-----------------------------------------------------------------------------
\* The types hold and writeMu is held by the block whose calls are under way:
\* never do two handlers of one provider write (object_resource.go:137-138).
THEOREM TypeCorrect == Spec => []TypeOK
<1>1. Init => Typed /\ Exclusive
  BY ObjectAssumption, EmptyType DEF Init, Typed, Exclusive, Objects, Values, Methods
<1>2. ASSUME Typed, Exclusive, [Next]_vars PROVE Typed' /\ Exclusive'
  <2> USE <1>2
  <2>1. CASE EditObject \/ LateRequest \/ \E b \in Blocks : EditConfig(b)
    BY <2>1, WorldKeeps
  <2>2. CASE \E b \in Blocks : Import(b) \/ Read(b) \/ ReadFails(b)
    BY <2>2, RefreshKeeps
  <2>3. CASE \E b \in Blocks : Plan(b) \/ LockWrites(b)
    BY <2>3, PlanKeeps, LockKeeps
  <2>4. CASE \E b \in Blocks : Apply(b) \/ CallFails(b) \/ LoginNotFound(b)
    BY <2>4, ApplyKeeps
  <2>5. CASE UNCHANGED vars
    BY <2>5 DEF vars, server, config, state, run, Typed, Exclusive
  <2> QED BY <2>1, <2>2, <2>3, <2>4, <2>5 DEF Next, Run, Quiet
<1>3. TypeOK <=> Typed /\ Exclusive
  BY DEF TypeOK, Typed, Exclusive
<1> QED BY <1>1, <1>2, <1>3, PTL DEF Spec

-----------------------------------------------------------------------------
\* What is applied is what was planned.

Busy == {"lock", "call", "post"}

\* From the plan to the return of the handler a block's operation and body are
\* those planned from its configuration and state, for nothing changes either.
Planned ==
  \A b \in Blocks : pc[b] \in Busy =>
    /\ op[b] = PlannedOp(b)
    /\ op[b] # "none"
    /\ plan[b] = IF op[b] \in {"create", "update"} THEN PlannedBody(b) ELSE Empty

Own(b) == <<want[b], declared[b], method[b], has[b], body[b], stateMethod[b], op[b], plan[b]>>

LEMMA OwnDecides ==
  ASSUME NEW b \in Blocks, UNCHANGED Own(b)
  PROVE  PlannedOp(b)' = PlannedOp(b) /\ PlannedBody(b)' = PlannedBody(b)
<1>1. Declared(b)' = Declared(b)
  BY DEF Own, Declared
<1> QED BY <1>1 DEF Own, PlannedOp, PlannedBody, PlannedOver, SubsetMatches

\* A step of another block changes nothing of b's.
LEMMA OthersLeaveOwn ==
  ASSUME Typed, NEW b \in Blocks, NEW c \in Blocks \ {b},
         \/ Run(c) \/ LockWrites(c) \/ ReadFails(c) \/ CallFails(c)
         \/ LoginNotFound(c) \/ Import(c) \/ EditConfig(c)
  PROVE  UNCHANGED Own(b) /\ pc'[b] = pc[b]
<1>1. CASE EditConfig(c)
  <2>1. want'[b] = want[b]
    BY <1>1 DEF EditConfig, Typed
  <2>2. declared'[b] = declared[b] /\ method'[b] = method[b]
    BY <1>1 DEF EditConfig, Typed
  <2> QED BY <1>1, <2>1, <2>2 DEF EditConfig, Own, state, run
<1>2. CASE Import(c) \/ Read(c) \/ ReadFails(c)
  BY <1>2 DEF Import, Read, ReadFails, SetState, Own, state, config, run, Typed
<1>3. CASE Plan(c) \/ LockWrites(c)
  BY <1>3 DEF Plan, LockWrites, Own, state, config, Typed
<1>4. CASE Apply(c) \/ CallFails(c) \/ LoginNotFound(c)
  <2>1. /\ UNCHANGED config
        /\ Save(c) \/ Drop(c) \/ UNCHANGED state
        /\ \/ Done(c)
           \/ pc' = [pc EXCEPT ![c] = "post"] /\ UNCHANGED <<op, plan>>
    BY <1>4 DEF Apply, Create, Update, Delete, CallFails, LoginNotFound
  <2> QED BY <2>1 DEF Save, Drop, SetState, Done, Own, config, state, Typed
<1> QED BY <1>1, <1>2, <1>3, <1>4 DEF Run

LEMMA BusyIsFrozen ==
  ASSUME Typed, [Next]_vars, NEW b \in Blocks, pc[b] \in Busy, pc'[b] \in Busy
  PROVE  UNCHANGED Own(b)
<1>1. CASE EditObject \/ LateRequest \/ UNCHANGED vars
  BY <1>1 DEF EditObject, LateRequest, vars, config, state, run, Own
<1>2. CASE \E c \in Blocks \ {b} :
             \/ Run(c) \/ LockWrites(c) \/ ReadFails(c) \/ CallFails(c)
             \/ LoginNotFound(c) \/ Import(c) \/ EditConfig(c)
  BY <1>2, OthersLeaveOwn
<1>3. CASE LockWrites(b)
  BY <1>3 DEF LockWrites, config, state, Own
<1>4. CASE Apply(b) \/ CallFails(b) \/ LoginNotFound(b)
  <2>1. ~Done(b)
    BY DEF Done, Typed, Busy
  <2> QED BY <1>4, <2>1 DEF Apply, Create, Update, Delete, CallFails, LoginNotFound,
                           config, state, Own
<1>5. CASE EditConfig(b) \/ Import(b) \/ Read(b) \/ ReadFails(b) \/ Plan(b)
  BY <1>5 DEF EditConfig, Import, Read, ReadFails, Plan, Busy
<1> QED BY <1>1, <1>2, <1>3, <1>4, <1>5 DEF Next, Run, Quiet

\* The plan is how a block becomes busy.
LEMMA PlanMakesBusy ==
  ASSUME Typed, [Next]_vars, NEW b \in Blocks, pc[b] \notin Busy, pc'[b] \in Busy
  PROVE  Plan(b)
<1>1. CASE EditObject \/ LateRequest \/ UNCHANGED vars
  BY <1>1 DEF EditObject, LateRequest, vars, run
<1>2. CASE \E c \in Blocks \ {b} :
             \/ Run(c) \/ LockWrites(c) \/ ReadFails(c) \/ CallFails(c)
             \/ LoginNotFound(c) \/ Import(c) \/ EditConfig(c)
  BY <1>2, OthersLeaveOwn
<1>3. CASE \/ Apply(b) \/ CallFails(b) \/ LoginNotFound(b) \/ LockWrites(b)
  BY <1>3 DEF Apply, Create, Update, Delete, CallFails, LoginNotFound, Fault, LockWrites, Busy
<1>4. CASE EditConfig(b) \/ Import(b) \/ Read(b) \/ ReadFails(b)
  BY <1>4 DEF EditConfig, Import, Read, ReadFails, run, Typed, Busy
<1> QED BY <1>1, <1>2, <1>3, <1>4 DEF Next, Run, Quiet

LEMMA NextPlanned ==
  ASSUME Typed, Planned, [Next]_vars
  PROVE  Planned'
<1> SUFFICES ASSUME NEW b \in Blocks, pc'[b] \in Busy
             PROVE  /\ op'[b] = PlannedOp(b)'
                    /\ op'[b] # "none"
                    /\ plan'[b] = IF op'[b] \in {"create", "update"} THEN PlannedBody(b)' ELSE Empty
  BY DEF Planned, Empty
<1>1. CASE pc[b] \in Busy
  <2>1. UNCHANGED Own(b)
    BY <1>1, BusyIsFrozen
  <2>2. op'[b] = op[b] /\ plan'[b] = plan[b]
    BY <2>1 DEF Own
  <2> QED BY <1>1, <2>1, <2>2, OwnDecides DEF Planned
<1>2. CASE pc[b] \notin Busy
  <2>1. Plan(b)
    BY <1>2, PlanMakesBusy
  <2>2. PlannedOp(b)' = PlannedOp(b) /\ PlannedBody(b)' = PlannedBody(b)
    <3>1. Declared(b)' = Declared(b)
      BY <2>1 DEF Plan, config, Declared
    <3> QED BY <2>1, <3>1 DEF Plan, config, state, PlannedOp, PlannedBody, PlannedOver,
                              SubsetMatches
  <2>3. PlannedOp(b) # "none"
    BY <2>1 DEF Plan, Typed, Busy
  <2> QED BY <2>1, <2>2, <2>3 DEF Plan, Typed
<1> QED BY <1>1, <1>2

LEMMA AlwaysPlanned == Spec => [](TypeOK /\ Planned)
<1>1. Init => Planned
  BY DEF Init, Planned, Busy
<1>2. TypeOK /\ Planned /\ [Next]_vars => Planned'
  BY NextPlanned DEF TypeOK, Typed
<1> QED BY <1>1, <1>2, TypeCorrect, PTL DEF Spec

-----------------------------------------------------------------------------
\* What is saved.

\* Only a create or an update that was carried out saves a block anew.
LEMMA OnlySuccessSaves ==
  ASSUME TypeOK, Next, NEW b \in Blocks,
         pc[b] \in {"call", "post"}, has'[b],
         <<body'[b], stateMethod'[b]>> # <<body[b], stateMethod[b]>>
  PROVE  CarriedOut(b) /\ Save(b) /\ op[b] \in {"create", "update"}
<1>1. Typed
  BY DEF TypeOK, Typed
<1>2. CASE Create(b) \/ Update(b)
  BY <1>2 DEF Create, Update, state
<1>3. CASE Delete(b) \/ LoginNotFound(b) \/ CallFails(b)
  BY <1>3, <1>1 DEF Delete, LoginNotFound, CallFails, Drop, SetState, state, Typed
<1>4. CASE EditObject \/ LateRequest \/ Quiet
  BY <1>4 DEF EditObject, LateRequest, Quiet, vars, state
<1>5. CASE \E c \in Blocks \ {b} :
             \/ Run(c) \/ LockWrites(c) \/ ReadFails(c) \/ CallFails(c)
             \/ LoginNotFound(c) \/ Import(c) \/ EditConfig(c)
  <2>1. UNCHANGED Own(b)
    BY <1>1, <1>5, OthersLeaveOwn
  <2> QED BY <2>1 DEF Own
<1>6. CASE EditConfig(b) \/ Plan(b) \/ LockWrites(b) \/ Import(b) \/ Read(b) \/ ReadFails(b)
  BY <1>6 DEF EditConfig, Plan, LockWrites, Import, Read, ReadFails
<1> QED BY <1>2, <1>3, <1>4, <1>5, <1>6 DEF Next, Run, Apply

\* A handler saves a body only when the server has it at that moment
\* (object_resource.go:126-208).
THEOREM SavedIsTrue == Spec => SavedStateIsTrue
<1>1. ASSUME TypeOK, Next, NEW b \in Blocks,
             pc[b] \in {"call", "post"}, has'[b], body'[b] # body[b]
      PROVE  exists' /\ SubsetMatches(object', body'[b])
  <2> USE <1>1
  <2>1. Typed
    BY DEF TypeOK, Typed
  <2>2. CarriedOut(b) /\ Save(b) /\ op[b] \in {"create", "update"}
    BY OnlySuccessSaves
  <2>3. body'[b] = plan[b]
    BY <2>1, <2>2 DEF Save, SetState, Typed
  <2> QED BY <2>1, <2>2, <2>3, CarriedOutMatches
<1>2. TypeOK /\ [Next]_vars =>
        [\A b \in Blocks : pc[b] \in {"call", "post"} /\ has'[b] /\ body'[b] # body[b] =>
           exists' /\ SubsetMatches(object', body'[b])]_vars
  BY <1>1
<1> QED BY <1>2, TypeCorrect, PTL DEF Spec, SavedStateIsTrue

\* The planned body has every declared key, whether it is the configured body or
\* the whole object of the state.
LEMMA PlannedHasDeclared ==
  ASSUME NEW b \in Blocks
  PROVE  SubsetMatches(PlannedBody(b), Declared(b))
  BY MatchesItself DEF PlannedBody, PlannedOver

\* A create or an update that ends well leaves nothing to plan (object_resource.
\* go:52-53): what it put on the server has every declared key.
THEOREM AppliedLeavesNoDiff == Spec => AppliedIsZeroDiff
<1>1. ASSUME TypeOK, Planned, Next, NEW b \in Blocks,
             pc[b] \in {"call", "post"}, has'[b],
             <<body'[b], stateMethod'[b]>> # <<body[b], stateMethod[b]>>
      PROVE  exists' /\ PlannedOver(object', b) = object' /\ stateMethod'[b] = method[b]
  <2> USE <1>1
  <2>1. Typed
    BY DEF TypeOK, Typed
  <2>2. CarriedOut(b) /\ Save(b) /\ op[b] \in {"create", "update"}
    BY OnlySuccessSaves
  <2>3. exists' /\ SubsetMatches(object', plan[b])
    BY <2>1, <2>2, CarriedOutMatches
  <2>4. SubsetMatches(plan[b], Declared(b))
    BY <2>2, PlannedHasDeclared DEF Planned, Busy
  <2>5. SubsetMatches(object', Declared(b))
    BY <2>3, <2>4 DEF SubsetMatches
  <2>6. stateMethod'[b] = method[b]
    BY <2>1, <2>2 DEF Save, SetState, Typed
  <2> QED BY <2>3, <2>5, <2>6 DEF PlannedOver
<1>2. TypeOK /\ Planned /\ [Next]_vars =>
        [\A b \in Blocks :
           pc[b] \in {"call", "post"} /\ has'[b]
             /\ <<body'[b], stateMethod'[b]>> # <<body[b], stateMethod[b]>> =>
           /\ exists' /\ PlannedOver(object', b) = object'
           /\ stateMethod'[b] = method[b]]_vars
  BY <1>1
<1> QED BY <1>2, AlwaysPlanned, PTL DEF Spec, AppliedIsZeroDiff

-----------------------------------------------------------------------------
\* What happens to the keys of others.

\* A handler's step leaves the object alone or is the call carried out.
LEMMA HandlerStep ==
  ASSUME TypeOK, Next, NEW b \in Blocks, pc[b] \in {"call", "post"}, pc'[b] # pc[b]
  PROVE  CarriedOut(b) \/ UNCHANGED <<exists, object>>
<1>1. Typed
  BY DEF TypeOK, Typed
<1>2. CASE Apply(b) \/ CallFails(b) \/ LoginNotFound(b)
  BY <1>2 DEF Apply, Create, Update, Delete, CallFails, LoginNotFound, Refused, TurnedDown, server
<1>3. CASE EditObject \/ LateRequest \/ Quiet
  BY <1>3 DEF EditObject, LateRequest, Quiet, vars, run
<1>4. CASE \E c \in Blocks \ {b} :
             \/ Run(c) \/ LockWrites(c) \/ ReadFails(c) \/ CallFails(c)
             \/ LoginNotFound(c) \/ Import(c) \/ EditConfig(c)
  BY <1>1, <1>4, OthersLeaveOwn
<1>5. CASE EditConfig(b) \/ Plan(b) \/ LockWrites(b) \/ Import(b) \/ Read(b) \/ ReadFails(b)
  BY <1>5 DEF EditConfig, Plan, LockWrites, Import, Read, ReadFails
<1> QED BY <1>2, <1>3, <1>4, <1>5 DEF Next, Run

\* A planned body with a key of others is the state's, and has nothing to change.
LEMMA WholeBodyIsTheStates ==
  ASSUME Typed, Planned, NEW b \in Blocks, pc[b] \in Busy, op[b] # "destroy",
         NEW k \in Keys \ {KeyOf[b]}, plan[b][k] # 0
  PROVE  op[b] = "update" /\ plan[b] = body[b] /\ body[b][KeyOf[b]] = declared[b]
<1>1. op[b] = PlannedOp(b) /\ op[b] \in {"create", "update"} /\ plan[b] = PlannedBody(b)
  BY DEF Planned, Typed
<1>2. Declared(b)[k] = 0
  BY DEF Declared
<1>3. has[b] /\ SubsetMatches(body[b], Declared(b)) /\ plan[b] = body[b]
  BY <1>1, <1>2 DEF PlannedBody, PlannedOver
<1>4. op[b] = "update"
  BY <1>1, <1>3 DEF PlannedOp, Typed
<1>5. KeyOf[b] \in Keys /\ Declared(b)[KeyOf[b]] = declared[b] /\ declared[b] # 0
  BY ObjectAssumption DEF Declared, Typed, Values
<1> QED BY <1>3, <1>4, <1>5 DEF SubsetMatches

\* A call changes keys of others only by putting the object of the last refresh
\* when the body needs no change (object_resource.go:181-199, 293-303).
THEOREM RollsBackAtMost == Spec => OthersOnlyRollBack
<1>1. ASSUME TypeOK, Planned, Next, NEW b \in Blocks,
             pc[b] \in {"call", "post"}, pc'[b] # pc[b], exists, exists',
             NEW k \in Keys \ {KeyOf[b]}, object'[k] # object[k]
      PROVE  /\ op[b] = "update" /\ body[b][KeyOf[b]] = declared[b]
             /\ object'[k] = body[b][k]
  <2> USE <1>1
  <2>1. Typed
    BY DEF TypeOK, Typed
  <2>2. CarriedOut(b)
    BY HandlerStep
  <2>3. object' = [j \in Keys |-> IF j \in Request(b).unset THEN 0
                                  ELSE Merge(object, Request(b).body)[j]]
    BY <2>2 DEF CarriedOut, Performed
  <2>4. k \notin Request(b).unset /\ Request(b).body = plan[b]
    BY DEF Request
  <2>5. object'[k] = Merge(object, plan[b])[k]
    BY <2>3, <2>4
  <2>6. plan[b][k] # 0 /\ object'[k] = plan[b][k]
    BY <2>5 DEF Merge
  <2>7. op[b] # "destroy"
    BY <2>6 DEF Planned, Busy, Empty
  <2> QED BY <2>1, <2>6, <2>7, WholeBodyIsTheStates DEF Busy
<1>2. TypeOK /\ Planned /\ [Next]_vars =>
        [\A b \in Blocks : pc[b] \in {"call", "post"} /\ pc'[b] # pc[b] /\ exists /\ exists' =>
           \A k \in Keys \ {KeyOf[b]} : object'[k] # object[k] =>
             /\ op[b] = "update" /\ body[b][KeyOf[b]] = declared[b]
             /\ object'[k] = body[b][k]]_vars
  BY <1>1
<1> QED BY <1>2, AlwaysPlanned, PTL DEF Spec, OthersOnlyRollBack
=============================================================================
