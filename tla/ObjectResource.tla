---------------------------- MODULE ObjectResource ----------------------------
(***************************************************************************)
(* proxmox_object (internal/provider/object_resource.go): several blocks   *)
(* of one configuration manage different keys of one object on the server. *)
(* Terraform refreshes a block (Read), plans it (subsetSuppress decides    *)
(* whether there is a difference) and applies it (Create, Update, Delete)  *)
(* while the other blocks, people at the web interface and requests that   *)
(* arrive late change the object.                                          *)
(*                                                                         *)
(* An object or a JSON body is a function from keys to values where 0      *)
(* stands for a key that is not there. A PUT merges its body into the      *)
(* object. What Client.do may answer is taken from module CallOnce.        *)
(*                                                                         *)
(* Definitions called Faulty* are in no specification: each is the next    *)
(* definition with one plausible bug, for checking that a property sees it.*)
(***************************************************************************)
EXTENDS Naturals

CONSTANTS
  Blocks,       \* proxmox_object blocks with the same path
  Keys,         \* keys of the object
  KeyOf,        \* the key each block declares in its body
  ByPost,       \* blocks with a create_path
  NoBlock,      \* the holder of writeMu when it is free
  MaxEdits,     \* bound: edits of the configuration and of the object
  MaxFaults     \* bound: calls that fail or arrive late

ASSUME ObjectAssumption ==
  /\ KeyOf \in [Blocks -> Keys]
  /\ ByPost \subseteq Blocks
  /\ NoBlock \notin Blocks
  /\ MaxEdits \in Nat
  /\ MaxFaults \in Nat

Values == {1, 2}
Objects == [Keys -> {0} \cup Values]
Empty == [k \in Keys |-> 0]
Methods == {"DELETE", "PUT", "NONE"}
Requests == [method : {"PUT", "POST", "DELETE"}, body : Objects, unset : SUBSET Keys]

VARIABLES
  exists,       \* the object is on the server
  object,       \* its keys
  late,         \* requests given up by the client and still on their way
  want,         \* configuration: the block is there,
  declared,     \*   the value of its key,
  method,       \*   its delete_method
  has,          \* Terraform state: the block is there,
  body,         \*   its body,
  stateMethod,  \*   its delete_method
  writeMu,      \* holder of Client.writeMu
  pc,           \* where the block's run stands
  op,           \* what was planned
  plan,         \* planned body
  edits,
  faults

server == <<exists, object, late>>
config == <<want, declared, method>>
state == <<has, body, stateMethod>>
run == <<writeMu, pc, op, plan>>
vars == <<server, config, state, run, edits, faults>>

Declared(b) == [k \in Keys |-> IF k = KeyOf[b] THEN declared[b] ELSE 0]

Merge(old, new) == [k \in Keys |-> IF new[k] # 0 THEN new[k] ELSE old[k]]

FaultySubsetMatches(prior, cfg) == prior = cfg

\* subsetMatches: every key of the configured body has its value in the state.
SubsetMatches(prior, cfg) == \A k \in Keys : cfg[k] # 0 => prior[k] = cfg[k]

Init ==
  /\ exists \in BOOLEAN
  /\ object = [k \in Keys |-> IF exists THEN 2 ELSE 0]
  /\ late = {}
  /\ want = [b \in Blocks |-> TRUE]
  /\ declared = [b \in Blocks |-> 1]
  /\ method = [b \in Blocks |-> "DELETE"]
  /\ has = [b \in Blocks |-> FALSE]
  /\ body = [b \in Blocks |-> Empty]
  /\ stateMethod = [b \in Blocks |-> "DELETE"]
  /\ writeMu = NoBlock
  /\ pc = [b \in Blocks |-> "idle"]
  /\ op = [b \in Blocks |-> "none"]
  /\ plan = [b \in Blocks |-> Empty]
  /\ edits = 0
  /\ faults = 0

-----------------------------------------------------------------------------
\* The world around the provider.

EditConfig(b) ==
  /\ pc[b] = "idle"
  /\ edits < MaxEdits
  /\ edits' = edits + 1
  /\ \/ /\ \E v \in Values : declared' = [declared EXCEPT ![b] = v]
        /\ UNCHANGED <<want, method>>
     \/ /\ want' = [want EXCEPT ![b] = ~@]
        /\ UNCHANGED <<declared, method>>
     \/ /\ \E d \in Methods : method' = [method EXCEPT ![b] = d]
        /\ UNCHANGED <<want, declared>>
  /\ UNCHANGED <<server, state, run, faults>>

EditObject ==
  /\ edits < MaxEdits
  /\ edits' = edits + 1
  /\ \/ /\ exists
        /\ \E k \in Keys, v \in Values : object' = [object EXCEPT ![k] = v]
        /\ UNCHANGED exists
     \/ /\ exists' = FALSE
        /\ object' = Empty
  /\ UNCHANGED <<late, config, state, run, faults>>

\* The server carries a request out. A PUT changes the keys of its body and takes
\* those it unsets away; a POST makes an object only where there is none.
Performed(r) ==
  \/ /\ r.method = "PUT" /\ exists
     /\ object' = [k \in Keys |-> IF k \in r.unset THEN 0 ELSE Merge(object, r.body)[k]]
     /\ UNCHANGED exists
  \/ /\ r.method = "POST" /\ ~exists
     /\ exists' = TRUE
     /\ object' = r.body
  \/ /\ r.method = "DELETE" /\ exists
     /\ exists' = FALSE
     /\ object' = Empty

\* 404 for a PUT or DELETE of a missing object, an error for a POST of one that
\* is there.
TurnedDown(r) ==
  /\ exists <=> r.method = "POST"
  /\ UNCHANGED <<exists, object>>

\* A request the client gave up reaches the server.
LateRequest ==
  /\ \E r \in late :
       /\ late' = late \ {r}
       /\ Performed(r) \/ TurnedDown(r)
  /\ UNCHANGED <<config, state, run, edits, faults>>

-----------------------------------------------------------------------------
\* Refresh and plan.

SetState(b, h, x, d) ==
  /\ has' = [has EXCEPT ![b] = h]
  /\ body' = [body EXCEPT ![b] = x]
  /\ stateMethod' = [stateMethod EXCEPT ![b] = d]

\* terraform import: path and perhaps the hints from the id, then the first Read.
Import(b) ==
  /\ pc[b] = "idle"
  /\ want[b]
  /\ ~has[b]
  /\ exists
  /\ \E d \in {method[b], "DELETE"} : SetState(b, TRUE, object, d)
  /\ UNCHANGED <<server, config, run, edits, faults>>

FaultyRead(b) ==
  /\ pc[b] = "idle"
  /\ has[b] \/ want[b]
  /\ pc' = [pc EXCEPT ![b] = "plan"]
  /\ IF has[b] /\ exists THEN SetState(b, TRUE, object, stateMethod[b]) ELSE UNCHANGED state
  /\ UNCHANGED <<server, config, writeMu, op, plan, edits, faults>>

\* Read: the state takes the whole object, or the block goes when the GET is
\* answered with 404. A block that is not in the state is not read.
Read(b) ==
  /\ pc[b] = "idle"
  /\ has[b] \/ want[b]
  /\ pc' = [pc EXCEPT ![b] = "plan"]
  /\ \/ ~has[b] /\ UNCHANGED state
     \/ has[b] /\ exists /\ SetState(b, TRUE, object, stateMethod[b])
     \/ has[b] /\ ~exists /\ SetState(b, FALSE, Empty, "DELETE")
  /\ UNCHANGED <<server, config, writeMu, op, plan, edits, faults>>

\* The GET fails: the run ends, unless it failed in login() with a 404, which
\* NotFound takes for the object's.
ReadFails(b) ==
  /\ pc[b] = "idle"
  /\ has[b]
  /\ faults < MaxFaults
  /\ faults' = faults + 1
  /\ \/ UNCHANGED <<state, pc>>
     \/ /\ SetState(b, FALSE, Empty, "DELETE")
        /\ pc' = [pc EXCEPT ![b] = "plan"]
  /\ UNCHANGED <<server, config, writeMu, op, plan, edits>>

\* subsetSuppress.PlanModifyString: no difference in the declared keys puts the
\* whole object of the state into the plan.
PlannedOver(prior, b) ==
  IF SubsetMatches(prior, Declared(b)) THEN prior ELSE Declared(b)

FaultyPlannedBody(b) == Declared(b)

FaultyPlannedBodyMerged(b) == IF has[b] THEN Merge(body[b], Declared(b)) ELSE Declared(b)

PlannedBody(b) == IF has[b] THEN PlannedOver(body[b], b) ELSE Declared(b)

PlannedOp(b) ==
  CASE want[b] /\ ~has[b] -> "create"
    [] want[b] /\ has[b] ->
         IF PlannedBody(b) = body[b] /\ method[b] = stateMethod[b] THEN "none" ELSE "update"
    [] ~want[b] /\ has[b] -> "destroy"
    [] OTHER -> "none"

Plan(b) ==
  /\ pc[b] = "plan"
  /\ op' = [op EXCEPT ![b] = PlannedOp(b)]
  /\ plan' = [plan EXCEPT ![b] = IF PlannedOp(b) \in {"create", "update"}
                                 THEN PlannedBody(b) ELSE Empty]
  /\ pc' = [pc EXCEPT ![b] = IF PlannedOp(b) = "none" THEN "idle" ELSE "lock"]
  /\ UNCHANGED <<server, config, state, writeMu, edits, faults>>

-----------------------------------------------------------------------------
\* Apply.

LockWrites(b) ==
  /\ pc[b] = "lock"
  /\ writeMu = NoBlock
  /\ writeMu' = b
  /\ pc' = [pc EXCEPT ![b] = "call"]
  /\ UNCHANGED <<server, config, state, op, plan, edits, faults>>

FaultyDone(b) ==
  /\ writeMu' = writeMu
  /\ pc' = [pc EXCEPT ![b] = "idle"]
  /\ op' = [op EXCEPT ![b] = "none"]
  /\ plan' = [plan EXCEPT ![b] = Empty]

\* The handler returns; UnlockWrites is deferred.
Done(b) ==
  /\ writeMu' = NoBlock
  /\ pc' = [pc EXCEPT ![b] = "idle"]
  /\ op' = [op EXCEPT ![b] = "none"]
  /\ plan' = [plan EXCEPT ![b] = Empty]

Save(b) == SetState(b, TRUE, plan[b], method[b])
Drop(b) == SetState(b, FALSE, Empty, "DELETE")

\* The call b makes now: PUT and DELETE go to the path, POST to a collection.
Sends(b) ==
  IF op[b] = "destroy" THEN stateMethod[b]
  ELSE IF op[b] = "create" /\ (pc[b] = "post" \/ b \in ByPost) THEN "POST" ELSE "PUT"

\* With its body; delete_body unsets the block's key.
Request(b) ==
  [method |-> Sends(b), body |-> plan[b], unset |-> IF op[b] = "destroy" THEN {KeyOf[b]} ELSE {}]

CarriedOut(b) == Performed(Request(b))
Refused(b) == Sends(b) # "NONE" /\ TurnedDown(Request(b))

\* Create: POST to create_path, or PUT to the path and, after a 404, POST to
\* the parent collection.
Create(b) ==
  /\ pc[b] \in {"call", "post"} /\ op[b] = "create"
  /\ \/ CarriedOut(b) /\ Save(b) /\ Done(b)
     \/ Refused(b) /\ Sends(b) = "POST" /\ Done(b) /\ UNCHANGED state
     \/ /\ Refused(b) /\ Sends(b) = "PUT"
        /\ pc' = [pc EXCEPT ![b] = "post"]
        /\ UNCHANGED <<state, writeMu, op, plan>>
  /\ UNCHANGED <<late, config, edits, faults>>

FaultyUpdate(b) ==
  /\ pc[b] = "call" /\ op[b] = "update"
  /\ CarriedOut(b) \/ Refused(b)
  /\ Save(b)
  /\ Done(b)
  /\ UNCHANGED <<late, config, edits, faults>>

\* Update: PUT of the planned body.
Update(b) ==
  /\ pc[b] = "call" /\ op[b] = "update"
  /\ \/ CarriedOut(b) /\ Save(b)
     \/ Refused(b) /\ UNCHANGED state
  /\ Done(b)
  /\ UNCHANGED <<late, config, edits, faults>>

\* Delete, by the delete_method in the state. After DELETE a 404 means that the
\* object is gone already; NONE makes no call.
Delete(b) ==
  /\ pc[b] = "call" /\ op[b] = "destroy"
  /\ \/ CarriedOut(b) /\ Drop(b)
     \/ Refused(b) /\ Sends(b) = "DELETE" /\ Drop(b)
     \/ Refused(b) /\ Sends(b) = "PUT" /\ UNCHANGED state
     \/ Sends(b) = "NONE" /\ Drop(b) /\ UNCHANGED <<exists, object>>
  /\ Done(b)
  /\ UNCHANGED <<late, config, edits, faults>>

Fault(b) ==
  /\ pc[b] \in {"call", "post"}
  /\ Sends(b) # "NONE"
  /\ faults < MaxFaults
  /\ faults' = faults + 1

\* A call fails: not done, or done without a usable answer, or still on its way.
\* The handler reports the error and leaves the state alone.
CallFails(b) ==
  /\ Fault(b)
  /\ \/ UNCHANGED server
     \/ CarriedOut(b) /\ UNCHANGED late
     \/ late' = late \cup {Request(b)} /\ UNCHANGED <<exists, object>>
  /\ Done(b)
  /\ UNCHANGED <<config, state, edits>>

\* A call fails in login() with a 404: NotFound does not ask whose 404 it is.
LoginNotFound(b) ==
  /\ Fault(b)
  /\ \/ /\ op[b] = "create" /\ Sends(b) = "PUT"
        /\ pc' = [pc EXCEPT ![b] = "post"]
        /\ UNCHANGED <<state, writeMu, op, plan>>
     \/ /\ Sends(b) = "DELETE"
        /\ Drop(b)
        /\ Done(b)
  /\ UNCHANGED <<server, config, edits>>

-----------------------------------------------------------------------------
Apply(b) == Create(b) \/ Update(b) \/ Delete(b)
Run(b) == Read(b) \/ Plan(b) \/ Apply(b)

\* Nothing is configured and nothing is in the state.
Quiet ==
  /\ \A b \in Blocks : ~want[b] /\ ~has[b]
  /\ UNCHANGED vars

Next ==
  \/ \E b \in Blocks :
       \/ Run(b) \/ LockWrites(b)
       \/ ReadFails(b) \/ CallFails(b) \/ LoginNotFound(b)
       \/ Import(b) \/ EditConfig(b)
  \/ EditObject
  \/ LateRequest
  \/ Quiet

Spec == Init /\ [][Next]_vars

\* Whoever runs the configuration runs it again until there is nothing to do,
\* and every request is answered or times out. writeMu is contended by runs that
\* come again and again, so its fairness is strong: Go's Mutex hands itself to a
\* waiter that has starved for a millisecond.
Fairness == \A b \in Blocks : WF_vars(Run(b)) /\ SF_vars(LockWrites(b))

FairSpec == Spec /\ Fairness

-----------------------------------------------------------------------------
\* The type invariant; writeMu is held by the block whose calls are under way.
TypeOK ==
  /\ exists \in BOOLEAN
  /\ object \in Objects
  /\ late \subseteq Requests
  /\ want \in [Blocks -> BOOLEAN]
  /\ declared \in [Blocks -> Values]
  /\ method \in [Blocks -> Methods]
  /\ has \in [Blocks -> BOOLEAN]
  /\ body \in [Blocks -> Objects]
  /\ stateMethod \in [Blocks -> Methods]
  /\ writeMu \in Blocks \cup {NoBlock}
  /\ pc \in [Blocks -> {"idle", "plan", "lock", "call", "post"}]
  /\ op \in [Blocks -> {"none", "create", "update", "destroy"}]
  /\ plan \in [Blocks -> Objects]
  /\ \A b \in Blocks : pc[b] \in {"call", "post"} <=> writeMu = b

\* A body is saved in the state only when it is on the server at that moment
\* (object_resource.go:126-208): failed calls and fallbacks never leave a state
\* that claims more than the object holds.
SavedStateIsTrue ==
  [][\A b \in Blocks : pc[b] \in {"call", "post"} /\ has'[b] /\ body'[b] # body[b] =>
       exists' /\ SubsetMatches(object', body'[b])]_vars

\* A block's call changes the keys of others in one case only: when an update has
\* nothing to change in the body, it puts the whole object of the last refresh
\* (object_resource.go:181-199, 293-303), and a key that others have changed since
\* then goes back to its value of that time. Failed calls and fallbacks do no more.
OthersOnlyRollBack ==
  [][\A b \in Blocks : pc[b] \in {"call", "post"} /\ pc'[b] # pc[b] /\ exists /\ exists' =>
       \A k \in Keys \ {KeyOf[b]} : object'[k] # object[k] =>
         /\ op[b] = "update" /\ body[b][KeyOf[b]] = declared[b]
         /\ object'[k] = body[b][k]]_vars

\* An apply that ends well is followed by an empty plan (object_resource.go:52-53),
\* whatever other keys the object has or others gave it since the plan: the state
\* is what a refresh at that moment and the configuration agree on.
AppliedIsZeroDiff ==
  [][\A b \in Blocks :
       pc[b] \in {"call", "post"} /\ has'[b]
         /\ <<body'[b], stateMethod'[b]>> # <<body[b], stateMethod[b]>> =>
       /\ exists' /\ PlannedOver(object', b) = object'
       /\ stateMethod'[b] = method[b]]_vars

\* Once edits and failures stop, repeated runs bring the object to what every
\* block declares and keep it there, whatever happened before: deletion behind
\* the provider's back, late requests, full bodies written by another block. A block
\* with a create_path may stay stuck on an object that exists already.
Converges ==
  <>[](\A b \in Blocks \ ByPost : want[b] =>
         has[b] /\ exists /\ object[KeyOf[b]] = declared[b])

\* And then plans are empty ("imports to 0-diff", object_resource.go:52-53):
\* the keys the server returns beside the declared ones cause no eternal diff.
PlansBecomeEmpty == <>[](\A b \in Blocks \ ByPost : op[b] = "none")

-----------------------------------------------------------------------------
\* "a subset declaration ... never clobbers unmanaged fields" (object_resource.
\* go:53): an update changes the declared keys only. The code puts the whole
\* object of the last refresh when only delete_method changed.
NeverClobbers ==
  [][\A b \in Blocks : Update(b) => \A k \in Keys \ {KeyOf[b]} : object'[k] = object[k]]_vars

\* "already gone" (object_resource.go:235): after a destroy by DELETE there is
\* no object. The code takes a 404 of the login for a 404 of the object.
DestroyedIsGone ==
  [][\A b \in Blocks : op[b] = "destroy" /\ stateMethod[b] = "DELETE" /\ ~has'[b] => ~exists']_vars
=============================================================================
