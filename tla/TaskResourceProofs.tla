------------------------- MODULE TaskResourceProofs -------------------------
(***************************************************************************)
(* TaskResource holds its invariants for any set of task resources and any *)
(* number of operations.                                                   *)
(***************************************************************************)
EXTENDS TaskResource, TLAPS

-----------------------------------------------------------------------------
\* The inductive invariant.

\* Calls are numbered as they begin; a number not given out is blank.
NumberInv ==
  \A n \in Ids :
    /\ n <= begun => by[n] \in Resources /\ cause[n] # "none"
    /\ n > begun => /\ by[n] = NoOne
                    /\ told[n] = "none"
                    /\ server[n] = "none"
                    /\ n \notin cut

\* A busy resource works on the last call it began, which is not answered yet.
CurrentInv ==
  \A r \in Resources :
    /\ pc[r] = "idle" <=> current[r] = 0
    /\ pc[r] # "idle" => /\ current[r] <= begun
                         /\ by[current[r]] = r
                         /\ told[current[r]] = "none"
                         /\ \A n \in Ids : by[n] = r => n <= current[r]

\* A call that is not answered is the one its resource works on.
PendingInv ==
  \A n \in Ids : n <= begun /\ told[n] = "none" => current[by[n]] = n

\* From LockWrites to Return a resource holds writeMu, and nobody else does.
LockInv ==
  \A r \in Resources :
    pc[r] \in {"send", "answer", "poll", "select", "log"} <=> writeMu = r

\* Nothing has been sent before Send, and a resource waits for the task of its
\* own call, which it is meant to wait for.
ServerInv ==
  \A r \in Resources :
    /\ pc[r] \in {"lock", "send"} => server[current[r]] = "none"
    /\ pc[r] \in {"poll", "select", "log"} =>
         /\ upid[r] = current[r]
         /\ server[current[r]] \in Jobs

IInv ==
  /\ TypeOK /\ NumberInv /\ CurrentInv /\ PendingInv /\ LockInv /\ ServerInv
  /\ SuccessIsReal /\ StateFollowsSuccess

-----------------------------------------------------------------------------
\* What the parts say of a busy resource, in one place.
LEMMA Busy ==
  ASSUME IInv, NEW r \in Resources, pc[r] # "idle"
  PROVE  /\ current[r] \in Ids
         /\ current[r] <= begun
         /\ by[current[r]] = r
         /\ told[current[r]] = "none"
         /\ \A n \in Ids : by[n] = r => n <= current[r]
  BY TaskAssumption DEF IInv, TypeOK, CurrentInv, Ids

\* Two resources never work on one call.
LEMMA OwnCall ==
  ASSUME IInv, NEW r \in Resources, NEW s \in Resources, r # s, pc[r] # "idle"
  PROVE  current[r] # current[s]
<1>1. CASE pc[s] = "idle"
  BY <1>1, Busy, TaskAssumption DEF IInv, CurrentInv, Ids
<1>2. CASE pc[s] # "idle"
  <2>1. by[current[r]] = r /\ by[current[s]] = s
    BY <1>2, Busy
  <2> QED BY <2>1
<1> QED BY <1>1, <1>2

\* The initial states satisfy the invariant.
LEMMA InitIInv == Init => IInv
  BY TaskAssumption DEF Init, IInv, TypeOK, NumberInv, CurrentInv, PendingInv, LockInv,
     ServerInv, SuccessIsReal, StateFollowsSuccess, Succeeded, Ids, PCs, Causes, Fates, Jobs

-----------------------------------------------------------------------------
\* Every action keeps the invariant.

\* A new operation gets the next number.
LEMMA BeginKeeps ==
  ASSUME IInv, NEW r \in Resources, Begin(r)
  PROVE  IInv'
<1> DEFINE n == begun + 1
<1> USE DEF IInv
<1>1. /\ n \in Ids
      /\ begun \in Nat
      /\ \A m \in Ids : m <= begun => m < n
      /\ \A m \in Ids : m <= n => m <= begun \/ m = n
      /\ \A m \in Ids : m > n => m > begun
      /\ by[n] = NoOne /\ told[n] = "none" /\ server[n] = "none" /\ n \notin cut
  BY TaskAssumption DEF Begin, TypeOK, Ids, NumberInv
<1>2. /\ begun' = n
      /\ by' = [by EXCEPT ![n] = r]
      /\ current' = [current EXCEPT ![r] = n]
      /\ pc[r] = "idle"
      /\ pc' = [pc EXCEPT ![r] = "lock"]
      /\ UNCHANGED <<writeMu, upid, expired, present, told, cut, bare, server>>
  BY DEF Begin
<1>3. PICK o \in Causes \ {"none"} : cause' = [cause EXCEPT ![n] = o]
  BY DEF Begin
<1> HIDE DEF n
<1>4. TypeOK'
  BY <1>1, <1>2, <1>3, TaskAssumption DEF TypeOK, PCs, Ids
<1>5. NumberInv'
  <2> SUFFICES ASSUME NEW m \in Ids
               PROVE  /\ m <= n => by'[m] \in Resources /\ cause'[m] # "none"
                      /\ m > n => /\ by'[m] = NoOne /\ told[m] = "none"
                                  /\ server[m] = "none" /\ m \notin cut
    BY <1>2 DEF NumberInv
  <2>1. CASE m = n
    BY <2>1, <1>1, <1>2, <1>3 DEF TypeOK, Ids
  <2>2. CASE m # n
    <3>1. by'[m] = by[m] /\ cause'[m] = cause[m]
      BY <2>2, <1>2, <1>3 DEF TypeOK
    <3> QED BY <2>2, <3>1, <1>1 DEF NumberInv
  <2> QED BY <2>1, <2>2
<1>6. CurrentInv'
  BY <1>1, <1>2, <1>3, TaskAssumption DEF TypeOK, NumberInv, CurrentInv, Ids
<1>7. PendingInv'
  <2> SUFFICES ASSUME NEW m \in Ids, m <= n, told[m] = "none"
               PROVE  current'[by'[m]] = m
    BY <1>2 DEF PendingInv
  <2>1. CASE m = n
    BY <2>1, <1>2 DEF TypeOK
  <2>2. CASE m # n
    <3>1. by'[m] = by[m] /\ by[m] \in Resources /\ current[by[m]] = m
      BY <2>2, <1>1, <1>2 DEF TypeOK, NumberInv, PendingInv
    <3>2. by[m] # r
      BY <3>1, <1>2, TaskAssumption DEF CurrentInv, Ids
    <3> QED BY <3>1, <3>2, <1>2 DEF TypeOK
  <2> QED BY <2>1, <2>2
<1>8. LockInv'
  BY <1>2 DEF TypeOK, LockInv
<1>9. ServerInv'
  BY <1>1, <1>2 DEF TypeOK, ServerInv
<1>10. SuccessIsReal'
  BY <1>1, <1>2, <1>3 DEF TypeOK, SuccessIsReal, Awaited
<1>11. StateFollowsSuccess'
  BY <1>1, <1>2, <1>3, TaskAssumption DEF TypeOK, StateFollowsSuccess, Succeeded
<1> QED BY <1>4, <1>5, <1>6, <1>7, <1>8, <1>9, <1>10, <1>11

\* The end of an operation. What it reports must be what the server made of the
\* call, unless nobody was to wait or the response broke off.
LEMMA ReturnKeeps ==
  ASSUME IInv, NEW r \in Resources, NEW answer \in {"ok", "error"},
         pc[r] # "idle",
         Return(r, answer),
         UNCHANGED <<bare, server>>,
         cut' \in {cut, cut \cup {current[r]}},
         answer = "ok" /\ Awaited(current[r]) /\ current[r] \notin cut' =>
           server[current[r]] \in {"ok", "applied"}
  PROVE  IInv'
<1> DEFINE n == current[r]
<1> USE DEF IInv
<1>1. /\ n \in Ids
      /\ n <= begun
      /\ by[n] = r
      /\ told[n] = "none"
      /\ \A m \in Ids : by[m] = r => m <= n
  BY Busy
<1>2. /\ pc' = [pc EXCEPT ![r] = "idle"]
      /\ current' = [current EXCEPT ![r] = 0]
      /\ upid' = [upid EXCEPT ![r] = 0]
      /\ expired' = [expired EXCEPT ![r] = FALSE]
      /\ writeMu' = IF writeMu = r THEN NoOne ELSE writeMu
      /\ told' = [told EXCEPT ![n] = answer]
      /\ present' = IF answer = "ok" THEN [present EXCEPT ![r] = cause[n] # "destroy"]
                    ELSE present
      /\ begun' = begun /\ by' = by /\ cause' = cause /\ bare' = bare /\ server' = server
  BY DEF Return, callVars
<1>3. \A m \in Ids \ {n} : m \in cut' <=> m \in cut
  OBVIOUS
<1> HIDE DEF n
<1>4. TypeOK'
  BY <1>1, <1>2, TaskAssumption DEF TypeOK, PCs, Ids, n
<1>5. NumberInv'
  BY <1>1, <1>2, <1>3, TaskAssumption DEF TypeOK, NumberInv, Ids
<1>6. CurrentInv'
  <2> SUFFICES ASSUME NEW s \in Resources, s # r
               PROVE  /\ pc[s] = "idle" <=> current[s] = 0
                      /\ pc[s] # "idle" => /\ current[s] <= begun
                                           /\ by[current[s]] = s
                                           /\ told'[current[s]] = "none"
                                           /\ \A m \in Ids : by[m] = s => m <= current[s]
    BY <1>2 DEF TypeOK, CurrentInv
  <2>1. pc[s] # "idle" => told'[current[s]] = told[current[s]]
    BY <1>1, <1>2, Busy DEF TypeOK
  <2> QED BY <2>1 DEF CurrentInv
<1>7. PendingInv'
  <2> SUFFICES ASSUME NEW m \in Ids, m <= begun, told'[m] = "none"
               PROVE  current'[by[m]] = m
    BY <1>2 DEF PendingInv
  <2>1. m # n /\ told[m] = "none"
    BY <1>1, <1>2 DEF TypeOK
  <2>2. current[by[m]] = m /\ by[m] \in Resources
    BY <2>1 DEF PendingInv, NumberInv
  <2>3. by[m] # r
    BY <2>1, <2>2 DEF n
  <2> QED BY <2>2, <2>3, <1>2 DEF TypeOK
<1>8. LockInv'
  BY <1>2, TaskAssumption DEF TypeOK, LockInv
<1>9. ServerInv'
  BY <1>2 DEF TypeOK, ServerInv
<1>10. SuccessIsReal'
  <2> SUFFICES ASSUME NEW m \in Ids, told'[m] = "ok", Awaited(m), m \notin cut'
               PROVE  server[m] \in {"ok", "applied"}
    BY <1>2 DEF SuccessIsReal, Awaited
  <2>1. CASE m = n
    <3>1. answer = "ok"
      BY <2>1, <1>1, <1>2 DEF TypeOK
    <3> QED BY <2>1, <3>1 DEF n
  <2>2. CASE m # n
    BY <2>2, <1>2, <1>3 DEF TypeOK, SuccessIsReal
  <2> QED BY <2>1, <2>2
<1>11. StateFollowsSuccess'
  <2>1. CASE answer = "error"
    <3>1. \A s \in Resources : Succeeded(s)' = Succeeded(s)
      BY <2>1, <1>1, <1>2 DEF TypeOK, Succeeded
    <3> QED BY <2>1, <3>1, <1>2, TaskAssumption DEF StateFollowsSuccess
  <2>2. CASE answer = "ok"
    <3>1. Succeeded(r)' = Succeeded(r) \cup {n}
      BY <2>2, <1>1, <1>2 DEF TypeOK, Succeeded
    <3>2. \A s \in Resources \ {r} : Succeeded(s)' = Succeeded(s)
      BY <2>2, <1>1, <1>2 DEF TypeOK, Succeeded
    <3>3. \A m \in Succeeded(r)' : m <= n /\ m \in Nat
      BY <3>1, <1>1, TaskAssumption DEF Succeeded, Ids
    <3>4. present'[r] <=> \E k \in Succeeded(r)' :
                            /\ cause'[k] # "destroy"
                            /\ \A m \in Succeeded(r)' : m <= k
      <4>1. present'[r] <=> cause[n] # "destroy"
        BY <2>2, <1>2 DEF TypeOK
      <4>2. n \in Succeeded(r)' /\ \A m \in Succeeded(r)' : m <= n
        BY <3>1, <3>3
      <4>3. \A k \in Succeeded(r)' : n <= k => k = n
        BY <4>2, <3>3
      <4> QED BY <4>1, <4>2, <4>3, <1>2
    <3>5. \A s \in Resources \ {r} : present'[s] = present[s]
      BY <1>2 DEF TypeOK
    <3> QED BY <3>2, <3>4, <3>5, <1>2, TaskAssumption DEF StateFollowsSuccess
  <2> QED BY <2>1, <2>2
<1> QED BY <1>4, <1>5, <1>6, <1>7, <1>8, <1>9, <1>10, <1>11

\* Forgetting a resource without an inverse touches its presence alone.
LEMMA ForgetKeeps ==
  ASSUME IInv, NEW r \in Resources, Forget(r)
  PROVE  IInv'
<1> USE TaskAssumption DEF IInv, Forget, runVars, callVars
<1>1. TypeOK'
  BY DEF TypeOK
<1>2. NumberInv' /\ CurrentInv' /\ PendingInv' /\ LockInv' /\ ServerInv'
  BY DEF NumberInv, CurrentInv, PendingInv, LockInv, ServerInv
<1>3. SuccessIsReal'
  BY DEF SuccessIsReal, Awaited
<1>4. StateFollowsSuccess'
  BY DEF TypeOK, StateFollowsSuccess, Succeeded
<1> QED BY <1>1, <1>2, <1>3, <1>4

\* A step of a busy resource that only moves it on keeps the parts that do not
\* look at where it stands.
LEMMA MoveKeeps ==
  ASSUME IInv, NEW r \in Resources, NEW p \in PCs \ {"idle"},
         pc[r] # "idle",
         pc' = [pc EXCEPT ![r] = p],
         UNCHANGED <<current, present, callVars, told, cut, server>>
  PROVE  NumberInv' /\ CurrentInv' /\ PendingInv' /\ SuccessIsReal' /\ StateFollowsSuccess'
<1> USE DEF IInv, callVars
<1>1. NumberInv' /\ PendingInv'
  BY DEF NumberInv, PendingInv
<1>2. CurrentInv'
  BY DEF TypeOK, CurrentInv
<1>3. SuccessIsReal' /\ StateFollowsSuccess'
  BY DEF SuccessIsReal, Awaited, StateFollowsSuccess, Succeeded
<1> QED BY <1>1, <1>2, <1>3

\* Taking writeMu.
LEMMA LockKeeps ==
  ASSUME IInv, NEW r \in Resources, LockWrites(r)
  PROVE  IInv'
<1> USE DEF IInv, LockWrites, callVars
<1>1. TypeOK'
  <2>1. pc' \in [Resources -> PCs]
    BY DEF TypeOK, PCs
  <2>2. \A s \in Resources : pc'[s] \in {"poll", "select", "log"} => upid[s] \in Ids
    BY DEF TypeOK
  <2> QED BY <2>1, <2>2 DEF TypeOK
<1>2. NumberInv' /\ CurrentInv' /\ PendingInv' /\ SuccessIsReal' /\ StateFollowsSuccess'
  BY MoveKeeps DEF PCs
<1>3. LockInv'
  BY TaskAssumption DEF TypeOK, LockInv
<1>4. ServerInv'
  BY DEF TypeOK, ServerInv
<1> QED BY <1>1, <1>2, <1>3, <1>4

\* Sending the request is what takes its call from "none" to "sent".
LEMMA SendKeeps ==
  ASSUME IInv, NEW r \in Resources, Send(r)
  PROVE  IInv'
<1> DEFINE n == current[r]
<1> USE DEF IInv
<1>1. /\ n \in Ids
      /\ n <= begun
      /\ told[n] = "none"
      /\ \A s \in Resources \ {r} : pc[s] # "idle" => current[s] # n
  BY Busy, OwnCall DEF Send
<1>2. /\ pc[r] = "send"
      /\ pc' = [pc EXCEPT ![r] = "answer"]
      /\ server' = [server EXCEPT ![n] = "sent"]
      /\ bare' \in {bare, bare \cup {n}}
      /\ UNCHANGED <<writeMu, current, upid, expired, present, callVars, told, cut>>
  BY DEF Send
<1> HIDE DEF n
<1> USE DEF callVars
<1>3. TypeOK'
  <2>1. pc' \in [Resources -> PCs]
    BY <1>2 DEF TypeOK, PCs
  <2>2. \A s \in Resources : pc'[s] \in {"poll", "select", "log"} => upid[s] \in Ids
    BY <1>2 DEF TypeOK
  <2>3. server' \in [Ids -> Fates] /\ bare' \subseteq Ids
    BY <1>1, <1>2 DEF TypeOK, Fates
  <2> QED BY <2>1, <2>2, <2>3, <1>2 DEF TypeOK
<1>4. NumberInv'
  BY <1>1, <1>2 DEF TypeOK, NumberInv, Ids
<1>5. CurrentInv' /\ PendingInv'
  BY <1>2 DEF TypeOK, CurrentInv, PendingInv
<1>6. LockInv'
  BY <1>2 DEF TypeOK, LockInv
<1>7. ServerInv'
  BY <1>1, <1>2 DEF TypeOK, ServerInv, n
<1>8. SuccessIsReal' /\ StateFollowsSuccess'
  BY <1>1, <1>2 DEF TypeOK, SuccessIsReal, Awaited, StateFollowsSuccess, Succeeded
<1> QED BY <1>3, <1>4, <1>5, <1>6, <1>7, <1>8

\* A resource moves between the response and the places of TaskWait, where it
\* waits for the task of its own call.
LEMMA WaitKeeps ==
  ASSUME IInv, NEW r \in Resources, NEW p \in {"poll", "select", "log"},
         pc[r] \in {"answer", "poll", "select", "log"},
         pc' = [pc EXCEPT ![r] = p],
         upid' = [upid EXCEPT ![r] = current[r]],
         server[current[r]] \in Jobs,
         UNCHANGED <<writeMu, current, expired, present, callVars, told, cut, bare, server>>
  PROVE  IInv'
<1> USE DEF IInv, callVars
<1>1. TypeOK'
  <2>1. pc' \in [Resources -> PCs]
    BY DEF TypeOK, PCs
  <2>2. upid' \in [Resources -> 0..MaxCalls]
    BY DEF TypeOK
  <2>3. \A s \in Resources : pc'[s] \in {"poll", "select", "log"} => upid'[s] \in Ids
    BY Busy DEF TypeOK
  <2> QED BY <2>1, <2>2, <2>3 DEF TypeOK
<1>2. NumberInv' /\ CurrentInv' /\ PendingInv' /\ SuccessIsReal' /\ StateFollowsSuccess'
  BY MoveKeeps DEF PCs
<1>3. LockInv'
  BY DEF TypeOK, LockInv
<1>4. ServerInv'
  BY DEF TypeOK, ServerInv
<1> QED BY <1>1, <1>2, <1>3, <1>4

\* While a resource waits, upid is its call's already.
LEMMA WaitMoveKeeps ==
  ASSUME IInv, NEW r \in Resources, NEW p \in {"poll", "select", "log"},
         pc[r] \in {"poll", "select", "log"},
         pc' = [pc EXCEPT ![r] = p],
         UNCHANGED <<writeMu, current, upid, expired, present, callVars, told, cut, bare, server>>
  PROVE  IInv'
<1>1. upid[r] = current[r] /\ server[current[r]] \in Jobs
  BY DEF IInv, ServerInv
<1>2. upid' = [upid EXCEPT ![r] = current[r]]
  BY <1>1 DEF IInv, TypeOK
<1> QED BY <1>1, <1>2, WaitKeeps

\* The answer to the call, however it comes.
LEMMA AnswerKeeps ==
  ASSUME IInv, NEW r \in Resources,
         Reject(r) \/ Receive(r) \/ ReceiveCut(r) \/ ReceiveError(r)
  PROVE  IInv'
<1>1. CASE Reject(r) \/ ReceiveError(r)
  BY <1>1, ReturnKeeps DEF Reject, ReceiveError
<1>2. CASE ReceiveCut(r)
  BY <1>2, ReturnKeeps DEF ReceiveCut
<1>3. CASE Receive(r)
  <2>1. pc[r] = "answer" /\ UNCHANGED <<cut, bare, server>>
    BY <1>3 DEF Receive
  <2>2. CASE Return(r, "ok") /\ (server[current[r]] = "applied" \/ ~Awaited(current[r]))
    BY <2>1, <2>2, ReturnKeeps
  <2>3. CASE /\ server[current[r]] \in Jobs
             /\ pc' = [pc EXCEPT ![r] = "poll"]
             /\ upid' = [upid EXCEPT ![r] = current[r]]
             /\ UNCHANGED <<writeMu, current, expired, present, callVars, told>>
    BY <2>1, <2>3, WaitKeeps
  <2> QED BY <1>3, <2>2, <2>3 DEF Receive
<1> QED BY <1>1, <1>2, <1>3

\* The turns of TaskWait.
LEMMA TurnKeeps ==
  ASSUME IInv, NEW r \in Resources, Poll(r) \/ Select(r) \/ LogTail(r)
  PROVE  IInv'
<1>1. CASE Poll(r)
  <2>1. pc[r] = "poll" /\ UNCHANGED <<cut, bare, server>>
    BY <1>1 DEF Poll
  <2>2. CASE server[upid[r]] = "ok" /\ Return(r, "ok")
    <3>1. server[current[r]] = "ok"
      BY <2>1, <2>2 DEF IInv, ServerInv
    <3> QED BY <2>1, <2>2, <3>1, ReturnKeeps
  <2>3. CASE /\ pc' \in {[pc EXCEPT ![r] = "log"], [pc EXCEPT ![r] = "select"]}
             /\ UNCHANGED <<writeMu, current, upid, expired, present, callVars, told>>
    BY <2>1, <2>3, WaitMoveKeeps
  <2> QED BY <1>1, <2>2, <2>3 DEF Poll
<1>2. CASE Select(r)
  BY <1>2, WaitMoveKeeps DEF Select
<1>3. CASE LogTail(r)
  BY <1>3, ReturnKeeps DEF LogTail
<1> QED BY <1>1, <1>2, <1>3

\* The deadline passes.
LEMMA ExpireKeeps ==
  ASSUME IInv, NEW r \in Resources, Expire(r)
  PROVE  IInv'
<1> USE DEF IInv, Expire, callVars
<1>1. TypeOK'
  BY DEF TypeOK
<1>2. NumberInv' /\ CurrentInv' /\ PendingInv' /\ LockInv' /\ ServerInv'
  BY DEF NumberInv, CurrentInv, PendingInv, LockInv, ServerInv
<1>3. SuccessIsReal' /\ StateFollowsSuccess'
  BY DEF SuccessIsReal, Awaited, StateFollowsSuccess, Succeeded
<1> QED BY <1>1, <1>2, <1>3

\* The server takes a call or ends a task: neither touches what is settled.
LEMMA ServerKeeps ==
  ASSUME IInv, NEW n \in Ids, ServerTake(n) \/ ServerFinish(n)
  PROVE  IInv'
<1> USE DEF IInv, runVars, callVars
<1>1. PICK f \in Fates \ {"none", "sent"} :
        /\ server[n] \in {"sent", "running"}
        /\ server[n] = "running" => f \in Jobs
        /\ server' = [server EXCEPT ![n] = f]
  BY DEF ServerTake, ServerFinish, Fates, Jobs
<1>2. UNCHANGED <<writeMu, runVars, present, callVars, told, cut, bare>>
  BY DEF ServerTake, ServerFinish
<1>3. TypeOK'
  BY <1>1, <1>2 DEF TypeOK
<1>4. NumberInv' /\ CurrentInv' /\ PendingInv' /\ LockInv'
  BY <1>1, <1>2 DEF TypeOK, NumberInv, CurrentInv, PendingInv, LockInv
<1>5. ServerInv'
  BY <1>1, <1>2 DEF TypeOK, ServerInv, Jobs
<1>6. SuccessIsReal' /\ StateFollowsSuccess'
  BY <1>1, <1>2 DEF TypeOK, SuccessIsReal, Awaited, StateFollowsSuccess, Succeeded
<1> QED BY <1>3, <1>4, <1>5, <1>6

\* Steps that change nothing.
LEMMA StutterKeeps ==
  ASSUME IInv, UNCHANGED vars
  PROVE  IInv'
<1> USE DEF IInv, vars, runVars, callVars
<1>1. TypeOK' /\ NumberInv' /\ CurrentInv' /\ PendingInv' /\ LockInv' /\ ServerInv'
  BY DEF TypeOK, NumberInv, CurrentInv, PendingInv, LockInv, ServerInv
<1>2. SuccessIsReal' /\ StateFollowsSuccess'
  BY DEF SuccessIsReal, Awaited, StateFollowsSuccess, Succeeded
<1> QED BY <1>1, <1>2

-----------------------------------------------------------------------------
\* The inductive invariant holds in every reachable state.
THEOREM InvariantHolds == Spec => []IInv
<1>1. ASSUME IInv, [Next]_vars PROVE IInv'
  <2> USE <1>1
  <2>1. CASE \E r \in Resources : Begin(r) \/ Forget(r) \/ LockWrites(r)
    BY <2>1, BeginKeeps, ForgetKeeps, LockKeeps
  <2>2. CASE \E r \in Resources : Reject(r) \/ Step(r) \/ Expire(r)
    BY <2>2, SendKeeps, AnswerKeeps, TurnKeeps, ExpireKeeps DEF Step
  <2>3. CASE \E n \in Ids : ServerTake(n) \/ ServerFinish(n)
    BY <2>3, ServerKeeps
  <2>4. CASE UNCHANGED vars
    BY <2>4, StutterKeeps
  <2> QED BY <2>1, <2>2, <2>3, <2>4 DEF Next, Quiet
<1> QED BY <1>1, InitIInv, PTL DEF Spec

\* The variables keep their types; a poll or a log request names a task
\* (task_resource.go:162-180).
THEOREM TypeCorrect == Spec => []TypeOK
  BY InvariantHolds, PTL DEF IInv

\* Success of an awaited operation is the server's success, unless the response
\* that named the task broke off (task_resource.go:162-184).
THEOREM SuccessReal == Spec => []SuccessIsReal
  BY InvariantHolds, PTL DEF IInv

\* Failed, timed out and repeated operations never lose or resurrect a resource
\* with an inverse (task_resource.go:211-264).
THEOREM StateFollows == Spec => []StateFollowsSuccess
  BY InvariantHolds, PTL DEF IInv

\* Two tasks run at a time only after the wait for one was given up: writeMu
\* covers the call and the wait (task_resource.go:143-144).
THEOREM OverlapOnlyAfter == Spec => []OverlapOnlyAfterGivingUp
<1>1. ASSUME IInv PROVE OverlapOnlyAfterGivingUp
  <2> SUFFICES ASSUME NEW m \in Ids, NEW n \in Ids, m # n,
                      server[m] = "running", server[n] = "running",
                      ~GaveUp(m), ~GaveUp(n)
               PROVE  FALSE
    BY DEF OverlapOnlyAfterGivingUp
  <2> USE <1>1 DEF IInv
  <2>1. \A k \in {m, n} : k \in Ids /\ told[k] = "none"
    BY DEF TypeOK, GaveUp, SuccessIsReal
  <2>2. \A k \in {m, n} : k <= begun /\ by[k] \in Resources /\ current[by[k]] = k
    BY <2>1 DEF TypeOK, NumberInv, PendingInv, Ids
  <2>3. \A k \in {m, n} : pc[by[k]] \notin {"idle", "lock", "send"}
    BY <2>1, <2>2, TaskAssumption DEF CurrentInv, ServerInv, Ids
  <2>4. \A k \in {m, n} : writeMu = by[k]
    BY <2>2, <2>3 DEF TypeOK, PCs, LockInv
  <2> QED BY <2>2, <2>4
<1> QED BY <1>1, InvariantHolds, PTL

-----------------------------------------------------------------------------
\* The deadline.

\* A context that is done belongs to an operation in TaskWait.
ExpiredInv == \A r \in Resources : expired[r] => pc[r] \in {"poll", "select", "log"}

\* What one step can do to a resource in TaskWait whose context is done.
LEMMA ExpiredMoves ==
  ASSUME IInv, ExpiredInv, [Next]_vars, NEW r \in Resources, expired[r], pc'[r] # pc[r]
  PROVE  \/ pc[r] = "poll" /\ pc'[r] \in {"select", "log", "idle"}
         \/ pc[r] = "select" /\ pc'[r] = "log"
         \/ pc[r] = "log" /\ pc'[r] = "idle"
<1>1. pc[r] \in {"poll", "select", "log"}
  BY DEF ExpiredInv
<1>2. Poll(r) \/ Select(r) \/ LogTail(r)
  BY <1>1 DEF Next, Step, Begin, Forget, Reject, LockWrites, Send, Receive, ReceiveCut,
     ReceiveError, Poll, Select, LogTail, Expire, Return, ServerTake, ServerFinish, Quiet,
     vars, runVars, IInv, TypeOK
<1> QED BY <1>1, <1>2 DEF Poll, Select, LogTail, Return, IInv, TypeOK

\* Only the wait can run out, and its end resets expired.
LEMMA ExpiredKeeps ==
  ASSUME IInv, ExpiredInv, [Next]_vars
  PROVE  ExpiredInv'
<1> SUFFICES ASSUME NEW r \in Resources, expired'[r]
             PROVE  pc'[r] \in {"poll", "select", "log"}
  BY DEF ExpiredInv
<1>1. CASE ~expired[r]
  <2>1. Expire(r)
    BY <1>1 DEF Next, Step, Begin, Forget, Reject, LockWrites, Send, Receive, ReceiveCut,
       ReceiveError, Poll, Select, LogTail, Expire, Return, ServerTake, ServerFinish, Quiet,
       vars, runVars, IInv, TypeOK
  <2> QED BY <2>1 DEF Expire
<1>2. CASE expired[r] /\ pc'[r] # pc[r]
  <2>1. pc'[r] # "idle"
    BY <1>2 DEF Next, Step, Begin, Forget, Reject, LockWrites, Send, Receive, ReceiveCut,
       ReceiveError, Poll, Select, LogTail, Expire, Return, ServerTake, ServerFinish, Quiet,
       vars, runVars, IInv, TypeOK
  <2> QED BY <1>2, <2>1, ExpiredMoves
<1>3. CASE expired[r] /\ pc'[r] = pc[r]
  BY <1>3 DEF ExpiredInv
<1> QED BY <1>1, <1>2, <1>3

\* A wait whose context is done ends with the poll under way (task.go:61-86).
THEOREM DeadlineIsBinding == Spec => DeadlineBinds
<1> DEFINE A == \A r \in Resources : expired[r] =>
                  /\ pc'[r] # pc[r] => TurnsLeft(r)' < TurnsLeft(r)
                  /\ pc'[r] = "idle" <=> writeMu' # r
<1>1. ASSUME IInv, IInv', ExpiredInv, [Next]_vars PROVE A
  <2> SUFFICES ASSUME NEW r \in Resources, expired[r]
               PROVE  /\ pc'[r] # pc[r] => TurnsLeft(r)' < TurnsLeft(r)
                      /\ pc'[r] = "idle" <=> writeMu' # r
    OBVIOUS
  <2>1. pc'[r] # pc[r] => TurnsLeft(r)' < TurnsLeft(r)
    BY <1>1, ExpiredMoves DEF TurnsLeft
  <2>2. pc'[r] \in {"poll", "select", "log", "idle"}
    BY <1>1, ExpiredMoves DEF ExpiredInv
  <2>3. pc'[r] = "idle" <=> writeMu' # r
    BY <1>1, <2>2 DEF IInv, LockInv
  <2> QED BY <2>1, <2>3
<1>2. Init => ExpiredInv
  BY DEF Init, ExpiredInv
<1>3. IInv /\ ExpiredInv /\ [Next]_vars => ExpiredInv'
  BY ExpiredKeeps
<1>4. IInv /\ IInv' /\ ExpiredInv /\ [Next]_vars => [A]_vars
  BY <1>1
<1> QED BY <1>2, <1>3, <1>4, InvariantHolds, PTL DEF Spec, DeadlineBinds
=============================================================================
