--------------------------- MODULE SessionProofs ---------------------------
(***************************************************************************)
(* Session holds its invariants for any set of concurrent calls, in ticket *)
(* and in token mode, and implements CallOnce.                             *)
(***************************************************************************)
EXTENDS Session, TLAPS

-----------------------------------------------------------------------------
\* The inductive invariant.

Holding == {"login", "awaitLogin", "send", "awaitApi"}

\* In ticket mode exactly the call between Lock and Return holds Client.mu; in
\* token mode nobody does, and no call goes through login.
LockInv ==
  IF usingToken
  THEN /\ mu = NoCall
       /\ \A c \in Calls : pc[c] \in {"idle", "send", "awaitApi", "done"}
  ELSE \A c \in Calls : pc[c] \in Holding <=> mu = c

\* The cached credentials come from one login, and a call that is about to
\* send has some, while a call that logs in has none.
TicketInv ==
  /\ ticket = csrf
  /\ ticket \in 0..issued
  /\ ~usingToken => \A c \in Calls : pc[c] = "send" => ticket # 0
  /\ \A c \in Calls : pc[c] \in {"login", "awaitLogin"} => ticket = 0

\* What can be in flight where a call stands.
WireInv ==
  \A c \in Calls :
    /\ pc[c] \in {"idle", "lock", "login", "send"} => wire[c].kind = "none"
    /\ pc[c] = "awaitLogin" => wire[c].kind \in {"loginReq", "loginRep"}
    /\ pc[c] = "awaitApi" => wire[c].kind \in {"apiReq", "apiRep"}
    /\ pc[c] = "done" => wire[c].kind \in {"none", "loginReq", "apiReq"}

\* What a message in flight says about the credentials.
MessageInv ==
  \A c \in Calls :
    /\ wire[c].kind = "loginRep" /\ wire[c].status = "ok" =>
         /\ wire[c].ticket \in 1..issued
         /\ wire[c].csrf = wire[c].ticket
    /\ wire[c].kind = "loginRep" => wire[c].status \in LoginRefusals \cup {"ok"}
    /\ wire[c].kind = "apiRep" =>
         wire[c].status \in {"ok", "notfound", "unauthorized", "failed"}
    /\ ~usingToken /\ wire[c].kind = "apiReq" =>
         /\ wire[c].ticket # 0
         /\ pc[c] = "awaitApi" => wire[c].ticket = ticket
         /\ c \in Writes => wire[c].csrf = wire[c].ticket
    /\ ~usingToken /\ wire[c].kind = "apiRep" /\ wire[c].status = "unauthorized" =>
         ticket \notin live

\* Requests are numbered in order, and the first was refused before the second
\* is prepared.
TriesInv ==
  \A c \in Calls :
    /\ pc[c] \in {"idle", "lock"} => tries[c] = 0
    /\ pc[c] \in {"login", "awaitLogin", "send"} => tries[c] \in {0, 1}
    /\ wire[c].kind \in {"apiReq", "apiRep"} => tries[c] \in {1, 2}
    /\ executed[c] \subseteq {tries[c]}

\* What has been carried out where a call stands and what its reply says.
EffectInv ==
  \A c \in Calls :
    /\ pc[c] \in {"idle", "lock", "login", "awaitLogin", "send"} => executed[c] = {}
    /\ wire[c].kind = "apiReq" => executed[c] = {}
    /\ wire[c].kind = "apiRep" /\ wire[c].status = "ok" => executed[c] # {}
    /\ wire[c].kind = "apiRep" /\ wire[c].status \in {"notfound", "unauthorized"} =>
         executed[c] = {}

\* A call has an answer exactly when it has returned, and an abandoned request
\* belongs to a call that was told nothing definite.
ResultInv ==
  \A c \in Calls :
    /\ pc[c] = "done" <=> result[c] # "none"
    /\ pc[c] = "done" /\ wire[c].kind = "apiReq" => result[c] = "opaque"
    /\ result[c] = "ok" => executed[c] # {}
    /\ result[c] \in {"notfound", "unauthorized"} => executed[c] = {}

IInv ==
  /\ TypeOK /\ LockInv /\ TicketInv /\ WireInv
  /\ MessageInv /\ TriesInv /\ EffectInv /\ ResultInv

-----------------------------------------------------------------------------
\* Messages built from typed parts are messages.
LEMMA MessageType ==
  ASSUME NEW k \in Kinds, NEW t \in Nat, NEW x \in Nat, NEW s \in Statuses
  PROVE  Message(k, t, x, s) \in Messages
  BY DEF Message, Messages

\* The initial states satisfy the invariant.
LEMMA InitIInv == Init => IInv
  BY SessionAssumption DEF Init, IInv, TypeOK, LockInv, TicketInv, WireInv, MessageInv,
     TriesInv, EffectInv, ResultInv, Nothing, Message, Messages, Kinds, Statuses, PCs,
     Holding, LoginRefusals

-----------------------------------------------------------------------------
\* Every action keeps the invariant: one lemma per action.

\* A call enters do().
LEMMA CallKeeps ==
  ASSUME IInv, NEW c \in Calls, Call(c)
  PROVE  IInv'
<1> USE SessionAssumption DEF IInv, clientVars, callVars, serverVars
<1>1. TypeOK'
  BY DEF Call, TypeOK, PCs, Messages, Statuses, Kinds, LoginRefusals
<1>2. LockInv'
  BY DEF Call, TypeOK, LockInv, Holding
<1>3. TicketInv'
  BY DEF Call, TypeOK, TicketInv, LockInv, Holding
<1>4. WireInv'
  BY DEF Call, TypeOK, WireInv
<1>5. MessageInv'
  BY DEF Call, TypeOK, WireInv, MessageInv, TicketInv, LockInv, Holding, LoginRefusals
<1>6. TriesInv'
  BY DEF Call, TypeOK, WireInv, EffectInv, TriesInv
<1>7. EffectInv'
  BY DEF Call, TypeOK, WireInv, TriesInv, EffectInv
<1>8. ResultInv'
  BY DEF Call, TypeOK, WireInv, MessageInv, EffectInv, ResultInv, LoginRefusals
<1> QED BY <1>1, <1>2, <1>3, <1>4, <1>5, <1>6, <1>7, <1>8

\* A call takes Client.mu.
LEMMA LockKeeps ==
  ASSUME IInv, NEW c \in Calls, Lock(c)
  PROVE  IInv'
<1> USE SessionAssumption DEF IInv, clientVars, callVars, serverVars
<1>1. TypeOK'
  BY DEF Lock, TypeOK, PCs, Messages, Statuses, Kinds, LoginRefusals
<1>2. LockInv'
  BY DEF Lock, TypeOK, LockInv, Holding
<1>3. TicketInv'
  BY DEF Lock, TypeOK, TicketInv, LockInv, Holding
<1>4. WireInv'
  BY DEF Lock, TypeOK, WireInv
<1>5. MessageInv'
  BY DEF Lock, TypeOK, WireInv, MessageInv, TicketInv, LockInv, Holding, LoginRefusals
<1>6. TriesInv'
  BY DEF Lock, TypeOK, WireInv, EffectInv, TriesInv
<1>7. EffectInv'
  BY DEF Lock, TypeOK, WireInv, TriesInv, EffectInv
<1>8. ResultInv'
  BY DEF Lock, TypeOK, WireInv, MessageInv, EffectInv, ResultInv, LoginRefusals
<1> QED BY <1>1, <1>2, <1>3, <1>4, <1>5, <1>6, <1>7, <1>8

\* login() posts its form.
LEMMA SendLoginKeeps ==
  ASSUME IInv, NEW c \in Calls, SendLogin(c)
  PROVE  IInv'
<1> USE SessionAssumption DEF IInv, clientVars, callVars, serverVars
<1>1. TypeOK'
  BY DEF SendLogin, Message, TypeOK, PCs, Messages, Statuses, Kinds, LoginRefusals
<1>2. LockInv'
  BY DEF SendLogin, Message, TypeOK, LockInv, Holding
<1>3. TicketInv'
  BY DEF SendLogin, Message, TypeOK, TicketInv, LockInv, Holding
<1>4. WireInv'
  BY DEF SendLogin, Message, TypeOK, WireInv
<1>5. MessageInv'
  BY DEF SendLogin, Message, TypeOK, WireInv, MessageInv, TicketInv, LockInv, Holding,
     LoginRefusals
<1>6. TriesInv'
  BY DEF SendLogin, Message, TypeOK, WireInv, EffectInv, TriesInv
<1>7. EffectInv'
  BY DEF SendLogin, Message, TypeOK, WireInv, TriesInv, EffectInv
<1>8. ResultInv'
  BY DEF SendLogin, Message, TypeOK, WireInv, MessageInv, EffectInv, ResultInv,
     LoginRefusals
<1> QED BY <1>1, <1>2, <1>3, <1>4, <1>5, <1>6, <1>7, <1>8

\* login() reads the response: no other call can be using the old ticket.
LEMMA RecvLoginKeeps ==
  ASSUME IInv, NEW c \in Calls, RecvLogin(c)
  PROVE  IInv'
<1> USE SessionAssumption DEF IInv, clientVars, callVars, serverVars
<1>1. TypeOK'
  BY DEF RecvLogin, Return, Nothing, Message, TypeOK, PCs, Messages, Statuses, Kinds,
     LoginRefusals
<1>2. LockInv'
  BY DEF RecvLogin, Return, Nothing, Message, TypeOK, LockInv, Holding
<1>3. TicketInv' /\ MessageInv'
  <2>1. CASE wire[c].status # "ok"
    BY <2>1 DEF RecvLogin, Return, TypeOK, TicketInv, MessageInv, Nothing, Message, LockInv, Holding
  <2>2. CASE wire[c].status = "ok"
    <3>1. /\ ticket' = wire[c].ticket /\ csrf' = ticket'
          /\ ticket' \in 1..issued
          /\ pc' = [pc EXCEPT ![c] = "send"]
          /\ wire' = [wire EXCEPT ![c] = Nothing]
          /\ UNCHANGED <<usingToken, issued, live>>
      BY <2>2 DEF RecvLogin, MessageInv
    <3>2. \A d \in Calls : d # c => pc[d] \notin Holding
      BY <2>2 DEF RecvLogin, LockInv, Holding
    <3>3. \A d \in Calls : d # c => wire[d].kind # "apiRep"
      BY <3>2 DEF WireInv, Holding, TypeOK, PCs
    <3>4. TicketInv'
      BY <3>1, <3>2 DEF TicketInv, Holding, TypeOK
    <3>5. MessageInv'
      BY <3>1, <3>2, <3>3 DEF MessageInv, Nothing, Message, Holding, TypeOK
    <3> QED BY <3>4, <3>5
  <2> QED BY <2>1, <2>2
<1>4. WireInv'
  BY DEF RecvLogin, Return, Nothing, Message, TypeOK, WireInv
<1>6. TriesInv'
  BY DEF RecvLogin, Return, Nothing, Message, TypeOK, WireInv, EffectInv, TriesInv
<1>7. EffectInv'
  BY DEF RecvLogin, Return, Nothing, Message, TypeOK, WireInv, TriesInv, EffectInv
<1>8. ResultInv'
  BY DEF RecvLogin, Return, Nothing, Message, TypeOK, WireInv, MessageInv, EffectInv,
     ResultInv, LoginRefusals
<1> QED BY <1>1, <1>2, <1>3, <1>4, <1>6, <1>7, <1>8

\* attempt() sends the request with the cached credentials.
LEMMA SendApiKeeps ==
  ASSUME IInv, NEW c \in Calls, SendApi(c)
  PROVE  IInv'
<1> USE SessionAssumption DEF IInv, clientVars, callVars, serverVars
<1>1. TypeOK'
  <2>1. Message("apiReq", ticket, IF c \in Writes THEN csrf ELSE 0, "none") \in Messages
    BY MessageType DEF TypeOK, Kinds, Statuses
  <2> QED BY <2>1 DEF SendApi, TypeOK, TriesInv, PCs
<1>2. LockInv'
  BY DEF SendApi, Message, TypeOK, LockInv, Holding
<1>3. TicketInv'
  BY DEF SendApi, Message, TypeOK, TicketInv, LockInv, Holding
<1>4. WireInv'
  BY DEF SendApi, Message, TypeOK, WireInv
<1>5. MessageInv'
  BY DEF SendApi, Message, TypeOK, WireInv, MessageInv, TicketInv, LockInv, Holding,
     LoginRefusals
<1>6. TriesInv'
  BY DEF SendApi, Message, TypeOK, WireInv, EffectInv, TriesInv
<1>7. EffectInv'
  BY DEF SendApi, Message, TypeOK, WireInv, TriesInv, EffectInv
<1>8. ResultInv'
  BY DEF SendApi, Message, TypeOK, WireInv, MessageInv, EffectInv, ResultInv,
     LoginRefusals
<1> QED BY <1>1, <1>2, <1>3, <1>4, <1>5, <1>6, <1>7, <1>8

\* do() reads the response, and after a first 401 drops the ticket.
LEMMA RecvApiKeeps ==
  ASSUME IInv, NEW c \in Calls, RecvApi(c)
  PROVE  IInv'
<1> USE SessionAssumption DEF IInv, clientVars, callVars, serverVars
<1>1. TypeOK'
  <2>1. Nothing \in Messages
    BY MessageType DEF Nothing, Kinds, Statuses
  <2>2. wire[c].status \in Statuses
    BY DEF RecvApi, MessageInv, Statuses
  <2>3. wire' \in [Calls -> Messages]
    BY <2>1 DEF RecvApi, TypeOK
  <2>4. /\ pc' \in [Calls -> PCs] /\ result' \in [Calls -> Statuses]
        /\ mu' \in Calls \cup {NoCall} /\ ticket' \in Nat /\ csrf' \in Nat
        /\ UNCHANGED <<usingToken, tries, serverVars>>
    BY <2>2 DEF RecvApi, Return, TypeOK, PCs
  <2> QED BY <2>3, <2>4 DEF TypeOK
<1>2. LockInv'
  BY DEF RecvApi, Return, RetryAfter, Nothing, Message, TypeOK, LockInv, Holding
<1>3. TicketInv'
  BY DEF RecvApi, Return, RetryAfter, Nothing, Message, TypeOK, TicketInv, LockInv,
     Holding
<1>4. WireInv'
  BY DEF RecvApi, Return, RetryAfter, Nothing, Message, TypeOK, WireInv
<1>5. MessageInv'
  BY DEF RecvApi, Return, RetryAfter, Nothing, Message, TypeOK, WireInv, MessageInv,
     TicketInv, LockInv, Holding, LoginRefusals
<1>6. TriesInv'
  BY DEF RecvApi, Return, RetryAfter, Nothing, Message, TypeOK, WireInv, EffectInv,
     TriesInv
<1>7. EffectInv'
  BY DEF RecvApi, Return, RetryAfter, Nothing, Message, TypeOK, WireInv, TriesInv,
     EffectInv
<1>8. ResultInv'
  BY DEF RecvApi, Return, RetryAfter, Nothing, Message, TypeOK, WireInv, MessageInv,
     EffectInv, ResultInv, LoginRefusals
<1> QED BY <1>1, <1>2, <1>3, <1>4, <1>5, <1>6, <1>7, <1>8

\* A request fails or times out.
LEMMA AbandonKeeps ==
  ASSUME IInv, NEW c \in Calls, Abandon(c)
  PROVE  IInv'
<1> USE SessionAssumption DEF IInv, clientVars, callVars, serverVars
<1>1. TypeOK'
  BY DEF Abandon, Return, Nothing, Message, TypeOK, PCs, Messages, Statuses, Kinds,
     LoginRefusals
<1>2. LockInv'
  BY DEF Abandon, Return, Nothing, Message, TypeOK, LockInv, Holding
<1>3. TicketInv'
  BY DEF Abandon, Return, Nothing, Message, TypeOK, TicketInv, LockInv, Holding
<1>4. WireInv'
  BY DEF Abandon, Return, Nothing, Message, TypeOK, WireInv
<1>5. MessageInv'
  BY DEF Abandon, Return, Nothing, Message, TypeOK, WireInv, MessageInv, TicketInv,
     LockInv, Holding, LoginRefusals
<1>6. TriesInv'
  BY DEF Abandon, Return, Nothing, Message, TypeOK, WireInv, EffectInv, TriesInv
<1>7. EffectInv'
  BY DEF Abandon, Return, Nothing, Message, TypeOK, WireInv, TriesInv, EffectInv
<1>8. ResultInv'
  BY DEF Abandon, Return, Nothing, Message, TypeOK, WireInv, MessageInv, EffectInv,
     ResultInv, LoginRefusals
<1> QED BY <1>1, <1>2, <1>3, <1>4, <1>5, <1>6, <1>7, <1>8

\* The server answers a login.
LEMMA ServerLoginKeeps ==
  ASSUME IInv, NEW c \in Calls, ServerLogin(c)
  PROVE  IInv'
<1> USE SessionAssumption DEF IInv, clientVars, callVars, serverVars
<1>1. TypeOK'
  <2>1. /\ \A s \in LoginRefusals : Message("loginRep", 0, 0, s) \in Messages
        /\ Message("loginRep", issued + 1, issued + 1, "ok") \in Messages
        /\ Nothing \in Messages
    BY MessageType DEF Nothing, Kinds, Statuses, LoginRefusals, TypeOK
  <2>2. wire' \in [Calls -> Messages]
    BY <2>1 DEF ServerLogin, Reply, TypeOK
  <2>3. /\ issued' \in {issued, issued + 1}
        /\ live' \subseteq live \cup {issued'}
        /\ issued' = issued => live' = live
    BY DEF ServerLogin, TypeOK
  <2>4. issued' \in Nat /\ live' \subseteq 1..issued'
    BY <2>3 DEF TypeOK
  <2> QED BY <2>2, <2>4 DEF ServerLogin, TypeOK
<1>2. LockInv'
  BY DEF ServerLogin, Reply, Message, Nothing, TypeOK, LockInv, Holding
<1>3. TicketInv'
  BY DEF ServerLogin, Reply, Message, Nothing, TypeOK, TicketInv, LockInv, Holding
<1>4. WireInv'
  BY DEF ServerLogin, Reply, Message, Nothing, TypeOK, WireInv
<1>5. MessageInv'
  BY DEF ServerLogin, Reply, Message, Nothing, TypeOK, WireInv, MessageInv, TicketInv,
     LockInv, Holding, LoginRefusals
<1>6. TriesInv'
  BY DEF ServerLogin, Reply, Message, Nothing, TypeOK, WireInv, EffectInv, TriesInv
<1>7. EffectInv'
  BY DEF ServerLogin, Reply, Message, Nothing, TypeOK, WireInv, TriesInv, EffectInv
<1>8. ResultInv'
  BY DEF ServerLogin, Reply, Message, Nothing, TypeOK, WireInv, MessageInv, EffectInv,
     ResultInv, LoginRefusals
<1> QED BY <1>1, <1>2, <1>3, <1>4, <1>5, <1>6, <1>7, <1>8

\* The server carries a request out.
LEMMA ServerExecuteKeeps ==
  ASSUME IInv, NEW c \in Calls, ServerExecute(c)
  PROVE  IInv'
<1> USE SessionAssumption DEF IInv, clientVars, callVars, serverVars
<1>1. TypeOK'
  <2>1. /\ \A s \in {"ok", "failed"} : Message("apiRep", 0, 0, s) \in Messages
        /\ Nothing \in Messages
    BY MessageType DEF Nothing, Kinds, Statuses
  <2>2. wire' \in [Calls -> Messages]
    BY <2>1 DEF ServerExecute, Reply, TypeOK
  <2>3. executed' \in [Calls -> SUBSET {1, 2}]
    BY DEF ServerExecute, TypeOK, TriesInv
  <2> QED BY <2>2, <2>3 DEF ServerExecute, TypeOK
<1>2. LockInv'
  BY DEF ServerExecute, Reply, Accepted, Message, Nothing, TypeOK, LockInv, Holding
<1>3. TicketInv'
  BY DEF ServerExecute, Reply, Accepted, Message, Nothing, TypeOK, TicketInv, LockInv,
     Holding
<1>4. WireInv'
  BY DEF ServerExecute, Reply, Accepted, Message, Nothing, TypeOK, WireInv
<1>5. MessageInv'
  BY DEF ServerExecute, Reply, Accepted, Message, Nothing, TypeOK, WireInv, MessageInv,
     TicketInv, LockInv, Holding, LoginRefusals
<1>6. TriesInv'
  BY DEF ServerExecute, Reply, Accepted, Message, Nothing, TypeOK, WireInv, EffectInv,
     TriesInv
<1>7. EffectInv'
  <2>1. PICK s \in {"ok", "failed"} : Reply(c, Message("apiRep", 0, 0, s))
    BY DEF ServerExecute
  <2>2. pc[c] \in {"awaitApi", "done"}
    BY DEF ServerExecute, WireInv, TypeOK, PCs
  <2> QED BY <2>1, <2>2 DEF ServerExecute, Reply, TypeOK, EffectInv, Message, Nothing
<1>8. ResultInv'
  BY DEF ServerExecute, Reply, Accepted, Message, Nothing, TypeOK, WireInv, MessageInv,
     EffectInv, ResultInv, LoginRefusals
<1> QED BY <1>1, <1>2, <1>3, <1>4, <1>5, <1>6, <1>7, <1>8

\* The server answers without an effect.
LEMMA ServerRefuseKeeps ==
  ASSUME IInv, NEW c \in Calls, ServerRefuse(c)
  PROVE  IInv'
<1> USE SessionAssumption DEF IInv, clientVars, callVars, serverVars
<1>1. TypeOK'
  BY DEF ServerRefuse, Reply, Accepted, Message, Nothing, TypeOK, PCs, Messages,
     Statuses, Kinds, LoginRefusals
<1>2. LockInv'
  BY DEF ServerRefuse, Reply, Accepted, Message, Nothing, TypeOK, LockInv, Holding
<1>3. TicketInv'
  BY DEF ServerRefuse, Reply, Accepted, Message, Nothing, TypeOK, TicketInv, LockInv,
     Holding
<1>4. WireInv'
  BY DEF ServerRefuse, Reply, Accepted, Message, Nothing, TypeOK, WireInv
<1>5. MessageInv'
  <2>1. PICK s \in {"notfound", "failed", "unauthorized"} :
           /\ s = "unauthorized" => usingToken \/ ~Accepted(c)
           /\ Reply(c, Message("apiRep", 0, 0, s))
    BY DEF ServerRefuse
  <2>2. wire[c].kind = "apiReq" /\ UNCHANGED <<usingToken, live, issued, ticket, pc>>
    BY DEF ServerRefuse
  <2>3. ~usingToken /\ s = "unauthorized" /\ pc[c] = "awaitApi" => ticket \notin live
    BY <2>1, <2>2 DEF Accepted, MessageInv
  <2>4. pc[c] \in {"awaitApi", "done"}
    BY <2>2 DEF WireInv, TypeOK, PCs
  <2> QED BY <2>1, <2>2, <2>3, <2>4 DEF Reply, TypeOK, MessageInv, Message, Nothing
<1>6. TriesInv'
  BY DEF ServerRefuse, Reply, Accepted, Message, Nothing, TypeOK, WireInv, EffectInv,
     TriesInv
<1>7. EffectInv'
  BY DEF ServerRefuse, Reply, Accepted, Message, Nothing, TypeOK, WireInv, TriesInv,
     EffectInv
<1>8. ResultInv'
  BY DEF ServerRefuse, Reply, Accepted, Message, Nothing, TypeOK, WireInv, MessageInv,
     EffectInv, ResultInv, LoginRefusals
<1> QED BY <1>1, <1>2, <1>3, <1>4, <1>5, <1>6, <1>7, <1>8

\* A ticket expires.
LEMMA ExpireKeeps ==
  ASSUME IInv, NEW t \in live, Expire(t)
  PROVE  IInv'
<1> USE SessionAssumption DEF IInv, clientVars, callVars, serverVars
<1>1. TypeOK'
  BY DEF Expire, TypeOK, PCs, Messages, Statuses, Kinds, LoginRefusals
<1>2. LockInv'
  BY DEF Expire, TypeOK, LockInv, Holding
<1>3. TicketInv'
  BY DEF Expire, TypeOK, TicketInv, LockInv, Holding
<1>4. WireInv'
  BY DEF Expire, TypeOK, WireInv
<1>5. MessageInv'
  BY DEF Expire, TypeOK, WireInv, MessageInv, TicketInv, LockInv, Holding, LoginRefusals
<1>6. TriesInv'
  BY DEF Expire, TypeOK, WireInv, EffectInv, TriesInv
<1>7. EffectInv'
  BY DEF Expire, TypeOK, WireInv, TriesInv, EffectInv
<1>8. ResultInv'
  BY DEF Expire, TypeOK, WireInv, MessageInv, EffectInv, ResultInv, LoginRefusals
<1> QED BY <1>1, <1>2, <1>3, <1>4, <1>5, <1>6, <1>7, <1>8

-----------------------------------------------------------------------------
\* The invariant is inductive.
LEMMA NextIInv == IInv /\ [Next]_vars => IInv'
<1>1. ASSUME IInv, Next PROVE IInv'
  <2>1. ASSUME Quiet PROVE IInv'
    BY <1>1, <2>1 DEF Quiet, vars, clientVars, callVars, serverVars, IInv, TypeOK, LockInv,
       TicketInv, WireInv, MessageInv, TriesInv, EffectInv, ResultInv, Holding
  <2> QED
    BY <1>1, <2>1, CallKeeps, LockKeeps, SendLoginKeeps, RecvLoginKeeps, SendApiKeeps,
       RecvApiKeeps, AbandonKeeps, ServerLoginKeeps, ServerExecuteKeeps, ServerRefuseKeeps,
       ExpireKeeps DEF Next, Client, Server
<1>2. ASSUME IInv, UNCHANGED vars PROVE IInv'
  BY <1>2 DEF vars, clientVars, callVars, serverVars, IInv, TypeOK, LockInv, TicketInv,
     WireInv, MessageInv, TriesInv, EffectInv, ResultInv, Holding
<1> QED BY <1>1, <1>2

\* The inductive invariant holds in every reachable state.
THEOREM InvariantHolds == Spec => []IInv
  BY InitIInv, NextIInv, PTL DEF Spec

\* Every variable of the client, its calls and the server keeps its type, for
\* any number of concurrent calls.
THEOREM TypeCorrect == Spec => []TypeOK
<1>1. IInv => TypeOK
  BY DEF IInv
<1> QED BY <1>1, InvariantHolds, PTL

\* However many calls share the client, no request leaves with an empty ticket
\* or with a ticket and a CSRF token of two logins.
THEOREM CredentialsNeverMixed == Spec => []NoMixedCredentials
<1>1. IInv => NoMixedCredentials
  BY DEF IInv, MessageInv, NoMixedCredentials
<1> QED BY <1>1, InvariantHolds, PTL

\* The retry after a 401 never doubles an effect on the server.
THEOREM EffectAtMostOnce == Spec => []AtMostOneEffect
<1>1. IInv => AtMostOneEffect
  <2> SUFFICES ASSUME IInv, NEW c \in Calls, executed[c] = {1, 2} PROVE FALSE
    BY DEF AtMostOneEffect
  <2>1. {1, 2} \subseteq {tries[c]}
    BY DEF IInv, TriesInv
  <2> QED BY <2>1
<1> QED BY <1>1, InvariantHolds, PTL

\* What do() returns is true of the server: success is an effect, a 404 or 401
\* is no effect, then and later.
THEOREM AnswersTrue == Spec => []AnswersAreTrue
<1>1. IInv => AnswersAreTrue
  BY DEF IInv, TypeOK, ResultInv, AnswersAreTrue, EffectInv, WireInv, PCs
<1> QED BY <1>1, InvariantHolds, PTL

\* A 401 that answers an old ticket never costs the client a newer, live one.
THEOREM LiveTicketKept == Spec => NeverDropsLiveTicket
<1>1. IInv /\ [Next]_vars => [ticket # ticket' => ticket \notin live]_vars
  <2> SUFFICES ASSUME IInv, Next, ticket # ticket' PROVE ticket \notin live
    BY DEF vars, clientVars
  <2> USE DEF IInv, clientVars, callVars, serverVars
  <2>1. PICK c \in Calls : RecvLogin(c) \/ RecvApi(c)
    BY DEF Next, Client, Server, Call, Lock, SendLogin, SendApi, Abandon, ServerLogin,
       ServerExecute, ServerRefuse, Expire, Quiet, vars
  <2>2. CASE RecvLogin(c)
    BY <2>2 DEF RecvLogin, TicketInv, TypeOK
  <2>3. CASE RecvApi(c)
    BY <2>3 DEF RecvApi, RetryAfter, MessageInv
  <2> QED BY <2>1, <2>2, <2>3
<1> QED BY <1>1, InvariantHolds, PTL DEF Spec, NeverDropsLiveTicket

\* No answer sends a call back to where it was: after a second 401 it returns,
\* as after anything else.
THEOREM StartsOverNever == Spec => NeverStartsOver
<1> DEFINE A == \A c \in Calls : pc'[c] # pc[c] => StepsLeft(c)' < StepsLeft(c)
<1>1. ASSUME IInv, IInv', Next, NEW c \in Calls, pc'[c] # pc[c]
      PROVE  StepsLeft(c)' < StepsLeft(c)
  <2> USE <1>1 DEF IInv, StepsLeft
  <2>1. Call(c) \/ Lock(c) \/ Client(c)
    BY DEF Next, Client, Server, Call, Lock, SendLogin, RecvLogin, SendApi, RecvApi, Abandon,
       Return, ServerLogin, ServerExecute, ServerRefuse, Expire, Quiet, vars, callVars, TypeOK
  <2>2. CASE Call(c) \/ Lock(c)
    BY <2>2 DEF Call, Lock, TypeOK, TriesInv
  <2>3. CASE SendLogin(c)
    BY <2>3 DEF SendLogin, TypeOK, TriesInv
  <2>4. CASE SendApi(c)
    BY <2>4 DEF SendApi, TypeOK, TriesInv
  <2>5. CASE RecvLogin(c)
    BY <2>5 DEF RecvLogin, Return, TypeOK, TriesInv
  <2>6. CASE RecvApi(c)
    BY <2>6 DEF RecvApi, RetryAfter, Return, TypeOK, TriesInv
  <2>7. CASE Abandon(c)
    BY <2>7 DEF Abandon, Return, TypeOK, TriesInv, WireInv
  <2> QED BY <2>1, <2>2, <2>3, <2>4, <2>5, <2>6, <2>7 DEF Client
<1>2. IInv /\ [Next]_vars => [A]_vars
  BY <1>1, NextIInv
<1> QED BY <1>2, InvariantHolds, PTL DEF Spec, NeverStartsOver

-----------------------------------------------------------------------------
\* Refinement: every step of Session is a step of CallOnce or leaves it alone.
LEMMA InitRefines == Init => Promise!Init
  BY DEF Init, Promise!Init, Phase

\* A step of the client between its entry and its return is invisible.
LEMMA HiddenStep ==
  ASSUME IInv, NEW c \in Calls, NEW p \in PCs \ {"idle", "done"},
         pc[c] \in PCs \ {"idle", "done"}, pc' = [pc EXCEPT ![c] = p],
         UNCHANGED <<result, executed>>
  PROVE  UNCHANGED Promise!vars
  BY DEF Promise!vars, Phase, IInv, TypeOK, PCs

\* A return of do() closes the call with an answer that is true of the server.
LEMMA ReturnCloses ==
  ASSUME IInv, NEW c \in Calls, pc[c] \in Holding, NEW r \in Promise!Answers,
         Return(c, r), UNCHANGED executed,
         r = "ok" => executed[c] # {},
         r \in {"notfound", "unauthorized"} => executed[c] = {}
  PROVE  Promise!Close(c, r)
<1> DEFINE phase == [d \in Calls |-> Phase(pc[d])]
<1> USE DEF Phase
<1>1. phase[c] = "open"
  BY DEF Holding
<1>2. phase' = [phase EXCEPT ![c] = "closed"]
  BY DEF Return, IInv, TypeOK
<1> QED BY <1>1, <1>2 DEF Return, Promise!Close, Promise!Certain, Promise!Refused

LEMMA StepRefines == IInv /\ [Next]_vars => [Promise!Next]_(Promise!vars)
<1> SUFFICES ASSUME IInv, [Next]_vars PROVE [Promise!Next]_(Promise!vars)
  OBVIOUS
<1> USE DEF Phase, clientVars, callVars, serverVars
<1>0. ASSUME UNCHANGED <<pc, result, executed>> PROVE UNCHANGED Promise!vars
  BY <1>0 DEF Promise!vars
<1>1. ASSUME NEW c \in Calls, Call(c) PROVE Promise!Open(c)
  BY <1>1 DEF Call, Promise!Open, IInv, TypeOK, PCs
<1>2. ASSUME NEW c \in Calls, Lock(c) \/ SendLogin(c) \/ SendApi(c)
      PROVE  UNCHANGED Promise!vars
  BY <1>2, HiddenStep DEF Lock, SendLogin, SendApi, PCs
<1>3. ASSUME NEW c \in Calls, RecvLogin(c) PROVE [Promise!Next]_(Promise!vars)
  <2>1. CASE wire[c].status = "ok"
    BY <1>3, <2>1, HiddenStep DEF RecvLogin, PCs
  <2>2. CASE wire[c].status # "ok"
    <3>1. Return(c, wire[c].status) /\ pc[c] \in Holding /\ UNCHANGED executed
      BY <1>3, <2>2 DEF RecvLogin, Holding
    <3>2. wire[c].status \in Promise!Answers /\ executed[c] = {}
      BY <1>3 DEF RecvLogin, IInv, MessageInv, EffectInv, LoginRefusals, Promise!Answers,
         Promise!Certain, Promise!Refused, Promise!Uncertain
    <3> QED BY <3>1, <3>2, <2>2, ReturnCloses DEF Promise!Next
  <2> QED BY <2>1, <2>2
<1>4. ASSUME NEW c \in Calls, RecvApi(c) PROVE [Promise!Next]_(Promise!vars)
  <2>1. CASE RetryAfter(c)
    BY <1>4, <2>1, HiddenStep DEF RecvApi, PCs
  <2>2. CASE ~RetryAfter(c)
    <3>1. Return(c, wire[c].status) /\ pc[c] \in Holding /\ UNCHANGED executed
      BY <1>4, <2>2 DEF RecvApi, Holding
    <3>2. /\ wire[c].status \in Promise!Answers
          /\ wire[c].status = "ok" => executed[c] # {}
          /\ wire[c].status \in {"notfound", "unauthorized"} => executed[c] = {}
      BY <1>4 DEF RecvApi, IInv, MessageInv, EffectInv, Promise!Answers,
         Promise!Certain, Promise!Refused, Promise!Uncertain
    <3> QED BY <3>1, <3>2, ReturnCloses DEF Promise!Next
  <2> QED BY <2>1, <2>2
<1>5. ASSUME NEW c \in Calls, Abandon(c) PROVE Promise!Close(c, "opaque")
  BY <1>5, ReturnCloses DEF Abandon, Holding, Promise!Answers, Promise!Uncertain
<1>6. ASSUME NEW c \in Calls, ServerLogin(c) \/ ServerRefuse(c)
      PROVE  UNCHANGED Promise!vars
  BY <1>6, <1>0 DEF ServerLogin, ServerRefuse
<1>7. ASSUME NEW c \in Calls, ServerExecute(c) PROVE Promise!Execute(c)
  <2>1. /\ executed[c] = {} /\ executed' = [executed EXCEPT ![c] = {tries[c]}]
        /\ UNCHANGED <<pc, result>>
    BY <1>7 DEF ServerExecute, IInv, EffectInv, TypeOK
  <2>2. pc[c] = "awaitApi" \/ (pc[c] = "done" /\ result[c] = "opaque")
    BY <1>7 DEF ServerExecute, IInv, WireInv, ResultInv, TypeOK, PCs
  <2>3. {d \in Calls : executed'[d] # {}} = {d \in Calls : executed[d] # {}} \cup {c}
    BY <2>1 DEF IInv, TypeOK
  <2> QED BY <2>1, <2>2, <2>3 DEF Promise!Execute, Promise!Uncertain
<1>8. ASSUME (\E t \in live : Expire(t)) \/ Quiet \/ UNCHANGED vars
      PROVE  UNCHANGED Promise!vars
  BY <1>8, <1>0 DEF Expire, Quiet, vars
<1> QED
  BY <1>1, <1>2, <1>3, <1>4, <1>5, <1>6, <1>7, <1>8
  DEF Next, Client, Server, Promise!Next, Promise!Answers, Promise!Uncertain

\* Client.do implements CallOnce: lock, lazy login, retry and late requests are
\* invisible to the resources that call it.
THEOREM Refinement == Spec => ImplementsCallOnce
  BY InitIInv, NextIInv, InitRefines, StepRefines, PTL
  DEF Spec, ImplementsCallOnce, Promise!Spec
=============================================================================
