------------------------------- MODULE Session -------------------------------
(***************************************************************************)
(* Client.do, login and attempt of internal/proxmox/client.go: any number  *)
(* of goroutines (resources and data sources of one provider instance)     *)
(* share one Client. In ticket mode a call holds Client.mu from the check  *)
(* of the cached ticket to the last response, logs in when there is no     *)
(* ticket, and on a 401 drops the ticket, logs in again and repeats the    *)
(* request once. In token mode it sends one request and holds no lock.     *)
(*                                                                         *)
(* A call sends a request only after it has the response to the one before *)
(* it, so wire[c] holds at most one message. http.Client.Timeout may end   *)
(* any wait; the request it abandons may still reach the server later.     *)
(*                                                                         *)
(* Definitions called Faulty* are in no specification: each is the next    *)
(* definition with one plausible bug, for checking that a property sees it.*)
(***************************************************************************)
EXTENDS Naturals

CONSTANTS
  Calls,        \* one element per invocation of Client.do
  Writes,       \* those whose method is not GET: they carry the CSRF token
  NoCall        \* the holder of Client.mu when it is free

ASSUME SessionAssumption ==
  /\ Writes \subseteq Calls
  /\ NoCall \notin Calls

VARIABLES
  usingToken,   \* Client.usingToken(): API-token mode (cfg.TokenID # "") or ticket mode
  mu,           \* holder of Client.mu
  ticket,       \* Client.ticket: 0 is "", n is the n-th ticket issued
  csrf,         \* Client.csrf, numbered like the ticket it came with
  pc,           \* where each call stands in do()
  tries,        \* API requests the call has sent: 0, 1 or 2
  result,       \* what do() returned
  wire,         \* the call's message in flight
  issued,       \* tickets the server has issued
  live,         \* tickets the server still accepts
  executed      \* per call, which of its API requests the server carried out

clientVars == <<mu, ticket, csrf>>
callVars == <<pc, tries, result>>
serverVars == <<issued, live, executed>>
vars == <<usingToken, clientVars, callVars, wire, serverVars>>

-----------------------------------------------------------------------------
\* Messages. The statuses are the classes of HTTP status the code separates:
\* 2xx, 404, 401 and the rest; "opaque" is a response login() cannot use.

Statuses == {"none", "ok", "notfound", "unauthorized", "failed", "opaque"}
Kinds == {"none", "loginReq", "loginRep", "apiReq", "apiRep"}
Messages == [kind : Kinds, ticket : Nat, csrf : Nat, status : Statuses]

Message(k, t, x, s) == [kind |-> k, ticket |-> t, csrf |-> x, status |-> s]
Nothing == Message("none", 0, 0, "none")

LoginRefusals == {"notfound", "unauthorized", "failed", "opaque"}

Init ==
  /\ usingToken \in BOOLEAN
  /\ mu = NoCall
  /\ ticket = 0
  /\ csrf = 0
  /\ pc = [c \in Calls |-> "idle"]
  /\ tries = [c \in Calls |-> 0]
  /\ result = [c \in Calls |-> "none"]
  /\ wire = [c \in Calls |-> Nothing]
  /\ issued = 0
  /\ live = {}
  /\ executed = [c \in Calls |-> {}]

-----------------------------------------------------------------------------
\* The client.

\* Get, Post, Put or Delete enters do().
Call(c) ==
  /\ pc[c] = "idle"
  /\ pc' = [pc EXCEPT ![c] = IF usingToken THEN "send" ELSE "lock"]
  /\ UNCHANGED <<usingToken, clientVars, tries, result, wire, serverVars>>

FaultyLock(c) ==
  /\ pc[c] = "lock"
  /\ mu' = c
  /\ pc' = [pc EXCEPT ![c] = IF ticket = 0 THEN "login" ELSE "send"]
  /\ UNCHANGED <<usingToken, ticket, csrf, tries, result, wire, serverVars>>

\* c.mu.Lock(), then the check for a cached ticket.
Lock(c) ==
  /\ pc[c] = "lock"
  /\ mu = NoCall
  /\ mu' = c
  /\ pc' = [pc EXCEPT ![c] = IF ticket = 0 THEN "login" ELSE "send"]
  /\ UNCHANGED <<usingToken, ticket, csrf, tries, result, wire, serverVars>>

FaultyReturn(c, r) ==
  /\ pc' = [pc EXCEPT ![c] = "done"]
  /\ result' = [result EXCEPT ![c] = r]
  /\ mu' = IF mu = c /\ r # "opaque" THEN NoCall ELSE mu
  /\ UNCHANGED tries

\* Every return of do(): the deferred c.mu.Unlock() runs with it.
Return(c, r) ==
  /\ pc' = [pc EXCEPT ![c] = "done"]
  /\ result' = [result EXCEPT ![c] = r]
  /\ mu' = IF mu = c THEN NoCall ELSE mu
  /\ UNCHANGED tries

SendLogin(c) ==
  /\ pc[c] = "login"
  /\ wire' = [wire EXCEPT ![c] = Message("loginReq", 0, 0, "none")]
  /\ pc' = [pc EXCEPT ![c] = "awaitLogin"]
  /\ UNCHANGED <<usingToken, clientVars, tries, result, serverVars>>

\* The end of login(): keep the ticket and its CSRF token, or return the error.
RecvLogin(c) ==
  /\ pc[c] = "awaitLogin"
  /\ wire[c].kind = "loginRep"
  /\ \/ /\ wire[c].status = "ok"
        /\ ticket' = wire[c].ticket
        /\ csrf' = wire[c].csrf
        /\ pc' = [pc EXCEPT ![c] = "send"]
        /\ UNCHANGED <<mu, tries, result>>
     \/ /\ wire[c].status # "ok"
        /\ Return(c, wire[c].status)
        /\ UNCHANGED <<ticket, csrf>>
  /\ wire' = [wire EXCEPT ![c] = Nothing]
  /\ UNCHANGED <<usingToken, serverVars>>

\* attempt(): the CSRF header goes with every method but GET.
SendApi(c) ==
  /\ pc[c] = "send"
  /\ wire' = [wire EXCEPT ![c] =
                Message("apiReq", ticket, IF c \in Writes THEN csrf ELSE 0, "none")]
  /\ tries' = [tries EXCEPT ![c] = @ + 1]
  /\ pc' = [pc EXCEPT ![c] = "awaitApi"]
  /\ UNCHANGED <<usingToken, clientVars, result, serverVars>>

FaultyRetryAfter(c) == ~usingToken /\ wire[c].status = "unauthorized"

FaultyRetryOnError(c) ==
  wire[c].status \in {"unauthorized", "failed"} /\ tries[c] = 1

\* Only the first 401 of a ticket-mode call is retried.
RetryAfter(c) == ~usingToken /\ wire[c].status = "unauthorized" /\ tries[c] = 1

RecvApi(c) ==
  /\ pc[c] = "awaitApi"
  /\ wire[c].kind = "apiRep"
  /\ \/ /\ RetryAfter(c)
        /\ ticket' = 0
        /\ csrf' = 0
        /\ pc' = [pc EXCEPT ![c] = "login"]
        /\ UNCHANGED <<mu, tries, result>>
     \/ /\ ~RetryAfter(c)
        /\ Return(c, wire[c].status)
        /\ UNCHANGED <<ticket, csrf>>
  /\ wire' = [wire EXCEPT ![c] = Nothing]
  /\ UNCHANGED <<usingToken, serverVars>>

FaultyAbandon(c) ==
  /\ pc[c] \in {"awaitLogin", "awaitApi"}
  /\ IF tries[c] = 1
     THEN /\ pc' = [pc EXCEPT ![c] = "send"]
          /\ UNCHANGED <<mu, tries, result>>
     ELSE Return(c, "opaque")
  /\ wire' = [wire EXCEPT ![c] = Nothing]
  /\ UNCHANGED <<usingToken, ticket, csrf, serverVars>>

\* http.Do fails: the timeout, or a connection error before or after the
\* server took the request. A request left on the wire may still arrive.
Abandon(c) ==
  /\ pc[c] \in {"awaitLogin", "awaitApi"}
  /\ Return(c, "opaque")
  /\ wire' = [wire EXCEPT ![c] =
                IF @.kind \in {"loginReq", "apiReq"} THEN @ ELSE Nothing]
  /\ UNCHANGED <<usingToken, ticket, csrf, serverVars>>

-----------------------------------------------------------------------------
\* The server, as the client's code expects it to behave.

Reply(c, m) ==
  wire' = [wire EXCEPT ![c] = IF pc[c] = "done" THEN Nothing ELSE m]

ServerLogin(c) ==
  /\ wire[c].kind = "loginReq"
  /\ \/ /\ issued' = issued + 1
        /\ live' = live \cup {issued + 1}
        /\ Reply(c, Message("loginRep", issued + 1, issued + 1, "ok"))
     \/ /\ \E s \in LoginRefusals : Reply(c, Message("loginRep", 0, 0, s))
        /\ UNCHANGED <<issued, live>>
  /\ UNCHANGED <<usingToken, clientVars, callVars, executed>>

Accepted(c) ==
  \/ usingToken
  \/ /\ wire[c].ticket \in live
     /\ c \in Writes => wire[c].csrf = wire[c].ticket

\* Carry out the request: the answer is 2xx, or a 5xx raised too late to undo it.
ServerExecute(c) ==
  /\ wire[c].kind = "apiReq"
  /\ Accepted(c)
  /\ executed' = [executed EXCEPT ![c] = @ \cup {tries[c]}]
  /\ \E s \in {"ok", "failed"} : Reply(c, Message("apiRep", 0, 0, s))
  /\ UNCHANGED <<usingToken, clientVars, callVars, issued, live>>

\* Answer without an effect: 404, some other error, or 401 for bad credentials.
ServerRefuse(c) ==
  /\ wire[c].kind = "apiReq"
  /\ \E s \in {"notfound", "failed", "unauthorized"} :
       /\ s = "unauthorized" => usingToken \/ ~Accepted(c)
       /\ s # "unauthorized" => Accepted(c)
       /\ Reply(c, Message("apiRep", 0, 0, s))
  /\ UNCHANGED <<usingToken, clientVars, callVars, serverVars>>

\* The ticket's lifetime (about two hours) ends, or the server forgets it.
Expire(t) ==
  /\ t \in live
  /\ live' = live \ {t}
  /\ UNCHANGED <<usingToken, clientVars, callVars, wire, issued, executed>>

-----------------------------------------------------------------------------
Client(c) ==
  \/ SendLogin(c) \/ RecvLogin(c) \/ SendApi(c) \/ RecvApi(c) \/ Abandon(c)

Server(c) == ServerLogin(c) \/ ServerExecute(c) \/ ServerRefuse(c)

\* All calls have returned: nothing more is asked of the client.
Quiet ==
  /\ \A c \in Calls : pc[c] = "done"
  /\ UNCHANGED vars

Next ==
  \/ \E c \in Calls : Call(c) \/ Lock(c) \/ Client(c) \/ Server(c)
  \/ \E t \in live : Expire(t)
  \/ Quiet

Spec == Init /\ [][Next]_vars

\* Goroutines keep running and every request has a timeout, so weak fairness of
\* the client's steps. Weak fairness is enough for Client.mu too: an apply makes
\* finitely many calls. Nothing is assumed of the server.
Fairness == \A c \in Calls : WF_vars(Client(c)) /\ WF_vars(Lock(c))

FairSpec == Spec /\ Fairness

-----------------------------------------------------------------------------
PCs == {"idle", "lock", "login", "awaitLogin", "send", "awaitApi", "done"}

\* The type invariant of the client, its calls and the server.
TypeOK ==
  /\ usingToken \in BOOLEAN
  /\ mu \in Calls \cup {NoCall}
  /\ ticket \in Nat
  /\ csrf \in Nat
  /\ pc \in [Calls -> PCs]
  /\ tries \in [Calls -> 0..2]
  /\ result \in [Calls -> Statuses]
  /\ wire \in [Calls -> Messages]
  /\ issued \in Nat
  /\ live \subseteq 1..issued
  /\ executed \in [Calls -> SUBSET {1, 2}]

\* Client.mu does its work ("reading c.ticket/c.csrf is safe", client.go:223):
\* no request leaves with an empty ticket, nor a write with a CSRF token from
\* another login than its ticket's, whatever the other calls do meanwhile.
NoMixedCredentials ==
  ~usingToken =>
    \A c \in Calls : wire[c].kind = "apiReq" =>
      /\ wire[c].ticket # 0
      /\ c \in Writes => wire[c].csrf = wire[c].ticket

\* The retry after a 401 (client.go:206-215) never carries a call out twice,
\* not even when a request arrives after its call has given up.
AtMostOneEffect ==
  \A c \in Calls : executed[c] # {1, 2}

\* do() reports success only for a request the server carried out, and a 404
\* or 401 only when none was and none is still on its way: object_resource.go
\* acts on both answers (state saved, state dropped, "already gone").
AnswersAreTrue ==
  \A c \in Calls :
    /\ result[c] = "ok" => executed[c] # {}
    /\ result[c] \in {"notfound", "unauthorized"} =>
         /\ wire[c].kind # "apiReq"
         /\ executed[c] = {}

\* A stale 401 never throws away a ticket that another call has just obtained:
\* the client drops only a ticket the server no longer accepts.
NeverDropsLiveTicket ==
  [][ticket # ticket' => ticket \notin live]_vars

\* The steps c has left before it returns, at the most: to enter, to get mu, and
\* two for each of four round trips.
StepsLeft(c) ==
  CASE pc[c] = "idle"       -> 10
    [] pc[c] = "lock"       -> 9
    [] pc[c] = "login"      -> 8 - 4 * tries[c]
    [] pc[c] = "awaitLogin" -> 7 - 4 * tries[c]
    [] pc[c] = "send"       -> 6 - 4 * tries[c]
    [] pc[c] = "awaitApi"   -> 9 - 4 * tries[c]
    [] pc[c] = "done"       -> 0

\* A call never starts over: each of its steps brings it nearer to its return,
\* whatever the server answers and however often tickets expire. It holds mu for
\* two logins and two requests at the most (client.go:194-219).
NeverStartsOver ==
  [][\A c \in Calls : pc'[c] # pc[c] => StepsLeft(c)' < StepsLeft(c)]_vars

\* Every call returns, though calls queue on one mutex that is held across up
\* to four round trips, whatever the server does or fails to do.
CallsReturn == \A c \in Calls : pc[c] # "idle" ~> pc[c] = "done"

\* The refinement mapping: all between entry and return is one open call.
Phase(p) == IF p = "idle" THEN "idle" ELSE IF p = "done" THEN "closed" ELSE "open"

\* The abstract promise under that mapping.
Promise == INSTANCE CallOnce WITH
  phase <- [c \in Calls |-> Phase(pc[c])],
  answer <- result,
  effect <- {c \in Calls : executed[c] # {}}

\* Client.do with its lock, lazy login and retry implements CallOnce.
ImplementsCallOnce == Promise!Spec
=============================================================================
