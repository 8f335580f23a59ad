--------------------------- MODULE HandlersProofs ---------------------------
(***************************************************************************)
(* Handlers holds its invariants for any handlers, plans and calls: what   *)
(* the handlers may rely on follows from writeMu and from CallOnce alone.  *)
(***************************************************************************)
EXTENDS Handlers, TLAPS

-----------------------------------------------------------------------------
\* The inductive invariant.

\* What CallOnce keeps of its calls.
CallInv ==
  /\ phase \in [Calls -> {"idle", "open", "closed"}]
  /\ answer \in [Calls -> Client!Answers \cup {"none"}]
  /\ effect \subseteq Calls
  /\ \A c \in Calls :
       /\ phase[c] = "closed" <=> answer[c] # "none"
       /\ phase[c] = "idle" => c \notin effect
       /\ answer[c] = "ok" => c \in effect
       /\ answer[c] \in Client!Refused => c \notin effect

\* A handler that writes has writeMu from LockWrites to its return.
LockInv ==
  \A h \in Handlers : h \in Writers /\ stage[h] \in {"call", "wait"} <=> writeMu = h

\* Where a handler of some kind can stand, and when it has reported.
StageInv ==
  \A h \in Handlers :
    /\ stage[h] = "lock" => h \in Writers
    /\ stage[h] = "wait" => Kind(h) # "drop"
    /\ told[h] # "none" <=> stage[h] = "done"

\* Of the calls of a handler only the one it waits for is open.
OpenInv ==
  \A h \in Handlers : \A i \in DOMAIN Script(h) :
    phase[Script(h)[i]] = "open" => stage[h] = "wait" /\ i = at[h]

\* Which answers have brought a handler to its call.
ScriptInv ==
  \A h \in Handlers :
    /\ Kind(h) = "create" /\ at[h] = 1 /\ Len(Script(h)) = 2 => phase[Script(h)[2]] = "idle"
    /\ Kind(h) = "create" /\ at[h] = 2 => answer[Script(h)[1]] = "notfound"
    /\ Kind(h) = "task" /\ at[h] > 1 => answer[Script(h)[1]] = "ok"

\* c is in the script of a handler that stands at it or past it.
Asked(c) ==
  \E h \in Handlers : \E i \in DOMAIN Script(h) :
    /\ c = Script(h)[i]
    /\ i < at[h] \/ (i = at[h] /\ stage[h] \in {"wait", "done"})

\* Nobody else makes calls, and a handler waits for no call that it has not made.
\* Nothing in IInv needs this: it is kept on its own.
AskedInv ==
  /\ \A c \in Calls : phase[c] # "idle" => Asked(c)
  /\ \A h \in Handlers : stage[h] = "wait" => phase[Current(h)] # "idle"

IInv ==
  /\ TypeOK
  /\ CallInv
  /\ LockInv
  /\ OpenInv
  /\ ScriptInv
  /\ StageInv
  /\ ToldIsTrue

-----------------------------------------------------------------------------
\* A handler with a call has it at its place in the script, and no other
\* handler has the same.
LEMMA ScriptFacts ==
  ASSUME Plans \subseteq PlanOf, plan \in Plans
  PROVE  /\ \A h \in Handlers :
              /\ Kind(h) \in Kinds
              /\ Script(h) \in Seq(Calls)
              /\ Kind(h) = "create" => Len(Script(h)) \in {1, 2}
              /\ Kind(h) = "task" => Len(Script(h)) \in Nat \ {0, 1, 2}
              /\ Kind(h) \in {"write", "destroy", "read"} => Len(Script(h)) = 1
              /\ Kind(h) = "drop" => Len(Script(h)) = 0
              /\ DOMAIN Script(h) = 1..Len(Script(h))
         /\ \A g, h \in Handlers : \A i \in DOMAIN Script(g), j \in DOMAIN Script(h) :
              Script(g)[i] = Script(h)[j] => g = h /\ i = j
<1>1. plan \in PlanOf
  OBVIOUS
<1>2. \A h \in Handlers : Kind(h) \in Kinds /\ Script(h) \in Seq(Calls)
  BY <1>1 DEF PlanOf, Kind, Script
<1>3. ASSUME NEW h \in Handlers
      PROVE  /\ Kind(h) = "create" => Len(Script(h)) \in {1, 2}
             /\ Kind(h) = "task" => Len(Script(h)) \in Nat \ {0, 1, 2}
             /\ Kind(h) \in {"write", "destroy", "read"} => Len(Script(h)) = 1
             /\ Kind(h) = "drop" => Len(Script(h)) = 0
  BY <1>1 DEF PlanOf, Kind, Script
<1>4. \A g, h \in Handlers : \A i \in DOMAIN Script(g), j \in DOMAIN Script(h) :
        Script(g)[i] = Script(h)[j] => g = h /\ i = j
  BY <1>1 DEF PlanOf, Script
<1> QED BY <1>2, <1>3, <1>4

\* The call a handler is at, if it makes any.
LEMMA CurrentIsCall ==
  ASSUME Plans \subseteq PlanOf, TypeOK, NEW h \in Handlers, Kind(h) # "drop"
  PROVE  at[h] \in DOMAIN Script(h) /\ Current(h) \in Calls
BY ScriptFacts DEF TypeOK, Current

LEMMA InitIInv ==
  ASSUME Plans \subseteq PlanOf, Nobody \notin Handlers, Init
  PROVE  IInv
<1> USE DEF Init, HandlersInit, Client!Init
<1>1. TypeOK
  <2>1. \A h \in Handlers : Kind(h) # "drop" => 1 \in DOMAIN Script(h)
    BY ScriptFacts DEF Kinds
  <2> QED BY <2>1 DEF TypeOK
<1>2. CallInv
  BY DEF CallInv, Client!Refused, Client!Answers
<1>3. LockInv /\ StageInv
  BY DEF LockInv, StageInv
<1>4. OpenInv /\ ScriptInv
  BY ScriptFacts DEF OpenInv, ScriptInv
<1>5. ToldIsTrue
  BY DEF ToldIsTrue, Writers
<1> QED BY <1>1, <1>2, <1>3, <1>4, <1>5 DEF IInv

\* The end of a handler: told[h] is what a return after the answer allows.
LEMMA FinishKeeps ==
  ASSUME Plans \subseteq PlanOf, Nobody \notin Handlers, IInv, UNCHANGED calls,
         NEW h \in Handlers, stage[h] \in {"call", "wait"},
         stage[h] = "wait" => answer[Current(h)] # "none" /\ Kind(h) # "drop",
         NEW t \in {"ok", "error"}, Finish(h, t),
         t = "ok" /\ Kind(h) \notin {"drop", "read"} =>
           \/ Deed(h) \in effect
           \/ Kind(h) = "destroy" /\ answer[Deed(h)] = "notfound"
  PROVE  IInv'
<1> USE DEF Finish, calls, Kind, Script, Current, Deed
<1>1. TypeOK'
  BY DEF IInv, TypeOK
<1>2. CallInv'
  BY DEF IInv, CallInv
<1>3. LockInv'
  BY DEF IInv, LockInv, TypeOK, Writers
<1>4. OpenInv'
  <2>1. stage[h] = "wait" => phase[Current(h)] # "open"
    BY CurrentIsCall DEF IInv, CallInv
  <2> QED BY <2>1 DEF IInv, OpenInv, TypeOK
<1>5. ScriptInv'
  BY DEF IInv, ScriptInv
<1>6. StageInv'
  BY DEF IInv, TypeOK, StageInv, Writers
<1>7. ToldIsTrue'
  <2> SUFFICES ASSUME NEW g \in Writers, told'[g] = "ok", Kind(g) # "drop"
               PROVE  \/ Deed(g) \in effect
                      \/ Kind(g) = "destroy" /\ answer[Deed(g)] = "notfound"
    BY DEF ToldIsTrue, Writers
  <2>1. CASE g = h
    BY <2>1 DEF IInv, TypeOK, Writers
  <2>2. CASE g # h
    BY <2>2 DEF IInv, TypeOK, ToldIsTrue, StageInv, Writers
  <2> QED BY <2>1, <2>2
<1> QED BY <1>1, <1>2, <1>3, <1>4, <1>5, <1>6, <1>7 DEF IInv

\* A verdict of success is backed by the answer the handler has.
LEMMA VerdictsAreTrue ==
  ASSUME Plans \subseteq PlanOf, IInv,
         NEW h \in Handlers, Kind(h) # "drop", answer[Current(h)] # "none",
         NEW t \in Verdicts(h, answer[Current(h)])
  PROVE  /\ t \in {"ok", "error"}
         /\ t = "ok" /\ Kind(h) # "read" =>
              \/ Deed(h) \in effect
              \/ Kind(h) = "destroy" /\ answer[Deed(h)] = "notfound"
<1>1. Current(h) \in Calls /\ at[h] \in DOMAIN Script(h)
  BY CurrentIsCall DEF IInv
<1>2. Kind(h) \in Kinds /\ DOMAIN Script(h) = 1..Len(Script(h))
  BY ScriptFacts DEF IInv, TypeOK
<1>3. answer[Current(h)] = "ok" => Current(h) \in effect
  BY <1>1 DEF IInv, CallInv
<1>4. CASE Kind(h) = "destroy"
  BY <1>3, <1>4 DEF Verdicts, Deed
<1>5. CASE Kind(h) = "read"
  BY <1>5 DEF Verdicts, Plainly
<1>6. CASE Kind(h) = "task"
  <2>1. CASE at[h] = 1
    BY <1>3, <1>6, <2>1, ScriptFacts DEF IInv, TypeOK, Verdicts, Plainly, Deed, Current
  <2>2. CASE at[h] # 1
    <3>0. at[h] \in Nat /\ at[h] > 1
      BY <1>1, <1>2, <2>2 DEF IInv, TypeOK
    <3>1. answer[Script(h)[1]] = "ok" /\ at[h] > 1
      BY <1>6, <3>0 DEF IInv, ScriptInv
    <3>2. Script(h)[1] \in Calls
      BY <1>6, ScriptFacts DEF IInv, TypeOK
    <3>3. Deed(h) \in effect
      BY <1>6, <3>1, <3>2 DEF IInv, CallInv, Deed
    <3>4. t \in {"ok", "error"}
      BY <1>6, <3>1 DEF Verdicts, Plainly
    <3> QED BY <3>3, <3>4
  <2> QED BY <2>1, <2>2
<1>7. CASE Kind(h) \in {"create", "write"}
  BY <1>3, <1>7 DEF Verdicts, Plainly, Deed
<1> QED BY <1>2, <1>4, <1>5, <1>6, <1>7 DEF Kinds

\* The steps of a handler between its calls.
LEMMA OwnKeeps ==
  ASSUME Plans \subseteq PlanOf, Nobody \notin Handlers, IInv, UNCHANGED calls,
         NEW h \in Handlers, Begin(h) \/ Own(h) \/ Reject(h)
  PROVE  IInv'
<1> USE DEF calls
<1>1. ASSUME Begin(h) PROVE IInv'
  <2> USE <1>1 DEF Begin, Kind, Script, Current, Deed
  <2>1. TypeOK' /\ CallInv' /\ OpenInv' /\ ScriptInv'
    BY DEF IInv, TypeOK, CallInv, OpenInv, ScriptInv
  <2>2. LockInv'
    BY DEF IInv, TypeOK, LockInv, StageInv, Writers
  <2>3. ToldIsTrue' /\ StageInv'
    BY DEF IInv, TypeOK, ToldIsTrue, StageInv, Writers
  <2> QED BY <2>1, <2>2, <2>3 DEF IInv
<1>2. ASSUME LockWrites(h) PROVE IInv'
  <2> USE <1>2 DEF LockWrites, Kind, Script, Current, Deed
  <2>1. TypeOK' /\ CallInv' /\ OpenInv' /\ ScriptInv'
    BY DEF IInv, TypeOK, CallInv, OpenInv, ScriptInv
  <2>2. LockInv'
    BY DEF IInv, TypeOK, LockInv, StageInv, Writers
  <2>3. ToldIsTrue' /\ StageInv'
    BY DEF IInv, TypeOK, ToldIsTrue, StageInv, Writers
  <2> QED BY <2>1, <2>2, <2>3 DEF IInv
<1>3. ASSUME Continue(h) PROVE IInv'
  <2>1. PICK i \in Following(h, answer[Current(h)]) : at' = [at EXCEPT ![h] = i]
    BY <1>3 DEF Continue
  <2>2. /\ Kind(h) \in {"create", "task"} /\ i \in DOMAIN Script(h) /\ i \in Nat /\ i # 1
        /\ Kind(h) = "create" => i = 2 /\ at[h] = 1 /\ answer[Current(h)] = "notfound"
        /\ Kind(h) = "task" => at[h] > 1 \/ answer[Current(h)] = "ok"
    <3>1. Kind(h) \in {"create", "task"}
      BY <2>1 DEF Following
    <3>4. at[h] \in Nat /\ at[h] \in 1..Len(Script(h)) /\ DOMAIN Script(h) = 1..Len(Script(h))
      BY <3>1, CurrentIsCall, ScriptFacts DEF IInv, TypeOK
    <3>2. CASE Kind(h) = "create"
      <4>1. Len(Script(h)) \in {1, 2}
        BY <3>2, ScriptFacts DEF IInv, TypeOK
      <4>2. at[h] < Len(Script(h)) /\ answer[Current(h)] = "notfound" /\ i = 2
        BY <2>1, <3>2 DEF Following
      <4> QED BY <3>2, <3>4, <4>1, <4>2
    <3>3. CASE Kind(h) = "task"
      <4>1. Len(Script(h)) \in Nat \ {0, 1, 2}
        BY <3>3, ScriptFacts DEF IInv, TypeOK
      <4>2. CASE at[h] = 1
        BY <2>1, <3>3, <3>4, <4>1, <4>2 DEF Following
      <4>3. CASE at[h] # 1
        <5> DEFINE n == Len(Script(h))
                   a == at[h]
        <5>1. a \in 2..(n - 1) /\ (i = a + 1 \/ i = n)
          BY <2>1, <3>3, <4>3 DEF Following
        <5>3. n \in Nat /\ a \in Nat
          BY <3>4, <4>1
        <5> HIDE DEF n, a
        <5>4. a > 1 /\ i \in Nat /\ i # 1 /\ i \in 1..n
          BY <5>1, <5>3
        <5>2. at[h] > 1 /\ i \in Nat /\ i # 1 /\ i \in 1..Len(Script(h))
          BY <5>4 DEF n, a
        <5> QED BY <3>3, <3>4, <5>2
      <4> QED BY <4>2, <4>3
    <3> QED BY <3>1, <3>2, <3>3
  <2> USE <1>3 DEF Continue, Kind, Script, Current, Deed
  <2>3. TypeOK' /\ CallInv'
    BY <2>1, <2>2 DEF IInv, TypeOK, CallInv
  <2>4. LockInv'
    BY <2>1 DEF IInv, TypeOK, LockInv, Writers
  <2>5. OpenInv'
    <3>1. phase[Current(h)] # "open"
      BY <2>2, CurrentIsCall DEF IInv, CallInv
    <3> QED BY <2>1, <3>1 DEF IInv, OpenInv, TypeOK
  <2>6. ScriptInv'
    <3>1. ASSUME NEW g \in Handlers, g # h PROVE at'[g] = at[g]
      BY <2>1, <3>1 DEF IInv, TypeOK
    <3>2. at'[h] = i
      BY <2>1 DEF IInv, TypeOK
    <3>3. Kind(h) = "create" => answer[Script(h)[1]] = "notfound"
      BY <2>2
    <3>4. Kind(h) = "task" => answer[Script(h)[1]] = "ok"
      BY <2>2, CurrentIsCall, ScriptFacts DEF IInv, ScriptInv, TypeOK
    <3> QED BY <2>2, <3>1, <3>2, <3>3, <3>4 DEF IInv, ScriptInv
  <2>7. ToldIsTrue' /\ StageInv'
    BY <2>1 DEF IInv, TypeOK, ToldIsTrue, StageInv, Writers
  <2> QED BY <2>3, <2>4, <2>5, <2>6, <2>7 DEF IInv
<1>4. ASSUME Return(h) PROVE IInv'
  <2>1. PICK t \in Verdicts(h, answer[Current(h)]) : Finish(h, t)
    BY <1>4 DEF Return
  <2>2. Kind(h) # "drop"
    BY <1>4 DEF Return, IInv, StageInv
  <2> QED BY <1>4, <2>1, <2>2, VerdictsAreTrue, FinishKeeps DEF Return
<1>5. ASSUME DropState(h) \/ Reject(h) PROVE IInv'
  BY <1>5, FinishKeeps DEF DropState, Reject
<1> QED BY <1>1, <1>2, <1>3, <1>4, <1>5 DEF Own

\* A handler enters Client.do.
LEMMA InvokeKeeps ==
  ASSUME Plans \subseteq PlanOf, Nobody \notin Handlers, IInv,
         NEW h \in Handlers, Invoke(h), Client!Open(Current(h))
  PROVE  IInv'
<1> USE DEF Invoke, Client!Open
<1>0. Current(h) \in Calls /\ at[h] \in DOMAIN Script(h)
  BY CurrentIsCall DEF IInv
<1>1. TypeOK'
  BY DEF IInv, TypeOK, Kind, Script
<1>2. CallInv'
  BY <1>0 DEF IInv, CallInv
<1>3. LockInv' /\ StageInv'
  BY DEF IInv, TypeOK, LockInv, StageInv, Writers, Kind
<1>4. OpenInv'
  <2> SUFFICES ASSUME NEW g \in Handlers, NEW i \in DOMAIN Script(g),
                      phase'[Script(g)[i]] = "open"
               PROVE  stage'[g] = "wait" /\ i = at[g]
    BY DEF OpenInv, Script
  <2>1. Script(g)[i] \in Calls
    BY ScriptFacts DEF IInv, TypeOK
  <2>2. CASE Script(g)[i] = Current(h)
    <3>1. g = h /\ i = at[h]
      BY <1>0, <2>2, ScriptFacts DEF Current, IInv, TypeOK
    <3> QED BY <3>1 DEF IInv, TypeOK
  <2>3. CASE Script(g)[i] # Current(h)
    BY <2>1, <2>3 DEF IInv, CallInv, OpenInv, TypeOK
  <2> QED BY <2>2, <2>3
<1>5. ScriptInv'
  <2>1. ASSUME NEW g \in Handlers, Kind(g) = "create", at[g] = 1, Len(Script(g)) = 2
        PROVE  phase'[Script(g)[2]] = "idle"
    <3>1. Script(g)[2] \in Calls /\ 2 \in DOMAIN Script(g)
      BY <2>1, ScriptFacts DEF IInv, TypeOK
    <3>2. Script(g)[2] = Script(h)[at[h]] => g = h /\ 2 = at[h]
      BY <1>0, <3>1, ScriptFacts DEF IInv, TypeOK
    <3>3. Script(g)[2] # Current(h)
      BY <2>1, <3>2 DEF Current
    <3> QED BY <2>1, <3>1, <3>3 DEF IInv, CallInv, ScriptInv
  <2> QED BY <2>1 DEF IInv, ScriptInv, Kind, Script
<1>6. ToldIsTrue'
  BY DEF IInv, ToldIsTrue, Writers, Kind, Script, Current, Deed
<1> QED BY <1>1, <1>2, <1>3, <1>4, <1>5, <1>6 DEF IInv

\* Client.do and the server go on with a call.
LEMMA CallKeeps ==
  ASSUME Plans \subseteq PlanOf, Nobody \notin Handlers, IInv, UNCHANGED handlers,
         NEW c \in Calls,
         Client!Execute(c) \/ \E a \in Client!Answers : Client!Close(c, a)
  PROVE  IInv'
<1> USE DEF handlers, Kind, Script, Current, Deed
<1>1. TypeOK' /\ LockInv' /\ StageInv'
  BY DEF IInv, TypeOK, LockInv, StageInv, Writers
<1>2. CallInv'
  BY DEF IInv, CallInv, Client!Execute, Client!Close, Client!Answers, Client!Certain,
     Client!Refused, Client!Uncertain
<1>4. /\ effect \subseteq effect'
      /\ \A d \in Calls : answer[d] # "none" => answer'[d] = answer[d]
      /\ \A d \in Calls : phase[d] = "idle" => phase'[d] = "idle"
      /\ \A d \in Calls : phase'[d] = "open" => phase[d] = "open"
  BY DEF IInv, CallInv, Client!Execute, Client!Close
<1>5. ASSUME NEW h \in Handlers, NEW i \in DOMAIN Script(h) PROVE Script(h)[i] \in Calls
  BY ScriptFacts DEF IInv, TypeOK
<1>3. OpenInv'
  BY <1>4, <1>5 DEF IInv, OpenInv
<1>6. ScriptInv'
  <2> SUFFICES ASSUME NEW h \in Handlers
               PROVE  /\ Kind(h) = "create" /\ at[h] = 1 /\ Len(Script(h)) = 2 =>
                           phase'[Script(h)[2]] = "idle"
                      /\ Kind(h) = "create" /\ at[h] = 2 => answer'[Script(h)[1]] = "notfound"
                      /\ Kind(h) = "task" /\ at[h] > 1 => answer'[Script(h)[1]] = "ok"
    BY DEF ScriptInv
  <2>1. Len(Script(h)) = 2 => 2 \in DOMAIN Script(h)
    BY ScriptFacts DEF IInv, TypeOK
  <2>2. Kind(h) \in {"create", "task"} => 1 \in DOMAIN Script(h)
    BY ScriptFacts DEF IInv, TypeOK
  <2> QED BY <1>4, <1>5, <2>1, <2>2 DEF IInv, ScriptInv
<1>7. ToldIsTrue'
  <2> SUFFICES ASSUME NEW h \in Writers, told[h] = "ok", Kind(h) # "drop"
               PROVE  \/ Deed(h) \in effect'
                      \/ Kind(h) = "destroy" /\ answer'[Deed(h)] = "notfound"
    BY DEF ToldIsTrue, Writers
  <2>1. Kind(h) # "task" => Deed(h) \in Calls
    BY CurrentIsCall DEF IInv, Writers
  <2> QED BY <1>4, <2>1 DEF IInv, ToldIsTrue
<1> QED BY <1>1, <1>2, <1>3, <1>6, <1>7 DEF IInv

LEMMA NextIInv ==
  ASSUME Plans \subseteq PlanOf, Nobody \notin Handlers, IInv, [Next]_vars
  PROVE  IInv'
<1>1. CASE UNCHANGED vars
  BY <1>1 DEF vars, calls, handlers, IInv, TypeOK, CallInv, LockInv, StageInv, OpenInv,
     ScriptInv, ToldIsTrue, Writers, Kind, Script, Current, Deed
<1> QED BY <1>1, OwnKeeps, InvokeKeeps, CallKeeps DEF Next

\* A handler only ever goes forward in its script.
LEMMA Forward ==
  ASSUME Plans \subseteq PlanOf, IInv, NEW h \in Handlers, Kind(h) # "drop",
         NEW i \in Following(h, answer[Current(h)])
  PROVE  i \in Nat /\ at[h] \in Nat /\ at[h] < i
<1>0. Script(h) \in Seq(Calls) /\ DOMAIN Script(h) = 1..Len(Script(h)) /\ at[h] \in DOMAIN Script(h)
  BY ScriptFacts, CurrentIsCall DEF IInv, TypeOK
<1>1. at[h] \in Nat /\ at[h] >= 1 /\ Len(Script(h)) \in Nat
  BY <1>0
<1>2. Kind(h) = "create" => Len(Script(h)) \in {1, 2}
  BY ScriptFacts DEF IInv, TypeOK
<1>3. Kind(h) \in Kinds
  BY ScriptFacts DEF IInv, TypeOK
<1>4. CASE Kind(h) = "create"
  <2>1. at[h] < Len(Script(h)) /\ i = 2
    BY <1>4 DEF Following
  <2>2. Len(Script(h)) = 1 \/ Len(Script(h)) = 2
    BY <1>2, <1>4
  <2>3. ASSUME NEW k \in Nat, NEW n \in {1, 2}, k < n PROVE k < 2
    BY <2>3
  <2>4. at[h] < 2
    BY <1>1, <2>1, <2>2, <2>3
  <2> QED BY <1>1, <2>1, <2>4
<1>5. CASE Kind(h) = "task"
  <2>1. \/ at[h] = 1 /\ i = 2
        \/ at[h] \in 2..(Len(Script(h)) - 1) /\ i \in {at[h] + 1, Len(Script(h))}
    BY <1>5 DEF Following
  <2> QED BY <1>1, <2>1
<1>6. CASE Kind(h) \in {"write", "destroy", "read"}
  BY <1>6 DEF Following
<1> QED BY <1>3, <1>4, <1>5, <1>6 DEF Kinds

LEMMA InitAsked == Init => AskedInv
BY DEF Init, HandlersInit, Client!Init, AskedInv

\* A call that a handler waits for was made and stays made.
LEMMA NextWaiting ==
  ASSUME Plans \subseteq PlanOf, IInv, AskedInv, [Next]_vars,
         NEW h \in Handlers, stage'[h] = "wait"
  PROVE  phase'[Current(h)'] # "idle"
<1>0. plan' = plan
  BY DEF Next, vars, handlers, Begin, Own, LockWrites, Continue, Return, DropState, Reject,
     Finish, Invoke
<1>1. \A d \in Calls : phase[d] # "idle" => phase'[d] # "idle"
  BY DEF Next, vars, calls, Client!Open, Client!Execute, Client!Close, IInv, CallInv
<1>2. CASE Invoke(h) /\ Client!Open(Current(h))
  <2>1. Current(h) \in Calls
    BY <1>2, CurrentIsCall DEF Invoke, IInv
  <2> QED BY <1>0, <1>2, <2>1 DEF Invoke, Client!Open, Current, Script, IInv, CallInv
<1>3. CASE stage[h] = "wait" /\ at'[h] = at[h]
  <2>1. Current(h) \in Calls /\ phase[Current(h)] # "idle"
    BY <1>3, CurrentIsCall DEF IInv, StageInv, AskedInv
  <2> QED BY <1>0, <1>1, <1>3, <2>1 DEF Current, Script
<1>4. \/ Invoke(h) /\ Client!Open(Current(h))
      \/ stage[h] = "wait" /\ at'[h] = at[h]
  BY DEF Next, vars, handlers, Begin, Own, LockWrites, Continue, Return, DropState, Reject,
     Finish, Invoke, IInv, TypeOK
<1> QED BY <1>2, <1>3, <1>4

LEMMA NextAsked ==
  ASSUME Plans \subseteq PlanOf, Nobody \notin Handlers, IInv, AskedInv, [Next]_vars
  PROVE  AskedInv'
<1>1. \A h \in Handlers : stage'[h] = "wait" => phase'[Current(h)'] # "idle"
  BY NextWaiting
<1> SUFFICES ASSUME NEW c \in Calls, phase'[c] # "idle"
             PROVE  Asked(c)'
  BY <1>1 DEF AskedInv
<1>0. plan' = plan
  BY DEF Next, vars, handlers, Begin, Own, LockWrites, Continue, Return, DropState, Reject,
     Finish, Invoke
<1> USE <1>0 DEF Script, Asked
<1>2. ASSUME phase[c] # "idle",
             NEW g \in Handlers, UNCHANGED <<at, plan>>,
             NEW s \in {"idle", "lock", "call", "wait", "done"},
             stage' = [stage EXCEPT ![g] = s],
             stage[g] \in {"wait", "done"} => s \in {"wait", "done"}
      PROVE  Asked(c)'
  BY <1>2 DEF AskedInv, IInv, TypeOK
<1>3. ASSUME UNCHANGED calls, NEW g \in Handlers,
             Begin(g) \/ LockWrites(g) \/ Return(g) \/ DropState(g) \/ Reject(g)
      PROVE  Asked(c)'
  <2>1. phase[c] # "idle"
    BY <1>3 DEF calls
  <2>2. PICK s \in {"lock", "call", "done"} :
          /\ stage' = [stage EXCEPT ![g] = s]
          /\ stage[g] \in {"wait", "done"} => s = "done"
          /\ UNCHANGED <<at, plan>>
    BY <1>3 DEF Begin, LockWrites, Return, DropState, Reject, Finish
  <2> QED BY <1>2, <2>1, <2>2
<1>4. ASSUME UNCHANGED calls, NEW g \in Handlers, Continue(g)
      PROVE  Asked(c)'
  <2>0. PICK h \in Handlers : \E i \in DOMAIN Script(h) :
          /\ c = Script(h)[i]
          /\ i < at[h] \/ (i = at[h] /\ stage[h] \in {"wait", "done"})
    BY <1>4 DEF calls, AskedInv
  <2>1. PICK i \in DOMAIN Script(h) :
          /\ c = Script(h)[i]
          /\ i < at[h] \/ (i = at[h] /\ stage[h] \in {"wait", "done"})
    BY <2>0
  <2>2. CASE h # g
    BY <1>4, <2>1, <2>2 DEF Continue, IInv, TypeOK
  <2>3. CASE h = g
    <3>1. PICK j \in Following(g, answer[Current(g)]) : at' = [at EXCEPT ![g] = j]
      BY <1>4 DEF Continue
    <3>2. Kind(g) # "drop"
      BY <1>4 DEF Continue, IInv, StageInv
    <3>3. j \in Nat /\ at[g] \in Nat /\ at[g] < j
      BY <3>1, <3>2, Forward
    <3>4. i \in Nat
      BY ScriptFacts DEF IInv, TypeOK
    <3>5. i < at'[g]
      BY <2>1, <2>3, <3>1, <3>3, <3>4 DEF IInv, TypeOK
    <3> QED BY <2>1, <2>3, <3>5
  <2> QED BY <2>2, <2>3
<1>5. ASSUME NEW g \in Handlers, Invoke(g), Client!Open(Current(g))
      PROVE  Asked(c)'
  <2>1. at[g] \in DOMAIN Script(g) /\ Current(g) \in Calls
    BY <1>5, CurrentIsCall DEF Invoke, IInv
  <2>2. CASE c = Current(g)
    BY <1>5, <2>1, <2>2 DEF Invoke, Current, IInv, TypeOK
  <2>3. CASE c # Current(g)
    <3>1. phase[c] # "idle"
      BY <1>5, <2>1, <2>3 DEF Client!Open, IInv, CallInv
    <3> QED BY <1>2, <1>5, <3>1 DEF Invoke
  <2> QED BY <2>2, <2>3
<1>6. ASSUME UNCHANGED handlers,
             (\E d \in Calls : Client!Execute(d) \/ \E a \in Client!Answers : Client!Close(d, a))
               \/ UNCHANGED calls
      PROVE  Asked(c)'
  <2>1. phase[c] # "idle"
    BY <1>6 DEF Client!Execute, Client!Close, calls, IInv, CallInv
  <2> QED BY <1>6, <2>1 DEF AskedInv, handlers
<1> QED BY <1>3, <1>4, <1>5, <1>6 DEF Next, Own, vars

\* No answer leaves a handler with nothing to do.
LEMMA Onward ==
  ASSUME Plans \subseteq PlanOf, IInv, NEW h \in Handlers, Kind(h) # "drop",
         NEW a \in Client!Answers
  PROVE  Following(h, a) # {} \/ Verdicts(h, a) # {}
<1>0. DOMAIN Script(h) = 1..Len(Script(h)) /\ at[h] \in DOMAIN Script(h) /\ Script(h) \in Seq(Calls)
  BY ScriptFacts, CurrentIsCall DEF IInv, TypeOK
<1>1. at[h] \in Nat /\ at[h] >= 1 /\ at[h] <= Len(Script(h)) /\ Len(Script(h)) \in Nat
  BY <1>0
<1>2. CASE Kind(h) = "task"
  <2>1. Len(Script(h)) # 1 /\ Len(Script(h)) # 2
    BY <1>2, ScriptFacts DEF IInv, TypeOK
  <2>2. CASE at[h] = Len(Script(h))
    <3>1. at[h] \notin 2..(Len(Script(h)) - 1)
      BY <1>1, <2>2
    <3> QED BY <1>2, <2>2, <3>1 DEF Verdicts
  <2>3. CASE at[h] = 1
    BY <1>2, <2>1, <2>3 DEF Verdicts, Plainly, Client!Answers
  <2>4. CASE at[h] \in 2..(Len(Script(h)) - 1)
    <3>1. at[h] # 1
      BY <1>1, <2>4
    <3>2. Len(Script(h)) \in Following(h, a)
      BY <1>2, <2>4, <3>1 DEF Following
    <3> QED BY <3>2
  <2> QED BY <1>1, <2>2, <2>3, <2>4
<1>3. CASE Kind(h) = "create"
  BY <1>3 DEF Verdicts, Plainly
<1>4. CASE Kind(h) \notin {"task", "create"}
  BY <1>4 DEF Verdicts, Plainly
<1> QED BY <1>2, <1>3, <1>4

\* Only the call that a handler waits for takes effect, or a late one.
LEMMA StepInTurn ==
  ASSUME Plans \subseteq PlanOf, Nobody \notin Handlers, IInv, [Next]_vars,
         NEW h \in Writers, NEW i \in DOMAIN Script(h), Script(h)[i] \in effect' \ effect
  PROVE  writeMu = h \/ answer[Script(h)[i]] \in Client!Uncertain
<1>1. PICK c \in Calls : Client!Execute(c)
  BY DEF Next, vars, calls, Client!Open, Client!Close
<1>2. c = Script(h)[i]
  BY <1>1 DEF Client!Execute
<1>3. CASE phase[c] = "open"
  BY <1>2, <1>3 DEF IInv, OpenInv, LockInv, Writers
<1> QED BY <1>1, <1>2, <1>3 DEF Client!Execute

LEMMA InvariantHolds ==
  ASSUME Plans \subseteq PlanOf, Nobody \notin Handlers
  PROVE  Spec => []IInv
<1>1. Init => IInv
  BY InitIInv
<1>2. IInv /\ [Next]_vars => IInv'
  BY NextIInv
<1> QED BY <1>1, <1>2, PTL DEF Spec

\* The handlers' variables have their types.
THEOREM TypeCorrect ==
  ASSUME Plans \subseteq PlanOf, Nobody \notin Handlers
  PROVE  Spec => []TypeOK
<1>1. IInv => TypeOK
  BY DEF IInv
<1> QED BY <1>1, InvariantHolds, PTL

\* A create is at its PUT, or at its POST after the server had refused the PUT.
LEMMA IInvCreatesOnce ==
  ASSUME Plans \subseteq PlanOf, IInv
  PROVE  CreatedOnce
<1> SUFFICES ASSUME NEW h \in Handlers, Kind(h) = "create", Len(Script(h)) = 2
             PROVE  ~({Script(h)[1], Script(h)[2]} \subseteq effect)
  BY DEF CreatedOnce
<1>1. DOMAIN Script(h) = 1..2 /\ Script(h) \in Seq(Calls)
  BY ScriptFacts DEF IInv, TypeOK
<1>2. at[h] \in {1, 2} /\ Script(h)[1] \in Calls /\ Script(h)[2] \in Calls
  BY <1>1, CurrentIsCall DEF IInv
<1>3. CASE at[h] = 1
  BY <1>2, <1>3 DEF IInv, ScriptInv, CallInv
<1>4. CASE at[h] = 2
  BY <1>2, <1>4 DEF IInv, ScriptInv, CallInv, Client!Refused
<1> QED BY <1>2, <1>3, <1>4

\* The fallback of a create never doubles its PUT.
THEOREM CreatedAtMostOnce ==
  ASSUME Plans \subseteq PlanOf, Nobody \notin Handlers
  PROVE  Spec => []CreatedOnce
<1>1. IInv => CreatedOnce
  BY IInvCreatesOnce
<1> QED BY <1>1, InvariantHolds, PTL

\* What is reported as done has been done.
THEOREM ToldTrue ==
  ASSUME Plans \subseteq PlanOf, Nobody \notin Handlers
  PROVE  Spec => []ToldIsTrue
<1>1. IInv => ToldIsTrue
  BY DEF IInv
<1> QED BY <1>1, InvariantHolds, PTL

\* The writes of one provider take effect one handler after the other.
THEOREM InTurn ==
  ASSUME Plans \subseteq PlanOf, Nobody \notin Handlers
  PROVE  Spec => WritesInTurn
<1> DEFINE A == \A h \in Writers : \A i \in DOMAIN Script(h) :
       Script(h)[i] \in effect' \ effect =>
         writeMu = h \/ answer[Script(h)[i]] \in Client!Uncertain
<1>1. IInv /\ [Next]_vars => [A]_vars
  BY StepInTurn
<1> QED BY <1>1, InvariantHolds, PTL DEF Spec, WritesInTurn
=============================================================================
