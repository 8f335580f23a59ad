------------------------ MODULE SSHTransportProofs ------------------------
(***************************************************************************)
(* The transport keeps its types and its key files, its runs end, its      *)
(* client is the one its block declares, and it implements RemoteCommand,  *)
(* for any provider blocks, runs, attempts and width of integers.          *)
(***************************************************************************)
EXTENDS SSHTransport, SequenceTheorems, TLAPS

-----------------------------------------------------------------------------
\* The inductive invariant.

\* Nothing runs before Configure, and the key is written before its file is closed.
Prepared ==
  /\ client = NoClient => \A r \in Runs : pc[r] = "idle"
  /\ alive => \A r \in Runs : /\ pc[r] = "write" => file[r] = "empty"
                              /\ pc[r] = "close" => file[r] = "key"

\* Attempts send their copies in order, each when its ssh starts.
InOrder ==
  \A r \in Runs :
    /\ \A n \in Attempts : /\ n < attempt[r] => copies[r][n] # "none"
                           /\ n > attempt[r] => copies[r][n] = "none"
    /\ pc[r] \in {"idle", "identity", "write", "close"} => copies[r][attempt[r]] = "none"
    /\ pc[r] \in {"ssh", "sleep"} => copies[r][attempt[r]] # "none"
    /\ pc[r] = "sleep" => attempt[r] < maxSSHAttempts

IInv == TransportTypeOK /\ KeyFileLives /\ Prepared /\ InOrder

-----------------------------------------------------------------------------
LEMMA First == Attempts \subseteq Nat /\ 1 \in Attempts
  BY TransportAssumption DEF Attempts

LEMMA Successor ==
  \A a, n \in Nat : /\ n < a + 1 => n < a \/ n = a
                   /\ n > a + 1 => n > a
  OBVIOUS

LEMMA InitTypeOK == TransportInit => TransportTypeOK
  BY First, ConfigurationAssumption DEF TransportInit, ConfigurationInit, TransportTypeOK

LEMMA InitInv == TransportInit => IInv
<1> SUFFICES ASSUME TransportInit PROVE IInv
  OBVIOUS
<1>1. TransportTypeOK
  BY InitTypeOK
<1>2. KeyFileLives /\ Prepared
  BY DEF TransportInit, ConfigurationInit, KeyFileLives, Prepared
<1>3. InOrder
  BY First DEF TransportInit, InOrder, Attempts
<1> QED BY <1>1, <1>2, <1>3 DEF IInv

-----------------------------------------------------------------------------
\* What every action of a run leaves alone.

LEMMA TypeStep == TransportTypeOK /\ InOrder /\ [TransportNext]_transport => TransportTypeOK'
<1> SUFFICES ASSUME TransportTypeOK, InOrder, [TransportNext]_transport PROVE TransportTypeOK'
  OBVIOUS
<1> USE First DEF TransportTypeOK
<1>1. CASE alive /\ Configure /\ UNCHANGED runs
  BY <1>1 DEF Configure, runs
<1>2. ASSUME NEW r \in Runs, Progress(r) PROVE TransportTypeOK'
  <2> USE DEF At, Go, File, Return, Send, configuration
  <2>1. CASE Call(r)
    BY <2>1 DEF Call
  <2>2. CASE Decline(r)
    BY <2>2 DEF Decline
  <2>3. CASE UseIdentity(r)
    BY <2>3 DEF UseIdentity
  <2>4. CASE CreateTemp(r)
    BY <2>4 DEF CreateTemp
  <2>5. CASE WriteKey(r)
    BY <2>5 DEF WriteKey
  <2>6. CASE CloseKey(r)
    <3>1. UNCHANGED <<configuration, attempt, alive>>
      BY <2>6 DEF CloseKey
    <3>2. CASE Send(r) /\ UNCHANGED <<file, result>>
      BY <3>1, <3>2
    <3>3. CASE File(r, "none") /\ Return(r, "error") /\ UNCHANGED copies
      BY <3>1, <3>3
    <3> QED BY <2>6, <3>2, <3>3 DEF CloseKey
  <2>7. CASE Succeed(r)
    BY <2>7 DEF Succeed
  <2>8. CASE Fail(r)
    BY <2>8 DEF Fail
  <2>9. CASE Wake(r)
    <3>1. attempt[r] + 1 \in Attempts
      BY <2>9, TransportAssumption DEF Wake, InOrder, Attempts
    <3> QED BY <2>9, <3>1 DEF Wake
  <2> QED BY <1>2, <2>1, <2>2, <2>3, <2>4, <2>5, <2>6, <2>7, <2>8, <2>9 DEF Progress
<1>3. ASSUME NEW r \in Runs, NEW n \in Attempts, Execute(r, n) PROVE TransportTypeOK'
  BY <1>3 DEF Execute, configuration
<1>4. CASE Kill
  BY <1>4 DEF Kill, configuration
<1>5. CASE UNCHANGED transport
  BY <1>5 DEF transport, configuration, runs
<1> QED BY <1>1, <1>2, <1>3, <1>4, <1>5 DEF TransportNext

LEMMA FileStep ==
  IInv /\ [TransportNext]_transport => KeyFileLives' /\ Prepared'
<1> SUFFICES ASSUME IInv, [TransportNext]_transport PROVE KeyFileLives' /\ Prepared'
  OBVIOUS
<1> USE DEF IInv, TransportTypeOK, KeyFileLives, Prepared
<1>1. CASE alive /\ Configure /\ UNCHANGED runs
  <2>1. client = NoClient /\ UNCHANGED <<pc, file, alive>>
    BY <1>1 DEF Configure, runs
  <2>2. \A q \in Runs : pc[q] = "idle" /\ pc'[q] = "idle" /\ file'[q] = file[q]
    BY <2>1
  <2> QED BY <2>1, <2>2
<1>2. ASSUME NEW r \in Runs, Progress(r) PROVE KeyFileLives' /\ Prepared'
  <2> USE DEF At, Go, File, Return, Send, configuration
  <2>1. CASE Call(r)
    BY <2>1 DEF Call
  <2>2. CASE Decline(r)
    BY <2>2 DEF Decline
  <2>3. CASE UseIdentity(r)
    BY <2>3 DEF UseIdentity
  <2>4. CASE CreateTemp(r)
    <3>1. /\ UNCHANGED <<block, client, alive>> /\ alive /\ pc[r] = "identity" /\ client # NoClient
          /\ client.ssh.identity = "pem"
      BY <2>4 DEF CreateTemp
    <3>2. \A q \in Runs \ {r} : pc'[q] = pc[q] /\ file'[q] = file[q]
      BY <2>4 DEF CreateTemp
    <3>3. file[r] = "none"
      BY <3>1
    <3>4. \/ pc'[r] = "write" /\ file'[r] = "empty"
          \/ pc'[r] = "done" /\ file'[r] = "none"
      BY <2>4, <3>3 DEF CreateTemp
    <3>5. KeyFileLives'
      BY <3>1, <3>2, <3>4
    <3>6. Prepared'
      BY <3>1, <3>2, <3>4
    <3> QED BY <3>5, <3>6
  <2>5. CASE WriteKey(r)
    <3>1. UNCHANGED <<block, client, alive>> /\ alive /\ pc[r] = "write" /\ client # NoClient
      BY <2>5 DEF WriteKey
    <3>2. \A q \in Runs \ {r} : pc'[q] = pc[q] /\ file'[q] = file[q]
      BY <2>5 DEF WriteKey
    <3>3. \/ pc'[r] = "close" /\ file'[r] = "key"
          \/ pc'[r] = "done" /\ file'[r] = "none"
      BY <2>5 DEF WriteKey
    <3>4. client.ssh.identity = "pem"
      BY <3>1
    <3>5. KeyFileLives'
      BY <3>1, <3>2, <3>3, <3>4
    <3>6. Prepared'
      BY <3>1, <3>2, <3>3
    <3> QED BY <3>5, <3>6
  <2>6. CASE CloseKey(r)
    <3>1. UNCHANGED <<block, client, alive>> /\ alive /\ pc[r] = "close" /\ client # NoClient
      BY <2>6 DEF CloseKey
    <3>2. \A q \in Runs \ {r} : pc'[q] = pc[q] /\ file'[q] = file[q]
      BY <2>6 DEF CloseKey
    <3>3. file[r] = "key" /\ client.ssh.identity = "pem"
      BY <3>1
    <3>4. \/ pc'[r] = "ssh" /\ file'[r] = "key"
          \/ pc'[r] = "done" /\ file'[r] = "none"
      BY <2>6, <3>3 DEF CloseKey
    <3>5. KeyFileLives'
      BY <3>1, <3>2, <3>3, <3>4
    <3>6. Prepared'
      BY <3>1, <3>2, <3>4
    <3> QED BY <3>5, <3>6
  <2>7. CASE Succeed(r)
    BY <2>7 DEF Succeed
  <2>8. CASE Fail(r)
    BY <2>8 DEF Fail
  <2>9. CASE Wake(r)
    BY <2>9 DEF Wake
  <2> QED BY <1>2, <2>1, <2>2, <2>3, <2>4, <2>5, <2>6, <2>7, <2>8, <2>9 DEF Progress
<1>3. ASSUME NEW r \in Runs, NEW n \in Attempts, Execute(r, n) PROVE KeyFileLives' /\ Prepared'
  BY <1>3 DEF Execute, configuration
<1>4. CASE Kill
  BY <1>4 DEF Kill, configuration
<1>5. CASE UNCHANGED transport
  BY <1>5 DEF transport, configuration, runs
<1> QED BY <1>1, <1>2, <1>3, <1>4, <1>5 DEF TransportNext

LEMMA OrderStep == IInv /\ [TransportNext]_transport => InOrder'
<1> SUFFICES ASSUME IInv, [TransportNext]_transport PROVE InOrder'
  OBVIOUS
<1> USE First DEF IInv, TransportTypeOK, InOrder
<1>1. CASE alive /\ Configure /\ UNCHANGED runs
  BY <1>1 DEF runs
<1>2. ASSUME NEW r \in Runs, Progress(r) PROVE InOrder'
  <2> USE DEF At, Go, File, Return, Send, configuration
  <2>1. CASE Call(r)
    BY <2>1 DEF Call
  <2>2. CASE Decline(r)
    BY <2>2 DEF Decline
  <2>3. CASE UseIdentity(r)
    BY <2>3 DEF UseIdentity
  <2>4. CASE CreateTemp(r)
    BY <2>4 DEF CreateTemp
  <2>5. CASE WriteKey(r)
    BY <2>5 DEF WriteKey
  <2>6. CASE CloseKey(r)
    BY <2>6 DEF CloseKey
  <2>7. CASE Succeed(r)
    BY <2>7 DEF Succeed
  <2>8. CASE Fail(r)
    BY <2>8 DEF Fail
  <2>9. CASE Wake(r)
    <3>1. /\ attempt[r] \in Nat /\ attempt'[r] = attempt[r] + 1 /\ pc'[r] = "identity"
          /\ copies' = copies /\ attempt[r] + 1 \in Attempts
      BY <2>9, TransportAssumption DEF Wake, Attempts
    <3>2. \A q \in Runs \ {r} : pc'[q] = pc[q] /\ attempt'[q] = attempt[q]
      BY <2>9 DEF Wake
    <3>4. copies[r][attempt[r]] # "none" /\ copies[r][attempt[r] + 1] = "none"
      BY <3>1, <2>9 DEF Wake
    <3>5. SUFFICES ASSUME NEW q \in Runs
                   PROVE  (/\ \A n \in Attempts : /\ n < attempt[q] => copies[q][n] # "none"
                                                  /\ n > attempt[q] => copies[q][n] = "none"
                           /\ pc[q] \in {"idle", "identity", "write", "close"}
                                => copies[q][attempt[q]] = "none"
                           /\ pc[q] \in {"ssh", "sleep"} => copies[q][attempt[q]] # "none"
                           /\ pc[q] = "sleep" => attempt[q] < maxSSHAttempts)'
      OBVIOUS
    <3>6. CASE q # r
      BY <3>1, <3>2, <3>6
    <3>7. CASE q = r
      <4>1. \A n \in Attempts : /\ n < attempt'[r] => copies[r][n] # "none"
                               /\ n > attempt'[r] => copies[r][n] = "none"
        <5> SUFFICES ASSUME NEW n \in Attempts
                     PROVE  /\ n < attempt[r] + 1 => copies[r][n] # "none"
                            /\ n > attempt[r] + 1 => copies[r][n] = "none"
          BY <3>1
        <5>1. n \in Nat
          OBVIOUS
        <5> DEFINE a == attempt[r]
        <5>2. a \in Nat
          BY <3>1
        <5>3. /\ n < a + 1 => n < a \/ n = a
              /\ n > a + 1 => n > a
          <6> HIDE DEF a, InOrder, IInv, TransportTypeOK
          <6> QED BY <5>1, <5>2, Successor
        <5> QED BY <5>3, <3>4
      <4> QED BY <4>1, <3>1, <3>4, <3>7
    <3> QED BY <3>6, <3>7
  <2> QED BY <1>2, <2>1, <2>2, <2>3, <2>4, <2>5, <2>6, <2>7, <2>8, <2>9 DEF Progress
<1>3. ASSUME NEW r \in Runs, NEW n \in Attempts, Execute(r, n) PROVE InOrder'
  BY <1>3 DEF Execute, configuration
<1>4. CASE Kill
  BY <1>4 DEF Kill, configuration
<1>5. CASE UNCHANGED transport
  BY <1>5 DEF transport, configuration, runs
<1> QED BY <1>1, <1>2, <1>3, <1>4, <1>5 DEF TransportNext

LEMMA StepInv == IInv /\ [TransportNext]_transport => IInv'
  BY TypeStep, FileStep, OrderStep DEF IInv

LEMMA Invariance == TransportSpec => []IInv
  BY InitInv, StepInv, PTL DEF TransportSpec

\* The transport keeps its types: retries never count past maxSSHAttempts.
THEOREM TypeCorrect == TransportSpec => []TransportTypeOK
<1>1. IInv => TransportTypeOK
  BY DEF IInv
<1> QED BY Invariance, <1>1, PTL

\* A private key is on disk only while an attempt of a living provider needs it
\* (identityFile and the cleanup of runOnce).
THEOREM KeysDoNotLinger == TransportSpec => []KeyFileLives
<1>1. IInv => KeyFileLives
  BY DEF IInv
<1> QED BY Invariance, <1>1, PTL

-----------------------------------------------------------------------------
\* A run ends.

\* Every step of a run brings it nearer to its return (ssh.go:112-125), for any
\* number of attempts.
THEOREM RunsEnd == TransportSpec => EveryStepCounts
<1> DEFINE Counts(r) == /\ StepsLeft(r)' < StepsLeft(r)
                        /\ pc'[r] = "sleep" => StepsLeft(r)' > 6
<1>1. ASSUME IInv, TransportNext, NEW r \in Runs, pc'[r] # pc[r] PROVE Counts(r)
  <2> USE <1>1 DEF IInv, TransportTypeOK
  <2>1. Progress(r)
    <3>1. \A q \in Runs \ {r} : ~ Progress(q)
      BY DEF Progress, Call, Decline, UseIdentity, CreateTemp, WriteKey, CloseKey, Succeed,
             Fail, Wake, Return, Send, Go
    <3> QED BY <3>1 DEF TransportNext, Execute, Kill, runs
  <2>2. attempt[r] \in Nat /\ maxSSHAttempts \in Nat
    BY First, TransportAssumption
  <2>3. CASE Wake(r)
    <3>1. /\ pc[r] = "sleep" /\ pc'[r] = "identity" /\ attempt'[r] = attempt[r] + 1
      BY <2>3 DEF Wake, At, Go
    <3>2. /\ StepsLeft(r) = 6 * (maxSSHAttempts - attempt[r]) + 1
          /\ StepsLeft(r)' = 6 * (maxSSHAttempts - (attempt[r] + 1)) + 5
      BY <3>1 DEF StepsLeft
    <3> QED BY <2>2, <3>1, <3>2
  <2>4. CASE ~ Wake(r)
    <3>1. attempt' = attempt
      BY <2>1, <2>4 DEF Progress, Call, Decline, UseIdentity, CreateTemp, WriteKey, CloseKey,
                        Succeed, Fail
    <3> USE DEF At, Go, Return, Send, StepsLeft
    <3>2. CASE Call(r) \/ Decline(r)
      BY <2>2, <3>1, <3>2 DEF Call, Decline
    <3>3. CASE UseIdentity(r) \/ CreateTemp(r)
      BY <2>2, <3>1, <3>3 DEF UseIdentity, CreateTemp
    <3>4. CASE WriteKey(r) \/ CloseKey(r)
      BY <2>2, <3>1, <3>4 DEF WriteKey, CloseKey
    <3>5. CASE Succeed(r)
      BY <2>2, <3>1, <3>5 DEF Succeed
    <3>6. CASE Fail(r)
      BY <2>2, <3>1, <3>6 DEF Fail
    <3> QED BY <2>1, <2>4, <3>2, <3>3, <3>4, <3>5, <3>6 DEF Progress
  <2> QED BY <2>3, <2>4
<1>2. IInv /\ [TransportNext]_transport =>
        [\A r \in Runs : pc'[r] # pc[r] =>
           /\ StepsLeft(r)' < StepsLeft(r)
           /\ pc'[r] = "sleep" => StepsLeft(r)' > 6]_transport
  BY <1>1
<1> QED BY <1>2, Invariance, PTL DEF TransportSpec, EveryStepCounts

-----------------------------------------------------------------------------
\* The client.

\* A division with remainder has one result: a number below the divisor is its
\* own remainder.
LEMMA Remainder ==
  ASSUME NEW m \in Nat, NEW w \in Nat, m < w
  PROVE  m % w = m
  OBVIOUS

LEMMA Exact ==
  ASSUME NEW n \in Nat, n < Half
  PROVE  Wrap(n) = n
<1>1. n + Half \in Nat /\ Word \in Nat /\ n + Half < Word
  BY ConfigurationAssumption
<1>2. (n + Half) % Word = n + Half
  BY <1>1, Remainder
<1> QED BY <1>2, ConfigurationAssumption DEF Wrap

LEMMA ClientTimeouts == IInv => RequestsEnd
<1> SUFFICES ASSUME IInv, client # NoClient, Sensible(block.timeout)
             PROVE  /\ client.timeout = IF block.timeout = 0 THEN 30 * Second
                                        ELSE block.timeout * Second
                    /\ client.timeout > 0
                    /\ client.ssh # NoSSH => client.ssh.timeout > 0
  BY DEF RequestsEnd
<1> DEFINE t == block.timeout
<1>1. client = NewClient(block)
  BY DEF IInv, TransportTypeOK
<1>2. t \in Int64
  BY DEF IInv, TransportTypeOK, AllBlocks
<1>3. t \in Int
  BY <1>2, ConfigurationAssumption DEF Int64
<1>4. t \in Nat /\ t * Second \in Nat /\ t * Second < Half /\ Second \in Nat /\ Second > 0
  BY <1>3, ConfigurationAssumption DEF Sensible
<1>5. Duration(t) = t * Second
  BY <1>4, Exact DEF Duration
<1>6. t * Second = 0 <=> t = 0
  BY <1>4
<1>7. client.timeout = IF t = 0 THEN 30 * Second ELSE t * Second
  BY <1>1, <1>5, <1>6 DEF NewClient, RequestTimeout
<1>8. client.timeout > 0
  BY <1>4, <1>6, <1>7
<1>9. client.ssh # NoSSH => client.ssh.timeout > 0
  BY <1>1, <1>4 DEF NewClient, NewSSHClient
<1> QED BY <1>7, <1>8, <1>9

\* With a sensible timeout_seconds every request has a deadline, for every width
\* of integers and length of a second: what the fairness of Session assumes.
THEOREM RequestsAlwaysEnd == TransportSpec => []RequestsEnd
  BY Invariance, ClientTimeouts, PTL

LEMMA TwoParts ==
  ASSUME NEW h, Declared(h), Len(h) = 2
  PROVE  h[1] # "" /\ h[2] \in Numerals /\ OwnPort(h) = h[2] /\ h[2] # Unset
<1>1. Len(h) # 1
  OBVIOUS
<1>2. h[1] # "" /\ h[2] \in Numerals
  BY <1>1, Zenon DEF Declared
<1>3. OwnPort(h) = h[2]
  BY Zenon DEF OwnPort
<1> QED BY <1>2, <1>3, ConfigurationAssumption

LEMMA ShortSequences ==
  ASSUME NEW S, NEW h \in Seq(S)
  PROVE  /\ Len(h) = 1 => h = <<h[1]>>
         /\ Len(h) = 2 => h = <<h[1], h[2]>>
  OBVIOUS

LEMMA FirstPart ==
  ASSUME NEW S, NEW h \in Seq(S), Len(h) = 2
  PROVE  SubSeq(h, 1, 1) = <<h[1]>>
<1>1. h[1] \in S
  OBVIOUS
<1>2. \A i \in 1..1 : h[i] \in S
  BY <1>1
<1>3. /\ SubSeq(h, 1, 1) \in Seq(S)
      /\ Len(SubSeq(h, 1, 1)) = 1
      /\ SubSeq(h, 1, 1)[1] = h[1]
  BY <1>2, SubSeqProperties
<1> QED BY <1>3, ShortSequences

LEMMA AppendToOne ==
  ASSUME NEW S, NEW a \in S, NEW p \in S
  PROVE  Append(<<a>>, p) = <<a, p>>
<1>1. <<a>> \in Seq(S) /\ Len(<<a>>) = 1 /\ <<a>>[1] = a
  OBVIOUS
<1>2. /\ Append(<<a>>, p) \in Seq(S)
      /\ Len(Append(<<a>>, p)) = 2
      /\ Append(<<a>>, p)[1] = a
      /\ Append(<<a>>, p)[2] = p
  BY <1>1, AppendProperties
<1> QED BY <1>2, ShortSequences

LEMMA ClientAddresses == IInv => ReachesDeclaredHost
<1> SUFFICES ASSUME IInv, client # NoClient PROVE ReachesDeclaredHost
  BY DEF ReachesDeclaredHost
<1>1. client = NewClient(block)
  BY DEF IInv, TransportTypeOK
<1>2. block.host \in Seq(STRING) /\ block.sshHost \in Seq(STRING)
  BY DEF IInv, TransportTypeOK, AllBlocks, Addresses
<1>3. ASSUME Declared(block.host)
      PROVE  client.api = <<block.host[1],
                            Or(OwnPort(block.host),
                               Or(block.port, specFor[ProductOf(block)].defaultPort))>>
  <2>1. client.api = APIAddress(block)
    BY <1>1 DEF NewClient
  <2>2. CASE Len(block.host) = 1
    <3>1. OwnPort(block.host) = Unset
      BY <2>2 DEF OwnPort
    <3>2. block.host = <<block.host[1]>>
      BY <1>2, <2>2, ShortSequences
    <3>3. client.api = Append(block.host, Or(block.port, specFor[ProductOf(block)].defaultPort))
      BY <2>1, <2>2 DEF APIAddress
    <3>4. Or(Unset, Or(block.port, specFor[ProductOf(block)].defaultPort))
            = Or(block.port, specFor[ProductOf(block)].defaultPort)
      BY DEF Or
    <3> DEFINE p == Or(block.port, specFor[ProductOf(block)].defaultPort)
    <3> HIDE DEF p
    <3>5. Append(<<block.host[1]>>, p) = <<block.host[1], p>>
      <4> DEFINE S == {block.host[1], p}
      <4>1. block.host[1] \in S /\ p \in S
        OBVIOUS
      <4> HIDE DEF S
      <4> QED BY <4>1, AppendToOne
    <3> QED BY <3>1, <3>2, <3>3, <3>4, <3>5 DEF p
  <2>3. CASE Len(block.host) = 2
    <3>1. OwnPort(block.host) = block.host[2] /\ block.host[2] # Unset
      BY <1>3, <2>3, TwoParts
    <3>2. block.host = <<block.host[1], block.host[2]>>
      BY <1>2, <2>3, ShortSequences
    <3>3. client.api = block.host
      BY <2>1, <2>3 DEF APIAddress
    <3> QED BY <3>1, <3>2, <3>3 DEF Or
  <2> QED BY <1>3, <2>2, <2>3 DEF Declared
<1>4. ASSUME client.ssh # NoSSH, Declared(block.sshHost)
      PROVE  /\ client.ssh.addr = <<block.sshHost[1]>>
             /\ client.ssh.port = Or(block.sshPort, OwnPort(block.sshHost))
  <2> DEFINE h == block.sshHost
  <2>1. client.ssh = NewSSHClient(block)
    BY <1>1, <1>4 DEF NewClient
  <2>2. SplitHostPort(h) = [addr |-> <<h[1]>>, port |-> OwnPort(h)]
    <3>1. CASE Len(h) = 1
      <4>1. h = <<h[1]>>
        BY <1>2, <3>1, ShortSequences
      <4> QED BY <3>1, <4>1 DEF SplitHostPort, OwnPort
    <3>2. CASE Len(h) = 2
      <4>1. SubSeq(h, 1, 1) = <<h[1]>>
        BY <1>2, <3>2, FirstPart
      <4>2. h[1] # "" /\ h[2] \in Numerals /\ OwnPort(h) = h[2]
        BY <1>4, <3>2, TwoParts
      <4>3. <<h[1]>> # <<"">>
        BY <4>2
      <4>4. SplitHostPort(h) = [addr |-> SubSeq(h, 1, 1), port |-> h[2]]
        <5> DEFINE f == SubSeq(h, 1, 1)
        <5>1. f # <<"">> /\ h[2] \in Numerals
          BY <4>1, <4>2, <4>3
        <5>2. Len(h) > 1 /\ SubSeq(h, 1, Len(h) - 1) = f /\ h[Len(h)] = h[2]
          <6>1. Len(h) > 1 /\ Len(h) - 1 = 1
            BY <3>2
          <6> QED BY <3>2, <6>1
        <5> QED BY <5>1, <5>2, Zenon DEF SplitHostPort
      <4> QED BY <4>1, <4>2, <4>4
    <3> QED BY <1>4, <3>1, <3>2 DEF Declared
  <2> QED BY <2>1, <2>2 DEF NewSSHClient
<1>5. specFor[ProductOf(block)].defaultPort
        = IF block.product = "pdm" THEN "8443" ELSE DocumentedPort(block)
  <2>1. ProductOf(block) \in Products
    BY DEF IInv, TransportTypeOK, Refused
  <2> QED BY <2>1 DEF specFor, Products, ProductOf, NoProduct, DocumentedPort
<1> QED BY <1>3, <1>4, <1>5 DEF ReachesDeclaredHost, Or

\* Declared addresses are reached, with the documented precedence and defaults of
\* ports, the default of pdm excepted.
THEOREM DeclaredHostsReached == TransportSpec => []ReachesDeclaredHost
  BY Invariance, ClientAddresses, PTL

-----------------------------------------------------------------------------
\* RemoteCommand.

LEMMA InitRefines == TransportInit => Remote!Init
  BY First DEF TransportInit, Remote!Init, PhaseOf, SentBy, Ended

\* A step of one run shows in the view of that run only.
LEMMA Others ==
  ASSUME NEW r \in Runs, NEW q \in Runs,
         pc'[q] = pc[q], attempt'[q] = attempt[q], copies'[q] = copies[q]
  PROVE  /\ PhaseOf(q)' = PhaseOf(q) /\ SentBy(q)' = SentBy(q)
         /\ \A o : Ended(q, o)' = Ended(q, o)
  BY DEF PhaseOf, SentBy, Ended

\* The view of all runs after a step of one.
Phases == [q \in Runs |-> PhaseOf(q)]
Sents == [q \in Runs |-> SentBy(q)]
Rans == [q \in Runs |-> Ended(q, {"succeeded", "failed"})]
Succeededs == [q \in Runs |-> Ended(q, {"succeeded"})]

LEMMA Views ==
  ASSUME NEW r \in Runs,
         \A q \in Runs \ {r} : pc'[q] = pc[q] /\ attempt'[q] = attempt[q] /\ copies'[q] = copies[q]
  PROVE  /\ Phases' = [Phases EXCEPT ![r] = PhaseOf(r)']
         /\ Sents' = [Sents EXCEPT ![r] = SentBy(r)']
         /\ Rans' = [Rans EXCEPT ![r] = Ended(r, {"succeeded", "failed"})']
         /\ Succeededs' = [Succeededs EXCEPT ![r] = Ended(r, {"succeeded"})']
         /\ PhaseOf(r)' = PhaseOf(r) => Phases' = Phases
         /\ SentBy(r)' = SentBy(r) => Sents' = Sents
         /\ Ended(r, {"succeeded", "failed"})' = Ended(r, {"succeeded", "failed"}) => Rans' = Rans
         /\ Ended(r, {"succeeded"})' = Ended(r, {"succeeded"}) => Succeededs' = Succeededs
<1>1. \A q \in Runs \ {r} : PhaseOf(q)' = PhaseOf(q)
  BY Others
<1>2. \A q \in Runs \ {r} : SentBy(q)' = SentBy(q)
  BY Others
<1>3. \A q \in Runs \ {r} : Ended(q, {"succeeded", "failed"})' = Ended(q, {"succeeded", "failed"})
  BY Others
<1>4. \A q \in Runs \ {r} : Ended(q, {"succeeded"})' = Ended(q, {"succeeded"})
  BY Others
<1>5. /\ Phases' = [Phases EXCEPT ![r] = PhaseOf(r)']
      /\ PhaseOf(r)' = PhaseOf(r) => Phases' = Phases
  BY <1>1 DEF Phases
<1>6. /\ Sents' = [Sents EXCEPT ![r] = SentBy(r)']
      /\ SentBy(r)' = SentBy(r) => Sents' = Sents
  BY <1>2 DEF Sents
<1>7. /\ Rans' = [Rans EXCEPT ![r] = Ended(r, {"succeeded", "failed"})']
      /\ Ended(r, {"succeeded", "failed"})' = Ended(r, {"succeeded", "failed"}) => Rans' = Rans
  BY <1>3 DEF Rans
<1>8. /\ Succeededs' = [Succeededs EXCEPT ![r] = Ended(r, {"succeeded"})']
      /\ Ended(r, {"succeeded"})' = Ended(r, {"succeeded"}) => Succeededs' = Succeededs
  BY <1>4 DEF Succeededs
<1> QED BY <1>5, <1>6, <1>7, <1>8

LEMMA ViewOf ==
  ASSUME NEW r \in Runs
  PROVE  /\ Phases[r] = PhaseOf(r) /\ Sents[r] = SentBy(r)
         /\ Rans[r] = Ended(r, {"succeeded", "failed"}) /\ Succeededs[r] = Ended(r, {"succeeded"})
  BY DEF Phases, Sents, Rans, Succeededs

\* A step that leaves the view of its run alone is no step of Remote.
LEMMA Stutter ==
  ASSUME NEW r \in Runs,
         \A q \in Runs \ {r} : pc'[q] = pc[q] /\ attempt'[q] = attempt[q] /\ copies'[q] = copies[q],
         PhaseOf(r)' = PhaseOf(r), SentBy(r)' = SentBy(r),
         copies'[r] = copies[r], result' = result
  PROVE  UNCHANGED Remote!vars
<1>1. \A o : Ended(r, o)' = Ended(r, o)
  BY DEF Ended
<1>2. Phases' = Phases /\ Sents' = Sents /\ Rans' = Rans /\ Succeededs' = Succeededs
  BY <1>1, Views
<1> QED BY <1>2 DEF Remote!vars, Phases, Sents, Rans, Succeededs

\* The answer of an open run is its Close.
LEMMA Closing ==
  ASSUME NEW r \in Runs, NEW a \in {"ok", "error"}, TransportTypeOK,
         pc[r] \notin {"idle", "done"}, Return(r, a),
         a = "ok" => copies[r][attempt[r]] = "succeeded",
         UNCHANGED <<attempt, copies>>
  PROVE  Remote!Next
<1> USE DEF TransportTypeOK
<1>1. \A q \in Runs \ {r} : pc'[q] = pc[q] /\ attempt'[q] = attempt[q] /\ copies'[q] = copies[q]
  BY DEF Return, Go
<1>2. PhaseOf(r) = "open" /\ PhaseOf(r)' = "closed"
  BY DEF Return, Go, PhaseOf
<1>3. \A o : Ended(r, o)' = Ended(r, o)
  BY DEF Ended
<1>4. SentBy(r)' = SentBy(r)
  BY DEF SentBy
<1>5. /\ Phases[r] = "open" /\ Phases' = [Phases EXCEPT ![r] = "closed"]
      /\ Sents' = Sents /\ Rans' = Rans /\ Succeededs' = Succeededs
  BY <1>1, <1>2, <1>3, <1>4, Views, ViewOf
<1>6. a = "ok" => Sents[r] \in Succeededs[r]
  BY DEF Sents, Succeededs, SentBy, Ended
<1>7. result' = [result EXCEPT ![r] = a]
  BY DEF Return
<1>8. Remote!Close(r, a)
  BY <1>5, <1>6, <1>7 DEF Remote!Close, Phases, Sents, Rans, Succeededs
<1> QED BY <1>8 DEF Remote!Next

\* Handing the command to ssh is its Send.
LEMMA Sending ==
  ASSUME NEW r \in Runs, TransportTypeOK, InOrder,
         pc[r] \in {"identity", "close"}, Send(r), UNCHANGED <<attempt, result>>
  PROVE  Remote!Next
<1> USE DEF TransportTypeOK
<1>1. \A q \in Runs \ {r} : pc'[q] = pc[q] /\ attempt'[q] = attempt[q] /\ copies'[q] = copies[q]
  BY DEF Send, Go
<1>2. PhaseOf(r) = "open" /\ PhaseOf(r)' = "open"
  BY DEF Send, Go, PhaseOf
<1>3. copies[r][attempt[r]] = "none" /\ copies' = [copies EXCEPT ![r][attempt[r]] = "sent"]
  BY DEF Send, InOrder
<1>4. attempt[r] \in Nat /\ attempt[r] >= 1 /\ attempt[r] <= maxSSHAttempts
  BY TransportAssumption DEF Attempts
<1>5. SentBy(r) = attempt[r] - 1 /\ SentBy(r)' = attempt[r]
  BY <1>3 DEF SentBy
<1>6. SentBy(r)' = SentBy(r) + 1 /\ SentBy(r) < maxSSHAttempts
  BY <1>4, <1>5, TransportAssumption
<1>7. /\ Ended(r, {"succeeded", "failed"})' = Ended(r, {"succeeded", "failed"})
      /\ Ended(r, {"succeeded"})' = Ended(r, {"succeeded"})
  BY <1>3 DEF Ended
<1>8. /\ Phases[r] = "open" /\ Phases' = Phases
      /\ Sents' = [Sents EXCEPT ![r] = Sents[r] + 1] /\ Sents[r] < maxSSHAttempts
      /\ Rans' = Rans /\ Succeededs' = Succeededs
  BY <1>1, <1>2, <1>6, <1>7, Views, ViewOf
<1>9. Remote!Send(r)
  BY <1>8 DEF Remote!Send, Phases, Sents, Rans, Succeededs
<1> QED BY <1>9 DEF Remote!Next

\* A copy that runs is an Execute, whenever it does.
LEMMA Executing ==
  ASSUME NEW r \in Runs, NEW n \in Attempts, IInv, Execute(r, n)
  PROVE  Remote!Next
<1> USE DEF IInv, TransportTypeOK
<1>0. PICK outcome \in {"succeeded", "failed"} : copies' = [copies EXCEPT ![r][n] = outcome]
  BY DEF Execute
<1>1. \A q \in Runs \ {r} : pc'[q] = pc[q] /\ attempt'[q] = attempt[q] /\ copies'[q] = copies[q]
  BY <1>0 DEF Execute
<1>2. PhaseOf(r)' = PhaseOf(r) /\ result' = result
  BY DEF Execute, PhaseOf
<1>3. copies[r][n] = "sent" /\ copies'[r][n] = outcome
  BY <1>0 DEF Execute
<1>4. \A m \in Attempts \ {n} : copies'[r][m] = copies[r][m]
  BY <1>0
<1>5. SentBy(r)' = SentBy(r)
  BY <1>3, <1>4 DEF SentBy, Execute
<1>6. n \in 1..SentBy(r)
  <2>1. attempt[r] \in Nat /\ n \in Nat /\ n >= 1
    BY TransportAssumption DEF Attempts
  <2>2. ~ (n > attempt[r])
    BY <1>3 DEF InOrder
  <2>3. copies[r][attempt[r]] = "none" => n # attempt[r]
    BY <1>3
  <2> QED BY <2>1, <2>2, <2>3 DEF SentBy
<1>7. /\ n \notin Ended(r, {"succeeded", "failed"})
      /\ Ended(r, {"succeeded", "failed"})' = Ended(r, {"succeeded", "failed"}) \cup {n}
  BY <1>3, <1>4 DEF Ended
<1>8. Ended(r, {"succeeded"})' = IF outcome = "succeeded" THEN Ended(r, {"succeeded"}) \cup {n}
                                ELSE Ended(r, {"succeeded"})
  BY <1>3, <1>4 DEF Ended
<1>9. /\ Phases' = Phases /\ Sents' = Sents /\ n \in (1..Sents[r]) \ Rans[r]
      /\ Rans' = [Rans EXCEPT ![r] = Rans[r] \cup {n}]
      /\ Succeededs' = IF outcome = "succeeded"
                       THEN [Succeededs EXCEPT ![r] = Succeededs[r] \cup {n}] ELSE Succeededs
  BY <1>1, <1>2, <1>5, <1>6, <1>7, <1>8, Views, ViewOf
<1>10. Remote!Execute(r, n, outcome = "succeeded")
  BY <1>2, <1>9 DEF Remote!Execute, Phases, Sents, Rans, Succeededs
<1> QED BY <1>10 DEF Remote!Next, Attempts

LEMMA ProgressRefines ==
  ASSUME NEW r \in Runs, IInv, Progress(r)
  PROVE  [Remote!Next]_Remote!vars
<1> USE DEF IInv, TransportTypeOK, At
<1>1. CASE Call(r)
  <2>1. \A q \in Runs \ {r} : pc'[q] = pc[q] /\ attempt'[q] = attempt[q] /\ copies'[q] = copies[q]
    BY <1>1 DEF Call, Go
  <2>2. /\ PhaseOf(r) = "idle" /\ PhaseOf(r)' = "open" /\ SentBy(r)' = SentBy(r)
        /\ Ended(r, {"succeeded", "failed"})' = Ended(r, {"succeeded", "failed"})
        /\ Ended(r, {"succeeded"})' = Ended(r, {"succeeded"}) /\ result' = result
    BY <1>1 DEF Call, Go, PhaseOf, SentBy, Ended
  <2>3. /\ Phases[r] = "idle" /\ Phases' = [Phases EXCEPT ![r] = "open"]
        /\ Sents' = Sents /\ Rans' = Rans /\ Succeededs' = Succeededs
    BY <2>1, <2>2, Views, ViewOf
  <2>4. Remote!Open(r)
    BY <2>2, <2>3 DEF Remote!Open, Phases, Sents, Rans, Succeededs
  <2> QED BY <2>4 DEF Remote!Next
<1>2. CASE Decline(r)
  <2> DEFINE a == IF r \in Reads THEN "skipped" ELSE "error"
  <2>1. \A q \in Runs \ {r} : pc'[q] = pc[q] /\ attempt'[q] = attempt[q] /\ copies'[q] = copies[q]
    BY <1>2 DEF Decline, Return, Go
  <2>2. /\ PhaseOf(r) = "idle" /\ PhaseOf(r)' = "closed" /\ SentBy(r)' = SentBy(r)
        /\ Ended(r, {"succeeded", "failed"})' = Ended(r, {"succeeded", "failed"})
        /\ Ended(r, {"succeeded"})' = Ended(r, {"succeeded"})
        /\ result' = [result EXCEPT ![r] = a] /\ a \in {"error", "skipped"}
    BY <1>2 DEF Decline, Return, Go, PhaseOf, SentBy, Ended
  <2>3. /\ Phases[r] = "idle" /\ Phases' = [Phases EXCEPT ![r] = "closed"]
        /\ Sents' = Sents /\ Rans' = Rans /\ Succeededs' = Succeededs
    BY <2>1, <2>2, Views, ViewOf
  <2> HIDE DEF a
  <2>4. Remote!Decline(r, a)
    BY <2>2, <2>3 DEF Remote!Decline, Phases, Sents, Rans, Succeededs
  <2> QED BY <2>2, <2>4 DEF Remote!Next
<1>3. CASE UseIdentity(r)
  BY <1>3, Sending DEF UseIdentity
<1>4. CASE CreateTemp(r)
  <2>1. CASE Return(r, "error")
    BY <1>4, <2>1, Closing DEF CreateTemp
  <2>2. CASE Go(r, "write") /\ UNCHANGED result
    BY <1>4, <2>2, Stutter DEF CreateTemp, Go, PhaseOf, SentBy
  <2> QED BY <1>4, <2>1, <2>2 DEF CreateTemp
<1>5. CASE WriteKey(r)
  <2>1. CASE Return(r, "error")
    BY <1>5, <2>1, Closing DEF WriteKey
  <2>2. CASE Go(r, "close") /\ UNCHANGED result
    BY <1>5, <2>2, Stutter DEF WriteKey, Go, PhaseOf, SentBy
  <2> QED BY <1>5, <2>1, <2>2 DEF WriteKey
<1>6. CASE CloseKey(r)
  <2>1. CASE Return(r, "error") /\ UNCHANGED copies
    BY <1>6, <2>1, Closing DEF CloseKey
  <2>2. CASE Send(r) /\ UNCHANGED result
    BY <1>6, <2>2, Sending DEF CloseKey
  <2> QED BY <1>6, <2>1, <2>2 DEF CloseKey
<1>7. CASE Succeed(r)
  BY <1>7, Closing DEF Succeed
<1>8. CASE Fail(r)
  <2>1. CASE Return(r, "error")
    BY <1>8, <2>1, Closing DEF Fail
  <2>2. CASE Go(r, "sleep") /\ UNCHANGED result
    BY <1>8, <2>2, Stutter DEF Fail, Go, PhaseOf, SentBy
  <2> QED BY <1>8, <2>1, <2>2 DEF Fail
<1>9. CASE Wake(r)
  <2>1. \A q \in Runs \ {r} : pc'[q] = pc[q] /\ attempt'[q] = attempt[q] /\ copies'[q] = copies[q]
    BY <1>9 DEF Wake, Go
  <2>2. PhaseOf(r)' = PhaseOf(r) /\ copies' = copies /\ result' = result
    BY <1>9 DEF Wake, Go, PhaseOf
  <2>3. /\ attempt[r] \in Nat /\ attempt'[r] = attempt[r] + 1 /\ attempt[r] + 1 \in Attempts
        /\ attempt[r] + 1 > attempt[r]
    BY <1>9, TransportAssumption DEF Wake, InOrder, Attempts
  <2>4. copies[r][attempt[r]] # "none" /\ copies[r][attempt[r] + 1] = "none"
    BY <1>9, <2>3 DEF Wake, InOrder
  <2>5. SentBy(r) = attempt[r] /\ SentBy(r)' = (attempt[r] + 1) - 1
    BY <2>2, <2>3, <2>4 DEF SentBy
  <2>6. SentBy(r)' = SentBy(r)
    BY <2>3, <2>5
  <2> QED BY <2>1, <2>2, <2>6, Stutter
<1> QED BY <1>1, <1>2, <1>3, <1>4, <1>5, <1>6, <1>7, <1>8, <1>9 DEF Progress

LEMMA Still ==
  ASSUME UNCHANGED <<pc, attempt, copies, result>>
  PROVE  UNCHANGED Remote!vars
  BY DEF Remote!vars, PhaseOf, SentBy, Ended

\* The transport is a RemoteCommand: a command is sent at most maxSSHAttempts
\* times and only before Run has answered, and "ok" is said after its last copy
\* succeeded, whatever fails and however late the copies run.
THEOREM Refinement == TransportSpec => ImplementsRemoteCommand
<1>1. IInv /\ [TransportNext]_transport => [Remote!Next]_Remote!vars
  <2> SUFFICES ASSUME IInv, [TransportNext]_transport PROVE [Remote!Next]_Remote!vars
    OBVIOUS
  <2>1. CASE alive /\ Configure /\ UNCHANGED runs
    BY <2>1, Still DEF runs
  <2>2. ASSUME NEW r \in Runs, Progress(r) PROVE [Remote!Next]_Remote!vars
    BY <2>2, ProgressRefines
  <2>3. ASSUME NEW r \in Runs, NEW n \in Attempts, Execute(r, n) PROVE Remote!Next
    BY <2>3, Executing
  <2>4. CASE Kill
    BY <2>4, Still DEF Kill
  <2>5. CASE UNCHANGED transport
    BY <2>5, Still DEF transport, runs
  <2> QED BY <2>1, <2>2, <2>3, <2>4, <2>5 DEF TransportNext
<1> QED BY InitRefines, Invariance, <1>1, PTL DEF TransportSpec, ImplementsRemoteCommand, Remote!Spec
=============================================================================
