-------------------------- MODULE HostConfigProofs --------------------------
(***************************************************************************)
(* HostConfig keeps its types, a finished apply has set the declared       *)
(* settings and left snmpd running, and the plan a refresh leads to is     *)
(* true, for any block, any number of attempts, edits and faults.          *)
(***************************************************************************)
EXTENDS HostConfig, WellFoundedInduction, TLAPS

-----------------------------------------------------------------------------
\* The inductive invariant.

\* The settings of the commands behind the apply are as the plan wants them,
\* except where others or late commands interfered.
DoneInv ==
  pc = "apply" =>
    \A j \in 1..(at - 1) : Needed(Commands[j], plan) =>
      \A a \in Rewrites(Commands[j]) \ touched : host[a] = Built(a)

\* With snmpv3 the daemon is down while its file is written, and what starts it
\* after that has the new file, unless a masked failure or a late command came
\* between.
SNMPInv ==
  /\ pc = "apply" /\ "snmpd" \notin touched /\ plan["snmpv3"] # Null =>
       /\ at = 11 => snmpd = "stopped"
       /\ at = 12 => snmpd # "stale"
  /\ pc = "apply" /\ "snmpd" \notin touched /\ at > 12 /\ (\E a \in SNMP : plan[a] # Null)
       => snmpd = "running"

IInv == TypeOK /\ DoneInv /\ SNMPInv

-----------------------------------------------------------------------------
\* The places of the commands.
LEMMA Places ==
  /\ Commands[1] = "hostname" /\ Commands[2] = "dns" /\ Commands[3] = "ntp"
  /\ Commands[4] = "syslog" /\ Commands[5] = "logrotate" /\ Commands[6] = "ssh_port"
  /\ Commands[7] = "ssh_password_auth" /\ Commands[8] = "ssh_allow_users"
  /\ Commands[9] = "snmp install" /\ Commands[10] = "snmp v3 pre"
  /\ Commands[11] = "snmp config" /\ Commands[12] = "snmp start"
  /\ Commands[13] = "snmp trap"
  /\ Len(Commands) = 13 /\ End = 14
  BY DEF Commands, End

LEMMA Ranges ==
  /\ \A i \in 1..14 : i \in 1..End
  /\ 1 \in 1..End
  /\ 1 \in 1..maxSSHAttempts
<1>1. End = 14
  BY Places
<1> QED BY <1>1, HostAssumption

LEMMA Before ==
  ASSUME NEW i \in 1..14, NEW j \in 1..(i - 1)
  PROVE  j \in 1..13 /\ j < i
  OBVIOUS

LEMMA At ==
  ASSUME TypeOK
  PROVE  at \in 1..14 /\ (at # End => at \in 1..13) /\ (at = End => at = 14)
<1>1. at \in 1..14 /\ End = 14
  BY Places DEF TypeOK
<1> QED BY <1>1

\* While the plan stays, its commands mean the same.
LEMMA SamePlan ==
  ASSUME plan' = plan
  PROVE  /\ \A j \in 1..13 : Needed(Commands[j], plan)' <=> Needed(Commands[j], plan)
         /\ \A j \in 1..13 : Rewrites(Commands[j])' = Rewrites(Commands[j])
         /\ \A a \in Attrs : Built(a)' = Built(a)
<1>1. \A j \in 1..13 : Rewrites(Commands[j])' = Rewrites(Commands[j])
  BY DEF Rewrites
<1>2. \A a \in Attrs : Built(a)' = Built(a)
  BY DEF Built
<1> QED BY <1>1, <1>2

\* A nonempty set of numbers has a least one.
LEMMA Least ==
  ASSUME NEW S \in SUBSET Nat, S # {}
  PROVE  Min(S) \in S /\ \A y \in S : Min(S) <= y
<1>1. PICK x \in S : \A y \in S : ~ (<<y, x>> \in OpToRel(<, Nat))
  BY NatLessThanWellFounded, WFMin
<1>2. \A y \in S : x <= y
  <2> SUFFICES ASSUME NEW y \in S, ~ (x <= y) PROVE FALSE
    OBVIOUS
  <2>1. y < x /\ y \in Nat /\ x \in Nat
    OBVIOUS
  <2>2. <<y, x>> \in OpToRel(<, Nat)
    BY <2>1 DEF OpToRel
  <2> QED BY <1>1, <2>2
<1> QED BY <1>2 DEF Min

\* NextNeeded skips exactly the commands that are not needed.
LEMMA Next_Needed ==
  ASSUME NEW i \in 1..14, NEW p
  PROVE  /\ NextNeeded(i, p) \in i..14
         /\ \A j \in i..13 : j < NextNeeded(i, p) => ~ Needed(Commands[j], p)
<1> DEFINE S == {j \in i..Len(Commands) : Needed(Commands[j], p)} \cup {End}
<1>1. S \in SUBSET Nat /\ S # {} /\ S \subseteq i..14 /\ 14 \in S
  <2>1. S = {j \in i..13 : Needed(Commands[j], p)} \cup {14}
    BY Places
  <2>2. {j \in i..13 : Needed(Commands[j], p)} \subseteq i..13
    OBVIOUS
  <2>3. i..13 \subseteq i..14 /\ i..14 \subseteq Nat /\ 14 \in i..14
    OBVIOUS
  <2> HIDE DEF S
  <2> QED BY <2>1, <2>2, <2>3
<1>2. Min(S) \in S /\ \A y \in S : Min(S) <= y
  BY <1>1, Least
<1>3. NextNeeded(i, p) = Min(S)
  BY DEF NextNeeded
<1>4. \A j \in i..13 : Needed(Commands[j], p) => j \in S
  BY Places
<1> HIDE DEF S
<1>5. NextNeeded(i, p) \in S /\ \A y \in S : NextNeeded(i, p) <= y
  BY <1>2, <1>3
<1>6. NextNeeded(i, p) \in i..14
  BY <1>1, <1>5
<1>7. ASSUME NEW j \in i..13, j < NextNeeded(i, p), Needed(Commands[j], p)
      PROVE  FALSE
  <2>1. NextNeeded(i, p) <= j
    BY <1>4, <1>5, <1>7
  <2> QED BY <2>1, <1>6, <1>7
<1> QED BY <1>6, <1>7

\* What is left without the parts that the read script drops is plain.
LEMMA BareType ==
  ASSUME NEW x \in Settings
  PROVE  Bare(x) \in Plain /\ (x \in Plain => Bare(x) = x)
  BY DEF Settings, Plain, Bare

LEMMA BuiltType ==
  ASSUME TypeOK, NEW a \in Attrs
  PROVE  Built(a) \in Settings
<1>1. CASE plan[a] \in {Null, "blank"}
  BY <1>1 DEF Built, Settings, Plain
<1>2. CASE plan[a] \notin {Null, "blank"}
  <2>1. plan[a] \in Settings
    BY <1>2 DEF TypeOK
  <2>2. Bare(plan[a]) \in Settings
    BY <2>1, BareType DEF Settings
  <2> QED BY <1>2, <2>1, <2>2 DEF Built, Written
<1> QED BY <1>1, <1>2

\* The effect of a command on the files.
LEMMA FilesType ==
  ASSUME TypeOK, NEW c
  PROVE  Files(c) \in [Attrs -> Settings]
<1>1. \A a \in Attrs : Built(a) \in Settings
  BY BuiltType
<1> QED BY <1>1 DEF Files, TypeOK

\* A command leaves the settings that are as planned as they are.
LEMMA FilesKeep ==
  ASSUME NEW c, NEW a \in Attrs, host[a] = Built(a)
  PROVE  Files(c)[a] = Built(a)
  BY DEF Files

LEMMA RewritesAttrs == ASSUME NEW j \in 1..13 PROVE Rewrites(Commands[j]) \subseteq Attrs
<1>1. Commands[j] \in
        {"hostname", "dns", "ntp", "syslog", "logrotate", "ssh_port", "ssh_password_auth",
         "ssh_allow_users", "snmp install", "snmp v3 pre", "snmp config", "snmp start",
         "snmp trap"}
  <2>1. j \in {1, 2, 3, 4, 5, 6, 7, 8, 9, 10, 11, 12, 13}
    OBVIOUS
  <2> QED BY <2>1, Places
<1> QED BY <1>1 DEF Rewrites, AttrsOf, Attrs, Syslog, SNMP, Numbers, ApplyOnly

\* What is set before a step and after it, under one plan.
LEMMA DoneNext ==
  ASSUME plan' = plan, at' \in 1..14,
         \A j \in 1..(at' - 1) : Needed(Commands[j], plan) =>
           \A a \in Rewrites(Commands[j]) \ touched' : host'[a] = Built(a)
  PROVE  DoneInv'
<1> SUFFICES ASSUME NEW j \in 1..(at' - 1), Needed(Commands[j], plan)',
                    NEW a \in Rewrites(Commands[j])' \ touched'
             PROVE  host'[a] = Built(a)'
  BY DEF DoneInv
<1>1. j \in 1..13
  BY Before
<1>2. Needed(Commands[j], plan) /\ a \in Rewrites(Commands[j]) \ touched'
  BY <1>1, SamePlan
<1>3. Built(a)' = Built(a)
  BY <1>1, <1>2, SamePlan, RewritesAttrs
<1> QED BY <1>2, <1>3

LEMMA DaemonType == ASSUME TypeOK, NEW c PROVE Daemon(c) \in {"running", "stale", "stopped"}
  BY DEF Daemon, TypeOK

\* SNMP is managed by the commands 9, 11 and 12, and by 10 with snmpv3.
LEMMA SNMPNeeded ==
  ASSUME NEW p, \E a \in SNMP : p[a] # Null
  PROVE  /\ Needed(Commands[9], p) /\ Needed(Commands[11], p) /\ Needed(Commands[12], p)
         /\ p["snmpv3"] # Null => Needed(Commands[10], p)
  BY Places DEF Needed, AttrsOf

-----------------------------------------------------------------------------
\* A declared attribute that apply() acts on has a command that sets it.
LEMMA SetBySome ==
  ASSUME NEW a \in Effective(plan)
  PROVE  \E j \in 1..13 : Needed(Commands[j], plan) /\ a \in Rewrites(Commands[j])
<1>1. a \in Attrs /\ plan[a] # Null
  BY DEF Effective
<1>2. CASE a = "hostname"
  <2>1. Needed(Commands[1], plan) /\ a \in Rewrites(Commands[1])
    BY <1>1, <1>2, Places DEF Needed, AttrsOf, Rewrites
  <2> QED BY <2>1
<1>3. CASE a \in {"dns_servers", "dns_search_domain"}
  <2>1. Needed(Commands[2], plan) /\ a \in Rewrites(Commands[2])
    BY <1>1, <1>3, Places DEF Needed, AttrsOf, Rewrites
  <2> QED BY <2>1
<1>4. CASE a = "ntp_servers"
  <2>1. Needed(Commands[3], plan) /\ a \in Rewrites(Commands[3])
    BY <1>1, <1>4, Places DEF Needed, AttrsOf, Rewrites
  <2> QED BY <2>1
<1>5. CASE a \in Syslog
  <2>1. Needed(Commands[4], plan) /\ a \in Rewrites(Commands[4])
    BY <1>5, Places DEF Needed, AttrsOf, Rewrites, Effective
  <2> QED BY <2>1
<1>6. CASE a = "log_retention_days"
  <2>1. Needed(Commands[5], plan) /\ a \in Rewrites(Commands[5])
    BY <1>1, <1>6, Places DEF Needed, AttrsOf, Rewrites
  <2> QED BY <2>1
<1>7. CASE a = "ssh_port"
  <2>1. Needed(Commands[6], plan) /\ a \in Rewrites(Commands[6])
    BY <1>1, <1>7, Places DEF Needed, AttrsOf, Rewrites
  <2> QED BY <2>1
<1>8. CASE a = "ssh_password_auth"
  <2>1. Needed(Commands[7], plan) /\ a \in Rewrites(Commands[7])
    BY <1>1, <1>8, Places DEF Needed, AttrsOf, Rewrites
  <2> QED BY <2>1
<1>9. CASE a \in {"ssh_allow_users", "ssh_allow_groups"}
  <2>1. Needed(Commands[8], plan) /\ a \in Rewrites(Commands[8])
    BY <1>1, <1>9, Places DEF Needed, AttrsOf, Rewrites
  <2> QED BY <2>1
<1>10. CASE a \in SNMP
  <2>1. Needed(Commands[11], plan) /\ a \in Rewrites(Commands[11])
    BY <1>1, <1>10, Places DEF Needed, AttrsOf, Rewrites
  <2> QED BY <2>1
<1>11. CASE a = "snmp_trap_target"
  <2>1. Needed(Commands[13], plan) /\ a \in Rewrites(Commands[13])
    BY <1>11, Places DEF Needed, AttrsOf, Rewrites, Effective
  <2> QED BY <2>1
<1>12. a \in {"hostname", "dns_servers", "dns_search_domain", "ntp_servers",
              "log_retention_days", "ssh_port", "ssh_password_auth", "ssh_allow_users",
              "ssh_allow_groups", "snmp_trap_target"} \cup Syslog \cup SNMP
  BY <1>1 DEF Attrs, Numbers, ApplyOnly, SNMP
<1> QED BY <1>2, <1>3, <1>4, <1>5, <1>6, <1>7, <1>8, <1>9, <1>10, <1>11, <1>12

\* And what it sets is what was declared.
LEMMA SetAsDeclared ==
  ASSUME NEW a \in Effective(plan)
  PROVE  Built(a) = Written(a, plan[a])
<1>1. plan[a] # Null
  BY DEF Effective
<1>2. CASE plan[a] = "blank"
  <2>1. a \notin Syslog /\ Bare("blank") = "blank"
    BY <1>2 DEF Effective, Bare
  <2> QED BY <1>2, <2>1 DEF Built, Written
<1>3. CASE plan[a] # "blank"
  BY <1>1, <1>3 DEF Built
<1> QED BY <1>2, <1>3

-----------------------------------------------------------------------------
\* Every action keeps the invariant.

LEMMA InitIInv == Init => IInv
<1> SUFFICES ASSUME Init PROVE IInv
  OBVIOUS
<1>1. config \in [Attrs -> {Null} \cup Settings]
  BY DEF Init, Settings, Plain
<1>2. /\ host \in [Attrs -> Settings]
      /\ state \in [Attrs -> {Null} \cup Settings]
      /\ plan \in [Attrs -> {Null} \cup Settings]
  BY DEF Init, Undeclared, Settings, Plain
<1>3. at \in 1..End /\ tries \in 1..maxSSHAttempts
  BY Ranges DEF Init
<1>4. TypeOK
  BY <1>1, <1>2, <1>3 DEF Init, TypeOK
<1> QED BY <1>4 DEF Init, IInv, DoneInv, SNMPInv

\* Each setting is written by one command.
Writer(a) ==
  IF a = "hostname" THEN 1
  ELSE IF a \in {"dns_servers", "dns_search_domain"} THEN 2
  ELSE IF a = "ntp_servers" THEN 3
  ELSE IF a \in Syslog THEN 4
  ELSE IF a = "log_retention_days" THEN 5
  ELSE IF a = "ssh_port" THEN 6
  ELSE IF a = "ssh_password_auth" THEN 7
  ELSE IF a \in {"ssh_allow_users", "ssh_allow_groups"} THEN 8
  ELSE IF a \in SNMP THEN 11
  ELSE 13

LEMMA WrittenBy ==
  ASSUME NEW j \in 1..13, NEW a \in AttrsOf(Commands[j]), j \notin {9, 10, 12}
  PROVE  Writer(a) = j
<1>1. j \in {1, 2, 3, 4, 5, 6, 7, 8, 11, 13}
  OBVIOUS
<1>2. /\ AttrsOf(Commands[1]) = {"hostname"}
      /\ AttrsOf(Commands[2]) = {"dns_servers", "dns_search_domain"}
      /\ AttrsOf(Commands[3]) = {"ntp_servers"}
      /\ AttrsOf(Commands[4]) = Syslog
  BY Places DEF AttrsOf
<1>3. /\ AttrsOf(Commands[5]) = {"log_retention_days"}
      /\ AttrsOf(Commands[6]) = {"ssh_port"}
      /\ AttrsOf(Commands[7]) = {"ssh_password_auth"}
      /\ AttrsOf(Commands[8]) = {"ssh_allow_users", "ssh_allow_groups"}
  BY Places DEF AttrsOf
<1>4. /\ AttrsOf(Commands[11]) = SNMP
      /\ AttrsOf(Commands[13]) = {"snmp_trap_target"}
  BY Places DEF AttrsOf
<1>5. CASE j \in {1, 2, 3}
  BY <1>2, <1>5 DEF Writer
<1>6. CASE j = 4
  BY <1>2, <1>6 DEF Writer, Syslog
<1>7. CASE j = 5
  <2>1. a = "log_retention_days"
    BY <1>3, <1>7
  <2> QED BY <2>1, <1>7 DEF Writer, Syslog
<1>8. CASE j = 6
  <2>1. a = "ssh_port"
    BY <1>3, <1>8
  <2> QED BY <2>1, <1>8 DEF Writer, Syslog
<1>9. CASE j = 7
  <2>1. a = "ssh_password_auth"
    BY <1>3, <1>9
  <2> QED BY <2>1, <1>9 DEF Writer, Syslog
<1>10. CASE j = 8
  <2>1. a = "ssh_allow_users" \/ a = "ssh_allow_groups"
    BY <1>3, <1>10
  <2> QED BY <2>1, <1>10 DEF Writer, Syslog
<1>11. CASE j = 11
  <2>1. /\ a \in SNMP /\ a \notin Syslog
        /\ a \notin {"hostname", "dns_servers", "dns_search_domain", "ntp_servers",
                     "log_retention_days", "ssh_port", "ssh_password_auth", "ssh_allow_users",
                     "ssh_allow_groups"}
    BY <1>4, <1>11 DEF SNMP, Syslog
  <2> QED BY <2>1, <1>11 DEF Writer
<1>12. CASE j = 13
  <2>1. a = "snmp_trap_target"
    BY <1>4, <1>12
  <2> QED BY <2>1, <1>12 DEF Writer, Syslog, SNMP
<1> QED BY <1>1, <1>5, <1>6, <1>7, <1>8, <1>9, <1>10, <1>11, <1>12

LEMMA RewrittenBy ==
  ASSUME NEW j \in 1..13, NEW a \in Rewrites(Commands[j])
  PROVE  Writer(a) = j
<1>1. j \notin {9, 10, 12}
  BY Places DEF Rewrites
<1>2. a \in AttrsOf(Commands[j])
  BY <1>1, Places DEF Rewrites, AttrsOf
<1> QED BY <1>1, <1>2, WrittenBy

\* What a command cut off empties was not written by an earlier one.
LEMMA TruncateKeeps ==
  ASSUME IInv, pc = "apply", at \in 1..13, Truncate(Commands[at]),
         NEW j \in 1..(at - 1), Needed(Commands[j], plan),
         NEW a \in Rewrites(Commands[j]) \ touched
  PROVE  host'[a] = Built(a)
<1>1. j \in 1..13 /\ j # at
  OBVIOUS
<1>2. a \in Attrs /\ host[a] = Built(a)
  BY <1>1, RewritesAttrs DEF IInv, DoneInv
<1>3. at \notin {9, 10, 12}
  BY Places DEF Truncate, Redirected
<1>4. a \notin AttrsOf(Commands[at])
  BY <1>1, <1>3, WrittenBy, RewrittenBy
<1>5. host' = [b \in Attrs |-> IF b \in AttrsOf(Commands[at]) THEN "blank" ELSE host[b]]
  BY DEF Truncate
<1> QED BY <1>2, <1>4, <1>5

\* A command is carried out, cut off or put off, once or repeatedly.
Attempted(c) ==
  \/ Execute(c) /\ UNCHANGED late
  \/ UNCHANGED <<node, late>>
  \/ Truncate(c) /\ UNCHANGED late
  \/ Linger(c)

LEMMA ExecuteKeeps ==
  ASSUME IInv, pc = "apply", at \in 1..13,
         Execute(Commands[at]) \/ UNCHANGED node \/ Truncate(Commands[at])
  PROVE  /\ host' \in [Attrs -> Settings]
         /\ snmpd' \in {"running", "stale", "stopped"}
         /\ door' \in {"open", "shut"}
         /\ \A j \in 1..(at - 1) : Needed(Commands[j], plan) =>
              \A a \in Rewrites(Commands[j]) \ touched : host'[a] = Built(a)
         /\ "snmpd" \notin touched =>
              /\ plan["snmpv3"] # Null /\ at = 11 => snmpd' = "stopped"
              /\ plan["snmpv3"] # Null /\ at = 12 => snmpd' # "stale"
              /\ at > 12 /\ (\E a \in SNMP : plan[a] # Null) => snmpd' = "running"
<1> USE DEF IInv
<1>1. CASE UNCHANGED node
  BY <1>1 DEF node, TypeOK, DoneInv, SNMPInv
<1>2. CASE Execute(Commands[at])
  <2>1. host' = Files(Commands[at]) /\ snmpd' = Daemon(Commands[at])
    BY <1>2 DEF Execute
  <2>2. host' \in [Attrs -> Settings] /\ snmpd' \in {"running", "stale", "stopped"}
    BY <2>1, FilesType, DaemonType
  <2>3. door' \in {"open", "shut"}
    BY <1>2 DEF Execute, Door, TypeOK
  <2>4. ASSUME NEW j \in 1..(at - 1), Needed(Commands[j], plan),
               NEW a \in Rewrites(Commands[j]) \ touched
        PROVE  host'[a] = Built(a)
    <3>1. j \in 1..13
      OBVIOUS
    <3>2. a \in Attrs /\ host[a] = Built(a)
      BY <2>4, <3>1, RewritesAttrs DEF DoneInv
    <3> QED BY <2>1, <3>2, FilesKeep
  <2>5. at = 11 /\ plan["snmpv3"] # Null /\ "snmpd" \notin touched => snmpd' = "stopped"
    BY <2>1, Places DEF Daemon, SNMPInv
  <2>6. at = 12 /\ plan["snmpv3"] # Null /\ "snmpd" \notin touched => snmpd' # "stale"
    BY <2>1, Places DEF Daemon, SNMPInv
  <2>7. at > 12 /\ (\E a \in SNMP : plan[a] # Null) => snmpd' = "running"
    <3>1. at > 12 => at = 13
      OBVIOUS
    <3> QED BY <2>1, <3>1, Places DEF Daemon
  <2> QED BY <2>2, <2>3, <2>4, <2>5, <2>6, <2>7
<1>3. CASE Truncate(Commands[at])
  <2>1. /\ host' = [a \in Attrs |-> IF a \in AttrsOf(Commands[at]) THEN "blank" ELSE host[a]]
        /\ snmpd' = IF at = 11 THEN Daemon(Commands[at]) ELSE snmpd
        /\ door' = door
    <3>1. Commands[at] = "snmp config" <=> at = 11
      <4>1. at \in {1, 2, 3, 4, 5, 6, 7, 8, 9, 10, 11, 12, 13}
        OBVIOUS
      <4> QED BY <4>1, Places
    <3> QED BY <1>3, <3>1 DEF Truncate
  <2>9. at # 12
    BY <1>3, Places DEF Truncate, Redirected
  <2>2. host' \in [Attrs -> Settings] /\ door' \in {"open", "shut"}
    BY <2>1 DEF TypeOK, Settings, Plain
  <2>3. snmpd' \in {"running", "stale", "stopped"}
    BY <2>1, DaemonType DEF TypeOK
  <2>4. \A j \in 1..(at - 1) : Needed(Commands[j], plan) =>
              \A a \in Rewrites(Commands[j]) \ touched : host'[a] = Built(a)
    BY <1>3, TruncateKeeps
  <2>5. at = 11 /\ plan["snmpv3"] # Null /\ "snmpd" \notin touched => snmpd' = "stopped"
    BY <2>1, Places DEF Daemon, SNMPInv
  <2>6. at > 12 /\ (\E a \in SNMP : plan[a] # Null) /\ "snmpd" \notin touched => snmpd' = "running"
    BY <2>1 DEF SNMPInv
  <2> QED BY <2>2, <2>3, <2>4, <2>5, <2>6, <2>9
<1> QED BY <1>1, <1>2, <1>3

\* What lingers has the types of a command and its files.
LEMMA LateType ==
  ASSUME TypeOK, at \in 1..13, Attempted(Commands[at])
  PROVE  late' \subseteq [command : {Commands[i] : i \in 1..Len(Commands)},
                         files : [Attrs -> {Null} \cup Settings]]
<1>1. CASE UNCHANGED late
  BY <1>1 DEF TypeOK
<1>2. CASE Linger(Commands[at])
  <2> DEFINE f == [a \in Attrs |-> IF a \in Rewrites(Commands[at]) THEN Built(a) ELSE Null]
  <2>1. \A a \in Attrs : Built(a) \in Settings
    BY BuiltType
  <2>2. f \in [Attrs -> {Null} \cup Settings]
    BY <2>1
  <2>3. Commands[at] \in {Commands[i] : i \in 1..Len(Commands)}
    BY Places
  <2>4. late' = late \cup {[command |-> Commands[at], files |-> f]}
    BY <1>2 DEF Linger
  <2> HIDE DEF f
  <2> QED BY <2>2, <2>3, <2>4 DEF TypeOK
<1> QED BY <1>1, <1>2 DEF Attempted

\* A command that has returned is done: the setting it writes are set, and the
\* daemon stands where the next command expects it.
LEMMA RunSucceedsKeeps ==
  ASSUME IInv, RunSucceeds
  PROVE  IInv'
<1> USE DEF IInv
<1>1. /\ pc = "apply" /\ at \in 1..13
      /\ \/ Execute(Commands[at]) /\ touched' = touched
         \/ Masked(Commands[at])
      /\ at' = NextNeeded(at + 1, plan)
      /\ tries' = 1
      /\ UNCHANGED <<ssh, config, inState, state, pc, plan, late>>
  BY At DEF RunSucceeds, saved
<1>2. /\ host' \in [Attrs -> Settings]
      /\ snmpd' \in {"running", "stale", "stopped"}
      /\ door' \in {"open", "shut"}
      /\ \A j \in 1..(at - 1) : Needed(Commands[j], plan) =>
           \A a \in Rewrites(Commands[j]) \ touched' : host'[a] = Built(a)
      /\ at > 12 /\ (\E a \in SNMP : plan[a] # Null) /\ "snmpd" \notin touched'
           => snmpd' = "running"
      /\ touched' \subseteq Attrs \cup {"snmpd"}
      /\ host' = Files(Commands[at])
  <2>1. CASE Execute(Commands[at]) /\ touched' = touched
    BY <1>1, <2>1, ExecuteKeeps DEF TypeOK, Execute
  <2>2. CASE Masked(Commands[at])
    <3>1. /\ host' = Files(Commands[at]) /\ snmpd' \in {snmpd, "stopped"} /\ door' = door
          /\ touched' = touched \cup {"snmpd"}
      BY <2>2 DEF Masked
    <3>2. host' \in [Attrs -> Settings]
      BY <3>1, FilesType
    <3>3. ASSUME NEW j \in 1..(at - 1), Needed(Commands[j], plan),
                 NEW a \in Rewrites(Commands[j]) \ touched'
          PROVE  host'[a] = Built(a)
      <4>1. j \in 1..13
        BY <1>1
      <4>2. a \in Attrs /\ host[a] = Built(a)
        BY <1>1, <3>1, <3>3, <4>1, RewritesAttrs DEF DoneInv
      <4> QED BY <3>1, <4>2, FilesKeep
    <3> QED BY <3>1, <3>2, <3>3 DEF TypeOK
  <2> QED BY <1>1, <2>1, <2>2
<1>3. at + 1 \in 1..14 /\ at' \in (at + 1)..14
  BY <1>1, Next_Needed
<1>4. \A j \in (at + 1)..13 : j < at' => ~ Needed(Commands[j], plan)
  BY <1>1, <1>3, Next_Needed
<1>5. TypeOK'
  <2>1. at' \in 1..End /\ tries' \in 1..maxSSHAttempts
    BY <1>1, <1>3, Ranges
  <2> QED BY <1>1, <1>2, <2>1 DEF TypeOK
<1>6. DoneInv'
  <2> SUFFICES ASSUME NEW j \in 1..(at' - 1), Needed(Commands[j], plan),
                      NEW a \in Rewrites(Commands[j]) \ touched'
               PROVE  host'[a] = Built(a)
    BY <1>1, <1>3, DoneNext
  <2>1. CASE j < at
    BY <2>1, <1>1, <1>2
  <2>2. CASE j = at
    <3>1. a \in Attrs
      BY <1>1, <2>2, RewritesAttrs
    <3> QED BY <1>2, <2>2, <3>1 DEF Files
  <2>3. CASE j > at
    BY <2>3, <1>1, <1>3, <1>4
  <2> QED BY <2>1, <2>2, <2>3, <1>1
<1>7. SNMPInv'
  <2>0. "snmpd" \notin touched' => Execute(Commands[at]) /\ "snmpd" \notin touched
    BY <1>1 DEF Masked
  <2>1. ASSUME \E a \in SNMP : plan[a] # Null
        PROVE  /\ at < 9 => at' <= 9
               /\ at < 11 => at' <= 11
               /\ at < 12 => at' <= 12
               /\ at < 10 /\ plan["snmpv3"] # Null => at' <= 10
    BY <2>1, <1>1, <1>3, <1>4, SNMPNeeded
  <2>2. plan["snmpv3"] # Null => \E a \in SNMP : plan[a] # Null
    BY DEF SNMP
  <2>3. plan["snmpv3"] # Null /\ at' = 11 /\ "snmpd" \notin touched' => snmpd' = "stopped"
    <3>1. plan["snmpv3"] # Null /\ at' = 11 => at = 10
      BY <1>1, <1>3, <2>1, <2>2
    <3> QED BY <2>0, <3>1, Places DEF Execute, Daemon
  <2>4. plan["snmpv3"] # Null /\ at' = 12 /\ "snmpd" \notin touched' => snmpd' = "stopped"
    <3>1. plan["snmpv3"] # Null /\ at' = 12 => at = 11
      BY <1>1, <1>3, <2>1, <2>2
    <3>2. plan["snmpv3"] # Null /\ at = 11 /\ "snmpd" \notin touched => snmpd = "stopped"
      BY <1>1 DEF SNMPInv
    <3> QED BY <2>0, <3>1, <3>2, Places DEF Execute, Daemon
  <2>5. (\E a \in SNMP : plan[a] # Null) /\ at' > 12 /\ "snmpd" \notin touched' => snmpd' = "running"
    <3>1. (\E a \in SNMP : plan[a] # Null) /\ at' > 12 => at >= 12
      BY <1>1, <1>3, <2>1
    <3>2. at = 12 /\ "snmpd" \notin touched' => snmpd' = "running"
      <4>1. at = 12 /\ plan["snmpv3"] # Null /\ "snmpd" \notin touched
              => snmpd \in {"running", "stopped"}
        BY <1>1 DEF SNMPInv, TypeOK
      <4> QED BY <2>0, <4>1, Places DEF Execute, Daemon
    <3> QED BY <1>1, <1>2, <3>1, <3>2
  <2> QED BY <1>1, <2>3, <2>4, <2>5 DEF SNMPInv
<1> QED BY <1>5, <1>6, <1>7

\* A repeated command stays at its place.
LEMMA RunRetriesKeeps ==
  ASSUME IInv, RunRetries
  PROVE  IInv'
<1> USE DEF IInv
<1>1. /\ pc = "apply" /\ at \in 1..13
      /\ Execute(Commands[at]) \/ UNCHANGED node \/ Truncate(Commands[at])
      /\ Attempted(Commands[at])
      /\ tries' \in 1..maxSSHAttempts
      /\ UNCHANGED <<ssh, config, inState, state, pc, plan, at, touched>>
  <2>1. at # End /\ tries \in 1..maxSSHAttempts /\ tries < maxSSHAttempts
    BY DEF RunRetries, Faulted, TypeOK
  <2>2. tries + 1 \in 1..maxSSHAttempts
    BY <2>1, HostAssumption
  <2> QED BY <2>1, <2>2, At DEF RunRetries, Faulted, Attempted, Linger, saved
<1>2. TypeOK'
  BY <1>1, ExecuteKeeps, LateType DEF TypeOK
<1>3. DoneInv'
  BY <1>1, ExecuteKeeps, DoneNext
<1>4. SNMPInv'
  BY <1>1, ExecuteKeeps DEF SNMPInv
<1> QED BY <1>2, <1>3, <1>4

\* Where no apply is under way afterwards, only the types matter.
LEMMA IdleKeeps ==
  ASSUME TypeOK', pc' # "apply"
  PROVE  IInv'
  BY DEF IInv, DoneInv, SNMPInv

\* An apply that fails or ends.
LEMMA EndKeeps ==
  ASSUME IInv, RunFails \/ Finish
  PROVE  IInv'
<1> USE DEF IInv
<1>1. Undeclared \in [Attrs -> {Null} \cup Settings]
  BY DEF Undeclared
<1>2. CASE RunFails
  <2>1. /\ pc = "apply" /\ at \in 1..13 /\ Attempted(Commands[at])
        /\ Execute(Commands[at]) \/ UNCHANGED node \/ Truncate(Commands[at])
    BY <1>2, At DEF RunFails, Faulted, Attempted, Linger
  <2>2. /\ host' \in [Attrs -> Settings]
        /\ snmpd' \in {"running", "stale", "stopped"}
        /\ door' \in {"open", "shut"}
    BY <2>1, ExecuteKeeps
  <2>3. TypeOK' /\ pc' = "idle"
    <3>1. at' \in 1..End /\ tries' \in 1..maxSSHAttempts
      BY <1>2, Ranges DEF RunFails
    <3>2. late' \subseteq [command : {Commands[i] : i \in 1..Len(Commands)},
                          files : [Attrs -> {Null} \cup Settings]]
      BY <2>1, LateType
    <3> QED BY <1>2, <1>1, <2>2, <3>1, <3>2 DEF RunFails, TypeOK, saved
  <2> QED BY <2>3, IdleKeeps
<1>3. CASE Finish
  <2>1. TypeOK' /\ pc' = "idle"
    <3>1. at' \in 1..End
      BY <1>3, Ranges DEF Finish
    <3> QED BY <1>3, <1>1, <3>1 DEF Finish, TypeOK, node
  <2> QED BY <2>1, IdleKeeps
<1> QED BY <1>2, <1>3

\* What the script prints is plain, and so is what Read makes of it.
LEMMA EmittedType ==
  ASSUME TypeOK, NEW a \in Attrs
  PROVE  Emitted(a) \in Plain
<1>1. host[a] \in Settings
  BY DEF TypeOK
<1> QED BY <1>1, BareType DEF Emitted, Plain

LEMMA RefreshedType ==
  ASSUME TypeOK, NEW s, NEW a \in Attrs
  PROVE  Refreshed(s, a) = s[a] \/ (s[a] # Null /\ Refreshed(s, a) \in Plain)
  BY EmittedType DEF Refreshed, Plain

LEMMA DeclarableType ==
  ASSUME NEW a, NEW x \in Declarable(a)
  PROVE  x \in {Null} \cup Settings
  BY DEF Declarable, Settings, Plain

\* Refresh, plan and the changes people make between runs.
LEMMA BetweenKeeps ==
  ASSUME IInv, EditConfig \/ Import \/ Delete \/ Read \/ ReadFails
  PROVE  IInv'
<1> USE DEF IInv
<1>1. Undeclared \in [Attrs -> {Null} \cup Settings]
  BY DEF Undeclared
<1>2. \A a \in Attrs : Refreshed(state, a) \in {Null} \cup Settings
  BY RefreshedType DEF TypeOK, Settings
<1>3. pc' # "apply"
  BY DEF EditConfig, Import, Delete, Read, ReadFails, run
<1>4. CASE EditConfig
  <2>1. config' \in [Attrs -> {Null} \cup Settings]
    BY <1>4, DeclarableType DEF EditConfig, TypeOK
  <2> QED BY <1>3, <1>4, <2>1, IdleKeeps DEF EditConfig, TypeOK, node, saved, run
<1>5. CASE Import \/ Delete
  BY <1>1, <1>3, <1>5, IdleKeeps DEF Import, Delete, TypeOK, node, run
<1>6. CASE Read
  BY <1>2, <1>3, <1>6, IdleKeeps DEF Read, TypeOK, node
<1>7. CASE ReadFails
  BY <1>3, <1>7, IdleKeeps DEF ReadFails, TypeOK, node, saved, run
<1> QED BY <1>4, <1>5, <1>6, <1>7

\* Changes that are remembered as interference.
LEMMA TouchKeeps ==
  ASSUME IInv, NEW X, Touch(X),
         UNCHANGED <<pc, plan, at>>,
         \A a \in Attrs \ X : host'[a] = host[a],
         "snmpd" \notin X => snmpd' = snmpd
  PROVE  DoneInv' /\ SNMPInv'
<1> USE DEF IInv
<1>1. DoneInv'
  <2>1. CASE pc = "apply"
    <3> SUFFICES ASSUME NEW j \in 1..(at' - 1), Needed(Commands[j], plan),
                        NEW b \in Rewrites(Commands[j]) \ touched'
                 PROVE  host'[b] = Built(b)
      BY At, DoneNext
    <3>1. j \in 1..(at - 1) /\ j \in 1..13 /\ b \notin touched /\ b \notin X
      BY <2>1, At DEF Touch
    <3>2. b \in Attrs /\ host[b] = Built(b)
      BY <2>1, <3>1, RewritesAttrs DEF DoneInv
    <3> QED BY <3>1, <3>2
  <2>2. CASE pc # "apply"
    BY <2>2 DEF DoneInv
  <2> QED BY <2>1, <2>2
<1>2. SNMPInv'
  <2>1. CASE pc = "apply"
    BY <2>1 DEF SNMPInv, Touch
  <2>2. CASE pc # "apply"
    BY <2>2 DEF SNMPInv
  <2> QED BY <2>1, <2>2
<1> QED BY <1>1, <1>2

\* An edit of the node is remembered.
LEMMA EditHostKeeps ==
  ASSUME IInv, EditHost
  PROVE  IInv'
<1> USE DEF IInv
<1>1. PICK a \in Attrs, x \in Settings : host' = [host EXCEPT ![a] = x] /\ Touch({a})
  BY HostAssumption DEF EditHost
<1>2. UNCHANGED <<snmpd, door, ssh, config, inState, state, pc, plan, at, tries, late>>
  BY DEF EditHost, saved, run
<1>3. TypeOK'
  BY <1>1, <1>2 DEF TypeOK, Touch
<1>4. \A b \in Attrs \ {a} : host'[b] = host[b]
  BY <1>1 DEF TypeOK
<1>5. DoneInv' /\ SNMPInv'
  BY <1>1, <1>2, <1>4, TouchKeeps
<1> QED BY <1>3, <1>5

\* And so is what a late command changes.
LEMMA LateCommandKeeps ==
  ASSUME IInv, LateCommand
  PROVE  IInv'
<1> USE DEF IInv
<1> DEFINE X == {a \in Attrs : host'[a] # host[a]} \cup IF snmpd' = snmpd THEN {} ELSE {"snmpd"}
<1>1. PICK l \in late :
        /\ late' = late \ {l}
        /\ host' = [a \in Attrs |-> IF l.files[a] = Null THEN host[a] ELSE l.files[a]]
        /\ snmpd' \in LateDaemon(l.command)
        /\ Door(l.command)
        /\ Touch(X)
        /\ UNCHANGED <<ssh, config, inState, state, pc, plan, at, tries>>
  BY DEF LateCommand, saved, run
<1>2. \A a \in Attrs : l.files[a] # Null => l.files[a] \in Settings
  BY DEF TypeOK
<1>3. host' \in [Attrs -> Settings]
  BY <1>1, <1>2 DEF TypeOK
<1>4. snmpd' \in {"running", "stale", "stopped"} /\ door' \in {"open", "shut"}
  BY <1>1 DEF LateDaemon, Door, TypeOK
<1>5. TypeOK'
  <2>1. touched' \subseteq Attrs \cup {"snmpd"}
    BY <1>1 DEF Touch, TypeOK
  <2> QED BY <1>1, <1>3, <1>4, <2>1 DEF TypeOK
<1>6. DoneInv' /\ SNMPInv'
  <2>1. (\A a \in Attrs \ X : host'[a] = host[a]) /\ ("snmpd" \notin X => snmpd' = snmpd)
    OBVIOUS
  <2> HIDE DEF X
  <2> QED BY <1>1, <2>1, TouchKeeps
<1> QED BY <1>5, <1>6

\* The plan is made, and nothing is done of it.
LEMMA PlanKeeps ==
  ASSUME IInv, Plan
  PROVE  IInv'
<1> USE DEF IInv
<1>1. UNCHANGED <<host, snmpd, door, ssh, config, inState, state, late>> /\ tries' = 1 /\ touched' = {}
  BY DEF Plan, node, saved
<1>2. CASE pc' = "idle" /\ UNCHANGED <<plan, at>>
  BY <1>1, <1>2, IdleKeeps, HostAssumption DEF TypeOK
<1>3. CASE pc' = "apply" /\ plan' = config /\ at' = NextNeeded(1, config)
  <2>1. at' \in 1..14 /\ \A j \in 1..13 : j < at' => ~ Needed(Commands[j], config)
    BY <1>3, Next_Needed
  <2>2. TypeOK'
    <3>1. at' \in 1..End /\ tries' \in 1..maxSSHAttempts
      BY <1>1, <2>1, Ranges
    <3> QED BY <1>1, <1>3, <3>1 DEF TypeOK
  <2>3. DoneInv'
    <3> SUFFICES ASSUME NEW j \in 1..(at' - 1), Needed(Commands[j], config) PROVE FALSE
      BY <1>3 DEF DoneInv
    <3>1. at' \in 1..14 /\ j \in 1..(at' - 1)
      BY <2>1
    <3>2. j \in 1..13 /\ j < at'
      BY <3>1, Before
    <3> QED BY <2>1, <3>2
  <2>4. SNMPInv'
    <3>1. (\E a \in SNMP : config[a] # Null) => at' <= 9
      BY <2>1, SNMPNeeded
    <3>2. config["snmpv3"] # Null => at' <= 9
      BY <3>1 DEF SNMP
    <3> QED BY <1>3, <2>1, <3>1, <3>2 DEF SNMPInv
  <2> QED BY <2>2, <2>3, <2>4
<1> QED BY <1>2, <1>3 DEF Plan

-----------------------------------------------------------------------------
\* The inductive invariant holds in every reachable state.
THEOREM InvariantHolds == Spec => []IInv
<1>1. ASSUME IInv, [Next]_vars PROVE IInv'
  <2> USE <1>1
  <2>1. CASE UNCHANGED vars
    <3>1. TypeOK' /\ SNMPInv'
      BY <2>1 DEF vars, node, saved, run, IInv, TypeOK, SNMPInv
    <3>2. pc = "apply" => DoneInv'
      BY <2>1, At, DoneNext DEF vars, node, saved, run, IInv, DoneInv
    <3>3. pc # "apply" => DoneInv'
      BY <2>1 DEF vars, run, DoneInv
    <3> QED BY <3>1, <3>2, <3>3 DEF IInv
  <2>2. CASE Next
    BY <2>2, BetweenKeeps, EditHostKeeps, LateCommandKeeps, PlanKeeps, RunSucceedsKeeps, RunRetriesKeeps, EndKeeps
       DEF Next, Run
  <2> QED BY <2>1, <2>2
<1> QED BY <1>1, InitIInv, PTL DEF Spec

\* The types hold, and no command is tried more than maxSSHAttempts times
\* (ssh.go:112-125).
THEOREM TypeCorrect == Spec => []TypeOK
  BY InvariantHolds, PTL DEF IInv

\* A finished apply has set every declared setting, in whatever file, except
\* where others interfered (host_config_resource.go:331-456).
THEOREM AppliedSet == Spec => []AppliedIsSet
<1>1. ASSUME IInv PROVE AppliedIsSet
  <2> SUFFICES ASSUME AllDone, NEW a \in Effective(plan) \ touched
               PROVE  host[a] = Written(a, plan[a])
    BY DEF AppliedIsSet
  <2>1. PICK j \in 1..13 : Needed(Commands[j], plan) /\ a \in Rewrites(Commands[j])
    BY SetBySome
  <2>2. host[a] = Built(a)
    BY <1>1, <2>1, At DEF IInv, DoneInv, AllDone
  <2> QED BY <2>2, SetAsDeclared
<1> QED BY <1>1, InvariantHolds, PTL

\* A finished apply that manages SNMP leaves snmpd running the new file, with
\* snmpv3 by stop, write and start in this order
\* (host_config_resource.go:425-446).
THEOREM SNMPRestartedHolds == Spec => []SNMPRestarted
<1>1. ASSUME IInv PROVE SNMPRestarted
  BY <1>1, At DEF IInv, SNMPInv, SNMPRestarted, AllDone
<1> QED BY <1>1, InvariantHolds, PTL

-----------------------------------------------------------------------------
\* What a block says, and what an apply does, is never what its attribute cannot
\* be: a number, for one, is not blank.
DeclaredInv == \A a \in Attrs : config[a] \in Declarable(a) /\ plan[a] \in Declarable(a)

LEMMA NullDeclarable == ASSUME NEW a PROVE Null \in Declarable(a)
  BY DEF Declarable

LEMMA InitDeclared == Init => DeclaredInv
<1> SUFFICES ASSUME Init, NEW a \in Attrs
             PROVE  config[a] \in Declarable(a) /\ plan[a] \in Declarable(a)
  BY DEF DeclaredInv
<1>1. "v" \in Declarable(a) /\ Null \in Declarable(a)
  BY DEF Declarable, Settings, Plain
<1> QED BY <1>1 DEF Init, Undeclared

LEMMA NextDeclared ==
  ASSUME TypeOK, DeclaredInv, [Next]_vars
  PROVE  DeclaredInv'
<1>1. CASE EditConfig
  <2>1. PICK a \in Attrs : \E x \in Declarable(a) : config' = [config EXCEPT ![a] = x]
    BY <1>1, HostAssumption DEF EditConfig
  <2>2. plan' = plan
    BY <1>1 DEF EditConfig, run
  <2> QED BY <2>1, <2>2 DEF DeclaredInv, TypeOK
<1>2. CASE Plan
  <2>1. config' = config /\ (plan' = plan \/ plan' = config)
    BY <1>2 DEF Plan
  <2> QED BY <2>1 DEF DeclaredInv
<1>3. CASE RunFails \/ Finish
  <2>1. config' = config /\ plan' = Undeclared
    BY <1>3 DEF RunFails, Finish
  <2>2. \A a \in Attrs : plan'[a] \in Declarable(a)
    BY <2>1, NullDeclarable DEF Undeclared
  <2> QED BY <2>1, <2>2 DEF DeclaredInv
<1>4. CASE ~ EditConfig /\ ~ Plan /\ ~ RunFails /\ ~ Finish
  <2>1. UNCHANGED <<config, plan>>
    BY <1>4 DEF Next, Run, EditHost, Import, Delete, LateCommand, ReadFails, RunRetries, Read,
                RunSucceeds, vars, run
  <2> QED BY <2>1 DEF DeclaredInv
<1> QED BY <1>1, <1>2, <1>3, <1>4

\* A refresh reads a written value back when it is one that is given back.
LEMMA ReadsBack ==
  ASSUME NEW s, NEW a \in Attrs, s[a] \in Declarable(a), s[a] # Null,
         host[a] = Written(a, s[a]), GivenBack(a, s[a])
  PROVE  Refreshed(s, a) = s[a]
<1>1. CASE a \in NotRead
  BY <1>1 DEF Refreshed
<1>2. CASE s[a] \in Plain
  <2>1. host[a] = s[a]
    BY <1>2, BareType DEF Written, Settings
  <2>2. Emitted(a) = s[a]
    BY <1>2, <2>1, BareType DEF Emitted, Settings, Plain
  <2>3. a = "ssh_password_auth" => s[a] # "blank"
    BY DEF Declarable, Null
  <2> QED BY <2>2, <2>3 DEF Refreshed
<1>3. CASE a \in Numbers /\ s[a] \notin Plain
  <2>1. a = "log_retention_days" /\ s[a] = "w+"
    BY <1>3 DEF Numbers, Declarable, Plain
  <2>2. Emitted(a) = "blank"
    BY <2>1 DEF Emitted, Written
  <2> QED BY <1>3, <2>2 DEF Refreshed
<1> QED BY <1>1, <1>2, <1>3 DEF GivenBack

\* And no other value: what is read is plain.
LEMMA ReadsOtherwise ==
  ASSUME TypeOK, NEW s, NEW a \in Attrs, s[a] # Null, ~GivenBack(a, s[a])
  PROVE  Refreshed(s, a) # s[a]
<1>1. Emitted(a) \in Plain /\ "w" \in Plain
  BY EmittedType DEF Plain
<1>2. s[a] \notin Plain /\ a \notin NotRead /\ a \notin Numbers
  BY DEF GivenBack
<1> QED BY <1>1, <1>2 DEF Refreshed

\* A finished apply has set every declared setting, and the next refresh reads
\* exactly the values back that have no part or spelling that is lost
\* (host_config_resource.go:253-310, 486-614).
THEOREM AppliedIsReadBack == Spec => []AppliedReadsBack
<1>1. ASSUME TypeOK, AppliedIsSet, DeclaredInv PROVE AppliedReadsBack
  <2> SUFFICES ASSUME AllDone, NEW a \in Effective(plan) \ touched
               PROVE  Refreshed(plan, a) = plan[a] <=> GivenBack(a, plan[a])
    BY <1>1 DEF AppliedReadsBack
  <2>1. a \in Attrs /\ plan[a] # Null
    BY DEF Effective
  <2>2. host[a] = Written(a, plan[a])
    BY <1>1 DEF AppliedIsSet
  <2>3. plan[a] \in Declarable(a)
    BY <1>1, <2>1 DEF DeclaredInv
  <2>4. CASE GivenBack(a, plan[a])
    BY <2>1, <2>2, <2>3, <2>4, ReadsBack
  <2>5. CASE ~GivenBack(a, plan[a])
    BY <1>1, <2>1, <2>5, ReadsOtherwise
  <2> QED BY <2>4, <2>5
<1>2. TypeOK /\ DeclaredInv /\ [Next]_vars => DeclaredInv'
  BY NextDeclared
<1> QED BY <1>1, <1>2, InitDeclared, TypeCorrect, AppliedSet, PTL DEF Spec

-----------------------------------------------------------------------------
\* What a refresh leaves in the state of an attribute.
Seen(a) ==
  \/ state[a] = Null
  \/ host[a] = state[a]
  \/ Unseen(a, state[a])

\* Between the refresh and the plan the state is what the refresh has seen, but
\* for what has changed since; and nothing is remembered between two runs.
SeenInv ==
  /\ pc = "plan" /\ inState /\ ssh => \A a \in Attrs \ (NotRead \cup touched) : Seen(a)
  /\ pc = "idle" => touched = {}

LEMMA RefreshSees ==
  ASSUME TypeOK, NEW a \in Attrs \ NotRead
  PROVE  Refreshed(state, a) = Null \/ Unseen(a, Refreshed(state, a))
<1>1. host[a] \in Settings
  BY DEF TypeOK
<1>2. CASE state[a] = Null
  BY <1>2 DEF Refreshed
<1>3. CASE state[a] # Null /\ host[a] = "w+" /\ a \in {"snmp_listen_address", "log_retention_days"}
  <2>1. Emitted(a) = "blank"
    BY <1>3 DEF Emitted
  <2> QED BY <1>3, <2>1 DEF Refreshed, Unseen, Numbers
<1>4. CASE state[a] # Null /\ ~(host[a] = "w+" /\ a \in {"snmp_listen_address", "log_retention_days"})
  <2>1. Emitted(a) = Bare(host[a])
    BY <1>4 DEF Emitted
  <2>2. Emitted(a) = "blank" => host[a] = "blank"
    BY <1>1, <2>1 DEF Bare, Settings, Plain
  <2> QED BY <1>4, <2>1, <2>2 DEF Refreshed, Unseen
<1> QED BY <1>2, <1>3, <1>4

LEMMA ReadSees ==
  ASSUME TypeOK, SeenInv, Read
  PROVE  SeenInv'
<1> SUFFICES ASSUME inState', ssh', NEW a \in Attrs \ NotRead PROVE Seen(a)'
  BY DEF Read, SeenInv
<1>1. state'[a] = Refreshed(state, a) /\ host' = host
  BY DEF Read, node
<1>2. Unseen(a, Refreshed(state, a)) => Unseen(a, state[a])'
  BY <1>1 DEF Unseen
<1> QED BY <1>1, <1>2, RefreshSees DEF Seen

\* A change of the node before the plan is remembered.
LEMMA TouchSees ==
  ASSUME SeenInv, NEW X, Touch(X), UNCHANGED <<pc, ssh, inState, state>>,
         \A a \in Attrs \ X : host'[a] = host[a]
  PROVE  SeenInv'
<1>1. pc # "idle" => touched' = touched \cup X
  BY DEF Touch
<1>2. pc = "idle" => touched' = {}
  BY DEF Touch
<1>3. ASSUME pc' = "plan", inState', ssh', NEW a \in Attrs \ (NotRead \cup touched')
      PROVE  Seen(a)'
  <2>1. Seen(a) /\ host'[a] = host[a]
    BY <1>1, <1>3 DEF SeenInv
  <2> QED BY <1>3, <2>1 DEF Seen, Unseen
<1> QED BY <1>2, <1>3 DEF SeenInv

LEMMA NextSees ==
  ASSUME TypeOK, SeenInv, [Next]_vars
  PROVE  SeenInv'
<1>1. CASE Read
  BY <1>1, ReadSees
<1>2. CASE EditHost
  <2>1. PICK a \in Attrs, x \in Settings : host' = [host EXCEPT ![a] = x] /\ Touch({a})
    BY <1>2, HostAssumption DEF EditHost
  <2>2. \A b \in Attrs \ {a} : host'[b] = host[b]
    BY <2>1 DEF TypeOK
  <2>3. UNCHANGED <<pc, ssh, inState, state>>
    BY <1>2 DEF EditHost, saved, run
  <2> QED BY <2>1, <2>2, <2>3, TouchSees
<1>3. CASE LateCommand
  <2> DEFINE X == {a \in Attrs : host'[a] # host[a]} \cup IF snmpd' = snmpd THEN {} ELSE {"snmpd"}
  <2>1. Touch(X) /\ UNCHANGED <<pc, ssh, inState, state>>
    BY <1>3 DEF LateCommand, saved, run
  <2>2. \A a \in Attrs \ X : host'[a] = host[a]
    OBVIOUS
  <2> HIDE DEF X
  <2> QED BY <2>1, <2>2, TouchSees
<1>4. CASE EditConfig \/ Import \/ Delete \/ ReadFails
  BY <1>4 DEF EditConfig, Import, Delete, ReadFails, run, SeenInv
<1>5. CASE Plan \/ RunFails \/ Finish
  BY <1>5 DEF Plan, RunFails, Finish, SeenInv
<1>6. CASE RunSucceeds \/ RunRetries
  BY <1>6 DEF RunSucceeds, RunRetries, Faulted, SeenInv
<1>7. CASE UNCHANGED vars
  <2>1. UNCHANGED <<host, ssh, inState, state, pc, touched>>
    BY <1>7 DEF vars, node, saved, run
  <2>2. \A a \in Attrs : Seen(a)' <=> Seen(a)
    BY <2>1 DEF Seen, Unseen
  <2> QED BY <2>1, <2>2 DEF SeenInv
<1> QED BY <1>1, <1>2, <1>3, <1>4, <1>5, <1>6, <1>7 DEF Next, Run

\* An empty plan means that the node is as declared, except where Read is blind
\* and where others came between (host_config_resource.go:253-310).
THEOREM EmptyPlanHolds == Spec => []EmptyPlanIsTrue
<1>1. Init => SeenInv
  BY DEF Init, SeenInv
<1>2. TypeOK /\ SeenInv /\ [Next]_vars => SeenInv'
  BY NextSees
<1>3. ASSUME SeenInv PROVE EmptyPlanIsTrue
  BY <1>3 DEF SeenInv, Seen, EmptyPlanIsTrue
<1> QED BY <1>1, <1>2, <1>3, TypeCorrect, PTL DEF Spec
=============================================================================
