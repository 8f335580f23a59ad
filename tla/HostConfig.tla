------------------------------ MODULE HostConfig ------------------------------
(***************************************************************************)
(* proxmox_host_config (internal/provider/host_config_resource.go) over    *)
(* SSHClient.Run (internal/proxmox/ssh.go): an apply is a sequence of SSH  *)
(* commands, each rewriting the settings of one file of the node and some  *)
(* restarting a daemon. A command that fails ends the apply, with the      *)
(* earlier ones done; connection resets are retried. Either way the        *)
(* command may have been carried out, have left its file truncated, or go  *)
(* on on the node and be carried out at any later time, of the next apply  *)
(* too. A refresh reads all settings in one command.                       *)
(*                                                                         *)
(* A setting is blank when the node's file does not have it, or has one of *)
(* two values, plain or with something to it that the read script does not *)
(* pass on ("v+", "w+"): a second word, a leading space, further lines,    *)
(* letters where it looks for digits. An attribute of a block may also be  *)
(* null, "not declared".                                                   *)
(* For the transport, v is what lets the provider in: its own port, a      *)
(* group of its user. For rsyslog v is the default, udp and all messages.  *)
(* The hostname stands for timezone as well.                               *)
(*                                                                         *)
(* Definitions called Faulty* are in no specification: each is the next    *)
(* definition with one plausible bug, for checking that a property sees it.*)
(***************************************************************************)
EXTENDS Naturals, Sequences, FiniteSetsExt

CONSTANTS
  Configurable, \* bound: the attributes a block may declare
  maxSSHAttempts, \* attempts of one SSHClient.Run: 4 in ssh.go:96
  MaxEdits,     \* bound: edits of the configuration and of the node
  MaxFaults     \* bound: commands that fail though the node is reachable

SNMP == {"snmp_community", "snmp_contact", "snmp_location", "snmp_listen_address", "snmpv3"}
Numbers == {"log_retention_days", "ssh_port"}
ApplyOnly == {"ssh_allow_users", "ssh_allow_groups", "snmpv3"}
Syslog == {"syslog_server", "syslog_protocol", "syslog_filter"}
Attrs ==
  {"hostname", "dns_servers", "dns_search_domain", "ntp_servers", "ssh_password_auth",
   "snmp_trap_target"} \cup Syslog \cup SNMP \cup Numbers \cup ApplyOnly

ASSUME HostAssumption ==
  /\ Configurable \subseteq Attrs
  /\ maxSSHAttempts \in Nat \ {0}
  /\ MaxEdits \in Nat
  /\ MaxFaults \in Nat

Plain == {"blank", "v", "w"}
Settings == Plain \cup {"v+", "w+"}
Null == "null"

\* Without what the read script drops: all that its awk, grep and sed print.
Bare(x) == CASE x = "v+" -> "v" [] x = "w+" -> "w" [] OTHER -> x

\* What a block may say: booleans, ports and apply-only attributes have one
\* spelling, a retention may be negative ("w+"), and numbers, booleans, names and
\* snmpv3 are never empty.
Declarable(a) ==
  CASE a \in {"ssh_port", "ssh_password_auth", "snmpv3"} -> {Null, "v", "w"}
    [] a = "log_retention_days" -> {Null, "v", "w", "w+"}
    [] a = "hostname" -> {Null, "v", "w", "v+", "w+"}
    [] a \in {"ssh_allow_users", "ssh_allow_groups"} -> {Null} \cup Plain
    [] OTHER -> {Null} \cup Settings

VARIABLES
  host,         \* the settings in the node's files
  snmpd,        \* the daemon: running the file, running an older one, or stopped
  door,         \* whether sshd lets the provider in
  ssh,          \* the provider has an SSH transport
  config,       \* the block
  inState,      \* Terraform state: the block is there,
  state,        \*   its attributes
  pc,           \* "idle", "plan" or "apply"
  plan,         \* attributes being applied
  at,           \* the command under way, by its place in Commands
  tries,        \* attempts of SSHClient.Run for it
  late,         \* commands still under way on the node when their ssh had failed
  touched,      \* settings and daemon changed since the refresh or during the apply
                \*   by others, by late commands or by a masked failure ("|| true")
  edits,
  faults

node == <<host, snmpd, door>>
saved == <<inState, state>>
run == <<pc, plan, at, tries>>
vars == <<node, ssh, config, saved, run, late, touched, edits, faults>>

Undeclared == [a \in Attrs |-> Null]

Init ==
  /\ host = [a \in Attrs |-> IF a \in {"ssh_port", "ssh_allow_groups"} THEN "blank" ELSE "w"]
  /\ snmpd = "running"
  /\ door = "open"
  /\ ssh \in BOOLEAN
  /\ config \in {[a \in Attrs |-> IF a \in D THEN "v" ELSE Null] : D \in SUBSET Configurable}
  /\ inState = FALSE
  /\ state = Undeclared
  /\ pc = "idle"
  /\ plan = Undeclared
  /\ at = 1
  /\ tries = 1
  /\ late = {}
  /\ touched = {}
  /\ edits = 0
  /\ faults = 0

-----------------------------------------------------------------------------
\* The commands of apply(), in its order.

FaultyCommands ==
  <<"hostname", "dns", "ntp", "syslog", "logrotate", "ssh_port", "ssh_password_auth",
    "ssh_allow_users", "snmp install", "snmp v3 pre", "snmp start", "snmp config", "snmp trap">>

Commands ==
  <<"hostname", "dns", "ntp", "syslog", "logrotate", "ssh_port", "ssh_password_auth",
    "ssh_allow_users", "snmp install", "snmp v3 pre", "snmp config", "snmp start", "snmp trap">>

\* The attributes a command is made from.
AttrsOf(c) ==
  CASE c = "dns"             -> {"dns_servers", "dns_search_domain"}
    [] c = "ntp"             -> {"ntp_servers"}
    [] c = "syslog"          -> Syslog
    [] c = "logrotate"       -> {"log_retention_days"}
    [] c = "ssh_allow_users" -> {"ssh_allow_users", "ssh_allow_groups"}
    [] c = "snmp trap"       -> {"snmp_trap_target"}
    [] c \in {"snmp install", "snmp config", "snmp start"} -> SNMP
    [] c = "snmp v3 pre"     -> {"snmpv3"}
    [] OTHER                 -> {c}

FaultyNeeded(c, p) ==
  CASE c = "syslog"    -> p["syslog_server"] \notin {Null, "blank"}
    [] c = "snmp trap" -> p["snmp_trap_target"] \notin {Null, "blank"}
    [] c = "dns"       -> p["dns_servers"] # Null
    [] OTHER           -> \E a \in AttrsOf(c) : p[a] # Null

\* The conditions under which apply() runs it.
Needed(c, p) ==
  CASE c = "syslog"    -> p["syslog_server"] \notin {Null, "blank"}
    [] c = "snmp trap" -> p["snmp_trap_target"] \notin {Null, "blank"}
    [] OTHER           -> \E a \in AttrsOf(c) : p[a] # Null

End == Len(Commands) + 1

\* The next command at or after place i that apply() runs for p.
NextNeeded(i, p) == Min({j \in i..Len(Commands) : Needed(Commands[j], p)} \cup {End})

\* The settings it overwrites: all of its file, except that a search domain
\* alone keeps the name servers.
Rewrites(c) ==
  CASE c = "dns" /\ plan["dns_servers"] = Null -> {"dns_search_domain"}
    [] c \in {"snmp install", "snmp v3 pre", "snmp start"} -> {}
    [] OTHER -> AttrsOf(c)

\* "TCP" is written as tcp, a filter trimmed, and hostnamectl simplifies a name;
\* everything else is written as it is declared.
Written(a, x) == IF a \in {"syslog_protocol", "syslog_filter", "hostname"} THEN Bare(x) ELSE x

\* The builders leave out what is not declared, but rsyslog has its defaults.
Built(a) ==
  CASE plan[a] \in {Null, "blank"} -> IF a \in Syslog THEN "v" ELSE "blank"
    [] OTHER -> Written(a, plan[a])

Files(c) == [a \in Attrs |-> IF a \in Rewrites(c) THEN Built(a) ELSE host[a]]

\* With snmpv3 snmpd is only started, which does nothing to a running one;
\* otherwise it is restarted, and so it is for the trap target.
Daemon(c) ==
  CASE c = "snmp v3 pre" -> "stopped"
    [] c = "snmp config" /\ snmpd = "running" -> "stale"
    [] c = "snmp start" /\ (plan["snmpv3"] = Null \/ snmpd = "stopped") -> "running"
    [] c = "snmp trap" -> "running"
    [] OTHER -> snmpd

\* AllowUsers always has the provider's user; sshd also wants AllowGroups, if
\* there is one, to match.
LetsIn(h) == h["ssh_port"] # "w" /\ h["ssh_allow_groups"] # "w"

\* What a restart or reload does to sshd, unless it fails ("|| true"): all of its
\* settings come into force, whichever command wrote them.
Door(c) ==
  \/ UNCHANGED door
  \/ /\ c \in {"ssh_port", "ssh_password_auth", "ssh_allow_users"}
     /\ door' = IF LetsIn(host') THEN "open" ELSE "shut"

\* A command is carried out.
Execute(c) ==
  /\ host' = Files(c)
  /\ snmpd' = Daemon(c)
  /\ Door(c)

\* The commands that write a file through ">": the shell empties it first.
Redirected == {"dns", "ntp", "syslog", "logrotate", "ssh_password_auth", "ssh_allow_users",
               "snmp config", "snmp trap"}

\* A command is cut off: its file is left empty, and nothing restarted.
Truncate(c) ==
  /\ c \in Redirected
  /\ host' = [a \in Attrs |-> IF a \in AttrsOf(c) THEN "blank" ELSE host[a]]
  /\ snmpd' = IF c = "snmp config" THEN Daemon(c) ELSE snmpd
  /\ UNCHANGED door

\* A command goes on without its ssh, with the values it was made with.
Linger(c) ==
  /\ late' = late \cup
       {[command |-> c,
         files |-> [a \in Attrs |-> IF a \in Rewrites(c) THEN Built(a) ELSE Null]]}
  /\ UNCHANGED node

\* The stop of snmpd for snmpv3 fails, or its restart for the trap target, and
\* the command succeeds all the same.
Masked(c) ==
  /\ c \in {"snmp v3 pre", "snmp trap"}
  /\ host' = Files(c)
  /\ snmpd' \in {snmpd, "stopped"}
  /\ touched' = touched \cup {"snmpd"}
  /\ UNCHANGED door

-----------------------------------------------------------------------------
\* The world around the provider.

EditConfig ==
  /\ pc = "idle"
  /\ edits < MaxEdits
  /\ edits' = edits + 1
  /\ \E a \in Configurable : \E x \in Declarable(a) : config' = [config EXCEPT ![a] = x]
  /\ UNCHANGED <<node, ssh, saved, run, late, touched, faults>>

\* Remembered from the refresh to the plan, and again as long as the apply lasts.
Touch(X) == touched' = IF pc = "idle" THEN {} ELSE touched \cup X

EditHost ==
  /\ edits < MaxEdits
  /\ edits' = edits + 1
  /\ \E a \in Configurable \ {"ssh_port", "ssh_allow_groups"}, x \in Settings :
       /\ host' = [host EXCEPT ![a] = x]
       /\ Touch({a})
  /\ UNCHANGED <<snmpd, door, ssh, config, saved, run, late, faults>>

\* Import takes the id alone, and Read leaves null attributes null.
Import ==
  /\ pc = "idle" /\ ~inState
  /\ edits < MaxEdits
  /\ edits' = edits + 1
  /\ inState' = TRUE
  /\ state' = Undeclared
  /\ UNCHANGED <<node, ssh, config, run, late, touched, faults>>

\* Delete leaves the node as it is.
Delete ==
  /\ pc = "idle" /\ inState
  /\ edits < MaxEdits
  /\ edits' = edits + 1
  /\ inState' = FALSE
  /\ state' = Undeclared
  /\ UNCHANGED <<node, ssh, config, run, late, touched, faults>>

\* A late copy of "snmp start" does nothing to a running daemon with snmpv3.
LateDaemon(c) ==
  CASE c = "snmp v3 pre" -> {"stopped"}
    [] c = "snmp config" /\ snmpd = "running" -> {"stale"}
    [] c = "snmp start" -> {snmpd, "running"}
    [] c = "snmp trap" -> {"running"}
    [] OTHER -> {snmpd}

\* A command that its ssh gave up is carried out after all.
LateCommand ==
  \E l \in late :
    /\ late' = late \ {l}
    /\ host' = [a \in Attrs |-> IF l.files[a] = Null THEN host[a] ELSE l.files[a]]
    /\ snmpd' \in LateDaemon(l.command)
    /\ Door(l.command)
    /\ Touch({a \in Attrs : host'[a] # host[a]} \cup IF snmpd' = snmpd THEN {} ELSE {"snmpd"})
    /\ UNCHANGED <<ssh, config, saved, run, edits, faults>>

-----------------------------------------------------------------------------
\* Refresh and plan.

NotRead == ApplyOnly \cup {"syslog_filter"}

\* What the read script prints for an attribute: the plain part, or nothing for a
\* listen address that is no IPv4 address and for a retention that is no number.
Emitted(a) ==
  IF a \in {"snmp_listen_address", "log_retention_days"} /\ host[a] = "w+"
  THEN "blank" ELSE Bare(host[a])

FaultyRefreshed(s, a) ==
  IF s[a] = Null \/ a \in NotRead \/ Emitted(a) = "blank" THEN s[a] ELSE Emitted(a)

FaultyRefreshedAll(s, a) == IF a \in NotRead THEN s[a] ELSE Emitted(a)

\* What Read makes of an attribute of the state s: not declared and apply-only
\* ones are kept, and so is a number that cannot be parsed; no password drop-in
\* means "no".
Refreshed(s, a) ==
  IF s[a] = Null \/ a \in NotRead \/ (a \in Numbers /\ Emitted(a) = "blank") THEN s[a]
  ELSE IF a = "ssh_password_auth" /\ Emitted(a) = "blank" THEN "w" ELSE Emitted(a)

Read ==
  /\ pc = "idle"
  /\ pc' = "plan"
  /\ inState /\ ssh => door = "open"
  /\ state' = IF inState /\ ssh THEN [a \in Attrs |-> Refreshed(state, a)] ELSE state
  /\ UNCHANGED <<node, ssh, config, inState, plan, at, tries, late, touched, edits, faults>>

\* The command fails, or cannot reach the node: the error ends the run.
ReadFails ==
  /\ pc = "idle"
  /\ inState /\ ssh
  /\ \/ faults < MaxFaults /\ faults' = faults + 1
     \/ door = "shut" /\ UNCHANGED faults
  /\ UNCHANGED <<node, ssh, config, saved, run, late, touched, edits>>

\* The plan, and the start of apply(), which wants an SSH transport.
Plan ==
  /\ pc = "plan"
  /\ IF (inState /\ state = config) \/ ~ssh
     THEN pc' = "idle" /\ UNCHANGED <<plan, at>>
     ELSE /\ pc' = "apply"
          /\ plan' = config
          /\ at' = NextNeeded(1, config)
  /\ tries' = 1
  /\ touched' = {}
  /\ UNCHANGED <<node, ssh, config, saved, late, edits, faults>>

-----------------------------------------------------------------------------
\* Apply.

Fault == faults < MaxFaults /\ faults' = faults + 1

\* ssh.Run returns without an error: on to the next command.
RunSucceeds ==
  /\ pc = "apply" /\ at # End
  /\ door = "open"
  /\ \/ Execute(Commands[at]) /\ UNCHANGED <<touched, faults>>
     \/ Masked(Commands[at]) /\ Fault
  /\ at' = NextNeeded(at + 1, plan)
  /\ tries' = 1
  /\ UNCHANGED <<ssh, config, saved, pc, plan, late, edits>>

\* ssh fails: the command was carried out, or not at all, or in part, or will be.
Faulted ==
  /\ pc = "apply" /\ at # End
  /\ door = "open"
  /\ Fault
  /\ \/ Execute(Commands[at]) /\ UNCHANGED late
     \/ UNCHANGED <<node, late>>
     \/ Truncate(Commands[at]) /\ UNCHANGED late
     \/ Linger(Commands[at])

FaultyRunRetries ==
  /\ Faulted
  /\ tries' = tries + 1
  /\ UNCHANGED <<ssh, config, saved, pc, plan, at, touched, edits>>

\* The connection is reset.
RunRetries ==
  /\ Faulted
  /\ tries < maxSSHAttempts
  /\ tries' = tries + 1
  /\ UNCHANGED <<ssh, config, saved, pc, plan, at, touched, edits>>

\* Any other failure, or the last attempt, ends the apply with an error and the
\* state as it was.
RunFails ==
  /\ \/ Faulted
     \/ pc = "apply" /\ at # End /\ door = "shut" /\ UNCHANGED <<node, late, faults>>
  /\ pc' = "idle"
  /\ plan' = Undeclared
  /\ at' = 1
  /\ tries' = 1
  /\ touched' = {}
  /\ UNCHANGED <<ssh, config, saved, edits>>

AllDone == pc = "apply" /\ at = End

\* All commands done: the plan becomes the state.
Finish ==
  /\ AllDone
  /\ inState' = TRUE
  /\ state' = plan
  /\ pc' = "idle"
  /\ plan' = Undeclared
  /\ at' = 1
  /\ touched' = {}
  /\ UNCHANGED <<node, ssh, config, tries, late, edits, faults>>

-----------------------------------------------------------------------------
Run == Read \/ Plan \/ RunSucceeds \/ RunFails \/ Finish

Next ==
  \/ EditConfig \/ EditHost \/ Import \/ Delete \/ LateCommand
  \/ ReadFails \/ RunRetries \/ Run

Spec == Init /\ [][Next]_vars

\* Whoever runs the configuration runs it again and again; every SSH process
\* ends, by ConnectTimeout, keepalives or the context's deadline.
FairSpec == Spec /\ WF_vars(Run)

-----------------------------------------------------------------------------
\* The type invariant; SSHClient.Run makes at most maxSSHAttempts.
TypeOK ==
  /\ host \in [Attrs -> Settings]
  /\ snmpd \in {"running", "stale", "stopped"}
  /\ door \in {"open", "shut"}
  /\ ssh \in BOOLEAN
  /\ config \in [Attrs -> {Null} \cup Settings]
  /\ state \in [Attrs -> {Null} \cup Settings]
  /\ plan \in [Attrs -> {Null} \cup Settings]
  /\ inState \in BOOLEAN
  /\ pc \in {"idle", "plan", "apply"}
  /\ at \in 1..End
  /\ tries \in 1..maxSSHAttempts
  /\ late \subseteq [command : {Commands[i] : i \in 1..Len(Commands)}, files : [Attrs -> {Null} \cup Settings]]
  /\ touched \subseteq Attrs \cup {"snmpd"}

\* The attributes that apply() acts on: not an empty trap target,
\* and of rsyslog nothing without a server, nor an empty protocol or filter.
Effective(p) ==
  {a \in Attrs : /\ p[a] # Null
                 /\ a \in Syslog => Needed("syslog", p) /\ p[a] # "blank"
                 /\ a = "snmp_trap_target" => Needed("snmp trap", p)}

\* A finished apply has set every declared setting in the form in which it is
\* written, with whatever retries and in whatever file they share (apply's order
\* of commands, host_config_resource.go:331-456), except what others or late
\* commands of an earlier attempt changed meanwhile.
AppliedIsSet ==
  AllDone =>
    \A a \in Effective(plan) \ touched : host[a] = Written(a, plan[a])

\* The declared values that a refresh gives back once they are written. A number
\* is given back in any case: one that cannot be parsed is kept.
GivenBack(a, x) == a \in NotRead \cup Numbers \/ x \in Plain

\* A finished apply has set what it declares, and the next refresh reads of it
\* exactly those values back that have no second spelling and no part that the
\* read script (:591-614) drops: "TCP" (:507, 603), an IPv6 listen address (:566,
\* 611), two search domains (:486, 599) differ from the block for ever, and no
\* other value does, whatever else its file holds.
AppliedReadsBack ==
  /\ AppliedIsSet
  /\ AllDone =>
       \A a \in Effective(plan) \ touched :
         Refreshed(plan, a) = plan[a] <=> GivenBack(a, plan[a])

\* The drift from x that Read cannot see: what the script drops, of ssh_password_
\* auth the line KbdInteractiveAuthentication too; a number that is gone or is
\* none; a password drop-in that is gone while the block says "no"; a listen
\* address that is no IPv4 address while the block has an empty one.
Unseen(a, x) ==
  \/ Bare(host[a]) = x
  \/ a \in Numbers /\ host[a] \in {"blank", "w+"}
  \/ a = "ssh_password_auth" /\ x = "w" /\ host[a] = "blank"
  \/ a = "snmp_listen_address" /\ x = "blank" /\ host[a] = "w+"

\* An empty plan hides no other drift (:253-310, 591-614): when a refresh leaves
\* the state equal to the block, the node has every setting that Read looks at as
\* declared but for the Unseen, or it was changed since the refresh.
EmptyPlanIsTrue ==
  pc = "plan" /\ inState /\ ssh /\ state = config =>
    \A a \in Attrs \ (NotRead \cup touched) : config[a] # Null =>
      host[a] = config[a] \/ Unseen(a, config[a])

\* When an apply that manages SNMP ends well, snmpd is up with the new file
\* (:425-446): the stop for snmpv3 is always followed by the start. A masked
\* failure of the stop or of a restart, or a late command, is all that can leave
\* it stopped or with the old file unnoticed.
SNMPRestarted ==
  AllDone /\ (\E a \in SNMP : plan[a] # Null) /\ "snmpd" \notin touched => snmpd = "running"

\* Once edits and failures stop, repeated runs bring the node to the block, from
\* any half-done apply, as long as sshd lets the provider in; only what Read cannot
\* see stays as it is.
Converges ==
  <>[](ssh /\ door = "open" =>
         /\ inState
         /\ \A a \in Effective(config) \ NotRead :
              host[a] = Written(a, config[a]) \/ Unseen(a, config[a]))

\* A block that plans nothing once it is applied: each value is given back, and
\* where apply() does nothing, as for an empty syslog_server, the node happens to
\* have what is declared.
Stable ==
  \A a \in Attrs : config[a] # Null =>
    \/ a \in NotRead
    \/ IF a \in Effective(config) THEN GivenBack(a, config[a]) ELSE Emitted(a) = config[a]

\* Then the plans of a stable block become empty, and those of any other never do:
\* each run applies it again (:253-310 against :331-456).
PlansSettle ==
  /\ <>[](door = "open" /\ Stable => pc # "apply")
  /\ []<>(door = "open" /\ ssh /\ ~Stable => pc = "apply")

-----------------------------------------------------------------------------
\* "Only declared (non-null) attributes are acted on, so an unset attribute is
\* left untouched" (host_config_resource.go:316-317). The code rewrites whole
\* files, so undeclared attributes of the same file go.
UnsetIsLeftAlone ==
  [][RunSucceeds => \A a \in Attrs : plan[a] = Null => host'[a] = host[a]]_vars

\* "The provider's own SSH user is always appended so a bad list can never lock
\* the transport out" (host_config_resource.go:143-144). A change of the port
\* apart, sshd goes on letting the provider in. The code appends its user to
\* AllowUsers, and sshd refuses it for a declared AllowGroups all the same.
NeverLockedOut == door = "shut" => host["ssh_port"] = "w"
=============================================================================
