# A verification of terraform-provider-proxmox

This directory models the provider's own logic in TLA+: how a provider block becomes a client,
how goroutines share its API session and its two mutexes, how its three resources turn Terraform
operations into sequences of calls and commands, how a command gets to a node over SSH, and what
of that survives timeouts, lost answers, half-done applies, kills and other people working on the
same server. TLC checks the models on small instances; TLAPS proves the safety properties for any
number of calls, handlers, blocks, edits and faults.

1. [The system](#1-the-system) — components, state, interaction, what is hard
2. [The modules](#2-the-modules) — what models what, and how to read it against the code
3. [The runs](#3-the-runs) — properties, bounds, fairness
4. [The proofs](#4-the-proofs)
5. [Where code and documentation disagree](#5-where-code-and-documentation-disagree)
6. [What is left out](#6-what-is-left-out)
7. [What could follow](#7-what-could-follow)

## 1. The system

| component | code | state it keeps | operations |
|---|---|---|---|
| API client | `internal/proxmox/client.go` | `ticket`, `csrf` under `mu`; `writeMu` | `Get/Post/Put/Delete` → `do` → `login`, `attempt`; `LockWrites`/`UnlockWrites` |
| task waiting | `internal/proxmox/task.go` | none (a loop over one task) | `UPIDFromData`, `TaskWait`, `TaskLogTail` |
| product profiles | `internal/proxmox/product.go` | constants | `specFor` |
| SSH transport | `internal/proxmox/ssh.go` | none between runs | `Run` (up to 4 attempts), `runOnce` |
| `proxmox_object` | `internal/provider/object_resource.go` | path, body, delete_method… in the Terraform state | Create, Read, Update, Delete, Import, `subsetSuppress` |
| `proxmox_task` | `internal/provider/task_resource.go` | upid, result in the Terraform state | Create, Update, Delete → `run`; Read keeps everything |
| `proxmox_host_config` | `internal/provider/host_config_resource.go` | ~20 attributes in the Terraform state | Create/Update → `apply`, Read, Delete (no-op), Import |
| data sources | `*_data_source.go` | none | one GET each (an object; the status of a task) |
| provider | `internal/provider/provider.go` | the `Client` | Configure |

**Interaction.** Terraform core calls the resources' handlers on many goroutines at a time. All
resources of one provider instance share one `Client`. A handler of an API resource takes
`writeMu` for the whole operation and makes calls through `do`, which in ticket mode takes `mu`
for one call with its login and retry. Between handlers nothing remembers what happened but the
Terraform state, which is written only on success. The data sources and every refresh take no
`writeMu`. The host configuration uses SSH and takes no lock; each of its commands is a process
of its own.

**What is hard, and what makes each component correct.**

* *API client.* Concurrent calls share a ticket that expires on the server at any time. A 401
  must cause one new login and one repetition, never the use of one login's ticket with
  another's CSRF token, never a second execution of a write, never the loss of a ticket just
  obtained. Timeouts abandon requests that may still be carried out. Correct: a call has at most
  one effect, and its answer is true.
* *Task resource.* One critical section spans a call and minutes of polling. It may be ended by
  a deadline, an interrupt, or one failed poll, with the task running on. Correct: reported
  success is success on the server; operations overlap only where one gave up; the Terraform
  state follows the last success; everything ends.
* *Object resource.* Between refresh, plan and apply the object changes under the resource's
  feet; create is a PUT with a fallback to POST; a 404 is a normal answer. Correct: what is saved
  in the state is on the server, and repeated runs converge to empty plans.
* *Several handlers on one client.* One mutex is held across many calls and minutes of polling,
  the other inside every single call, and readers take only the second. Correct: writes take
  effect one handler at a time, a create never creates twice, what is reported is true, nobody
  waits for ever.
* *Configuration.* Defaults, ports inside hosts, and integers multiplied into nanoseconds.
  Correct: the client talks to the declared addresses, and each of its requests ends.
* *SSH transport.* Attempts are repeated on the strength of what ssh wrote; a command whose ssh
  failed may run on, on the node; the private key is on disk while an attempt lasts, and each
  step of making that file may fail. Correct: the command is sent a bounded number of times, `ok`
  is never said of one that did not succeed, the key does not stay behind, every run returns.
* *Host configuration.* An apply is up to a dozen commands, several for one file or one daemon,
  each retried on a reset though it may have been done, cut off in the middle of its file, or be
  done later. Correct: a finished apply leaves the node as declared with snmpd restarted; a
  half-done one is repaired by the next run.

## 2. The modules

| module | models | composed with |
|---|---|---|
| `CallOnce` | the abstract promise of one API call | implemented by `Session`, assumed by the resources |
| `Session` | `do`, `login`, `attempt` with the server at the other end, in both modes | `Promise == INSTANCE CallOnce` |
| `Handlers` | the handlers of objects, tasks and data sources: their calls, `writeMu`, what they report | on calls as in `CallOnce` |
| `Provider` | the same handlers on the real `Client.do`: one provider process with both mutexes | extends `Session`; `H == INSTANCE Handlers` is both its component and its abstract specification |
| `TaskResource` | `proxmox_task` with `TaskWait`, and the server's tasks | the call as in `CallOnce` |
| `ObjectResource` | `proxmox_object`: refresh, plan, apply, import of several blocks on one object | the call as in `CallOnce` |
| `Configuration` | Configure, NewClient, NewSSHClient, `specFor`: from a provider block to a client | |
| `RemoteCommand` | the abstract promise of `SSHClient.Run` | implemented by `SSHTransport` |
| `SSHTransport` | `Run`, `runOnce`, `identityFile` for several concurrent runs of the configured client | extends `Configuration`; `Remote == INSTANCE RemoteCommand` |
| `HostConfig` | `proxmox_host_config` over `SSHClient.Run`, with the node's files, snmpd and sshd | the command as in `RemoteCommand` |
| `…Proofs` | theorems and proofs of the module named (`SSHTransportProofs` also of `Configuration`) | |
| `MC…` | instances for TLC | |

Definitions called `Faulty…` belong to no specification. Each stands before the definition it
is a buggy version of (a forgotten lock, a retry too many, a missing guard). Put in its place it
must break a property; that is how each property was seen to be able to fail.

### CallOnce and Session

`CallOnce` says what a resource may rely on. A call is idle, open or closed. It has at most one
effect. `ok` comes after the effect; `notfound` and `unauthorized` mean there is none and never
will be; after `failed` (an error status) or `opaque` (no usable response) the effect may be
there or may still come.

In `Session` each element of `Calls` is one invocation of `do`; `usingToken` is the
client's authentication mode, chosen when it is built. `pc` follows the code: `lock`
(`c.mu.Lock`, client.go:195), `login`/`awaitLogin` (`login`), `send`/`awaitApi` (`attempt`),
`done`; every return runs the deferred unlock (`Return`). The two places where `do` logs in
(:197 and :211) are one `login` position, as both go on with the request. `tries` counts requests:
`RetryAfter` is the condition at :206. `wire[c]` is the one message a call can have in flight,
since each waits for its answer; `Abandon` is any error of `http.Do`, and a request it leaves on
the wire may still be executed. Tickets are numbered, so `ticket` and `csrf` record *which* login
they are from. The server issues, accepts, expires and forgets tickets as it likes, may answer
5xx after the effect or without one, and 404. A 401 comes only for credentials it does not
accept, without an effect.

### Handlers and Provider

`plan` gives every handler a kind and a script: in order, the calls it may make. A create has a
PUT and the POST it may fall back to; a task has its call, polls, and the look at the log; a
refresh or a data source has one GET. `Following` says which call may come after an answer,
`Verdicts` what may be reported after it; both are empty where the code does the other. `stage`
is `lock` (before `LockWrites`), `call` (before the next call), `wait` (inside `do`) or `done`;
`Finish` is the return of the handler with the deferred `UnlockWrites`.

In `Handlers` a call does what `CallOnce` allows. In `Provider` it is `Session`'s: `HandlerCalls`
is the handler's step into `do` and the call's step `Call` at once, and the handler goes on when
`result` is there. `Handlers` is then what `Provider` implements: `Open`, `Execute` and `Close`
of a call are seen through the same mapping as in `Session`. This is the justification of the
atomic calls in `TaskResource` and `ObjectResource`.

### TaskResource

An operation (`Begin`: create, update or destroy as the Terraform state allows, `by`, `cause`)
takes `writeMu`, sends one call, and then follows `run` (:133-184): a synchronous answer or
`await = false` ends it, a UPID starts the loop `poll` → `select` → `poll` of `TaskWait`; any
failure passes through `log` (`TaskLogTail`). `Return` is the end of `run` *and* of the handler:
unlock, report (`told`), and save or drop the Terraform state. The server's side of call *n* is
`server[n]`: sent, refused, applied, or a task that is running, ok or failed. A call may be
given up at any time with its request on the way, and a task may run for ever. A task is
identified with the call that started it, which is why `upid` is a call's number.
`cut` records the calls whose response broke off, because `attempt` drops the read error
(client.go:249).

### ObjectResource

An object is a function from keys to values, 0 for an absent key; bodies are too, so a whole
object in a plan (what `subsetSuppress` puts there) can be told from the declared subset. `Read`
is a refresh, `Plan` the plan modifier with core's choice of the operation, `Create`, `Update`
and `Delete` the handlers under `writeMu`. The calls inside a handler are atomic here, except that
the fallback of create is a second step. `CallFails` covers the uncertain answers of
`CallOnce`: not done, done, or done later (`LateRequest`, for every kind of request).
`LoginNotFound` is the 404 that comes from
the login endpoint: `NotFound` (client.go:134) looks only at the status. `EditObject` and
`EditConfig` are people. Different blocks manage different keys of the same object.

### Configuration, RemoteCommand and SSHTransport

A `block` says of each attribute what the code can tell apart: `product` may be left out, not yet
known or empty; hosts are the sequence of their parts between colons (`strings.Contains(":")` is
length above 1, the last part is what `LastIndex` finds); `timeout_seconds` is any value of an
int64, which `Duration` multiplies with wrapping. `Refused` collects the refusals of Configure and
NewClient; a refused block never gets a client, and Terraform then calls no resource.

In `SSHTransport` each element of `Runs` is one invocation of `SSHClient.Run`. `pc` follows
`identityFile` step by step (`identity`, `write`, `close`), because each may fail and must remove
what is there, then `ssh` and `sleep`. `copies[r][n]` is the node's side of attempt *n*: its
command was sent, succeeded, or failed. `Execute` is free to happen at any later time, also after
`Fail`: ssh gone, killed by the context or cut off from the node says nothing about the command.
`Fail` may go either way where the code looks at stderr, since any command can write those words.
`Kill` ends the provider process; nothing of it is left but the key file and the copies.
`RemoteCommand` is what remains of this for a resource: at least once, in order, at most
`Max` copies, and none after the answer.

### HostConfig

`Commands` are the SSH commands of `apply` in order, `Needed` their conditions, `at` the one under
way (`NextNeeded` skips those that the plan does not need), `Rewrites` and
`Built` what each does to the file it writes: settings declared get their value, the others of
the same file go. `snmpd` is running its file, stale, or stopped; `door` is whether sshd lets the
provider in. `RunSucceeds`, `RunRetries` and `RunFails` are `SSHClient.Run`: as
`RemoteCommand` allows, a failed attempt may have done its work (`Execute`), none of it, have
been cut off after `>` emptied the file (`Truncate`), or do it at any later time (`Linger`,
`late`, `LateCommand`), with the values it was made with.

The way of a value to the node and back is lossy, and that is what a setting's five values are for:
blank, `v` and `w`, and `v+` and `w+`, the same with something that gets lost on the way. `Written` is
what the builders make of a declared value (protocol `TCP` is written as tcp, a filter is trimmed,
hostnamectl simplifies a name), `Emitted` what the read script prints of a setting: the second word
of a line and not the third (:599, :600, :608), nothing after a `;` (:602), of the password drop-in
`PasswordAuthentication` and not `KbdInteractiveAuthentication` (:606), nothing at all of a listen
address that is not made of digits and dots (:611) and of a retention that is not made of digits.
`Refreshed` is what Read then puts into the state. `Declarable` says which of the five an attribute
can be given. The names the properties use for the consequences are `GivenBack`, the values a refresh
gives back once they are applied; `Unseen`, the drift that Read cannot tell from what is declared;
`Stable`, a block with nothing but values of the first kind.

Hostname stands for timezone as well, which is handled alike. With
snmpv3 snmpd is stopped, its file written, and snmpd *started*, which would do nothing to a running
daemon; without, it is restarted (`Daemon`). A reload of sshd that fails is masked by `|| true`, so
a new sshd setting may or may not be in force, and any later restart or reload, that for
`ssh_password_auth` too, may bring it in force (`Door`); a failed stop of snmpd for snmpv3 and a
failed restart for the trap target are masked too (`Masked`). `touched` collects, between refresh
and plan and for the length of an apply, what other people, late commands and masked failures
changed; it is what the properties have to except.

## 3. The runs

### Runs that pass

| run | instance | properties |
|---|---|---|
| `session` | 3 calls, two of them writes, ticket mode and token mode | `TypeOK`, `NoMixedCredentials`, `AtMostOneEffect`, `AnswersAreTrue`, `NeverDropsLiveTicket`, `ImplementsCallOnce`, `NeverStartsOver`, `CallsReturn` |
| `provider` | 3 handlers in 3 plans: create with fallback + drop + refresh; write + destroy + drop; task + 2 drops | `HandlersTypeOK`, `CreatedOnce`, `ToldIsTrue`, `WritesInTurn`, `NoDeadlock`, `ImplementsHandlers`, `HandlersReturn` |
| `tasks` | 2 resources, one awaited and with an inverse; 3 operations | `TypeOK`, `OverlapOnlyAfterGivingUp`, `SuccessIsReal`, `StateFollowsSuccess`, `DeadlineBinds`, `OperationsReturn` |
| `objects` | 2 blocks, 2 keys; 2 edits, 1 fault | `TypeOK`, `SavedStateIsTrue`, `OthersOnlyRollBack`, `AppliedIsZeroDiff`, `Converges`, `PlansBecomeEmpty` |
| `connect` | about 600 provider blocks; 2 SSH runs, 3 attempts, a kill | `TransportTypeOK`, `KeyFileLives`, `RequestsEnd`, `ReachesDeclaredHost`, `ImplementsRemoteCommand`, `EveryStepCounts`, `RunsReturn` |
| `host` | any subset of 4 attributes declared; 1 edit, 2 faults, 2 attempts | `TypeOK`, `AppliedReadsBack` (with `AppliedIsSet`), `EmptyPlanIsTrue`, `SNMPRestarted`, `Converges`, `PlansSettle` |

What they show, in words:

* **The session is sound.** Whatever three goroutines do around an expiring ticket, no request
  carries an empty ticket or mixed credentials, no write is done twice, no answer is false, no
  live ticket is dropped, and `do` implements `CallOnce`. Every call returns, each of its steps
  bringing it nearer to that.
* **So are handlers on it.** With `writeMu` around several calls and `mu` inside each, with
  logins and repetitions in between, a write takes effect in its own handler's turn; only a
  request whose outcome the client was not told may come later. The fallback of a create never
  comes on top of its PUT, a write that is reported done is done, and no handler waits for ever,
  because `mu` is only ever taken inside `writeMu`.
* **The task resource tells the truth**, with one exception (§5): success it waited for is
  success on the server, now and later. Two tasks run side by side only after the wait for one
  was given up. A resource with an inverse is in the Terraform state exactly when its last
  successful call was not the inverse. Every operation ends and frees `writeMu`: once the deadline
  has passed, within the poll under way.
* **The object resource converges.** A state is saved only if the server has it, and an apply
  that ends well leaves nothing to plan. What it does to keys of others is to put them back, in
  one case, to their values at its refresh: what remains of "never clobbers". From any mess
  that edits, late requests, deletions and misread 404s leave behind, repeated runs reach the declared
  values with nothing left to plan. Blocks with a `create_path` are excepted: after a POST whose
  answer was lost every further POST is refused as existing.
* **The client is the one its block declares.** Documented hosts are reached at their own port,
  else the declared one, else the documented default of the product, except that a pdm block without
  a port goes to 8443 (§5); a sensible `timeout_seconds` is the timeout, and it
  is positive.
* **A command over SSH is at-least-once, and no worse.** It is sent at most `maxSSHAttempts`
  times and never after the answer; `ok` means that the last copy succeeded. The private key is
  on disk exactly while a living attempt needs it. Every run returns.
* **The host configuration does what it declares.** A finished apply has set every declared
  setting, also where several attributes share a file and commands were repeated, cut off or
  late. The next refresh gives back exactly the values that survive the way there and back. An
  empty plan hides no drift but what Read cannot see, which `Unseen` lists. snmpd ends up running the
  new file, unless a masked failure kept it from that. Half-done applies are repaired, and so is what
  late commands of earlier applies bring back. The plans of a stable block become empty; those of any
  other block never do, they apply it again on every run (§5).

### Bounds

* *Session*: a call sends at most two requests by itself, so nothing but `Calls` is bounded.
  Three calls are a holder of the lock, one waiting that will see the ticket dropped or renewed,
  and a third whose late request meets both. The proofs remove the bound.
* *Provider*: the plans have every kind of handler, and each pairs a handler of several calls or
  a second writer with others that wait for `writeMu` or `mu`. One poll is enough for a task to
  go on, succeed, fail or reach its log. Bigger plans add no new pair of steps and are covered by
  the proofs.
* *Connect*: hosts with no, one and several colons, with and without a numeral at the end; every
  product, both kinds of credentials, none, and both; every timeout of a `Word` of 256 values
  with a `Second` of 2 units, so that products wrap to positive, zero and negative ones. Three
  attempts have a first, a middle and a last; two runs are a refresh and an apply side by side.
* *Tasks*: `MaxCalls = 3` operations allow create, a failed destroy and its repetition, or two
  that overlap with a third. Deadlines have no length. The proofs remove the bound for the safety
  properties.
* *Objects*: `MaxEdits = 2` lets the object be deleted *and* the configuration change;
  `MaxFaults = 1` allows a late request, a lost answer, or a misread 404 at any place. Two keys and
  two values are enough for one block's key against another's.
* *Host*: `maxSSHAttempts` is 2 instead of 4 and `MaxFaults` 2, so an apply can see a retry, a
  retry that is the last one, a failure after a retry, and a late command of one apply in the
  next. `MaxEdits` is 1: an edit of the node or the configuration, an import or a delete at any
  place among them. `Configurable` has a setting whose second
  word gets lost (dns_search_domain), one that is read but, empty, not applied (syslog_server), one
  with the stop-write-start sequence (snmpv3), and one that changes the transport
  (ssh_allow_groups); name servers, protocol and filter share files with two of them. The exceptions
  for numbers, the password drop-in and the listen address are for attributes outside it, which the
  proofs cover. `HostUnset` has both attributes of resolv.conf. In the liveness properties the
  bounds on edits and faults are the
  assumption that they stop.

### Fairness

* `Session`: weak fairness of each call's own steps. They wait for a response or for
  `http.Client.Timeout`, which `RequestsEnd` shows to be positive for every sensible
  `timeout_seconds` (a negative or huge one could switch it off). Weak fairness of `Lock` is enough, as
  each call takes `mu` once and their number is finite. Nothing is assumed of the server.
  `Provider` assumes the same of every handler's steps; one apply makes finitely many calls.
* `TaskResource`: the same, and the deadline of `context.WithTimeout` passes. Again nothing is
  assumed of the server: tasks that never end are allowed.
* `ObjectResource`: whoever runs the configuration runs it again until it converges (weak
  fairness of refresh, plan and apply). `LockWrites` has strong fairness, because runs repeat and
  the lock is contended for ever: Go's `sync.Mutex` hands itself to a waiter that has starved for
  a millisecond.
* `SSHTransport`: weak fairness of each run's own steps. The context ends an attempt's ssh after
  45 s; that ssh leaves no child behind that holds its output pipes is assumed, since `cmd.Run`
  would wait for it. Removing one's own temporary file is assumed to succeed. Nothing is assumed
  of the node.
* `HostConfig`: weak fairness of the run. An ssh process ends by ConnectTimeout, keepalives or
  the context.

`Quiet` (`ProviderQuiet`) is the state where nothing more is asked of the provider, so deadlock is
checked in every run but `connect`: there a refused block, a killed process, and runs that have
all returned are real ends, and `RunsReturn` says that nothing else is.

## 4. The proofs

| theorem | for |
|---|---|
| `SessionProofs!TypeCorrect`, `CredentialsNeverMixed`, `EffectAtMostOnce`, `AnswersTrue` | the invariants of the session |
| `SessionProofs!LiveTicketKept`, `StartsOverNever` | the action properties `NeverDropsLiveTicket`, `NeverStartsOver` |
| `SessionProofs!Refinement` | `Spec => ImplementsCallOnce` |
| `TaskResourceProofs!TypeCorrect`, `SuccessReal`, `StateFollows`, `OverlapOnlyAfter` | the invariants of the task resource |
| `TaskResourceProofs!DeadlineIsBinding` | the action property `DeadlineBinds` |
| `ObjectResourceProofs!TypeCorrect` | types with the exclusion of handlers |
| `ObjectResourceProofs!SavedIsTrue`, `AppliedLeavesNoDiff`, `RollsBackAtMost` | the action properties `SavedStateIsTrue`, `AppliedIsZeroDiff`, `OthersOnlyRollBack` |
| `HandlersProofs!TypeCorrect`, `CreatedAtMostOnce`, `ToldTrue`, `InTurn` | the handlers on any calls that keep the promise of `CallOnce` |
| `ProviderProofs!HandlersRefinement` | `ProviderSpec => ImplementsHandlers` |
| `ProviderProofs!HandlersTypeCorrect`, `NeverCreatedTwice`, `HandlersTellTruth`, `WritesTakeTurns` | the same four for the provider process |
| `ProviderProofs!NeverDeadlocked` | `NoDeadlock` |
| `SSHTransportProofs!TypeCorrect`, `KeysDoNotLinger` | the invariants of the transport |
| `SSHTransportProofs!RunsEnd` | the action property `EveryStepCounts` |
| `SSHTransportProofs!RequestsAlwaysEnd`, `DeclaredHostsReached` | the invariants of the configuration |
| `SSHTransportProofs!Refinement` | `TransportSpec => ImplementsRemoteCommand` |
| `HostConfigProofs!TypeCorrect`, `AppliedSet`, `AppliedIsReadBack`, `EmptyPlanHolds`, `SNMPRestartedHolds` | the invariants of the host configuration |

They assume what the modules' `ASSUME`s say of the constants and nothing else: any set of calls
and any mode in `Session`; any set of resources, any choice of those that await and have an
inverse, any number of operations in `TaskResource`; any blocks and keys in `ObjectResource`; any
handlers and any plans of the form `PlanOf` in `Handlers` and `Provider`; any provider blocks, any
width of integers, any runs and any positive `maxSSHAttempts` in `SSHTransport`; any
declarable attributes and any positive `maxSSHAttempts` in `HostConfig`. The sets need not be
finite, and the bounds on edits and faults are arbitrary.

**Session.** None of the invariants is inductive alone: that a request is repeated safely depends
on why the first was refused, on who holds the lock, and on what is still on the wire. `IInv`
adds

* `LockInv` — in ticket mode the calls between Lock and Return are exactly the holder of `mu`; in
  token mode nobody holds it and nobody logs in;
* `TicketInv` — ticket and CSRF token come from one login; who is about to send has one, who logs
  in has none;
* `WireInv` — which kind of message can be in flight at each position;
* `MessageInv` — what a message says of credentials: a login reply carries a pair of one login, a
  request in progress carries the cached ticket, a 401 means that this ticket is no longer live;
* `TriesInv`, `EffectInv`, `ResultInv` — which of a call's requests can have been executed, where
  it stands, and what that means for its answer.

One lemma per action shows that `IInv` is kept. `LiveTicketKept` follows from `MessageInv` (the
401 in hand is about the cached ticket because the lock was held since it was sent), `Refinement`
from the same parts: all steps between Lock and the response map to stuttering, `ServerExecute` to
`Execute` (that the effect is the first one is `EffectInv`), the returns to `Close`.
`StartsOverNever` counts the steps a call has left (`StepsLeft`), two logins and two requests at
most; `TriesInv` is why the second request is the last.

**Handlers and Provider.** The invariant of `Handlers` is about scripts and locks: a call of a
script is open only while its handler waits for it (`OpenInv`), a create or a task past its first
call was led on by that call's answer (`ScriptInv`), and a writer between `LockWrites` and
`Finish` is the holder of `writeMu` (`LockInv`); `CallInv` repeats what `CallOnce` keeps.
`CreatedOnce` comes from the 404 that leads to the POST: `CallOnce`
says that its call never has an effect, then or later. For `Provider` none of this is repeated.
`HandlersRefinement` shows that every step of the process is a step of `Handlers` or stutters,
citing what `SessionProofs` proves of a step of `do`; the theorems of `HandlersProofs` then hold
of the mapped variables.

`NeverDeadlocked` needs one more part of the handlers' invariant: `AskedInv`, a handler that has
asked for a call waits for that call, and for a position its script has. Then the holder of `mu` is
a call between Lock and Return (`LockInv` of `Session`), which waits for no mutex, or for a
response that can always be given up (`NoMutexNoWait`, `HolderOfMu`); who waits for `mu` waits for
one such return (`OneUnlockAway`), and who waits for `writeMu` for a handler that is in one of
these two cases, since `mu` is only taken inside `writeMu`. `Onward` says that no answer leaves a
handler with nothing to do.

**TaskResource.** `IInv` adds `NumberInv` (numbers not given out are blank), `CurrentInv` and
`PendingInv` (an unanswered call is the one its resource works on, and the last one it began),
`LockInv` (between LockWrites and Return exactly the holder of `writeMu`) and `ServerInv` (a
resource polls its own call's task). `ReturnKeeps` is the heart: every way an operation ends is an
instance of it, with what the server made of the call as its hypothesis. `OverlapOnlyAfter` then
is: two running tasks that nobody gave up are both unanswered, so both are some resource's
current call past Send, so both resources hold `writeMu`, so they are one. `DeadlineIsBinding`
rests on `ExpiredInv`: a deadline has passed only for a resource that is in its wait, so it holds
`writeMu`, and the way from there to `Return` has no second poll (`TurnsLeft`).

**ObjectResource.** `TypeOK` is inductive: its last part says that a block is between LockWrites
and Done exactly when it holds `writeMu`. `SavedIsTrue` needs that only block *b* itself changes
its state while its handler runs, that the handler saves what it has just sent, and that a PUT
(`MergeMatches`) or a POST leaves the object with every key of its body. The other two need to
know what was sent: `Planned` says that from the plan to the return the operation and its body are
those that `PlannedOp` and `PlannedBody` give, as nothing of the block changes meanwhile
(`BusyIsFrozen`, `PlanMakesBusy`). A planned body has every declared key (`PlannedHasDeclared`),
so what is saved leaves no difference; and one with a key of others is the whole object of the
state, which is planned only when no declared key differs (`WholeBodyIsTheStates`).

**SSHTransport.** Beside the types and `KeyFileLives` the invariant has `Prepared` (where no key
text is configured there is never a file) and `InOrder` (attempts up to the current one, and none
beyond it, have sent their copy; which ones is a matter of `pc`). `InOrder` is what maps copies to
the counter `sent` of `RemoteCommand`. That nothing is refused later that was accepted, and that
the client in use is the one of the block, is in the type invariant, and the two theorems about
timeouts and addresses are then lemmas about `NewClient`: arithmetic modulo `Word`, and the parts
of a host of the documented form. `RunsEnd` counts six steps an attempt (`StepsLeft`).

**HostConfig.** That a finished apply has set everything is a statement about all commands behind
it, so the invariant says it of every prefix (`DoneInv`): the settings of the needed commands
before `at` are as planned, except the touched ones. It survives later commands, repeated ones and
half-done ones because what a command writes to a setting depends on the plan alone
(`WrittenBy`, `FilesKeep`); a cut-off command empties only settings of its own file, which no
needed command before it has written (`TruncateKeeps`); a late one touches what it changes;
`NextNeeded` skips nothing that is needed, and every declared attribute that
apply() acts on has a command (`SetBySome`). `SNMPInv` follows the daemon through stop, write and
start: with snmpv3 it is down when its file is written, hence not stale when it is started, as long as
nothing has touched the daemon. `AppliedIsReadBack` adds that a block never says what its attribute
cannot be (`DeclaredInv`), and then goes through what builder and script do to a value, in both
directions: what is given back (`ReadsBack`), and that nothing else is (`ReadsOtherwise`).
`EmptyPlanHolds` follows an attribute from the refresh to the plan (`SeenInv`):
whatever changes on the node in between is in `touched`.

**Only model-checked**: the liveness properties (`CallsReturn`, `HandlersReturn`,
`OperationsReturn`, `RunsReturn`, `Converges`, `PlansBecomeEmpty`, `PlansSettle`): the prover
reasons neither
about fairness nor about ENABLED. What can be said of them by steps is proved: nothing goes round in
circles (`NeverStartsOver`, `EveryStepCounts`, `DeadlineBinds`), nobody waits for one who waits for
him (`NoDeadlock`), and one undisturbed run leaves nothing to plan for an object
(`AppliedIsZeroDiff`), and for a node
nothing but what cannot be read back (`AppliedReadsBack`). What is left to TLC is that the scheduler
takes the steps
and that disturbances end.

## 5. Where code and documentation disagree

Each has a run in which TLC finds the counterexample; the comment above the property quotes the
line.

| run | what the documentation says | what happens |
|---|---|---|
| `tasks_completion` | a UPID is polled to completion and a bad result is an error | a 2xx body that breaks off is not a UPID; the running task passes for a finished synchronous call |
| `tasks_parameters` | `destroy_params` are parameters of the destroy operation | with `DELETE` they are dropped silently |
| `objects_clobber` | a subset declaration never clobbers unmanaged fields | an update of `delete_method` alone PUTs the whole object of the last refresh |
| `objects_gone` | a 404 on destroy means already gone | it may be the login's 404: the state goes, the object stays |
| `host_unset` | an unset attribute is left untouched | the commands write whole files: `dns_servers` alone removes the search domain |
| `host_lockout` | the provider's user is appended so a bad list can never lock it out | AllowUsers has it, but a declared AllowGroups must match as well |

Differences that are plain to read, and have no run:

* The default port of PDM is 8443 in product.go:52 and 8006 in README.md:39, client.go:55 and
  provider.go:77. `ReachesDeclaredHost` states the documented ports and excepts this case.
* host_config_resource.go:117 says of `syslog_server` that empty leaves it unmanaged. apply() does
  leave it alone, but Read reconciles it, so on a node that forwards its logs an empty one is a
  difference on every run (`Stable`, `PlansSettle`).
* Values that the schema accepts and the read script does not give back are applied again on every
  run: the protocol `TCP` (:507, :603), an IPv6 listen address (:566, :611), two search domains
  (:488, :599), a community or a trap target with a second word (:608, :612).
  host_config_resource.go:137 documents `ssh_password_auth` as both PasswordAuthentication and
  KbdInteractiveAuthentication, and only the first is read (:606).
* client.go:50 wants exactly one authentication mode; NewClient accepts both, and the token wins.
* client.go:65 lets SSHHost default to the API host; without one NewClient builds no SSHClient, as
  client.go:64 and provider.go:109 say.
* task_resource.go:130-132 holds `writeMu` for the whole operation; after a deadline or a failed
  poll it is free while the task runs on (`OverlapOnlyAfterGivingUp` is what remains true).

## 6. What is left out

* JSON: envelopes, number formats, invalid bodies (rejected before any call); values are equal or
  not.
* The *text* of shell scripts and configuration files, quoting, and `ssh`'s options. What the
  files mean is modelled.
* Failures of `systemctl` that the commands mask, for chrony and rsyslog, and the failed clearing
  of net-snmp's persistent users.
* TLS, cookie names, the token syntax, the import ids' syntax; of addresses, scheme, blanks and
  slashes.
* Digest checks and other optimistic locking of the server; a PUT merges.
* A task that ends with `WARNINGS` has an exit status other than OK, and is a failed one here as
  in the code.
* What the data sources make of an answer. Their calls and their place beside the writers are in
  `Handlers`; they keep no state.
* Cancellation of a GET: the client's methods take no context, so there is nothing to model but
  the deadline in `TaskWait`'s select.
* main.go, the Makefile, tests and examples.

## 7. What could follow

* `proxmox_host_config`: repair of what Read does not see (the exceptions of `EmptyPlanIsTrue`, and
  the apply-only attributes after an apply that was half done and taken back). All of it is in the
  model; `Converges` leaves it out.
* `proxmox_task`: re-invocation by changes of attributes other than `triggers` (in the model as
  `Begin`).
* One composition of `HostConfig` with `SSHTransport`, instead of the two on either side of
  `RemoteCommand`.
