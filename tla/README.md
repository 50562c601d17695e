# Homeplane: a TLA+ verification project

Homeplane is a personal control plane.  A **server** on a tailnet enrols
machines, issues capability grants to the coding harnesses on them, brokers
OAuth credentials, and fronts connector calls with an audited edge.  An
**agent** on each machine keeps the enrolment, writes the harness
configurations, and runs the local services (vault synchronisation, the
retrieval engine, skills).  This project models the parts of it that carry
state and can go wrong, checks them with TLC on small instances, and proves every
safety property of them with TLAPS for every instance.

Paths in this file are relative to the repository root; modules are in this
directory.  `PROJECT.json` holds the definition-by-definition map from the
modules to source lines, the runs, the mutants, the hazards and the theorems.

## 1. Inventory

| component | state | operations | hard behaviour | correct when |
|---|---|---|---|---|
| credential broker (`internal/server/credflow`) | `Service.flows` in memory, one credential and generation per provider and the audit rows in the store | start, relay, poll, sweep, exchange job, delivery hook, terminal write | every handler, job and sweep interleaves between critical sections; the terminal row can fail and is retried by others; the process dies with flows open | one start and at most one ending per flow on the record; nothing shown that is not recorded; no credential overwritten by a flow that did not see it |
| control-plane API (`internal/server`) | machines, grants, audit rows | enrol/rotate, issue, list, revoke; denial rows | ownership checked in one query, revoked in another; concurrent issuances; the operator's process | one live grant per machine and harness; a grant's history names its one end; answers match the log |
| capability policy (`internal/policy`) | none (validated at start) | Resolve | blank entries, empty requests | a grant is within the policy |
| store (`internal/store`) | the SQLite database | one transaction per mutation, row with effect | contention, rollback | compare-and-swap is atomic with its row |
| connector edge and broker (`internal/server/edge`, `connectors`) | the manifest and its index, read once; rows | authenticate, route, classify, authorize, record, call, record | client hangs up, grant revoked mid-call, rows fail, process dies; a name two connectors claim, an argument that is missing | no call on a revoked grant; no tool run that the grant's policy does not cover; no effect without a row |
| workload delivery (`cmd/homeplane-server/workload_credential.go`, `workloadcred`) | files in the workload directory, one health slot | deliver per flow, deliver all at start | partial writes, two deliveries at once, restart | `completed` means delivered; a restart converges; the probe tells |
| agent state (`internal/agent`) | `state.json`, `machine.cred`, the flock | enrol/persist, configure, mutateState | processes of the same user, killed at any step; lost answers | an older credential never replaces a newer one; configs hold live grants |
| harness configuration (`internal/agent/harness`) | the harnesses' config files, `harnesses/*.json` records | detect, preflight, issue, back up, merge, rename, read back, roll back, record | the file is somebody else's and is saved, broken or deleted at any moment; grants are issued before the write that needs them | nobody else's content is lost; a configured harness carries the newest grant; every entry is on record |
| vault synchronisation (`internal/agent/vault`, `cmd/.../vault.go`) | `sync.json`, the vault, the remote, the unit | retrieve, preflight, activate, apply, run | a first pass against a non-empty remote; a half-done activation | a snapshot before the first real pass; a refusal starts nothing |
| supervision (`internal/agent/supervise`) | restart ledger, units | record start/exit, install, activate | unlocked read-modify-write; KeepAlive restarts | status is honest about a crash loop |
| retrieval engine (`internal/agent/gno`) | unit, `gno.json`, removal plan, endpoint descriptor, index, rebuild lock, resident-runtime lock, launch ledger | activate, apply, run, rebuild, launch, deactivate | four files replaced over a working installation; an index that a supervised process holds open; a killed engine that leaves a lock holder; concurrent rebuilds and launches | the published descriptor is backed by what it describes; nothing is reclaimed or discarded under a running engine; the engine comes back |
| skills (`internal/agent/skills`) | links in harness directories, the ownership manifest, a list in `state.json` | discover, assign, link, repoint, withdraw, verify, record | the operator edits the same directories, the vault and the profile; a run dies between a link and its record; every command saves `state.json` whole | nothing foreign is touched; every link is claimed; a run converges on what it read |
| add-credentials client (`internal/agent/credflow`) | a loopback listener | start, listen, relay, poll | timeouts, two callbacks | relays once |
| status, keyring, tokens, tailnet identity, installers | none | read-only, cryptography, I/O | - | - |

Interactions: the edge, the control-plane API, the broker and the operator's
CLI share the store; the broker's job calls the delivery hook; the agent's
enrolment and configure runs call the API and share the state directory; vault
and gno commands write `state.json` through `mutateState`.

## 2. Modules

| module | models | composes |
|---|---|---|
| `CredentialSwap` | the abstract promise of the secrets table: begin on a generation, swap if it is still that one, overwrite, give up | - |
| `CredFlow` | the broker; `ImplementsSwap` refines `CredentialSwap` | `INSTANCE CredentialSwap` |
| `ControlPlane` | machines, grants, denials, the operator's revocation | - |
| `Manifest` | the connector manifest: validation, the router's index, the class of a call, the decision; no variables | - |
| `ConnectorEdge` | a connector call through edge, broker and gateway | `EXTENDS ControlPlane, Manifest`: its calls interleave with every grant transaction |
| `Delivery` | workload delivery and the health slot | - |
| `AgentState` | the state directory, enrolment, configure-harnesses, mutateState | - |
| `HarnessFile` | one harness's configuration file and the runs that merge Homeplane's entries into it | - |
| `Skills` | skills provision and refresh, the manifest, the harness directories, and the commands that share `state.json` | - |
| `VaultSync` | vault retrieval, activation, the supervised sync, its restart ledger and its status | - |
| `Engine` | the retrieval engine: activation, apply, rebuild, deactivation and the supervised process with its locks | - |
| `CredFlowProofs`, `ServerProofs`, `DeliveryProofs`, `AgentStateProofs`, `HarnessFileProofs`, `SkillsProofs`, `VaultSyncProofs`, `EngineProofs` | theorems and proofs about the module of that name; `ServerProofs` about `ControlPlane`, `Manifest` and `ConnectorEdge` | `EXTENDS` their module and `TLAPS` |
| `MC*` | constants of the instances TLC checks | extend their module |

### CredFlow
One action is one critical section of `Service.mu` or one store call.  A start
request moves `stage` idle → sweeping → swept → checked → observed → recorded →
open; `todo` is the list of stale flows its own sweep made before it let go of
the lock.  `saw` and `relaying` are requests that read the flow and have not
acted yet.  `job` is the exchange job.  An ending is first `decided`, then
written by whoever holds `terminalMu` (`holder`, with the decision it read in
`snap`), then shown in `state`; `owner` is the decider that still owes a
`commitTerminal` call.  `trail` is what the audit log holds for the flow.
`Crash` forgets everything that is memory.  The OAuth exchange, the sealing and
the delivery are abstracted to success or failure.  "Mutant:" definitions in
each module are faults used to show that a property can fail; no specification
uses them.

### ControlPlane and ConnectorEdge
A machine credential is `<<node, version>>`, a grant token its grant's id.
`trail[g]` is the sequence of lifecycle rows of a grant.  `deny` either writes
its row and refuses or answers 503.  A call in `ConnectorEdge` keeps the rows
that carry its call id; `late` remembers that its grant had ended before it
arrived, `gone` that its client hung up, `logFails` that the log refused a row.

`Manifest` has what the edge decides with, as operators: `Validate` and the
rules below it, `newToolRouter` and `AddClaims` as the two nested loops over the
connectors and over every name a connector claims (an inventoried tool is claimed
twice), `route`, `Register`'s
last-entry-wins index and `Authorize` with its reasons.  A tool name is the
sequence of pieces `__` cuts it into, arguments a map from the manifest's
pointers to what they find, with the values `Extract` refuses named
(`Unusable`).  The properties do not use router or index: `Meant` reads every
tool a name may mean off the file, and `Powers` what each is declared to take.
The gateway gets the name as it arrived (`callState.wireTool`) and is taken to
read a name qualified by a declared provider as that provider's tool, which is
what `QualifierSeparator` says of it; of a bare name several servers claim it
may run any.

### Delivery
`file` is the credential file with the provider and generation it was rendered
from, `client` whether the client file is present, `lastErr` the probe's slot,
`driver` whether the OAuth client's secrets are stored.  The deliverer `"boot"`
walks the providers before the server listens; the others are flows.  `Restart`
is a crash or a restart at any moment, also in the middle of that walk.

### AgentState
`cred` and `json` are the two files, `lock` the flock.  A process reads its own
copy (`snap`) and saves all of it.  `serverVersion` and `live` are the server's
side.  A grant request can be carried out and its answer lost, or the client can
give up (`giveUpIssue`) on a request that is still under way in `delayed` and
reaches the server at any later moment (`arriveLate`).  The history variables
`torn`, `rolledBack`, `unwritten` and `overtaken` record that a persist was cut
between its two files, that `state.json` went back, that the last grant of a
harness reached no config, and that a late request superseded it.

### HarnessFile
A run's steps are the labels of `run.pc`: the descriptor, detection, preflight,
the grant, the second scope check, and then `applyOnce`: snapshot (`before`),
copy (`backup`, read from the path a second time), rewrite and check, the last
look, the rename, the read-back, the rollback; at the end the record.  Every
read, write and call can fail, and the run can be killed before each.  `Save`,
`Break`, `Delete` and `Reformat` are the harness and its user, who take no lock.
A file is what the two parsers and editors tell apart (the comment at the top of
the module lists it); `dotted` entries are the ones `scanTOMLTables` does not see
as tables.  `late` says that somebody else wrote the file since the run's last
look, `unsaved` holds the names a run put in the file without reaching
`saveRecord`.  Left out: modes and fsync order inside `writeFileAtomic`, a record
that is damaged (`loadRecord` takes it for an empty one, with a comment that
accepts the orphan), and several harnesses in one run, which is `AgentState`.

### Skills
A run is `resolved` (vault scanned, profile read, before the lock), `working`
under the lock, and after it `reporting`, `recording` (the list has been read from
the manifest) and `copied` (`mutateState` has loaded `state.json`).  While it works, `links`
and `stale` are what is left to link and to withdraw for the current harness and
`op` is the file operation decided for the entry `at`: what it decides on one
entry is carried out, and recorded in the manifest, in later steps, with the
operator's edits between them.  `mem` is the run's copy of the manifest.
`Candidates` abstracts the contents of a vault entry to what `classify` tells
apart; which bytes are a credential or an initiative signal is an input.  `made`
remembers every link a run created, `touched` the paths the operator changed after
a run had come to them (`Looked`), `failed` those where an operation failed,
`unsaved` the paths whose run died before the record.

`status` is what `state.json` says of the skills.  `mutateState` loads and saves the
whole file without the lock, so a run's report is two steps, and `Commands` are the
other processes that do the same, each again and again (`recordVaultPath`,
`recordSync`, `recordGNO`, an enrolment, a configure run): they save the copy they
loaded, list of skills included.  What becomes of the other components is
`AgentState`'s question.  `unlisted` says that the
manifest has changed and status was not told since, or was told and an older copy
was saved over it.

### VaultSync
Every command (`vault retrieve`, `vault sync activate`, `vault sync apply`) is a
process that goes through its stages one action at a time and may fail, or be
interrupted, before each; it can be run again.  The directory is `absent`, `cut`
(a vault that is not complete), `whole` or `damaged` (the pass removed more than
`GuardPolicy` allows), `mode` is what `ob sync-config` was last told, and
`remote` whether a pass has propagated an empty directory.  `config`, `unit` and
`loaded` are `sync.json`, the unit file and what the supervisor holds.  The
process is `at` a point of `RunSync`; the ledger is read into `copy` and written
back whole, as `Tracker.mutate` does without a lock, so that the reset of an
activation can come in between.  `ledger.last` abstracts the pid of the last
start: `live`, `gone` (no exit recorded) or `exited`.  `syncComponent` is what
`status` shows.  The external `ob` is `Pass` and `PassCut`: a pass completes the
tree, fails half-way, follows a remote that looks emptier than it is, or, in
bidirectional mode from an empty directory, empties the remote, which is what
the code takes it to do.

### Engine
`file` is the four destinations of an install; the content of a file is the
number of the activation that wrote it, with the `Applied` flag of `gno.json`.
`snap` is what the running install captured, `resume` the commands that stopped
the engine and still owe it a start.  A command goes through its labels in `pc`
one action at a time and may fail or be killed at each; `activate`, `apply` and
`deactivate` run one at a time and not beside a rebuild (no lock keeps them apart:
the operator does), rebuilds run together.  `loaded` is what the
supervisor holds; `IsLoaded` is its answer, which on systemd is no for a unit
between two starts.  `at` is the point of `RunDaemon`, `holder` the
resident-runtime lock (`engine`, or `stranded` when a killed engine or stdio
session left it), `live` whether the pid of the ledger's last start answers.
`lock` is the rebuild lock, `fresh` or older than `staleRebuildLock`; it grows
old only when no rebuild is under way, as the timeouts of the CLI end one
earlier.  `remaining` is the part of a deactivation's report the properties
need.  Left out: the record in `state.json` (written by the same `mutateState`
as in `VaultSync`), the contents of the index, the vault's own gate beyond
"refused", and the rest of the restart ledger; the supervisor is taken to
answer a query truthfully.

## 3. Runs

| run | question | instance | result |
|---|---|---|---|
| `MCCredFlow` | every interleaving of two flows of one machine for one provider, an import, failing rows and crashes | 2 flows, 1 import | holds |
| `MCCredFlowLive` | do relayed and polled flows end? | 2 flows, fair server and agent | holds |
| `MCControlPlane` | grants under racing requests, rotations and the operator | 2 nodes, 3 requests, 3 grants, 2 enrolments each | holds |
| `MCConnectorEdge` | one call against grants that come and go; is the tool it reaches within the policy, is it on record, is it answered? | 2 nodes, 2 requests, 2 grants, 1 call of 12 name and argument combinations, 7 manifests of which the server takes 2, fair handlers | holds |
| `MCAgentState` | two enrolments, two configure runs and a mutator, killed anywhere, with lost answers and late requests | 5 processes, 1 harness | holds |
| `MCDelivery` | deliveries of one provider, with restarts | 2 flows, 2 generations | holds |
| `MCVaultSync` | retrieval, activation, apply and the supervised process, failing, interrupted and killed anywhere; does sync come back? | 1 of each, both platforms, threshold 1, fair supervisor | holds |
| `MCVaultSyncMode` | does sync run in both directions once a retrieval is over? | the same | violated: the app fallback after the pull-only step leaves pull-only |
| `MCEngine` | re-activation, apply, rebuilds and deactivation, failing and killed anywhere, against the supervised engine; does the engine come back? | 2 activations, 2 rebuilds, both platforms, fair supervisor | holds |
| `MCHarnessFile` | runs against one configuration file that others save, break, reformat and delete meanwhile; does every run end? | a Codex file, 2 contents, 2 engine names, 2 grants, 1 retry, fair run | holds |
| `MCHarnessFileRollback` | is the window for a lost edit the rename itself? | the same | violated: the rollback overwrites an edit saved after the rename |
| `MCSkills` | provision and refresh, for both harnesses or narrowed to one, failing and killed anywhere, against an operator who edits meanwhile and another command that saves `state.json` | 2 runs, 1 other command, 1 skill, 2 harnesses, 2 vault places, 2 profiles, 2 edits | holds |

Each violated property quotes the sentence of the repository it states; the
finding in `PROJECT.json` names both places.  More disagreements were met
and are not given a run: a persist killed between `machine.cred` and
`state.json` lets a delayed older response replace the newer credential
(`enrol.go:158` compares with `state.json` only, `lock_unix.go:21` calls the
check a backstop for this; `StaleResponseIsDiscarded` excuses exactly this
window); `deliverStored` takes a missing OAuth client for a missing credential
and the probe stays green (`workload_credential.go:169`); one health slot is
shared by the deliveries of all providers; the broker's budget is checked in one
critical section and the flow inserted in a later one, so concurrent starts pass
together (`credflow.go:230` calls it a bound); a flow whose expiry row could not
be written is `decided`, which later sweeps skip, so that one nobody polls keeps
its place in the budget (`credflow.go:489`, `:518`); `mutateState`, and
`configure-harnesses` with a copy it loaded before it waited for the lock, save
the whole of `state.json` and can take the credential version back
(`enrol.go:129`; `StaleResponseIsDiscarded` excuses `rolledBack`); `status` shows a recorded
sync failure as "the whole story: nothing was supervised" (`status.go:274`),
but a failed run or apply is recorded while the supervisor keeps the unit alive.

About configuration files and skills, likewise: an entry put in the file by a
run that did not reach `saveRecord`, or rewritten by its user as dotted keys, is
never retired when its name changes (`NoOrphans` excuses exactly these two); a
link whose run died before the record is nobody's; `os.Remove` goes by name, so
an entry the operator puts in place of a link between the look and the removal
is removed (`ForeignEntriesStay` excuses `touched`); and the list of skills in
`state.json` is not the machine's (`link.go:260`) when another command, such as the
supervised sync that reports every pass, loaded the file before a run's report and
saves its copy after it (`vault.go:124-135`; `StatusDescribesMachine` excuses it
through `unlisted`, and without `command[c].old` in `commandSaves` TLC finds it).

About the engine, with the conjunct that excuses it taken out of the property,
TLC finds: two rebuilds past the lock when both saw the same abandoned one
(`engine.go:913-915` looks and then removes by name; `RebuildsExclude` excuses a
history with `broken`); on systemd, a rebuild that discards the index under an
engine, after a quiesce that was told `is-active` = no and a reset of the
restart ledger that hid the process (`RebuildNeverRacesEngine` speaks of
launchd); an engine spawned between the look of `engine.go:843` and the discard,
when the unit is loaded and `gno.json` does not say applied, so that the rebuild
only probes and stops nothing (`RebuildNeverRacesEngine` excuses a rebuild past its
answer while the record does not say applied); and a unit loaded by
`gno apply` on a machine without a removal plan, after an activation killed
between the two files.

**Why the bounds are enough.**  The hazards of the broker are races for one
flow (any number of observers collapse into `saw`, `relaying` and the owed
call) or of two flows for one credential; a third flow adds no new pair, and
the theorems cover every number.  Two nodes are needed to present somebody
else's credential, three grants for a supersession while another one is being
revoked.  Two connectors are the fewest that share a tool name; both orders of
them are taken, since the index depends on it.  Two enrolments give every order of answers and persists, two
configure runs every order of issue and write.  `MaxImport`, `MaxVersion` and
`MaxGen` bound counters that only grow, at the smallest value where a stale
reader, a rotation and a replacement occur.  One retrieval, one activation and
one apply can each be repeated for ever, so two of a kind at once are the only
case left out; crash-looping is reached with a threshold of one, and the number
of recent starts is cut off just above it.  The engine
needs a second activation to have a working installation to overwrite and roll
back to, and two rebuilds to race; a third activation repeats the second.
A configuration file needs two grants, so that an earlier run has left something
to replace, two engine names, so that one is retired, and one retry
(`MaxMergeAttempts` is 1, not 5: each retry starts from the same state but for
the count).  Two skill runs race for the lock and overlap after it; two harnesses
are the fewest of which a run can be narrowed to one; paths are
independent of each other but for the manifest and the list, so one
slug is enough; with two edits the operator can take over an entry and move the
vault or change the profile in one history.  One other command is enough to save an
older copy of `state.json`.  A harness whose skills directory changes between two
runs is left to the proofs, which take any set of directories.
Runs say `CHECK_DEADLOCK FALSE`
because requests, calls and processes end, and a server with nothing to do
waits.

**Fairness.**  `ServerFairness`: the Go runtime runs a job or handler it
started; a write of a row that is retried for ever succeeds in the end (strong
fairness of `TerminalRowWritten`: the audit log is not down for good).
`PollFairness`: `add-credentials` polls a pending flow in a loop.
No fairness for the human, the operator or a crash.  The edge: a
handler runs, and the gateway call returns because its client has a 60 s
timeout.  A configure run: a started process takes its next step (weak fairness of
its steps together; none for starting one, for a kill or for the harness, which
may save its file for ever).  Vault sync: the supervisor starts a
loaded unit that is not running (`KeepAlive`), a process whose CLI has stopped
runs to its end, and a start that is tried again and again is not cut off every
time (strong fairness: a token or a disk that is missing for good is outside
`SyncComesBack`).  The engine: likewise `Spawn`; `gno daemon` that finds the
resident lock held exits (weak fairness of that `RecordExit`); a start, a reclaim
and a daemon that are tried again and again get through in the end (strong
fairness: a vault that is gone or a `pgrep` that always fails is outside
`EngineComesBack`).

## 4. Proofs

Every invariant and every action property that a passing run checks is also
proved, for any number of processes, requests, files, manifests and retries.  A
component's proofs are in its `*Proofs` module; each has one inductive invariant
(`Inv`, `EdgeInv`), checked with TLC before it was proved, one lemma per action,
a theorem `Invariance`, and the theorems that `PROJECT.json` lists, which follow
from it.

**Assumptions.**  Only the named `ASSUME`s of the modules, which TLC evaluates on
every instance: maps have their types; names that stand for "nobody", "none" or a
command are not ids; bounds are naturals; a policy's defaults are within what it
allows (the server refuses to start otherwise); the lists of a manifest are finite
sequences (`ManifestAssumption`: they come from a JSON decoder).

**`CredFlowProofs`.**  The safety invariants, `EndingsAreFinal`, and
`BrokerImplementsSwap`: the broker refines `CredentialSwap`.  The inductive
invariant is `TypeOK /\ FlowLifecycle /\ NoBlindOverwrite`.  "The rows match the
shown state" is not inductive: whether a step may append a row depends on who else
is still entitled to decide.  `FlowLifecycle` says that a flow is untouched,
waiting, working, deciding, finished or lost, and what each shape implies for the
job, the decision, the mutex, the relay flag and the rows.  Its key facts are that
a job exists only while nothing is decided, and that a decision is `expired`
exactly when the flow was not relayed: that is why a stale `saw` or `todo` entry is
harmless.  `CommittedSame` and `GenerationStep` isolate the two actions that move a
generation, which `LedgerStep` and the refinement reuse.

**`ServerProofs`, part I** (`ControlPlane`).  `OneTokenPerHarness`,
`GrantsAreAccountedFor`, `RevocationsAreTruthful`, and `AuthorityOnlyShrinks`: a
grant never changes hands or gains a capability, and once ended stays ended.  The
strengthening is `RequestShape`: a request past the ownership check has found its
grant under its caller's name.  Since `AuthorityOnlyShrinks`, what was checked in
the earlier query is still so in the later one, and the answer can be wrong only
about whether somebody else ended the grant first, which the update itself tells.

**`ServerProofs`, part II** (`Manifest`, `ConnectorEdge`).  First what the pure
functions compute.  `RouterIsIndex`: the two loops of `newToolRouter` return the
index of the set of all claims (a name with one owner is its owner's, a name with
several is ambiguous), whatever the order and the repetitions, by induction over
the length of each list.  `DecisionSound`: for every manifest that `Validate`
takes, every name and every argument, `Authorize` after `route` admits only a call
whose name means one declared tool, all of whose powers the grant holds, and the
event of a refusal is a denial exactly when only the grant stood in the way.  Then
`EdgeInv`, which says of each step of a call who made it, what it takes and which
rows it has, gives `RevocationAlwaysBites`, `AuthorityAlwaysProven` and
`CallsAlwaysOnRecord`.  `EdgeKeepsControlPlane`: the composition implements the
control plane's own specification, so that part I holds beside the edge too.
The induction theorems of the library take an operator as a parameter;
`NatSetInduction` states induction for a set instead, from the library's
well-foundedness of `<`, and the proofs use it with the set of lengths for which
the loop is right.

**`DeliveryProofs`.**  `OwnOrLater` (the store only moves on from what a flow
committed) carries `CompletionsAreDelivered`.  For `RestartsConverge`,
`Converging` says how far the boot loop has come with the one provider, and
`QuietWhileSettled` that nobody else delivers before something new is stored.

**`AgentStateProofs`.**  `ConfigsHoldLiveGrants` rests on `GrantInHand` under the
lock.  `StaleResponsesAreDiscarded` rests on `StillNewer`: the comparison that
admitted a response still holds when it is written, which needs
`CopiesAreOld` and `CredentialIsNamed`; both fail after `rolledBack` or `torn`,
which are the two windows the property excuses.

**`HarnessFileProofs`.**  The invariant is about copies: the file, the snapshot and
the backup are each `Accounted` for, nothing is written that the check did not pass
(`CheckedFirst`), and as long as nobody else wrote, the file is what the run
believes (`Undisturbed`).  `EditsAlwaysSurvive` is then a property of the three
actions that write.

**`SkillsProofs`.**  `RunInv` is per run: it works under the lock on a copy of the
manifest that differs from it in the entry in hand at most (`Recorded`), it removes
only what it owned when it looked (`Decided`), what it is about to record is so
(`Recording`), and every path of a harness it has come to is as it wants it or
still on one of its lists (`Settled`).  `RunsConverge` is `Settled` with empty lists.
A run that is not at work is indifferent to everything but the manifest it is about
to report (`RestKept`), which is what makes two runs no harder than one.
`StatusIsTheMachines` rests on `Listed`: what a run is about to save is the
manifest's list unless it is `late`, and the list in a copy another command has
loaded is the one in the file unless the copy is `old` (`Copies`).

**`VaultSyncProofs`.**  `RemoteAlwaysWhole` needs that something was pulled wherever
a pass may push (`Pulled`, with the record that only an activation leaves as the
witness), `GuardAlwaysPrecedes` that whatever could reach the supervisor comes from
an activation past the guard (`Supervised`), `OkAlwaysMeansAlive` that the ledger's
last start answers only while there is a process (`Alive`).

**`EngineProofs`.**  `PublishedAlwaysBacked` is not inductive: a rollback restores
what the install captured.  `InstallShape` says what has been captured at each
point, that it may be put back, and what that does to a descriptor still published.
`EngineIsDown`, `LedgerKnows` and `EngineIsHeld` carry `ReclaimContractHolds`,
`LockHeld` carries `RebuildsAlwaysExclude`, `Owed` carries
`AppliedNeverLeftStopped`.  `RebuildsNeverRace` has two halves.  At the answer the
ledger or the supervisor tells the truth (`StepNeverRaces`).  From there to the
resume, where the record says applied, the unit is not loaded (`Quiet`): while a
rebuild is at work nobody but rebuilds moves (`OnlyRebuilds`), of those only a
resume under the lock loads it, and two hold the lock only once it was broken; an
engine that is not loaded does not run (`StaysDown`).

**What the proofs changed in the models.**  `DecisionSound` did not go through
until `validateSelector` also refused a case whose value `Extract` never returns
(`manifest.go:701-709`), which the model had left out.  `After` and `Restart` of
`Delivery` had cases that overlapped.  `Engine` now says that rebuilds are commands
of their own.  The proof about the list in `state.json` never used that no run is at
work, and `StatusDescribesMachine` no longer asks for it.  `RebuildNeverRacesEngine`
was about the moment of the answer until the proof of `Quiet` showed that it can be
stated for the whole time a rebuild replaces the index.

**Only model-checked.**  The liveness properties (`RelayedFlowEnds`,
`PolledFlowEnds`, `CallsEnd`, `SyncComesBack`, `EngineComesBack`, `RunEnds`):
fairness and `ENABLED` are outside the proof system.  The two violations are
counterexamples of TLC.

## 5. Not modelled

Cryptography (`internal/secrets`, `internal/cred`), the tailnet lookup, URL and
PKCE construction, HTTP headers and SSE framing, the manifest's JSON and lexical rules, artifact ids, audit
queries, which bytes of a skill look like a credential, the layout the TOML and
JSON editors preserve, status rendering (but `syncComponent`), the token and password files
of the vault, the text of units, pid reuse (a caveat `liveness.go` states), shell
installers and the `spike/` prototypes: no
state of their own, or text in and text out.

## 6. Plan

1. `Launches`: the stdio wrapper and the launch ledger of the engine, with
   concurrent harness sessions.
2. `AddCredentials`: the agent's loopback listener, composed with `CredFlow` so
   that lost and late answers are part of the run.
3. Abstract specifications beside `CredentialSwap`: the harness directory as a set
   of claimed links that `Skills` refines, and the published engine that `Engine`
   refines.
