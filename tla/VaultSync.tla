------------------------------ MODULE VaultSync ------------------------------
(***************************************************************************)
(* Vault retrieval, the activation of continuous sync, and the supervised    *)
(* process behind it (internal/agent/vault, internal/agent/supervise,        *)
(* cmd/homeplane-agent/vault.go), with what `status` makes of it.            *)
(*                                                                         *)
(* The commands are processes of the operator: each runs its stages in       *)
(* order, may fail or be killed between any two of them, and may be run      *)
(* again; a retrieval, activations and applies interleave with each other    *)
(* and with the supervised process.  The tree is abstracted to whether it is *)
(* a vault, whether everything has been pulled and whether a pass destroyed  *)
(* more than the guard allows.                                               *)
(***************************************************************************)
EXTENDS Naturals

CONSTANTS
    Activations,  \* operators' `vault sync activate` sessions
    Applies,      \* operators' `vault sync apply` sessions
    Threshold     \* DefaultCrashLoopThreshold

Cmds == {"retrieve"} \cup Activations \cup Applies

ASSUME CommandAssumption ==
    /\ "retrieve" \notin Activations \cup Applies
    /\ Activations \cap Applies = {}
ASSUME ThresholdAssumption == Threshold \in Nat

VARIABLES
    platform, \* the machine's supervisor: "launchd" or "systemd"
    tree,     \* the vault directory on this machine
    remote,   \* the remote vault: has an incomplete tree been pushed to it?
    mode,     \* the mode `ob` keeps for the directory; "unset" before sync-setup
    path,     \* state.json names the vault path
    sync,     \* state.json: the sync component's recorded state
    config,   \* sync.json: "none", installed or applied
    unit,     \* the unit file exists
    loaded,   \* launchd or systemd holds the unit
    at,       \* the supervised process: how far it is, "none" when there is none
    ledger,   \* the restart ledger's file
    copy,     \* the ledger as the process loaded it, between Load and write
    pc,       \* progress of a command
    before,   \* the activations whose snapshot, as long as they use it, is of a whole tree
    guarded   \* some activation's pass stayed within the guard

vaultVars == <<tree, remote, mode>>
stateVars == <<path, sync>>
unitVars  == <<platform, config, unit, loaded>>
procVars  == <<at, ledger, copy>>
cmdVars   == <<pc, before, guarded>>
vars == <<vaultVars, stateVars, unitVars, procVars, cmdVars>>

-----------------------------------------------------------------------------

\* What the ledger says: any starts, the last start's pid (of the process that
\* is alive, of one that is gone, or with a later exit), starts in the window.
NoLedger == [starts |-> FALSE, last |-> "none", recent |-> 0]

\* A machine with a vault the operator may have bound himself, or with none.
Init ==
    /\ platform \in {"launchd", "systemd"}
    /\ \/ tree = "absent" /\ mode = "unset"
       \/ tree = "whole" /\ mode \in {"unset", "bidirectional"}
    /\ remote = "whole"
    /\ path = FALSE
    /\ sync = "none"
    /\ config = "none"
    /\ unit = FALSE
    /\ loaded = FALSE
    /\ at = "none"
    /\ ledger = NoLedger
    /\ copy = NoLedger
    /\ pc = [c \in Cmds |-> "idle"]
    /\ before = {}
    /\ guarded = FALSE

\* The directory carries .obsidian.
IsVault == tree \in {"cut", "whole", "damaged"}

Goto(c, where) == pc' = [pc EXCEPT ![c] = where]

\* One pass of `ob sync` in the mode it is configured for: it completes the
\* tree, or follows a remote that looks emptier than it is, or, when it may
\* push, propagates the emptiness of a directory nothing was pulled into.
Pass ==
    \/ tree' = (IF tree = "damaged" THEN "damaged" ELSE "whole") /\ UNCHANGED remote
    \/ tree = "whole" /\ tree' = "damaged" /\ UNCHANGED remote
    \/ /\ mode = "bidirectional" /\ tree = "absent"
       /\ remote' = "emptied" /\ UNCHANGED tree

\* ... or it fails half-way.
PassCut ==
    /\ tree' \in {tree} \cup (IF tree = "absent" THEN {"cut"} ELSE {})
                       \cup (IF tree = "whole" THEN {"damaged"} ELSE {})
    /\ UNCHANGED remote

-----------------------------------------------------------------------------
(***************************************************************************)
(* vault retrieve, vault detect, vault login.                               *)
(***************************************************************************)

\* recordVaultPath; a failure to record is ignored or only printed.
recordVaultPath(found) == path' \in {found, path}

\* A failed retrieval is recorded with an empty vault path.
RetrieveFails ==
    /\ Goto("retrieve", "idle")
    /\ recordVaultPath(FALSE)

\* No token, another build, or a directory that already is a vault: refused.
RetrieveBegin ==
    /\ pc["retrieve"] = "idle"
    /\ \/ RetrieveFails
       \/ ~IsVault /\ Goto("retrieve", "bind") /\ UNCHANGED path
    /\ UNCHANGED <<vaultVars, sync, unitVars, procVars, before, guarded>>

\* A headless step failed: give up, or hand over to the desktop app, which an
\* authentication failure or a missing -app-fallback rules out.
RetrieveFallsBack ==
    \/ RetrieveFails
    \/ Goto("retrieve", "app") /\ UNCHANGED path

\* sync-list-remote and sync-setup.
RetrieveBind ==
    /\ pc["retrieve"] = "bind"
    /\ \/ /\ mode' = "bidirectional"
          /\ Goto("retrieve", "bound")
          /\ UNCHANGED path
       \/ RetrieveFallsBack /\ UNCHANGED mode
    /\ UNCHANGED <<tree, remote, sync, unitVars, procVars, before, guarded>>

\* Mutant: a mode that cannot be set is not a reason to stop.
PullOnlyBestEffort ==
    /\ pc["retrieve"] = "bound"
    /\ mode' \in {mode, "pull-only"}
    /\ Goto("retrieve", "forced")
    /\ UNCHANGED <<tree, remote, stateVars, unitVars, procVars, before, guarded>>

\* The first pass must not push: no pull-only, no pass.
ForcePullOnly ==
    /\ pc["retrieve"] = "bound"
    /\ \/ mode' = "pull-only" /\ Goto("retrieve", "forced") /\ UNCHANGED path
       \/ RetrieveFails /\ UNCHANGED mode
    /\ UNCHANGED <<tree, remote, sync, unitVars, procVars, before, guarded>>

FirstPass ==
    /\ pc["retrieve"] = "forced"
    /\ \/ Pass /\ Goto("retrieve", "pulled") /\ UNCHANGED path
       \/ PassCut /\ RetrieveFallsBack
    /\ UNCHANGED <<mode, sync, unitVars, procVars, before, guarded>>

\* The vault is down: back to bidirectional, and the path is recorded.
RestoreMode ==
    /\ pc["retrieve"] = "pulled"
    /\ \/ /\ IsVault /\ mode' = "bidirectional"
          /\ Goto("retrieve", "idle") /\ recordVaultPath(TRUE)
       \/ RetrieveFails /\ UNCHANGED mode
    /\ UNCHANGED <<tree, remote, sync, unitVars, procVars, before, guarded>>

\* launchObsidian and WaitForVault: as soon as the app has made the directory a
\* vault it is recorded, however much is still to come.  The mode of the
\* headless client is left as it is.
AppFallback ==
    /\ pc["retrieve"] = "app"
    /\ \/ IsVault /\ Goto("retrieve", "idle") /\ recordVaultPath(TRUE)
       \/ RetrieveFails
    /\ UNCHANGED <<vaultVars, sync, unitVars, procVars, before, guarded>>

\* The desktop app downloads the vault, during the fallback or later.
AppPopulates ==
    /\ \/ tree = "absent" /\ pc["retrieve"] = "app" /\ tree' = "cut"
       \/ tree = "cut" /\ tree' = "whole"
    /\ UNCHANGED <<remote, mode, stateVars, unitVars, procVars, cmdVars>>

\* `vault detect -record` writes what it found, or that it found nothing.
DetectRecord ==
    /\ path' \in {FALSE, IsVault}
    /\ path' # path
    /\ UNCHANGED <<vaultVars, sync, unitVars, procVars, cmdVars>>

\* A failed `vault login` is recorded against the sync component.
LoginFails ==
    /\ sync # "degraded"
    /\ sync' = "degraded"
    /\ UNCHANGED <<vaultVars, path, unitVars, procVars, cmdVars>>

-----------------------------------------------------------------------------
(***************************************************************************)
(* vault sync activate: prepare, install, apply, record.                    *)
(***************************************************************************)

\* recordSync: "a failure to record status must never mask the failure being
\* recorded", so its own is ignored.
recordSync(state) == sync' \in {state, sync}

\* Every branch of syncComponentFor is degraded.
CommandFails(c) ==
    /\ Goto(c, "idle")
    /\ recordSync("degraded")

\* The inputs are read: no recorded vault, no token, no unit directory, no go.
gatherActivateInputs(a) ==
    /\ pc[a] = "idle"
    /\ \/ CommandFails(a)
       \/ path /\ Goto(a, "gathered") /\ UNCHANGED sync
    /\ UNCHANGED <<vaultVars, path, unitVars, procVars, before, guarded>>

\* The recorded path is still a vault and the build is the pinned one; a
\* disposable vault survives that build, bound to a throwaway remote or refused.
smoke(a) ==
    /\ pc[a] = "gathered"
    /\ \/ CommandFails(a)
       \/ IsVault /\ Goto(a, "rehearsed") /\ UNCHANGED sync
    /\ UNCHANGED <<vaultVars, path, unitVars, procVars, before, guarded>>

TakeSnapshot(a) ==
    /\ pc[a] = "rehearsed"
    /\ \/ /\ IsVault
          /\ before' = IF tree = "whole" THEN before \cup {a} ELSE before
          /\ Goto(a, "snapped")
          /\ UNCHANGED sync
       \/ CommandFails(a) /\ UNCHANGED before
    /\ UNCHANGED <<vaultVars, path, unitVars, procVars, guarded>>

\* One real pass; a directory that was never bound is refused by the CLI.
RealPass(a) ==
    /\ pc[a] = "snapped"
    /\ \/ mode # "unset" /\ Pass /\ Goto(a, "passed") /\ UNCHANGED sync
       \/ mode # "unset" /\ PassCut /\ CommandFails(a)
       \/ mode = "unset" /\ CommandFails(a) /\ UNCHANGED <<tree, remote>>
    /\ before' = IF pc'[a] = "idle" THEN before \ {a} ELSE before
    /\ UNCHANGED <<mode, path, unitVars, procVars, guarded>>

\* Compare and GuardPolicy.Check: the scan now against the snapshot's manifest.
Destructive(a) == a \in before /\ tree = "damaged"

\* Mutant: a destructive diff is only logged.
GuardLogsOnly(a) ==
    /\ pc[a] = "passed"
    /\ guarded' = (guarded \/ ~Destructive(a))
    /\ Goto(a, "prepared")
    /\ before' = before \ {a}
    /\ UNCHANGED <<vaultVars, stateVars, unitVars, procVars>>

GuardCheck(a) ==
    /\ pc[a] = "passed"
    /\ \/ ~Destructive(a) /\ guarded' = TRUE /\ Goto(a, "prepared") /\ UNCHANGED sync
       \/ CommandFails(a) /\ UNCHANGED guarded
    /\ before' = before \ {a}
    /\ UNCHANGED <<vaultVars, path, unitVars, procVars>>

\* Install: the unit file ...
InstallUnit(a) ==
    /\ pc[a] = "prepared"
    /\ \/ unit' = TRUE /\ Goto(a, "unitWritten") /\ UNCHANGED sync
       \/ CommandFails(a) /\ UNCHANGED unit
    /\ UNCHANGED <<vaultVars, path, platform, config, loaded, procVars, before, guarded>>

\* ... the activation record ...
SaveInstalled(a) ==
    /\ pc[a] = "unitWritten"
    /\ \/ config' = "installed" /\ Goto(a, "saved") /\ UNCHANGED sync
       \/ CommandFails(a) /\ UNCHANGED config
    /\ UNCHANGED <<vaultVars, path, platform, unit, loaded, procVars, before, guarded>>

\* ... and Tracker.Reset, whose error is ignored.
ResetLedger(a) ==
    /\ pc[a] = "saved"
    /\ ledger' \in {NoLedger, ledger}
    /\ Goto(a, "installed")
    /\ UNCHANGED <<vaultVars, stateVars, unitVars, at, copy, before, guarded>>

\* Apply without a runner (no -apply): nothing is loaded, and what sync.json
\* says is recorded.
RecordInstalled(a) ==
    /\ pc[a] = "installed"
    /\ config # "none"
    /\ recordSync(IF config = "applied" THEN "ok" ELSE "installed")
    /\ Goto(a, "idle")
    /\ UNCHANGED <<vaultVars, path, unitVars, procVars, before, guarded>>

\* Apply with a runner, of an activation or of `vault sync apply`: LoadConfig.
ApplyBegin(c) ==
    /\ pc[c] = IF c \in Activations THEN "installed" ELSE "idle"
    /\ \/ config # "none" /\ Goto(c, "applying") /\ UNCHANGED sync
       \/ CommandFails(c)
    /\ UNCHANGED <<vaultVars, path, unitVars, procVars, before, guarded>>

\* The ledger's last start is of a process that is alive no longer.
Dead(l, how) == [l EXCEPT !.last = IF @ = "live" THEN how ELSE @]

\* bootout: a job that records its exit, or is killed when it takes too long.
BootOut ==
    /\ at' = "none"
    /\ copy' = NoLedger
    /\ ledger' \in {Dead(ledger, "exited"), Dead(ledger, "gone")}

\* The supervisor's commands.  launchd boots the old job out before it bootstraps
\* the new one; systemd's `enable --now` leaves a running unit alone.  A command
\* that fails stops the sequence where it is.  The bootout is Optional: when it
\* fails over a job that stays, launchd refuses the bootstrap of the label it has.
LoadUnit(c) ==
    /\ pc[c] = "applying"
    /\ \/ platform = "launchd" /\ BootOut /\ loaded' \in {FALSE, unit}
       \/ platform = "launchd" /\ loaded /\ CommandFails(c) /\ UNCHANGED <<loaded, procVars>>
       \/ platform = "systemd" /\ UNCHANGED procVars /\ loaded' \in {loaded, loaded \/ unit}
    /\ \/ loaded' /\ unit /\ Goto(c, "applied") /\ UNCHANGED sync
       \/ CommandFails(c)
    /\ UNCHANGED <<vaultVars, path, platform, config, unit, before, guarded>>

\* Applied is saved, and the outcome recorded.
SaveApplied(c) ==
    /\ pc[c] = "applied"
    /\ \/ config' = "applied" /\ recordSync("ok") /\ Goto(c, "idle")
       \/ CommandFails(c) /\ UNCHANGED config
    /\ UNCHANGED <<vaultVars, path, platform, unit, loaded, procVars, before, guarded>>

\* The operator interrupts a command: nothing is recorded.
Interrupt(c) ==
    /\ pc[c] # "idle"
    /\ Goto(c, "idle")
    /\ before' = before \ {c}
    /\ UNCHANGED <<vaultVars, stateVars, unitVars, procVars, guarded>>

-----------------------------------------------------------------------------
(***************************************************************************)
(* The supervised process: `vault sync run`.                                *)
(***************************************************************************)

\* Mutant: RunAtLoad without KeepAlive.
SpawnAtLoad ==
    /\ loaded
    /\ at = "none"
    /\ ~ledger.starts
    /\ at' = "born"
    /\ UNCHANGED <<vaultVars, stateVars, unitVars, ledger, copy, cmdVars>>

\* RunAtLoad and KeepAlive.
Spawn ==
    /\ loaded
    /\ at = "none"
    /\ at' = "born"
    /\ UNCHANGED <<vaultVars, stateVars, unitVars, ledger, copy, cmdVars>>

\* The config, the secrets or the pin cannot be loaded: gone before RunSync.
RunFails ==
    /\ at = "born"
    /\ at' = "none"
    /\ UNCHANGED <<vaultVars, stateVars, unitVars, ledger, copy, cmdVars>>

\* Tracker.mutate loads the ledger, for a start only once LoadConfig succeeded ...
LoadLedger(from, to) ==
    /\ at = from
    /\ from = "born" => config # "none"
    /\ at' = to
    /\ copy' = ledger
    /\ UNCHANGED <<vaultVars, stateVars, unitVars, ledger, cmdVars>>

\* ... and writes it back with the start, whatever happened to the file since.
RecordStart ==
    /\ at = "starting"
    /\ ledger' = [starts |-> TRUE, last |-> "live",
                  recent |-> IF copy.recent > Threshold THEN copy.recent ELSE copy.recent + 1]
    /\ copy' = NoLedger
    /\ at' = "syncing"
    /\ UNCHANGED <<vaultVars, stateVars, unitVars, cmdVars>>

\* The ledger cannot be read or written: RunSync returns without having synced.
RecordStartFails ==
    /\ at = "starting"
    /\ copy' = NoLedger
    /\ at' = "failed"
    /\ UNCHANGED <<vaultVars, stateVars, unitVars, ledger, cmdVars>>

\* Continuous sync keeps passing.
SyncOn ==
    /\ at = "syncing"
    /\ mode # "unset"
    /\ Pass
    /\ UNCHANGED <<mode, stateVars, unitVars, procVars, cmdVars>>

\* The CLI stopped, on its own or because it was asked to.
SyncStops ==
    /\ at = "syncing"
    /\ at' = "stopped"
    /\ UNCHANGED <<vaultVars, stateVars, unitVars, ledger, copy, cmdVars>>

\* The exit is recorded; a failure goes on to record itself.
RecordExit ==
    /\ at = "ending"
    /\ ledger' \in {[copy EXCEPT !.last = IF @ = "none" THEN @ ELSE "exited"], ledger}
    /\ copy' = NoLedger
    /\ at' \in {"done", "failed"}
    /\ UNCHANGED <<vaultVars, stateVars, unitVars, cmdVars>>

RecordFailure ==
    /\ at = "failed"
    /\ at' = "done"
    /\ recordSync("degraded")
    /\ UNCHANGED <<vaultVars, path, unitVars, ledger, copy, cmdVars>>

\* The process is gone; a pid whose exit could not be recorded no longer answers.
ProcessEnds ==
    /\ at = "done"
    /\ at' = "none"
    /\ ledger' = Dead(ledger, "gone")
    /\ UNCHANGED <<vaultVars, stateVars, unitVars, copy, cmdVars>>

\* SIGKILL: the ledger keeps a start without an exit.
KillProcess ==
    /\ at # "none"
    /\ at' = "none"
    /\ copy' = NoLedger
    /\ ledger' = Dead(ledger, "gone")
    /\ UNCHANGED <<vaultVars, stateVars, unitVars, cmdVars>>

\* The starts of the ledger grow older than the window.
WindowPasses ==
    /\ {ledger.recent, copy.recent} # {0}
    /\ ledger' = [ledger EXCEPT !.recent = 0]
    /\ copy' = [copy EXCEPT !.recent = 0]
    /\ UNCHANGED <<vaultVars, stateVars, unitVars, at, cmdVars>>

-----------------------------------------------------------------------------

Retrieve ==
    \/ RetrieveBegin \/ RetrieveBind \/ ForcePullOnly \/ FirstPass
    \/ RestoreMode \/ AppFallback \/ AppPopulates

Prepare(a) == smoke(a) \/ TakeSnapshot(a) \/ RealPass(a) \/ GuardCheck(a)

Install(a) == InstallUnit(a) \/ SaveInstalled(a) \/ ResetLedger(a)

Activate(a) == gatherActivateInputs(a) \/ Prepare(a) \/ Install(a) \/ RecordInstalled(a)

Apply(c) == ApplyBegin(c) \/ LoadUnit(c) \/ SaveApplied(c)

RunSync ==
    \/ LoadLedger("born", "starting") \/ RecordStart \/ RecordStartFails
    \/ SyncOn \/ SyncStops
    \/ LoadLedger("stopped", "ending") \/ RecordExit

\* The process runs to its end once the CLI has stopped.
Ending == LoadLedger("stopped", "ending") \/ RecordExit \/ RecordFailure \/ ProcessEnds

Next ==
    \/ Retrieve \/ DetectRecord \/ LoginFails
    \/ \E a \in Activations : Activate(a)
    \/ \E c \in Activations \cup Applies : Apply(c)
    \/ \E c \in Cmds : Interrupt(c)
    \/ Spawn \/ RunFails \/ RunSync \/ RecordFailure \/ ProcessEnds
    \/ KillProcess \/ WindowPasses

Spec == Init /\ [][Next]_vars

\* The supervisor keeps a loaded unit alive, a process that ends gets to the end,
\* and a start that is tried again and again is not always cut off.
FairSpec ==
    /\ Spec
    /\ WF_vars(Spawn)
    /\ WF_vars(Ending)
    /\ SF_vars(LoadLedger("born", "starting")) /\ SF_vars(RecordStart)

-----------------------------------------------------------------------------

\* Mutant: a ledger that ends on a start is taken for a running process.
SelfReportedRunning == ledger.last \in {"live", "gone"}

\* ProcessProbe: the pid of the last start answers a signal.
ProcessProbe == ledger.last = "live"

CrashLooping == ledger.recent > Threshold

\* syncComponent, as `status` shows it.
syncComponent ==
    IF sync \in {"none", "degraded"} THEN sync
    ELSE IF ledger.starts /\ ~CrashLooping /\ ProcessProbe THEN "ok" ELSE "degraded"

-----------------------------------------------------------------------------
(***************************************************************************)
(* Properties.                                                              *)
(***************************************************************************)

Trees == {"absent", "cut", "whole", "damaged"}

Ledgers == [starts : BOOLEAN, last : {"none", "live", "gone", "exited"}, recent : 0..(Threshold + 1)]

\* "a bidirectional first pass against an empty directory is how an empty local
\* side gets propagated to the remote" (vault.go:361-362, retrieve.go:221-222): no
\* retrieval that was cut off, repeated or handed over to the app, followed by
\* any activation, runs a pass that may push before something was pulled.
RemoteStaysWhole == remote = "whole"

\* "Liveness comes from the PROBE, never from the ledger's last event"
\* (status.go:299-301): `ok` is shown only while a supervised process is alive,
\* whatever was killed, reset or recorded in between.
OkMeansAlive == syncComponent = "ok" => at # "none"

\* Every refusal precedes supervision (sync.go:147-148, vault.go:595): the
\* supervisor is given the unit only on a machine where the first pass of an
\* activation stayed within the guard.
GuardPrecedesSupervision == loaded => guarded

\* KeepAlive: as long as the unit stays loaded, sync is started again after
\* every failure, exit and kill (sync.go:526-527).
SyncComesBack == <>[]loaded => []<>(at = "syncing")

\* "Pull-only was a safety measure for the FIRST pass only: leaving it on would
\* mean continuous sync silently discards every edit" (retrieve.go:259-262):
\* once the retrieval is over, sync runs in both directions.
SyncingIsBidirectional ==
    at = "syncing" /\ pc["retrieve"] = "idle" => mode # "pull-only"

=============================================================================
