------------------------------- MODULE Engine -------------------------------
(***************************************************************************)
(* The retrieval engine of a machine (internal/agent/gno, `gno` of the      *)
(* agent's command line): an activation that stops the engine, binds the    *)
(* vault, installs four files and has them loaded; `gno apply`; the         *)
(* rebuild that discards the index; the deactivation; and the supervised    *)
(* process, with the resident-runtime lock a killed engine leaves behind.   *)
(*                                                                          *)
(* The operator runs one command at a time, except rebuilds, which the code *)
(* itself keeps apart; a command may be killed between any two steps.  The  *)
(* contents of a file are the number of the activation that wrote it.       *)
(***************************************************************************)
EXTENDS Naturals, FiniteSets

CONSTANTS
    Rebuilds,        \* `gno rebuild` commands, which may run together
    MaxActivations   \* bound: how many activations are begun

ASSUME EngineAssumption ==
    /\ MaxActivations \in Nat \ {0}
    /\ Rebuilds \cap {"activate", "apply", "deactivate"} = {}

VARIABLES
    platform,   \* the supervisor: "launchd" or "systemd"
    file,       \* unit, gno.json, removal plan, endpoint descriptor
    snap,       \* what the running install captured before it wrote
    made,       \* number of the latest activation
    loaded,     \* does the supervisor hold the unit
    at,         \* how far the supervised process is
    holder,     \* of the resident-runtime lock: "none", "engine", "stranded"
    live,       \* does the pid of the restart ledger's last start answer
    pc,         \* where each command is
    resume,     \* commands that stopped the engine and hold a resume function
    lock,       \* gno.rebuild.lock: "none", "fresh" or "old"
    broken,     \* history: an abandoned rebuild lock was removed
    remaining   \* what a deactivation reported it could not stop or delete

diskVars == <<file, snap, made>>
procVars == <<at, holder, live>>
lockVars == <<lock, broken>>
vars == <<platform, diskVars, loaded, procVars, pc, resume, lockVars, remaining>>

-----------------------------------------------------------------------------

Artifacts == {"unit", "config", "removal", "descriptor"}
Content == [v : 0..MaxActivations, applied : BOOLEAN]
Absent == [v |-> 0, applied |-> FALSE]

Cmds == {"activate", "apply", "deactivate"} \cup Rebuilds

\* LoadConfig finds gno.json; it is replaced atomically, so it always parses.
HasConfig == file["config"] # Absent

Goto(c, label) == pc' = [pc EXCEPT ![c] = label]

\* One command at a time, or rebuilds only.
Free(c) ==
    \A d \in Cmds \ {c} : pc[d] = "idle" \/ {c, d} \subseteq Rebuilds

Begin(c) == pc[c] = "idle" /\ Free(c)

\* The deferred work of a command that did not get through.
Fail(c) == Goto(c, IF c = "apply" THEN "idle" ELSE "failed")

\* A stopped engine lets go of its lock; a killed one may leave the holder.
Strand == IF holder = "engine" THEN {"none", "stranded"} ELSE {holder}

\* The supervisor takes the process down, recorded exit or not.
Down ==
    /\ at' = "none"
    /\ holder' \in Strand
    /\ live' = FALSE

Init ==
    /\ platform \in {"launchd", "systemd"}
    /\ file = [f \in Artifacts |-> Absent]
    /\ snap = <<>>
    /\ made = 0
    /\ loaded = FALSE
    /\ at = "none"
    /\ holder = "none"
    /\ live = FALSE
    /\ pc = [c \in Cmds |-> "idle"]
    /\ resume = {}
    /\ lock = "none"
    /\ broken = FALSE
    /\ remaining = {}

-----------------------------------------------------------------------------
(***************************************************************************)
(* Stopping the engine and starting it again, for an activation or a        *)
(* rebuild.                                                                 *)
(***************************************************************************)

\* LoadedCommand: launchd prints any job it holds; `is-active` says no to a
\* unit that waits to be restarted.
IsLoaded == loaded /\ (platform = "launchd" \/ at # "none")

\* Mutant: the holder is reclaimed before the supervisor stopped the engine.
ReclaimBeforeStop(c) ==
    /\ pc[c] = "quiesce"
    /\ Goto(c, IF IsLoaded \/ c = "activate" THEN "reclaim" ELSE "discard")
    /\ UNCHANGED <<platform, diskVars, loaded, procVars, resume, lockVars, remaining>>

\* Not loaded: nothing to stop.  Loaded: the stop works, or the command fails.
SupervisorQuiesce(c) ==
    /\ pc[c] = "quiesce"
    /\ \/ ~IsLoaded /\ Goto(c, IF c = "activate" THEN "setup" ELSE "discard")
          /\ UNCHANGED <<loaded, procVars, resume>>
       \/ IsLoaded /\ loaded' = FALSE /\ Down /\ Goto(c, "reclaim")
          /\ resume' = resume \cup {c}
       \/ Fail(c) /\ UNCHANGED <<loaded, procVars, resume>>
    /\ UNCHANGED <<platform, diskVars, lockVars, remaining>>

\* ReclaimResidentRuntime: the holder is stopped, or cannot be identified.
ReclaimResidentRuntime(c) ==
    /\ pc[c] = "reclaim"
    /\ holder' \in {holder, "none"}
    /\ Goto(c, IF c = "activate" THEN "setup" ELSE "discard")
    /\ UNCHANGED <<platform, diskVars, loaded, at, live, resume, lockVars, remaining>>

\* What the supervisor still has once the first of StartCommands ran.
HeldStill == platform = "systemd" /\ loaded

\* StartCommands: launchd boots out what it has and bootstraps the unit file,
\* systemd leaves a running unit alone; either may fail after that.
RunStart ==
    /\ \/ platform = "launchd" /\ Down
       \/ platform = "systemd" /\ UNCHANGED procVars
    /\ loaded' \in {HeldStill, HeldStill \/ file["unit"] # Absent}

\* The supervisor does none of it: the bootout fails, too, and is passed over.
StartRefused == UNCHANGED <<loaded, procVars>>

\* Mutant: a failed command forgets to resume.
ForgetResume(c) ==
    /\ pc[c] \in {"failed", "done"}
    /\ Goto(c, IF c = "activate" THEN "idle" ELSE "unlock")
    /\ UNCHANGED <<platform, diskVars, loaded, procVars, resume, lockVars, remaining>>

\* A start that fails is warned about (activation) or ignored (rebuild).
Resume(c) ==
    /\ pc[c] \in {"failed", "done"}
    /\ StartRefused \/ (c \in resume /\ RunStart)
    /\ resume' = resume \ {c}
    /\ Goto(c, IF c = "activate" THEN "idle" ELSE "unlock")
    /\ UNCHANGED <<platform, diskVars, lockVars, remaining>>

-----------------------------------------------------------------------------
(***************************************************************************)
(* gno activate.                                                            *)
(***************************************************************************)

\* A machine without a record of an activation has no unit to quiesce, and a
\* holder is taken to be nobody's.
ActivateBegin ==
    /\ Begin("activate")
    /\ made < MaxActivations
    /\ made' = made + 1
    /\ resume' = resume \ {"activate"}
    /\ Goto("activate", IF HasConfig THEN "quiesce" ELSE "reclaim")
    /\ UNCHANGED <<platform, file, snap, loaded, procVars, lockVars, remaining>>

\* Prepare: vault, pinned build and disposable location, then `gno setup`,
\* which an index that is held refuses; a rebuild runs it after its Discard.
Setup(c) ==
    /\ pc[c] = "setup"
    /\ \/ /\ holder = "none"
          /\ Goto(c, IF c = "activate" THEN "probe" ELSE "done")
       \/ Fail(c)
    /\ UNCHANGED <<platform, diskVars, loaded, procVars, resume, lockVars, remaining>>

\* The index is where it must be, doctor reports no error, and one launch of
\* the derived template answers with the document the index gave; then the
\* gateway is checked and has a token.  Nothing is installed before.
ProbeEndpoint ==
    /\ pc["activate"] = "probe"
    /\ \/ Goto("activate", "unit")
       \/ Fail("activate")
    /\ UNCHANGED <<platform, diskVars, loaded, procVars, resume, lockVars, remaining>>

\* Mutant: rolling back means removing what the install created.
RollbackByRemoval ==
    file' = [f \in Artifacts |-> IF f \in DOMAIN snap THEN Absent ELSE file[f]]

\* Every captured destination gets its content back; a restore that fails is
\* ignored and leaves the destination as it is.
Rollback ==
    \E stuck \in SUBSET DOMAIN snap :
        file' = [f \in Artifacts |-> IF f \in DOMAIN snap \ stuck THEN snap[f] ELSE file[f]]

\* The order of the install: the descriptor is published last.
After(f) ==
    [unit |-> "config", config |-> "removal", removal |-> "descriptor", descriptor |-> "reset"][f]

\* One destination: captured, and written atomically; or everything captured is
\* rolled back.
InstallArtifact(f) ==
    /\ pc["activate"] = f
    /\ \/ /\ snap' = [g \in DOMAIN snap \cup {f} |-> IF g = f THEN file[g] ELSE snap[g]]
          /\ file' = [file EXCEPT ![f] = [v |-> made, applied |-> FALSE]]
          /\ remaining' = remaining \ {f}
          /\ Goto("activate", After(f))
       \/ Rollback /\ snap' = <<>> /\ Fail("activate") /\ UNCHANGED remaining
    /\ UNCHANGED <<platform, made, loaded, procVars, resume, lockVars>>

\* "A fresh unit starts a fresh restart history", if the file can be removed.
ResetLedger ==
    /\ pc["activate"] = "reset"
    /\ live' \in {FALSE, live}
    /\ snap' = <<>>
    /\ Goto("activate", "installed")
    /\ UNCHANGED <<platform, file, made, loaded, at, holder, resume, lockVars, remaining>>

\* Without -apply nothing is loaded, and nothing is resumed.
ActivateEnds ==
    /\ pc["activate"] = "installed"
    /\ Goto("activate", "idle")
    /\ UNCHANGED <<platform, diskVars, loaded, procVars, resume, lockVars, remaining>>

-----------------------------------------------------------------------------
(***************************************************************************)
(* Apply, of an activation with -apply or of `gno apply`.                   *)
(***************************************************************************)

ApplyBegin(c) ==
    /\ \/ c = "activate" /\ pc[c] = "installed"
       \/ c = "apply" /\ Begin(c)
    /\ IF HasConfig THEN Goto(c, "applying") ELSE Fail(c) /\ c = "activate"
    /\ UNCHANGED <<platform, diskVars, loaded, procVars, resume, lockVars, remaining>>

\* ActivationCommands start the unit and enable it; a command that fails ends
\* the sequence there.
LoadUnit(c) ==
    /\ pc[c] = "applying"
    /\ \/ RunStart /\ loaded' /\ file["unit"] # Absent /\ Goto(c, "applied")
       \/ (RunStart \/ StartRefused) /\ Fail(c)
    /\ resume' = IF loaded' /\ pc'[c] = "applied" THEN {} ELSE resume
    /\ UNCHANGED <<platform, diskVars, lockVars, remaining>>

\* Applied is saved with the rest of the record, or the command fails.
SaveApplied(c) ==
    /\ pc[c] = "applied"
    /\ \/ file' = [file EXCEPT !["config"].applied = TRUE] /\ Goto(c, "idle")
       \/ Fail(c) /\ UNCHANGED file
    /\ UNCHANGED <<platform, snap, made, loaded, procVars, resume, lockVars, remaining>>

-----------------------------------------------------------------------------
(***************************************************************************)
(* gno rebuild.                                                             *)
(***************************************************************************)

RebuildBegin(r) ==
    /\ Begin(r)
    /\ HasConfig
    /\ resume' = resume \ {r}
    /\ Goto(r, "locking")
    /\ UNCHANGED <<platform, diskVars, loaded, procVars, lockVars, remaining>>

\* Applied, in the record read at the beginning (no other command changes it
\* meanwhile), decides who is asked about the engine under the lock.
Locked(r) == Goto(r, IF file["config"].applied THEN "quiesce" ELSE "look")

\* Mutant: the lock file is created without O_EXCL.
CreateLock(r) ==
    /\ pc[r] = "locking"
    /\ lock' = "fresh"
    /\ Locked(r)
    /\ UNCHANGED <<platform, diskVars, loaded, procVars, resume, broken, remaining>>

\* O_EXCL: the first attempt takes a free lock, finds one that is older than
\* staleRebuildLock, or refuses ...
TakeLock(r) ==
    /\ pc[r] = "locking"
    /\ \/ lock = "none" /\ lock' = "fresh" /\ Locked(r)
       \/ lock = "fresh" /\ Goto(r, "idle") /\ UNCHANGED lock
       \/ lock = "old" /\ Goto(r, "stale") /\ UNCHANGED lock
    /\ UNCHANGED <<platform, diskVars, loaded, procVars, resume, broken, remaining>>

\* ... an old one is removed, whatever lies there by then, ...
RemoveStaleLock(r) ==
    /\ pc[r] = "stale"
    /\ lock' = "none"
    /\ broken' = TRUE
    /\ Goto(r, "retake")
    /\ UNCHANGED <<platform, diskVars, loaded, procVars, resume, remaining>>

\* ... and the second attempt takes it or refuses.
RetakeLock(r) ==
    /\ pc[r] = "retake"
    /\ \/ lock = "none" /\ lock' = "fresh" /\ Locked(r)
       \/ lock # "none" /\ Goto(r, "idle") /\ UNCHANGED lock
    /\ UNCHANGED <<platform, diskVars, loaded, procVars, resume, broken, remaining>>

\* Mutant: an engine the record does not know as applied is not looked for.
LookAway(r) ==
    /\ pc[r] = "look"
    /\ Goto(r, "discard")
    /\ UNCHANGED <<platform, diskVars, loaded, procVars, resume, lockVars, remaining>>

\* engineIsAlive: the pid of the last start answers, or nothing can be said.
LookForEngine(r) ==
    /\ pc[r] = "look"
    /\ \/ ~live /\ Goto(r, "discard")
       \/ Fail(r)
    /\ UNCHANGED <<platform, diskVars, loaded, procVars, resume, lockVars, remaining>>

\* Discard removes the data directory, and with it the resident lock's file.
Discard(r) ==
    /\ pc[r] = "discard"
    /\ \/ holder' = "none" /\ Goto(r, "setup")
       \/ Fail(r) /\ UNCHANGED holder
    /\ UNCHANGED <<platform, diskVars, loaded, at, live, resume, lockVars, remaining>>

\* The deferred unlock removes the file, whoever created it.
Unlock(r) ==
    /\ pc[r] = "unlock"
    /\ lock' = "none"
    /\ Goto(r, "idle")
    /\ UNCHANGED <<platform, diskVars, loaded, procVars, resume, broken, remaining>>

\* A rebuild holds the lock from taking it to removing it.
HoldsLock(r) == pc[r] \in {"look", "quiesce", "reclaim", "discard", "setup", "done", "failed", "unlock"}

\* staleRebuildLock passes: the timeouts of the CLI end a live rebuild earlier.
LockAges ==
    /\ lock = "fresh"
    /\ \A r \in Rebuilds : ~HoldsLock(r)
    /\ lock' = "old"
    /\ UNCHANGED <<platform, diskVars, loaded, procVars, pc, resume, broken, remaining>>

-----------------------------------------------------------------------------
(***************************************************************************)
(* gno deactivate -execute.                                                 *)
(***************************************************************************)

\* What could not be stopped or deleted is reported and the plan goes on; of
\* the report the model keeps the engine and the descriptor.
Report(what, failed) ==
    remaining' = IF failed /\ what \in {"engine", "descriptor"} THEN remaining \cup {what} ELSE remaining \ {what}

\* The plan's commands: a unit that is not loaded makes them fail, too.
DeactivateStop ==
    /\ Begin("deactivate")
    /\ file["removal"] # Absent
    /\ \/ loaded' = FALSE /\ Down /\ Report("engine", FALSE)
       \/ UNCHANGED <<loaded, procVars>> /\ Report("engine", loaded)
    /\ Goto("deactivate", "unit")
    /\ UNCHANGED <<platform, diskVars, resume, lockVars>>

\* One file of the plan is deleted, or not.
Delete(f) ==
    \/ file' = [file EXCEPT ![f] = Absent] /\ Report(f, FALSE)
    \/ UNCHANGED file /\ Report(f, file[f] # Absent)

\* The unit file goes, and without -delete-state nothing else.
DeactivateUnit ==
    /\ pc["deactivate"] = "unit"
    /\ Delete("unit")
    /\ pc' \in {[pc EXCEPT !["deactivate"] = l] : l \in {"idle", "data"}}
    /\ UNCHANGED <<platform, snap, made, loaded, procVars, resume, lockVars>>

\* The index with its resident lock, the launch ledger, GNO's own directories.
DeactivateData ==
    /\ pc["deactivate"] = "data"
    /\ holder' \in {holder, "none"}
    /\ Goto("deactivate", "descriptor")
    /\ UNCHANGED <<platform, diskVars, loaded, at, live, resume, lockVars, remaining>>

\* The descriptor, and gno.json last.
DeactivateState(f) ==
    /\ pc["deactivate"] = f
    /\ Delete(f)
    /\ Goto("deactivate", IF f = "descriptor" THEN "config" ELSE "idle")
    /\ UNCHANGED <<platform, snap, made, loaded, procVars, resume, lockVars>>

-----------------------------------------------------------------------------

\* A command is killed: its deferred calls do not run, the lock file stays.
Interrupt(c) ==
    /\ pc[c] # "idle"
    /\ Goto(c, "idle")
    /\ resume' = resume \ {c}
    /\ snap' = IF c = "activate" THEN <<>> ELSE snap
    /\ UNCHANGED <<platform, file, made, loaded, procVars, lockVars, remaining>>

\* A harness kills a stdio session whose holder outlives it.
SessionStrands ==
    /\ holder = "none"
    /\ holder' = "stranded"
    /\ UNCHANGED <<platform, diskVars, loaded, at, live, pc, resume, lockVars, remaining>>

-----------------------------------------------------------------------------
(***************************************************************************)
(* gno run, the supervised process.                                         *)
(***************************************************************************)

\* The commands are left alone by the process.
AsideVars == <<platform, diskVars, loaded, pc, resume, lockVars, remaining>>

Spawn ==
    /\ loaded /\ at = "none"
    /\ at' = "born"
    /\ UNCHANGED <<AsideVars, holder, live>>

\* RunDaemon records its start once the record and the vault were found ...
RecordStart ==
    /\ at = "born"
    /\ HasConfig
    /\ live' = TRUE
    /\ at' = "started"
    /\ UNCHANGED <<AsideVars, holder>>

\* ... or the process is gone before it did: no record, no vault, no ledger.
RunRefused ==
    /\ at = "born"
    /\ at' = "none"
    /\ UNCHANGED <<AsideVars, holder, live>>

\* Mutant: the holder a killed engine left is nobody's business.
NoReclaim ==
    /\ at = "started"
    /\ at' = "ready"
    /\ UNCHANGED <<AsideVars, holder, live>>

RunReclaim ==
    /\ at = "started"
    /\ at' = "ready"
    /\ holder' = "none"
    /\ UNCHANGED <<AsideVars, live>>

\* pgrep fails, or the holder cannot be signalled.
RunReclaimFails ==
    /\ at = "started"
    /\ at' = "ready"
    /\ UNCHANGED <<AsideVars, holder, live>>

\* `gno daemon` takes the resident lock, and stops if another holds it.
RunIndex ==
    /\ at = "ready"
    /\ holder = "none"
    /\ holder' = "engine"
    /\ at' = "indexing"
    /\ UNCHANGED <<AsideVars, live>>

\* The daemon failed or stopped: its exit is recorded, and its pid is gone.
RecordExit ==
    /\ at \in {"ready", "indexing"}
    /\ at' = "none"
    /\ holder' = IF holder = "engine" THEN "none" ELSE holder
    /\ live' = FALSE
    /\ UNCHANGED AsideVars

\* SIGKILL: the holder may outlive its engine.
KillProcess ==
    /\ at # "none"
    /\ Down
    /\ UNCHANGED AsideVars

-----------------------------------------------------------------------------

Install == (\E f \in Artifacts : InstallArtifact(f)) \/ ResetLedger

Activate == ActivateBegin \/ Setup("activate") \/ ProbeEndpoint \/ Install \/ ActivateEnds

Apply(c) == ApplyBegin(c) \/ LoadUnit(c) \/ SaveApplied(c)

Rebuild(r) ==
    \/ RebuildBegin(r) \/ TakeLock(r) \/ RemoveStaleLock(r) \/ RetakeLock(r)
    \/ LookForEngine(r) \/ Discard(r) \/ Setup(r) \/ Unlock(r)

Deactivate ==
    \/ DeactivateStop \/ DeactivateUnit \/ DeactivateData
    \/ DeactivateState("descriptor") \/ DeactivateState("config")

Quiesce(c) == SupervisorQuiesce(c) \/ ReclaimResidentRuntime(c) \/ Resume(c)

RunDaemon ==
    \/ Spawn \/ RecordStart \/ RunRefused \/ RunReclaim \/ RunReclaimFails
    \/ RunIndex \/ RecordExit \/ KillProcess

Next ==
    \/ Activate
    \/ \E c \in {"activate", "apply"} : Apply(c)
    \/ \E c \in {"activate"} \cup Rebuilds : Quiesce(c)
    \/ \E r \in Rebuilds : Rebuild(r)
    \/ Deactivate
    \/ \E c \in Cmds : Interrupt(c)
    \/ LockAges \/ SessionStrands
    \/ RunDaemon

Spec == Init /\ [][Next]_vars

\* The supervisor restarts what it holds, a daemon that cannot take the resident
\* lock exits, and a start that is tried again and again is not always cut off.
FairSpec ==
    /\ Spec
    /\ WF_vars(Spawn) /\ WF_vars(at = "ready" /\ RecordExit)
    /\ SF_vars(RecordStart) /\ SF_vars(RunReclaim) /\ SF_vars(RunIndex)

-----------------------------------------------------------------------------
(***************************************************************************)
(* Properties.                                                              *)
(***************************************************************************)

\* "It must not change until everything it describes has", and a failed
\* re-activation must not "leave the surviving descriptor pointing harnesses at
\* a wrapper with no config to load" (engine.go:467-475): through installs,
\* rollbacks, deactivations and kills at every step, a published descriptor has
\* a record and a removal plan at least as new, unless a deactivation reported
\* that it could not delete it.
PublishedIsBacked ==
    file["descriptor"] # Absent =>
        \A f \in {"config", "removal"} :
            file[f].v >= file["descriptor"].v \/ "descriptor" \in remaining

\* "CALLER CONTRACT: the engine must already be stopped" (resident.go:84-89): a
\* command never gets to the reclaim while an engine indexes, whose holder it
\* would kill - except an engine a deactivation said it could not stop, or one
\* started by another rebuild after an abandoned lock was broken.
ReclaimContract ==
    \A c \in Cmds : pc[c] = "reclaim" /\ at = "indexing" => "engine" \in remaining \/ broken

\* "The rebuild runs under an exclusive lock" (engine.go:812, 896): two rebuilds
\* are past the lock together only where an abandoned one was ever removed.
RebuildsExclude ==
    \A r, s \in Rebuilds : r # s /\ HoldsLock(r) /\ HoldsLock(s) => broken

\* From its answer about the engine to its resume a rebuild works on the index.
Replacing(r) == pc[r] \in {"reclaim", "discard", "setup", "done"}

\* "Refuse rather than race" (engine.go:839-841): on launchd, whose answer covers a
\* job between two starts, no rebuild gets past the probe or past the supervisor
\* while an engine indexes, and none indexes from there through the discard to the
\* last step before the resume - except one a deactivation said it could not stop,
\* one started by another rebuild after an abandoned lock was broken, and, where
\* gno.json does not say applied, one the supervisor started after the probe.  Only
\* rebuilds keep out of each other's way (Free): an `apply` or an activation the
\* operator runs beside a rebuild is outside the module.
RebuildNeverRacesEngine ==
    [][\A r \in Rebuilds :
          platform = "launchd" /\ "engine" \notin remaining /\ Replacing(r)' /\ at' = "indexing" =>
             Replacing(r) /\ (broken \/ ~file["config"].applied)]_vars

\* "A failed activation must not leave a machine with its engine stopped"
\* (gno.go:305-306), nor a failed rebuild (engine.go:852-853): when the commands
\* have ended and one of them stopped the engine and started nothing, gno.json
\* does not say that the engine is applied.  It is about what the commands owe: a
\* start the supervisor refuses is only warned about, and a killed command starts
\* nothing.
AppliedIsNotLeftStopped ==
    resume # {} /\ (\A c \in Cmds : pc[c] = "idle") => ~file["config"].applied

\* A holder stranded by a killed engine "blocks every start" (engine.go:751-753):
\* the supervised start clears it, so that on a machine where the unit stays
\* loaded and the record stays, the engine indexes again and again, whatever is
\* killed.
EngineComesBack == <>[](loaded /\ HasConfig) => []<>(at = "indexing")

=============================================================================
