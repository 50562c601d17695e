----------------------------- MODULE EngineProofs -----------------------------
(***************************************************************************)
(* Proofs about the retrieval engine, for any number of rebuilds and of      *)
(* activations.                                                              *)
(***************************************************************************)
EXTENDS Engine, TLAPS

(***************************************************************************)
(* The inductive invariant.                                                 *)
(***************************************************************************)

\* The steps of the commands.
Installing    == {"unit", "config", "removal", "descriptor", "reset"}
ActivateSteps == {"idle", "quiesce", "reclaim", "setup", "probe", "installed",
                  "applying", "applied", "failed"} \cup Installing
ApplySteps      == {"idle", "applying", "applied"}
DeactivateSteps == {"idle", "unit", "data", "descriptor", "config"}
Past            == {"look", "quiesce", "reclaim", "discard", "setup", "done", "failed", "unlock"}
RebuildSteps    == {"idle", "locking", "stale", "retake"} \cup Past
Steps == ActivateSteps \cup ApplySteps \cup DeactivateSteps \cup RebuildSteps

TypeOK ==
    /\ platform \in {"launchd", "systemd"}
    /\ file \in [Artifacts -> Content]
    /\ made \in 0 .. MaxActivations
    /\ loaded \in BOOLEAN /\ live \in BOOLEAN /\ broken \in BOOLEAN
    /\ at \in {"none", "born", "started", "ready", "indexing"}
    /\ holder \in {"none", "engine", "stranded"}
    /\ lock \in {"none", "fresh", "old"}
    /\ pc \in [Cmds -> Steps]
    /\ pc["activate"] \in ActivateSteps
    /\ pc["apply"] \in ApplySteps
    /\ pc["deactivate"] \in DeactivateSteps
    /\ \A r \in Rebuilds : pc[r] \in RebuildSteps
    /\ resume \subseteq {"activate"} \cup Rebuilds
    /\ remaining \subseteq {"engine"} \cup Artifacts

\* The operator runs one command at a time, except rebuilds.
OneCommand ==
    \A c, d \in Cmds :
        c # d /\ pc[c] # "idle" /\ pc[d] # "idle" => c \in Rebuilds /\ d \in Rebuilds

\* Until an abandoned lock is removed, the lock file is there as long as a rebuild
\* is past it, and there is one such rebuild.
LockHeld ==
    ~broken =>
        \A r \in Rebuilds : HoldsLock(r) =>
            lock = "fresh" /\ \A s \in Rebuilds : HoldsLock(s) => s = r

\* What the running install has captured, by how far it is.
Captured ==
    CASE pc["activate"] = "config"     -> {"unit"}
      [] pc["activate"] = "removal"    -> {"unit", "config"}
      [] pc["activate"] = "descriptor" -> {"unit", "config", "removal"}
      [] pc["activate"] = "reset"      -> Artifacts
      [] OTHER                         -> {}

\* The engine is down, but for one a deactivation said it could not stop.
Stopped == ~loaded \/ "engine" \in remaining

\* What an install has written is its own, and what it captured before it could
\* be put back: a record as new as the descriptor still published, and no
\* missing record under a running engine.
InstallShape ==
    /\ DOMAIN snap = Captured
    /\ \A f \in Captured : snap[f] \in Content /\ snap[f].v <= made
    /\ pc["activate"] # "idle" => made > 0
    /\ \A f \in Captured : file[f] = [v |-> made, applied |-> FALSE]
    /\ "config" \in Captured /\ snap["config"] = Absent => Stopped
    /\ pc["activate"] # "reset" /\ file["descriptor"] # Absent =>
         \A f \in Captured \cap {"config", "removal"} :
            snap[f].v >= file["descriptor"].v \/ "descriptor" \in remaining

\* No file is newer than the latest activation, and the descriptor is gone or
\* reported before the record goes.
FilesShape ==
    /\ \A f \in Artifacts : file[f].v <= made
    /\ pc["deactivate"] = "config" => file["descriptor"] = Absent \/ "descriptor" \in remaining

\* An engine runs only where the supervisor holds its unit, and the supervisor
\* holds it only where there is a record, or a deactivation failed to stop it.
EngineIsHeld ==
    /\ at # "none" => loaded
    /\ ~HasConfig => Stopped

\* Where a command relies on a record.
RecordStays ==
    /\ \A c \in {"activate", "apply"} : pc[c] \in {"applying", "applied"} => HasConfig
    /\ pc["activate"] = "quiesce" => HasConfig
    /\ \A r \in Rebuilds : pc[r] # "idle" => HasConfig
    /\ "activate" \in resume /\ pc["activate"] # "idle" =>
         HasConfig /\ ("config" \in Captured => snap["config"] # Absent)

\* Where a command relies on the engine being down.
EngineIsDown ==
    /\ \A c \in Cmds : pc[c] = "reclaim" => Stopped \/ broken
    /\ pc["deactivate"] # "idle" => Stopped
    /\ platform = "launchd" /\ pc["activate"] \in {"reclaim", "setup", "probe"} \cup Installing =>
         Stopped

\* On launchd the ledger knows of every engine past its start.
LedgerKnows ==
    platform = "launchd" /\ "engine" \notin remaining /\ at \in {"started", "ready", "indexing"} =>
        live

\* A command that stopped the engine and still owes a start: a rebuild that is
\* under way, or an activation that ended with a record nothing was applied from.
Owed ==
    /\ \A r \in Rebuilds \cap resume : pc[r] \in {"reclaim", "discard", "setup", "done", "failed"}
    /\ \A c \in {"activate", "apply"} : pc[c] = "applied" => resume = {}
    /\ pc["activate"] = "installed" => ~file["config"].applied
    /\ "activate" \in resume /\ pc["activate"] = "idle" => ~file["config"].applied

Inv ==
    /\ TypeOK
    /\ OneCommand
    /\ LockHeld
    /\ InstallShape
    /\ FilesShape
    /\ EngineIsHeld
    /\ RecordStays
    /\ EngineIsDown
    /\ LedgerKnows
    /\ Owed
    /\ PublishedIsBacked

(***************************************************************************)
(* What the helpers do.                                                     *)
(***************************************************************************)

\* The three commands and the rebuilds are different commands.
LEMMA CmdFacts ==
    /\ "activate" \in Cmds /\ "apply" \in Cmds /\ "deactivate" \in Cmds
    /\ \A r \in Rebuilds : r \in Cmds /\ r \notin {"activate", "apply", "deactivate"}
    /\ \A c \in Cmds : c \in {"activate", "apply", "deactivate"} \cup Rebuilds
  BY EngineAssumption DEF Cmds

\* The steps a command takes.
StepsOf(c) ==
    IF c = "activate" THEN ActivateSteps
    ELSE IF c = "apply" THEN ApplySteps
    ELSE IF c = "deactivate" THEN DeactivateSteps
    ELSE RebuildSteps

\* A command moves and the others stay where they are.
LEMMA GotoFacts ==
    ASSUME Inv, NEW c \in Cmds, NEW w \in StepsOf(c), Goto(c, w)
    PROVE  /\ pc'[c] = w
           /\ \A d \in Cmds : d # c => pc'[d] = pc[d]
           /\ pc' \in [Cmds -> Steps]
           /\ pc'["activate"] \in ActivateSteps
           /\ pc'["apply"] \in ApplySteps
           /\ pc'["deactivate"] \in DeactivateSteps
           /\ \A r \in Rebuilds : pc'[r] \in RebuildSteps
<1>1. w \in Steps
  BY DEF StepsOf, Steps
<1>2. /\ pc'[c] = w /\ pc' \in [Cmds -> Steps]
      /\ \A d \in Cmds : d # c => pc'[d] = pc[d]
  BY <1>1 DEF Goto, Inv, TypeOK
<1>3. \A d \in Cmds : pc[d] \in StepsOf(d)
  BY CmdFacts DEF Inv, TypeOK, StepsOf
<1>4. \A d \in Cmds : pc'[d] \in StepsOf(d)
  BY <1>2, <1>3
<1> QED BY <1>2, <1>4, CmdFacts DEF StepsOf

\* The labels of an installing activation decide what is captured.
LEMMA CapturedFacts ==
    /\ Captured \subseteq Artifacts
    /\ pc["activate"] \notin {"config", "removal", "descriptor", "reset"} => Captured = {}
    /\ pc["activate"] = "config" => Captured = {"unit"}
    /\ pc["activate"] = "removal" => Captured = {"unit", "config"}
    /\ pc["activate"] = "descriptor" => Captured = {"unit", "config", "removal"}
    /\ pc["activate"] = "reset" => Captured = Artifacts
  BY DEF Captured, Artifacts

LEMMA AbsentFacts == Absent \in Content /\ Absent.v = 0 /\ ~Absent.applied
  BY EngineAssumption DEF Absent, Content

\* A step of a command keeps the operator's discipline.
LEMMA OneCommandMoves ==
    ASSUME Inv, NEW c \in Cmds, NEW w \in StepsOf(c), Goto(c, w),
           pc[c] # "idle" \/ w = "idle" \/ Free(c)
    PROVE  OneCommand'
<1>1. pc'[c] = w /\ \A d \in Cmds : d # c => pc'[d] = pc[d]
  BY GotoFacts
<1>2. ASSUME NEW d \in Cmds, d # c, pc[d] # "idle", w # "idle"
      PROVE  c \in Rebuilds /\ d \in Rebuilds
  <2>1. CASE pc[c] # "idle" BY <1>2, <2>1 DEF Inv, OneCommand
  <2>2. CASE Free(c) BY <1>2, <2>2 DEF Free
  <2> QED BY <1>2, <2>1, <2>2
<1>3. ASSUME NEW d \in Cmds, NEW e \in Cmds, d # e, d # c, e # c,
             pc[d] # "idle", pc[e] # "idle"
      PROVE  d \in Rebuilds /\ e \in Rebuilds
  BY <1>3 DEF Inv, OneCommand
<1> QED BY <1>1, <1>2, <1>3 DEF OneCommand

\* A command that leaves the lock file alone and is not past it before it took it.
LEMMA LockPlain ==
    ASSUME Inv, NEW c \in Cmds, NEW w \in StepsOf(c), Goto(c, w), UNCHANGED lockVars,
           c \in Rebuilds /\ w \in Past => pc[c] \in Past
    PROVE  LockHeld'
<1>1. pc'[c] = w /\ \A d \in Cmds : d # c => pc'[d] = pc[d]
  BY GotoFacts
<1>2. \A r \in Rebuilds : HoldsLock(r)' => HoldsLock(r)
  BY <1>1, CmdFacts DEF HoldsLock, Past
<1> QED BY <1>2 DEF Inv, LockHeld, lockVars

\* A step of a command that leaves the files alone and does not bring an engine
\* up.  What it must show is about its own next step only.
LEMMA Moves ==
    ASSUME Inv, NEW c \in Cmds, NEW w \in StepsOf(c), Goto(c, w),
           pc[c] # "idle" \/ w = "idle" \/ Free(c),
           LockHeld',
           lock' \in {"none", "fresh", "old"}, broken' \in BOOLEAN, broken => broken',
           UNCHANGED <<platform, file, snap, remaining>>,
           made' = made \/ (c = "activate" /\ pc[c] = "idle" /\ made' = made + 1),
           made' <= MaxActivations,
           c = "activate" /\ w # "idle" => made' > 0,
           holder' \in {"none", "engine", "stranded"}, live' \in BOOLEAN,
           loaded' \in BOOLEAN, loaded' => loaded,
           at' \in {at, "none"}, at' # "none" => loaded' /\ live' = live,
           c = "activate" =>
              {pc[c], w} \cap {"config", "removal", "descriptor", "reset"} = {},
           c = "deactivate" => w # "config" /\ (w # "idle" => Stopped),
           w \in {"applying", "applied"} => HasConfig,
           c = "activate" /\ w = "quiesce" => HasConfig,
           c \in Rebuilds /\ w # "idle" => HasConfig,
           w = "reclaim" => Stopped' \/ broken',
           c = "activate" /\ w \in {"reclaim", "setup", "probe", "unit"} /\ platform = "launchd" =>
              Stopped',
           resume' \subseteq resume \cup {c}, c \in resume' => c \in resume \/ pc[c] = "quiesce",
           c \notin {"apply", "deactivate"} \/ c \notin resume',
           \A d \in resume : d # c => d \in resume',
           c \in Rebuilds /\ c \in resume' => w \in {"reclaim", "discard", "setup", "done", "failed"},
           c = "activate" /\ c \in resume' /\ w # "idle" => HasConfig,
           c = "activate" /\ c \in resume' /\ w = "idle" => ~file["config"].applied,
           w # "applied", c # "activate" \/ w # "installed"
    PROVE  Inv'
<1>1. /\ pc'[c] = w /\ \A d \in Cmds : d # c => pc'[d] = pc[d]
      /\ pc' \in [Cmds -> Steps]
      /\ pc'["activate"] \in ActivateSteps /\ pc'["apply"] \in ApplySteps
      /\ pc'["deactivate"] \in DeactivateSteps /\ \A r \in Rebuilds : pc'[r] \in RebuildSteps
  BY GotoFacts
<1>2. TypeOK'
  BY <1>1, CmdFacts DEF Inv, TypeOK
<1>3. OneCommand'
  BY OneCommandMoves
<1>4. Captured' = Captured /\ (c = "activate" => Captured = {})
  <2>1. CASE c = "activate" BY <1>1, <2>1, CapturedFacts DEF Captured
  <2>2. CASE c # "activate" BY <1>1, <2>2, CmdFacts DEF Captured
  <2> QED BY <2>1, <2>2
<1>5. Stopped => Stopped'
  BY DEF Stopped
<1>6. InstallShape'
  <2>1. CASE c = "activate"
    BY <1>1, <1>4, <2>1 DEF Inv, InstallShape
  <2>2. CASE c # "activate"
    <3>1. pc'["activate"] = pc["activate"] /\ made' = made
      BY <1>1, <2>2, CmdFacts
    <3> QED BY <1>4, <1>5, <3>1 DEF Inv, InstallShape
  <2> QED BY <2>1, <2>2
<1>7. FilesShape'
  <2>1. \A f \in Artifacts : file[f].v <= made'
    BY DEF Inv, FilesShape, TypeOK, Content
  <2> QED BY <1>1, <2>1, CmdFacts DEF Inv, FilesShape
<1>8. EngineIsHeld'
  BY <1>5 DEF Inv, EngineIsHeld, HasConfig
<1>9. RecordStays'
  <2>1. HasConfig' = HasConfig
    BY DEF HasConfig
  <2>2. "activate" \in resume' /\ pc'["activate"] # "idle" =>
          HasConfig /\ ("config" \in Captured => snap["config"] # Absent)
    <3>1. CASE c = "activate" BY <1>1, <1>4, <3>1
    <3>2. CASE c # "activate" BY <1>1, <3>2, CmdFacts DEF Inv, RecordStays
    <3> QED BY <3>1, <3>2
  <2>3. \A d \in {"activate", "apply"} : pc'[d] \in {"applying", "applied"} => HasConfig
    BY <1>1, CmdFacts DEF Inv, RecordStays
  <2>4. /\ pc'["activate"] = "quiesce" => HasConfig
        /\ \A r \in Rebuilds : pc'[r] # "idle" => HasConfig
    BY <1>1, CmdFacts DEF Inv, RecordStays
  <2> QED BY <1>4, <2>1, <2>2, <2>3, <2>4 DEF RecordStays
<1>10. EngineIsDown'
  <2>1. \A d \in Cmds : pc'[d] = "reclaim" => Stopped' \/ broken'
    BY <1>1, <1>5 DEF Inv, EngineIsDown
  <2>2. pc'["deactivate"] # "idle" => Stopped'
    BY <1>1, <1>5, CmdFacts DEF Inv, EngineIsDown
  <2>3. platform = "launchd" /\ pc'["activate"] \in {"reclaim", "setup", "probe"} \cup Installing =>
          Stopped'
    <3>1. CASE c = "activate" BY <1>1, <3>1 DEF Installing
    <3>2. CASE c # "activate" BY <1>1, <1>5, <3>2, CmdFacts DEF Inv, EngineIsDown
    <3> QED BY <3>1, <3>2
  <2> QED BY <2>1, <2>2, <2>3 DEF EngineIsDown
<1>11. LedgerKnows'
  BY DEF Inv, LedgerKnows
<1>12. Owed'
  <2>1. \A r \in Rebuilds \cap resume' :
          pc'[r] \in {"reclaim", "discard", "setup", "done", "failed"}
    BY <1>1, CmdFacts DEF Inv, Owed
  <2>2. \A d \in {"activate", "apply"} : pc'[d] = "applied" => resume' = {}
    <3> SUFFICES ASSUME NEW d \in {"activate", "apply"}, pc'[d] = "applied"
                 PROVE  resume' = {}
      OBVIOUS
    <3>1. d # c /\ pc[d] = "applied" /\ d \in Cmds
      BY <1>1, CmdFacts
    <3>2. resume = {} BY <3>1 DEF Inv, Owed
    <3>3. pc[c] = "idle"
      BY <3>1, CmdFacts DEF Inv, OneCommand
    <3> QED BY <3>2, <3>3
  <2>3. pc'["activate"] = "installed" => ~file["config"].applied
    BY <1>1, CmdFacts DEF Inv, Owed
  <2>4. "activate" \in resume' /\ pc'["activate"] = "idle" => ~file["config"].applied
    BY <1>1, CmdFacts DEF Inv, Owed
  <2> QED BY <2>1, <2>2, <2>3, <2>4 DEF Owed
<1>13. PublishedIsBacked'
  BY DEF Inv, PublishedIsBacked
<1> QED BY <1>2, <1>3, <1>6, <1>7, <1>8, <1>9, <1>10, <1>11, <1>12, <1>13 DEF Inv

\* The types of the variables, as the step lemmas use them.
LEMMA Typed ==
    ASSUME Inv
    PROVE  /\ made \in Nat /\ made <= MaxActivations
           /\ holder \in {"none", "engine", "stranded"} /\ lock \in {"none", "fresh", "old"}
           /\ loaded \in BOOLEAN /\ live \in BOOLEAN /\ broken \in BOOLEAN
           /\ at \in {"none", "born", "started", "ready", "indexing"}
           /\ at # "none" => loaded
           /\ pc["activate"] # "idle" => made > 0
           /\ resume \subseteq {"activate"} \cup Rebuilds
           /\ "apply" \notin resume /\ "deactivate" \notin resume
<1>1. resume \subseteq {"activate"} \cup Rebuilds
  BY DEF Inv, TypeOK
<1> QED BY <1>1, CmdFacts, EngineAssumption DEF Inv, TypeOK, EngineIsHeld, InstallShape

\* A step that moves a command and otherwise at most takes note of a holder.
LEMMA MovesOn ==
    ASSUME Inv, NEW c \in Cmds, NEW w \in StepsOf(c), Goto(c, w), pc[c] # "idle",
           UNCHANGED <<platform, file, snap, made, loaded, at, live, resume, lockVars, remaining>>,
           holder' \in {"none", "engine", "stranded"},
           c \in Rebuilds /\ w \in Past => pc[c] \in Past,
           c = "activate" =>
              {pc[c], w} \cap {"config", "removal", "descriptor", "reset"} = {},
           c = "deactivate" => w # "config",
           w \in {"applying", "applied"} => HasConfig,
           w # "quiesce", w # "reclaim", w # "applied",
           c = "activate" /\ w \in {"setup", "probe", "unit"} =>
              pc[c] \in {"reclaim", "setup", "probe"} ,
           c \in Rebuilds /\ c \in resume => w \in {"reclaim", "discard", "setup", "done", "failed"},
           c = "activate" /\ c \in resume /\ w = "idle" => ~file["config"].applied,
           c # "activate" \/ w # "installed"
    PROVE  Inv'
<1>1. LockHeld'
  BY LockPlain
<1>2. Stopped' = Stopped /\ lock' = lock /\ broken' = broken
  BY DEF Stopped, lockVars
<1>3. c = "deactivate" => Stopped
  BY DEF Inv, EngineIsDown
<1>4. c \in Rebuilds => HasConfig
  BY DEF Inv, RecordStays
<1>5. c = "activate" /\ c \in resume => HasConfig
  BY DEF Inv, RecordStays
<1>6. c = "activate" /\ w \in {"reclaim", "setup", "probe", "unit"} /\ platform = "launchd" => Stopped
  BY DEF Inv, EngineIsDown
<1>7. c \notin {"apply", "deactivate"} \/ c \notin resume
  BY Typed
<1> QED BY <1>1, <1>2, <1>3, <1>4, <1>5, <1>6, <1>7, Typed, Moves

-----------------------------------------------------------------------------
(***************************************************************************)
(* Initial states and steps.                                                *)
(***************************************************************************)

LEMMA InitInv == Init => Inv
<1> SUFFICES ASSUME Init PROVE Inv
  OBVIOUS
<1>1. /\ \A c \in Cmds : pc[c] = "idle"
      /\ \A f \in Artifacts : file[f] = Absent
      /\ DOMAIN snap = {}
  BY DEF Init
<1>2. TypeOK
  <2>1. file \in [Artifacts -> Content] /\ 0 \in 0 .. MaxActivations
    BY AbsentFacts, EngineAssumption DEF Init
  <2>2. /\ "idle" \in Steps /\ "idle" \in ActivateSteps /\ "idle" \in ApplySteps
        /\ "idle" \in DeactivateSteps /\ "idle" \in RebuildSteps
    BY DEF Steps, ActivateSteps, ApplySteps, DeactivateSteps, RebuildSteps
  <2>3. pc \in [Cmds -> Steps]
    BY <2>2 DEF Init
  <2> QED BY <1>1, <2>1, <2>2, <2>3, CmdFacts DEF Init, TypeOK
<1>3. Captured = {}
  BY <1>1, CmdFacts, CapturedFacts
<1>4. OneCommand /\ LockHeld
  BY <1>1, CmdFacts DEF OneCommand, LockHeld, HoldsLock
<1>5. InstallShape
  BY <1>1, <1>3, CmdFacts DEF InstallShape
<1>6. FilesShape /\ PublishedIsBacked
  BY <1>1, AbsentFacts, CmdFacts DEF Init, FilesShape, PublishedIsBacked, Artifacts
<1>7. EngineIsHeld /\ EngineIsDown /\ LedgerKnows
  BY <1>1, CmdFacts DEF Init, EngineIsHeld, Stopped, EngineIsDown, LedgerKnows, Installing
<1>8. RecordStays /\ Owed
  BY <1>1, CmdFacts DEF Init, RecordStays, Owed
<1> QED BY <1>2, <1>4, <1>5, <1>6, <1>7, <1>8 DEF Inv

\* Stopping the engine: whichever way it ends, a command that goes on to the
\* reclaim has taken the unit from the supervisor.
LEMMA QuiesceStep ==
    ASSUME Inv, NEW c \in {"activate"} \cup Rebuilds, SupervisorQuiesce(c)
    PROVE  Inv'
<1>1. /\ c \in Cmds /\ pc[c] = "quiesce" /\ HasConfig
      /\ UNCHANGED <<platform, file, snap, made, lockVars, remaining>>
  BY CmdFacts DEF SupervisorQuiesce, Inv, RecordStays, diskVars
<1>2. PICK w \in {"setup", "discard", "reclaim", "failed"} :
        /\ Goto(c, w)
        /\ w = "setup" => c = "activate"
        /\ w = "discard" => c # "activate"
        /\ \/ ~IsLoaded /\ UNCHANGED <<loaded, procVars, resume>> /\ w # "reclaim"
           \/ IsLoaded /\ loaded' = FALSE /\ Down /\ resume' = resume \cup {c} /\ w = "reclaim"
           \/ w = "failed" /\ UNCHANGED <<loaded, procVars, resume>>
  <2>1. CASE ~IsLoaded /\ Goto(c, IF c = "activate" THEN "setup" ELSE "discard")
             /\ UNCHANGED <<loaded, procVars, resume>>
    <3>1. CASE c = "activate" BY <2>1, <3>1
    <3>2. CASE c # "activate" BY <2>1, <3>2
    <3> QED BY <3>1, <3>2
  <2>2. CASE IsLoaded /\ loaded' = FALSE /\ Down /\ Goto(c, "reclaim") /\ resume' = resume \cup {c}
    BY <2>2
  <2>3. CASE Fail(c) /\ UNCHANGED <<loaded, procVars, resume>>
    BY <2>3, CmdFacts DEF Fail
  <2> QED BY <2>1, <2>2, <2>3 DEF SupervisorQuiesce
<1>3. w \in StepsOf(c)
  BY <1>2, CmdFacts DEF StepsOf, ActivateSteps, RebuildSteps, Past
<1>4. LockHeld'
  BY <1>1, <1>2, <1>3, LockPlain DEF Past
<1>5. lock' = lock /\ broken' = broken
  BY <1>1 DEF lockVars
<1>6. c \in Rebuilds => c # "activate"
  BY CmdFacts
<1>7. CASE IsLoaded /\ loaded' = FALSE /\ Down /\ resume' = resume \cup {c} /\ w = "reclaim"
  <2>1. Stopped' BY <1>7 DEF Stopped
  <2>2. holder' \in {"none", "engine", "stranded"} /\ live' \in BOOLEAN /\ at' = "none"
    BY <1>7, Typed DEF Down, Strand
  <2> QED BY <1>1, <1>2, <1>3, <1>4, <1>5, <1>6, <1>7, <2>1, <2>2, Typed, CmdFacts, Moves
<1>8. CASE UNCHANGED <<loaded, procVars, resume>> /\ w # "reclaim"
  <2>1. UNCHANGED <<at, holder, live, loaded, resume>>
    BY <1>8 DEF procVars
  <2>2. c = "activate" /\ w = "setup" /\ platform = "launchd" => Stopped'
    BY <1>1, <1>2, <1>8, <2>1 DEF Stopped, IsLoaded, Down
  <2>3. c = "activate" /\ c \in resume => HasConfig
    BY <1>1
  <2>4. c \in Rebuilds => c \notin resume
    BY <1>1 DEF Inv, Owed
  <2> QED BY <1>1, <1>2, <1>3, <1>4, <1>5, <1>6, <1>8, <2>1, <2>2, <2>3, <2>4, Typed,
             CmdFacts, Moves
<1> QED BY <1>2, <1>7, <1>8

LEMMA ReclaimStep ==
    ASSUME Inv, NEW c \in {"activate"} \cup Rebuilds, ReclaimResidentRuntime(c)
    PROVE  Inv'
<1>1. /\ c \in Cmds /\ pc[c] = "reclaim" /\ holder' \in {"none", "engine", "stranded"}
      /\ UNCHANGED <<platform, file, snap, made, loaded, at, live, resume, lockVars, remaining>>
  BY CmdFacts, Typed DEF ReclaimResidentRuntime, diskVars
<1>2. PICK w \in {"setup", "discard"} :
        Goto(c, w) /\ (w = "setup" <=> c = "activate")
  <2>1. CASE c = "activate" BY <2>1 DEF ReclaimResidentRuntime
  <2>2. CASE c # "activate" BY <2>2 DEF ReclaimResidentRuntime
  <2> QED BY <2>1, <2>2
<1>3. w \in StepsOf(c)
  BY <1>2, CmdFacts DEF StepsOf, ActivateSteps, RebuildSteps, Past
<1> QED BY <1>1, <1>2, <1>3, CmdFacts, MovesOn DEF Past

LEMMA SetupStep ==
    ASSUME Inv, NEW c \in {"activate"} \cup Rebuilds, Setup(c)
    PROVE  Inv'
<1>1. /\ c \in Cmds /\ pc[c] = "setup" /\ holder' \in {"none", "engine", "stranded"}
      /\ UNCHANGED <<platform, file, snap, made, loaded, at, live, resume, lockVars, remaining>>
  BY CmdFacts, Typed DEF Setup, diskVars, procVars
<1>2. PICK w \in {"probe", "done", "failed"} :
        Goto(c, w) /\ (w = "probe" => c = "activate") /\ (w = "done" => c # "activate")
  <2>1. CASE c = "activate" BY <2>1 DEF Setup, Fail
  <2>2. CASE c # "activate" BY <2>2, CmdFacts DEF Setup, Fail
  <2> QED BY <2>1, <2>2
<1>3. w \in StepsOf(c)
  BY <1>2, CmdFacts DEF StepsOf, ActivateSteps, RebuildSteps, Past
<1> QED BY <1>1, <1>2, <1>3, CmdFacts, MovesOn DEF Past

LEMMA ProbeStep ==
    ASSUME Inv, ProbeEndpoint
    PROVE  Inv'
<1>1. /\ "activate" \in Cmds /\ pc["activate"] = "probe"
      /\ holder' \in {"none", "engine", "stranded"}
      /\ UNCHANGED <<platform, file, snap, made, loaded, at, live, resume, lockVars, remaining>>
  BY CmdFacts, Typed DEF ProbeEndpoint, diskVars, procVars
<1>2. PICK w \in {"unit", "failed"} : Goto("activate", w)
  BY DEF ProbeEndpoint, Fail
<1>3. w \in StepsOf("activate")
  BY <1>2 DEF StepsOf, ActivateSteps, Installing
<1> QED BY <1>1, <1>2, <1>3, CmdFacts, MovesOn

LEMMA ActivateEndsStep ==
    ASSUME Inv, ActivateEnds
    PROVE  Inv'
<1>1. /\ "activate" \in Cmds /\ pc["activate"] = "installed"
      /\ holder' \in {"none", "engine", "stranded"}
      /\ UNCHANGED <<platform, file, snap, made, loaded, at, live, resume, lockVars, remaining>>
  BY CmdFacts, Typed DEF ActivateEnds, diskVars, procVars
<1>2. Goto("activate", "idle") /\ "idle" \in StepsOf("activate")
  BY DEF ActivateEnds, StepsOf, ActivateSteps
<1>3. ~file["config"].applied
  BY <1>1 DEF Inv, Owed
<1> QED BY <1>1, <1>2, <1>3, CmdFacts, MovesOn

LEMMA DiscardStep ==
    ASSUME Inv, NEW r \in Rebuilds, Discard(r) \/ LookForEngine(r)
    PROVE  Inv'
<1>1. /\ r \in Cmds /\ pc[r] \in {"look", "discard"}
      /\ holder' \in {"none", "engine", "stranded"}
      /\ UNCHANGED <<platform, file, snap, made, loaded, at, live, resume, lockVars, remaining>>
  BY CmdFacts, Typed DEF Discard, LookForEngine, diskVars, procVars
<1>2. PICK w \in {"setup", "discard", "failed"} : Goto(r, w)
  BY CmdFacts DEF Discard, LookForEngine, Fail
<1>3. w \in StepsOf(r)
  BY <1>2, CmdFacts DEF StepsOf, RebuildSteps, Past
<1> QED BY <1>1, <1>2, <1>3, CmdFacts, MovesOn DEF Past

LEMMA DeactivateDataStep ==
    ASSUME Inv, DeactivateData
    PROVE  Inv'
<1>1. /\ "deactivate" \in Cmds /\ pc["deactivate"] = "data"
      /\ holder' \in {"none", "engine", "stranded"}
      /\ UNCHANGED <<platform, file, snap, made, loaded, at, live, resume, lockVars, remaining>>
  BY CmdFacts, Typed DEF DeactivateData, diskVars
<1>2. Goto("deactivate", "descriptor") /\ "descriptor" \in StepsOf("deactivate")
  BY DEF DeactivateData, StepsOf, DeactivateSteps
<1> QED BY <1>1, <1>2, CmdFacts, MovesOn

\* The discipline of the operator: next to an activation, an apply or a
\* deactivation nothing else is under way.
LEMMA Alone ==
    ASSUME Inv, NEW c \in {"activate", "apply", "deactivate"}, pc[c] # "idle" \/ Free(c)
    PROVE  \A d \in Cmds : d # c => pc[d] = "idle"
  BY CmdFacts DEF Inv, OneCommand, Free

LEMMA ApplyBeginStep ==
    ASSUME Inv, NEW c \in {"activate", "apply"}, ApplyBegin(c)
    PROVE  Inv'
<1>1. /\ c \in Cmds /\ pc[c] \in {"installed", "idle"} /\ (pc[c] = "idle" => c = "apply" /\ Free(c))
      /\ UNCHANGED <<platform, file, snap, made, loaded, at, holder, live, resume, lock, broken,
                     lockVars, remaining>>
  BY CmdFacts DEF ApplyBegin, Begin, diskVars, procVars, lockVars
<1>2. PICK w \in {"applying", "failed"} :
        Goto(c, w) /\ (w = "applying" => HasConfig) /\ (w = "failed" => c = "activate")
  <2>1. CASE HasConfig BY <2>1 DEF ApplyBegin
  <2>2. CASE ~HasConfig BY <2>2 DEF ApplyBegin, Fail
  <2> QED BY <2>1, <2>2
<1>3. w \in StepsOf(c)
  BY <1>2 DEF StepsOf, ActivateSteps, ApplySteps
<1>4. LockHeld'
  BY <1>1, <1>2, <1>3, CmdFacts, LockPlain
<1>5. c = "activate" /\ c \in resume => HasConfig
  BY <1>1 DEF Inv, RecordStays
<1>6. c = "activate" => pc[c] # "idle" /\ made > 0
  BY <1>1, Typed
<1> QED BY <1>1, <1>2, <1>3, <1>4, <1>5, <1>6, Typed, CmdFacts, Moves

LEMMA ActivateBeginStep ==
    ASSUME Inv, ActivateBegin
    PROVE  Inv'
<1>1. /\ "activate" \in Cmds /\ pc["activate"] = "idle" /\ Free("activate")
      /\ made' = made + 1 /\ made < MaxActivations /\ resume' = resume \ {"activate"}
      /\ UNCHANGED <<platform, file, snap, loaded, at, holder, live, lock, broken,
                     lockVars, remaining>>
  BY CmdFacts DEF ActivateBegin, Begin, procVars, lockVars
<1>2. PICK w \in {"quiesce", "reclaim"} : Goto("activate", w) /\ (w = "quiesce" <=> HasConfig)
  <2>1. CASE HasConfig BY <2>1 DEF ActivateBegin
  <2>2. CASE ~HasConfig BY <2>2 DEF ActivateBegin
  <2> QED BY <2>1, <2>2
<1>3. w \in StepsOf("activate")
  BY <1>2 DEF StepsOf, ActivateSteps
<1>4. LockHeld'
  BY <1>1, <1>2, <1>3, CmdFacts, LockPlain
<1>5. w = "reclaim" => Stopped'
  BY <1>1, <1>2 DEF Inv, EngineIsHeld, Stopped
<1>6. made' <= MaxActivations /\ made' > 0
  BY <1>1, Typed, EngineAssumption
<1> QED BY <1>1, <1>2, <1>3, <1>4, <1>5, <1>6, Typed, CmdFacts, Moves

LEMMA RebuildBeginStep ==
    ASSUME Inv, NEW r \in Rebuilds, RebuildBegin(r)
    PROVE  Inv'
<1>1. /\ r \in Cmds /\ pc[r] = "idle" /\ Free(r) /\ HasConfig
      /\ resume' = resume \ {r} /\ Goto(r, "locking")
      /\ UNCHANGED <<platform, file, snap, made, loaded, at, holder, live, lock, broken,
                     lockVars, remaining>>
  BY CmdFacts DEF RebuildBegin, Begin, procVars, lockVars, diskVars
<1>2. "locking" \in StepsOf(r)
  BY CmdFacts DEF StepsOf, RebuildSteps
<1>3. LockHeld'
  BY <1>1, <1>2, LockPlain DEF Past
<1> QED BY <1>1, <1>2, <1>3, Typed, CmdFacts, Moves

\* The lock file: created exclusively, broken when old, removed at the end.
LEMMA LockStep ==
    ASSUME Inv, NEW r \in Rebuilds,
           TakeLock(r) \/ RemoveStaleLock(r) \/ RetakeLock(r) \/ Unlock(r)
    PROVE  Inv'
<1>1. /\ r \in Cmds /\ pc[r] \in {"locking", "stale", "retake", "unlock"} /\ HasConfig
      /\ UNCHANGED <<platform, file, snap, made, loaded, at, holder, live, resume, remaining>>
      /\ r \notin resume /\ r \notin {"activate", "apply", "deactivate"}
  BY CmdFacts
     DEF TakeLock, RemoveStaleLock, RetakeLock, Unlock, procVars, diskVars, Inv, RecordStays, Owed
<1>2. PICK w \in {"quiesce", "look", "idle", "stale", "retake"} :
        /\ Goto(r, w)
        /\ lock' \in {"none", "fresh", "old"} /\ broken' \in BOOLEAN /\ (broken => broken')
        /\ \/ w \in {"quiesce", "look"} /\ lock = "none" /\ lock' = "fresh" /\ broken' = broken
           \/ w \notin {"quiesce", "look"} /\ pc[r] # "unlock" /\ UNCHANGED <<lock, broken>>
           \/ w = "retake" /\ broken'
           \/ w = "idle" /\ pc[r] = "unlock" /\ broken' = broken
  <2>0. lock \in {"none", "fresh", "old"} /\ broken \in BOOLEAN
    BY Typed
  <2>1. Locked(r) => Goto(r, "quiesce") \/ Goto(r, "look")
    BY DEF Locked
  <2>2. CASE TakeLock(r) BY <2>0, <2>1, <2>2 DEF TakeLock
  <2>3. CASE RemoveStaleLock(r) BY <2>0, <2>3 DEF RemoveStaleLock
  <2>4. CASE RetakeLock(r) BY <2>0, <2>1, <2>4 DEF RetakeLock
  <2>5. CASE Unlock(r) BY <2>0, <2>5 DEF Unlock
  <2> QED BY <2>2, <2>3, <2>4, <2>5
<1>3. w \in StepsOf(r)
  BY <1>1, <1>2 DEF StepsOf, RebuildSteps, Past
<1>4. /\ pc'[r] = w /\ \A d \in Rebuilds : d # r => pc'[d] = pc[d]
  BY <1>1, <1>2, <1>3, GotoFacts, CmdFacts
<1>5. LockHeld'
  <2>1. SUFFICES ASSUME ~broken' PROVE \A q \in Rebuilds : HoldsLock(q)' =>
            lock' = "fresh" /\ \A s \in Rebuilds : HoldsLock(s)' => s = q
    BY DEF LockHeld
  <2>2. ~broken
    BY <1>2, <2>1
  <2>3. \A q \in Rebuilds : q # r => HoldsLock(q)' = HoldsLock(q)
    BY <1>4 DEF HoldsLock
  <2>4. CASE w \in {"quiesce", "look"} /\ lock = "none" /\ lock' = "fresh"
    <3>1. \A q \in Rebuilds : ~HoldsLock(q)
      BY <2>2, <2>4 DEF Inv, LockHeld
    <3> QED BY <2>3, <2>4, <3>1
  <2>5. CASE w \notin {"quiesce", "look"} /\ pc[r] # "unlock" /\ UNCHANGED <<lock, broken>>
    <3>1. ~HoldsLock(r)'
      BY <1>2, <1>4, <2>5 DEF HoldsLock
    <3> QED BY <2>2, <2>3, <2>5, <3>1 DEF Inv, LockHeld
  <2>6. CASE w = "idle" /\ pc[r] = "unlock"
    <3>1. HoldsLock(r) /\ ~HoldsLock(r)'
      BY <1>4, <2>6 DEF HoldsLock
    <3> QED BY <2>2, <2>3, <3>1 DEF Inv, LockHeld
  <2> QED BY <1>2, <2>1, <2>4, <2>5, <2>6
<1> QED BY <1>1, <1>2, <1>3, <1>5, Typed, Moves

\* Starting the engine, for a command that stopped it or that applies.  A record
\* is there, and no other command relies on the engine being down: next to an
\* activation or an apply there is none, and two rebuilds are past the lock only
\* once an abandoned one was removed.
LEMMA Starts ==
    ASSUME Inv, NEW c \in Cmds, NEW w \in StepsOf(c), Goto(c, w), c # "deactivate",
           pc[c] \in {"failed", "done", "applying"}, RunStart, HasConfig,
           UNCHANGED <<platform, diskVars, lockVars, remaining>>,
           w \in {"idle", "unlock", "applied", "failed"},
           c \in Rebuilds => pc[c] \in Past /\ c \notin resume',
           resume' \subseteq resume, w = "applied" => resume' = {},
           c = "activate" /\ w = "idle" => c \notin resume'
    PROVE  Inv'
<1>1. /\ pc'[c] = w /\ \A d \in Cmds : d # c => pc'[d] = pc[d]
      /\ pc' \in [Cmds -> Steps]
      /\ pc'["activate"] \in ActivateSteps /\ pc'["apply"] \in ApplySteps
      /\ pc'["deactivate"] \in DeactivateSteps /\ \A r \in Rebuilds : pc'[r] \in RebuildSteps
  BY GotoFacts
<1>2. UNCHANGED <<platform, file, snap, made, lock, broken, remaining>>
  BY DEF diskVars, lockVars
<1>3. /\ loaded' \in BOOLEAN /\ live' \in BOOLEAN
      /\ holder' \in {"none", "engine", "stranded"} /\ at' \in {at, "none"}
      /\ platform = "launchd" => at' = "none"
      /\ at' # "none" => loaded'
  <2>1. loaded' = HeldStill \/ loaded' = (HeldStill \/ file["unit"] # Absent)
    BY DEF RunStart
  <2>2. HeldStill \in BOOLEAN
    BY DEF HeldStill
  <2>3. CASE platform = "launchd"
    <3>1. Down BY <2>3 DEF RunStart
    <3>2. loaded' \in BOOLEAN BY <2>1, <2>2
    <3> QED BY <3>1, <3>2, Typed DEF Down, Strand
  <2>4. CASE platform # "launchd"
    <3>1. platform = "systemd" /\ UNCHANGED procVars
      BY <2>4 DEF RunStart
    <3>2. loaded => HeldStill BY <3>1 DEF HeldStill
    <3>3. loaded' \in BOOLEAN BY <2>1, <2>2
    <3>4. HeldStill => loaded' BY <2>1, <2>2
    <3> QED BY <2>4, <3>1, <3>2, <3>3, <3>4, Typed DEF procVars
  <2> QED BY <2>3, <2>4
<1>4. \A d \in Cmds : d # c /\ pc[d] # "idle" => c \in Rebuilds /\ d \in Rebuilds
  BY DEF Inv, OneCommand
<1>5. /\ pc["deactivate"] = "idle" /\ pc'["deactivate"] = "idle"
      /\ c # "activate" => pc["activate"] = "idle" /\ pc'["activate"] = "idle"
  BY <1>1, <1>4, CmdFacts
<1>6. Captured = {} /\ Captured' = {}
  <2>1. /\ pc["activate"] \notin {"config", "removal", "descriptor", "reset"}
        /\ pc'["activate"] \notin {"config", "removal", "descriptor", "reset"}
    BY <1>1, <1>5
  <2> QED BY <2>1, CapturedFacts DEF Captured
<1>7. TypeOK'
  BY <1>1, <1>2, <1>3, CmdFacts DEF Inv, TypeOK
<1>8. OneCommand' /\ LockHeld'
  BY OneCommandMoves, LockPlain
<1>9. InstallShape' /\ FilesShape' /\ PublishedIsBacked'
  <2>1. pc'["activate"] # "idle" => made > 0
    BY <1>1, <1>5, Typed
  <2> QED BY <1>2, <1>5, <1>6, <2>1 DEF Inv, InstallShape, FilesShape, PublishedIsBacked
<1>10. EngineIsHeld' /\ LedgerKnows'
  BY <1>2, <1>3 DEF EngineIsHeld, LedgerKnows, HasConfig
<1>11. RecordStays'
  BY <1>2, <1>6 DEF RecordStays, HasConfig
<1>12. EngineIsDown'
  <2>1. ASSUME NEW d \in Cmds, pc'[d] = "reclaim" PROVE broken
    <3>1. d # c /\ pc[d] = "reclaim" BY <1>1, <2>1
    <3>2. c \in Rebuilds /\ d \in Rebuilds BY <1>4, <3>1
    <3>3. HoldsLock(c) /\ HoldsLock(d) BY <3>1, <3>2 DEF HoldsLock, Past
    <3> QED BY <3>1, <3>2, <3>3 DEF Inv, LockHeld
  <2>2. pc'["activate"] \notin {"reclaim", "setup", "probe"} \cup Installing
    BY <1>1, <1>5 DEF Installing
  <2> QED BY <1>2, <1>5, <2>1, <2>2 DEF EngineIsDown
<1>13. Owed'
  <2>1. \A r \in Rebuilds \cap resume' :
          pc'[r] \in {"reclaim", "discard", "setup", "done", "failed"}
    BY <1>1, CmdFacts DEF Inv, Owed
  <2>2. \A d \in {"activate", "apply"} : pc'[d] = "applied" => resume' = {}
    BY <1>1, <1>4, CmdFacts
  <2>3. pc'["activate"] # "installed"
    BY <1>1, <1>5
  <2>4. "activate" \in resume' /\ pc'["activate"] = "idle" => ~file["config"].applied
    BY <1>1, <1>5 DEF Inv, Owed
  <2> QED BY <1>2, <2>1, <2>2, <2>3, <2>4 DEF Owed
<1> QED BY <1>7, <1>8, <1>9, <1>10, <1>11, <1>12, <1>13 DEF Inv

LEMMA ResumeStep ==
    ASSUME Inv, NEW c \in {"activate"} \cup Rebuilds, Resume(c)
    PROVE  Inv'
<1>1. /\ c \in Cmds /\ pc[c] \in {"failed", "done"} /\ resume' = resume \ {c}
      /\ UNCHANGED <<platform, diskVars, lockVars, remaining>> /\ c # "deactivate" /\ c # "apply"
      /\ c \in Rebuilds <=> c # "activate"
  BY CmdFacts DEF Resume
<1>2. PICK w \in {"idle", "unlock"} : Goto(c, w) /\ (w = "idle" <=> c = "activate")
  <2>1. CASE c = "activate" BY <2>1 DEF Resume
  <2>2. CASE c # "activate" BY <2>2 DEF Resume
  <2> QED BY <2>1, <2>2
<1>3. w \in StepsOf(c)
  BY <1>1, <1>2 DEF StepsOf, ActivateSteps, RebuildSteps, Past
<1>4. c \in Rebuilds => pc[c] \in Past /\ HasConfig
  BY <1>1 DEF Past, Inv, RecordStays
<1>5. CASE StartRefused
  <2>1. UNCHANGED <<file, snap, made, loaded, at, holder, live, lock, broken>>
    BY <1>1, <1>5 DEF StartRefused, procVars, diskVars, lockVars
  <2>2. LockHeld'
    BY <1>1, <1>2, <1>3, <1>4, LockPlain
  <2> QED BY <1>1, <1>2, <1>3, <1>4, <2>1, <2>2, Typed, Moves
<1>6. CASE c \in resume /\ RunStart
  <2>1. HasConfig
    BY <1>1, <1>4, <1>6 DEF Inv, RecordStays
  <2> QED BY <1>1, <1>2, <1>3, <1>4, <1>6, <2>1, Starts
<1> QED BY <1>5, <1>6 DEF Resume

LEMMA LoadUnitStep ==
    ASSUME Inv, NEW c \in {"activate", "apply"}, LoadUnit(c)
    PROVE  Inv'
<1>1. /\ c \in Cmds /\ pc[c] = "applying" /\ HasConfig /\ c \notin Rebuilds
      /\ UNCHANGED <<platform, diskVars, lockVars, remaining>>
  BY CmdFacts DEF LoadUnit, Inv, RecordStays
<1>2. CASE RunStart /\ loaded' /\ Goto(c, "applied")
  <2>1. "applied" \in StepsOf(c)
    BY DEF StepsOf, ActivateSteps, ApplySteps
  <2>2. pc'[c] = "applied" BY <1>1, <1>2, <2>1, GotoFacts
  <2>3. resume' = {} BY <1>2, <2>2 DEF LoadUnit
  <2> QED BY <1>1, <1>2, <2>1, <2>3, CmdFacts, Starts
<1>3. CASE (RunStart \/ StartRefused) /\ Fail(c)
  <2>1. PICK w \in {"idle", "failed"} : Goto(c, w) /\ (w = "idle" <=> c = "apply")
    BY <1>3 DEF Fail
  <2>2. w \in StepsOf(c)
    BY <2>1 DEF StepsOf, ActivateSteps, ApplySteps
  <2>3. pc'[c] = w BY <1>1, <2>1, <2>2, GotoFacts
  <2>4. resume' = resume BY <2>3 DEF LoadUnit
  <2>5. CASE RunStart
    BY <1>1, <2>1, <2>2, <2>4, <2>5, CmdFacts, Starts
  <2>6. CASE StartRefused
    <3>1. UNCHANGED <<file, snap, made, loaded, at, holder, live>>
      BY <1>1, <2>6 DEF StartRefused, procVars, diskVars
    <3> QED BY <1>1, <2>1, <2>2, <2>4, <3>1, Typed, CmdFacts, MovesOn
  <2> QED BY <1>3, <2>5, <2>6
<1> QED BY <1>2, <1>3 DEF LoadUnit

\* The order of the install.
LEMMA AfterFacts ==
    /\ After("unit") = "config" /\ After("config") = "removal"
    /\ After("removal") = "descriptor" /\ After("descriptor") = "reset"
  BY DEF After

\* What the activation writes is a content, is newer than anything, and is not
\* applied.
LEMMA WrittenFacts ==
    ASSUME Inv, pc["activate"] # "idle"
    PROVE  LET new == [v |-> made, applied |-> FALSE] IN
           /\ new \in Content /\ new # Absent /\ new.v = made /\ ~new.applied
  BY Typed, EngineAssumption DEF Content, Absent

\* One destination is captured and written.
LEMMA InstallOne ==
    ASSUME Inv, NEW f \in Artifacts, pc["activate"] = f,
           snap' = [g \in DOMAIN snap \cup {f} |-> IF g = f THEN file[g] ELSE snap[g]],
           file' = [file EXCEPT ![f] = [v |-> made, applied |-> FALSE]],
           remaining' = remaining \ {f}, Goto("activate", After(f)),
           UNCHANGED <<platform, made, loaded, procVars, resume, lockVars>>
    PROVE  Inv'
<1> DEFINE new == [v |-> made, applied |-> FALSE]
           w == After(f)
<1>0. /\ "activate" \in Cmds /\ f \in {"unit", "config", "removal", "descriptor"}
      /\ w \in {"config", "removal", "descriptor", "reset"} /\ (w = "reset" <=> f = "descriptor")
      /\ w \in StepsOf("activate")
  BY CmdFacts, AfterFacts DEF Artifacts, StepsOf, ActivateSteps, Installing
<1>1. /\ pc'["activate"] = w /\ \A d \in Cmds : d # "activate" => pc'[d] = "idle"
      /\ \A d \in Cmds : d # "activate" => pc[d] = "idle"
      /\ pc' \in [Cmds -> Steps]
      /\ pc'["activate"] \in ActivateSteps /\ pc'["apply"] \in ApplySteps
      /\ pc'["deactivate"] \in DeactivateSteps /\ \A r \in Rebuilds : pc'[r] \in RebuildSteps
  BY <1>0, GotoFacts, Alone
<1>2. UNCHANGED <<at, holder, live, lock, broken>>
  BY DEF procVars, lockVars
<1>3. /\ new \in Content /\ new # Absent /\ new.v = made /\ ~new.applied /\ made > 0
      /\ file \in [Artifacts -> Content] /\ file' \in [Artifacts -> Content]
      /\ file'[f] = new /\ \A g \in Artifacts : g # f => file'[g] = file[g]
  BY <1>0, WrittenFacts, Typed DEF Inv, TypeOK
<1>4. /\ DOMAIN snap = Captured /\ Captured' = Captured \cup {f} /\ f \notin Captured
      /\ Captured \subseteq Artifacts
  <2>1. DOMAIN snap = Captured BY DEF Inv, InstallShape
  <2>2. CASE f = "unit" BY <1>1, <2>1, <2>2, AfterFacts, CapturedFacts DEF Captured
  <2>3. CASE f = "config" BY <1>1, <2>1, <2>3, AfterFacts, CapturedFacts DEF Captured
  <2>4. CASE f = "removal" BY <1>1, <2>1, <2>4, AfterFacts, CapturedFacts DEF Captured
  <2>5. CASE f = "descriptor"
    BY <1>1, <2>1, <2>5, AfterFacts, CapturedFacts DEF Captured, Artifacts
  <2> QED BY <1>0, <2>2, <2>3, <2>4, <2>5
<1>5. /\ DOMAIN snap' = Captured' /\ snap'[f] = file[f]
      /\ \A g \in Captured : snap'[g] = snap[g]
  BY <1>4
<1>6. Stopped' <=> Stopped
  BY <1>0 DEF Stopped
<1>7. TypeOK'
  BY <1>1, <1>2, <1>3 DEF Inv, TypeOK
<1>8. OneCommand' /\ LockHeld'
  BY <1>0, CmdFacts, OneCommandMoves, LockPlain
<1>9. InstallShape'
  <2>1. \A g \in Captured' : snap'[g] \in Content /\ snap'[g].v <= made /\ file'[g] = new
    <3>1. /\ \A g \in Captured : snap[g] \in Content /\ snap[g].v <= made /\ file[g] = new
          /\ file[f] \in Content /\ file[f].v <= made
      BY <1>3 DEF Inv, InstallShape, FilesShape
    <3>2. ASSUME NEW g \in Captured
          PROVE  snap'[g] \in Content /\ snap'[g].v <= made /\ file'[g] = new
      <4>1. g \in Artifacts /\ g # f BY <1>4
      <4>2. snap'[g] = snap[g] /\ file'[g] = file[g] BY <1>3, <1>5, <4>1
      <4> QED BY <3>1, <4>2
    <3>3. snap'[f] \in Content /\ snap'[f].v <= made /\ file'[f] = new
      BY <1>3, <1>5, <3>1
    <3> QED BY <1>4, <3>2, <3>3
  <2>2. "config" \in Captured' /\ snap'["config"] = Absent => Stopped
    <3>1. CASE f = "config" BY <1>5, <3>1 DEF Inv, EngineIsHeld, HasConfig
    <3>2. CASE f # "config" BY <1>4, <1>5, <3>2 DEF Inv, InstallShape
    <3> QED BY <3>1, <3>2
  <2>3. ASSUME w # "reset", file'["descriptor"] # Absent,
               NEW g \in Captured' \cap {"config", "removal"}
        PROVE  snap'[g].v >= file'["descriptor"].v \/ "descriptor" \in remaining'
    <3>1. f # "descriptor" /\ file'["descriptor"] = file["descriptor"]
          /\ ("descriptor" \in remaining => "descriptor" \in remaining')
      BY <1>0, <1>3, <2>3 DEF Artifacts
    <3>2. CASE g = f
      BY <1>5, <2>3, <3>1, <3>2 DEF Inv, PublishedIsBacked
    <3>3. CASE g # f
      BY <1>0, <1>4, <1>5, <2>3, <3>1, <3>3 DEF Inv, InstallShape
    <3> QED BY <3>2, <3>3
  <2> QED BY <1>1, <1>3, <1>5, <1>6, <2>1, <2>2, <2>3 DEF InstallShape
<1>10. FilesShape'
  <2>1. made \in Nat BY Typed
  <2> QED BY <1>1, <1>3, <2>1, CmdFacts DEF Inv, FilesShape
<1>11. EngineIsHeld'
  <2>1. HasConfig => HasConfig' BY <1>3 DEF HasConfig, Artifacts
  <2> QED BY <1>2, <1>6, <2>1 DEF Inv, EngineIsHeld
<1>12. RecordStays'
  <2>1. HasConfig => HasConfig' BY <1>3 DEF HasConfig, Artifacts
  <2>2. "activate" \in resume => HasConfig /\ ("config" \in Captured => snap["config"] # Absent)
    BY <1>0 DEF Inv, RecordStays
  <2>3. "activate" \in resume => ("config" \in Captured' => snap'["config"] # Absent)
    BY <1>4, <1>5, <2>2 DEF HasConfig
  <2> QED BY <1>0, <1>1, <2>1, <2>2, <2>3, CmdFacts DEF RecordStays
<1>13. EngineIsDown'
  <2>1. platform = "launchd" => Stopped
    BY <1>0 DEF Inv, EngineIsDown, Installing
  <2> QED BY <1>0, <1>1, <1>6, <2>1, CmdFacts DEF EngineIsDown
<1>14. LedgerKnows'
  BY <1>0, <1>2 DEF Inv, LedgerKnows
<1>15. Owed'
  BY <1>0, <1>1, CmdFacts DEF Inv, Owed
<1>16. PublishedIsBacked'
  <2>1. CASE f = "descriptor"
    <3>1. Captured = {"unit", "config", "removal"} BY <2>1, CapturedFacts
    <3>2. file["config"] = new /\ file["removal"] = new
      BY <3>1 DEF Inv, InstallShape
    <3>3. file'["config"].v = made /\ file'["removal"].v = made /\ file'["descriptor"].v = made
      BY <1>3, <2>1, <3>2 DEF Artifacts
    <3> QED BY <3>3, Typed DEF PublishedIsBacked
  <2>2. CASE f # "descriptor"
    <3>1. file'["descriptor"] = file["descriptor"] /\ file["descriptor"].v <= made
          /\ ("descriptor" \in remaining => "descriptor" \in remaining')
      BY <1>3, <2>2 DEF Artifacts, Inv, FilesShape
    <3>2. \A g \in {"config", "removal"} : file'[g] = file[g] \/ file'[g].v = made
      BY <1>3 DEF Artifacts
    <3>3. made \in Nat /\ file["descriptor"].v \in Nat
      BY <1>3, Typed, EngineAssumption DEF Content, Artifacts
    <3> QED BY <3>1, <3>2, <3>3 DEF Inv, PublishedIsBacked
  <2> QED BY <2>1, <2>2
<1> QED BY <1>7, <1>8, <1>9, <1>10, <1>11, <1>12, <1>13, <1>14, <1>15, <1>16 DEF Inv

\* An install that fails puts back what it can.
LEMMA RollsBack ==
    ASSUME Inv, NEW f \in Artifacts, pc["activate"] = f, Rollback, snap' = <<>>,
           Fail("activate"),
           UNCHANGED <<platform, made, loaded, procVars, resume, lockVars, remaining>>
    PROVE  Inv'
<1>0. /\ "activate" \in Cmds /\ f \in {"unit", "config", "removal", "descriptor"}
      /\ Goto("activate", "failed") /\ "failed" \in StepsOf("activate")
  BY CmdFacts DEF Artifacts, StepsOf, ActivateSteps, Fail
<1>1. /\ pc'["activate"] = "failed" /\ \A d \in Cmds : d # "activate" => pc'[d] = "idle"
      /\ \A d \in Cmds : d # "activate" => pc[d] = "idle"
      /\ pc' \in [Cmds -> Steps]
      /\ pc'["activate"] \in ActivateSteps /\ pc'["apply"] \in ApplySteps
      /\ pc'["deactivate"] \in DeactivateSteps /\ \A r \in Rebuilds : pc'[r] \in RebuildSteps
  BY <1>0, GotoFacts, Alone
<1>2. UNCHANGED <<at, holder, live, lock, broken>> /\ (Stopped' <=> Stopped)
  BY DEF procVars, lockVars, Stopped
<1>3. /\ DOMAIN snap = Captured /\ Captured \subseteq Artifacts /\ "descriptor" \notin Captured
      /\ Captured' = {}
  <2>1. Captured' = {} BY <1>1 DEF Captured
  <2> QED BY <1>0, <2>1, CapturedFacts DEF Inv, InstallShape
<1>4. /\ DOMAIN file' = Artifacts
      /\ \A g \in Artifacts : file'[g] = file[g] \/ (g \in Captured /\ file'[g] = snap[g])
  BY <1>3 DEF Rollback
<1>5. file' \in [Artifacts -> Content]
  <2>1. \A g \in Artifacts : file'[g] \in Content
    BY <1>4 DEF Inv, InstallShape, TypeOK
  <2>2. PICK stuck \in SUBSET DOMAIN snap :
          file' = [g \in Artifacts |-> IF g \in DOMAIN snap \ stuck THEN snap[g] ELSE file[g]]
    BY DEF Rollback
  <2> QED BY <2>1, <2>2
<1>6. TypeOK'
  BY <1>1, <1>2, <1>5 DEF Inv, TypeOK
<1>7. OneCommand' /\ LockHeld'
  BY <1>0, CmdFacts, OneCommandMoves, LockPlain
<1>8. InstallShape'
  BY <1>0, <1>3, Typed DEF InstallShape
<1>9. FilesShape'
  BY <1>1, <1>4, CmdFacts DEF Inv, FilesShape, InstallShape
<1>10. EngineIsHeld'
  BY <1>2, <1>4 DEF Inv, EngineIsHeld, HasConfig, InstallShape, Artifacts
<1>11. RecordStays'
  <2>1. "activate" \in resume => HasConfig'
    BY <1>0, <1>4 DEF Inv, RecordStays, HasConfig, Artifacts
  <2> QED BY <1>1, <1>3, <2>1, CmdFacts DEF RecordStays
<1>12. EngineIsDown' /\ LedgerKnows' /\ Owed'
  <2>1. EngineIsDown'
    <3>1. \A d \in Cmds : pc'[d] # "reclaim"
      BY <1>1
    <3> QED BY <1>1, <3>1, CmdFacts DEF EngineIsDown, Installing
  <2>2. LedgerKnows' BY <1>2 DEF Inv, LedgerKnows
  <2>3. Owed'
    <3>1. Rebuilds \cap resume = {} BY <1>1, CmdFacts DEF Inv, Owed
    <3> QED BY <1>1, <3>1, CmdFacts DEF Owed
  <2> QED BY <2>1, <2>2, <2>3
<1>13. PublishedIsBacked'
  <2>1. file'["descriptor"] = file["descriptor"]
    BY <1>3, <1>4 DEF Artifacts
  <2>2. pc["activate"] # "reset" BY <1>0
  <2> QED BY <1>4, <2>1, <2>2 DEF Inv, PublishedIsBacked, InstallShape, Artifacts
<1> QED BY <1>6, <1>7, <1>8, <1>9, <1>10, <1>11, <1>12, <1>13 DEF Inv

LEMMA InstallStep ==
    ASSUME Inv, NEW f \in Artifacts, InstallArtifact(f)
    PROVE  Inv'
  BY InstallOne, RollsBack DEF InstallArtifact

\* A step of the only command under way that leaves an install, or has none, and
\* may change the files: what it must show is about files, engine and record.
LEMMA Settles ==
    ASSUME Inv, NEW c \in {"activate", "apply", "deactivate"}, NEW w \in StepsOf(c), Goto(c, w),
           pc[c] # "idle" \/ Free(c),
           UNCHANGED <<platform, made, lockVars>>, resume' \subseteq resume,
           file' \in [Artifacts -> Content], \A f \in Artifacts : file'[f].v <= made,
           remaining' \subseteq {"engine"} \cup Artifacts,
           holder' \in {"none", "engine", "stranded"}, live' \in BOOLEAN,
           loaded' \in BOOLEAN, loaded' => loaded, at' \in {at, "none"}, at' # "none" => loaded',
           DOMAIN snap' = {},
           w \notin {"quiesce", "reclaim", "setup", "probe", "unit", "config", "removal",
                     "descriptor", "reset", "applying", "applied"} \/ c = "deactivate",
           c = "activate" /\ w # "idle" => pc[c] # "idle" /\ ("activate" \in resume' => HasConfig'),
           Stopped => Stopped', c = "deactivate" => Stopped', ~HasConfig' => Stopped',
           platform = "launchd" /\ "engine" \notin remaining' /\ at' # "none" =>
              "engine" \notin remaining /\ live' = live,
           c = "deactivate" /\ w = "config" =>
              file'["descriptor"] = Absent \/ "descriptor" \in remaining',
           "activate" \in resume' => ~file'["config"].applied,
           c = "activate" /\ w = "installed" => ~file'["config"].applied,
           PublishedIsBacked'
    PROVE  Inv'
<1>1. /\ c \in Cmds /\ pc'[c] = w
      /\ \A d \in Cmds : d # c => pc[d] = "idle" /\ pc'[d] = "idle"
      /\ pc' \in [Cmds -> Steps]
      /\ pc'["activate"] \in ActivateSteps /\ pc'["apply"] \in ApplySteps
      /\ pc'["deactivate"] \in DeactivateSteps /\ \A r \in Rebuilds : pc'[r] \in RebuildSteps
  BY CmdFacts, GotoFacts, Alone
<1>2. UNCHANGED <<lock, broken>> BY DEF lockVars
<1>3. Captured' = {}
  <2>1. pc'["activate"] \notin {"config", "removal", "descriptor", "reset"}
    BY <1>1, CmdFacts
  <2> QED BY <2>1 DEF Captured
<1>4. TypeOK'
  BY <1>1, <1>2 DEF Inv, TypeOK
<1>5. OneCommand' /\ LockHeld'
  BY <1>1, CmdFacts, OneCommandMoves, LockPlain
<1>6. InstallShape' /\ FilesShape'
  <2>1. pc'["activate"] # "idle" => made > 0
    BY <1>1, CmdFacts, Typed
  <2>2. InstallShape' BY <1>3, <2>1 DEF InstallShape
  <2>3. FilesShape' BY <1>1, CmdFacts DEF FilesShape
  <2> QED BY <2>2, <2>3
<1>7. EngineIsHeld' BY DEF EngineIsHeld
<1>8. RecordStays'
  <2>1. \A d \in Cmds : pc'[d] \notin {"applying", "applied", "quiesce"}
    BY <1>1 DEF StepsOf, DeactivateSteps
  <2>2. \A r \in Rebuilds : pc'[r] = "idle"
    BY <1>1, CmdFacts
  <2>3. pc'["activate"] # "idle" => c = "activate"
    BY <1>1, CmdFacts
  <2> QED BY <1>1, <1>3, <2>1, <2>2, <2>3, CmdFacts DEF RecordStays
<1>9. EngineIsDown'
  <2>1. \A d \in Cmds : pc'[d] # "reclaim"
    BY <1>1 DEF StepsOf, DeactivateSteps
  <2>2. pc'["activate"] \notin {"reclaim", "setup", "probe"} \cup Installing
    BY <1>1, CmdFacts DEF Installing
  <2>3. pc'["deactivate"] # "idle" => Stopped'
    BY <1>1, CmdFacts
  <2> QED BY <2>1, <2>2, <2>3 DEF EngineIsDown
<1>10. LedgerKnows'
  BY DEF Inv, LedgerKnows
<1>11. Owed'
  <2>0. \A r \in Rebuilds : pc[r] = "idle" BY <1>1, CmdFacts
  <2>1. Rebuilds \cap resume = {} BY <2>0 DEF Inv, Owed
  <2>2. \A d \in Cmds : pc'[d] # "applied"
    BY <1>1 DEF StepsOf, DeactivateSteps
  <2> QED BY <1>1, <2>1, <2>2, CmdFacts DEF Owed
<1> QED BY <1>4, <1>5, <1>6, <1>7, <1>8, <1>9, <1>10, <1>11 DEF Inv

LEMMA ResetStep ==
    ASSUME Inv, ResetLedger
    PROVE  Inv'
<1>1. /\ pc["activate"] = "reset" /\ Goto("activate", "installed") /\ live' \in {FALSE, live}
      /\ UNCHANGED <<platform, file, made, loaded, at, holder, resume, lockVars, remaining>>
      /\ snap' = <<>>
  BY DEF ResetLedger
<1>0. DOMAIN snap' = {} BY <1>1
<1>2. "installed" \in StepsOf("activate") BY DEF StepsOf, ActivateSteps
<1>3. /\ HasConfig' /\ ~file["config"].applied
  <2>1. file["config"] = [v |-> made, applied |-> FALSE]
    BY <1>1, CapturedFacts DEF Inv, InstallShape, Artifacts
  <2> QED BY <1>1, <2>1, WrittenFacts DEF HasConfig
<1>4. platform = "launchd" /\ "engine" \notin remaining => at = "none"
  BY <1>1 DEF Inv, EngineIsDown, Installing, Stopped, EngineIsHeld
<1>5. /\ file' \in [Artifacts -> Content] /\ \A f \in Artifacts : file'[f].v <= made
      /\ remaining' \subseteq {"engine"} \cup Artifacts /\ PublishedIsBacked'
      /\ Stopped' = Stopped
  BY <1>1 DEF Inv, TypeOK, FilesShape, PublishedIsBacked, Stopped
<1> QED BY <1>0, <1>1, <1>2, <1>3, <1>4, <1>5, Typed, Settles

LEMMA SaveAppliedStep ==
    ASSUME Inv, NEW c \in {"activate", "apply"}, SaveApplied(c)
    PROVE  Inv'
<1>1. /\ c \in Cmds /\ pc[c] = "applied" /\ HasConfig /\ c \notin Rebuilds /\ resume = {}
      /\ UNCHANGED <<platform, snap, made, loaded, at, holder, live, resume, lockVars, remaining>>
  BY CmdFacts DEF SaveApplied, Inv, RecordStays, Owed, procVars
<1>2. CASE Fail(c) /\ UNCHANGED file
  <2>1. PICK w \in {"idle", "failed"} : Goto(c, w) /\ (w = "idle" <=> c = "apply")
    BY <1>2 DEF Fail
  <2>2. w \in StepsOf(c)
    BY <2>1 DEF StepsOf, ActivateSteps, ApplySteps
  <2> QED BY <1>1, <1>2, <2>1, <2>2, Typed, CmdFacts, MovesOn
<1>3. CASE file' = [file EXCEPT !["config"].applied = TRUE] /\ Goto(c, "idle")
  <2>1. "idle" \in StepsOf(c) BY DEF StepsOf, ActivateSteps, ApplySteps
  <2>2. /\ file' \in [Artifacts -> Content]
        /\ \A f \in Artifacts : file'[f].v = file[f].v
        /\ \A f \in Artifacts : f # "config" => file'[f] = file[f]
        /\ file'["config"].applied
    BY <1>3 DEF Inv, TypeOK, Content, Artifacts
  <2>3. HasConfig' BY <2>2, AbsentFacts DEF HasConfig
  <2>4. \A f \in Artifacts : file'[f].v <= made
    BY <2>2 DEF Inv, FilesShape
  <2>5. PublishedIsBacked'
    BY <1>1, <2>2 DEF Inv, PublishedIsBacked, Artifacts
  <2>6. DOMAIN snap' = {}
    <3>1. pc["activate"] \notin {"config", "removal", "descriptor", "reset"}
      BY <1>1, Alone, CmdFacts
    <3> QED BY <1>1, <3>1, CapturedFacts DEF Inv, InstallShape
  <2>7. remaining' \subseteq {"engine"} \cup Artifacts /\ Stopped' = Stopped
    BY <1>1 DEF Inv, TypeOK, Stopped
  <2>8. /\ c # "deactivate" /\ "idle" \notin {"quiesce", "reclaim", "setup", "probe", "unit",
             "config", "removal", "descriptor", "reset", "applying", "applied"}
        /\ "activate" \notin resume' /\ resume' \subseteq resume
    BY <1>1
  <2> QED BY <1>1, <1>3, <2>1, <2>2, <2>3, <2>4, <2>5, <2>6, <2>7, <2>8, Typed, Settles
<1> QED BY <1>2, <1>3 DEF SaveApplied

LEMMA DeactivateStopStep ==
    ASSUME Inv, DeactivateStop
    PROVE  Inv'
<1>1. /\ pc["deactivate"] = "idle" /\ Free("deactivate") /\ Goto("deactivate", "unit")
      /\ UNCHANGED <<platform, file, snap, made, resume, lockVars>>
  BY DEF DeactivateStop, Begin, diskVars
<1>2. "unit" \in StepsOf("deactivate") BY DEF StepsOf, DeactivateSteps
<1>3. /\ holder' \in {"none", "engine", "stranded"} /\ live' \in BOOLEAN
      /\ loaded' \in BOOLEAN /\ (loaded' => loaded)
      /\ at' \in {at, "none"} /\ (at' # "none" => loaded')
      /\ remaining' \in {remaining \cup {"engine"}, remaining \ {"engine"}}
      /\ Stopped'
      /\ platform = "launchd" /\ "engine" \notin remaining' => at' = "none"
  <2>1. CASE loaded' = FALSE /\ Down /\ Report("engine", FALSE)
    BY <2>1, Typed DEF Down, Strand, Report, Stopped
  <2>2. CASE UNCHANGED <<loaded, procVars>> /\ Report("engine", loaded)
    <3>1. UNCHANGED <<loaded, at, holder, live>> BY <2>2 DEF procVars
    <3>2. CASE loaded BY <2>2, <3>1, <3>2, Typed DEF Report, Stopped
    <3>3. CASE ~loaded BY <2>2, <3>1, <3>3, Typed DEF Report, Stopped
    <3> QED BY <3>2, <3>3
  <2> QED BY <2>1, <2>2 DEF DeactivateStop
<1>4. /\ file' \in [Artifacts -> Content] /\ \A f \in Artifacts : file'[f].v <= made
      /\ remaining' \subseteq {"engine"} \cup Artifacts
  BY <1>1, <1>3 DEF Inv, TypeOK, FilesShape
<1>5. PublishedIsBacked'
  BY <1>1, <1>3 DEF Inv, PublishedIsBacked
<1>6. pc["activate"] = "idle" BY <1>1, Alone, CmdFacts
<1>7. DOMAIN snap' = {}
  BY <1>1, <1>6, CapturedFacts DEF Inv, InstallShape
<1>8. "activate" \in resume' => ~file'["config"].applied
  BY <1>1, <1>6 DEF Inv, Owed
<1> QED BY <1>1, <1>2, <1>3, <1>4, <1>5, <1>7, <1>8, Settles

LEMMA DeleteStep ==
    ASSUME Inv, NEW f \in {"unit", "descriptor", "config"}, pc["deactivate"] = f, Delete(f),
           NEW w \in {"idle", "data", "config"}, Goto("deactivate", w),
           w = "config" => f = "descriptor",
           UNCHANGED <<platform, snap, made, loaded, procVars, resume, lockVars>>
    PROVE  Inv'
<1>1. w \in StepsOf("deactivate") BY DEF StepsOf, DeactivateSteps
<1>2. UNCHANGED <<at, holder, live>> BY DEF procVars
<1>3. f \in Artifacts /\ f # "engine" BY DEF Artifacts
<1>4. /\ file' \in [Artifacts -> Content] /\ \A g \in Artifacts : file'[g] \in {file[g], Absent}
      /\ \A g \in Artifacts : g # f => file'[g] = file[g]
      /\ remaining' \subseteq {"engine"} \cup Artifacts
      /\ "engine" \in remaining' <=> "engine" \in remaining
      /\ f # "descriptor" => ("descriptor" \in remaining' <=> "descriptor" \in remaining)
      /\ f = "descriptor" => file'["descriptor"] = Absent \/ "descriptor" \in remaining'
  BY <1>3, AbsentFacts DEF Delete, Report, Inv, TypeOK, Artifacts
<1>5. Stopped /\ Stopped'
  BY <1>4 DEF Inv, EngineIsDown, Stopped
<1>6. pc["activate"] = "idle" BY Alone, CmdFacts
<1>7. DOMAIN snap' = {}
  BY <1>6, CapturedFacts DEF Inv, InstallShape
<1>8. "activate" \in resume' => ~file'["config"].applied
  BY <1>4, <1>6, AbsentFacts DEF Inv, Owed, Artifacts
<1>9. \A g \in Artifacts : file'[g].v <= made
  BY <1>4, AbsentFacts, Typed DEF Inv, FilesShape
<1>10. PublishedIsBacked'
  <2>1. CASE f = "descriptor"
    BY <1>4, <2>1 DEF PublishedIsBacked
  <2>2. CASE f = "config"
    BY <1>4, <2>2 DEF PublishedIsBacked, Inv, FilesShape, Artifacts
  <2>3. CASE f = "unit"
    BY <1>4, <2>3 DEF PublishedIsBacked, Inv, Artifacts
  <2> QED BY <2>1, <2>2, <2>3
<1> QED BY <1>1, <1>2, <1>4, <1>5, <1>7, <1>8, <1>9, <1>10, Typed, Settles

LEMMA DeactivateStep == Inv /\ Deactivate => Inv'
<1> SUFFICES ASSUME Inv, Deactivate PROVE Inv'
  OBVIOUS
<1>1. CASE DeactivateStop BY <1>1, DeactivateStopStep
<1>2. CASE DeactivateUnit
  <2>1. PICK w \in {"idle", "data"} : Goto("deactivate", w)
    BY <1>2 DEF DeactivateUnit, Goto
  <2> QED BY <1>2, <2>1, DeleteStep DEF DeactivateUnit
<1>3. CASE DeactivateData BY <1>3, DeactivateDataStep
<1>4. CASE DeactivateState("descriptor")
  <2>1. Goto("deactivate", "config") BY <1>4 DEF DeactivateState
  <2> QED BY <1>4, <2>1, DeleteStep DEF DeactivateState
<1>5. CASE DeactivateState("config")
  <2>1. Goto("deactivate", "idle") BY <1>5 DEF DeactivateState
  <2> QED BY <1>5, <2>1, DeleteStep DEF DeactivateState
<1> QED BY <1>1, <1>2, <1>3, <1>4, <1>5 DEF Deactivate

\* A command is killed at any step: what it captured is forgotten, what it wrote
\* and the lock file stay.
LEMMA InterruptStep ==
    ASSUME Inv, NEW c \in Cmds, Interrupt(c)
    PROVE  Inv'
<1>1. /\ pc[c] # "idle" /\ Goto(c, "idle") /\ resume' = resume \ {c}
      /\ snap' = IF c = "activate" THEN <<>> ELSE snap
      /\ UNCHANGED <<platform, file, made, loaded, at, holder, live, lock, broken, lockVars, remaining>>
  BY DEF Interrupt, procVars, lockVars
<1>2. "idle" \in StepsOf(c)
  BY DEF StepsOf, ActivateSteps, ApplySteps, DeactivateSteps, RebuildSteps
<1>3. CASE c # "activate"
  <2>1. snap' = snap BY <1>1, <1>3
  <2>2. LockHeld' BY <1>1, <1>2, LockPlain DEF Past
  <2> QED BY <1>1, <1>2, <1>3, <2>1, <2>2, Typed, Moves
<1>4. CASE c = "activate"
  <2>1. snap' = <<>> BY <1>1, <1>4
  <2>2. DOMAIN snap' = {} BY <2>1
  <2>3. /\ file' \in [Artifacts -> Content] /\ \A f \in Artifacts : file'[f].v <= made
        /\ remaining' \subseteq {"engine"} \cup Artifacts
        /\ PublishedIsBacked' /\ (Stopped' <=> Stopped) /\ (HasConfig' <=> HasConfig)
    BY <1>1 DEF Inv, TypeOK, FilesShape, PublishedIsBacked, Stopped, HasConfig
  <2>4. ~HasConfig' => Stopped' BY <2>3 DEF Inv, EngineIsHeld
  <2>5. "activate" \notin resume' /\ resume' \subseteq resume BY <1>1, <1>4
  <2> QED BY <1>1, <1>2, <1>4, <2>2, <2>3, <2>4, <2>5, Typed, Settles
<1> QED BY <1>3, <1>4

\* A step of the supervised process or of a session, or the passing of time: the
\* commands and the files stay, an engine runs only under the supervisor, and
\* past its start it is in the ledger.
LEMMA EngineKeeps ==
    ASSUME Inv, UNCHANGED <<platform, file, snap, made, loaded, pc, resume, broken, remaining>>,
           at' \in {"none", "born", "started", "ready", "indexing"},
           holder' \in {"none", "engine", "stranded"}, live' \in BOOLEAN,
           at' # "none" => loaded,
           at' \in {"started", "ready", "indexing"} =>
              live' \/ (live' = live /\ at \in {"started", "ready", "indexing"}),
           lock' = lock \/ (lock' = "old" /\ \A r \in Rebuilds : ~HoldsLock(r))
    PROVE  Inv'
<1>1. Captured' = Captured BY DEF Captured
<1>2. TypeOK' BY DEF Inv, TypeOK
<1>3. OneCommand' BY DEF Inv, OneCommand
<1>4. LockHeld' BY DEF Inv, LockHeld, HoldsLock
<1>5. Stopped' = Stopped BY DEF Stopped
<1>6. InstallShape' BY <1>1, <1>5 DEF Inv, InstallShape
<1>7. FilesShape' /\ PublishedIsBacked' BY DEF Inv, FilesShape, PublishedIsBacked
<1>8. EngineIsHeld' BY <1>5 DEF Inv, EngineIsHeld, HasConfig
<1>9. RecordStays' BY <1>1 DEF Inv, RecordStays, HasConfig
<1>10. EngineIsDown' BY <1>5 DEF Inv, EngineIsDown
<1>11. LedgerKnows' BY DEF Inv, LedgerKnows
<1>12. Owed' BY DEF Inv, Owed
<1> QED BY <1>2, <1>3, <1>4, <1>6, <1>7, <1>8, <1>9, <1>10, <1>11, <1>12 DEF Inv

LEMMA RunDaemonStep == Inv /\ (RunDaemon \/ SessionStrands \/ LockAges) => Inv'
<1> SUFFICES ASSUME Inv, RunDaemon \/ SessionStrands \/ LockAges PROVE Inv'
  OBVIOUS
<1>1. UNCHANGED <<platform, file, snap, made, loaded, pc, resume, broken, remaining>>
  BY DEF RunDaemon, SessionStrands, LockAges, Spawn, RecordStart, RunRefused, RunReclaim,
         RunReclaimFails, RunIndex, RecordExit, KillProcess, AsideVars, diskVars, lockVars
<1>2. /\ at \in {"none", "born", "started", "ready", "indexing"}
      /\ holder \in {"none", "engine", "stranded"} /\ live \in BOOLEAN
      /\ at # "none" => loaded
  BY Typed
<1> USE <1>1, <1>2
<1>3. CASE Spawn BY <1>3, EngineKeeps DEF Spawn, AsideVars, lockVars
<1>4. CASE RecordStart BY <1>4, EngineKeeps DEF RecordStart, AsideVars, lockVars
<1>5. CASE RunRefused BY <1>5, EngineKeeps DEF RunRefused, AsideVars, lockVars
<1>6. CASE RunReclaim BY <1>6, EngineKeeps DEF RunReclaim, AsideVars, lockVars
<1>7. CASE RunReclaimFails BY <1>7, EngineKeeps DEF RunReclaimFails, AsideVars, lockVars
<1>8. CASE RunIndex BY <1>8, EngineKeeps DEF RunIndex, AsideVars, lockVars
<1>9. CASE RecordExit BY <1>9, EngineKeeps DEF RecordExit, AsideVars, lockVars
<1>10. CASE KillProcess
  BY <1>10, EngineKeeps DEF KillProcess, Down, Strand, AsideVars, lockVars
<1>11. CASE SessionStrands
  BY <1>11, EngineKeeps DEF SessionStrands, lockVars
<1>12. CASE LockAges
  <2>1. UNCHANGED <<at, holder, live>> BY <1>12 DEF LockAges, procVars
  <2> QED BY <1>12, <2>1, EngineKeeps DEF LockAges
<1> QED BY <1>3, <1>4, <1>5, <1>6, <1>7, <1>8, <1>9, <1>10, <1>11, <1>12 DEF RunDaemon

LEMMA StepInv == Inv /\ [Next]_vars => Inv'
<1> SUFFICES ASSUME Inv, [Next]_vars PROVE Inv'
  OBVIOUS
<1>1. CASE Activate
  BY <1>1, ActivateBeginStep, SetupStep, ProbeStep, InstallStep, ResetStep, ActivateEndsStep
     DEF Activate, Install
<1>2. CASE \E c \in {"activate", "apply"} : Apply(c)
  BY <1>2, ApplyBeginStep, LoadUnitStep, SaveAppliedStep DEF Apply
<1>3. CASE \E c \in {"activate"} \cup Rebuilds : Quiesce(c)
  BY <1>3, QuiesceStep, ReclaimStep, ResumeStep DEF Quiesce
<1>4. CASE \E r \in Rebuilds : Rebuild(r)
  BY <1>4, RebuildBeginStep, LockStep, DiscardStep, SetupStep DEF Rebuild
<1>5. CASE Deactivate BY <1>5, DeactivateStep
<1>6. CASE \E c \in Cmds : Interrupt(c) BY <1>6, InterruptStep
<1>7. CASE RunDaemon \/ SessionStrands \/ LockAges BY <1>7, RunDaemonStep
<1>8. CASE UNCHANGED vars
  <2>1. UNCHANGED <<platform, file, snap, made, loaded, pc, resume, broken, remaining, at,
                    holder, live, lock>>
    BY <1>8 DEF vars, diskVars, procVars, lockVars
  <2> QED BY <2>1, Typed, EngineKeeps
<1> QED BY <1>1, <1>2, <1>3, <1>4, <1>5, <1>6, <1>7, <1>8 DEF Next

-----------------------------------------------------------------------------
(***************************************************************************)
(* Theorems.                                                                *)
(***************************************************************************)

\* The inductive invariant holds whatever the commands, their interruptions and
\* the supervised engine do to each other.
THEOREM Invariance == Spec => []Inv
<1> QED BY InitInv, StepInv, PTL DEF Spec

\* A published descriptor has a record and a removal plan at least as new, through
\* installs, rollbacks that restore only some files, deactivations and kills, or
\* a deactivation reported that it stays (engine.go:467-475).
THEOREM PublishedAlwaysBacked == Spec => []PublishedIsBacked
<1>1. Inv => PublishedIsBacked
  BY DEF Inv
<1> QED BY Invariance, <1>1, PTL

\* No command gets to the reclaim of the resident runtime while an engine indexes,
\* the reported exceptions aside (resident.go:84-89).
THEOREM ReclaimContractHolds == Spec => []ReclaimContract
<1>1. Inv => ReclaimContract
  BY DEF Inv, EngineIsDown, EngineIsHeld, Stopped, ReclaimContract
<1> QED BY Invariance, <1>1, PTL

\* Any number of rebuilds exclude each other until an abandoned lock is removed
\* (engine.go:812, 896).
THEOREM RebuildsAlwaysExclude == Spec => []RebuildsExclude
<1>1. Inv => RebuildsExclude
  BY DEF Inv, LockHeld, RebuildsExclude
<1> QED BY Invariance, <1>1, PTL

\* A machine whose commands have all ended is not left with an applied record and
\* an engine one of them stopped (gno.go:305-306, engine.go:852-853).
THEOREM AppliedNeverLeftStopped == Spec => []AppliedIsNotLeftStopped
<1>1. Inv => AppliedIsNotLeftStopped
  <2>1. SUFFICES ASSUME Inv, resume # {}, \A c \in Cmds : pc[c] = "idle"
                 PROVE  ~file["config"].applied
    BY DEF AppliedIsNotLeftStopped
  <2>2. Rebuilds \cap resume = {}
    BY <2>1, CmdFacts DEF Inv, Owed
  <2>3. "activate" \in resume
    BY <2>1, <2>2 DEF Inv, TypeOK
  <2> QED BY <2>1, <2>3, CmdFacts DEF Inv, Owed
<1> QED BY Invariance, <1>1, PTL

\* Only a rebuild moves itself, or the kill that ends it.
LEMMA MovesItself ==
    ASSUME Inv, Next, NEW r \in Rebuilds, pc'[r] # pc[r]
    PROVE  Rebuild(r) \/ Quiesce(r) \/ Interrupt(r)
<1>0. /\ r \in Cmds /\ r \notin {"activate", "apply", "deactivate"} /\ pc \in [Cmds -> Steps]
  BY CmdFacts DEF Inv, TypeOK
<1>1. ASSUME NEW c \in Cmds, NEW w, Goto(c, w) PROVE c = r
  <2>1. \A d \in Cmds : d # c => pc'[d] = pc[d]
    BY <1>0, <1>1 DEF Goto
  <2> QED BY <1>0, <2>1
<1>2. ~Activate
  <2>1. ~\E w : Goto("activate", w) BY <1>0, <1>1, CmdFacts
  <2> QED BY <2>1 DEF Activate, Install, ActivateBegin, Setup, ProbeEndpoint, InstallArtifact,
               ResetLedger, ActivateEnds, Fail
<1>3. ~\E c \in {"activate", "apply"} : Apply(c)
  <2>1. ASSUME NEW c \in {"activate", "apply"}, Apply(c) PROVE FALSE
    <3>1. ~\E w : Goto(c, w) BY <1>0, <1>1, CmdFacts
    <3> QED BY <2>1, <3>1 DEF Apply, ApplyBegin, LoadUnit, SaveApplied, Fail
  <2> QED BY <2>1
<1>4. ~Deactivate
  <2>1. ~\E w : Goto("deactivate", w) BY <1>0, <1>1, CmdFacts
  <2> QED BY <2>1 DEF Deactivate, DeactivateStop, DeactivateUnit, DeactivateData,
               DeactivateState, Goto
<1>5. ASSUME NEW c \in Cmds, Interrupt(c) PROVE Interrupt(r)
  BY <1>1, <1>5 DEF Interrupt
<1>6. ~(LockAges \/ SessionStrands \/ RunDaemon)
  BY DEF LockAges, SessionStrands, RunDaemon, Spawn, RecordStart, RunRefused, RunReclaim,
     RunReclaimFails, RunIndex, RecordExit, KillProcess, AsideVars
<1>7. ASSUME NEW c \in {"activate"} \cup Rebuilds, Quiesce(c) PROVE Quiesce(r)
  <2>1. c \in Cmds BY CmdFacts
  <2>2. \E w : Goto(c, w)
    BY <1>7 DEF Quiesce, SupervisorQuiesce, ReclaimResidentRuntime, Resume, Fail
  <2> QED BY <1>1, <1>7, <2>1, <2>2
<1>8. ASSUME NEW c \in Rebuilds, Rebuild(c) PROVE Rebuild(r)
  <2>1. c \in Cmds BY CmdFacts
  <2>2. \E w : Goto(c, w)
    BY <1>8 DEF Rebuild, RebuildBegin, TakeLock, RemoveStaleLock, RetakeLock, LookForEngine,
                Discard, Setup, Unlock, Locked, Fail
  <2> QED BY <1>1, <1>8, <2>1, <2>2
<1> QED BY <1>2, <1>3, <1>4, <1>5, <1>6, <1>7, <1>8 DEF Next

\* Only the probe and the supervisor's answer let a rebuild start on the index.
LEMMA PastTheLook ==
    ASSUME Inv, Next, NEW r \in Rebuilds, ~Replacing(r), Replacing(r)'
    PROVE  /\ LookForEngine(r) \/ SupervisorQuiesce(r)
           /\ pc[r] \in {"look", "quiesce"} /\ pc'[r] \in {"reclaim", "discard"}
<1>0. /\ r \in Cmds /\ r \notin {"activate", "apply", "deactivate"} /\ pc \in [Cmds -> Steps]
      /\ Rebuild(r) \/ Quiesce(r) \/ Interrupt(r)
  BY CmdFacts, MovesItself DEF Inv, TypeOK, Replacing
<1>1. \A w : Goto(r, w) => pc'[r] = w
  BY <1>0 DEF Goto
<1>2. Fail(r) => pc'[r] = "failed"
  BY <1>0, <1>1 DEF Fail
<1>3. ~(RebuildBegin(r) \/ RemoveStaleLock(r) \/ Unlock(r) \/ Resume(r) \/ Interrupt(r))
  BY <1>0, <1>1 DEF RebuildBegin, RemoveStaleLock, Unlock, Resume, Interrupt, Replacing
<1>4. ~(TakeLock(r) \/ RetakeLock(r))
  BY <1>1 DEF TakeLock, RetakeLock, Locked, Replacing
<1>5. ~(ReclaimResidentRuntime(r) \/ Discard(r) \/ Setup(r))
  BY DEF ReclaimResidentRuntime, Discard, Setup, Replacing
<1>6. LookForEngine(r) \/ SupervisorQuiesce(r)
  BY <1>0, <1>3, <1>4, <1>5 DEF Rebuild, Quiesce
<1> QED BY <1>0, <1>1, <1>2, <1>6 DEF LookForEngine, SupervisorQuiesce, Replacing

\* No engine indexes when it does.
LEMMA StepNeverRaces ==
    ASSUME Inv, Next, NEW r \in Rebuilds, platform = "launchd", "engine" \notin remaining,
           ~Replacing(r), Replacing(r)'
    PROVE  at' # "indexing"
<1>0. r \in Cmds /\ r # "apply" /\ pc \in [Cmds -> Steps] /\ pc'[r] \in {"reclaim", "discard"}
  BY CmdFacts, PastTheLook DEF Inv, TypeOK
<1>1. CASE LookForEngine(r)
  <2>2. ~Fail(r) BY <1>0 DEF Fail, Goto
  <2>3. ~live /\ at' = at BY <1>1, <2>2 DEF LookForEngine, procVars
  <2> QED BY <2>3 DEF Inv, LedgerKnows
<1>2. CASE SupervisorQuiesce(r)
  <2>2. ~Fail(r) BY <1>0 DEF Fail, Goto
  <2>3. CASE ~IsLoaded /\ UNCHANGED <<loaded, procVars, resume>>
    BY <2>3, Typed DEF IsLoaded, procVars
  <2>4. CASE Down BY <2>4 DEF Down
  <2> QED BY <1>2, <2>2, <2>3, <2>4 DEF SupervisorQuiesce
<1> QED BY <1>1, <1>2, PastTheLook

\* Where the record says applied, a rebuild that has its answer works on a stopped
\* engine, and only where it does not say so did the rebuild ask the ledger.
Quiet ==
    \A r \in Rebuilds :
        /\ pc[r] = "look" => ~file["config"].applied
        /\ platform = "launchd" /\ file["config"].applied /\ Replacing(r) => Stopped \/ broken

\* While a rebuild is under way the operator runs nothing but rebuilds.
LEMMA OnlyRebuilds ==
    ASSUME Inv, NEW r \in Rebuilds, pc[r] # "idle"
    PROVE  /\ ~Activate /\ ~Deactivate /\ ~Quiesce("activate")
           /\ \A c \in {"activate", "apply"} : ~Apply(c)
<1>1. \A c \in {"activate", "apply", "deactivate"} : pc[c] = "idle" /\ ~Free(c)
  BY CmdFacts DEF Inv, OneCommand, Free
<1>2. ~Activate
  BY <1>1 DEF Activate, ActivateBegin, Begin, Setup, ProbeEndpoint, Install, InstallArtifact,
     Artifacts, ResetLedger, ActivateEnds
<1>3. ~Deactivate
  BY <1>1 DEF Deactivate, DeactivateStop, Begin, DeactivateUnit, DeactivateData, DeactivateState
<1>4. ~Quiesce("activate")
  BY <1>1 DEF Quiesce, SupervisorQuiesce, ReclaimResidentRuntime, Resume
<1>5. \A c \in {"activate", "apply"} : ~Apply(c)
  BY <1>1 DEF Apply, ApplyBegin, Begin, LoadUnit, SaveApplied
<1> QED BY <1>2, <1>3, <1>4, <1>5

\* A rebuild's own step: it leaves the record alone, and only a resume, its last
\* step under the lock, has the engine started.
LEMMA RebuildMoves ==
    ASSUME Inv, NEW s \in Rebuilds, Rebuild(s) \/ Quiesce(s)
    PROVE  /\ UNCHANGED <<platform, file, remaining>> /\ (broken => broken')
           /\ \A d \in Cmds : d # s => pc'[d] = pc[d]
           /\ (loaded' => loaded) \/ (Resume(s) /\ HoldsLock(s))
<1>0. s \in Cmds /\ pc \in [Cmds -> Steps] /\ loaded \in BOOLEAN
  BY CmdFacts DEF Inv, TypeOK
<1>1. \E w : Goto(s, w)
  BY DEF Rebuild, Quiesce, RebuildBegin, TakeLock, RemoveStaleLock, RetakeLock, LookForEngine,
     Discard, Setup, Unlock, Locked, Fail, SupervisorQuiesce, ReclaimResidentRuntime, Resume
<1>2. \A d \in Cmds : d # s => pc'[d] = pc[d]
  BY <1>0, <1>1 DEF Goto
<1>3. CASE Rebuild(s)
  <2>1. UNCHANGED <<platform, file, remaining, loaded>> /\ (broken => broken')
    BY <1>3 DEF Rebuild, RebuildBegin, TakeLock, RemoveStaleLock, RetakeLock, LookForEngine,
       Discard, Setup, Unlock, diskVars, lockVars
  <2> QED BY <1>2, <2>1
<1>4. CASE SupervisorQuiesce(s)
  BY <1>2, <1>4 DEF SupervisorQuiesce, diskVars, lockVars
<1>5. CASE ReclaimResidentRuntime(s)
  BY <1>2, <1>5 DEF ReclaimResidentRuntime, diskVars, lockVars
<1>6. CASE Resume(s)
  BY <1>2, <1>6 DEF Resume, diskVars, lockVars, HoldsLock
<1> QED BY <1>3, <1>4, <1>5, <1>6 DEF Quiesce

\* A rebuild comes to its answer with the engine down.
LEMMA OwnMove ==
    ASSUME Inv, Quiet, NEW r \in Rebuilds, Rebuild(r) \/ Quiesce(r)
    PROVE  /\ pc'[r] = "look" => ~file["config"].applied
           /\ platform = "launchd" /\ file["config"].applied /\ Replacing(r)' => Stopped' \/ broken'
<1>0. /\ r \in Cmds /\ r \notin {"activate", "apply", "deactivate"} /\ pc \in [Cmds -> Steps]
      /\ UNCHANGED <<platform, file, remaining>> /\ (broken => broken')
  BY CmdFacts, RebuildMoves DEF Inv, TypeOK
<1>1. \A w : Goto(r, w) => pc'[r] = w
  BY <1>0 DEF Goto
<1>2. Fail(r) => pc'[r] = "failed"
  BY <1>0, <1>1 DEF Fail
<1>3. CASE RebuildBegin(r) \/ RemoveStaleLock(r) \/ Unlock(r) \/ Resume(r)
  BY <1>0, <1>1, <1>3 DEF RebuildBegin, RemoveStaleLock, Unlock, Resume, Replacing
<1>4. CASE TakeLock(r) \/ RetakeLock(r)
  <2>1. pc'[r] \in {"quiesce", "look", "idle", "stale"} /\ (pc'[r] = "look" => ~file["config"].applied)
    BY <1>1, <1>4 DEF TakeLock, RetakeLock, Locked
  <2> QED BY <2>1 DEF Replacing
<1>5. CASE LookForEngine(r)
  <2>1. pc[r] = "look" /\ pc'[r] \in {"discard", "failed"}
    BY <1>1, <1>2, <1>5 DEF LookForEngine
  <2> QED BY <2>1 DEF Quiet, Replacing
<1>6. CASE SupervisorQuiesce(r)
  <2>1. pc'[r] \in {"discard", "reclaim", "failed"}
    BY <1>0, <1>1, <1>2, <1>6 DEF SupervisorQuiesce
  <2>2. pc'[r] # "failed" /\ platform = "launchd" => ~loaded'
    BY <1>0, <1>1, <1>2, <1>6, Typed DEF SupervisorQuiesce, IsLoaded
  <2> QED BY <2>1, <2>2 DEF Stopped, Replacing
<1>7. CASE ReclaimResidentRuntime(r) \/ Discard(r) \/ Setup(r)
  <2>1. Replacing(r)' => Replacing(r) /\ loaded' = loaded
    BY <1>0, <1>1, <1>2, <1>7 DEF ReclaimResidentRuntime, Discard, Setup, Replacing
  <2>2. pc'[r] # "look"
    BY <1>0, <1>1, <1>2, <1>7 DEF ReclaimResidentRuntime, Discard, Setup
  <2> QED BY <1>0, <2>1, <2>2 DEF Quiet, Stopped
<1> QED BY <1>3, <1>4, <1>5, <1>6, <1>7 DEF Rebuild, Quiesce

\* And it stays down, whatever the other commands do.
LEMMA QuietStep == Inv /\ Quiet /\ [Next]_vars => Quiet'
<1> SUFFICES ASSUME Inv, Quiet, [Next]_vars, NEW r \in Rebuilds
             PROVE  /\ pc'[r] = "look" => ~file'["config"].applied
                    /\ platform' = "launchd" /\ file'["config"].applied /\ Replacing(r)' =>
                         Stopped' \/ broken'
  BY DEF Quiet
<1>0. /\ r \in Cmds /\ r \notin {"activate", "apply", "deactivate"} /\ pc \in [Cmds -> Steps]
      /\ loaded \in BOOLEAN
  BY CmdFacts DEF Inv, TypeOK
<1>1. CASE UNCHANGED <<platform, file, loaded, remaining, broken>> /\ pc'[r] = pc[r]
  BY <1>1 DEF Quiet, Replacing, Stopped
<1>2. ASSUME NEW s \in Rebuilds, Rebuild(s) \/ Quiesce(s)
      PROVE  /\ pc'[r] = "look" => ~file'["config"].applied
             /\ platform' = "launchd" /\ file'["config"].applied /\ Replacing(r)' =>
                  Stopped' \/ broken'
  <2>1. /\ UNCHANGED <<platform, file, remaining>> /\ (broken => broken')
        /\ r # s => pc'[r] = pc[r]
        /\ (loaded' => loaded) \/ (Resume(s) /\ HoldsLock(s))
    BY <1>0, <1>2, RebuildMoves
  <2>2. CASE s = r BY <1>2, <2>1, <2>2, OwnMove
  <2>3. CASE s # r
    <3>1. Replacing(r)' => Replacing(r) /\ HoldsLock(r)
      BY <2>1, <2>3 DEF Replacing, HoldsLock
    <3>2. HoldsLock(r) /\ HoldsLock(s) => broken
      BY <2>3 DEF Inv, LockHeld
    <3> QED BY <2>1, <2>3, <3>1, <3>2 DEF Quiet, Stopped
  <2> QED BY <2>2, <2>3
<1>3. ASSUME NEW c \in Cmds, Interrupt(c)
      PROVE  /\ pc'[r] = "look" => ~file'["config"].applied
             /\ platform' = "launchd" /\ file'["config"].applied /\ Replacing(r)' =>
                  Stopped' \/ broken'
  <2>1. pc'[r] \in {pc[r], "idle"}
    BY <1>0, <1>3 DEF Interrupt, Goto
  <2>2. UNCHANGED <<platform, file, loaded, remaining, broken>>
    BY <1>3 DEF Interrupt, lockVars
  <2> QED BY <2>1, <2>2 DEF Quiet, Replacing, Stopped
<1>4. CASE LockAges \/ SessionStrands \/ RunDaemon \/ UNCHANGED vars
  <2>1. UNCHANGED <<platform, file, loaded, remaining, broken, pc>>
    BY <1>4 DEF LockAges, SessionStrands, RunDaemon, Spawn, RecordStart, RunRefused, RunReclaim,
       RunReclaimFails, RunIndex, RecordExit, KillProcess, AsideVars, vars, diskVars, lockVars
  <2> QED BY <1>1, <2>1
<1>5. CASE pc[r] # "idle"
  BY <1>2, <1>3, <1>4, <1>5, OnlyRebuilds DEF Next
<1>6. CASE pc[r] = "idle"
  <2>1. CASE \E s \in Rebuilds : Rebuild(s) \/ Quiesce(s)
    BY <1>2, <2>1
  <2>2. CASE Activate \/ Deactivate \/ Quiesce("activate") \/ \E c \in {"activate", "apply"} : Apply(c)
    <3>1. PICK c \in {"activate", "apply", "deactivate"} : \E w : Goto(c, w)
      BY <2>2 DEF Activate, Install, ActivateBegin, Setup, ProbeEndpoint, InstallArtifact,
         ResetLedger, ActivateEnds, Deactivate, DeactivateStop, DeactivateUnit, DeactivateData,
         DeactivateState, Quiesce, SupervisorQuiesce, ReclaimResidentRuntime, Resume,
         Apply, ApplyBegin, LoadUnit, SaveApplied, Fail, Goto
    <3>2. pc'[r] = "idle"
      BY <1>0, <1>6, <3>1 DEF Goto
    <3> QED BY <3>2 DEF Replacing
  <2> QED BY <1>3, <1>4, <2>1, <2>2 DEF Next
<1> QED BY <1>5, <1>6

\* A unit that is not loaded stays so until the rebuild that stopped it is through.
LEMMA StaysDown ==
    ASSUME Inv, Inv', Quiet, Next, NEW r \in Rebuilds, platform = "launchd", "engine" \notin remaining,
           Replacing(r), Replacing(r)', ~broken, file["config"].applied
    PROVE  at' = "none"
<1>0. /\ ~loaded /\ pc[r] # "idle" /\ HoldsLock(r) /\ r \in Cmds /\ pc \in [Cmds -> Steps]
  BY CmdFacts DEF Inv, TypeOK, Quiet, Stopped, Replacing, HoldsLock
<1>1. ASSUME NEW s \in Rebuilds, Rebuild(s) \/ Quiesce(s) PROVE ~loaded'
  <2>1. ~(Resume(s) /\ HoldsLock(s))
    <3>1. CASE s = r
      <4>1. Resume(s) => pc'[r] = "unlock" BY <1>0, <3>1, CmdFacts DEF Resume, Goto
      <4> QED BY <4>1 DEF Replacing
    <3>2. CASE s # r BY <1>0, <3>2 DEF Inv, LockHeld
    <3> QED BY <3>1, <3>2
  <2> QED BY <1>0, <1>1, <2>1, RebuildMoves
<1>2. ASSUME NEW c \in Cmds, Interrupt(c) PROVE ~loaded'
  BY <1>0, <1>2 DEF Interrupt
<1>3. ASSUME LockAges \/ SessionStrands \/ RunDaemon PROVE ~loaded'
  <2>1. loaded' = loaded
    BY <1>3 DEF LockAges, SessionStrands, RunDaemon, Spawn, RecordStart, RunRefused, RunReclaim,
       RunReclaimFails, RunIndex, RecordExit, KillProcess, AsideVars
  <2> QED BY <1>0, <2>1
<1>4. ~Activate /\ ~Deactivate /\ ~Quiesce("activate") /\ \A c \in {"activate", "apply"} : ~Apply(c)
  BY <1>0, OnlyRebuilds
<1>5. \/ \E s \in Rebuilds : Rebuild(s) \/ Quiesce(s)
      \/ \E c \in Cmds : Interrupt(c)
      \/ LockAges \/ SessionStrands \/ RunDaemon
  BY <1>4 DEF Next
<1>6. ~loaded'
  BY <1>1, <1>2, <1>3, <1>5
<1> QED BY <1>6 DEF Inv, EngineIsHeld

\* On launchd a rebuild never has an engine indexing while it replaces the index:
\* none is when it gets its answer, from the ledger, which knows every engine past
\* its start, or from the supervisor; and none comes up before the resume, because
\* the unit stays unloaded - the exceptions the property names aside, of which the
\* last, a loaded unit the record does not say is applied, is the code's own
\* (engine.go:839-847).  Other commands beside a rebuild are outside the model.
THEOREM RebuildsNeverRace == Spec => RebuildNeverRacesEngine
<1> DEFINE Race == \A r \in Rebuilds :
          platform = "launchd" /\ "engine" \notin remaining /\ Replacing(r)' /\ at' = "indexing" =>
             Replacing(r) /\ (broken \/ ~file["config"].applied)
<1>1. Init => Quiet
  BY CmdFacts DEF Init, Quiet, Replacing
<1>2. Inv /\ Quiet /\ Inv' /\ Quiet' /\ [Next]_vars => [Race]_vars
  <2> SUFFICES ASSUME Inv, Quiet, Inv', Next, NEW r \in Rebuilds,
                      platform = "launchd", "engine" \notin remaining, Replacing(r)', at' = "indexing"
               PROVE  Replacing(r) /\ (broken \/ ~file["config"].applied)
    OBVIOUS
  <2>1. CASE ~Replacing(r)
    BY <2>1, StepNeverRaces
  <2>2. CASE Replacing(r) /\ ~broken /\ file["config"].applied
    BY <2>2, StaysDown
  <2> QED BY <2>1, <2>2
<1> QED BY Invariance, <1>1, <1>2, QuietStep, PTL DEF Spec, RebuildNeverRacesEngine

=============================================================================
