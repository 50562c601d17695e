---------------------------- MODULE VaultSyncProofs ----------------------------
(***************************************************************************)
(* Proofs about vault retrieval, the activation of continuous sync and the   *)
(* supervised process, for any number of sessions and every threshold.       *)
(***************************************************************************)
EXTENDS VaultSync, TLAPS

(***************************************************************************)
(* The inductive invariant.                                                 *)
(***************************************************************************)

\* How far a command and the supervised process may be.
Labels == {"idle", "bind", "bound", "forced", "pulled", "app", "gathered", "rehearsed",
           "snapped", "passed", "prepared", "unitWritten", "saved", "installed",
           "applying", "applied"}
Places == {"none", "born", "starting", "syncing", "stopped", "ending", "failed", "done"}

TypeOK ==
    /\ platform \in {"launchd", "systemd"}
    /\ tree \in Trees
    /\ remote \in {"whole", "emptied"}
    /\ mode \in {"unset", "pull-only", "bidirectional"}
    /\ path \in BOOLEAN
    /\ sync \in {"none", "installed", "ok", "degraded"}
    /\ config \in {"none", "installed", "applied"}
    /\ unit \in BOOLEAN /\ loaded \in BOOLEAN /\ guarded \in BOOLEAN
    /\ at \in Places
    /\ ledger \in Ledgers /\ copy \in Ledgers
    /\ pc \in [Cmds -> Labels]
    /\ before \subseteq Activations

\* An activation past the guard, and one past the last refusal that looks at the
\* directory.
PastGuard == {"prepared", "unitWritten", "saved", "installed", "applying", "applied"}
PastSmoke == PastGuard \cup {"rehearsed", "snapped", "passed"}

\* Everything the supervisor could be given comes from an activation that got
\* past the guard; that a pass once did is never forgotten.
Supervised ==
    /\ loaded \/ unit => guarded
    /\ \A a \in Activations : pc[a] \in PastGuard => guarded

\* Something has been pulled wherever a pass may push: an activation found a vault
\* before it goes on, and the supervised process reads a record that only an
\* activation leaves.  A vault never becomes an empty directory again.
Pulled ==
    /\ config # "none" => tree # "absent"
    /\ \A a \in Activations : pc[a] \in PastSmoke => tree # "absent"
    /\ \A c \in Activations \cup Applies : pc[c] \in {"applying", "applied"} => config # "none"
    /\ at \in {"starting", "syncing"} => config # "none"

\* The first pass of a retrieval cannot push, and nobody else sets the mode.
FirstPulls == pc["retrieve"] = "forced" => mode = "pull-only"

\* The ledger's last start is of a process that answers only while there is one.
Alive == ledger.last = "live" => at \notin {"none", "born"}

Inv ==
    /\ TypeOK
    /\ Supervised
    /\ Pulled
    /\ FirstPulls
    /\ RemoteStaysWhole
    /\ Alive

(***************************************************************************)
(* What the helpers do.                                                     *)
(***************************************************************************)

\* A command moves and the others stay where they are.
LEMMA GotoFacts ==
    ASSUME pc \in [Cmds -> Labels], NEW c \in Cmds, NEW w \in Labels, Goto(c, w)
    PROVE  /\ pc' \in [Cmds -> Labels]
           /\ pc'[c] = w
           /\ \A d \in Cmds : d # c => pc'[d] = pc[d]
  BY DEF Goto

\* A pass never turns a vault into an empty directory, and pushes emptiness only
\* out of an empty directory and in the mode that may push.
LEMMA PassFacts ==
    ASSUME tree \in Trees, Pass \/ PassCut
    PROVE  /\ tree' \in Trees
           /\ tree # "absent" => tree' # "absent"
           /\ tree # "absent" \/ mode # "bidirectional" => remote' = remote
           /\ remote' \in {remote, "emptied"}
  BY DEF Pass, PassCut, Trees

\* A ledger whose process is gone does not answer.
LEMMA DeadFacts ==
    ASSUME NEW l \in Ledgers, NEW how \in {"exited", "gone"}
    PROVE  Dead(l, how) \in Ledgers /\ Dead(l, how).last # "live"
  BY DEF Dead, Ledgers

LEMMA NoLedgerFacts == NoLedger \in Ledgers /\ NoLedger.last # "live"
  BY ThresholdAssumption DEF NoLedger, Ledgers

\* The sessions are commands other than the retrieval.
LEMMA CmdFacts ==
    /\ "retrieve" \in Cmds
    /\ \A a \in Activations : a \in Cmds /\ a # "retrieve" /\ a \notin Applies
    /\ \A p \in Applies : p \in Cmds /\ p # "retrieve" /\ p \notin Activations
  BY CommandAssumption DEF Cmds

\* Only what the parts of the invariant read matters to them.
LEMMA Framed ==
    ASSUME Inv, TypeOK',
           \* the machine's supervisor is given nothing new, the guard is remembered
           loaded' \/ unit' => loaded \/ unit \/ guarded',
           guarded => guarded',
           \* a vault stays a vault, a record stays a record
           tree # "absent" => tree' # "absent",
           config' # "none" => config # "none" \/ tree' # "absent",
           config # "none" => config' # "none",
           \* the activations get past nothing they did not pass
           \A a \in Activations : pc'[a] \in PastGuard => pc[a] \in PastGuard \/ guarded',
           \A a \in Activations : pc'[a] \in PastSmoke => pc[a] \in PastSmoke \/ tree' # "absent",
           \A c \in Activations \cup Applies :
              pc'[c] \in {"applying", "applied"} =>
                 pc[c] \in {"applying", "applied"} \/ config' # "none",
           \* the retrieval, the process and its ledger
           pc'["retrieve"] = "forced" => mode' = "pull-only",
           remote' = remote,
           at' \in {"starting", "syncing"} => at \in {"starting", "syncing"} \/ config' # "none",
           ledger'.last = "live" => at' \notin {"none", "born"}
    PROVE  Inv'
<1>1. Supervised' BY DEF Inv, Supervised
<1>2. Pulled' BY DEF Inv, Pulled
<1>3. FirstPulls' /\ RemoteStaysWhole' /\ Alive'
  BY DEF Inv, FirstPulls, RemoteStaysWhole, Alive
<1> QED BY <1>1, <1>2, <1>3 DEF Inv

-----------------------------------------------------------------------------
(***************************************************************************)
(* Initial states and steps.                                                *)
(***************************************************************************)

LEMMA InitInv == Init => Inv
<1> SUFFICES ASSUME Init PROVE Inv
  OBVIOUS
<1>1. TypeOK
  BY NoLedgerFacts DEF Init, TypeOK, Trees, Labels, Places
<1>2. \A c \in Cmds : pc[c] = "idle"
  BY DEF Init
<1>3. Supervised /\ Pulled
  BY <1>2, CmdFacts DEF Init, Supervised, Pulled, PastGuard, PastSmoke
<1>4. FirstPulls /\ RemoteStaysWhole /\ Alive
  BY <1>2, CmdFacts, NoLedgerFacts DEF Init, FirstPulls, RemoteStaysWhole, Alive
<1> QED BY <1>1, <1>3, <1>4 DEF Inv

Modes == {"unset", "pull-only", "bidirectional"}
Syncs == {"none", "installed", "ok", "degraded"}
Configs == {"none", "installed", "applied"}

\* A step of the retrieval: it alone sets the mode, and runs a pass only in the
\* mode that cannot push.
LEMMA RetrieveKeeps ==
    ASSUME Inv, NEW w \in Labels, Goto("retrieve", w),
           UNCHANGED <<sync, unitVars, procVars, before, guarded>>,
           tree' \in Trees, tree # "absent" => tree' # "absent",
           remote' = remote, mode' \in Modes, path' \in BOOLEAN,
           w = "forced" => mode' = "pull-only"
    PROVE  Inv'
<1>1. /\ pc' \in [Cmds -> Labels] /\ pc'["retrieve"] = w
      /\ \A c \in Activations \cup Applies : pc'[c] = pc[c]
  BY GotoFacts, CmdFacts DEF Inv, TypeOK
<1>2. TypeOK' BY <1>1 DEF Inv, TypeOK, unitVars, procVars, Modes
<1> QED BY <1>1, <1>2, Framed DEF Inv, Alive, unitVars, procVars

\* A step of an activation or an apply.  It may take the supervised process down,
\* and never brings one up.
LEMMA CommandKeeps ==
    ASSUME Inv, NEW c \in Activations \cup Applies, NEW w \in Labels, Goto(c, w),
           UNCHANGED <<platform, mode, path, remote>>,
           tree' \in Trees, tree # "absent" => tree' # "absent",
           sync' \in Syncs, before' \in SUBSET Activations, config' \in Configs,
           unit' \in BOOLEAN, loaded' \in BOOLEAN, guarded' \in BOOLEAN,
           copy' \in Ledgers, ledger' \in Ledgers, at' \in {at, "none"},
           ledger'.last = "live" => ledger.last = "live" /\ at' = at,
           guarded => guarded', loaded' \/ unit' => loaded \/ unit \/ guarded',
           config # "none" => config' # "none",
           config' # "none" => config # "none" \/ tree' # "absent",
           w \in {"applying", "applied"} => pc[c] \in {"applying", "applied"} \/ config' # "none",
           c \in Activations /\ w \in PastGuard => pc[c] \in PastGuard \/ guarded',
           c \in Activations /\ w \in PastSmoke => pc[c] \in PastSmoke \/ tree' # "absent"
    PROVE  Inv'
<1>1. /\ pc' \in [Cmds -> Labels] /\ pc'[c] = w
      /\ pc'["retrieve"] = pc["retrieve"]
      /\ \A d \in Activations \cup Applies : d # c => pc'[d] = pc[d]
  BY GotoFacts, CmdFacts DEF Inv, TypeOK
<1>2. TypeOK' BY <1>1 DEF Inv, TypeOK, Places, Configs, Syncs
<1>3. ledger'.last = "live" => at' \notin {"none", "born"}
  BY DEF Inv, Alive
<1>4. at' \in {"starting", "syncing"} => at \in {"starting", "syncing"}
  OBVIOUS
<1> QED BY <1>1, <1>2, <1>3, <1>4, Framed DEF Inv, FirstPulls

\* A step of the supervised process, or of the desktop app.
LEMMA ProcessKeeps ==
    ASSUME Inv, UNCHANGED <<mode, path, remote, unitVars, cmdVars>>,
           tree' \in Trees, tree # "absent" => tree' # "absent", sync' \in Syncs,
           at' \in Places, ledger' \in Ledgers, copy' \in Ledgers,
           at' \in {"starting", "syncing"} => at \in {"starting", "syncing"} \/ config # "none",
           ledger'.last = "live" => at' \notin {"none", "born"}
    PROVE  Inv'
<1>1. TypeOK' BY DEF Inv, TypeOK, unitVars, cmdVars, Syncs
<1> QED BY <1>1, Framed DEF Inv, FirstPulls, unitVars, cmdVars

LEMMA RetrieveStep == Inv /\ Retrieve => Inv'
<1> SUFFICES ASSUME Inv, Retrieve PROVE Inv'
  OBVIOUS
<1>0. /\ tree \in Trees /\ mode \in Modes /\ path \in BOOLEAN
      /\ remote = "whole" /\ IsVault \in BOOLEAN
  BY DEF Inv, TypeOK, Modes, RemoteStaysWhole, IsVault
<1>1. CASE RetrieveBegin
  <2>1. PICK w \in {"idle", "bind"} : Goto("retrieve", w)
    BY <1>1 DEF RetrieveBegin, RetrieveFails
  <2>2. path' \in BOOLEAN /\ UNCHANGED <<tree, remote, mode>>
    BY <1>0, <1>1 DEF RetrieveBegin, RetrieveFails, recordVaultPath, vaultVars
  <2> QED BY <1>0, <1>1, <2>1, <2>2, RetrieveKeeps DEF RetrieveBegin, Labels
<1>2. CASE RetrieveBind
  <2>1. PICK w \in {"idle", "bound", "app"} : Goto("retrieve", w)
    BY <1>2 DEF RetrieveBind, RetrieveFallsBack, RetrieveFails
  <2>2. path' \in BOOLEAN /\ mode' \in Modes
    BY <1>0, <1>2
       DEF RetrieveBind, RetrieveFallsBack, RetrieveFails, recordVaultPath, Modes
  <2> QED BY <1>0, <1>2, <2>1, <2>2, RetrieveKeeps DEF RetrieveBind, Labels
<1>3. CASE ForcePullOnly
  <2>1. CASE mode' = "pull-only" /\ Goto("retrieve", "forced") /\ UNCHANGED path
    BY <1>0, <1>3, <2>1, RetrieveKeeps DEF ForcePullOnly, Labels, Modes
  <2>2. CASE RetrieveFails /\ UNCHANGED mode
    <3>1. path' \in BOOLEAN /\ Goto("retrieve", "idle")
      BY <1>0, <2>2 DEF RetrieveFails, recordVaultPath
    <3> QED BY <1>0, <1>3, <2>2, <3>1, RetrieveKeeps DEF ForcePullOnly, Labels
  <2> QED BY <1>3, <2>1, <2>2 DEF ForcePullOnly
<1>4. CASE FirstPass
  <2>1. mode = "pull-only"
    BY <1>4 DEF FirstPass, Inv, FirstPulls
  <2>2. PICK w \in {"idle", "pulled", "app"} : Goto("retrieve", w)
    BY <1>4 DEF FirstPass, RetrieveFallsBack, RetrieveFails
  <2>3. path' \in BOOLEAN /\ (Pass \/ PassCut)
    BY <1>0, <1>4 DEF FirstPass, RetrieveFallsBack, RetrieveFails, recordVaultPath
  <2>4. tree' \in Trees /\ (tree # "absent" => tree' # "absent") /\ remote' = remote
    BY <1>0, <2>1, <2>3, PassFacts
  <2> QED BY <1>0, <1>4, <2>2, <2>3, <2>4, RetrieveKeeps DEF FirstPass, Labels
<1>5. CASE RestoreMode
  <2>1. Goto("retrieve", "idle")
    BY <1>5 DEF RestoreMode, RetrieveFails
  <2>2. path' \in BOOLEAN /\ mode' \in Modes
    BY <1>0, <1>5 DEF RestoreMode, RetrieveFails, recordVaultPath, Modes
  <2> QED BY <1>0, <1>5, <2>1, <2>2, RetrieveKeeps DEF RestoreMode, Labels
<1>6. CASE AppFallback
  <2>1. Goto("retrieve", "idle")
    BY <1>6 DEF AppFallback, RetrieveFails
  <2>2. path' \in BOOLEAN /\ UNCHANGED <<tree, remote, mode>>
    BY <1>0, <1>6 DEF AppFallback, RetrieveFails, recordVaultPath, vaultVars
  <2> QED BY <1>0, <1>6, <2>1, <2>2, RetrieveKeeps DEF AppFallback, Labels
<1>7. CASE AppPopulates
  <2>1. tree' \in Trees /\ tree' # "absent"
    BY <1>7 DEF AppPopulates, Trees
  <2> QED BY <1>7, <2>1, ProcessKeeps
          DEF AppPopulates, Inv, TypeOK, Alive, Syncs, stateVars, procVars
<1> QED BY <1>1, <1>2, <1>3, <1>4, <1>5, <1>6, <1>7 DEF Retrieve

\* `vault detect -record` and a failed login write state.json and nothing else.
LEMMA RecordStep == Inv /\ (DetectRecord \/ LoginFails) => Inv'
<1> SUFFICES ASSUME Inv, DetectRecord \/ LoginFails PROVE Inv'
  OBVIOUS
<1>0. IsVault \in BOOLEAN BY DEF IsVault
<1>1. path' \in BOOLEAN /\ sync' \in Syncs
  BY <1>0 DEF Inv, TypeOK, DetectRecord, LoginFails, Syncs
<1>2. UNCHANGED <<vaultVars, unitVars, procVars, cmdVars>>
  BY DEF DetectRecord, LoginFails
<1>3. TypeOK'
  BY <1>1, <1>2 DEF Inv, TypeOK, vaultVars, unitVars, procVars, cmdVars, Syncs
<1> QED BY <1>2, <1>3, Framed
        DEF Inv, FirstPulls, Alive, vaultVars, unitVars, procVars, cmdVars

\* The types of the variables, under the names the step lemmas use.
LEMMA Typed ==
    ASSUME Inv
    PROVE  /\ tree \in Trees /\ mode \in Modes /\ sync \in Syncs /\ config \in Configs
           /\ path \in BOOLEAN /\ unit \in BOOLEAN /\ loaded \in BOOLEAN
           /\ guarded \in BOOLEAN /\ before \in SUBSET Activations
           /\ copy \in Ledgers /\ ledger \in Ledgers /\ at \in Places
           /\ remote = "whole"
  BY DEF Inv, TypeOK, Modes, Syncs, Configs, RemoteStaysWhole

\* A command that ends changes what state.json says, if that.
LEMMA CommandEnds ==
    ASSUME Inv, NEW c \in Activations \cup Applies, Goto(c, "idle"),
           UNCHANGED <<platform, mode, path, remote, config, unit, loaded, guarded>>,
           tree' \in Trees, tree # "absent" => tree' # "absent", sync' \in Syncs,
           before' \in SUBSET Activations, UNCHANGED procVars
    PROVE  Inv'
  BY Typed, CommandKeeps DEF procVars, Labels, PastGuard, PastSmoke

\* Nothing but the program counter and state.json changes.
LEMMA CommandMovesOn ==
    ASSUME Inv, NEW c \in Activations \cup Applies, NEW w \in Labels, Goto(c, w),
           UNCHANGED <<vaultVars, path, unitVars, procVars, guarded>>,
           sync' \in Syncs, before' \in SUBSET Activations,
           w \in {"applying", "applied"} => config # "none",
           c \in Activations /\ w \in PastGuard => pc[c] \in PastGuard,
           c \in Activations /\ w \in PastSmoke => pc[c] \in PastSmoke \/ tree # "absent"
    PROVE  Inv'
<1>1. UNCHANGED <<platform, mode, path, remote, tree, config, unit, loaded, at, ledger, copy>>
  BY DEF vaultVars, unitVars, procVars
<1> QED BY <1>1, Typed, CommandKeeps

LEMMA ActivateStep ==
    ASSUME Inv, NEW a \in Activations, Activate(a)
    PROVE  Inv'
<1> USE Typed
<1>0. pc[a] \in Labels
  BY CmdFacts DEF Inv, TypeOK
<1>f. \A s : recordSync(s) /\ s \in Syncs => sync' \in Syncs
  BY DEF recordSync
<1>1. CASE gatherActivateInputs(a)
  <2>1. PICK w \in {"idle", "gathered"} : Goto(a, w)
    BY <1>1 DEF gatherActivateInputs, CommandFails
  <2>2. sync' \in Syncs
    BY <1>1, <1>f DEF gatherActivateInputs, CommandFails, Syncs
  <2> QED BY <1>1, <2>1, <2>2, CommandMovesOn
          DEF gatherActivateInputs, Labels, PastGuard, PastSmoke
<1>2. CASE smoke(a)
  <2>1. PICK w \in {"idle", "rehearsed"} : Goto(a, w) /\ (w = "rehearsed" => IsVault)
    BY <1>2 DEF smoke, CommandFails
  <2>2. sync' \in Syncs
    BY <1>2, <1>f DEF smoke, CommandFails, Syncs
  <2> QED BY <1>2, <2>1, <2>2, CommandMovesOn
          DEF smoke, Labels, PastGuard, PastSmoke, IsVault
<1>3. CASE TakeSnapshot(a)
  <2>1. PICK w \in {"idle", "snapped"} : Goto(a, w) /\ (w = "snapped" => IsVault)
    BY <1>3 DEF TakeSnapshot, CommandFails
  <2>2. sync' \in Syncs
    BY <1>3, <1>f DEF TakeSnapshot, CommandFails, Syncs
  <2>3. before' \in SUBSET Activations
    BY <1>3 DEF TakeSnapshot
  <2> QED BY <1>3, <2>1, <2>2, <2>3, CommandMovesOn
          DEF TakeSnapshot, Labels, PastGuard, PastSmoke, IsVault
<1>4. CASE RealPass(a)
  <2>1. PICK w \in {"idle", "passed"} : Goto(a, w)
    BY <1>4 DEF RealPass, CommandFails
  <2>2. sync' \in Syncs
    BY <1>4, <1>f DEF RealPass, CommandFails, Syncs
  <2>3. before' \in SUBSET Activations
    BY <1>4 DEF RealPass
  <2>4. tree # "absent"
    BY <1>4 DEF RealPass, Inv, Pulled, PastSmoke
  <2>5. tree' \in Trees /\ tree' # "absent" /\ remote' = remote
    BY <1>4, <2>4, PassFacts DEF RealPass
  <2>6. UNCHANGED <<platform, config, unit, loaded, at, ledger, copy, mode, path, guarded>>
    BY <1>4 DEF RealPass, unitVars, procVars
  <2> QED BY <2>1, <2>2, <2>3, <2>4, <2>5, <2>6, CommandKeeps
          DEF Labels, PastGuard, PastSmoke
<1>5. CASE GuardCheck(a)
  <2>1. before' \in SUBSET Activations /\ pc[a] \in PastSmoke
    BY <1>5 DEF GuardCheck, PastSmoke
  <2>2. UNCHANGED <<platform, config, unit, loaded, at, ledger, copy, mode, path, tree, remote>>
    BY <1>5 DEF GuardCheck, unitVars, procVars, vaultVars
  <2>3. CASE guarded' = TRUE /\ Goto(a, "prepared") /\ UNCHANGED sync
    BY <2>1, <2>2, <2>3, CommandKeeps DEF Labels
  <2>4. CASE CommandFails(a) /\ UNCHANGED guarded
    <3>1. Goto(a, "idle") /\ sync' \in Syncs
      BY <2>4, <1>f DEF CommandFails, Syncs
    <3> QED BY <2>1, <2>2, <2>4, <3>1, CommandEnds DEF procVars
  <2> QED BY <1>5, <2>3, <2>4 DEF GuardCheck
<1>6. CASE InstallUnit(a)
  <2>1. PICK w \in {"idle", "unitWritten"} : Goto(a, w)
    BY <1>6 DEF InstallUnit, CommandFails
  <2>2. sync' \in Syncs
    BY <1>6, <1>f DEF InstallUnit, CommandFails, Syncs
  <2>3. pc[a] \in PastGuard /\ pc[a] \in PastSmoke
    BY <1>6 DEF InstallUnit, PastGuard, PastSmoke
  <2>4. guarded BY <2>3 DEF Inv, Supervised
  <2>5. unit' \in BOOLEAN
    BY <1>6 DEF InstallUnit
  <2>6. UNCHANGED <<platform, config, loaded, at, ledger, copy, mode, path, tree, remote,
                    before, guarded>>
    BY <1>6 DEF InstallUnit, procVars, vaultVars
  <2> QED BY <2>1, <2>2, <2>3, <2>4, <2>5, <2>6, CommandKeeps DEF Labels
<1>7. CASE SaveInstalled(a)
  <2>1. PICK w \in {"idle", "saved"} : Goto(a, w)
    BY <1>7 DEF SaveInstalled, CommandFails
  <2>2. sync' \in Syncs
    BY <1>7, <1>f DEF SaveInstalled, CommandFails, Syncs
  <2>3. pc[a] \in PastGuard /\ pc[a] \in PastSmoke
    BY <1>7 DEF SaveInstalled, PastGuard, PastSmoke
  <2>4. tree # "absent" BY <2>3 DEF Inv, Pulled
  <2>5. config' \in Configs /\ (config # "none" => config' # "none")
    BY <1>7 DEF SaveInstalled, Configs
  <2>6. UNCHANGED <<platform, unit, loaded, at, ledger, copy, mode, path, tree, remote,
                    before, guarded>>
    BY <1>7 DEF SaveInstalled, procVars, vaultVars
  <2> QED BY <2>1, <2>2, <2>3, <2>4, <2>5, <2>6, CommandKeeps DEF Labels
<1>8. CASE ResetLedger(a)
  <2>1. pc[a] \in PastGuard /\ pc[a] \in PastSmoke
    BY <1>8 DEF ResetLedger, PastGuard, PastSmoke
  <2>2. ledger' \in Ledgers /\ (ledger'.last = "live" => ledger.last = "live")
    BY <1>8, NoLedgerFacts DEF ResetLedger
  <2>3. UNCHANGED <<platform, config, unit, loaded, at, copy, mode, path, tree, remote,
                    sync, before, guarded>>
    BY <1>8 DEF ResetLedger, unitVars, vaultVars, stateVars
  <2>4. Goto(a, "installed") /\ "installed" \in Labels
    BY <1>8 DEF ResetLedger, Labels
  <2> QED BY <2>1, <2>2, <2>3, <2>4, CommandKeeps
<1>9. CASE RecordInstalled(a)
  <2>1. sync' \in Syncs
    BY <1>9, <1>f DEF RecordInstalled, Syncs
  <2> QED BY <1>9, <2>1, CommandMovesOn DEF RecordInstalled, Labels, PastGuard, PastSmoke
<1> QED BY <1>1, <1>2, <1>3, <1>4, <1>5, <1>6, <1>7, <1>8, <1>9
        DEF Activate, Prepare, Install

LEMMA ApplyStep ==
    ASSUME Inv, NEW c \in Activations \cup Applies, Apply(c)
    PROVE  Inv'
<1> USE Typed
<1>f. \A s : recordSync(s) /\ s \in Syncs => sync' \in Syncs
  BY DEF recordSync
<1>1. CASE ApplyBegin(c)
  <2>1. PICK w \in {"idle", "applying"} : Goto(c, w) /\ (w = "applying" => config # "none")
    BY <1>1 DEF ApplyBegin, CommandFails
  <2>2. sync' \in Syncs
    BY <1>1, <1>f DEF ApplyBegin, CommandFails, Syncs
  <2>3. c \in Activations => pc[c] \in PastGuard /\ pc[c] \in PastSmoke
    BY <1>1 DEF ApplyBegin, PastGuard, PastSmoke
  <2> QED BY <1>1, <2>1, <2>2, <2>3, CommandMovesOn
          DEF ApplyBegin, Labels
<1>2. CASE LoadUnit(c)
  <2>1. PICK w \in {"idle", "applied"} : Goto(c, w)
    BY <1>2 DEF LoadUnit, CommandFails
  <2>2. sync' \in Syncs
    BY <1>2, <1>f DEF LoadUnit, CommandFails, Syncs
  <2>3. pc[c] = "applying" /\ pc[c] \in PastGuard /\ pc[c] \in PastSmoke
    BY <1>2 DEF LoadUnit, PastGuard, PastSmoke
  <2>4. loaded' \in BOOLEAN /\ (loaded' => loaded \/ unit)
    <3>1. loaded' = FALSE \/ loaded' = unit \/ loaded' = loaded \/ loaded' = (loaded \/ unit)
      BY <1>2 DEF LoadUnit
    <3>2. unit \in BOOLEAN /\ loaded \in BOOLEAN
      OBVIOUS
    <3>3. CASE loaded' = FALSE BY <3>3
    <3>4. CASE loaded' = unit BY <3>2, <3>4
    <3>5. CASE loaded' = loaded BY <3>2, <3>5
    <3>6. CASE loaded' = (loaded \/ unit) BY <3>2, <3>6
    <3> QED BY <3>1, <3>3, <3>4, <3>5, <3>6
  <2>5. /\ at' \in {at, "none"} /\ copy' \in Ledgers /\ ledger' \in Ledgers
        /\ ledger'.last = "live" => ledger.last = "live" /\ at' = at
    <3>1. CASE BootOut BY <3>1, DeadFacts, NoLedgerFacts DEF BootOut
    <3>2. CASE UNCHANGED procVars BY <3>2 DEF procVars
    <3> QED BY <1>2, <3>1, <3>2 DEF LoadUnit
  <2>6. UNCHANGED <<platform, config, unit, mode, path, tree, remote, before, guarded>>
    BY <1>2 DEF LoadUnit, vaultVars
  <2>7. loaded' \/ unit' => loaded \/ unit \/ guarded'
    BY <2>4, <2>6
  <2> QED BY <2>1, <2>2, <2>3, <2>4, <2>5, <2>6, <2>7, CommandKeeps DEF Labels
<1>3. CASE SaveApplied(c)
  <2>1. Goto(c, "idle") /\ sync' \in Syncs
    BY <1>3, <1>f DEF SaveApplied, CommandFails, Syncs
  <2>2. config' \in Configs /\ (config # "none" => config' # "none")
    BY <1>3 DEF SaveApplied, Configs
  <2>3. config # "none"
    BY <1>3 DEF SaveApplied, Inv, Pulled
  <2>4. UNCHANGED <<platform, unit, loaded, at, ledger, copy, mode, path, tree, remote,
                    before, guarded>>
    BY <1>3 DEF SaveApplied, procVars, vaultVars
  <2> QED BY <2>1, <2>2, <2>3, <2>4, CommandKeeps DEF Labels, PastGuard, PastSmoke
<1> QED BY <1>1, <1>2, <1>3 DEF Apply

\* A command that is interrupted records nothing.
LEMMA InterruptStep ==
    ASSUME Inv, NEW c \in Cmds, Interrupt(c)
    PROVE  Inv'
<1>1. UNCHANGED <<platform, config, unit, loaded, at, ledger, copy, mode, path, sync,
                  tree, remote, guarded>>
  BY DEF Interrupt, vaultVars, stateVars, unitVars, procVars
<1>2. Goto(c, "idle") /\ before' \in SUBSET Activations
  BY Typed DEF Interrupt
<1>3. CASE c = "retrieve"
  <2>1. before' = before
    BY <1>3, Typed, CmdFacts DEF Interrupt
  <2> QED BY <1>1, <1>2, <1>3, <2>1, Typed, RetrieveKeeps DEF unitVars, procVars, Labels
<1>4. CASE c \in Activations \cup Applies
  BY <1>1, <1>2, <1>4, Typed, CommandEnds DEF procVars
<1> QED BY <1>3, <1>4 DEF Cmds

\* The steps of the supervised process, each with the part of the ledger's file
\* it may leave behind.
ProcessStep ==
    \/ Spawn \/ RunFails \/ RunSync \/ RecordFailure \/ ProcessEnds
    \/ KillProcess \/ WindowPasses

LEMMA ProcessStepInv == Inv /\ ProcessStep => Inv'
<1> SUFFICES ASSUME Inv, ProcessStep PROVE Inv'
  OBVIOUS
<1>0. /\ tree \in Trees /\ sync \in Syncs /\ at \in Places /\ remote = "whole"
      /\ ledger \in Ledgers /\ copy \in Ledgers
      /\ ledger.last = "live" => at \notin {"none", "born"}
      /\ NoLedger \in Ledgers /\ NoLedger.last # "live"
  BY Typed, NoLedgerFacts DEF Inv, Alive
<1> USE <1>0 DEF vaultVars, stateVars
<1>1. CASE Spawn BY <1>1, ProcessKeeps DEF Spawn, Places
<1>2. CASE RunFails BY <1>2, ProcessKeeps DEF RunFails, Places
<1>3. CASE LoadLedger("born", "starting")
  BY <1>3, ProcessKeeps DEF LoadLedger, Places
<1>4. CASE RecordStart
  <2>1. ledger' \in Ledgers
    <3>1. copy.recent \in 0 .. (Threshold + 1)
      BY DEF Ledgers
    <3>2. (IF copy.recent > Threshold THEN copy.recent ELSE copy.recent + 1)
             \in 0 .. (Threshold + 1)
      BY <3>1, ThresholdAssumption
    <3> QED BY <1>4, <3>2 DEF RecordStart, Ledgers
  <2> QED BY <1>4, <2>1, ProcessKeeps DEF RecordStart, Places
<1>5. CASE RecordStartFails
  BY <1>5, ProcessKeeps DEF RecordStartFails, Places
<1>6. CASE SyncOn
  <2>1. at \in {"starting", "syncing"}
    BY <1>6 DEF SyncOn
  <2>2. tree # "absent"
    BY <2>1 DEF Inv, Pulled
  <2>3. tree' \in Trees /\ tree' # "absent" /\ remote' = remote
    BY <1>6, <2>2, PassFacts DEF SyncOn
  <2> QED BY <1>6, <2>3, ProcessKeeps DEF SyncOn, procVars
<1>7. CASE SyncStops BY <1>7, ProcessKeeps DEF SyncStops, Places
<1>8. CASE LoadLedger("stopped", "ending")
  BY <1>8, ProcessKeeps DEF LoadLedger, Places
<1>9. CASE RecordExit
  <2>1. [copy EXCEPT !.last = IF @ = "none" THEN @ ELSE "exited"] \in Ledgers
    BY DEF Ledgers
  <2> QED BY <1>9, <2>1, ProcessKeeps DEF RecordExit, Places
<1>10. CASE RecordFailure
  <2>1. sync' \in Syncs BY <1>10 DEF RecordFailure, recordSync, Syncs
  <2> QED BY <1>10, <2>1, ProcessKeeps DEF RecordFailure, Places
<1>11. CASE ProcessEnds
  BY <1>11, DeadFacts, ProcessKeeps DEF ProcessEnds, Places
<1>12. CASE KillProcess
  BY <1>12, DeadFacts, ProcessKeeps DEF KillProcess, Places
<1>13. CASE WindowPasses
  <2>1. /\ ledger' \in Ledgers /\ copy' \in Ledgers
        /\ ledger'.last = ledger.last
    BY <1>13, ThresholdAssumption DEF WindowPasses, Ledgers
  <2> QED BY <1>13, <2>1, ProcessKeeps DEF WindowPasses
<1> QED BY <1>1, <1>2, <1>3, <1>4, <1>5, <1>6, <1>7, <1>8, <1>9, <1>10, <1>11, <1>12,
           <1>13 DEF ProcessStep, RunSync

LEMMA StepInv == Inv /\ [Next]_vars => Inv'
<1> SUFFICES ASSUME Inv, [Next]_vars PROVE Inv'
  OBVIOUS
<1>1. CASE Retrieve BY <1>1, RetrieveStep
<1>2. CASE DetectRecord \/ LoginFails BY <1>2, RecordStep
<1>3. CASE \E a \in Activations : Activate(a) BY <1>3, ActivateStep
<1>4. CASE \E c \in Activations \cup Applies : Apply(c) BY <1>4, ApplyStep
<1>5. CASE \E c \in Cmds : Interrupt(c) BY <1>5, InterruptStep
<1>6. CASE ProcessStep BY <1>6, ProcessStepInv
<1>7. CASE UNCHANGED vars
  BY <1>7 DEF vars, vaultVars, stateVars, unitVars, procVars, cmdVars, Inv, TypeOK,
              Supervised, Pulled, FirstPulls, RemoteStaysWhole, Alive
<1> QED BY <1>1, <1>2, <1>3, <1>4, <1>5, <1>6, <1>7 DEF Next, ProcessStep

-----------------------------------------------------------------------------
(***************************************************************************)
(* Theorems.                                                                *)
(***************************************************************************)

\* The inductive invariant holds whatever the sessions, the retrieval, the desktop
\* app and the supervised process do to each other.
THEOREM Invariance == Spec => []Inv
<1> QED BY InitInv, StepInv, PTL DEF Spec

\* No pass that may push runs before something was pulled: not in a retrieval that
\* was cut off, repeated or handed over to the app, not in an activation, and not
\* in the supervised sync (vault.go:361-362, retrieve.go:221-222).
THEOREM RemoteAlwaysWhole == Spec => []RemoteStaysWhole
<1>1. Inv => RemoteStaysWhole
  BY DEF Inv
<1> QED BY Invariance, <1>1, PTL

\* `status` says `ok` of continuous sync only while a supervised process is alive
\* (status.go:299-301).
THEOREM OkAlwaysMeansAlive == Spec => []OkMeansAlive
<1>1. Inv => OkMeansAlive
  BY DEF Inv, Alive, OkMeansAlive, syncComponent, ProcessProbe
<1> QED BY Invariance, <1>1, PTL

\* The supervisor holds the unit only where an activation's pass stayed within the
\* guard, for any number of activations and applies (sync.go:147-148).
THEOREM GuardAlwaysPrecedes == Spec => []GuardPrecedesSupervision
<1>1. Inv => GuardPrecedesSupervision
  BY DEF Inv, Supervised, GuardPrecedesSupervision
<1> QED BY Invariance, <1>1, PTL

=============================================================================
