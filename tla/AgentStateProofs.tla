--------------------------- MODULE AgentStateProofs ---------------------------
(***************************************************************************)
(* Proofs about the agent's state directory, for every set of processes that *)
(* share it and every set of harnesses.                                      *)
(***************************************************************************)
EXTENDS AgentState, TLAPS

(***************************************************************************)
(* The inductive invariant.                                                 *)
(***************************************************************************)

Places == {"idle", "done", "responded", "loaded", "half", "opened", "configuring", "issued",
           "applied", "unlocked", "copied"}

States == [cv : Nat, harnesses : SUBSET Harnesses, notes : SUBSET Mutators]

TypeOK ==
    /\ serverVersion \in Nat
    /\ live \in [Harnesses -> Nat]
    /\ cred \in Nat
    /\ json \in States
    /\ config \in [Harnesses -> Nat]
    /\ lock \in Procs \cup {"free"}
    /\ pc \in [Procs -> Places]
    /\ snap \in [Procs -> States]
    /\ held \in [Procs -> Nat]
    /\ todo \in [Procs -> SUBSET Harnesses]
    /\ cur \in [Procs -> Harnesses \cup {"none"}]
    /\ got \in [Procs -> Nat]
    /\ configured \in [Procs -> SUBSET Harnesses]
    /\ torn \in BOOLEAN
    /\ rolledBack \in BOOLEAN
    /\ unwritten \in [Harnesses -> BOOLEAN]
    /\ overtaken \in [Harnesses -> BOOLEAN]

\* The flock is held from an enrolment's load to its save, and for the whole of a
\* configure run's Configure.
Locked ==
    /\ \A e \in Enrols : pc[e] \in {"loaded", "half"} => lock = e
    /\ \A k \in Configures : pc[k] \in {"configuring", "issued", "applied"} => lock = k

\* The grant in a configure run's hand is its harness's newest, unless a request
\* somebody gave up on was carried out since.
GrantInHand ==
    \A k \in Configures :
        /\ pc[k] \in {"issued", "applied"} => cur[k] \in Harnesses
        /\ pc[k] = "issued" /\ ~overtaken[cur[k]] => got[k] = live[cur[k]]

\* As long as state.json never went back, no process has a copy of a later one.
CopiesAreOld ==
    ~rolledBack => \A p \in Procs : snap[p].cv <= json.cv

\* The comparison that admitted a response still holds when it is written.
StillNewer ==
    ~rolledBack => \A e \in Enrols : pc[e] \in {"loaded", "half"} => json.cv < held[e]

\* machine.cred runs ahead of state.json only between the two writes of a persist.
CredentialIsNamed ==
    ~rolledBack /\ ~torn =>
        /\ \A e \in Enrols : pc[e] = "half" => cred = held[e]
        /\ (\A e \in Enrols : pc[e] # "half") => cred <= json.cv

Inv ==
    /\ TypeOK
    /\ Locked
    /\ GrantInHand
    /\ ConfigHoldsLiveGrant
    /\ CopiesAreOld
    /\ StillNewer
    /\ CredentialIsNamed

(***************************************************************************)
(* Initial states and steps.                                                *)
(***************************************************************************)

\* An empty directory satisfies the invariant.
LEMMA InitInv == Init => Inv
<1> SUFFICES ASSUME Init PROVE Inv
  OBVIOUS
<1> USE DEF Init, NoState
<1>1. TypeOK
  BY DEF TypeOK, Places, States
<1>2. Locked /\ GrantInHand
  BY DEF Locked, GrantInHand, Procs
<1>3. ConfigHoldsLiveGrant
  BY DEF ConfigHoldsLiveGrant
<1>4. CopiesAreOld /\ StillNewer /\ CredentialIsNamed
  BY DEF CopiesAreOld, StillNewer, CredentialIsNamed, Procs
<1> QED
  BY <1>1, <1>2, <1>3, <1>4 DEF Inv

\* The server answers an enrolment, or its answer is lost.
LEMMA CallEnrolStep ==
    ASSUME Inv, NEW e \in Enrols, callEnrol(e) PROVE Inv'
<1> USE ProcessAssumption DEF Inv, Procs, callEnrol, Goto, serverVars, credVars, jsonVars, fileVars, netVars, runVars
<1>1. TypeOK'
  BY OnlyAssumption DEF TypeOK, Places, States
<1>2. Locked'
  BY DEF TypeOK, Locked
<1>3. GrantInHand'
  BY DEF TypeOK, Locked, GrantInHand
<1>4. ConfigHoldsLiveGrant'
  BY DEF TypeOK, GrantInHand, ConfigHoldsLiveGrant
<1>5. CopiesAreOld'
  BY DEF TypeOK, States, CopiesAreOld
<1>6. StillNewer'
  BY DEF TypeOK, States, Locked, CopiesAreOld, StillNewer
<1>7. CredentialIsNamed'
  BY DEF TypeOK, States, Locked, CopiesAreOld, StillNewer, CredentialIsNamed
<1> QED
  BY <1>1, <1>2, <1>3, <1>4, <1>5, <1>6, <1>7

\* A response is discarded, or its process holds the lock with state.json in hand.
LEMMA LockAndLoadStep ==
    ASSUME Inv, NEW e \in Enrols, lockAndLoad(e) PROVE Inv'
<1> USE ProcessAssumption DEF Inv, Procs, lockAndLoad, Goto, notNewer, serverVars, credVars, jsonVars, fileVars, netVars, runVars
<1>1. TypeOK'
  <2>1. CASE notNewer(e)
    BY <2>1 DEF TypeOK, Places
  <2>2. CASE ~notNewer(e)
    <3>0. pc' = [pc EXCEPT ![e] = "loaded"]
      BY <2>2
    <3>1. pc' \in [Procs -> Places]
      <4> "loaded" \in Places
        BY DEF Places
      <4> QED
        BY <3>0 DEF TypeOK
    <3>2. lock' \in Procs \cup {"free"}
      BY <2>2
    <3>3. snap' \in [Procs -> States]
      BY <2>2 DEF TypeOK
    <3> QED
      BY <3>1, <3>2, <3>3 DEF TypeOK
  <2> QED
    BY <2>1, <2>2
<1>2. Locked'
  BY DEF TypeOK, Locked
<1>3. GrantInHand'
  <2>1. UNCHANGED <<cur, got, live, overtaken>> /\ \A k \in Configures : pc'[k] = pc[k]
    BY DEF TypeOK
  <2> QED
    BY <2>1 DEF GrantInHand
<1>4. ConfigHoldsLiveGrant'
  BY DEF TypeOK, GrantInHand, ConfigHoldsLiveGrant
<1>5. CopiesAreOld'
  BY DEF TypeOK, States, CopiesAreOld
<1>6. StillNewer'
  BY DEF TypeOK, States, Locked, CopiesAreOld, StillNewer
<1>7. CredentialIsNamed'
  BY DEF TypeOK, States, Locked, CopiesAreOld, StillNewer, CredentialIsNamed
<1> QED
  BY <1>1, <1>2, <1>3, <1>4, <1>5, <1>6, <1>7

\* machine.cred is written ahead of state.json.
LEMMA WriteCredentialStep ==
    ASSUME Inv, NEW e \in Enrols, writeCredential(e) PROVE Inv'
<1> USE ProcessAssumption DEF Inv, Procs, writeCredential, Goto, serverVars, credVars, jsonVars, fileVars, netVars, runVars
<1>1. TypeOK'
  BY OnlyAssumption DEF TypeOK, Places, States
<1>2. Locked'
  BY DEF TypeOK, Locked
<1>3. GrantInHand'
  BY DEF TypeOK, Locked, GrantInHand
<1>4. ConfigHoldsLiveGrant'
  BY DEF TypeOK, GrantInHand, ConfigHoldsLiveGrant
<1>5. CopiesAreOld'
  BY DEF TypeOK, States, CopiesAreOld
<1>6. StillNewer'
  BY DEF TypeOK, States, Locked, CopiesAreOld, StillNewer
<1>7. CredentialIsNamed'
  BY DEF TypeOK, States, Locked, CopiesAreOld, StillNewer, CredentialIsNamed
<1> QED
  BY <1>1, <1>2, <1>3, <1>4, <1>5, <1>6, <1>7

\* state.json catches up and the lock goes.
LEMMA SaveEnrolmentStep ==
    ASSUME Inv, NEW e \in Enrols, saveEnrolment(e) PROVE Inv'
<1> USE ProcessAssumption DEF Inv, Procs, saveEnrolment, Goto, Save, Release, serverVars, credVars, jsonVars, fileVars, netVars, runVars
<1>1. TypeOK'
  BY OnlyAssumption DEF TypeOK, Places, States
<1>2. Locked'
  BY DEF TypeOK, Locked
<1>3. GrantInHand'
  BY DEF TypeOK, Locked, GrantInHand
<1>4. ConfigHoldsLiveGrant'
  BY DEF TypeOK, GrantInHand, ConfigHoldsLiveGrant
<1>c. json'.cv = held[e] /\ json'.cv \in Nat /\ json.cv \in Nat /\ (~rolledBack' => ~rolledBack)
  BY DEF TypeOK, States
<1>5. CopiesAreOld'
  <2> SUFFICES ASSUME ~rolledBack', NEW p \in Procs PROVE snap[p].cv <= json'.cv
    BY DEF CopiesAreOld
  <2>1. snap[p].cv \in Nat /\ snap[p].cv <= json.cv /\ json.cv < held[e]
    BY <1>c DEF TypeOK, States, CopiesAreOld, StillNewer
  <2> QED
    BY <1>c, <2>1
<1>6. StillNewer'
  BY DEF TypeOK, States, Locked, CopiesAreOld, StillNewer
<1>7. CredentialIsNamed'
  BY DEF TypeOK, States, Locked, CopiesAreOld, StillNewer, CredentialIsNamed
<1> QED
  BY <1>1, <1>2, <1>3, <1>4, <1>5, <1>6, <1>7

\* A configure run reads its files before it takes the lock.
LEMMA LoadConfigureStep ==
    ASSUME Inv, NEW k \in Configures, loadConfigure(k) PROVE Inv'
<1> USE ProcessAssumption DEF Inv, Procs, loadConfigure, Goto, serverVars, credVars, jsonVars, fileVars, netVars, runVars
<1>1. TypeOK'
  BY OnlyAssumption DEF TypeOK, Places, States
<1>2. Locked'
  BY DEF TypeOK, Locked
<1>3. GrantInHand'
  BY DEF TypeOK, Locked, GrantInHand
<1>4. ConfigHoldsLiveGrant'
  BY DEF TypeOK, GrantInHand, ConfigHoldsLiveGrant
<1>5. CopiesAreOld'
  BY DEF TypeOK, States, CopiesAreOld
<1>6. StillNewer'
  BY DEF TypeOK, States, Locked, CopiesAreOld, StillNewer
<1>7. CredentialIsNamed'
  BY DEF TypeOK, States, Locked, CopiesAreOld, StillNewer, CredentialIsNamed
<1> QED
  BY <1>1, <1>2, <1>3, <1>4, <1>5, <1>6, <1>7

\* A configure run takes the lock.
LEMMA LockConfigureStep ==
    ASSUME Inv, NEW k \in Configures, lockConfigure(k) PROVE Inv'
<1> USE ProcessAssumption DEF Inv, Procs, lockConfigure, Goto, serverVars, credVars, jsonVars, fileVars, netVars, runVars
<1>1. TypeOK'
  BY OnlyAssumption DEF TypeOK, Places, States
<1>2. Locked'
  BY DEF TypeOK, Locked
<1>3. GrantInHand'
  BY DEF TypeOK, Locked, GrantInHand
<1>4. ConfigHoldsLiveGrant'
  BY DEF TypeOK, GrantInHand, ConfigHoldsLiveGrant
<1>5. CopiesAreOld'
  BY DEF TypeOK, States, CopiesAreOld
<1>6. StillNewer'
  BY DEF TypeOK, States, Locked, CopiesAreOld, StillNewer
<1>7. CredentialIsNamed'
  BY DEF TypeOK, States, Locked, CopiesAreOld, StillNewer, CredentialIsNamed
<1> QED
  BY <1>1, <1>2, <1>3, <1>4, <1>5, <1>6, <1>7

\* A harness is skipped before any grant is asked for.
LEMMA SkipHarnessStep ==
    ASSUME Inv, NEW k \in Configures, NEW h \in Harnesses, skipHarness(k, h) PROVE Inv'
<1> USE ProcessAssumption DEF Inv, Procs, skipHarness, Goto, HarnessDone, serverVars, credVars, jsonVars, fileVars, netVars, runVars
<1>1. TypeOK'
  BY OnlyAssumption DEF TypeOK, Places, States
<1>2. Locked'
  BY DEF TypeOK, Locked
<1>3. GrantInHand'
  BY DEF TypeOK, Locked, GrantInHand
<1>4. ConfigHoldsLiveGrant'
  BY DEF TypeOK, GrantInHand, ConfigHoldsLiveGrant
<1>5. CopiesAreOld'
  BY DEF TypeOK, States, CopiesAreOld
<1>6. StillNewer'
  BY DEF TypeOK, States, Locked, CopiesAreOld, StillNewer
<1>7. CredentialIsNamed'
  BY DEF TypeOK, States, Locked, CopiesAreOld, StillNewer, CredentialIsNamed
<1> QED
  BY <1>1, <1>2, <1>3, <1>4, <1>5, <1>6, <1>7

\* A fresh grant, with its answer received, lost or refused.
LEMMA IssueGrantStep ==
    ASSUME Inv, NEW k \in Configures, NEW h \in Harnesses, issueGrant(k, h) PROVE Inv'
<1> USE ProcessAssumption DEF Inv, Procs, issueGrant, Goto, HarnessDone, serverVars, credVars, jsonVars, fileVars, netVars, runVars
<1>1. TypeOK'
  <2>1. pc' \in [Procs -> Places] /\ todo' \in [Procs -> SUBSET Harnesses]
    BY DEF TypeOK, Places
  <2>2. configured' \in [Procs -> SUBSET Harnesses]
    BY DEF TypeOK
  <2>3. cur' \in [Procs -> Harnesses \cup {"none"}] /\ got' \in [Procs -> Nat]
    BY DEF TypeOK
  <2>4. live' \in [Harnesses -> Nat]
    BY DEF TypeOK
  <2>6. unwritten' \in [Harnesses -> BOOLEAN]
    BY DEF TypeOK
  <2>5. overtaken' \in [Harnesses -> BOOLEAN]
    BY DEF TypeOK
  <2> QED
    BY <2>1, <2>2, <2>3, <2>4, <2>5, <2>6 DEF TypeOK
<1>2. Locked'
  BY DEF TypeOK, Locked
<1>3. GrantInHand'
  BY DEF TypeOK, Locked, GrantInHand
<1>4. ConfigHoldsLiveGrant'
  BY DEF TypeOK, GrantInHand, ConfigHoldsLiveGrant
<1>5. CopiesAreOld'
  BY DEF TypeOK, States, CopiesAreOld
<1>6. StillNewer'
  BY DEF TypeOK, States, Locked, CopiesAreOld, StillNewer
<1>7. CredentialIsNamed'
  BY DEF TypeOK, States, Locked, CopiesAreOld, StillNewer, CredentialIsNamed
<1> QED
  BY <1>1, <1>2, <1>3, <1>4, <1>5, <1>6, <1>7

\* A request is given up and still on its way.
LEMMA GiveUpIssueStep ==
    ASSUME Inv, NEW k \in Configures, NEW h \in Harnesses, giveUpIssue(k, h) PROVE Inv'
<1> USE ProcessAssumption DEF Inv, Procs, giveUpIssue, Goto, HarnessDone, serverVars, credVars, jsonVars, fileVars, netVars, runVars
<1>1. TypeOK'
  BY OnlyAssumption DEF TypeOK, Places, States
<1>2. Locked'
  BY DEF TypeOK, Locked
<1>3. GrantInHand'
  BY DEF TypeOK, Locked, GrantInHand
<1>4. ConfigHoldsLiveGrant'
  BY DEF TypeOK, GrantInHand, ConfigHoldsLiveGrant
<1>5. CopiesAreOld'
  BY DEF TypeOK, States, CopiesAreOld
<1>6. StillNewer'
  BY DEF TypeOK, States, Locked, CopiesAreOld, StillNewer
<1>7. CredentialIsNamed'
  BY DEF TypeOK, States, Locked, CopiesAreOld, StillNewer, CredentialIsNamed
<1> QED
  BY <1>1, <1>2, <1>3, <1>4, <1>5, <1>6, <1>7

\* A request nobody waits for is carried out.
LEMMA ArriveLateStep ==
    ASSUME Inv, NEW k \in Configures, NEW h \in Harnesses, arriveLate(k, h) PROVE Inv'
<1> USE ProcessAssumption DEF Inv, Procs, arriveLate, serverVars, credVars, jsonVars, fileVars, netVars, runVars
<1>1. TypeOK'
  <2>1. live' \in [Harnesses -> Nat]
    BY DEF TypeOK
  <2>2. overtaken' \in [Harnesses -> BOOLEAN]
    BY DEF TypeOK
  <2> QED
    BY <2>1, <2>2 DEF TypeOK
<1>2. Locked'
  BY DEF TypeOK, Locked
<1>3. GrantInHand'
  BY DEF TypeOK, Locked, GrantInHand
<1>4. ConfigHoldsLiveGrant'
  BY DEF TypeOK, GrantInHand, ConfigHoldsLiveGrant
<1>5. CopiesAreOld'
  BY DEF TypeOK, States, CopiesAreOld
<1>6. StillNewer'
  BY DEF TypeOK, States, Locked, CopiesAreOld, StillNewer
<1>7. CredentialIsNamed'
  BY DEF TypeOK, States, Locked, CopiesAreOld, StillNewer, CredentialIsNamed
<1> QED
  BY <1>1, <1>2, <1>3, <1>4, <1>5, <1>6, <1>7

\* The token reaches the harness's config, or does not.
LEMMA ApplyConfigStep ==
    ASSUME Inv, NEW k \in Configures, applyConfig(k) PROVE Inv'
<1> USE ProcessAssumption DEF Inv, Procs, applyConfig, Goto, HarnessDone, serverVars, credVars, jsonVars, fileVars, netVars, runVars
<1>1. TypeOK'
  <2>1. pc' \in [Procs -> Places] /\ todo' \in [Procs -> SUBSET Harnesses]
    BY DEF TypeOK, Places
  <2>2. configured' \in [Procs -> SUBSET Harnesses]
    BY DEF TypeOK
  <2>3. config' \in [Harnesses -> Nat] /\ unwritten' \in [Harnesses -> BOOLEAN]
    BY DEF TypeOK
  <2> QED
    BY <2>1, <2>2, <2>3 DEF TypeOK
<1>2. Locked'
  BY DEF TypeOK, Locked
<1>3. GrantInHand'
  BY DEF TypeOK, Locked, GrantInHand
<1>4. ConfigHoldsLiveGrant'
  BY DEF TypeOK, GrantInHand, ConfigHoldsLiveGrant
<1>5. CopiesAreOld'
  BY DEF TypeOK, States, CopiesAreOld
<1>6. StillNewer'
  BY DEF TypeOK, States, Locked, CopiesAreOld, StillNewer
<1>7. CredentialIsNamed'
  BY DEF TypeOK, States, Locked, CopiesAreOld, StillNewer, CredentialIsNamed
<1> QED
  BY <1>1, <1>2, <1>3, <1>4, <1>5, <1>6, <1>7

\* The configuration record is written, or is not.
LEMMA SaveRecordStep ==
    ASSUME Inv, NEW k \in Configures, saveRecord(k) PROVE Inv'
<1> USE ProcessAssumption DEF Inv, Procs, saveRecord, Goto, HarnessDone, serverVars, credVars, jsonVars, fileVars, netVars, runVars
<1>1. TypeOK'
  <2>1. pc' \in [Procs -> Places] /\ todo' \in [Procs -> SUBSET Harnesses]
    BY DEF TypeOK, Places
  <2>2. configured' \in [Procs -> SUBSET Harnesses]
    <3>1. cur[k] \in Harnesses
      BY DEF GrantInHand
    <3> QED
      BY <3>1 DEF TypeOK
  <2> QED
    BY <2>1, <2>2 DEF TypeOK
<1>2. Locked'
  BY DEF TypeOK, Locked
<1>3. GrantInHand'
  BY DEF TypeOK, Locked, GrantInHand
<1>4. ConfigHoldsLiveGrant'
  BY DEF TypeOK, GrantInHand, ConfigHoldsLiveGrant
<1>5. CopiesAreOld'
  BY DEF TypeOK, States, CopiesAreOld
<1>6. StillNewer'
  BY DEF TypeOK, States, Locked, CopiesAreOld, StillNewer
<1>7. CredentialIsNamed'
  BY DEF TypeOK, States, Locked, CopiesAreOld, StillNewer, CredentialIsNamed
<1> QED
  BY <1>1, <1>2, <1>3, <1>4, <1>5, <1>6, <1>7

\* The lock goes before the run saves state.json.
LEMMA UnlockConfigureStep ==
    ASSUME Inv, NEW k \in Configures, unlockConfigure(k) PROVE Inv'
<1> USE ProcessAssumption DEF Inv, Procs, unlockConfigure, Goto, Release, serverVars, credVars, jsonVars, fileVars, netVars, runVars
<1>1. TypeOK'
  BY OnlyAssumption DEF TypeOK, Places, States
<1>2. Locked'
  BY DEF TypeOK, Locked
<1>3. GrantInHand'
  BY DEF TypeOK, Locked, GrantInHand
<1>4. ConfigHoldsLiveGrant'
  BY DEF TypeOK, GrantInHand, ConfigHoldsLiveGrant
<1>5. CopiesAreOld'
  BY DEF TypeOK, States, CopiesAreOld
<1>6. StillNewer'
  BY DEF TypeOK, States, Locked, CopiesAreOld, StillNewer
<1>7. CredentialIsNamed'
  BY DEF TypeOK, States, Locked, CopiesAreOld, StillNewer, CredentialIsNamed
<1> QED
  BY <1>1, <1>2, <1>3, <1>4, <1>5, <1>6, <1>7

\* The run saves its old copy of state.json with its harnesses in it.
LEMMA SaveConfigureStep ==
    ASSUME Inv, NEW k \in Configures, saveConfigure(k) PROVE Inv'
<1> USE ProcessAssumption DEF Inv, Procs, saveConfigure, Goto, Save, mergeHarnessState, serverVars, credVars, jsonVars, fileVars, netVars, runVars
<1>1. TypeOK'
  BY OnlyAssumption DEF TypeOK, Places, States
<1>2. Locked'
  BY DEF TypeOK, Locked
<1>3. GrantInHand'
  BY DEF TypeOK, Locked, GrantInHand
<1>4. ConfigHoldsLiveGrant'
  BY DEF TypeOK, GrantInHand, ConfigHoldsLiveGrant
<1>c. /\ json'.cv = snap[k].cv /\ json'.cv \in Nat /\ json.cv \in Nat
      /\ ~rolledBack' => ~rolledBack /\ ~(json'.cv < json.cv)
  BY DEF TypeOK, States
<1>d. ~rolledBack' => ~rolledBack /\ json'.cv = json.cv
  <2>1. ~rolledBack => snap[k].cv <= json.cv
    BY DEF CopiesAreOld
  <2>2. ASSUME ~rolledBack' PROVE json'.cv <= json.cv /\ ~(json'.cv < json.cv) /\ ~rolledBack
    BY <1>c, <2>1, <2>2
  <2>3. ASSUME NEW a \in Nat, NEW b \in Nat, a <= b, ~(a < b) PROVE a = b
    BY <2>3
  <2> QED
    BY <1>c, <2>2, <2>3
<1>5. CopiesAreOld'
  BY <1>d DEF CopiesAreOld
<1>6. StillNewer'
  BY DEF TypeOK, States, Locked, CopiesAreOld, StillNewer
<1>7. CredentialIsNamed'
  <2>1. UNCHANGED <<cred, torn, held>> /\ \A e \in Enrols : pc'[e] = pc[e]
    BY DEF TypeOK
  <2> QED
    BY <1>d, <2>1 DEF CredentialIsNamed
<1> QED
  BY <1>1, <1>2, <1>3, <1>4, <1>5, <1>6, <1>7

\* A component's command copies state.json without a lock.
LEMMA LoadMutateStep ==
    ASSUME Inv, NEW m \in Mutators, loadMutate(m) PROVE Inv'
<1> USE ProcessAssumption DEF Inv, Procs, loadMutate, Goto, serverVars, credVars, jsonVars, fileVars, netVars, runVars
<1>1. TypeOK'
  BY OnlyAssumption DEF TypeOK, Places, States
<1>2. Locked'
  BY DEF TypeOK, Locked
<1>3. GrantInHand'
  BY DEF TypeOK, Locked, GrantInHand
<1>4. ConfigHoldsLiveGrant'
  BY DEF TypeOK, GrantInHand, ConfigHoldsLiveGrant
<1>5. CopiesAreOld'
  BY DEF TypeOK, States, CopiesAreOld
<1>6. StillNewer'
  BY DEF TypeOK, States, Locked, CopiesAreOld, StillNewer
<1>7. CredentialIsNamed'
  BY DEF TypeOK, States, Locked, CopiesAreOld, StillNewer, CredentialIsNamed
<1> QED
  BY <1>1, <1>2, <1>3, <1>4, <1>5, <1>6, <1>7

\* It saves the copy with its own key set.
LEMMA SaveMutateStep ==
    ASSUME Inv, NEW m \in Mutators, saveMutate(m) PROVE Inv'
<1> USE ProcessAssumption DEF Inv, Procs, saveMutate, Goto, Save, serverVars, credVars, jsonVars, fileVars, netVars, runVars
<1>1. TypeOK'
  BY OnlyAssumption DEF TypeOK, Places, States
<1>2. Locked'
  BY DEF TypeOK, Locked
<1>3. GrantInHand'
  BY DEF TypeOK, Locked, GrantInHand
<1>4. ConfigHoldsLiveGrant'
  BY DEF TypeOK, GrantInHand, ConfigHoldsLiveGrant
<1>c. /\ json'.cv = snap[m].cv /\ json'.cv \in Nat /\ json.cv \in Nat
      /\ ~rolledBack' => ~rolledBack /\ ~(json'.cv < json.cv)
  BY DEF TypeOK, States
<1>d. ~rolledBack' => ~rolledBack /\ json'.cv = json.cv
  <2>1. ~rolledBack => snap[m].cv <= json.cv
    BY DEF CopiesAreOld
  <2>2. ASSUME ~rolledBack' PROVE json'.cv <= json.cv /\ ~(json'.cv < json.cv) /\ ~rolledBack
    BY <1>c, <2>1, <2>2
  <2>3. ASSUME NEW a \in Nat, NEW b \in Nat, a <= b, ~(a < b) PROVE a = b
    BY <2>3
  <2> QED
    BY <1>c, <2>2, <2>3
<1>5. CopiesAreOld'
  BY <1>d DEF CopiesAreOld
<1>6. StillNewer'
  BY DEF TypeOK, States, Locked, CopiesAreOld, StillNewer
<1>7. CredentialIsNamed'
  <2>1. UNCHANGED <<cred, torn, held>> /\ \A e \in Enrols : pc'[e] = pc[e]
    BY DEF TypeOK
  <2> QED
    BY <1>d, <2>1 DEF CredentialIsNamed
<1> QED
  BY <1>1, <1>2, <1>3, <1>4, <1>5, <1>6, <1>7

\* A process dies, and its lock with it.
LEMMA DieStep ==
    ASSUME Inv, NEW p \in Procs, Die(p) PROVE Inv'
<1> USE ProcessAssumption DEF Inv, Procs, Die, Goto, Release, serverVars, credVars, jsonVars, fileVars, netVars, runVars
<1>1. TypeOK'
  BY OnlyAssumption DEF TypeOK, Places, States
<1>2. Locked'
  BY DEF TypeOK, Locked
<1>3. GrantInHand'
  BY DEF TypeOK, Locked, GrantInHand
<1>4. ConfigHoldsLiveGrant'
  BY DEF TypeOK, GrantInHand, ConfigHoldsLiveGrant
<1>5. CopiesAreOld'
  BY DEF TypeOK, States, CopiesAreOld
<1>6. StillNewer'
  BY DEF TypeOK, States, Locked, CopiesAreOld, StillNewer
<1>7. CredentialIsNamed'
  BY DEF TypeOK, States, Locked, CopiesAreOld, StillNewer, CredentialIsNamed
<1> QED
  BY <1>1, <1>2, <1>3, <1>4, <1>5, <1>6, <1>7

\* The invariant is inductive.
LEMMA NextInv == Inv /\ [Next]_vars => Inv'
<1> SUFFICES ASSUME Inv, [Next]_vars PROVE Inv'
  OBVIOUS
<1>1. CASE UNCHANGED vars
  <2> USE <1>1 DEF vars, serverVars, credVars, jsonVars, fileVars, netVars, runVars, Inv
  <2>1. TypeOK'
    BY DEF TypeOK
  <2>2. Locked' /\ GrantInHand' /\ ConfigHoldsLiveGrant'
    BY DEF Locked, GrantInHand, ConfigHoldsLiveGrant
  <2>3. CopiesAreOld' /\ StillNewer' /\ CredentialIsNamed'
    BY DEF CopiesAreOld, StillNewer, CredentialIsNamed
  <2> QED
    BY <2>1, <2>2, <2>3
<1>2. ASSUME NEW e \in Enrols, EnrolStep(e) PROVE Inv'
  BY <1>2, CallEnrolStep, LockAndLoadStep, WriteCredentialStep, SaveEnrolmentStep DEF EnrolStep
<1>3. ASSUME NEW k \in Configures, ConfigureStep(k) PROVE Inv'
  BY <1>3, LoadConfigureStep, LockConfigureStep, SkipHarnessStep, IssueGrantStep, GiveUpIssueStep,
     ApplyConfigStep, SaveRecordStep, UnlockConfigureStep, SaveConfigureStep DEF ConfigureStep
<1>4. ASSUME NEW m \in Mutators, MutateStep(m) PROVE Inv'
  BY <1>4, LoadMutateStep, SaveMutateStep DEF MutateStep
<1>5. CASE \E p \in Procs : Step(p) \/ Die(p)
  BY <1>2, <1>3, <1>4, <1>5, DieStep DEF Step
<1>6. CASE \E k \in Configures, h \in Harnesses : arriveLate(k, h)
  BY <1>6, ArriveLateStep
<1> QED
  BY <1>1, <1>5, <1>6 DEF Next

\* The state directory always keeps its inductive invariant.
THEOREM Invariance == Spec => []Inv
BY InitInv, NextInv, PTL DEF Spec

\* However configure runs, enrolments and crashes interleave, a harness's config
\* carries the grant the server honours, unless the last grant asked for reached
\* no config or an abandoned request was carried out late.
THEOREM ConfigsHoldLiveGrants == Spec => []ConfigHoldsLiveGrant
<1>1. Inv => ConfigHoldsLiveGrant
  BY DEF Inv
<1> QED
  BY <1>1, Invariance, PTL

\* Only an admitted response writes machine.cred, and it is newer than what is
\* there unless a persist was cut short or state.json was rolled back.
LEMMA NoStaleCredential ==
    ASSUME Inv, [Next]_vars, cred' < cred PROVE torn \/ rolledBack
<1>1. cred \in Nat /\ ~(cred < cred)
  BY DEF Inv, TypeOK
<1>2. CASE UNCHANGED cred
  BY <1>1, <1>2
<1>3. ASSUME NEW e \in Enrols, writeCredential(e) PROVE torn \/ rolledBack
  <2> SUFFICES ASSUME ~torn, ~rolledBack PROVE FALSE
    OBVIOUS
  <2>1. /\ pc[e] = "loaded" /\ cred' = held[e] /\ lock = e /\ e # "free"
        /\ json.cv < held[e] /\ held[e] \in Nat /\ json.cv \in Nat
    BY <1>3, ProcessAssumption DEF writeCredential, Inv, Locked, StillNewer, TypeOK, States, Procs
  <2>2. \A x \in Enrols : pc[x] # "half"
    BY <2>1 DEF Inv, Locked
  <2>3. cred <= json.cv
    BY <2>2 DEF Inv, CredentialIsNamed
  <2> QED
    BY <1>1, <2>1, <2>3
<1>4. ASSUME NEW e \in Enrols, EnrolStep(e) PROVE UNCHANGED cred \/ writeCredential(e)
  BY <1>4 DEF EnrolStep, callEnrol, lockAndLoad, saveEnrolment, credVars
<1>5. ASSUME NEW k \in Configures, ConfigureStep(k) PROVE UNCHANGED cred
  BY <1>5 DEF ConfigureStep, loadConfigure, lockConfigure, skipHarness, issueGrant, giveUpIssue,
     applyConfig, saveRecord, unlockConfigure, saveConfigure, credVars
<1>6. ASSUME NEW m \in Mutators, MutateStep(m) PROVE UNCHANGED cred
  BY <1>6 DEF MutateStep, loadMutate, saveMutate, credVars
<1>7. CASE UNCHANGED vars
  BY <1>2, <1>7 DEF vars, credVars
<1>8. CASE \E p \in Procs : Step(p)
  BY <1>2, <1>3, <1>4, <1>5, <1>6, <1>8 DEF Step
<1>9. CASE \E p \in Procs : Die(p)
  BY <1>2, <1>9 DEF Die
<1>10. CASE \E k \in Configures, h \in Harnesses : arriveLate(k, h)
  BY <1>2, <1>10 DEF arriveLate, credVars
<1> QED
  BY <1>7, <1>8, <1>9, <1>10 DEF Next

\* An enrolment response that was overtaken by a newer one never replaces it,
\* whoever else works in the directory meanwhile (enrol.go:131-134).
THEOREM StaleResponsesAreDiscarded == Spec => StaleResponseIsDiscarded
<1>1. Inv /\ [Next]_vars => [cred' < cred => torn \/ rolledBack]_vars
  BY NoStaleCredential
<1> QED
  BY <1>1, Invariance, PTL DEF Spec, StaleResponseIsDiscarded

=============================================================================
