------------------------------ MODULE AgentState ------------------------------
(***************************************************************************)
(* The agent's state directory on one machine, and the processes that share  *)
(* it: `enrol` (internal/agent/enrol.go), `configure-harnesses`              *)
(* (cmd/homeplane-agent/harnesses.go, internal/agent/harness/configure.go)   *)
(* and the commands and supervised processes that record a component's state *)
(* through mutateState (cmd/homeplane-agent/vault.go).                       *)
(*                                                                         *)
(* One action is one file operation, one locked section boundary, or one     *)
(* answer of the server; a file is replaced atomically (writeFileAtomic).    *)
(* The machine credential is its version, a grant its number in the sequence *)
(* of grants of its harness: the server honours only the newest of each.     *)
(***************************************************************************)
EXTENDS Naturals

CONSTANTS
    Enrols,      \* `enrol` processes
    Configures,  \* `configure-harnesses` processes
    Mutators,    \* processes that call mutateState, one state.json key each
    Harnesses,   \* harnesses of the machine
    Only         \* the harnesses a configure process was asked for

ASSUME OnlyAssumption == Only \in [Configures -> SUBSET Harnesses]
ASSUME ProcessAssumption ==
    /\ "free" \notin Enrols \cup Configures
    /\ Enrols \cap Configures = {}
    /\ (Enrols \cup Configures) \cap Mutators = {}

Procs == Enrols \cup Configures \cup Mutators

VARIABLES
    serverVersion, \* credential_version on the server
    live,          \* per harness: the grant that is active on the server
    cred,          \* machine.cred; 0 is no file
    json,          \* state.json: credential_version, harnesses, component notes
    config,        \* per harness: the grant whose token its config carries
    record,        \* per harness: the grant its configuration record names
    lock,          \* the flock on .lock
    pc,            \* how far a process is
    snap,          \* the state.json a process loaded
    held,          \* the version an enrol response, or a configure run, carries
    todo,          \* harnesses a configure run has not come to yet
    cur,           \* the harness it is at, once a grant is in hand
    got,           \* that grant
    configured,    \* the harnesses it configured
    torn,          \* a persist was cut between its two files
    rolledBack,    \* state.json went back to an older credential version
    unwritten,     \* per harness: the last grant a run asked for reached no config
    delayed,       \* <<run, harness>>: grant requests given up and still on the way
    overtaken      \* per harness: such a request was carried out since

serverVars == <<serverVersion, live>>
credVars   == <<cred, torn>>
jsonVars   == <<json, rolledBack>>
fileVars   == <<config, record, unwritten>>
netVars    == <<delayed, overtaken>>
runVars    == <<snap, held, todo, cur, got, configured>>
vars == <<serverVars, credVars, jsonVars, fileVars, netVars, lock, pc, runVars>>

NoState == [cv |-> 0, harnesses |-> {}, notes |-> {}]

Init ==
    /\ serverVersion = 0
    /\ live = [h \in Harnesses |-> 0]
    /\ cred = 0
    /\ json = NoState
    /\ config = [h \in Harnesses |-> 0]
    /\ record = [h \in Harnesses |-> 0]
    /\ lock = "free"
    /\ pc = [p \in Procs |-> "idle"]
    /\ snap = [p \in Procs |-> NoState]
    /\ held = [p \in Procs |-> 0]
    /\ todo = [p \in Procs |-> {}]
    /\ cur = [p \in Procs |-> "none"]
    /\ got = [p \in Procs |-> 0]
    /\ configured = [p \in Procs |-> {}]
    /\ torn = FALSE
    /\ rolledBack = FALSE
    /\ unwritten = [h \in Harnesses |-> FALSE]
    /\ delayed = {}
    /\ overtaken = [h \in Harnesses |-> FALSE]

-----------------------------------------------------------------------------

Goto(p, where) == pc' = [pc EXCEPT ![p] = where]

Release(p) == lock' = IF lock = p THEN "free" ELSE lock

\* Store.Save replaces the whole file by what the process makes of its copy.
Save(j) ==
    /\ json' = j
    /\ rolledBack' = (rolledBack \/ j.cv < json.cv)

-----------------------------------------------------------------------------
(***************************************************************************)
(* enrol: the server rotates, then the response is persisted under the lock. *)
(***************************************************************************)

\* The server answers, or its answer is lost after it rotated.
callEnrol(e) ==
    /\ pc[e] = "idle"
    /\ serverVersion' = serverVersion + 1
    /\ \/ Goto(e, "responded") /\ held' = [held EXCEPT ![e] = serverVersion + 1]
       \/ Goto(e, "done") /\ UNCHANGED held
    /\ UNCHANGED <<live, credVars, jsonVars, fileVars, netVars, lock, snap, todo, cur, got, configured>>

\* Mutant: the last response to arrive wins.
AnyIsNewer(e) == FALSE

\* The version state.json names is not older than the response's.
notNewer(e) == json.cv >= held[e]

\* PersistEnrolment: lock, load, and discard a response that is not newer than
\* the version state.json names.
lockAndLoad(e) ==
    /\ pc[e] = "responded"
    /\ lock = "free"
    /\ IF notNewer(e)
       THEN Goto(e, "done") /\ UNCHANGED <<lock, snap>>
       ELSE /\ lock' = e
            /\ snap' = [snap EXCEPT ![e] = json]
            /\ Goto(e, "loaded")
    /\ UNCHANGED <<serverVars, credVars, jsonVars, fileVars, netVars, held, todo, cur, got, configured>>

\* SaveEnrolment writes machine.cred first ...
writeCredential(e) ==
    /\ pc[e] = "loaded"
    /\ cred' = held[e]
    /\ Goto(e, "half")
    /\ UNCHANGED <<serverVars, torn, jsonVars, fileVars, netVars, lock, runVars>>

\* ... and then state.json.
saveEnrolment(e) ==
    /\ pc[e] = "half"
    /\ Save([snap[e] EXCEPT !.cv = held[e]])
    /\ Release(e)
    /\ Goto(e, "done")
    /\ UNCHANGED <<serverVars, credVars, fileVars, netVars, runVars>>

-----------------------------------------------------------------------------
(***************************************************************************)
(* configure-harnesses: load, then Configure under the lock, then save.      *)
(***************************************************************************)

\* state.json and machine.cred are read before the lock is taken.
loadConfigure(k) ==
    /\ pc[k] = "idle"
    /\ json.cv > 0
    /\ cred > 0
    /\ snap' = [snap EXCEPT ![k] = json]
    /\ held' = [held EXCEPT ![k] = cred]
    /\ Goto(k, "opened")
    /\ UNCHANGED <<serverVars, credVars, jsonVars, fileVars, netVars, lock, todo, cur, got, configured>>

\* Mutant: the run is not serialised.
NoLock(k) ==
    /\ pc[k] = "opened"
    /\ todo' = [todo EXCEPT ![k] = Only[k]]
    /\ Goto(k, "configuring")
    /\ UNCHANGED <<serverVars, credVars, jsonVars, fileVars, netVars, lock, snap, held, cur, got, configured>>

lockConfigure(k) ==
    /\ pc[k] = "opened"
    /\ lock = "free"
    /\ lock' = k
    /\ todo' = [todo EXCEPT ![k] = Only[k]]
    /\ Goto(k, "configuring")
    /\ UNCHANGED <<serverVars, credVars, jsonVars, fileVars, netVars, snap, held, cur, got, configured>>

\* The run is through with h, which it configured or did not.
HarnessDone(k, h, ok) ==
    /\ todo' = [todo EXCEPT ![k] = @ \ {h}]
    /\ configured' = [configured EXCEPT ![k] = IF ok THEN @ \cup {h} ELSE @]
    /\ Goto(k, "configuring")

\* Not installed, malformed, or its record is unreadable: found before any grant
\* is asked for.
skipHarness(k, h) ==
    /\ pc[k] = "configuring"
    /\ h \in todo[k]
    /\ HarnessDone(k, h, FALSE)
    /\ UNCHANGED <<serverVars, credVars, jsonVars, fileVars, netVars, lock, snap, held, cur, got>>

\* A fresh grant supersedes the harness's previous one.  The server refuses a
\* credential that was rotated since the run read it, and its answer may be lost.
issueGrant(k, h) ==
    /\ pc[k] = "configuring"
    /\ h \in todo[k]
    /\ IF held[k] = serverVersion
       THEN /\ live' = [live EXCEPT ![h] = @ + 1]
            /\ unwritten' = [unwritten EXCEPT ![h] = TRUE]
            /\ overtaken' = [overtaken EXCEPT ![h] = FALSE]
            /\ \/ /\ cur' = [cur EXCEPT ![k] = h]
                  /\ got' = [got EXCEPT ![k] = live[h] + 1]
                  /\ Goto(k, "issued")
                  /\ UNCHANGED <<todo, configured>>
               \/ HarnessDone(k, h, FALSE) /\ UNCHANGED <<cur, got>>
       ELSE HarnessDone(k, h, FALSE) /\ UNCHANGED <<live, unwritten, overtaken, cur, got>>
    /\ UNCHANGED <<serverVersion, credVars, jsonVars, config, record, delayed, lock, snap, held>>

\* The client's timeout ends the wait and the request is still under way.
giveUpIssue(k, h) ==
    /\ pc[k] = "configuring"
    /\ h \in todo[k]
    /\ delayed' = delayed \cup {<<k, h>>}
    /\ HarnessDone(k, h, FALSE)
    /\ UNCHANGED <<serverVars, credVars, jsonVars, fileVars, overtaken, lock, snap, held, cur, got>>

\* It arrives: the server supersedes whatever grant is the newest by now, with
\* one that nobody is waiting for, unless the credential was rotated meanwhile.
arriveLate(k, h) ==
    /\ <<k, h>> \in delayed
    /\ delayed' = delayed \ {<<k, h>>}
    /\ IF held[k] = serverVersion
       THEN /\ live' = [live EXCEPT ![h] = @ + 1]
            /\ overtaken' = [overtaken EXCEPT ![h] = TRUE]
       ELSE UNCHANGED <<live, overtaken>>
    /\ UNCHANGED <<serverVersion, credVars, jsonVars, fileVars, lock, pc, runVars>>

\* Writer.Apply puts the token in, or leaves the config as it was.
applyConfig(k) ==
    LET h == cur[k] IN
    /\ pc[k] = "issued"
    /\ \/ /\ config' = [config EXCEPT ![h] = got[k]]
          /\ unwritten' = [unwritten EXCEPT ![h] = FALSE]
          /\ Goto(k, "applied")
          /\ UNCHANGED <<todo, configured>>
       \/ HarnessDone(k, h, FALSE) /\ UNCHANGED <<config, unwritten>>
    /\ UNCHANGED <<serverVars, credVars, jsonVars, record, netVars, lock, snap, held, cur, got>>

saveRecord(k) ==
    LET h == cur[k] IN
    /\ pc[k] = "applied"
    /\ \/ record' = [record EXCEPT ![h] = got[k]] /\ HarnessDone(k, h, TRUE)
       \/ UNCHANGED record /\ HarnessDone(k, h, FALSE)
    /\ UNCHANGED <<serverVars, credVars, jsonVars, config, unwritten, netVars, lock, snap, held, cur, got>>

\* Configure returns and its deferred release runs.
unlockConfigure(k) ==
    /\ pc[k] = "configuring"
    /\ todo[k] = {}
    /\ Release(k)
    /\ Goto(k, "unlocked")
    /\ UNCHANGED <<serverVars, credVars, jsonVars, fileVars, netVars, runVars>>

\* mergeHarnessState: what was attempted is in the list iff it was configured.
mergeHarnessState(k) == (snap[k].harnesses \ Only[k]) \cup configured[k]

saveConfigure(k) ==
    /\ pc[k] = "unlocked"
    /\ Save([snap[k] EXCEPT !.harnesses = mergeHarnessState(k)])
    /\ Goto(k, "done")
    /\ UNCHANGED <<serverVars, credVars, fileVars, netVars, lock, runVars>>

-----------------------------------------------------------------------------
(***************************************************************************)
(* mutateState: load, set one key, save; no lock.                            *)
(***************************************************************************)

loadMutate(m) ==
    /\ pc[m] = "idle"
    /\ snap' = [snap EXCEPT ![m] = json]
    /\ Goto(m, "copied")
    /\ UNCHANGED <<serverVars, credVars, jsonVars, fileVars, netVars, lock, held, todo, cur, got, configured>>

saveMutate(m) ==
    /\ pc[m] = "copied"
    /\ Save([snap[m] EXCEPT !.notes = @ \cup {m}])
    /\ Goto(m, "done")
    /\ UNCHANGED <<serverVars, credVars, fileVars, netVars, lock, runVars>>

-----------------------------------------------------------------------------

\* The process is killed, or a file operation fails and it returns the error;
\* either way the flock goes with it.
Die(p) ==
    /\ pc[p] \notin {"idle", "done"}
    /\ torn' = (torn \/ pc[p] = "half")
    /\ Release(p)
    /\ Goto(p, "done")
    /\ UNCHANGED <<serverVars, cred, jsonVars, fileVars, netVars, runVars>>

EnrolStep(e) == callEnrol(e) \/ lockAndLoad(e) \/ writeCredential(e) \/ saveEnrolment(e)

ConfigureStep(k) ==
    \/ loadConfigure(k) \/ lockConfigure(k)
    \/ \E h \in Harnesses : skipHarness(k, h) \/ issueGrant(k, h) \/ giveUpIssue(k, h)
    \/ applyConfig(k) \/ saveRecord(k) \/ unlockConfigure(k) \/ saveConfigure(k)

MutateStep(m) == loadMutate(m) \/ saveMutate(m)

Step(p) ==
    \/ p \in Enrols /\ EnrolStep(p)
    \/ p \in Configures /\ ConfigureStep(p)
    \/ p \in Mutators /\ MutateStep(p)

Next ==
    \/ \E p \in Procs : Step(p) \/ Die(p)
    \/ \E k \in Configures, h \in Harnesses : arriveLate(k, h)

Spec == Init /\ [][Next]_vars

-----------------------------------------------------------------------------
(***************************************************************************)
(* Properties.                                                              *)
(***************************************************************************)

\* "A issues, B issues, B writes, A writes" cannot happen (configure.go:57-62):
\* unless the last grant asked for reached no config at all, or a request somebody
\* gave up on was carried out after it, the token in a harness's config is the
\* one the server honours.
ConfigHoldsLiveGrant ==
    \A h \in Harnesses : ~unwritten[h] /\ ~overtaken[h] => config[h] = live[h]

\* "a response whose credential version is not NEWER than the stored one for the
\* same machine is refused outright" (enrol.go:131-134): as long as no persist was
\* cut short and nobody rolled state.json back, an older credential never
\* replaces a newer one.
StaleResponseIsDiscarded == [][cred' < cred => torn \/ rolledBack]_vars

=============================================================================
