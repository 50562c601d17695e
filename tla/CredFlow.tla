------------------------------- MODULE CredFlow -------------------------------
(***************************************************************************)
(* The credential broker of the control-plane server                       *)
(* (internal/server/credflow): a machine starts an OAuth flow, relays what  *)
(* the human did exactly once, and a server-owned job redeems the code and  *)
(* swaps the credential into the store.                                     *)
(*                                                                         *)
(* One action is one critical section of Service.mu, or one call of the     *)
(* store; everything between two of them interleaves with every other       *)
(* request, job and sweep of the server.  A flow id stands for one start    *)
(* request (ids are random and never reused), so the machine that sends it  *)
(* and the provider it names are functions of the id.                       *)
(***************************************************************************)
EXTENDS Naturals, Sequences, FiniteSets

CONSTANTS
    Flows,       \* flow ids, one per start request
    Machines,    \* enrolled machines
    Providers,   \* registered connectors, one credential ref each
    MachineOf,   \* the machine whose request a flow is
    ProviderOf,  \* the provider the request names
    MaxActive,   \* Config.MaxActiveFlowsPerMachine
    MaxImport    \* bound: the operator imports only below this generation

ASSUME MachineAssumption == MachineOf \in [Flows -> Machines]
ASSUME ProviderAssumption == ProviderOf \in [Flows -> Providers]
ASSUME FlowAssumption == Flows \cap {"nobody", "handler"} = {}
ASSUME BoundAssumption == MaxActive \in Nat \ {0} /\ MaxImport \in Nat

VARIABLES
    stage,      \* progress of the start request, then membership of s.flows
    todo,       \* stale flows the start's own sweep still has to expire
    observed,   \* flow.observedGeneration
    state,      \* flow.state, what a poll is shown
    decided,    \* flow.decided: an ending not yet on the record
    relayed,    \* flow.relayed, the one-shot
    closed,     \* now is past flow.expiresAt
    aged,       \* the terminal state is older than TerminalRetention
    saw,        \* a settle found the flow expirable and has not claimed it yet
    relaying,   \* a relay request is past its settle, before consumeRelay
    job,        \* the exchange job, or the denial, of the flow
    owner,      \* who decided the ending and still owes a commitTerminal call
    holder,     \* flow.terminalMu: who holds it, and how far the write is
    snap,       \* the decision commitTerminal read before it wrote
    gen,        \* per provider: generation in the secrets table
    trail       \* per flow: the rows of the audit log that carry its id

startVars == <<stage, todo, observed>>
flowVars  == <<state, decided, relayed, closed, aged>>
reqVars   == <<saw, relaying>>
endVars   == <<owner, holder, snap>>
dbVars    == <<gen, trail>>
vars == <<startVars, flowVars, reqVars, job, endVars, dbVars>>

-----------------------------------------------------------------------------

\* Endings that need an audit row of their own; `completed` does not.
Endings == {"failed", "denied", "expired", "undelivered"}

Terminal == Endings \cup {"completed"}

Stages == {"idle", "sweeping", "swept", "checked", "observed", "recorded", "open", "gone"}

\* The row of an ending is in, and whoever wrote it still holds terminalMu.
Wrote == {"ownerWrote", "settleWrote"}

Jobs == {"none", "denying", "exchanging", "storing", "delivering"}

Init ==
    /\ stage    = [f \in Flows |-> "idle"]
    /\ todo     = [f \in Flows |-> {}]
    /\ observed = [f \in Flows |-> 0]
    /\ state    = [f \in Flows |-> "pending"]
    /\ decided  = [f \in Flows |-> "nil"]
    /\ relayed  = [f \in Flows |-> FALSE]
    /\ closed   = [f \in Flows |-> FALSE]
    /\ aged     = [f \in Flows |-> FALSE]
    /\ saw      = [f \in Flows |-> FALSE]
    /\ relaying = [f \in Flows |-> FALSE]
    /\ job      = [f \in Flows |-> "none"]
    /\ owner    = [f \in Flows |-> "nobody"]
    /\ holder   = [f \in Flows |-> "free"]
    /\ snap     = [f \in Flows |-> "nil"]
    /\ gen      = [p \in Providers |-> 0]
    /\ trail    = [f \in Flows |-> <<>>]

\* The consent window has closed on a flow nobody relayed and nobody ended.
expirableLocked(f) ==
    /\ state[f] \notin Terminal
    /\ decided[f] = "nil"
    /\ ~relayed[f]
    /\ closed[f]

-----------------------------------------------------------------------------
(***************************************************************************)
(* start: sweep, budget, generation, audit row, and only then the map.      *)
(***************************************************************************)

\* The locked pass of sweep: remember the stale flows, forget the old ones.
Sweep(f) ==
    LET open      == {g \in Flows : stage[g] = "open"}
        forgotten == {g \in open : state[g] \in Terminal /\ aged[g]}
    IN  /\ stage[f] = "idle"
        /\ todo' = [todo EXCEPT ![f] = {g \in open : expirableLocked(g)}]
        /\ stage' = [g \in Flows |-> IF g = f THEN "sweeping"
                                     ELSE IF g \in forgotten THEN "gone" ELSE stage[g]]
        /\ UNCHANGED <<observed, flowVars, reqVars, job, endVars, dbVars>>

\* Mutant: the sweep trusts the list it made before it let go of the lock.
ClaimBlindly(g, who) ==
    /\ decided' = [decided EXCEPT ![g] = "expired"]
    /\ owner'   = [owner EXCEPT ![g] = who]

\* Eligibility is tested again under the lock, and the decision is the claim.
claimExpiry(g, who) ==
    IF expirableLocked(g)
    THEN /\ decided' = [decided EXCEPT ![g] = "expired"]
         /\ owner'   = [owner EXCEPT ![g] = who]
    ELSE UNCHANGED <<decided, owner>>

\* One iteration of the sweep's second loop; the write that follows is
\* synchronous, so the next iteration waits until this one owes nothing.
SweepExpire(f, g) ==
    /\ stage[f] = "sweeping"
    /\ g \in todo[f]
    /\ \A h \in Flows : owner[h] # f
    /\ todo' = [todo EXCEPT ![f] = @ \ {g}]
    /\ claimExpiry(g, f)
    /\ UNCHANGED <<stage, observed, state, relayed, closed, aged, reqVars, job,
                   holder, snap, dbVars>>

SweepDone(f) ==
    /\ stage[f] = "sweeping"
    /\ todo[f] = {}
    /\ \A h \in Flows : owner[h] # f
    /\ stage' = [stage EXCEPT ![f] = "swept"]
    /\ UNCHANGED <<todo, observed, flowVars, reqVars, job, endVars, dbVars>>

activeFlows(m) ==
    {g \in Flows : stage[g] = "open" /\ MachineOf[g] = m /\ state[g] \notin Terminal}

checkFlowBudget(f) ==
    /\ stage[f] = "swept"
    /\ stage' = [stage EXCEPT ![f] =
            IF Cardinality(activeFlows(MachineOf[f])) >= MaxActive THEN "idle" ELSE "checked"]
    /\ UNCHANGED <<todo, observed, flowVars, reqVars, job, endVars, dbVars>>

\* GetSecret: a provider that holds a credential is refused unless `replace`.
ObserveGeneration(f, replace) ==
    LET g == gen[ProviderOf[f]]
    IN  /\ stage[f] = "checked"
        /\ IF g > 0 /\ ~replace
           THEN stage' = [stage EXCEPT ![f] = "idle"] /\ UNCHANGED observed
           ELSE /\ stage' = [stage EXCEPT ![f] = "observed"]
                /\ observed' = [observed EXCEPT ![f] = g]
        /\ UNCHANGED <<todo, flowVars, reqVars, job, endVars, dbVars>>

RecordStart(f) ==
    /\ stage[f] = "observed"
    /\ stage' = [stage EXCEPT ![f] = "recorded"]
    /\ trail' = [trail EXCEPT ![f] = Append(@, "started")]
    /\ UNCHANGED <<todo, observed, flowVars, reqVars, job, endVars, gen>>

\* A secret, the credential or the audit log cannot be read or written: the
\* request is refused and leaves nothing behind.
StartRefused(f) ==
    /\ stage[f] \in {"checked", "observed"}
    /\ stage' = [stage EXCEPT ![f] = "idle"]
    /\ UNCHANGED <<todo, observed, flowVars, reqVars, job, endVars, dbVars>>

Insert(f) ==
    /\ stage[f] = "recorded"
    /\ stage' = [stage EXCEPT ![f] = "open"]
    /\ UNCHANGED <<todo, observed, flowVars, reqVars, job, endVars, dbVars>>

-----------------------------------------------------------------------------
(***************************************************************************)
(* settle: applied by every poll and every relay to the flow it names.      *)
(***************************************************************************)

\* settle's locked read found the flow expirable.
SettleSees(f) ==
    /\ stage[f] = "open"
    /\ expirableLocked(f)
    /\ saw' = [saw EXCEPT ![f] = TRUE]
    /\ UNCHANGED <<startVars, flowVars, relaying, job, endVars, dbVars>>

\* ... and its expire runs some time later.
SettleExpire(f) ==
    /\ saw[f]
    /\ saw' = [saw EXCEPT ![f] = FALSE]
    /\ claimExpiry(f, "handler")
    /\ UNCHANGED <<startVars, state, relayed, closed, aged, relaying, job,
                   holder, snap, dbVars>>

-----------------------------------------------------------------------------
(***************************************************************************)
(* relay: settle, consumeRelay, then a job for a code or the denial.        *)
(***************************************************************************)

\* A relay request that settle did not divert into an expiry or a retry.
RelaySettled(f) ==
    /\ stage[f] = "open"
    /\ ~expirableLocked(f)
    /\ decided[f] = "nil"
    /\ relaying' = [relaying EXCEPT ![f] = TRUE]
    /\ UNCHANGED <<startVars, flowVars, saw, job, endVars, dbVars>>

\* out is what the loopback listener saw: a code or an error, with the flow's
\* own state parameter or ("forged") another one.
consumeRelay(f, out) ==
    /\ relaying[f]
    /\ relaying' = [relaying EXCEPT ![f] = FALSE]
    /\ IF relayed[f] \/ state[f] \in Terminal \/ decided[f] # "nil" \/ out = "forged"
       THEN UNCHANGED <<relayed, job>>
       ELSE /\ relayed' = [relayed EXCEPT ![f] = TRUE]
            /\ job' = [job EXCEPT ![f] = IF out = "code" THEN "exchanging" ELSE "denying"]
    /\ UNCHANGED <<startVars, state, decided, closed, aged, saw, endVars, dbVars>>

\* terminate's locked section: the first decision stands, a finished flow is
\* left alone, and whoever decided goes on to commitTerminal.
terminate(f, ending) ==
    IF state[f] \in Terminal
    THEN UNCHANGED <<decided, owner>>
    ELSE /\ decided' = [decided EXCEPT ![f] = IF @ = "nil" THEN ending ELSE @]
         /\ owner'   = [owner EXCEPT ![f] = "handler"]

Deny(f) ==
    /\ job[f] = "denying"
    /\ job' = [job EXCEPT ![f] = "none"]
    /\ terminate(f, "denied")
    /\ UNCHANGED <<startVars, state, relayed, closed, aged, reqVars, holder, snap, dbVars>>

-----------------------------------------------------------------------------
(***************************************************************************)
(* exchangeAndStore: the server-owned job.                                  *)
(***************************************************************************)

\* The client credentials, the exchange or the sealing failed.
ExchangeFails(f) ==
    /\ job[f] = "exchanging"
    /\ job' = [job EXCEPT ![f] = "none"]
    /\ terminate(f, "failed")
    /\ UNCHANGED <<startVars, state, relayed, closed, aged, reqVars, holder, snap, dbVars>>

ExchangeSucceeds(f) ==
    /\ job[f] = "exchanging"
    /\ job' = [job EXCEPT ![f] = "storing"]
    /\ UNCHANGED <<startVars, flowVars, reqVars, endVars, dbVars>>

\* Mutant: the credential is written whatever generation is stored.
StoreBlindly(f) ==
    /\ job[f] = "storing"
    /\ gen' = [gen EXCEPT ![ProviderOf[f]] = @ + 1]
    /\ trail' = [trail EXCEPT ![f] = Append(@, "committed")]
    /\ job' = [job EXCEPT ![f] = "delivering"]
    /\ UNCHANGED <<startVars, flowVars, reqVars, endVars>>

\* PutSecretCAS: compare, write and audit row are one transaction.
StoreCredential(f) ==
    LET p == ProviderOf[f]
    IN  /\ job[f] = "storing"
        /\ gen[p] = observed[f]
        /\ gen' = [gen EXCEPT ![p] = @ + 1]
        /\ trail' = [trail EXCEPT ![f] = Append(@, "committed")]
        /\ job' = [job EXCEPT ![f] = "delivering"]
        /\ UNCHANGED <<startVars, flowVars, reqVars, endVars>>

\* The transaction failed, or (always possible to report once the generations
\* differ) found another generation: nothing was written.
StoreFails(f) ==
    /\ job[f] = "storing"
    /\ job' = [job EXCEPT ![f] = "none"]
    /\ terminate(f, "failed")
    /\ UNCHANGED <<startVars, state, relayed, closed, aged, reqVars, holder, snap, dbVars>>

\* Mutant: a failed delivery is only logged.
DeliveryFailsSilently(f) ==
    /\ job[f] = "delivering"
    /\ job' = [job EXCEPT ![f] = "none"]
    /\ UNCHANGED <<startVars, flowVars, reqVars, endVars, dbVars>>

DeliveryFails(f) ==
    /\ job[f] = "delivering"
    /\ job' = [job EXCEPT ![f] = "none"]
    /\ terminate(f, "undelivered")
    /\ UNCHANGED <<startVars, state, relayed, closed, aged, reqVars, holder, snap, dbVars>>

\* OnCommitted succeeded (or is not configured); complete exposes the ending at
\* once, its row having landed with the credential.
complete(f) ==
    /\ job[f] = "delivering"
    /\ job' = [job EXCEPT ![f] = "none"]
    /\ IF state[f] \in Terminal
       THEN UNCHANGED <<state, decided>>
       ELSE /\ state'   = [state EXCEPT ![f] = "completed"]
            /\ decided' = [decided EXCEPT ![f] = "nil"]
    /\ UNCHANGED <<startVars, relayed, closed, aged, reqVars, endVars, dbVars>>

-----------------------------------------------------------------------------
(***************************************************************************)
(* commitTerminal: one writer per flow, the row before the state.           *)
(***************************************************************************)

\* Mutant: a poll does not retry a decided ending.
OwnerOnly(f, who) == who = "owner" /\ owner[f] # "nobody"

\* `who` is the call its decider owes, or a settle that found a decided flow.
mayCommit(f, who) ==
    IF who = "owner" THEN owner[f] # "nobody"
                     ELSE stage[f] = "open" /\ decided[f] # "nil" /\ state[f] \notin Terminal

\* Mutant: a call that finds nothing decided goes on.
AlwaysCommit(f) == FALSE

\* Nothing is decided, or the ending is already shown.
nothingToCommit(f) == decided[f] = "nil" \/ state[f] \in Terminal

\* terminalMu is taken and the decision read.
BeginTerminalWrite(f, who) ==
    /\ mayCommit(f, who)
    /\ holder[f] = "free"
    /\ IF nothingToCommit(f)
       THEN owner' = [owner EXCEPT ![f] = "nobody"] /\ UNCHANGED <<holder, snap>>
       ELSE /\ holder' = [holder EXCEPT ![f] = who]
            /\ snap'   = [snap EXCEPT ![f] = decided[f]]
            /\ UNCHANGED owner
    /\ UNCHANGED <<startVars, flowVars, reqVars, job, dbVars>>

TerminalRowWritten(f) ==
    /\ holder[f] \in {"owner", "settle"}
    /\ holder' = [holder EXCEPT ![f] = IF @ = "owner" THEN "ownerWrote" ELSE "settleWrote"]
    /\ trail' = [trail EXCEPT ![f] = Append(@, snap[f])]
    /\ UNCHANGED <<startVars, flowVars, reqVars, job, owner, snap, gen>>

\* Mutant: the ending is shown although its row was not written.
RowLost(f) ==
    /\ holder[f] \in {"owner", "settle"}
    /\ holder' = [holder EXCEPT ![f] = IF @ = "owner" THEN "ownerWrote" ELSE "settleWrote"]
    /\ UNCHANGED <<startVars, flowVars, reqVars, job, owner, snap, dbVars>>

\* AppendAudit failed: the flow stays decided, and the decider's one call is over.
TerminalRowFails(f) ==
    /\ holder[f] \in {"owner", "settle"}
    /\ owner' = IF holder[f] = "owner" THEN [owner EXCEPT ![f] = "nobody"] ELSE owner
    /\ holder' = [holder EXCEPT ![f] = "free"]
    /\ snap' = [snap EXCEPT ![f] = "nil"]
    /\ UNCHANGED <<startVars, flowVars, reqVars, job, dbVars>>

\* The row is in: expose.  A decider that waited for terminalMu meanwhile will
\* find nothing left to do.
ExposeTerminal(f) ==
    /\ holder[f] \in Wrote
    /\ holder' = [holder EXCEPT ![f] = "free"]
    /\ owner' = IF holder[f] = "ownerWrote" THEN [owner EXCEPT ![f] = "nobody"] ELSE owner
    /\ snap' = [snap EXCEPT ![f] = "nil"]
    /\ IF state[f] \in Terminal
       THEN UNCHANGED <<state, decided>>
       ELSE /\ state'   = [state EXCEPT ![f] = snap[f]]
            /\ decided' = [decided EXCEPT ![f] = "nil"]
    /\ UNCHANGED <<startVars, relayed, closed, aged, reqVars, job, dbVars>>

-----------------------------------------------------------------------------
(***************************************************************************)
(* The environment: time, the operator's import, and the process dying.     *)
(***************************************************************************)

CloseWindow(f) ==
    /\ stage[f] \in {"recorded", "open"}
    /\ ~closed[f]
    /\ closed' = [closed EXCEPT ![f] = TRUE]
    /\ UNCHANGED <<startVars, state, decided, relayed, aged, reqVars, job, endVars, dbVars>>

Age(f) ==
    /\ stage[f] = "open"
    /\ state[f] \in Terminal
    /\ ~aged[f]
    /\ aged' = [aged EXCEPT ![f] = TRUE]
    /\ UNCHANGED <<startVars, state, decided, relayed, closed, reqVars, job, endVars, dbVars>>

\* `homeplane-server secret import`: PutSecret, last writer wins.
PutSecret(p) ==
    /\ gen[p] < MaxImport
    /\ gen' = [gen EXCEPT ![p] = @ + 1]
    /\ UNCHANGED <<startVars, flowVars, reqVars, job, endVars, trail>>

\* The server dies and starts again: requests, jobs and the map are gone, the
\* database is what it was.  An id the log knows is never handed out again.
Crash ==
    /\ \E f \in Flows : stage[f] \notin {"idle", "gone"}
    /\ stage'    = [f \in Flows |-> IF trail[f] = <<>> THEN "idle" ELSE "gone"]
    /\ todo'     = [f \in Flows |-> {}]
    /\ decided'  = [f \in Flows |-> "nil"]
    /\ saw'      = [f \in Flows |-> FALSE]
    /\ relaying' = [f \in Flows |-> FALSE]
    /\ job'      = [f \in Flows |-> "none"]
    /\ owner'    = [f \in Flows |-> "nobody"]
    /\ holder'   = [f \in Flows |-> "free"]
    /\ snap'     = [f \in Flows |-> "nil"]
    /\ UNCHANGED <<observed, state, relayed, closed, aged, dbVars>>

-----------------------------------------------------------------------------

Start(f) ==
    \/ Sweep(f)
    \/ \E g \in Flows : SweepExpire(f, g)
    \/ SweepDone(f)
    \/ checkFlowBudget(f)
    \/ \E replace \in BOOLEAN : ObserveGeneration(f, replace)
    \/ RecordStart(f)
    \/ StartRefused(f)
    \/ Insert(f)

Relay(f) ==
    \/ RelaySettled(f)
    \/ \E out \in {"code", "error", "forged"} : consumeRelay(f, out)

\* Every step of the job the server started for a relayed flow.
Job(f) ==
    \/ Deny(f)
    \/ ExchangeFails(f)
    \/ ExchangeSucceeds(f)
    \/ StoreCredential(f)
    \/ StoreFails(f)
    \/ DeliveryFails(f)
    \/ complete(f)

Settle(f) ==
    \/ SettleSees(f)
    \/ SettleExpire(f)
    \/ BeginTerminalWrite(f, "settle")

Next ==
    \/ \E f \in Flows :
        \/ Start(f)
        \/ Settle(f)
        \/ Relay(f)
        \/ Job(f)
        \/ BeginTerminalWrite(f, "owner")
        \/ TerminalRowWritten(f)
        \/ TerminalRowFails(f)
        \/ ExposeTerminal(f)
        \/ CloseWindow(f)
        \/ Age(f)
    \/ \E p \in Providers : PutSecret(p)
    \/ Crash

Spec == Init /\ [][Next]_vars

-----------------------------------------------------------------------------
(***************************************************************************)
(* Fairness: the server runs its jobs and its owed writes, the agent keeps  *)
(* polling a flow that is still pending, and the audit log is not down for  *)
(* good.  Nothing obliges a human to answer or an operator to import.       *)
(***************************************************************************)

ServerFairness ==
    \A f \in Flows :
        /\ WF_vars(Job(f))
        /\ WF_vars(SettleExpire(f))
        /\ WF_vars(BeginTerminalWrite(f, "owner"))
        /\ WF_vars(TerminalRowWritten(f) \/ TerminalRowFails(f))
        /\ SF_vars(TerminalRowWritten(f))
        /\ WF_vars(ExposeTerminal(f))

PollFairness == \A f \in Flows : WF_vars(Settle(f))

FairSpec == Spec /\ ServerFairness /\ PollFairness

-----------------------------------------------------------------------------
(***************************************************************************)
(* Properties.                                                              *)
(***************************************************************************)

\* Every variable keeps its type: stages, endings, generations and rows come
\* from the closed vocabularies of credflow.go.
TypeOK ==
    /\ stage    \in [Flows -> Stages]
    /\ todo     \in [Flows -> SUBSET Flows]
    /\ observed \in [Flows -> Nat]
    /\ state    \in [Flows -> Terminal \cup {"pending"}]
    /\ decided  \in [Flows -> Endings \cup {"nil"}]
    /\ relayed  \in [Flows -> BOOLEAN]
    /\ closed   \in [Flows -> BOOLEAN]
    /\ aged     \in [Flows -> BOOLEAN]
    /\ saw      \in [Flows -> BOOLEAN]
    /\ relaying \in [Flows -> BOOLEAN]
    /\ job      \in [Flows -> Jobs]
    /\ owner    \in [Flows -> Flows \cup {"nobody", "handler"}]
    /\ holder   \in [Flows -> {"free", "owner", "settle"} \cup Wrote]
    /\ snap     \in [Flows -> Endings \cup {"nil"}]
    /\ gen      \in [Providers -> Nat]
    /\ trail    \in [Flows -> Seq(Endings \cup {"started", "committed"})]

\* What the log holds for a flow that was shown to end in s.
TrailOf(s) ==
    CASE s = "completed"   -> <<"started", "committed">>
      [] s = "undelivered" -> <<"started", "committed", "undelivered">>
      [] OTHER             -> <<"started", s>>

\* "a poll never shows a terminal state the log does not have" (http.go:165):
\* the rows of a flow in a terminal state are exactly those of that ending, so
\* `failed`, `denied` and `expired` mean nothing was stored, and `completed` and
\* `undelivered` mean the commit row is in.
OutcomeIsRecorded ==
    \A f \in Flows : state[f] \in Terminal => trail[f] = TrailOf(state[f])

\* "a flow produces a start event and exactly one terminal event"
\* (credflow.go:896): whatever crashes, retries and races happened, the log
\* never holds a second ending, an ending before the start, or a failure of a
\* flow whose credential was committed.
LegalTrails == {<<>>, <<"started">>} \cup {TrailOf(s) : s \in Terminal}

TrailIsLegal == \A f \in Flows : trail[f] \in LegalTrails

\* Expiry and relay exclude each other (credflow.go:527-534): once a relay is
\* consumed no expiry is decided, written or shown for that flow.
RelayExcludesExpiry ==
    \A f \in Flows : relayed[f] =>
        "expired" \notin {decided[f], snap[f], state[f]} \cup {trail[f][i] : i \in DOMAIN trail[f]}

committed(f) == Len(trail[f]) > 1 /\ trail[f][2] = "committed"

\* No credential is replaced by a flow that never knew of it
\* (credflow.go:391-396): two flows that observed the same generation of a
\* provider never both commit, and a commit is behind the generation now stored.
NoBlindOverwrite ==
    \A f, g \in Flows : committed(f) =>
        /\ observed[f] < gen[ProviderOf[f]]
        /\ committed(g) /\ f # g /\ ProviderOf[f] = ProviderOf[g] => observed[f] # observed[g]

\* Reaching a terminal state is irreversible (credflow.go:62), also across the
\* retention sweep, a late job and a retried write.
EndingIsFinal ==
    [][\A f \in Flows : state[f] \in Terminal => state'[f] = state[f]]_vars

-----------------------------------------------------------------------------
(***************************************************************************)
(* The life of one flow, as strong as a proof by induction needs it.        *)
(***************************************************************************)

\* No ending is decided or being recorded.
Idle(f) == holder[f] = "free" /\ decided[f] = "nil"

\* ... and nobody owes a call that would record one.
Quiet(f) == Idle(f) /\ owner[f] = "nobody"

\* Some sweep, poll or relay request still carries a pointer to the flow.
Hinted(f) == saw[f] \/ relaying[f] \/ \E r \in Flows : f \in todo[r]

\* Not in the map yet: only its own start request can touch it.
Untouched(f) ==
    /\ Quiet(f) /\ ~Hinted(f)
    /\ state[f] = "pending" /\ job[f] = "none" /\ ~relayed[f]

\* In the map, the human has not answered.
Waiting(f) ==
    /\ Quiet(f)
    /\ state[f] = "pending" /\ job[f] = "none" /\ ~relayed[f]
    /\ trail[f] = <<"started">>

\* Relayed: the job is the only author of the ending.
Working(f) ==
    /\ Quiet(f)
    /\ state[f] = "pending" /\ relayed[f]
    /\ \/ job[f] \in {"denying", "exchanging", "storing"} /\ trail[f] = <<"started">>
       \/ job[f] = "delivering" /\ trail[f] = <<"started", "committed">>

\* The rows an ending leaves before its own.
RowsBefore(e) == IF e = "undelivered" THEN <<"started", "committed">> ELSE <<"started">>

\* An ending is decided and still shown as pending.
Deciding(f) ==
    /\ state[f] = "pending" /\ job[f] = "none"
    /\ decided[f] \in Endings
    /\ relayed[f] <=> decided[f] # "expired"
    /\ holder[f] # "free" => snap[f] = decided[f]
    /\ trail[f] = IF holder[f] \in Wrote THEN TrailOf(decided[f]) ELSE RowsBefore(decided[f])

Finished(f) ==
    /\ Idle(f)
    /\ state[f] \in Terminal /\ job[f] = "none"
    /\ relayed[f] <=> state[f] # "expired"
    /\ trail[f] = TrailOf(state[f])

\* The server died before the flow's ending was shown: the log may have it.
Lost(f) ==
    /\ Quiet(f) /\ ~Hinted(f)
    /\ state[f] = "pending" /\ job[f] = "none"
    /\ trail[f] \in LegalTrails \ {<<>>}
    /\ relayed[f] => trail[f] # TrailOf("expired")

FlowOK(f) ==
    /\ holder[f] = "free" => snap[f] = "nil"
    /\ stage[f] \in {"idle", "sweeping", "swept", "checked", "observed"} =>
            Untouched(f) /\ trail[f] = <<>>
    /\ stage[f] = "recorded" => Untouched(f) /\ trail[f] = <<"started">>
    /\ stage[f] = "open" => Waiting(f) \/ Working(f) \/ Deciding(f) \/ Finished(f)
    /\ stage[f] = "gone" => Finished(f) \/ Lost(f)

\* Every flow is in one of these shapes: the exchange job, the sweeps, the polls
\* and the relay requests never leave two of them responsible for one ending
\* (credflow.go:525-534, 831-842).
FlowLifecycle == \A f \in Flows : FlowOK(f)

ended(f) == state[f] \in Terminal \/ stage[f] = "gone"

\* exchangeAndStore "always ends the flow in a terminal state"
\* (credflow.go:722), and an ending whose row could not be written at first is
\* still shown in the end, because every poll retries it.
RelayedFlowEnds == \A f \in Flows : (stage[f] = "open" /\ relayed[f]) ~> ended(f)

\* A flow whose window closed and that is polled does not stay pending.
PolledFlowEnds == \A f \in Flows : (stage[f] = "open" /\ closed[f]) ~> ended(f)

\* The broker as a client of an atomic swap: a flow is open from the moment it
\* reads the generation until an ending is decided or the flow is gone.
inFlight(f) ==
    /\ stage[f] \in {"observed", "recorded", "open"}
    /\ state[f] = "pending"
    /\ decided[f] = "nil"

swapPhase ==
    [f \in Flows |-> IF committed(f) THEN "stored" ELSE IF inFlight(f) THEN "open" ELSE "idle"]

Store == INSTANCE CredentialSwap
    WITH Clients <- Flows, Refs <- Providers, RefOf <- ProviderOf,
         version <- gen, phase <- swapPhase, basis <- observed

\* Replacement is an atomic swap (sqlite.go:656-659): every interleaving of
\* starts, jobs, expiries, imports and crashes is a behaviour of CredentialSwap,
\* so a flow whose ending was decided never stores afterwards and a credential
\* is only ever swapped against the generation its flow read.
ImplementsSwap == Store!SwapSpec

=============================================================================
