---------------------------- MODULE CredFlowProofs ----------------------------
(***************************************************************************)
(* Proofs about the credential broker, for every set of flows, machines and *)
(* providers and every budget.                                              *)
(***************************************************************************)
EXTENDS CredFlow, SequenceTheorems, TLAPS

(***************************************************************************)
(* The rows of a trail.                                                     *)
(***************************************************************************)

\* Appending to a one-row trail.
LEMMA AppendToOne == ASSUME NEW a, NEW b PROVE Append(<<a>>, b) = <<a, b>>
<1> DEFINE S == {a, b}
<1>1. /\ <<a>> \in Seq(S) /\ Len(<<a>>) = 1
      /\ <<a, b>> \in Seq(S) /\ Len(<<a, b>>) = 2
      /\ b \in S
  OBVIOUS
<1>2. Append(<<a>>, b) \in Seq(S) /\ Len(Append(<<a>>, b)) = 2
  BY <1>1, AppendProperties
<1>3. Append(<<a>>, b)[1] = a /\ Append(<<a>>, b)[2] = b
  BY <1>1, AppendProperties
<1>4. \A i \in 1 .. 2 : Append(<<a>>, b)[i] = <<a, b>>[i]
  BY <1>3
<1> HIDE DEF S
<1> QED
  BY <1>1, <1>2, <1>4, SeqEqual

\* Appending to a two-row trail.
LEMMA AppendToTwo == ASSUME NEW a, NEW b, NEW c PROVE Append(<<a, b>>, c) = <<a, b, c>>
<1> DEFINE S == {a, b, c}
<1>1. /\ <<a, b>> \in Seq(S) /\ Len(<<a, b>>) = 2
      /\ <<a, b, c>> \in Seq(S) /\ Len(<<a, b, c>>) = 3
      /\ c \in S
  OBVIOUS
<1>2. Append(<<a, b>>, c) \in Seq(S) /\ Len(Append(<<a, b>>, c)) = 3
  BY <1>1, AppendProperties
<1>3. Append(<<a, b>>, c)[1] = a /\ Append(<<a, b>>, c)[2] = b /\ Append(<<a, b>>, c)[3] = c
  BY <1>1, AppendProperties
<1>4. \A i \in 1 .. 3 : Append(<<a, b>>, c)[i] = <<a, b, c>>[i]
  BY <1>3
<1> HIDE DEF S
<1> QED
  BY <1>1, <1>2, <1>4, SeqEqual

\* The row of an ending, appended to the rows before it, is that ending's trail.
LEMMA EndingRow == ASSUME NEW e \in Endings PROVE Append(RowsBefore(e), e) = TrailOf(e)
<1>1. CASE e = "undelivered"
  BY <1>1, AppendToTwo DEF RowsBefore, TrailOf
<1>2. CASE e # "undelivered"
  <2>1. RowsBefore(e) = <<"started">>
    BY <1>2 DEF RowsBefore
  <2>2. TrailOf(e) = <<"started", e>>
    BY <1>2 DEF TrailOf, Endings
  <2> QED
    BY <2>1, <2>2, AppendToOne
<1> QED
  BY <1>1, <1>2

\* The trails the broker's other steps produce.
LEMMA OtherRows ==
    /\ Append(<<>>, "started") = <<"started">>
    /\ Append(<<"started">>, "committed") = <<"started", "committed">>
    /\ TrailOf("completed") = <<"started", "committed">>
    /\ RowsBefore("undelivered") = <<"started", "committed">>
    /\ RowsBefore("failed") = <<"started">>
    /\ RowsBefore("denied") = <<"started">>
    /\ RowsBefore("expired") = <<"started">>
<1>1. Append(<<>>, "started") = <<"started">>
  OBVIOUS
<1>2. TrailOf("completed") = <<"started", "committed">>
  BY DEF TrailOf
<1>3. RowsBefore("undelivered") = <<"started", "committed">>
  BY DEF RowsBefore
<1>4. /\ RowsBefore("failed") = <<"started">>
      /\ RowsBefore("denied") = <<"started">>
      /\ RowsBefore("expired") = <<"started">>
  BY DEF RowsBefore
<1> QED
  BY <1>1, <1>2, <1>3, <1>4, AppendToOne

(***************************************************************************)
(* The shapes of a flow.                                                    *)
(***************************************************************************)

\* The vocabularies of endings.
LEMMA Vocabulary ==
    /\ "pending" \notin Terminal /\ "nil" \notin Endings
    /\ {"failed", "denied", "expired", "undelivered"} \subseteq Endings
    /\ Endings \subseteq Terminal /\ "completed" \in Terminal \ Endings
BY DEF Terminal, Endings

\* Nothing a flow's shape depends on changed.
Same(f) ==
    /\ stage'[f] = stage[f] /\ state'[f] = state[f] /\ decided'[f] = decided[f]
    /\ relayed'[f] = relayed[f] /\ (Hinted(f)' => Hinted(f))
    /\ job'[f] = job[f] /\ owner'[f] = owner[f] /\ holder'[f] = holder[f]
    /\ snap'[f] = snap[f] /\ trail'[f] = trail[f]

\* A flow that a step does not touch keeps its shape.
LEMMA Frame == ASSUME NEW f \in Flows, FlowOK(f), Same(f) PROVE FlowOK(f)'
BY DEF Same, FlowOK, Untouched, Quiet, Idle, Waiting, Working, Deciding, Finished, Lost

\* The job runs only for an open, relayed flow that nobody else is ending.
LEMMA JobMeansWorking ==
    ASSUME TypeOK, NEW f \in Flows, FlowOK(f), job[f] # "none"
    PROVE  stage[f] = "open" /\ Working(f)
BY DEF FlowOK, Untouched, Waiting, Deciding, Finished, Idle, Lost, TypeOK, Stages, Wrote

\* Whoever holds a pointer to an expirable flow holds one to a flow in the map
\* that is waiting for its human.
LEMMA ExpirableMeansWaiting ==
    ASSUME TypeOK, NEW f \in Flows, FlowOK(f), Hinted(f), expirableLocked(f)
    PROVE  stage[f] = "open" /\ Waiting(f)
BY DEF FlowOK, Untouched, Working, Deciding, Finished, Idle, Lost, expirableLocked, TypeOK, Stages, Wrote

\* A write in progress belongs to an open flow whose ending is decided.
LEMMA WriteMeansDeciding ==
    ASSUME TypeOK, NEW f \in Flows, FlowOK(f), holder[f] # "free"
    PROVE  stage[f] = "open" /\ Deciding(f)
BY DEF FlowOK, Untouched, Quiet, Idle, Waiting, Working, Finished, Lost, TypeOK, Stages, Wrote

\* When the job of an open flow decides an ending, the flow awaits its row.
LEMMA TerminateDecides ==
    ASSUME TypeOK, NEW f \in Flows, NEW e \in Endings, e # "expired",
           Working(f), trail[f] = RowsBefore(e), terminate(f, e),
           job'[f] = "none", UNCHANGED <<state, relayed, holder, trail>>
    PROVE  Deciding(f)'
<1>1. state[f] = "pending" /\ decided[f] = "nil" /\ holder[f] = "free" /\ relayed[f]
  BY DEF Working, Quiet, Idle
<1>2. decided'[f] = e
  BY <1>1, Vocabulary DEF terminate, TypeOK
<1> QED
  BY <1>1, <1>2 DEF Deciding, Wrote

\* Only a flow whose start is not recorded has no rows.
LEMMA EmptyTrail ==
    ASSUME TypeOK, NEW f \in Flows, FlowOK(f), trail[f] = <<>>
    PROVE  Untouched(f)
<1>1. \A s \in Terminal : TrailOf(s) # <<>>
  BY DEF TrailOf
<1>2. \A e \in Endings : RowsBefore(e) # <<>>
  BY DEF RowsBefore
<1> QED
  BY <1>1, <1>2 DEF FlowOK, Waiting, Working, Deciding, Finished, Idle, Lost, TypeOK, Stages, Terminal

\* What the log can hold of a recorded flow that has no ending on show.
LEMMA NonemptyTrail ==
    ASSUME TypeOK, NEW f \in Flows, FlowOK(f), trail[f] # <<>>
    PROVE  \/ Finished(f)
           \/ /\ state[f] = "pending"
              /\ trail[f] \in LegalTrails \ {<<>>}
              /\ relayed[f] => trail[f] # TrailOf("expired")
<1>1. /\ <<"started">> \in LegalTrails
      /\ <<"started", "committed">> \in LegalTrails
      /\ \A e \in Endings : TrailOf(e) \in LegalTrails /\ RowsBefore(e) \in LegalTrails
  BY OtherRows DEF LegalTrails, Terminal, Endings
<1>2. /\ TrailOf("expired") \notin {<<"started">>, <<"started", "committed">>}
      /\ \A e \in Endings : RowsBefore(e) # TrailOf("expired")
      /\ \A e \in Endings \ {"expired"} : TrailOf(e) # TrailOf("expired")
  BY DEF TrailOf, RowsBefore, Endings
<1> QED
  BY <1>1, <1>2 DEF FlowOK, Untouched, Waiting, Working, Deciding, Lost, TypeOK, Stages

(***************************************************************************)
(* Types.                                                                   *)
(***************************************************************************)

\* Every step keeps the types, given the shapes of the flows.
LEMMA TypeStep == ASSUME TypeOK, FlowLifecycle, [Next]_vars PROVE TypeOK'
<1> USE ProviderAssumption DEF TypeOK
<1>1. CASE UNCHANGED vars
  BY <1>1 DEF vars, startVars, flowVars, reqVars, endVars, dbVars
<1>2. ASSUME NEW f \in Flows, Start(f) PROVE TypeOK'
  <2> USE DEF startVars, flowVars, reqVars, endVars, dbVars
  <2>1. CASE Sweep(f)
    BY <2>1 DEF Sweep, Stages
  <2>2. ASSUME NEW g \in Flows, SweepExpire(f, g) PROVE TypeOK'
    <3>1. /\ decided' \in [Flows -> Endings \cup {"nil"}]
          /\ owner' \in [Flows -> Flows \cup {"nobody", "handler"}]
      BY <2>2 DEF SweepExpire, claimExpiry, Endings
    <3> QED
      BY <2>2, <3>1 DEF SweepExpire
  <2>3. CASE SweepDone(f)
    BY <2>3 DEF SweepDone, Stages
  <2>4. CASE checkFlowBudget(f)
    BY <2>4 DEF checkFlowBudget, Stages
  <2>5. ASSUME NEW replace \in BOOLEAN, ObserveGeneration(f, replace) PROVE TypeOK'
    <3>1. gen[ProviderOf[f]] \in Nat
      OBVIOUS
    <3>2. stage' \in [Flows -> Stages] /\ observed' \in [Flows -> Nat]
      BY <2>5, <3>1 DEF ObserveGeneration, Stages
    <3> QED
      BY <2>5, <3>2 DEF ObserveGeneration
  <2>6. CASE RecordStart(f)
    BY <2>6 DEF RecordStart, Stages
  <2>7. CASE StartRefused(f)
    BY <2>7 DEF StartRefused, Stages
  <2>8. CASE Insert(f)
    BY <2>8 DEF Insert, Stages
  <2> QED
    BY <1>2, <2>1, <2>2, <2>3, <2>4, <2>5, <2>6, <2>7, <2>8 DEF Start
<1>3. ASSUME NEW f \in Flows, Settle(f) PROVE TypeOK'
  <2> USE DEF startVars, flowVars, reqVars, endVars, dbVars
  <2>1. CASE SettleSees(f)
    BY <2>1 DEF SettleSees
  <2>2. CASE SettleExpire(f)
    BY <2>2 DEF SettleExpire, Endings, claimExpiry
  <2>3. CASE BeginTerminalWrite(f, "settle")
    BY <2>3 DEF BeginTerminalWrite, mayCommit, nothingToCommit, Endings
  <2> QED
    BY <1>3, <2>1, <2>2, <2>3 DEF Settle
<1>4. ASSUME NEW f \in Flows, Relay(f) PROVE TypeOK'
  <2> USE DEF startVars, flowVars, reqVars, endVars, dbVars
  <2>1. CASE RelaySettled(f)
    BY <2>1 DEF RelaySettled
  <2>2. ASSUME NEW out \in {"code", "error", "forged"}, consumeRelay(f, out) PROVE TypeOK'
    BY <2>2 DEF consumeRelay, Jobs
  <2> QED
    BY <1>4, <2>1, <2>2 DEF Relay
<1>5. ASSUME NEW f \in Flows, Job(f) PROVE TypeOK'
  <2> USE DEF startVars, flowVars, reqVars, endVars, dbVars, terminate
  <2>1. CASE Deny(f)
    BY <2>1 DEF Deny, Jobs, Endings
  <2>2. CASE ExchangeFails(f)
    BY <2>2 DEF ExchangeFails, Jobs, Endings
  <2>3. CASE ExchangeSucceeds(f)
    BY <2>3 DEF ExchangeSucceeds, Jobs
  <2>4. CASE StoreCredential(f)
    BY <2>4 DEF StoreCredential, Jobs
  <2>5. CASE StoreFails(f)
    BY <2>5 DEF StoreFails, Jobs, Endings
  <2>6. CASE DeliveryFails(f)
    BY <2>6 DEF DeliveryFails, Jobs, Endings
  <2>7. CASE complete(f)
    BY <2>7 DEF complete, Jobs, Terminal
  <2> QED
    BY <1>5, <2>1, <2>2, <2>3, <2>4, <2>5, <2>6, <2>7 DEF Job
<1>6. ASSUME NEW f \in Flows,
             \/ BeginTerminalWrite(f, "owner")
             \/ TerminalRowWritten(f)
             \/ TerminalRowFails(f)
             \/ ExposeTerminal(f)
             \/ CloseWindow(f)
             \/ Age(f)
      PROVE  TypeOK'
  <2> USE DEF startVars, flowVars, reqVars, endVars, dbVars
  <2>1. CASE BeginTerminalWrite(f, "owner")
    BY <2>1 DEF BeginTerminalWrite, mayCommit, nothingToCommit, Endings
  <2>2. CASE TerminalRowWritten(f)
    <3>1. snap[f] \in Endings
      BY <2>2, WriteMeansDeciding DEF TerminalRowWritten, FlowLifecycle, Deciding, Wrote
    <3> QED
      BY <2>2, <3>1 DEF TerminalRowWritten, Wrote
  <2>3. CASE TerminalRowFails(f)
    BY <2>3 DEF TerminalRowFails, Endings, Wrote
  <2>4. CASE ExposeTerminal(f)
    <3>1. snap[f] \in Endings
      BY <2>4, WriteMeansDeciding DEF ExposeTerminal, FlowLifecycle, Deciding, Wrote
    <3> QED
      BY <2>4, <3>1 DEF ExposeTerminal, Terminal, Wrote
  <2>5. CASE CloseWindow(f) \/ Age(f)
    BY <2>5 DEF CloseWindow, Age
  <2> QED
    BY <1>6, <2>1, <2>2, <2>3, <2>4, <2>5
<1>7. ASSUME NEW p \in Providers, PutSecret(p) PROVE TypeOK'
  BY <1>7 DEF PutSecret, startVars, flowVars, reqVars, endVars
<1>8. CASE Crash
  BY <1>8 DEF Crash, Stages, Jobs, dbVars
<1> QED
  BY <1>1, <1>2, <1>3, <1>4, <1>5, <1>6, <1>7, <1>8 DEF Next

\* Every step takes every flow from one shape to another.
LEMMA LifecycleStep ==
    ASSUME TypeOK, FlowLifecycle, [Next]_vars, NEW g \in Flows
    PROVE  FlowOK(g)'
<1> FlowOK(g)
  BY DEF FlowLifecycle
<1> USE OtherRows, Vocabulary, FlowAssumption DEF Stages
<1>1. CASE UNCHANGED vars
  BY <1>1, Frame DEF Same, Hinted, vars, startVars, flowVars, reqVars, endVars, dbVars
<1>2. ASSUME NEW f \in Flows, Start(f) PROVE FlowOK(g)'
  <2> USE DEF startVars, flowVars, reqVars, endVars, dbVars
  <2>1. CASE Sweep(f)
    <3>1. CASE g = f
      <4>1. Untouched(f) /\ trail[f] = <<>> /\ stage'[f] = "sweeping"
        BY <2>1, <3>1 DEF Sweep, FlowOK, TypeOK
      <4>2. ~Hinted(f)'
        BY <2>1, <4>1 DEF Sweep, Untouched, Hinted, TypeOK
      <4> QED
        BY <2>1, <3>1, <4>1, <4>2 DEF Sweep, FlowOK, Untouched, Quiet, Idle
    <3>2. CASE g # f /\ stage'[g] = stage[g]
      <4>1. CASE stage[g] = "open"
        BY <2>1, <3>2, <4>1 DEF Sweep, FlowOK, Waiting, Working, Deciding, Finished, Quiet, Idle
      <4>2. CASE stage[g] # "open"
        <5>1. Hinted(g)' => Hinted(g)
          BY <2>1, <4>2 DEF Sweep, Hinted, TypeOK
        <5> QED
          BY <2>1, <3>2, <5>1, Frame DEF Same, Sweep
      <4> QED
        BY <4>1, <4>2
    <3>3. CASE g # f /\ stage'[g] # stage[g]
      <4>1. stage[g] = "open" /\ state[g] \in Terminal /\ stage'[g] = "gone"
        BY <2>1, <3>3 DEF Sweep, TypeOK
      <4>2. Finished(g)
        BY <4>1 DEF FlowOK, Waiting, Working, Deciding
      <4> QED
        BY <2>1, <4>1, <4>2 DEF Sweep, FlowOK, Finished, Quiet, Idle
    <3> QED
      BY <3>1, <3>2, <3>3
  <2>2. ASSUME NEW h \in Flows, SweepExpire(f, h) PROVE FlowOK(g)'
    <3>1. CASE g = h /\ expirableLocked(h)
      <4>1. stage[g] = "open" /\ Waiting(g)
        BY <2>2, <3>1, ExpirableMeansWaiting DEF SweepExpire, Hinted
      <4>2. stage'[g] = "open" /\ Deciding(g)'
        BY <2>2, <3>1, <4>1 DEF SweepExpire, claimExpiry, Waiting, Deciding, Quiet, Idle, TypeOK, Wrote
      <4> QED
        BY <2>2, <4>2 DEF SweepExpire, FlowOK
    <3>2. CASE ~(g = h /\ expirableLocked(h))
      BY <2>2, <3>2, Frame DEF Same, Hinted, SweepExpire, claimExpiry, TypeOK
    <3> QED
      BY <3>1, <3>2
  <2>3. CASE SweepDone(f)
    <3>1. CASE g # f
      BY <2>3, <3>1, Frame DEF Same, Hinted, SweepDone, TypeOK
    <3>2. CASE g = f
      <4>1. Hinted(f)' => Hinted(f)
        BY <2>3 DEF SweepDone, Hinted, TypeOK
      <4> QED
        BY <2>3, <3>2, <4>1 DEF SweepDone, FlowOK, Untouched, Quiet, Idle, Waiting, Working, Deciding, Finished, Lost, TypeOK
    <3> QED
      BY <3>1, <3>2
  <2>4. CASE checkFlowBudget(f)
    <3>1. CASE g # f
      BY <2>4, <3>1, Frame DEF Same, Hinted, checkFlowBudget, TypeOK
    <3>2. CASE g = f
      <4>1. Hinted(f)' => Hinted(f)
        BY <2>4 DEF checkFlowBudget, Hinted, TypeOK
      <4> QED
        BY <2>4, <3>2, <4>1 DEF checkFlowBudget, FlowOK, Untouched, Quiet, Idle, Waiting, Working, Deciding, Finished, Lost, TypeOK
    <3> QED
      BY <3>1, <3>2
  <2>5. ASSUME NEW replace \in BOOLEAN, ObserveGeneration(f, replace) PROVE FlowOK(g)'
    <3>1. CASE g # f
      BY <2>5, <3>1, Frame DEF Same, Hinted, ObserveGeneration, TypeOK
    <3>2. CASE g = f
      <4>1. Hinted(f)' => Hinted(f)
        BY <2>5 DEF ObserveGeneration, Hinted, TypeOK
      <4> QED
        BY <2>5, <3>2, <4>1 DEF ObserveGeneration, FlowOK, Untouched, Quiet, Idle, Waiting, Working, Deciding, Finished, Lost, TypeOK
    <3> QED
      BY <3>1, <3>2
  <2>6. CASE RecordStart(f)
    <3>1. CASE g # f
      BY <2>6, <3>1, Frame DEF Same, Hinted, RecordStart, TypeOK
    <3>2. CASE g = f
      <4>1. Hinted(f)' => Hinted(f)
        BY <2>6 DEF RecordStart, Hinted, TypeOK
      <4> QED
        BY <2>6, <3>2, <4>1 DEF RecordStart, FlowOK, Untouched, Quiet, Idle, Waiting, Working, Deciding, Finished, Lost, TypeOK
    <3> QED
      BY <3>1, <3>2
  <2>7. CASE StartRefused(f)
    <3>1. CASE g # f
      BY <2>7, <3>1, Frame DEF Same, Hinted, StartRefused, TypeOK
    <3>2. CASE g = f
      <4>1. Hinted(f)' => Hinted(f)
        BY <2>7 DEF StartRefused, Hinted, TypeOK
      <4> QED
        BY <2>7, <3>2, <4>1 DEF StartRefused, FlowOK, Untouched, Quiet, Idle, Waiting, Working, Deciding, Finished, Lost, TypeOK
    <3> QED
      BY <3>1, <3>2
  <2>8. CASE Insert(f)
    <3>1. CASE g # f
      BY <2>8, <3>1, Frame DEF Same, Hinted, Insert, TypeOK
    <3>2. CASE g = f
      <4>1. Hinted(f)' => Hinted(f)
        BY <2>8 DEF Insert, Hinted, TypeOK
      <4> QED
        BY <2>8, <3>2, <4>1 DEF Insert, FlowOK, Untouched, Quiet, Idle, Waiting, Working, Deciding, Finished, Lost, TypeOK
    <3> QED
      BY <3>1, <3>2
  <2> QED
    BY <1>2, <2>1, <2>2, <2>3, <2>4, <2>5, <2>6, <2>7, <2>8 DEF Start
<1>3. ASSUME NEW f \in Flows, Settle(f) PROVE FlowOK(g)'
  <2> USE DEF startVars, flowVars, reqVars, endVars, dbVars
  <2>1. CASE SettleSees(f)
    <3>1. CASE g # f
      BY <2>1, <3>1, Frame DEF Same, Hinted, SettleSees, TypeOK
    <3>2. CASE g = f
      BY <2>1, <3>2 DEF SettleSees, FlowOK, Untouched, Quiet, Idle, Waiting, Working, Deciding, Finished, Lost, expirableLocked, TypeOK
    <3> QED
      BY <3>1, <3>2
  <2>2. CASE SettleExpire(f)
    <3>1. CASE g # f
      BY <2>2, <3>1, Frame DEF Same, Hinted, SettleExpire, claimExpiry, TypeOK
    <3>2. CASE g = f
      <4>1. CASE expirableLocked(f)
        <5>1. stage[f] = "open" /\ Waiting(f)
          BY <2>2, <3>2, <4>1, ExpirableMeansWaiting DEF SettleExpire, Hinted
        <5>2. stage'[f] = "open" /\ Deciding(f)'
          BY <2>2, <4>1, <5>1 DEF SettleExpire, claimExpiry, Waiting, Deciding, Quiet, Idle, TypeOK, Wrote
        <5> QED
          BY <2>2, <3>2, <5>2 DEF SettleExpire, FlowOK
      <4>2. CASE ~expirableLocked(f)
        BY <2>2, <3>2, <4>2, Frame DEF Same, Hinted, SettleExpire, claimExpiry, TypeOK
      <4> QED
        BY <4>1, <4>2
    <3> QED
      BY <3>1, <3>2
  <2>3. CASE BeginTerminalWrite(f, "settle")
    <3>1. CASE g # f
      BY <2>3, <3>1, Frame DEF Same, Hinted, BeginTerminalWrite, mayCommit, nothingToCommit, TypeOK, Wrote
    <3>2. CASE g = f
      BY <2>3, <3>2 DEF BeginTerminalWrite, mayCommit, nothingToCommit, FlowOK, Untouched, Quiet, Idle, Waiting, Working, Deciding, Finished, Lost, TypeOK, Wrote
    <3> QED
      BY <3>1, <3>2
  <2> QED
    BY <1>3, <2>1, <2>2, <2>3 DEF Settle
<1>4. ASSUME NEW f \in Flows, Relay(f) PROVE FlowOK(g)'
  <2> USE DEF startVars, flowVars, reqVars, endVars, dbVars
  <2>1. CASE RelaySettled(f)
    <3>1. CASE g # f
      BY <2>1, <3>1, Frame DEF Same, Hinted, RelaySettled, TypeOK
    <3>2. CASE g = f
      BY <2>1, <3>2 DEF RelaySettled, FlowOK, Untouched, Quiet, Idle, Waiting, Working, Deciding, Finished, Lost, TypeOK
    <3> QED
      BY <3>1, <3>2
  <2>2. ASSUME NEW out \in {"code", "error", "forged"}, consumeRelay(f, out) PROVE FlowOK(g)'
    <3>1. CASE g # f
      BY <2>2, <3>1, Frame DEF Same, Hinted, consumeRelay, TypeOK
    <3>2. CASE g = f
      <4>1. Hinted(f)' => Hinted(f)
        BY <2>2 DEF consumeRelay, Hinted, TypeOK
      <4>2. CASE relayed' = relayed /\ job' = job
        BY <2>2, <3>2, <4>1, <4>2, Frame DEF consumeRelay, Same
      <4>3. CASE ~(relayed' = relayed /\ job' = job)
        <5>1. Hinted(f) /\ state[f] = "pending" /\ decided[f] = "nil" /\ ~relayed[f]
          BY <2>2, <4>3 DEF consumeRelay, Hinted, TypeOK
        <5>2. stage[f] = "open" /\ Waiting(f)
          BY <3>2, <5>1 DEF FlowOK, Untouched, Working, Deciding, Finished, Idle, Lost, TypeOK
        <5>3. relayed'[f] /\ job'[f] \in {"denying", "exchanging", "storing"}
          BY <2>2, <4>3 DEF consumeRelay, TypeOK
        <5>4. Working(f)'
          BY <2>2, <5>2, <5>3 DEF consumeRelay, Waiting, Working, Quiet, Idle
        <5> QED
          BY <2>2, <3>2, <5>2, <5>4 DEF consumeRelay, FlowOK
      <4> QED
        BY <4>2, <4>3
    <3> QED
      BY <3>1, <3>2
  <2> QED
    BY <1>4, <2>1, <2>2 DEF Relay
<1>5. ASSUME NEW f \in Flows, Job(f) PROVE FlowOK(g)'
  <2> USE DEF startVars, flowVars, reqVars, endVars, dbVars
  <2>1. CASE Deny(f)
    <3>1. CASE g # f
      BY <2>1, <3>1, Frame DEF Same, Hinted, Deny, terminate, TypeOK
    <3>2. CASE g = f
      <4>1. stage[f] = "open" /\ Working(f)
        BY <2>1, <3>2, JobMeansWorking DEF Deny
      <4>2. trail[f] = RowsBefore("denied")
        BY <2>1, <4>1 DEF Deny, Working
      <4>3. job'[f] = "none"
        BY <2>1 DEF Deny, TypeOK
      <4>4. Deciding(f)'
        BY <2>1, <4>1, <4>2, <4>3, TerminateDecides DEF Deny
      <4> QED
        BY <2>1, <3>2, <4>1, <4>4 DEF Deny, FlowOK, Working, Quiet, Idle
    <3> QED
      BY <3>1, <3>2
  <2>2. CASE ExchangeFails(f)
    <3>1. CASE g # f
      BY <2>2, <3>1, Frame DEF Same, Hinted, ExchangeFails, terminate, TypeOK
    <3>2. CASE g = f
      <4>1. stage[f] = "open" /\ Working(f)
        BY <2>2, <3>2, JobMeansWorking DEF ExchangeFails
      <4>2. trail[f] = RowsBefore("failed")
        BY <2>2, <4>1 DEF ExchangeFails, Working
      <4>3. job'[f] = "none"
        BY <2>2 DEF ExchangeFails, TypeOK
      <4>4. Deciding(f)'
        BY <2>2, <4>1, <4>2, <4>3, TerminateDecides DEF ExchangeFails
      <4> QED
        BY <2>2, <3>2, <4>1, <4>4 DEF ExchangeFails, FlowOK, Working, Quiet, Idle
    <3> QED
      BY <3>1, <3>2
  <2>3. CASE ExchangeSucceeds(f)
    <3>1. CASE g # f
      BY <2>3, <3>1, Frame DEF Same, Hinted, ExchangeSucceeds, TypeOK
    <3>2. CASE g = f
      BY <2>3, <3>2 DEF ExchangeSucceeds, FlowOK, Untouched, Quiet, Idle, Waiting, Working, Deciding, Finished, Lost, TypeOK
    <3> QED
      BY <3>1, <3>2
  <2>4. CASE StoreCredential(f)
    <3>1. CASE g # f
      BY <2>4, <3>1, Frame DEF Same, Hinted, StoreCredential, TypeOK
    <3>2. CASE g = f
      BY <2>4, <3>2 DEF StoreCredential, FlowOK, Untouched, Quiet, Idle, Waiting, Working, Deciding, Finished, Lost, TypeOK
    <3> QED
      BY <3>1, <3>2
  <2>5. CASE StoreFails(f)
    <3>1. CASE g # f
      BY <2>5, <3>1, Frame DEF Same, Hinted, StoreFails, terminate, TypeOK
    <3>2. CASE g = f
      <4>1. stage[f] = "open" /\ Working(f)
        BY <2>5, <3>2, JobMeansWorking DEF StoreFails
      <4>2. trail[f] = RowsBefore("failed")
        BY <2>5, <4>1 DEF StoreFails, Working
      <4>3. job'[f] = "none"
        BY <2>5 DEF StoreFails, TypeOK
      <4>4. Deciding(f)'
        BY <2>5, <4>1, <4>2, <4>3, TerminateDecides DEF StoreFails
      <4> QED
        BY <2>5, <3>2, <4>1, <4>4 DEF StoreFails, FlowOK, Working, Quiet, Idle
    <3> QED
      BY <3>1, <3>2
  <2>6. CASE DeliveryFails(f)
    <3>1. CASE g # f
      BY <2>6, <3>1, Frame DEF Same, Hinted, DeliveryFails, terminate, TypeOK
    <3>2. CASE g = f
      <4>1. stage[f] = "open" /\ Working(f)
        BY <2>6, <3>2, JobMeansWorking DEF DeliveryFails
      <4>2. trail[f] = RowsBefore("undelivered")
        BY <2>6, <4>1 DEF DeliveryFails, Working
      <4>3. job'[f] = "none"
        BY <2>6 DEF DeliveryFails, TypeOK
      <4>4. Deciding(f)'
        BY <2>6, <4>1, <4>2, <4>3, TerminateDecides DEF DeliveryFails
      <4> QED
        BY <2>6, <3>2, <4>1, <4>4 DEF DeliveryFails, FlowOK, Working, Quiet, Idle
    <3> QED
      BY <3>1, <3>2
  <2>7. CASE complete(f)
    <3>1. CASE g # f
      BY <2>7, <3>1, Frame DEF Same, Hinted, complete, TypeOK
    <3>2. CASE g = f
      <4>1. stage[f] = "open" /\ Working(f)
        BY <2>7, <3>2, JobMeansWorking DEF complete
      <4>2. state[f] = "pending" /\ trail[f] = TrailOf("completed") /\ relayed[f]
        BY <2>7, <4>1 DEF complete, Working
      <4>3. state'[f] = "completed" /\ decided'[f] = "nil" /\ job'[f] = "none"
        BY <2>7, <4>2 DEF complete, TypeOK
      <4>4. Finished(f)'
        BY <2>7, <4>1, <4>2, <4>3 DEF complete, Working, Finished, Quiet, Idle
      <4> QED
        BY <2>7, <3>2, <4>1, <4>4 DEF complete, FlowOK
    <3> QED
      BY <3>1, <3>2
  <2> QED
    BY <1>5, <2>1, <2>2, <2>3, <2>4, <2>5, <2>6, <2>7 DEF Job
<1>6. ASSUME NEW f \in Flows,
             \/ BeginTerminalWrite(f, "owner")
             \/ TerminalRowWritten(f)
             \/ TerminalRowFails(f)
             \/ ExposeTerminal(f)
             \/ CloseWindow(f)
             \/ Age(f)
      PROVE  FlowOK(g)'
  <2> USE DEF startVars, flowVars, reqVars, endVars, dbVars
  <2>1. CASE BeginTerminalWrite(f, "owner")
    <3>1. CASE g # f
      BY <2>1, <3>1, Frame DEF Same, Hinted, BeginTerminalWrite, mayCommit, nothingToCommit, TypeOK, Wrote
    <3>2. CASE g = f
      BY <2>1, <3>2 DEF BeginTerminalWrite, mayCommit, nothingToCommit, FlowOK, Untouched, Quiet, Idle, Waiting, Working, Deciding, Finished, Lost, TypeOK, Wrote
    <3> QED
      BY <3>1, <3>2
  <2>2. CASE TerminalRowWritten(f)
    <3>1. CASE g # f
      BY <2>2, <3>1, Frame DEF Same, Hinted, TerminalRowWritten, TypeOK, Wrote
    <3>2. CASE g = f
      BY <2>2, <3>2, EndingRow DEF TerminalRowWritten, FlowOK, Untouched, Quiet, Idle, Waiting, Working, Deciding, Finished, Lost, TypeOK, Wrote
    <3> QED
      BY <3>1, <3>2
  <2>3. CASE TerminalRowFails(f)
    <3>1. CASE g # f
      BY <2>3, <3>1, Frame DEF Same, Hinted, TerminalRowFails, TypeOK, Wrote
    <3>2. CASE g = f
      BY <2>3, <3>2 DEF TerminalRowFails, FlowOK, Untouched, Quiet, Idle, Waiting, Working, Deciding, Finished, Lost, TypeOK, Wrote
    <3> QED
      BY <3>1, <3>2
  <2>4. CASE ExposeTerminal(f)
    <3>1. CASE g # f
      BY <2>4, <3>1, Frame DEF Same, Hinted, ExposeTerminal, TypeOK, Wrote
    <3>2. CASE g = f
      BY <2>4, <3>2 DEF ExposeTerminal, FlowOK, Untouched, Quiet, Idle, Waiting, Working, Deciding, Finished, Lost, TypeOK, Wrote
    <3> QED
      BY <3>1, <3>2
  <2>5. CASE CloseWindow(f)
    <3>1. CASE g # f
      BY <2>5, <3>1, Frame DEF Same, Hinted, CloseWindow, TypeOK
    <3>2. CASE g = f
      <4>1. Hinted(f)' => Hinted(f)
        BY <2>5 DEF CloseWindow, Hinted, TypeOK
      <4> QED
        BY <2>5, <3>2, <4>1 DEF CloseWindow, FlowOK, Untouched, Quiet, Idle, Waiting, Working, Deciding, Finished, Lost, TypeOK
    <3> QED
      BY <3>1, <3>2
  <2>6. CASE Age(f)
    <3>1. CASE g # f
      BY <2>6, <3>1, Frame DEF Same, Hinted, Age, TypeOK
    <3>2. CASE g = f
      <4>1. Hinted(f)' => Hinted(f)
        BY <2>6 DEF Age, Hinted, TypeOK
      <4> QED
        BY <2>6, <3>2, <4>1 DEF Age, FlowOK, Untouched, Quiet, Idle, Waiting, Working, Deciding, Finished, Lost, TypeOK
    <3> QED
      BY <3>1, <3>2
  <2> QED
    BY <1>6, <2>1, <2>2, <2>3, <2>4, <2>5, <2>6
<1>7. ASSUME NEW p \in Providers, PutSecret(p) PROVE FlowOK(g)'
  BY <1>7, Frame DEF Same, Hinted, PutSecret, startVars, flowVars, reqVars, endVars
<1>8. CASE Crash
  <2>1. Quiet(g)' /\ ~Hinted(g)' /\ job'[g] = "none"
    BY <1>8 DEF Crash, Quiet, Idle, Hinted
  <2>2. /\ stage'[g] = IF trail[g] = <<>> THEN "idle" ELSE "gone"
        /\ snap'[g] = "nil"
        /\ state' = state /\ relayed' = relayed /\ trail' = trail
    BY <1>8 DEF Crash, dbVars
  <2>3. CASE trail[g] = <<>>
    <3>1. Untouched(g)
      BY <2>3, EmptyTrail
    <3> QED
      BY <2>1, <2>2, <2>3, <3>1 DEF FlowOK, Untouched
  <2>4. CASE trail[g] # <<>>
    <3>1. Finished(g) \/ Lost(g)'
      BY <2>1, <2>2, <2>4, NonemptyTrail DEF Finished, Idle, Lost
    <3> QED
      BY <2>1, <2>2, <2>4, <3>1 DEF FlowOK, Finished, Lost, Quiet, Idle
  <2> QED
    BY <2>3, <2>4
<1> QED
  BY <1>1, <1>2, <1>3, <1>4, <1>5, <1>6, <1>7, <1>8 DEF Next

(***************************************************************************)
(* The ledger of commits.                                                   *)
(***************************************************************************)

\* A flow's commit row appears in the transaction that stores its credential,
\* and never otherwise.
LEMMA CommittedSame ==
    ASSUME TypeOK, FlowLifecycle, [Next]_vars, NEW g \in Flows, ~StoreCredential(g)
    PROVE  committed(g)' <=> committed(g)
<1> FlowOK(g)
  BY DEF FlowLifecycle
<1>1. CASE trail'[g] = trail[g]
  BY <1>1 DEF committed
<1>2. CASE RecordStart(g)
  <2>1. trail[g] = <<>> /\ trail'[g] = <<"started">>
    BY <1>2, OtherRows DEF RecordStart, FlowOK, TypeOK
  <2> QED
    BY <2>1 DEF committed
<1>3. CASE TerminalRowWritten(g)
  <2>1. Deciding(g)
    BY <1>3, WriteMeansDeciding DEF TerminalRowWritten, Wrote
  <2>2. PICK e \in Endings : snap[g] = e /\ trail[g] = RowsBefore(e)
    BY <1>3, <2>1 DEF TerminalRowWritten, Deciding, Wrote
  <2>3. trail'[g] = TrailOf(e)
    BY <1>3, <2>2, EndingRow DEF TerminalRowWritten, TypeOK, Wrote
  <2>4. CASE e = "undelivered"
    BY <2>2, <2>3, <2>4 DEF committed, TrailOf, RowsBefore
  <2>5. CASE e # "undelivered"
    <3>1. trail[g] = <<"started">> /\ trail'[g] = <<"started", e>> /\ e # "committed"
      BY <2>2, <2>3, <2>5 DEF TrailOf, RowsBefore, Endings
    <3> QED
      BY <3>1 DEF committed
  <2> QED
    BY <2>4, <2>5
<1>4. trail'[g] = trail[g] \/ RecordStart(g) \/ TerminalRowWritten(g)
  <2> USE DEF startVars, flowVars, reqVars, endVars, dbVars, TypeOK
  <2>1. CASE UNCHANGED vars
    BY <2>1 DEF vars
  <2>2. ASSUME NEW f \in Flows, Start(f) PROVE trail'[g] = trail[g] \/ RecordStart(g)
    BY <2>2 DEF Start, Sweep, SweepExpire, SweepDone, checkFlowBudget, ObserveGeneration,
                RecordStart, StartRefused, Insert
  <2>3. ASSUME NEW f \in Flows, Settle(f) \/ Relay(f) PROVE trail'[g] = trail[g]
    BY <2>3 DEF Settle, Relay, SettleSees, SettleExpire, BeginTerminalWrite, mayCommit, nothingToCommit, RelaySettled, consumeRelay
  <2>4. ASSUME NEW f \in Flows, Job(f) PROVE trail'[g] = trail[g]
    <3>1. CASE StoreCredential(f)
      BY <3>1 DEF StoreCredential
    <3>2. CASE ~StoreCredential(f)
      BY <2>4, <3>2 DEF Job, Deny, ExchangeFails, ExchangeSucceeds, StoreFails, DeliveryFails, complete
    <3> QED
      BY <3>1, <3>2
  <2>5. ASSUME NEW f \in Flows, TerminalRowWritten(f)
        PROVE  trail'[g] = trail[g] \/ TerminalRowWritten(g)
    BY <2>5 DEF TerminalRowWritten, Wrote
  <2>6. ASSUME NEW f \in Flows,
               \/ BeginTerminalWrite(f, "owner")
               \/ TerminalRowFails(f)
               \/ ExposeTerminal(f)
               \/ CloseWindow(f)
               \/ Age(f)
        PROVE  trail'[g] = trail[g]
    BY <2>6 DEF BeginTerminalWrite, mayCommit, nothingToCommit, TerminalRowFails, ExposeTerminal, CloseWindow, Age, Wrote
  <2>7. CASE (\E p \in Providers : PutSecret(p)) \/ Crash
    BY <2>7 DEF PutSecret, Crash
  <2> QED
    BY <2>1, <2>2, <2>3, <2>4, <2>5, <2>6, <2>7 DEF Next
<1> QED
  BY <1>1, <1>2, <1>3, <1>4

\* What a step may do to the generations, stored or observed.
LEMMA GenerationStep ==
    ASSUME [Next]_vars
    PROVE  \/ UNCHANGED <<gen, observed>>
           \/ \E f \in Flows, replace \in BOOLEAN : ObserveGeneration(f, replace)
           \/ \E f \in Flows : StoreCredential(f)
           \/ \E p \in Providers : PutSecret(p)
<1> USE DEF startVars, flowVars, reqVars, endVars, dbVars
<1>1. CASE UNCHANGED vars
  BY <1>1 DEF vars
<1>2. ASSUME NEW f \in Flows, Start(f)
      PROVE  UNCHANGED <<gen, observed>> \/ \E replace \in BOOLEAN : ObserveGeneration(f, replace)
  BY <1>2 DEF Start, Sweep, SweepExpire, SweepDone, checkFlowBudget, RecordStart, StartRefused, Insert
<1>3. ASSUME NEW f \in Flows, Settle(f) \/ Relay(f) PROVE UNCHANGED <<gen, observed>>
  BY <1>3 DEF Settle, Relay, SettleSees, SettleExpire, BeginTerminalWrite, mayCommit, nothingToCommit, RelaySettled, consumeRelay
<1>4. ASSUME NEW f \in Flows, Job(f) PROVE UNCHANGED <<gen, observed>> \/ StoreCredential(f)
  BY <1>4 DEF Job, Deny, ExchangeFails, ExchangeSucceeds, StoreFails, DeliveryFails, complete
<1>5. ASSUME NEW f \in Flows,
             \/ BeginTerminalWrite(f, "owner")
             \/ TerminalRowWritten(f)
             \/ TerminalRowFails(f)
             \/ ExposeTerminal(f)
             \/ CloseWindow(f)
             \/ Age(f)
      PROVE  UNCHANGED <<gen, observed>>
  BY <1>5 DEF BeginTerminalWrite, mayCommit, nothingToCommit, TerminalRowWritten, TerminalRowFails, ExposeTerminal, CloseWindow, Age, Wrote
<1>6. CASE Crash
  BY <1>6 DEF Crash
<1> QED
  BY <1>1, <1>2, <1>3, <1>4, <1>5, <1>6 DEF Next

\* An uncommitted flow that stores takes its generation out of circulation.
LEMMA LedgerStep ==
    ASSUME TypeOK, FlowLifecycle, NoBlindOverwrite, [Next]_vars
    PROVE  NoBlindOverwrite'
<1> USE ProviderAssumption
<1>1. CASE UNCHANGED <<gen, observed>>
  <2>1. \A f \in Flows : ~StoreCredential(f)
    BY <1>1 DEF StoreCredential, TypeOK
  <2>2. \A f \in Flows : committed(f)' <=> committed(f)
    BY <2>1, CommittedSame
  <2> QED
    BY <1>1, <2>2 DEF NoBlindOverwrite
<1>2. ASSUME NEW h \in Flows, NEW replace \in BOOLEAN, ObserveGeneration(h, replace)
      PROVE  NoBlindOverwrite'
  <2>1. gen' = gen /\ \A f \in Flows : trail'[f] = trail[f]
    BY <1>2 DEF ObserveGeneration, dbVars
  <2>2. \A f \in Flows : committed(f)' <=> committed(f)
    BY <2>1 DEF committed
  <2>3. trail[h] = <<>>
    BY <1>2 DEF ObserveGeneration, FlowLifecycle, FlowOK
  <2>4. ~committed(h)
    BY <2>3 DEF committed
  <2>5. \A f \in Flows : f # h => observed'[f] = observed[f]
    BY <1>2 DEF ObserveGeneration, TypeOK
  <2> QED
    BY <2>1, <2>2, <2>4, <2>5 DEF NoBlindOverwrite
<1>3. ASSUME NEW h \in Flows, StoreCredential(h) PROVE NoBlindOverwrite'
  <2>1. /\ observed' = observed
        /\ observed[h] = gen[ProviderOf[h]]
        /\ gen'[ProviderOf[h]] = gen[ProviderOf[h]] + 1
        /\ \A p \in Providers : p # ProviderOf[h] => gen'[p] = gen[p]
    BY <1>3 DEF StoreCredential, startVars, TypeOK
  <2>2. \A f \in Flows : f # h => (committed(f)' <=> committed(f))
    BY <1>3 DEF StoreCredential, TypeOK, committed
  <2>3. \A f \in Flows : observed[f] \in Nat /\ gen[ProviderOf[f]] \in Nat
    BY DEF TypeOK
  <2>4. \A f \in Flows : committed(f)' => observed'[f] < gen'[ProviderOf[f]]
    BY <2>1, <2>2, <2>3 DEF NoBlindOverwrite
  <2>5. \A f \in Flows : f # h /\ committed(f) /\ ProviderOf[f] = ProviderOf[h] => observed[f] < observed[h]
    BY <2>1 DEF NoBlindOverwrite
  <2>6. \A f, g \in Flows :
          committed(f)' /\ committed(g)' /\ f # g /\ ProviderOf[f] = ProviderOf[g] => observed'[f] # observed'[g]
    BY <2>1, <2>2, <2>3, <2>5 DEF NoBlindOverwrite
  <2> QED
    BY <2>4, <2>6 DEF NoBlindOverwrite
<1>4. ASSUME NEW p \in Providers, PutSecret(p) PROVE NoBlindOverwrite'
  <2>1. /\ observed' = observed
        /\ \A f \in Flows : trail'[f] = trail[f]
        /\ \A q \in Providers : gen'[q] \in {gen[q], gen[q] + 1}
    BY <1>4 DEF PutSecret, startVars, TypeOK
  <2>2. \A f \in Flows : committed(f)' <=> committed(f)
    BY <2>1 DEF committed
  <2>3. \A f \in Flows : observed[f] \in Nat /\ gen[ProviderOf[f]] \in Nat /\ ProviderOf[f] \in Providers
    BY DEF TypeOK
  <2> QED
    BY <2>1, <2>2, <2>3 DEF NoBlindOverwrite
<1> QED
  BY <1>1, <1>2, <1>3, <1>4, GenerationStep

(***************************************************************************)
(* The theorems.                                                            *)
(***************************************************************************)

\* The inductive invariant.
Inv == TypeOK /\ FlowLifecycle /\ NoBlindOverwrite

\* In every reachable state the broker is well typed, every flow has one of the
\* shapes of its life, and no two commits replaced the same generation.
THEOREM Invariance == Spec => []Inv
<1>1. Init => Inv
  <2> SUFFICES ASSUME Init PROVE Inv
    OBVIOUS
  <2>1. TypeOK
    BY DEF Init, TypeOK, Stages, Terminal, Endings, Jobs
  <2>2. FlowLifecycle
    BY DEF Init, FlowLifecycle, FlowOK, Untouched, Quiet, Idle, Hinted
  <2>3. NoBlindOverwrite
    BY DEF Init, NoBlindOverwrite, committed
  <2> QED
    BY <2>1, <2>2, <2>3 DEF Inv
<1>2. Inv /\ [Next]_vars => Inv'
  BY TypeStep, LifecycleStep, LedgerStep DEF Inv, FlowLifecycle
<1> QED
  BY <1>1, <1>2, PTL DEF Spec

\* Every reachable state of the broker is well typed.
THEOREM TypeCorrect == Spec => []TypeOK
BY Invariance, PTL DEF Inv

\* Every flow lives one of the lives of FlowLifecycle: one author per ending.
THEOREM FlowsHaveOneAuthor == Spec => []FlowLifecycle
BY Invariance, PTL DEF Inv

\* No flow replaces a credential it never knew of.
THEOREM NoFlowOverwritesBlindly == Spec => []NoBlindOverwrite
BY Invariance, PTL DEF Inv

\* A poll never shows an ending the audit log does not have.
THEOREM OutcomesAreRecorded == Spec => []OutcomeIsRecorded
<1>1. Inv => OutcomeIsRecorded
  <2> SUFFICES ASSUME Inv, NEW f \in Flows, state[f] \in Terminal
               PROVE  trail[f] = TrailOf(state[f])
    BY DEF OutcomeIsRecorded
  <2>1. FlowOK(f) /\ stage[f] \in Stages
    BY DEF Inv, FlowLifecycle, TypeOK
  <2>2. Finished(f)
    BY <2>1, Vocabulary DEF FlowOK, Untouched, Waiting, Working, Deciding, Lost, Stages
  <2> QED
    BY <2>2 DEF Finished, Idle
<1> QED
  BY <1>1, Invariance, PTL

\* The audit log never holds two endings of one flow, nor a failure of a flow
\* whose credential was committed, whatever crashed in between.
THEOREM TrailsAreLegal == Spec => []TrailIsLegal
<1>1. Inv => TrailIsLegal
  <2> SUFFICES ASSUME Inv, NEW f \in Flows PROVE trail[f] \in LegalTrails
    BY DEF TrailIsLegal
  <2>1. TypeOK /\ FlowOK(f)
    BY DEF Inv, FlowLifecycle
  <2>2. CASE trail[f] = <<>>
    BY <2>2 DEF LegalTrails
  <2>3. CASE trail[f] # <<>>
    BY <2>1, <2>3, NonemptyTrail DEF Finished, Idle, LegalTrails
  <2> QED
    BY <2>2, <2>3
<1> QED
  BY <1>1, Invariance, PTL

\* Expiry and relay exclude each other.
THEOREM RelaysExcludeExpiry == Spec => []RelayExcludesExpiry
<1>1. Inv => RelayExcludesExpiry
  <2> SUFFICES ASSUME Inv, NEW f \in Flows, relayed[f]
               PROVE  /\ "expired" \notin {decided[f], snap[f], state[f]}
                      /\ \A i \in DOMAIN trail[f] : trail[f][i] # "expired"
    BY DEF RelayExcludesExpiry
  <2>1. TypeOK /\ FlowOK(f)
    BY DEF Inv, FlowLifecycle
  <2>2. "expired" \notin {decided[f], snap[f], state[f]}
    BY <2>1 DEF FlowOK, Untouched, Quiet, Idle, Waiting, Working, Deciding, Finished, Lost, TypeOK, Stages
  <2>3. trail[f] \in LegalTrails /\ trail[f] # TrailOf("expired")
    <3>1. trail[f] # <<>>
      BY <2>1, EmptyTrail DEF Untouched
    <3>2. CASE Finished(f)
      <4>1. state[f] \in Terminal /\ state[f] # "expired" /\ trail[f] = TrailOf(state[f])
        BY <3>2 DEF Finished, Idle
      <4>2. \A s \in Terminal \ {"expired"} : TrailOf(s) # TrailOf("expired")
        BY DEF TrailOf, Terminal, Endings
      <4> QED
        BY <4>1, <4>2 DEF LegalTrails
    <3>3. CASE ~Finished(f)
      BY <2>1, <3>1, <3>3, NonemptyTrail
    <3> QED
      BY <3>2, <3>3
  <2>4. \A s \in Terminal \ {"expired"} : \A i \in DOMAIN TrailOf(s) : TrailOf(s)[i] # "expired"
    BY DEF TrailOf, Terminal, Endings
  <2>5. \A i \in DOMAIN trail[f] : trail[f][i] # "expired"
    BY <2>3, <2>4 DEF LegalTrails
  <2> QED
    BY <2>2, <2>5
<1> QED
  BY <1>1, Invariance, PTL

\* No step takes a flow out of a terminal state.
THEOREM EndingsAreFinal == Spec => EndingIsFinal
<1>1. Inv /\ [Next]_vars => [\A f \in Flows : state[f] \in Terminal => state'[f] = state[f]]_vars
  <2> SUFFICES ASSUME Inv, [Next]_vars, NEW g \in Flows, state[g] \in Terminal
               PROVE  state'[g] = state[g]
    OBVIOUS
  <2> USE DEF startVars, flowVars, reqVars, endVars, dbVars, Inv, TypeOK
  <2>1. CASE UNCHANGED vars
    BY <2>1 DEF vars
  <2>2. ASSUME NEW f \in Flows, Start(f) PROVE state' = state
    BY <2>2 DEF Start, Sweep, SweepExpire, SweepDone, checkFlowBudget, ObserveGeneration,
                RecordStart, StartRefused, Insert
  <2>3. ASSUME NEW f \in Flows, Settle(f) \/ Relay(f) PROVE state' = state
    BY <2>3 DEF Settle, Relay, SettleSees, SettleExpire, BeginTerminalWrite, mayCommit, nothingToCommit, RelaySettled, consumeRelay
  <2>4. ASSUME NEW f \in Flows, Job(f) PROVE state'[g] = state[g]
    BY <2>4 DEF Job, Deny, ExchangeFails, ExchangeSucceeds, StoreCredential, StoreFails,
                DeliveryFails, complete
  <2>5. ASSUME NEW f \in Flows,
               \/ BeginTerminalWrite(f, "owner")
               \/ TerminalRowWritten(f)
               \/ TerminalRowFails(f)
               \/ ExposeTerminal(f)
               \/ CloseWindow(f)
               \/ Age(f)
        PROVE  state'[g] = state[g]
    BY <2>5 DEF BeginTerminalWrite, mayCommit, nothingToCommit, TerminalRowWritten, TerminalRowFails, ExposeTerminal, CloseWindow, Age, Wrote
  <2>6. CASE (\E p \in Providers : PutSecret(p)) \/ Crash
    BY <2>6 DEF PutSecret, Crash
  <2> QED
    BY <2>1, <2>2, <2>3, <2>4, <2>5, <2>6 DEF Next
<1> QED
  BY <1>1, Invariance, PTL DEF Spec, EndingIsFinal

(***************************************************************************)
(* The broker implements an atomic swap.                                    *)
(***************************************************************************)

\* A flow comes into flight only by reading the generation.
LEMMA InFlightStep ==
    ASSUME TypeOK, [Next]_vars, NEW g \in Flows, inFlight(g)',
           \A replace \in BOOLEAN : ~ObserveGeneration(g, replace)
    PROVE  inFlight(g)
<1> USE Vocabulary DEF startVars, flowVars, reqVars, endVars, dbVars, TypeOK, inFlight
<1>1. CASE UNCHANGED vars
  BY <1>1 DEF vars
<1>2. ASSUME NEW f \in Flows, Start(f) PROVE inFlight(g)
  <2>1. ASSUME NEW replace \in BOOLEAN, ObserveGeneration(f, replace) PROVE inFlight(g)
    BY <2>1 DEF ObserveGeneration
  <2>2. ASSUME NEW h \in Flows, SweepExpire(f, h) PROVE inFlight(g)
    BY <2>2 DEF SweepExpire, claimExpiry
  <2>3. CASE Sweep(f)
    BY <2>3 DEF Sweep
  <2>4. CASE SweepDone(f) \/ checkFlowBudget(f) \/ RecordStart(f) \/ StartRefused(f) \/ Insert(f)
    BY <2>4 DEF SweepDone, checkFlowBudget, RecordStart, StartRefused, Insert
  <2> QED
    BY <1>2, <2>1, <2>2, <2>3, <2>4 DEF Start
<1>3. ASSUME NEW f \in Flows, Settle(f) \/ Relay(f) PROVE inFlight(g)
  BY <1>3 DEF Settle, Relay, SettleSees, SettleExpire, claimExpiry, BeginTerminalWrite, mayCommit, nothingToCommit,
              RelaySettled, consumeRelay
<1>4. ASSUME NEW f \in Flows, Job(f) PROVE inFlight(g)
  <2>1. CASE complete(f)
    BY <2>1 DEF complete
  <2>2. CASE ExchangeSucceeds(f) \/ StoreCredential(f)
    BY <2>2 DEF ExchangeSucceeds, StoreCredential
  <2>3. CASE Deny(f) \/ ExchangeFails(f) \/ StoreFails(f) \/ DeliveryFails(f)
    BY <2>3 DEF Deny, ExchangeFails, StoreFails, DeliveryFails, terminate
  <2> QED
    BY <1>4, <2>1, <2>2, <2>3 DEF Job
<1>5. ASSUME NEW f \in Flows, ExposeTerminal(f) PROVE inFlight(g)
  <2>1. snap[f] # "pending"
    BY DEF Endings
  <2> QED
    BY <1>5, <2>1 DEF ExposeTerminal, Wrote
<1>6. ASSUME NEW f \in Flows,
             \/ BeginTerminalWrite(f, "owner")
             \/ TerminalRowWritten(f)
             \/ TerminalRowFails(f)
             \/ CloseWindow(f)
             \/ Age(f)
      PROVE  inFlight(g)
  BY <1>6 DEF BeginTerminalWrite, mayCommit, nothingToCommit, TerminalRowWritten, TerminalRowFails, CloseWindow, Age, Wrote
<1>7. ASSUME NEW p \in Providers, PutSecret(p) PROVE inFlight(g)
  BY <1>7 DEF PutSecret
<1>8. CASE Crash
  <2>1. stage'[g] \in {"idle", "gone"}
    BY <1>8 DEF Crash
  <2> QED
    BY <2>1
<1> QED
  BY <1>1, <1>2, <1>3, <1>4, <1>5, <1>6, <1>7, <1>8 DEF Next

\* Every interleaving of starts, jobs, expiries, imports and crashes is a
\* behaviour of the atomic swap.
THEOREM BrokerImplementsSwap == Spec => ImplementsSwap
<1>1. Init => Store!SwapInit
  BY DEF Init, Store!SwapInit, swapPhase, committed, inFlight
<1>2. Inv /\ [Next]_vars => [Store!SwapNext]_(Store!swapVars)
  <2> SUFFICES ASSUME Inv, [Next]_vars PROVE Store!SwapNext
    BY DEF Store!swapVars
  <2> USE ProviderAssumption
  <2>1. TypeOK /\ FlowLifecycle
    BY DEF Inv
  <2>2. CASE UNCHANGED <<gen, observed>> /\ \A f \in Flows, r \in BOOLEAN : ~ObserveGeneration(f, r)
    <3> DEFINE S == {f \in Flows : swapPhase[f] = "open" /\ swapPhase'[f] # "open"}
    <3>1. \A f \in Flows : committed(f)' <=> committed(f)
      <4>1. \A f \in Flows : ~StoreCredential(f)
        BY <2>1, <2>2 DEF StoreCredential, TypeOK
      <4> QED
        BY <2>1, <4>1, CommittedSame
    <3>2. \A f \in Flows : inFlight(f)' => inFlight(f)
      BY <2>1, <2>2, InFlightStep
    <3>3. \A f \in S : swapPhase[f] = "open"
      OBVIOUS
    <3>4. swapPhase' = [f \in Flows |-> IF f \in S THEN "idle" ELSE swapPhase[f]]
      BY <3>1, <3>2 DEF swapPhase
    <3>5. Store!GiveUp(S) /\ S \in SUBSET Flows
      BY <2>2, <3>3, <3>4 DEF Store!GiveUp
    <3> QED
      BY <3>5 DEF Store!SwapNext
  <2>3. ASSUME NEW h \in Flows, NEW r \in BOOLEAN, ObserveGeneration(h, r) PROVE Store!SwapNext
    <3>1. trail[h] = <<>> /\ stage[h] = "checked" /\ state[h] = "pending" /\ decided[h] = "nil"
      BY <2>1, <2>3 DEF ObserveGeneration, FlowLifecycle, FlowOK, Untouched, Quiet, Idle
    <3>2. \A f \in Flows : committed(f)' <=> committed(f)
      BY <2>3 DEF ObserveGeneration, dbVars, committed
    <3>3. ~committed(h) /\ ~inFlight(h)
      BY <3>1 DEF committed, inFlight
    <3>4. \A f \in Flows : f # h => (inFlight(f)' <=> inFlight(f))
      BY <2>1, <2>3 DEF ObserveGeneration, flowVars, inFlight, TypeOK
    <3>5. CASE stage'[h] = "observed"
      <4>1. inFlight(h)' /\ observed' = [observed EXCEPT ![h] = gen[ProviderOf[h]]] /\ gen' = gen
        BY <2>1, <2>3, <3>1, <3>5 DEF ObserveGeneration, flowVars, dbVars, inFlight, TypeOK
      <4>2. swapPhase[h] = "idle" /\ swapPhase' = [swapPhase EXCEPT ![h] = "open"]
        BY <3>2, <3>3, <3>4, <4>1 DEF swapPhase
      <4> QED
        BY <4>1, <4>2 DEF Store!SwapNext, Store!Begin
    <3>6. CASE stage'[h] # "observed"
      <4>1. ~inFlight(h)' /\ observed' = observed /\ gen' = gen
        BY <2>1, <2>3, <3>6 DEF ObserveGeneration, dbVars, inFlight, TypeOK
      <4>2. swapPhase' = swapPhase
        BY <3>2, <3>3, <3>4, <4>1 DEF swapPhase
      <4>3. Store!GiveUp({})
        BY <4>1, <4>2 DEF Store!GiveUp, swapPhase
      <4> QED
        BY <4>3 DEF Store!SwapNext
    <3> QED
      BY <3>5, <3>6
  <2>4. ASSUME NEW h \in Flows, StoreCredential(h) PROVE Store!SwapNext
    <3>1. stage[h] = "open" /\ Working(h)
      BY <2>1, <2>4, JobMeansWorking DEF StoreCredential, FlowLifecycle
    <3>2. trail[h] = <<"started">> /\ trail'[h] = <<"started", "committed">>
      BY <2>1, <2>4, <3>1, OtherRows DEF StoreCredential, Working, TypeOK
    <3>3. inFlight(h) /\ ~committed(h) /\ committed(h)'
      BY <3>1, <3>2 DEF Working, Quiet, Idle, inFlight, committed
    <3>4. \A f \in Flows : f # h => (committed(f)' <=> committed(f))
      BY <2>1, <2>4 DEF StoreCredential, TypeOK, committed
    <3>5. \A f \in Flows : inFlight(f)' <=> inFlight(f)
      BY <2>4 DEF StoreCredential, startVars, flowVars, inFlight
    <3>6. swapPhase[h] = "open" /\ swapPhase' = [swapPhase EXCEPT ![h] = "stored"]
      BY <3>3, <3>4, <3>5 DEF swapPhase
    <3>7. Store!Swap(h)
      BY <2>4, <3>6 DEF Store!Swap, StoreCredential, startVars
    <3> QED
      BY <3>7 DEF Store!SwapNext
  <2>5. ASSUME NEW p \in Providers, PutSecret(p) PROVE Store!SwapNext
    <3>1. \A f \in Flows : (committed(f)' <=> committed(f)) /\ (inFlight(f)' <=> inFlight(f))
      BY <2>5 DEF PutSecret, startVars, flowVars, committed, inFlight
    <3>2. swapPhase' = swapPhase
      BY <3>1 DEF swapPhase
    <3>3. Store!Overwrite(p)
      BY <2>5, <3>2 DEF PutSecret, startVars, Store!Overwrite
    <3> QED
      BY <3>3 DEF Store!SwapNext
  <2> QED
    BY <2>2, <2>3, <2>4, <2>5, GenerationStep
<1> QED
  BY <1>1, <1>2, Invariance, PTL DEF Spec, ImplementsSwap, Store!SwapSpec

=============================================================================
