---------------------------- MODULE DeliveryProofs ----------------------------
(***************************************************************************)
(* Proofs about the delivery of stored credentials, for every set of         *)
(* providers and flows.                                                      *)
(***************************************************************************)
EXTENDS Delivery, TLAPS

(***************************************************************************)
(* The inductive invariant.                                                 *)
(***************************************************************************)

\* The steps of a delivery between its start and its outcome.
Underway == {"reading", "writing", "client", "written"}

Places == Underway \cup {"looping", "done", "idle", "completed", "undelivered", "lost"}

TypeOK ==
    /\ gen \in [Providers -> Nat]
    /\ driver \in BOOLEAN
    /\ settled \in BOOLEAN
    /\ file \in [provider : Providers \cup {"nobody"}, gen : Nat]
    /\ client \in BOOLEAN
    /\ pc \in [Deliverers -> Places]
    /\ at \in [Deliverers -> Providers \cup {"nobody"}]
    /\ read \in [Deliverers -> Nat]
    /\ mine \in [Flows -> Nat]
    /\ queue \subseteq Providers

\* A delivery is about a provider, and writes a credential it really read; a file
\* once written is never a file of nothing.
DeliveryShape ==
    \A d \in Deliverers :
        /\ pc[d] \in Underway => at[d] \in Providers
        /\ pc[d] \in {"writing", "client", "written", "completed"} => read[d] > 0
        /\ pc[d] \in {"client", "written", "completed"} => file.gen > 0
        /\ pc[d] \in {"written", "completed"} => client

\* A flow delivers for its own provider.  The store only moves on from what the
\* flow committed, so that what it reads back is that or something later.
OwnOrLater ==
    \A f \in Flows :
        /\ pc[f] \in Underway => at[f] = ProviderOf[f]
        /\ pc[f] \in Underway => gen[ProviderOf[f]] >= mine[f]
        /\ pc[f] \in {"writing", "client", "written", "completed"} => read[f] >= mine[f]

\* The boot loop and the flows do not share a deliverer: the loop never idles and
\* no flow loops.
LoopOnlyAtBoot ==
    /\ pc["boot"] \in Underway \cup {"looping", "done"}
    /\ \A f \in Flows : pc[f] \notin {"looping", "done"}

\* Until something is stored, only the boot loop delivers.
QuietWhileSettled ==
    settled => \A f \in Flows : pc[f] \notin Underway

\* How far the boot loop has come with a lone provider whose credential and
\* client have both been there since the start: what it has read, written and,
\* if the probe is still green, left in the file, is the stored credential.
Converging ==
    \A p \in Providers :
        Providers = {p} /\ settled /\ driver /\ gen[p] > 0 =>
            /\ pc["boot"] = "writing" => read["boot"] = gen[p]
            /\ pc["boot"] \in {"client", "written"} => file = [provider |-> p, gen |-> gen[p]]
            /\ pc["boot"] \in {"looping", "done"} /\ p \notin queue /\ lastErr = "nil" =>
                    file = [provider |-> p, gen |-> gen[p]]

\* The loop is over when it has nothing left.
DoneIsEmpty == pc["boot"] = "done" => queue = {}

Inv ==
    /\ TypeOK
    /\ DeliveryShape
    /\ OwnOrLater
    /\ LoopOnlyAtBoot
    /\ QuietWhileSettled
    /\ Converging
    /\ DoneIsEmpty

(***************************************************************************)
(* Initial states and steps.                                                *)
(***************************************************************************)

\* A fresh deployment satisfies the invariant.
LEMMA InitInv == Init => Inv
<1> SUFFICES ASSUME Init PROVE Inv
  OBVIOUS
<1>1. \A d \in Deliverers : pc[d] = IF d = "boot" THEN "looping" ELSE "idle"
  BY DEF Init
<1>2. "boot" \in Deliverers /\ \A f \in Flows : f \in Deliverers /\ f # "boot"
  BY FlowAssumption DEF Deliverers
<1>3. TypeOK
  BY DEF Init, TypeOK, Places
<1>4. DeliveryShape /\ OwnOrLater /\ LoopOnlyAtBoot /\ QuietWhileSettled
  BY <1>1, <1>2 DEF DeliveryShape, OwnOrLater, LoopOnlyAtBoot, QuietWhileSettled, Underway
<1>5. Converging /\ DoneIsEmpty
  BY <1>1, <1>2 DEF Init, Converging, DoneIsEmpty
<1> QED
  BY <1>3, <1>4, <1>5 DEF Inv

\* The boot loop is a deliverer and no flow.
LEMMA BootAndFlows ==
    "boot" \in Deliverers /\ \A f \in Flows : f \in Deliverers /\ f # "boot"
BY FlowAssumption DEF Deliverers

\* A flow's credential is stored.
LEMMA CommitStep ==
    ASSUME Inv, NEW f \in Flows, Commit(f) PROVE Inv'
<1> DEFINE p == ProviderOf[f]
<1>1. /\ p \in Providers /\ pc["boot"] = "done" /\ pc[f] = "idle" /\ driver
      /\ settled' = FALSE /\ UNCHANGED <<driver, file, client, lastErr, read, queue>>
  BY FlowAssumption DEF Commit, Serving, fileVars
<1>2. /\ gen' \in [Providers -> Nat] /\ gen'[p] = gen[p] + 1
      /\ \A q \in Providers : gen'[q] >= gen[q]
  BY <1>1 DEF Commit, Inv, TypeOK
<1>3. /\ mine' \in [Flows -> Nat] /\ mine'[f] = gen[p] + 1
      /\ \A x \in Flows \ {f} : mine'[x] = mine[x]
  BY <1>1 DEF Commit, Inv, TypeOK
<1>4. /\ pc' \in [Deliverers -> Places] /\ pc'[f] = "reading"
      /\ \A d \in Deliverers \ {f} : pc'[d] = pc[d]
  BY BootAndFlows DEF Commit, Goto, Inv, TypeOK, Places, Underway
<1>5. /\ at' \in [Deliverers -> Providers \cup {"nobody"}] /\ at'[f] = p
      /\ \A d \in Deliverers \ {f} : at'[d] = at[d]
  BY <1>1, BootAndFlows DEF Commit, Inv, TypeOK
<1>6. TypeOK'
  BY <1>1, <1>2, <1>3, <1>4, <1>5 DEF Inv, TypeOK
<1>7. DeliveryShape'
  BY <1>1, <1>4, <1>5 DEF Inv, DeliveryShape, Underway
<1>8. OwnOrLater'
  <2> SUFFICES ASSUME NEW x \in Flows
               PROVE  /\ pc'[x] \in Underway => at'[x] = ProviderOf[x] /\ gen'[ProviderOf[x]] >= mine'[x]
                      /\ pc'[x] \in {"writing", "client", "written", "completed"} => read'[x] >= mine'[x]
    BY DEF OwnOrLater
  <2>1. CASE x = f
    BY <1>2, <1>3, <1>4, <1>5, <2>1, FlowAssumption DEF Inv, TypeOK
  <2>2. CASE x # f
    <3>1. ProviderOf[x] \in Providers /\ x \in Deliverers
      BY FlowAssumption, BootAndFlows
    <3>2. /\ gen'[ProviderOf[x]] \in Nat /\ gen[ProviderOf[x]] \in Nat /\ mine[x] \in Nat
          /\ gen'[ProviderOf[x]] >= gen[ProviderOf[x]]
      BY <1>2, <3>1 DEF Inv, TypeOK
    <3> QED
      BY <1>1, <1>3, <1>4, <1>5, <2>2, <3>1, <3>2 DEF Inv, OwnOrLater
  <2> QED
    BY <2>1, <2>2
<1>9. LoopOnlyAtBoot' /\ QuietWhileSettled' /\ Converging' /\ DoneIsEmpty'
  BY <1>1, <1>4, BootAndFlows
     DEF Inv, LoopOnlyAtBoot, QuietWhileSettled, Converging, DoneIsEmpty
<1> QED
  BY <1>6, <1>7, <1>8, <1>9 DEF Inv

\* The boot loop comes to its next provider.
LEMMA NextStoredStep ==
    ASSUME Inv, NEW p \in Providers, NextStored(p) PROVE Inv'
<1>1. /\ pc["boot"] = "looping" /\ UNCHANGED <<gen, driver, settled, file, client, lastErr, read, mine>>
      /\ queue' = queue \ {p}
  BY DEF NextStored, dbVars, fileVars
<1>2. /\ pc' \in [Deliverers -> Places] /\ pc'["boot"] = "reading"
      /\ \A f \in Flows : pc'[f] = pc[f]
      /\ at' \in [Deliverers -> Providers \cup {"nobody"}] /\ at'["boot"] = p
      /\ \A f \in Flows : at'[f] = at[f]
      /\ \A d \in Deliverers : d = "boot" \/ d \in Flows
  BY BootAndFlows DEF NextStored, Goto, Inv, TypeOK, Places, Underway, Deliverers
<1>3. TypeOK'
  BY <1>1, <1>2 DEF Inv, TypeOK
<1>4. DeliveryShape'
  BY <1>1, <1>2, BootAndFlows DEF Inv, DeliveryShape, Underway
<1>5. OwnOrLater'
  BY <1>1, <1>2 DEF Inv, OwnOrLater
<1>6. LoopOnlyAtBoot' /\ QuietWhileSettled' /\ Converging' /\ DoneIsEmpty'
  BY <1>1, <1>2 DEF Inv, LoopOnlyAtBoot, QuietWhileSettled, Converging, DoneIsEmpty, Underway
<1> QED
  BY <1>3, <1>4, <1>5, <1>6 DEF Inv

\* The boot loop has come to its end, and the server listens.
LEMMA BootDoneStep ==
    ASSUME Inv, BootDone PROVE Inv'
<1>1. /\ pc["boot"] = "looping" /\ queue = {}
      /\ UNCHANGED <<gen, driver, settled, file, client, lastErr, at, read, mine, queue>>
  BY DEF BootDone, dbVars, fileVars
<1>2. /\ pc' \in [Deliverers -> Places] /\ pc'["boot"] = "done"
      /\ \A f \in Flows : pc'[f] = pc[f]
      /\ \A d \in Deliverers : d = "boot" \/ d \in Flows
  BY BootAndFlows DEF BootDone, Goto, Inv, TypeOK, Places, Deliverers
<1>3. TypeOK'
  BY <1>1, <1>2 DEF Inv, TypeOK
<1>4. DeliveryShape'
  BY <1>1, <1>2, BootAndFlows DEF Inv, DeliveryShape, Underway
<1>5. OwnOrLater'
  BY <1>1, <1>2 DEF Inv, OwnOrLater
<1>6. LoopOnlyAtBoot' /\ QuietWhileSettled' /\ Converging' /\ DoneIsEmpty'
  BY <1>1, <1>2 DEF Inv, LoopOnlyAtBoot, QuietWhileSettled, Converging, DoneIsEmpty, Underway
<1> QED
  BY <1>3, <1>4, <1>5, <1>6 DEF Inv

\* The operator stores something: the store moves on, and nothing is settled.
LEMMA StoreStep ==
    ASSUME Inv, UNCHANGED <<file, client, pc, at, read, mine, queue>>, settled' = FALSE,
           gen' \in [Providers -> Nat], \A p \in Providers : gen'[p] >= gen[p],
           driver' \in BOOLEAN
    PROVE  Inv'
<1>1. TypeOK'
  BY DEF Inv, TypeOK
<1>2. DeliveryShape'
  BY DEF Inv, DeliveryShape
<1>3. OwnOrLater'
  <2> SUFFICES ASSUME NEW x \in Flows
               PROVE  /\ pc[x] \in Underway => at[x] = ProviderOf[x] /\ gen'[ProviderOf[x]] >= mine[x]
                      /\ pc[x] \in {"writing", "client", "written", "completed"} => read[x] >= mine[x]
    BY DEF OwnOrLater
  <2>1. /\ ProviderOf[x] \in Providers
        /\ gen'[ProviderOf[x]] \in Nat /\ gen[ProviderOf[x]] \in Nat /\ mine[x] \in Nat
        /\ gen'[ProviderOf[x]] >= gen[ProviderOf[x]]
    BY FlowAssumption DEF Inv, TypeOK
  <2> QED
    BY <2>1 DEF Inv, OwnOrLater
<1>4. LoopOnlyAtBoot' /\ QuietWhileSettled' /\ Converging' /\ DoneIsEmpty'
  BY DEF Inv, LoopOnlyAtBoot, QuietWhileSettled, Converging, DoneIsEmpty
<1> QED
  BY <1>1, <1>2, <1>3, <1>4 DEF Inv

\* `secret import` of a provider credential, or of the OAuth client.
LEMMA ImportSteps ==
    ASSUME Inv, ImportClient \/ \E p \in Providers : Import(p) PROVE Inv'
<1>1. CASE ImportClient
  <2>1. \A p \in Providers : gen'[p] >= gen[p]
    BY <1>1 DEF ImportClient, Inv, TypeOK
  <2> QED
    BY <1>1, <2>1, StoreStep DEF ImportClient, Inv, TypeOK, fileVars
<1>2. ASSUME NEW p \in Providers, Import(p) PROVE Inv'
  <2>1. gen' \in [Providers -> Nat] /\ \A q \in Providers : gen'[q] >= gen[q]
    BY <1>2 DEF Import, Inv, TypeOK
  <2> QED
    BY <1>2, <2>1, StoreStep DEF Import, Inv, TypeOK, fileVars
<1> QED
  BY <1>1, <1>2

\* A delivery ends without a change to the store or the files: skipped because
\* something is missing, or failed and recorded as failed.
LEMMA GiveUpStep ==
    ASSUME Inv, NEW d \in Deliverers, pc[d] \in Underway,
           UNCHANGED <<gen, driver, settled, file, client, at, read, mine, queue>>,
           \/ SkipMissing(d) /\ (gen[at[d]] = 0 \/ ~driver)
           \/ Record(d, FALSE)
    PROVE  Inv'
<1> DEFINE w == IF d = "boot" THEN "looping" ELSE "undelivered"
<1>0. Goto(d, w) /\ ((gen[at[d]] = 0 \/ ~driver) \/ lastErr' = at[d])
  BY DEF SkipMissing, Record, After
<1>1. /\ pc' \in [Deliverers -> Places]
      /\ pc'[d] = w /\ \A x \in Deliverers \ {d} : pc'[x] = pc[x]
  BY <1>0 DEF Goto, Inv, TypeOK, Places
<1>2. /\ pc'[d] = IF d = "boot" THEN "looping" ELSE "undelivered"
      /\ pc'[d] \notin Underway \cup {"done", "completed"}
  BY <1>1 DEF Underway
<1>3. TypeOK'
  BY <1>1 DEF Inv, TypeOK
<1>4. DeliveryShape'
  BY <1>1, <1>2 DEF Inv, DeliveryShape, Underway
<1>5. OwnOrLater'
  BY <1>1, <1>2, BootAndFlows DEF Inv, OwnOrLater, Underway
<1>6. LoopOnlyAtBoot' /\ QuietWhileSettled' /\ DoneIsEmpty'
  BY <1>1, <1>2, BootAndFlows DEF Inv, LoopOnlyAtBoot, QuietWhileSettled, DoneIsEmpty
<1>7. Converging'
  <2> SUFFICES ASSUME NEW p \in Providers, Providers = {p}, settled, driver, gen[p] > 0
               PROVE  /\ pc'["boot"] = "writing" => read["boot"] = gen[p]
                      /\ pc'["boot"] \in {"client", "written"} => file = [provider |-> p, gen |-> gen[p]]
                      /\ pc'["boot"] \in {"looping", "done"} /\ p \notin queue /\ lastErr' = "nil" =>
                             file = [provider |-> p, gen |-> gen[p]]
    BY DEF Converging
  <2>1. d = "boot"
    BY DEF Deliverers, Inv, QuietWhileSettled
  <2>2. at[d] = p
    BY DEF Inv, DeliveryShape
  <2>3. lastErr' # "nil"
    BY <1>0, <2>2, NameAssumption DEF Inv, TypeOK
  <2> QED
    BY <1>2, <2>1, <2>3
<1> QED
  BY <1>3, <1>4, <1>5, <1>6, <1>7 DEF Inv

\* A delivery gets on by one step: what the step has done and what is left.
LEMMA GetOnStep ==
    ASSUME Inv, NEW d \in Deliverers, pc[d] \in Underway, NEW w \in Underway, Goto(d, w),
           UNCHANGED <<gen, driver, settled, at, mine, queue, lastErr>>,
           file' \in [provider : Providers \cup {"nobody"}, gen : Nat], client' \in BOOLEAN,
           read' \in [Deliverers -> Nat],
           \A x \in Deliverers \ {d} : read'[x] = read[x],
           file.gen > 0 => file'.gen > 0, client => client',
           w \in {"writing", "client", "written"} => read'[d] > 0,
           w \in {"client", "written"} => file'.gen > 0,
           w = "written" => client',
           d \in Flows /\ w \in {"writing", "client", "written"} => read'[d] >= mine[d],
           d = "boot" => \A p \in Providers :
                Providers = {p} /\ settled /\ driver /\ gen[p] > 0 =>
                    /\ w = "writing" => read'["boot"] = gen[p]
                    /\ w \in {"client", "written"} => file' = [provider |-> p, gen |-> gen[p]]
    PROVE  Inv'
<1>1. /\ pc' \in [Deliverers -> Places]
      /\ pc'[d] = w /\ \A x \in Deliverers \ {d} : pc'[x] = pc[x]
  BY DEF Goto, Inv, TypeOK, Places
<1>2. TypeOK'
  BY <1>1 DEF Inv, TypeOK
<1>3. DeliveryShape'
  BY <1>1 DEF Inv, DeliveryShape, Underway
<1>4. OwnOrLater'
  BY <1>1, BootAndFlows DEF Inv, OwnOrLater, Underway
<1>5. LoopOnlyAtBoot' /\ QuietWhileSettled' /\ DoneIsEmpty'
  BY <1>1, BootAndFlows DEF Inv, LoopOnlyAtBoot, QuietWhileSettled, DoneIsEmpty, Underway
<1>6. Converging'
  <2> SUFFICES ASSUME NEW p \in Providers, Providers = {p}, settled, driver, gen[p] > 0
               PROVE  /\ pc'["boot"] = "writing" => read'["boot"] = gen[p]
                      /\ pc'["boot"] \in {"client", "written"} => file' = [provider |-> p, gen |-> gen[p]]
                      /\ pc'["boot"] \in {"looping", "done"} /\ p \notin queue /\ lastErr = "nil" =>
                             file' = [provider |-> p, gen |-> gen[p]]
    BY DEF Converging
  <2>1. d = "boot"
    BY DEF Deliverers, Inv, QuietWhileSettled
  <2> QED
    BY <1>1, <2>1 DEF Underway
<1> QED
  BY <1>2, <1>3, <1>4, <1>5, <1>6 DEF Inv

\* The store is read: what a delivery writes later is what is stored now.
LEMMA ReadStoredStep ==
    ASSUME Inv, NEW d \in Deliverers, ReadStored(d) PROVE Inv'
<1> DEFINE g == gen[at[d]]
<1>1. /\ pc[d] = "reading" /\ pc[d] \in Underway /\ at[d] \in Providers /\ g \in Nat
      /\ UNCHANGED <<gen, driver, settled, file, client, at, mine, queue>>
  BY DEF ReadStored, Inv, DeliveryShape, TypeOK, Underway, dbVars, fileVars
<1>2. CASE /\ g = 0 \/ ~driver
           /\ SkipMissing(d) /\ UNCHANGED read
  BY <1>1, <1>2, GiveUpStep
<1>3. CASE Record(d, FALSE) /\ UNCHANGED read
  BY <1>1, <1>3, GiveUpStep
<1>4. CASE /\ ~(g = 0 \/ ~driver) /\ read' = [read EXCEPT ![d] = g]
           /\ Goto(d, "writing") /\ UNCHANGED lastErr
  <2>1. /\ read' \in [Deliverers -> Nat] /\ read'[d] = g /\ g > 0
        /\ \A x \in Deliverers \ {d} : read'[x] = read[x]
    BY <1>1, <1>4 DEF Inv, TypeOK
  <2>2. d \in Flows => g >= mine[d]
    BY <1>1 DEF Inv, OwnOrLater
  <2>3. file' \in [provider : Providers \cup {"nobody"}, gen : Nat] /\ client' \in BOOLEAN
    BY <1>1 DEF Inv, TypeOK
  <2>4. ASSUME d = "boot", NEW p \in Providers, Providers = {p} PROVE read'["boot"] = gen[p]
    BY <1>1, <2>1, <2>4
  <2>5. "writing" \in Underway
    BY DEF Underway
  <2> QED
    BY <1>1, <1>4, <2>1, <2>2, <2>3, <2>4, <2>5, GetOnStep
<1> QED
  BY <1>2, <1>3, <1>4 DEF ReadStored, Credential

\* The credential file is replaced by what was read, or left as it was.
LEMMA WriteFileStep ==
    ASSUME Inv, NEW d \in Deliverers, WriteFile(d) PROVE Inv'
<1>1. /\ pc[d] = "writing" /\ pc[d] \in Underway /\ at[d] \in Providers
      /\ read[d] \in Nat /\ read[d] > 0
      /\ UNCHANGED <<gen, driver, settled, client, at, read, mine, queue>>
  BY DEF WriteFile, Inv, DeliveryShape, TypeOK, Underway, dbVars
<1>2. CASE Record(d, FALSE) /\ UNCHANGED file
  BY <1>1, <1>2, GiveUpStep
<1>3. CASE /\ file' = [provider |-> at[d], gen |-> read[d]]
           /\ Goto(d, "client") /\ UNCHANGED lastErr
  <2>1. file' \in [provider : Providers \cup {"nobody"}, gen : Nat] /\ file'.gen > 0
    BY <1>1, <1>3
  <2>2. d \in Flows => read[d] >= mine[d]
    BY <1>1 DEF Inv, OwnOrLater
  <2>3. client' \in BOOLEAN /\ read' \in [Deliverers -> Nat]
    BY <1>1 DEF Inv, TypeOK
  <2>4. ASSUME d = "boot", NEW p \in Providers, Providers = {p}, settled, driver, gen[p] > 0
        PROVE  file' = [provider |-> p, gen |-> gen[p]]
    <3>1. read["boot"] = gen[p] /\ at["boot"] = p
      BY <1>1, <2>4 DEF Inv, Converging
    <3> QED
      BY <1>3, <2>4, <3>1
  <2>5. "client" \in Underway
    BY DEF Underway
  <2> QED
    BY <1>1, <1>3, <2>1, <2>2, <2>3, <2>4, <2>5, GetOnStep
<1> QED
  BY <1>2, <1>3 DEF WriteFile

\* The client file is written, or the delivery fails.
LEMMA WriteClientStep ==
    ASSUME Inv, NEW d \in Deliverers, WriteClient(d) PROVE Inv'
<1>1. /\ pc[d] = "client" /\ pc[d] \in Underway /\ read[d] > 0 /\ file.gen > 0
      /\ UNCHANGED <<gen, driver, settled, file, at, read, mine, queue>>
  BY DEF WriteClient, Inv, DeliveryShape, Underway, dbVars
<1>2. CASE Record(d, FALSE) /\ UNCHANGED client
  BY <1>1, <1>2, GiveUpStep
<1>3. CASE client' = TRUE /\ Goto(d, "written") /\ UNCHANGED lastErr
  <2>1. /\ file' \in [provider : Providers \cup {"nobody"}, gen : Nat] /\ client' \in BOOLEAN
        /\ read' \in [Deliverers -> Nat]
    BY <1>1, <1>3 DEF Inv, TypeOK
  <2>2. d \in Flows => read[d] >= mine[d]
    BY <1>1 DEF Inv, OwnOrLater
  <2>3. ASSUME d = "boot", NEW p \in Providers, Providers = {p}, settled, driver, gen[p] > 0
        PROVE  file' = [provider |-> p, gen |-> gen[p]]
    BY <1>1, <2>3 DEF Inv, Converging
  <2>4. "written" \in Underway
    BY DEF Underway
  <2> QED
    BY <1>1, <1>3, <2>1, <2>2, <2>3, <2>4, GetOnStep
<1> QED
  BY <1>2, <1>3 DEF WriteClient

\* A delivery that wrote both files is recorded as a success.
LEMMA RecordSuccessStep ==
    ASSUME Inv, NEW d \in Deliverers, RecordSuccess(d) PROVE Inv'
<1>1. /\ pc[d] = "written" /\ read[d] > 0 /\ file.gen > 0 /\ client
      /\ UNCHANGED <<gen, driver, settled, file, client, at, read, mine, queue>>
  BY DEF RecordSuccess, Inv, DeliveryShape, dbVars, fileVars
<1> DEFINE w == IF d = "boot" THEN "looping" ELSE "completed"
<1>2. Goto(d, w)
  BY DEF RecordSuccess, Record, After
<1>3. /\ pc' \in [Deliverers -> Places]
      /\ pc'[d] = w /\ \A x \in Deliverers \ {d} : pc'[x] = pc[x]
  BY <1>2 DEF Goto, Inv, TypeOK, Places
<1>4. TypeOK'
  BY <1>1, <1>3 DEF Inv, TypeOK
<1>5. DeliveryShape'
  BY <1>1, <1>3 DEF Inv, DeliveryShape, Underway
<1>6. OwnOrLater'
  BY <1>1, <1>3, BootAndFlows DEF Inv, OwnOrLater, Underway
<1>7. LoopOnlyAtBoot' /\ QuietWhileSettled' /\ DoneIsEmpty'
  BY <1>1, <1>3, BootAndFlows
     DEF Inv, LoopOnlyAtBoot, QuietWhileSettled, DoneIsEmpty, Underway
<1>8. Converging'
  <2> SUFFICES ASSUME NEW p \in Providers, Providers = {p}, settled, driver, gen[p] > 0
               PROVE  /\ pc'["boot"] \notin {"writing", "client", "written"}
                      /\ file = [provider |-> p, gen |-> gen[p]]
    BY <1>1 DEF Converging
  <2>1. d = "boot"
    BY <1>1 DEF Deliverers, Inv, QuietWhileSettled, Underway
  <2> QED
    BY <1>1, <1>3, <2>1 DEF Inv, Converging
<1> QED
  BY <1>4, <1>5, <1>6, <1>7, <1>8 DEF Inv

\* A restart loses the deliveries under way and starts the loop over.
LEMMA RestartStep ==
    ASSUME Inv, Restart PROVE Inv'
<1>1. UNCHANGED <<gen, driver, file, client, at, read, mine>> /\ queue' = Providers /\ settled' = TRUE
  BY DEF Restart, fileVars
<1>2. \A d \in Deliverers : pc'[d] = IF d = "boot" THEN "looping"
                                     ELSE IF pc[d] \in Underway THEN "lost" ELSE pc[d]
  BY DEF Restart, Underway
<1>3. pc' \in [Deliverers -> Places]
  BY DEF Restart, Inv, TypeOK, Places
<1>4. TypeOK'
  BY <1>1, <1>3 DEF Inv, TypeOK
<1>5. DeliveryShape'
  BY <1>1, <1>2 DEF Inv, DeliveryShape, Underway
<1>6. OwnOrLater'
  BY <1>1, <1>2, BootAndFlows DEF Inv, OwnOrLater, Underway
<1>7. LoopOnlyAtBoot' /\ QuietWhileSettled' /\ Converging' /\ DoneIsEmpty'
  BY <1>1, <1>2, BootAndFlows
     DEF Inv, LoopOnlyAtBoot, QuietWhileSettled, Converging, DoneIsEmpty, Underway
<1> QED
  BY <1>4, <1>5, <1>6, <1>7 DEF Inv

\* The invariant is inductive.
LEMMA NextInv == Inv /\ [Next]_vars => Inv'
<1> SUFFICES ASSUME Inv, [Next]_vars PROVE Inv'
  OBVIOUS
<1>1. CASE UNCHANGED vars
  BY <1>1 DEF vars, dbVars, fileVars, Inv, TypeOK, DeliveryShape, OwnOrLater, LoopOnlyAtBoot,
              QuietWhileSettled, Converging, DoneIsEmpty
<1>2. CASE \E f \in Flows : Commit(f)
  BY <1>2, CommitStep
<1>3. CASE \E p \in Providers : NextStored(p) \/ Import(p)
  BY <1>3, NextStoredStep, ImportSteps
<1>4. CASE ImportClient \/ BootDone \/ Restart
  BY <1>4, ImportSteps, BootDoneStep, RestartStep
<1>5. CASE \E d \in Deliverers : ReadStored(d) \/ WriteFile(d) \/ WriteClient(d) \/ RecordSuccess(d)
  BY <1>5, ReadStoredStep, WriteFileStep, WriteClientStep, RecordSuccessStep
<1> QED
  BY <1>1, <1>2, <1>3, <1>4, <1>5 DEF Next

\* Delivery always keeps its inductive invariant.
THEOREM Invariance == Spec => []Inv
BY InitInv, NextInv, PTL DEF Spec

\* A flow is `completed` only when the credential it committed, or a later one,
\* has been written together with the client file, whatever other deliveries,
\* imports and restarts come between.
THEOREM CompletionsAreDelivered == Spec => []CompletedWasDelivered
<1>1. Inv => CompletedWasDelivered
  BY BootAndFlows DEF Inv, DeliveryShape, OwnOrLater, CompletedWasDelivered
<1> QED
  BY <1>1, Invariance, PTL

\* A restart recreates the file from the store: when the server listens, its
\* probe is green and nothing was stored since, a lone provider's file is the
\* stored credential, whatever was there before.
THEOREM RestartsConverge == Spec => []RestartConverges
<1>1. Inv => RestartConverges
  BY DEF Inv, Converging, DoneIsEmpty, RestartConverges, Serving
<1> QED
  BY <1>1, Invariance, PTL

=============================================================================
