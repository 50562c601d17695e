------------------------------- MODULE Delivery -------------------------------
(***************************************************************************)
(* Delivery of stored provider credentials into the directory the connector  *)
(* workload mounts (cmd/homeplane-server/workload_credential.go,             *)
(* internal/server/workloadcred): once per committed flow, and once per      *)
(* provider when the server starts.                                          *)
(*                                                                         *)
(* A delivery reads the store, writes the credential file and then the       *)
(* client file, and reports its outcome to the health probe; deliveries of   *)
(* several flows interleave at each of these steps.  The credential file is  *)
(* named after the deployment's one account, whatever the provider.          *)
(***************************************************************************)
EXTENDS Naturals

CONSTANTS
    Providers,   \* connectors whose manifest entry declares credential_delivery
    Flows,       \* flows that store a credential
    ProviderOf,  \* the provider of a flow
    MaxGen       \* bound: the operator imports only below this generation

ASSUME FlowAssumption == ProviderOf \in [Flows -> Providers] /\ "boot" \notin Flows
ASSUME NameAssumption == "nil" \notin Providers
ASSUME GenAssumption == MaxGen \in Nat

Deliverers == Flows \cup {"boot"}

VARIABLES
    gen,       \* per provider: generation in the secrets table, 0 is none
    driver,    \* Homeplane's own OAuth client is in the secrets table
    file,      \* the credential file: provider and generation it carries
    client,    \* client_secret.json exists
    lastErr,   \* workloadDelivery.lastErr: the provider it names, or "nil"
    pc,        \* how far a delivery is
    at,        \* the provider it is about
    read,      \* the generation it read
    mine,      \* the generation the flow committed
    queue,     \* providers deliverStored has not come to yet
    settled    \* nothing was stored since the server started

dbVars   == <<gen, driver, settled>>
fileVars == <<file, client>>
vars == <<dbVars, fileVars, lastErr, pc, at, read, mine, queue>>

Init ==
    /\ gen = [p \in Providers |-> 0]
    /\ driver \in BOOLEAN
    /\ file = [provider |-> "nobody", gen |-> 0]
    /\ client = FALSE
    /\ lastErr = "nil"
    /\ pc = [d \in Deliverers |-> IF d = "boot" THEN "looping" ELSE "idle"]
    /\ at = [d \in Deliverers |-> "nobody"]
    /\ read = [d \in Deliverers |-> 0]
    /\ mine = [f \in Flows |-> 0]
    /\ queue = Providers
    /\ settled = TRUE

Goto(d, where) == pc' = [pc EXCEPT ![d] = where]

\* runServe listens only after deliverStored has returned.
Serving == pc["boot"] = "done"

-----------------------------------------------------------------------------

\* The broker's PutSecretCAS of flow f, whose exchange took the OAuth client;
\* OnCommitted is called next.
Commit(f) ==
    LET p == ProviderOf[f] IN
    /\ Serving
    /\ driver
    /\ pc[f] = "idle"
    /\ gen' = [gen EXCEPT ![p] = @ + 1]
    /\ mine' = [mine EXCEPT ![f] = gen[p] + 1]
    /\ settled' = FALSE
    /\ at' = [at EXCEPT ![f] = p]
    /\ Goto(f, "reading")
    /\ UNCHANGED <<driver, fileVars, lastErr, read, queue>>

\* deliverStored's loop takes the next provider.
NextStored(p) ==
    /\ pc["boot"] = "looping"
    /\ p \in queue
    /\ queue' = queue \ {p}
    /\ at' = [at EXCEPT !["boot"] = p]
    /\ Goto("boot", "reading")
    /\ UNCHANGED <<dbVars, fileVars, lastErr, read, mine>>

BootDone ==
    /\ pc["boot"] = "looping"
    /\ queue = {}
    /\ Goto("boot", "done")
    /\ UNCHANGED <<dbVars, fileVars, lastErr, at, read, mine, queue>>

\* Where a deliverer goes when its delivery is over.
After(d, ok) ==
    IF d = "boot" THEN "looping" ELSE IF ok THEN "completed" ELSE "undelivered"

\* record: one slot for every provider, overwritten by each outcome.
Record(d, ok) ==
    /\ lastErr' = IF ok THEN "nil" ELSE at[d]
    /\ Goto(d, After(d, ok))

\* store.ErrNotFound at start, of the credential or of the OAuth client: the
\* provider is skipped and nothing is recorded.
SkipMissing(d) == Goto(d, After(d, FALSE)) /\ UNCHANGED lastErr

\* Service.Credential: what is stored now, not what the flow committed.
Credential(p) == gen[p]

\* Credential and the driver secrets.
ReadStored(d) ==
    LET g == Credential(at[d]) IN
    /\ pc[d] = "reading"
    /\ IF g = 0 \/ ~driver
       THEN SkipMissing(d) /\ UNCHANGED read
       ELSE \/ /\ read' = [read EXCEPT ![d] = g]
               /\ Goto(d, "writing")
               /\ UNCHANGED lastErr
            \/ Record(d, FALSE) /\ UNCHANGED read
    /\ UNCHANGED <<dbVars, fileVars, at, mine, queue>>

\* Mutant: an existing file is kept.
WriteOnce(d) ==
    /\ pc[d] = "writing"
    /\ file' = IF file.gen > 0 THEN file ELSE [provider |-> at[d], gen |-> read[d]]
    /\ Goto(d, "client")
    /\ UNCHANGED <<dbVars, client, lastErr, at, read, mine, queue>>

\* Materialize: the file is replaced, or left as it was.
WriteFile(d) ==
    /\ pc[d] = "writing"
    /\ \/ /\ file' = [provider |-> at[d], gen |-> read[d]]
          /\ Goto(d, "client")
          /\ UNCHANGED lastErr
       \/ Record(d, FALSE) /\ UNCHANGED file
    /\ UNCHANGED <<dbVars, client, at, read, mine, queue>>

\* Mutant: a client file that cannot be written is ignored.
ClientBestEffort(d) ==
    /\ pc[d] = "client"
    /\ client' \in {client, TRUE}
    /\ Goto(d, "written")
    /\ UNCHANGED <<dbVars, file, lastErr, at, read, mine, queue>>

\* MaterializeClient, and the end of deliver.
WriteClient(d) ==
    /\ pc[d] = "client"
    /\ \/ client' = TRUE /\ Goto(d, "written") /\ UNCHANGED lastErr
       \/ UNCHANGED client /\ Record(d, FALSE)
    /\ UNCHANGED <<dbVars, file, at, read, mine, queue>>

RecordSuccess(d) ==
    /\ pc[d] = "written"
    /\ Record(d, TRUE)
    /\ UNCHANGED <<dbVars, fileVars, at, read, mine, queue>>

\* `homeplane-server secret import` in another process: nothing is delivered.
Import(p) ==
    /\ gen[p] < MaxGen
    /\ gen' = [gen EXCEPT ![p] = @ + 1]
    /\ settled' = FALSE
    /\ UNCHANGED <<driver, fileVars, lastErr, pc, at, read, mine, queue>>

\* ... or imports the OAuth client's two secrets.
ImportClient ==
    /\ ~driver
    /\ driver' = TRUE
    /\ settled' = FALSE
    /\ UNCHANGED <<gen, fileVars, lastErr, pc, at, read, mine, queue>>

\* The server is restarted, also in the middle of its boot loop: lastErr is
\* memory, the store and the files are not.
Restart ==
    /\ lastErr' = "nil"
    /\ pc' = [d \in Deliverers |->
            IF d = "boot" THEN "looping"
            ELSE IF pc[d] \in {"reading", "writing", "client", "written"} THEN "lost" ELSE pc[d]]
    /\ queue' = Providers
    /\ settled' = TRUE
    /\ UNCHANGED <<gen, driver, fileVars, at, read, mine>>

Next ==
    \/ \E f \in Flows : Commit(f)
    \/ \E p \in Providers : NextStored(p) \/ Import(p)
    \/ ImportClient
    \/ BootDone
    \/ \E d \in Deliverers : ReadStored(d) \/ WriteFile(d) \/ WriteClient(d) \/ RecordSuccess(d)
    \/ Restart

Spec == Init /\ [][Next]_vars

-----------------------------------------------------------------------------
(***************************************************************************)
(* Properties.                                                              *)
(***************************************************************************)

\* "a client that polls its way to `completed` and immediately makes a connector
\* call finds a deployment that is actually ready" (credflow.go:240-243): a flow
\* is completed only when its delivery wrote its own or a later credential, and
\* the client file the connector refreshes with.
CompletedWasDelivered ==
    \A f \in Flows : pc[f] = "completed" => read[f] >= mine[f] /\ file.gen > 0 /\ client

\* "what makes a restart converge: the workload's directory is recreated from the
\* store" (workload_credential.go:154-156): once the server is up, with one
\* delivering provider, the OAuth client imported, a green probe and nothing
\* stored since the start, the file is the stored credential, whatever earlier
\* deliveries left behind.
RestartConverges ==
    \A p \in Providers :
        Providers = {p} /\ Serving /\ settled /\ driver /\ lastErr = "nil" /\ gen[p] > 0
        => file = [provider |-> p, gen |-> gen[p]]

=============================================================================
