----------------------------- MODULE ControlPlane -----------------------------
(***************************************************************************)
(* The control-plane server: enrolment, machine authentication, grant        *)
(* issuance and revocation (internal/server), the capability policy          *)
(* (internal/policy), the SQLite store (internal/store) and the operator's   *)
(* `admin revoke-grant`, which opens the same database from another process. *)
(*                                                                         *)
(* One action is one store transaction, with the handler code up to the      *)
(* next one; handlers of several requests and the operator interleave        *)
(* between them.  A machine record is named by its tailnet node, a machine   *)
(* credential by <<node, version>>, a grant and its token by the grant's id. *)
(***************************************************************************)
EXTENDS Naturals, Sequences

CONSTANTS
    Nodes,       \* tailnet nodes
    Harnesses,   \* harness names a request may carry
    Caps,        \* capabilities
    Allowed,     \* HarnessPolicy.Allowed, for the harnesses that have a policy
    Default,     \* HarnessPolicy.Default
    GrantIds,    \* ids newID may draw
    Requests,    \* authenticated-API requests, one id per HTTP request
    MaxVersion   \* bound: a node enrols at most this often

Known == DOMAIN Allowed

\* Policy.Validate, which New runs before it serves anything.
ASSUME PolicyAssumption ==
    /\ Known \subseteq Harnesses
    /\ DOMAIN Default = Known
    /\ \A h \in Known : Default[h] \subseteq Allowed[h] /\ Allowed[h] \subseteq Caps
ASSUME NameAssumption ==
    /\ {"nobody", "operator", "system"} \cap Nodes = {}
    /\ "none" \notin Harnesses \cup GrantIds
ASSUME VersionAssumption == MaxVersion \in Nat

VARIABLES
    version,   \* machines.credential_version; 0 is a node with no record
    status,    \* grants.state; "none" is an id with no row
    machine,   \* grants.machine_id
    harness,   \* grants.harness
    caps,      \* grants.capabilities
    trail,     \* per grant: its lifecycle rows in audit_events
    machineTrail, \* per node: its enrolment rows in audit_events
    phase,     \* progress of a request's handler
    caller,    \* the machine a request authenticated as
    target,    \* the grant a revocation request owns
    denial,    \* the denial row a request wrote: whom it blames, and whether
    answer     \* what the client was told

machineVars == <<version, machineTrail>>
grantVars == <<status, machine, harness, caps, trail>>
reqVars == <<phase, caller, target, denial, answer>>
vars == <<machineVars, grantVars, reqVars>>

-----------------------------------------------------------------------------

\* A lifecycle row: the event, who acted, and the grant that superseded it.
Row(event, actor, by) == [event |-> event, actor |-> actor, by |-> by]

Init ==
    /\ version = [n \in Nodes |-> 0]
    /\ machineTrail = [n \in Nodes |-> <<>>]
    /\ status  = [g \in GrantIds |-> "none"]
    /\ machine = [g \in GrantIds |-> "nobody"]
    /\ harness = [g \in GrantIds |-> "none"]
    /\ caps    = [g \in GrantIds |-> {}]
    /\ trail   = [g \in GrantIds |-> <<>>]
    /\ phase   = [r \in Requests |-> "idle"]
    /\ caller  = [r \in Requests |-> "nobody"]
    /\ target  = [r \in Requests |-> "none"]
    /\ denial  = [r \in Requests |-> "none"]
    /\ answer  = [r \in Requests |-> "none"]

\* Every machine the calling node may be enrolled as: the first enrolment
\* creates the record, every later one rotates its credential.
handleEnrol(n) ==
    /\ version[n] < MaxVersion
    /\ version' = [version EXCEPT ![n] = @ + 1]
    /\ machineTrail' = [machineTrail EXCEPT ![n] =
            Append(@, IF version[n] = 0 THEN "enrolment" ELSE "credential_rotation")]
    /\ UNCHANGED <<grantVars, reqVars>>

-----------------------------------------------------------------------------

\* The handler is over; `said` is the response.
Finish(r, said) ==
    /\ phase' = [phase EXCEPT ![r] = "done"]
    /\ answer' = [answer EXCEPT ![r] = said]

\* deny: the refusal is recorded first.  A row that cannot be written turns the
\* refusal into 503.  `blames` is the row's AuthMachineID.
deny(r, blames) ==
    \/ /\ denial' = [denial EXCEPT ![r] = blames]
       /\ Finish(r, "refused")
    \/ /\ UNCHANGED denial
       /\ Finish(r, "unavailable")

\* The credential tok is the one stored for the node it comes from.
Verify(n, tok) == version[n] > 0 /\ tok = <<n, version[n]>>

\* tok is <<m, v>>, a credential m was handed once; v = 0 stands for a missing
\* header and for garbage.
authenticate(r, n, tok) ==
    /\ phase[r] = "idle"
    /\ tok[2] <= version[tok[1]]
    /\ IF Verify(n, tok)
       THEN /\ phase' = [phase EXCEPT ![r] = "authenticated"]
            /\ caller' = [caller EXCEPT ![r] = n]
            /\ UNCHANGED <<denial, answer>>
       ELSE deny(r, "nobody") /\ UNCHANGED caller
    /\ UNCHANGED <<machineVars, grantVars, target>>

\* Mutant: a known harness may hold whatever it asks for.
PermittedAny(h, asked) == h \in Known

\* The policy lets harness h hold what was asked for.  Blank entries do not
\* count, but a request of blanks alone is not an empty request.
Permitted(h, asked) ==
    /\ h \in Known
    /\ asked = {} \/ (asked \ {"blank"} # {} /\ asked \ {"blank"} \subseteq Allowed[h])

\* Mutant: blank entries are granted.
ResolveRaw(h, asked) == IF asked = {} THEN Default[h] ELSE asked

\* What a permitted request is granted.
Resolve(h, asked) == IF asked = {} THEN Default[h] ELSE asked \ {"blank"}

IssueDenied(r, h, asked) ==
    /\ phase[r] = "authenticated"
    /\ ~Permitted(h, asked)
    /\ deny(r, caller[r])
    /\ UNCHANGED <<machineVars, grantVars, caller, target>>

\* Mutant: nothing is superseded.
ExistingNone(n, h) == {}

\* The active grants IssueGrant supersedes: at most one, by the unique index.
Existing(n, h) == {g \in GrantIds : status[g] = "active" /\ machine[g] = n /\ harness[g] = h}

\* newID and the primary key: an id is used once.
Fresh(g) == status[g] = "none"

\* One transaction: supersede, insert, and both audit rows.
IssueGrant(r, h, asked, g) ==
    LET n   == caller[r]
        old == Existing(n, h)
    IN  /\ phase[r] = "authenticated"
        /\ Permitted(h, asked)
        /\ Fresh(g)
        /\ status' = [x \in GrantIds |->
                IF x = g THEN "active" ELSE IF x \in old THEN "revoked" ELSE status[x]]
        /\ machine' = [machine EXCEPT ![g] = n]
        /\ harness' = [harness EXCEPT ![g] = h]
        /\ caps'    = [caps EXCEPT ![g] = Resolve(h, asked)]
        /\ trail'   = [x \in GrantIds |->
                IF x = g THEN Append(trail[x], Row("grant_issued", n, "none"))
                ELSE IF x \in old THEN Append(trail[x], Row("grant_superseded", "system", g))
                ELSE trail[x]]
        /\ Finish(r, "issued")
        /\ UNCHANGED <<machineVars, caller, target, denial>>

\* GrantByID and the ownership test; the revocation itself comes later.
CheckOwner(r, g) ==
    /\ phase[r] = "authenticated"
    /\ IF status[g] # "none" /\ machine[g] = caller[r]
       THEN /\ phase' = [phase EXCEPT ![r] = "owned"]
            /\ target' = [target EXCEPT ![r] = g]
            /\ UNCHANGED <<denial, answer>>
       ELSE deny(r, caller[r]) /\ UNCHANGED target
    /\ UNCHANGED <<machineVars, grantVars, caller>>

\* store.RevokeGrant on an active grant: the transition and its row.
Revoke(g, actor) ==
    /\ status' = [status EXCEPT ![g] = "revoked"]
    /\ trail' = [trail EXCEPT ![g] = Append(@, Row("grant_revoked", actor, "none"))]
    /\ UNCHANGED <<machine, harness, caps>>

\* Mutant: the transaction trusts the handler's earlier lookup.
RevokeAgain(r) ==
    /\ phase[r] = "owned"
    /\ Revoke(target[r], caller[r])
    /\ Finish(r, "revoked")
    /\ UNCHANGED <<machineVars, caller, target, denial>>

\* The state is read again inside the transaction: only a real transition is
\* made, recorded and reported as such.
RevokeGrant(r) ==
    LET g == target[r]
    IN  /\ phase[r] = "owned"
        /\ IF status[g] = "active"
           THEN Revoke(g, caller[r]) /\ Finish(r, "revoked")
           ELSE UNCHANGED grantVars /\ Finish(r, "already_revoked")
        /\ UNCHANGED <<machineVars, caller, target, denial>>

\* handleListGrants answers from the table; a malformed request is refused
\* without a row; a store call failed and its transaction rolled back.
NothingChanges(r) ==
    /\ phase[r] \in {"authenticated", "owned"}
    /\ Finish(r, "error")
    /\ UNCHANGED <<machineVars, grantVars, caller, target, denial>>

\* `homeplane-server admin revoke-grant`, in the operator's own process.
adminRevokeGrant(g) ==
    /\ status[g] = "active"
    /\ Revoke(g, "operator")
    /\ UNCHANGED <<machineVars, reqVars>>

Pending == {r \in Requests : phase[r] \in {"authenticated", "owned"}}

\* The server dies between two transactions: its requests get no answer.
LoseRequests ==
    /\ phase' = [r \in Requests |-> IF r \in Pending THEN "done" ELSE phase[r]]
    /\ UNCHANGED <<machineVars, grantVars, caller, target, denial, answer>>

Crash == Pending # {} /\ LoseRequests

-----------------------------------------------------------------------------

RequestStep(r) ==
    \/ \E n, m \in Nodes : \E v \in 0..MaxVersion : authenticate(r, n, <<m, v>>)
    \/ \E h \in Harnesses : \E asked \in SUBSET (Caps \cup {"blank"}) :
            \/ IssueDenied(r, h, asked)
            \/ \E g \in GrantIds : IssueGrant(r, h, asked, g)
    \/ \E g \in GrantIds : CheckOwner(r, g)
    \/ RevokeGrant(r)
    \/ NothingChanges(r)

Next ==
    \/ \E n \in Nodes : handleEnrol(n)
    \/ \E r \in Requests : RequestStep(r)
    \/ \E g \in GrantIds : adminRevokeGrant(g)
    \/ Crash

Spec == Init /\ [][Next]_vars

-----------------------------------------------------------------------------
(***************************************************************************)
(* Properties.                                                              *)
(***************************************************************************)

Actors == Nodes \cup {"system", "operator"}

Rows == [event : {"grant_issued", "grant_superseded", "grant_revoked"},
         actor : Actors, by : GrantIds \cup {"none"}]

\* Every column and every field of a request keeps its type.
TypeOK ==
    /\ version \in [Nodes -> Nat]
    /\ machineTrail \in [Nodes -> Seq({"enrolment", "credential_rotation"})]
    /\ status  \in [GrantIds -> {"none", "active", "revoked"}]
    /\ machine \in [GrantIds -> Nodes \cup {"nobody"}]
    /\ harness \in [GrantIds -> Harnesses \cup {"none"}]
    /\ caps    \in [GrantIds -> SUBSET Caps]
    /\ trail   \in [GrantIds -> Seq(Rows)]
    /\ phase   \in [Requests -> {"idle", "authenticated", "owned", "done"}]
    /\ caller  \in [Requests -> Nodes \cup {"nobody"}]
    /\ target  \in [Requests -> GrantIds \cup {"none"}]
    /\ denial  \in [Requests -> Nodes \cup {"nobody", "none"}]
    /\ answer  \in [Requests -> {"none", "issued", "revoked", "already_revoked",
                                 "refused", "unavailable", "error"}]

\* "Issuing a new grant for the same (machine, harness) revokes the previous
\* one" (ARCHITECTURE.md:83, sqlite.go:47): two concurrent issuances never leave
\* a harness with two working tokens.
OneActivePerHarness ==
    \A g, h \in GrantIds :
        /\ status[g] = "active" /\ status[h] = "active"
        /\ machine[g] = machine[h] /\ harness[g] = harness[h]
        => g = h

\* The only ways a grant ends: by its own machine, by the operator, or by a
\* later grant of the same machine and harness.
EndRows(g) ==
    {Row("grant_revoked", a, "none") : a \in {machine[g], "operator"}} \cup
    {Row("grant_superseded", "system", h) :
        h \in {x \in GrantIds \ {g} : status[x] # "none" /\ machine[x] = machine[g] /\ harness[x] = harness[g]}}

\* "a token cannot stop working without the log saying why" and no revocation is
\* recorded twice (handlers.go:349-352): a grant's rows are its issue and, when it
\* is revoked, exactly one end, by somebody entitled to it, however revocations,
\* supersessions and the operator race.
GrantHistory ==
    \A g \in GrantIds :
        /\ status[g] = "none" => trail[g] = <<>>
        /\ status[g] = "active" => trail[g] = <<Row("grant_issued", machine[g], "none")>>
        /\ status[g] = "revoked" =>
            /\ Len(trail[g]) = 2
            /\ trail[g][1] = Row("grant_issued", machine[g], "none")
            /\ trail[g][2] \in EndRows(g)

\* `revoked: true` means "this call performed the revocation"
\* (handlers.go:292-293): at most one request per grant is told so, and the log
\* names its caller; a request told "already revoked" sees a revoked grant.
RevocationAnswersAreTrue ==
    \A r \in Requests :
        /\ answer[r] = "revoked" =>
            /\ status[target[r]] = "revoked"
            /\ trail[target[r]][2] = Row("grant_revoked", caller[r], "none")
            /\ \A q \in Requests \ {r} : answer[q] = "revoked" => target[q] # target[r]
        /\ answer[r] = "already_revoked" => status[target[r]] = "revoked"

=============================================================================
