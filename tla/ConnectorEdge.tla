---------------------------- MODULE ConnectorEdge ----------------------------
(***************************************************************************)
(* The connector edge (internal/server/edge) and the broker behind it        *)
(* (internal/server/connectors), composed with the control plane they share  *)
(* the store with: every MCP request is authenticated against the grants     *)
(* table, a tool call is authorized and recorded before it is forwarded, and *)
(* recorded again when the gateway answered.                                 *)
(*                                                                         *)
(* Between any two steps of a call the client may hang up, the grant may be  *)
(* revoked or superseded, the audit log may refuse a row, and the process    *)
(* may die.                                                                  *)
(***************************************************************************)
EXTENDS ControlPlane, Manifest

CONSTANTS
    Calls,      \* MCP requests, one id per HTTP request
    Manifests,  \* files an operator may start the server with
    ToolCalls   \* the tool names and arguments of tools/call requests

\* What the JSON decoder hands out: the lists of a manifest are sequences, of
\* whatever the operator wrote into them.
IsList(s) == s \in Seq(ToSet(s))

ASSUME ManifestAssumption ==
    \A m \in Manifests :
        /\ IsList(m)
        /\ \A k \in ToSet(m) : IsList(k.tools) /\ IsList(k.excluded) /\ IsList(k.inventory)

VARIABLES
    manifest,\* the registered manifest
    router,  \* its index of bare tool names
    step,    \* progress of ServeHTTP for a call
    node,    \* the tailnet node a call was observed from
    token,   \* the grant whose token it presents
    late,    \* the grant was already revoked when the call arrived
    body,    \* the tool name and arguments it carries
    rows,    \* the rows of audit_events that carry its call id
    wire,    \* what has reached the gateway
    gone,    \* the client hung up: r.Context() is cancelled
    logFails,\* the audit log itself refused a row of this call
    reply    \* what the client was told

callVars == <<step, node, token, late, body, rows, wire, gone, logFails, reply>>
plane == <<vars, manifest, router>>
edgeVars == <<plane, callVars>>

NoCall == [tool |-> <<>>, args |-> <<>>]

InFlight == {"arrived", "admitted", "recorded", "calling", "answered", "failed"}

-----------------------------------------------------------------------------

\* The server starts only with a manifest that validates and can be routed, and
\* reads it once.
EdgeInit ==
    /\ Init
    /\ manifest \in {m \in Manifests : Validate(m) /\ Routable(m)}
    /\ router = newToolRouter(manifest)
    /\ step  = [c \in Calls |-> "idle"]
    /\ node  = [c \in Calls |-> "nobody"]
    /\ token = [c \in Calls |-> "none"]
    /\ late  = [c \in Calls |-> FALSE]
    /\ body  = [c \in Calls |-> NoCall]
    /\ rows  = [c \in Calls |-> <<>>]
    /\ wire  = [c \in Calls |-> "nothing"]
    /\ gone  = [c \in Calls |-> FALSE]
    /\ logFails = [c \in Calls |-> FALSE]
    /\ reply = [c \in Calls |-> "none"]

Move(c, s) == step' = [step EXCEPT ![c] = s]

Reply(c, said) ==
    /\ Move(c, "done")
    /\ reply' = [reply EXCEPT ![c] = said]

\* The client sends its request; the id of an unissued grant is a bad token.
Arrive(c, n, g) ==
    /\ step[c] = "idle"
    /\ Move(c, "arrived")
    /\ node'  = [node EXCEPT ![c] = n]
    /\ token' = [token EXCEPT ![c] = g]
    /\ late'  = [late EXCEPT ![c] = status[g] = "revoked"]
    /\ UNCHANGED <<plane, body, rows, wire, gone, logFails, reply>>

\* Mutant: an audit failure is logged and the request goes on.
RecordBestEffort(c, row, then) ==
    /\ then
    /\ \/ rows' = [rows EXCEPT ![c] = Append(@, row)] /\ UNCHANGED logFails
       \/ logFails' = [logFails EXCEPT ![c] = TRUE] /\ UNCHANGED rows

\* AppendAudit on the request's own context: it fails when the log does, and
\* when the client is gone.  `then` follows a written row.
Record(c, row, then) ==
    \/ /\ ~gone[c]
       /\ rows' = [rows EXCEPT ![c] = Append(@, row)]
       /\ then
       /\ UNCHANGED logFails
    \/ /\ logFails' = [logFails EXCEPT ![c] = ~gone[c]]
       /\ Reply(c, "unavailable")
       /\ UNCHANGED rows

\* Mutant: the token alone is looked up.
GrantByToken(g) == status[g] # "none"

\* ActiveGrantByTokenHash, resolved per request and never cached.
ActiveGrant(g) == status[g] = "active"

\* The token is an active grant's, and the grant's machine is the one observed.
Authenticate(c) ==
    LET g == token[c]
    IN  /\ step[c] = "arrived"
        /\ IF ActiveGrant(g) /\ machine[g] = node[c]
           THEN Move(c, "admitted") /\ UNCHANGED <<rows, logFails, reply>>
           ELSE Record(c, "auth_denied", Reply(c, "unauthenticated"))
        /\ UNCHANGED <<plane, node, token, late, body, wire, gone>>

\* A store lookup failed, or the body is too large, a batch or malformed.
Malformed(c) ==
    /\ step[c] \in {"arrived", "admitted"}
    /\ Reply(c, "error")
    /\ UNCHANGED <<plane, node, token, late, body, rows, wire, gone, logFails>>

\* GET, DELETE, and every POST that is not a tools/call: session transport,
\* proxied without a row.
Forward(c) ==
    /\ step[c] = "admitted"
    /\ wire' = [wire EXCEPT ![c] = "frame"]
    /\ Reply(c, "proxied")
    /\ UNCHANGED <<plane, node, token, late, body, rows, gone, logFails>>

\* handlePost and Invoke up to the forward: the name is routed, the call judged
\* by its connector's rules, and the decision on the record first.
Decide(c, call) ==
    LET reason == Authorize(manifest, route(manifest, router, call.tool), call.args,
                            caps[token[c]])
    IN  /\ step[c] = "admitted"
        /\ body' = [body EXCEPT ![c] = call]
        /\ Record(c, CallEvent(reason),
                  IF reason = "allowed"
                  THEN Move(c, "recorded") /\ UNCHANGED reply
                  ELSE Reply(c, "denied"))
        /\ UNCHANGED <<plane, node, token, late, wire, gone>>

\* The request to the gateway: a cancelled context stops it before it is sent,
\* and an unreachable gateway never receives it.
CallTool(c) ==
    /\ step[c] = "recorded"
    /\ \/ ~gone[c] /\ wire' = [wire EXCEPT ![c] = "tool"] /\ Move(c, "calling")
       \/ UNCHANGED wire /\ Move(c, "failed")
    /\ UNCHANGED <<plane, node, token, late, body, rows, gone, logFails, reply>>

\* Mutant: the wait ends only while the client is there.
ReturnsToClient(c) ==
    /\ step[c] = "calling"
    /\ ~gone[c]
    /\ \E s \in {"answered", "failed"} : Move(c, s)
    /\ UNCHANGED <<plane, node, token, late, body, rows, wire, gone, logFails, reply>>

\* The gateway answered, or the wait ended: an error, a timeout, a hang-up.
ToolReturns(c) ==
    /\ step[c] = "calling"
    /\ \E s \in {"answered", "failed"} : Move(c, s)
    /\ UNCHANGED <<plane, node, token, late, body, rows, wire, gone, logFails, reply>>

\* The result row, on a context detached from the client's.
RecordResult(c) ==
    LET ok == step[c] = "answered"
    IN  /\ step[c] \in {"answered", "failed"}
        /\ \/ /\ rows' = [rows EXCEPT ![c] = Append(@, IF ok THEN "result_ok" ELSE "tool_failed")]
              /\ Reply(c, IF ok THEN "result" ELSE "failure")
              /\ UNCHANGED logFails
           \/ /\ logFails' = [logFails EXCEPT ![c] = TRUE]
              /\ Reply(c, "unavailable")
              /\ UNCHANGED rows
        /\ UNCHANGED <<plane, node, token, late, body, wire, gone>>

HangUp(c) ==
    /\ step[c] \in InFlight
    /\ ~gone[c]
    /\ gone' = [gone EXCEPT ![c] = TRUE]
    /\ UNCHANGED <<plane, step, node, token, late, body, rows, wire, logFails, reply>>

\* The process dies with all its handlers; the store keeps what was committed.
EdgeCrash ==
    /\ Pending # {} \/ \E c \in Calls : step[c] \in InFlight
    /\ LoseRequests
    /\ step' = [c \in Calls |-> IF step[c] \in InFlight THEN "lost" ELSE step[c]]
    /\ UNCHANGED <<manifest, router, node, token, late, body, rows, wire, gone, logFails, reply>>

-----------------------------------------------------------------------------

\* What the edge does of itself once a call arrived.
Serve(c) ==
    \/ Authenticate(c)
    \/ Malformed(c)
    \/ Forward(c)
    \/ \E call \in ToolCalls : Decide(c, call)
    \/ CallTool(c)
    \/ ToolReturns(c)
    \/ RecordResult(c)

\* The control plane's own steps, with no call in flight touched.
ControlStep ==
    /\ \/ \E n \in Nodes : handleEnrol(n)
       \/ \E r \in Requests : RequestStep(r)
       \/ \E g \in GrantIds : adminRevokeGrant(g)
    /\ UNCHANGED <<callVars, manifest, router>>

EdgeNext ==
    \/ ControlStep
    \/ \E c \in Calls :
        \/ \E n \in Nodes, g \in GrantIds : Arrive(c, n, g)
        \/ Serve(c)
        \/ HangUp(c)
    \/ EdgeCrash

EdgeSpec == EdgeInit /\ [][EdgeNext]_edgeVars

\* The server runs its handlers, and the gateway client's timeout (60 s) ends a
\* call the gateway never answers.
EdgeFairSpec == EdgeSpec /\ \A c \in Calls : WF_edgeVars(Serve(c))

-----------------------------------------------------------------------------
(***************************************************************************)
(* Properties.                                                              *)
(***************************************************************************)

\* "a revoked grant stops working on the next call" (ARCHITECTURE.md:98-100):
\* nothing of a call that arrived after the revocation, or the supersession, of
\* its grant committed ever reaches the gateway.
RevocationBites == \A c \in Calls : late[c] => wire[c] = "nothing"

\* Whatever reaches the gateway came from the node its grant was issued to
\* (edge.go:205-208), and a tool call there takes nothing the policy of the
\* grant's harness does not allow, whichever declared tool the gateway may run
\* under that name: "guessing whose policy applies is how one connector's
\* read-only rules end up applied to another's delete tool" (router.go:69-73).
\* The chain from Resolve over the stored grant, the manifest's validation and
\* the router to Authorize hands out no authority of its own.
AuthorityIsProven ==
    \A c \in Calls :
        /\ wire[c] # "nothing" => machine[token[c]] = node[c]
        /\ wire[c] = "tool" =>
              LET powers == Powers(manifest, body[c].tool, body[c].args)
              IN  /\ powers # {} /\ {} \notin powers
                  /\ UNION powers \subseteq Allowed[harness[token[c]]]

\* What the log holds when the client of c was told `said`; a 503 promises
\* nothing.  A refusal is a policy violation exactly when no grant could have
\* been admitted.
RowsOf(c, said) ==
    CASE said = "result"          -> {<<"call_allowed", "result_ok">>}
      [] said = "failure"         -> {<<"call_allowed", "tool_failed">>}
      [] said = "denied"          -> {<<IF Declared(manifest, body[c].tool, body[c].args)
                                        THEN "call_denied" ELSE "policy_violation">>}
      [] said = "unauthenticated" -> {<<"auth_denied">>}
      [] said = "unavailable"     -> {<<>>, <<"call_allowed">>}
      [] OTHER                    -> {<<>>}

\* "the decision is recorded BEFORE the tool runs" (broker.go:72-75), the client
\* is never told a result, a failure or a refusal whose rows are missing or say
\* something else, and "a
\* harness that hangs up" does not cancel "the record of a call that already
\* happened" (broker.go:94-98): a tool call that came back has its result row
\* unless the log itself refused it.
CallsAreOnRecord ==
    \A c \in Calls :
        /\ wire[c] = "tool" => rows[c] # <<>> /\ rows[c][1] = "call_allowed"
        /\ step[c] = "done" => rows[c] \in RowsOf(c, reply[c])
        /\ wire[c] = "tool" /\ step[c] = "done" /\ ~logFails[c] => Len(rows[c]) = 2

\* Every call that arrives is answered or dies with the process; no client can
\* pin a handler by hanging up.
CallsEnd == \A c \in Calls : (step[c] = "arrived") ~> (step[c] \in {"done", "lost"})

=============================================================================
