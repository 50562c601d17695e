--------------------------------- MODULE ServerProofs ---------------------------------
(***************************************************************************)
(* Proofs about the server: the control plane, for every set of nodes,       *)
(* harnesses, capabilities, grants and requests and every valid policy; then *)
(* the connector edge in front of it, for every set of manifests an operator *)
(* may write and every tool call.                                            *)
(***************************************************************************)
EXTENDS ConnectorEdge, SequenceTheorems, WellFoundedInduction, TLAPS

-----------------------------------------------------------------------------
(***************************************************************************)
(*                          I.  The control plane                           *)
(***************************************************************************)

(***************************************************************************)
(* The inductive invariant.                                                 *)
(***************************************************************************)

\* A grant with a row belongs to a machine and to a harness with a policy, and
\* carries no capability that policy does not allow.
GrantShape ==
    \A g \in GrantIds : status[g] # "none" =>
        /\ machine[g] \in Nodes
        /\ harness[g] \in Known
        /\ caps[g] \subseteq Allowed[harness[g]]

\* What a request's progress says: an authenticated one has a caller, one that
\* owns a grant has found it in the table under its caller's name, and only a
\* finished one has an answer.
RequestShape ==
    \A r \in Requests :
        /\ phase[r] \in {"authenticated", "owned"} => caller[r] \in Nodes
        /\ phase[r] # "done" => answer[r] = "none"
        /\ phase[r] = "owned" \/ answer[r] \in {"revoked", "already_revoked"} =>
            /\ target[r] \in GrantIds
            /\ status[target[r]] # "none"
            /\ machine[target[r]] = caller[r]

Inv ==
    /\ TypeOK
    /\ GrantShape
    /\ RequestShape
    /\ OneActivePerHarness
    /\ GrantHistory
    /\ RevocationAnswersAreTrue

(***************************************************************************)
(* Lemmas about rows.                                                       *)
(***************************************************************************)

\* A lifecycle row of the three kinds the store writes is a row of the table.
LEMMA RowType ==
    ASSUME NEW e \in {"grant_issued", "grant_superseded", "grant_revoked"},
           NEW a \in Actors, NEW b \in GrantIds \cup {"none"}
    PROVE  Row(e, a, b) \in Rows
BY DEF Row, Rows

\* What Append does to a trail.
LEMMA AppendRow ==
    ASSUME NEW S, NEW s \in Seq(S), NEW x \in S
    PROVE  /\ Append(s, x) \in Seq(S)
           /\ Len(Append(s, x)) = Len(s) + 1
           /\ \A i \in 1 .. Len(s) : Append(s, x)[i] = s[i]
           /\ Append(s, x)[Len(s) + 1] = x
BY AppendProperties

\* The end of an active grant: one more row makes its history complete.
LEMMA EndOfActive ==
    ASSUME NEW S, NEW a \in S, NEW b \in S, NEW t \in Seq(S), t = <<a>>
    PROVE  /\ Append(t, b) \in Seq(S)
           /\ Len(Append(t, b)) = 2
           /\ Append(t, b)[1] = a
           /\ Append(t, b)[2] = b
BY AppendRow

(***************************************************************************)
(* Initial states.                                                          *)
(***************************************************************************)

\* An empty database satisfies the invariant.
LEMMA InitInv == Init => Inv
<1> SUFFICES ASSUME Init PROVE Inv
  OBVIOUS
<1> USE DEF Init
<1>1. TypeOK
  BY DEF TypeOK
<1>2. GrantShape /\ RequestShape
  BY DEF GrantShape, RequestShape
<1>3. OneActivePerHarness /\ GrantHistory
  BY DEF OneActivePerHarness, GrantHistory
<1>4. RevocationAnswersAreTrue
  BY DEF RevocationAnswersAreTrue
<1> QED
  BY <1>1, <1>2, <1>3, <1>4 DEF Inv

(***************************************************************************)
(* Steps that leave the grants alone.                                       *)
(***************************************************************************)

\* What the table promises does not depend on the requests.
LEMMA GrantsKept ==
    ASSUME Inv, UNCHANGED grantVars
    PROVE  GrantShape' /\ OneActivePerHarness' /\ GrantHistory'
BY DEF Inv, GrantShape, OneActivePerHarness, GrantHistory, EndRows, grantVars

\* Enrolment and credential rotation touch no grant and no request.
LEMMA EnrolStep ==
    ASSUME Inv, NEW n \in Nodes, handleEnrol(n) PROVE Inv'
<1> USE DEF handleEnrol, machineVars, grantVars, reqVars
<1>1. TypeOK'
  <2>1. Append(machineTrail[n], IF version[n] = 0 THEN "enrolment" ELSE "credential_rotation")
            \in Seq({"enrolment", "credential_rotation"})
    BY AppendRow DEF Inv, TypeOK
  <2> QED
    BY <2>1 DEF Inv, TypeOK
<1>2. RequestShape' /\ RevocationAnswersAreTrue'
  BY DEF Inv, RequestShape, RevocationAnswersAreTrue
<1> QED
  BY <1>1, <1>2, GrantsKept DEF Inv

\* A request that ends without touching the grants was not told of a revocation.
LEMMA AnsweredStep ==
    ASSUME Inv, NEW r \in Requests, NEW said \in {"refused", "unavailable", "error"},
           Finish(r, said), UNCHANGED <<machineVars, grantVars, caller, target>>,
           denial' \in [Requests -> Nodes \cup {"nobody", "none"}]
    PROVE  Inv'
<1> USE DEF Finish, machineVars, grantVars
<1>1. TypeOK'
  BY DEF Inv, TypeOK
<1>2. RequestShape'
  BY DEF Inv, TypeOK, RequestShape
<1>3. RevocationAnswersAreTrue'
  BY DEF Inv, TypeOK, RevocationAnswersAreTrue
<1> QED
  BY <1>1, <1>2, <1>3, GrantsKept DEF Inv

\* deny blames the caller, or nobody.
LEMMA DenyStep ==
    ASSUME Inv, NEW r \in Requests, NEW blames \in Nodes \cup {"nobody"},
           deny(r, blames), UNCHANGED <<machineVars, grantVars, caller, target>>
    PROVE  Inv'
<1>1. CASE denial' = [denial EXCEPT ![r] = blames] /\ Finish(r, "refused")
  BY <1>1, AnsweredStep DEF Inv, TypeOK
<1>2. CASE UNCHANGED denial /\ Finish(r, "unavailable")
  BY <1>2, AnsweredStep DEF Inv, TypeOK
<1> QED
  BY <1>1, <1>2 DEF deny

\* Authentication names the caller of a request, or refuses it.
LEMMA AuthenticateStep ==
    ASSUME Inv, NEW r \in Requests, NEW n \in Nodes, NEW m \in Nodes, NEW v \in 0 .. MaxVersion,
           authenticate(r, n, <<m, v>>)
    PROVE  Inv'
<1>1. CASE Verify(n, <<m, v>>)
  <2>1. /\ phase' = [phase EXCEPT ![r] = "authenticated"]
        /\ caller' = [caller EXCEPT ![r] = n]
        /\ UNCHANGED <<denial, answer, target>> /\ UNCHANGED <<machineVars, grantVars>>
        /\ phase[r] = "idle"
    BY <1>1 DEF authenticate
  <2> USE <2>1 DEF machineVars, grantVars
  <2>2. TypeOK'
    BY DEF Inv, TypeOK
  <2>3. RequestShape'
    BY DEF Inv, TypeOK, RequestShape
  <2>4. RevocationAnswersAreTrue'
    BY DEF Inv, TypeOK, RequestShape, RevocationAnswersAreTrue
  <2> QED
    BY <2>2, <2>3, <2>4, GrantsKept DEF Inv
<1>2. CASE ~Verify(n, <<m, v>>)
  BY <1>2, DenyStep DEF authenticate
<1> QED
  BY <1>1, <1>2

\* The policy's refusal of an issuance leaves the grants alone.
LEMMA IssueDeniedStep ==
    ASSUME Inv, NEW r \in Requests, NEW h, NEW asked, IssueDenied(r, h, asked)
    PROVE  Inv'
BY DenyStep DEF IssueDenied, Inv, RequestShape

\* The ownership test lets a request aim only at a grant of its caller.
LEMMA CheckOwnerStep ==
    ASSUME Inv, NEW r \in Requests, NEW g \in GrantIds, CheckOwner(r, g) PROVE Inv'
<1>1. CASE status[g] # "none" /\ machine[g] = caller[r]
  <2>1. /\ phase' = [phase EXCEPT ![r] = "owned"]
        /\ target' = [target EXCEPT ![r] = g]
        /\ UNCHANGED <<denial, answer, caller>> /\ UNCHANGED <<machineVars, grantVars>>
        /\ phase[r] = "authenticated"
    BY <1>1 DEF CheckOwner
  <2> USE <1>1, <2>1 DEF machineVars, grantVars
  <2>2. TypeOK'
    BY DEF Inv, TypeOK
  <2>3. RequestShape'
    BY DEF Inv, TypeOK, RequestShape
  <2>4. RevocationAnswersAreTrue'
    BY DEF Inv, TypeOK, RequestShape, RevocationAnswersAreTrue
  <2> QED
    BY <2>2, <2>3, <2>4, GrantsKept DEF Inv
<1>2. CASE ~(status[g] # "none" /\ machine[g] = caller[r])
  BY <1>2, DenyStep DEF CheckOwner, Inv, RequestShape
<1> QED
  BY <1>1, <1>2

\* A listing, a malformed request and a rolled-back transaction keep everything.
LEMMA NothingChangesStep ==
    ASSUME Inv, NEW r \in Requests, NothingChanges(r) PROVE Inv'
BY AnsweredStep DEF NothingChanges, Inv, TypeOK

\* A crash between two transactions ends the requests and nothing else.
LEMMA LoseRequestsStep ==
    ASSUME Inv, LoseRequests PROVE Inv'
<1> USE DEF LoseRequests, Pending, machineVars, grantVars
<1>1. TypeOK'
  BY DEF Inv, TypeOK
<1>2. RequestShape'
  BY DEF Inv, TypeOK, RequestShape
<1>3. RevocationAnswersAreTrue'
  BY DEF Inv, TypeOK, RevocationAnswersAreTrue
<1> QED
  BY <1>1, <1>2, <1>3, GrantsKept DEF Inv

(***************************************************************************)
(* Revocation.                                                              *)
(***************************************************************************)

\* The one transition of a revocation, whoever makes it: the grant's own
\* machine or the operator.
LEMMA RevokeKeepsGrants ==
    ASSUME Inv, NEW g \in GrantIds, status[g] = "active",
           NEW a \in {machine[g], "operator"}, Revoke(g, a)
    PROVE  /\ status' \in [GrantIds -> {"none", "active", "revoked"}]
           /\ trail' \in [GrantIds -> Seq(Rows)]
           /\ GrantShape' /\ OneActivePerHarness' /\ GrantHistory'
           /\ trail'[g][2] = Row("grant_revoked", a, "none")
<1> DEFINE issued == Row("grant_issued", machine[g], "none")
           ended  == Row("grant_revoked", a, "none")
<1> USE DEF Revoke
<1>1. machine[g] \in Nodes
  BY DEF Inv, GrantShape
<1>2. issued \in Rows /\ ended \in Rows
  BY <1>1, RowType DEF Actors
<1>3. trail[g] = <<issued>> /\ trail[g] \in Seq(Rows)
  BY DEF Inv, GrantHistory, TypeOK
<1> HIDE DEF issued, ended
<1>4. /\ Append(trail[g], ended) \in Seq(Rows)
      /\ Len(Append(trail[g], ended)) = 2
      /\ Append(trail[g], ended)[1] = issued
      /\ Append(trail[g], ended)[2] = ended
  BY <1>2, <1>3, EndOfActive
<1>5. /\ trail'[g] = Append(trail[g], ended)
      /\ \A x \in GrantIds \ {g} : trail'[x] = trail[x]
      /\ trail' \in [GrantIds -> Seq(Rows)]
  BY <1>4 DEF Inv, TypeOK, ended
<1>6. /\ status'[g] = "revoked"
      /\ \A x \in GrantIds \ {g} : status'[x] = status[x]
      /\ status' \in [GrantIds -> {"none", "active", "revoked"}]
      /\ UNCHANGED <<machine, harness, caps>>
  BY DEF Inv, TypeOK
<1>7. \A x \in GrantIds : status'[x] # "none" <=> status[x] # "none"
  BY <1>6
<1>8. GrantShape' /\ OneActivePerHarness'
  BY <1>6, <1>7 DEF Inv, GrantShape, OneActivePerHarness
<1>9. GrantHistory'
  <2> SUFFICES ASSUME NEW x \in GrantIds
               PROVE  /\ status'[x] = "none" => trail'[x] = <<>>
                      /\ status'[x] = "active" => trail'[x] = <<Row("grant_issued", machine[x], "none")>>
                      /\ status'[x] = "revoked" =>
                            /\ Len(trail'[x]) = 2
                            /\ trail'[x][1] = Row("grant_issued", machine[x], "none")
                            /\ trail'[x][2] \in EndRows(x)'
    BY <1>6 DEF GrantHistory
  <2>1. EndRows(x)' = EndRows(x)
    BY <1>6, <1>7 DEF EndRows
  <2>2. CASE x = g
    <3>1. ended \in EndRows(g)
      BY DEF EndRows, ended
    <3> QED
      BY <2>1, <2>2, <3>1, <1>4, <1>5, <1>6 DEF issued
  <2>3. CASE x # g
    BY <2>1, <2>3, <1>5, <1>6 DEF Inv, GrantHistory
  <2> QED
    BY <2>2, <2>3
<1> QED
  BY <1>4, <1>5, <1>6, <1>8, <1>9 DEF ended

\* A grant that is revoked already keeps its rows under a revocation of another,
\* and so do the answers about it.
LEMMA AnswersKept ==
    ASSUME Inv, NEW g \in GrantIds, status[g] = "active", NEW a, Revoke(g, a),
           NEW r \in Requests, answer[r] \in {"revoked", "already_revoked"}
    PROVE  /\ target[r] \in GrantIds \ {g}
           /\ status'[target[r]] = "revoked"
           /\ trail'[target[r]] = trail[target[r]]
<1>1. target[r] \in GrantIds /\ status[target[r]] = "revoked"
  BY DEF Inv, RequestShape, RevocationAnswersAreTrue
<1>2. target[r] # g
  BY <1>1
<1> QED
  BY <1>1, <1>2 DEF Revoke, Inv, TypeOK

\* The operator's revocation, made from another process.
LEMMA AdminRevokeStep ==
    ASSUME Inv, NEW g \in GrantIds, adminRevokeGrant(g) PROVE Inv'
<1>1. status[g] = "active" /\ Revoke(g, "operator") /\ UNCHANGED <<machineVars, reqVars>>
  BY DEF adminRevokeGrant
<1>2. /\ status' \in [GrantIds -> {"none", "active", "revoked"}]
      /\ trail' \in [GrantIds -> Seq(Rows)]
      /\ GrantShape' /\ OneActivePerHarness' /\ GrantHistory'
  BY <1>1, RevokeKeepsGrants
<1>3. TypeOK'
  BY <1>1, <1>2 DEF Revoke, Inv, TypeOK, machineVars, reqVars
<1>4. RequestShape'
  BY <1>1 DEF Revoke, Inv, TypeOK, RequestShape, reqVars
<1>5. RevocationAnswersAreTrue'
  BY <1>1, AnswersKept DEF Inv, RevocationAnswersAreTrue, reqVars
<1> QED
  BY <1>2, <1>3, <1>4, <1>5 DEF Inv

\* A machine's revocation of its own grant, whatever happened to the grant since
\* the ownership test.
LEMMA RevokeGrantStep ==
    ASSUME Inv, NEW r \in Requests, RevokeGrant(r) PROVE Inv'
<1> DEFINE g == target[r]
<1>1. /\ phase[r] = "owned" /\ g \in GrantIds /\ status[g] # "none"
      /\ machine[g] = caller[r] /\ caller[r] \in Nodes
      /\ UNCHANGED <<machineVars, caller, target, denial>>
  BY DEF RevokeGrant, Inv, RequestShape
<1>2. CASE status[g] = "active"
  <2>1. Revoke(g, caller[r]) /\ Finish(r, "revoked")
    BY <1>2 DEF RevokeGrant
  <2>2. /\ status' \in [GrantIds -> {"none", "active", "revoked"}]
        /\ trail' \in [GrantIds -> Seq(Rows)]
        /\ GrantShape' /\ OneActivePerHarness' /\ GrantHistory'
        /\ trail'[g][2] = Row("grant_revoked", caller[r], "none")
    BY <1>1, <1>2, <2>1, RevokeKeepsGrants
  <2>3. TypeOK'
    BY <1>1, <2>1, <2>2 DEF Revoke, Finish, Inv, TypeOK, machineVars
  <2>4. RequestShape'
    BY <1>1, <1>2, <2>1 DEF Revoke, Finish, Inv, TypeOK, RequestShape
  <2>5. RevocationAnswersAreTrue'
    <3>1. /\ answer' = [answer EXCEPT ![r] = "revoked"] /\ answer \in [Requests -> {"none", "issued", "revoked", "already_revoked", "refused", "unavailable", "error"}]
          /\ UNCHANGED <<target, caller>>
      BY <1>1, <2>1 DEF Finish, Inv, TypeOK
    <3>2. status'[g] = "revoked"
      BY <1>1, <2>1 DEF Revoke, Inv, TypeOK
    <3>3. \A q \in Requests : answer[q] \in {"revoked", "already_revoked"} =>
             /\ target[q] \in GrantIds \ {g}
             /\ status'[target[q]] = "revoked"
             /\ trail'[target[q]] = trail[target[q]]
      BY <1>1, <1>2, <2>1, AnswersKept
    <3> HIDE DEF g
    <3>4. \A q \in Requests \ {r} : answer'[q] = answer[q]
      BY <3>1
    <3>5. answer'[r] = "revoked" /\ target[r] = g
      BY <3>1 DEF g
    <3> QED
      BY <2>2, <3>1, <3>2, <3>3, <3>4, <3>5 DEF Inv, RevocationAnswersAreTrue
  <2> QED
    BY <2>2, <2>3, <2>4, <2>5 DEF Inv
<1>3. CASE status[g] # "active"
  <2>1. UNCHANGED grantVars /\ Finish(r, "already_revoked") /\ status[g] = "revoked"
    BY <1>1, <1>3 DEF RevokeGrant, Inv, TypeOK
  <2>2. TypeOK'
    BY <1>1, <2>1 DEF Finish, Inv, TypeOK, machineVars, grantVars
  <2>3. RequestShape'
    BY <1>1, <2>1 DEF Finish, Inv, TypeOK, RequestShape, grantVars
  <2>4. RevocationAnswersAreTrue'
    BY <1>1, <2>1 DEF Finish, Inv, TypeOK, RevocationAnswersAreTrue, grantVars
  <2> QED
    BY <2>1, <2>2, <2>3, <2>4, GrantsKept DEF Inv
<1> QED
  BY <1>2, <1>3

(***************************************************************************)
(* Issuance.                                                                *)
(***************************************************************************)

\* The policy's decision: a permitted request is granted what the policy allows.
LEMMA ResolveAllowed ==
    ASSUME NEW h, NEW asked, Permitted(h, asked)
    PROVE  h \in Known /\ Resolve(h, asked) \subseteq Allowed[h] /\ Allowed[h] \subseteq Caps
BY PolicyAssumption DEF Permitted, Resolve

\* The issuing transaction: what it supersedes ends with a row that names the new
\* grant, and the new grant starts with one.
LEMMA IssueGrantStep ==
    ASSUME Inv, NEW r \in Requests, NEW h \in Harnesses, NEW asked, NEW g \in GrantIds,
           IssueGrant(r, h, asked, g)
    PROVE  Inv'
<1> DEFINE n      == caller[r]
           old    == Existing(n, h)
           issued == Row("grant_issued", n, "none")
           ended  == Row("grant_superseded", "system", g)
<1>1. /\ phase[r] = "authenticated" /\ n \in Nodes /\ status[g] = "none"
      /\ h \in Known /\ Resolve(h, asked) \subseteq Allowed[h] /\ Allowed[h] \subseteq Caps
      /\ UNCHANGED <<machineVars, caller, target, denial>> /\ Finish(r, "issued")
  BY ResolveAllowed DEF IssueGrant, Fresh, Inv, RequestShape
<1>2. \A x \in old : /\ x \in GrantIds \ {g} /\ status[x] = "active"
                     /\ machine[x] = n /\ harness[x] = h
  BY <1>1 DEF Existing
<1>3. issued \in Rows /\ ended \in Rows
  BY <1>1, RowType DEF Actors
<1>4. /\ status' \in [GrantIds -> {"none", "active", "revoked"}]
      /\ status'[g] = "active"
      /\ \A x \in old : status'[x] = "revoked"
      /\ \A x \in GrantIds \ ({g} \cup old) : status'[x] = status[x]
  BY <1>1, <1>2 DEF IssueGrant, Inv, TypeOK
<1>5. /\ machine' \in [GrantIds -> Nodes \cup {"nobody"}]
      /\ harness' \in [GrantIds -> Harnesses \cup {"none"}]
      /\ caps' \in [GrantIds -> SUBSET Caps]
      /\ machine'[g] = n /\ harness'[g] = h /\ caps'[g] = Resolve(h, asked)
      /\ \A x \in GrantIds \ {g} : /\ machine'[x] = machine[x] /\ harness'[x] = harness[x]
                                   /\ caps'[x] = caps[x]
  BY <1>1 DEF IssueGrant, Inv, TypeOK
<1>6. /\ trail[g] = <<>>
      /\ \A x \in old : trail[x] = <<issued>> /\ trail[x] \in Seq(Rows)
  BY <1>1, <1>2 DEF Inv, GrantHistory, TypeOK
<1>7. /\ trail'[g] = Append(<<>>, issued)
      /\ \A x \in old : trail'[x] = Append(trail[x], ended)
      /\ \A x \in GrantIds \ ({g} \cup old) : trail'[x] = trail[x]
      /\ trail' = [x \in GrantIds |-> trail'[x]]
  BY <1>1, <1>2, <1>6 DEF IssueGrant
<1> HIDE DEF n, old, issued, ended
<1>8. \A x \in old : /\ trail'[x] \in Seq(Rows) /\ Len(trail'[x]) = 2
                     /\ trail'[x][1] = issued /\ trail'[x][2] = ended
  <2>1. TAKE x \in old
  <2>2. trail[x] = <<issued>> /\ trail[x] \in Seq(Rows) /\ trail'[x] = Append(trail[x], ended)
    BY <1>6, <1>7
  <2>3. /\ Append(trail[x], ended) \in Seq(Rows) /\ Len(Append(trail[x], ended)) = 2
        /\ Append(trail[x], ended)[1] = issued /\ Append(trail[x], ended)[2] = ended
    BY <1>3, <2>2, EndOfActive
  <2> QED
    BY <2>2, <2>3
<1>9. trail'[g] = <<issued>> /\ trail'[g] \in Seq(Rows)
  <2>1. Append(<<>>, issued) = <<issued>>
    OBVIOUS
  <2>2. <<issued>> \in Seq(Rows)
    BY <1>3
  <2> QED
    BY <1>7, <2>1, <2>2
<1>10. trail' \in [GrantIds -> Seq(Rows)]
  <2>1. \A x \in GrantIds : trail'[x] \in Seq(Rows)
    BY <1>7, <1>8, <1>9 DEF Inv, TypeOK
  <2> QED
    BY <1>7, <2>1
<1>11. TypeOK'
  BY <1>1, <1>4, <1>5, <1>10 DEF Inv, TypeOK, Finish, machineVars
<1>12. GrantShape'
  BY <1>1, <1>2, <1>4, <1>5 DEF Inv, GrantShape
<1>13. RequestShape'
  <2>1. \A x \in GrantIds : status[x] # "none" => status'[x] # "none" /\ machine'[x] = machine[x]
    BY <1>1, <1>2, <1>4, <1>5 DEF Inv, TypeOK
  <2> QED
    BY <1>1, <2>1 DEF Inv, TypeOK, RequestShape, Finish
<1>14. OneActivePerHarness'
  <2>1. \A x \in GrantIds \ {g} : status'[x] = "active" => x \notin old /\ status[x] = "active"
    BY <1>2, <1>4
  <2>2. \A x \in GrantIds : status[x] = "active" /\ machine[x] = n /\ harness[x] = h => x \in old
    BY DEF Existing, old
  <2> QED
    BY <1>4, <1>5, <2>1, <2>2 DEF Inv, OneActivePerHarness
<1>15. GrantHistory'
  <2> SUFFICES ASSUME NEW x \in GrantIds
               PROVE  /\ status'[x] = "none" => trail'[x] = <<>>
                      /\ status'[x] = "active" => trail'[x] = <<Row("grant_issued", machine'[x], "none")>>
                      /\ status'[x] = "revoked" =>
                            /\ Len(trail'[x]) = 2
                            /\ trail'[x][1] = Row("grant_issued", machine'[x], "none")
                            /\ trail'[x][2] \in EndRows(x)'
    BY DEF GrantHistory
  <2>1. CASE x = g
    BY <2>1, <1>4, <1>5, <1>9 DEF issued
  <2>2. CASE x \in old
    <3>1. ended \in EndRows(x)'
      BY <2>2, <1>2, <1>4, <1>5 DEF EndRows, ended
    <3> QED
      BY <2>2, <3>1, <1>2, <1>4, <1>5, <1>8 DEF issued
  <2>3. CASE x \notin old /\ x # g
    <3>1. status[x] # "none" => EndRows(x) \subseteq EndRows(x)'
      BY <2>3, <1>1, <1>2, <1>4, <1>5 DEF EndRows
    <3> QED
      BY <2>3, <3>1, <1>4, <1>5, <1>7 DEF Inv, GrantHistory
  <2> QED
    BY <2>1, <2>2, <2>3
<1>16. RevocationAnswersAreTrue'
  <2>1. \A q \in Requests : answer[q] \in {"revoked", "already_revoked"} =>
            /\ target[q] \in GrantIds
            /\ status'[target[q]] = "revoked" /\ trail'[target[q]] = trail[target[q]]
    <3>1. \A q \in Requests : answer[q] \in {"revoked", "already_revoked"} =>
            target[q] \in GrantIds /\ status[target[q]] = "revoked"
      BY DEF Inv, RequestShape, RevocationAnswersAreTrue
    <3> QED
      BY <3>1, <1>1, <1>2, <1>4, <1>7
  <2>2. /\ answer' = [answer EXCEPT ![r] = "issued"] /\ UNCHANGED <<target, caller>>
        /\ answer \in [Requests -> {"none", "issued", "revoked", "already_revoked",
                                    "refused", "unavailable", "error"}]
    BY <1>1 DEF Finish, Inv, TypeOK
  <2> QED
    BY <2>1, <2>2 DEF Inv, RevocationAnswersAreTrue
<1> QED
  BY <1>11, <1>12, <1>13, <1>14, <1>15, <1>16 DEF Inv

(***************************************************************************)
(* The theorems.                                                            *)
(***************************************************************************)

\* Every step of a request's handler keeps the invariant.
LEMMA RequestStepInv ==
    ASSUME Inv, NEW r \in Requests, RequestStep(r) PROVE Inv'
BY AuthenticateStep, IssueDeniedStep, IssueGrantStep, CheckOwnerStep, RevokeGrantStep,
   NothingChangesStep DEF RequestStep

\* The invariant is inductive.
LEMMA NextInv == Inv /\ [Next]_vars => Inv'
<1> SUFFICES ASSUME Inv, [Next]_vars PROVE Inv'
  OBVIOUS
<1>1. CASE UNCHANGED vars
  <2>1. TypeOK' /\ RequestShape' /\ RevocationAnswersAreTrue'
    BY <1>1 DEF Inv, TypeOK, RequestShape, RevocationAnswersAreTrue,
                vars, machineVars, grantVars, reqVars
  <2> QED
    BY <1>1, <2>1, GrantsKept DEF Inv, vars
<1>2. CASE \E n \in Nodes : handleEnrol(n)
  BY <1>2, EnrolStep
<1>3. CASE \E r \in Requests : RequestStep(r)
  BY <1>3, RequestStepInv
<1>4. CASE \E g \in GrantIds : adminRevokeGrant(g)
  BY <1>4, AdminRevokeStep
<1>5. CASE Crash
  BY <1>5, LoseRequestsStep DEF Crash
<1> QED
  BY <1>1, <1>2, <1>3, <1>4, <1>5 DEF Next

\* The control plane always keeps its inductive invariant.
THEOREM Invariance == Spec => []Inv
BY InitInv, NextInv, PTL DEF Spec

\* Every column of the tables and every field of a request keeps its type.
THEOREM TypeCorrect == Spec => []TypeOK
<1>1. Inv => TypeOK
  BY DEF Inv
<1> QED
  BY <1>1, Invariance, PTL

\* However issuances race, a machine never has two working tokens for a harness
\* (the unique index of sqlite.go:47, and IssueGrant's supersession).
THEOREM OneTokenPerHarness == Spec => []OneActivePerHarness
<1>1. Inv => OneActivePerHarness
  BY DEF Inv
<1> QED
  BY <1>1, Invariance, PTL

\* The log tells every grant's whole story: its issue and, once it has stopped
\* working, one end by somebody entitled to it (handlers.go:349-352).
THEOREM GrantsAreAccountedFor == Spec => []GrantHistory
<1>1. Inv => GrantHistory
  BY DEF Inv
<1> QED
  BY <1>1, Invariance, PTL

\* `revoked: true` is told to at most one request per grant, the one whose
\* transaction made the transition and whose caller the row names.
THEOREM RevocationsAreTruthful == Spec => []RevocationAnswersAreTrue
<1>1. Inv => RevocationAnswersAreTrue
  BY DEF Inv
<1> QED
  BY <1>1, Invariance, PTL

(***************************************************************************)
(* Action properties.                                                       *)
(***************************************************************************)

\* A grant that was issued keeps its machine, its harness and its capabilities,
\* is never unissued, and once revoked never works again.
GrantsOnlyEnd ==
    \A g \in GrantIds : status[g] # "none" =>
        /\ machine'[g] = machine[g] /\ harness'[g] = harness[g] /\ caps'[g] = caps[g]
        /\ status'[g] \in {status[g], "revoked"}

\* A step of the operator's or of a machine's revocation ends one grant.
LEMMA RevokeOnlyEnds ==
    ASSUME Inv, NEW g \in GrantIds, NEW a, Revoke(g, a) PROVE GrantsOnlyEnd
BY DEF Revoke, Inv, TypeOK, GrantsOnlyEnd

\* No step of a request revives, re-labels or widens a grant.
LEMMA RequestOnlyEnds ==
    ASSUME Inv, NEW r \in Requests, RequestStep(r) PROVE GrantsOnlyEnd
<1>1. ASSUME UNCHANGED grantVars PROVE GrantsOnlyEnd
  BY <1>1 DEF GrantsOnlyEnd, grantVars
<1>2. CASE \E n, m \in Nodes : \E v \in 0..MaxVersion : authenticate(r, n, <<m, v>>)
  BY <1>1, <1>2 DEF authenticate
<1>3. CASE \E h \in Harnesses : \E asked \in SUBSET (Caps \cup {"blank"}) : IssueDenied(r, h, asked)
  BY <1>1, <1>3 DEF IssueDenied
<1>4. ASSUME NEW h \in Harnesses, NEW asked, NEW g \in GrantIds, IssueGrant(r, h, asked, g)
      PROVE  GrantsOnlyEnd
  BY <1>4 DEF IssueGrant, Fresh, GrantsOnlyEnd, Inv, TypeOK
<1>5. CASE \E g \in GrantIds : CheckOwner(r, g)
  BY <1>1, <1>5 DEF CheckOwner
<1>6. CASE RevokeGrant(r)
  <2>1. target[r] \in GrantIds
    BY <1>6 DEF RevokeGrant, Inv, RequestShape
  <2> QED
    BY <1>1, <1>6, <2>1, RevokeOnlyEnds DEF RevokeGrant
<1>7. CASE NothingChanges(r)
  BY <1>1, <1>7 DEF NothingChanges
<1> QED
  BY <1>2, <1>3, <1>4, <1>5, <1>6, <1>7 DEF RequestStep

\* No step revives, re-labels or widens a grant.
LEMMA NextOnlyEnds == Inv /\ [Next]_vars => GrantsOnlyEnd
<1> SUFFICES ASSUME Inv, [Next]_vars PROVE GrantsOnlyEnd
  OBVIOUS
<1>1. ASSUME UNCHANGED grantVars PROVE GrantsOnlyEnd
  BY <1>1 DEF GrantsOnlyEnd, grantVars
<1>2. CASE UNCHANGED vars
  BY <1>1, <1>2 DEF vars
<1>3. CASE \E n \in Nodes : handleEnrol(n)
  BY <1>1, <1>3 DEF handleEnrol
<1>4. CASE \E r \in Requests : RequestStep(r)
  BY <1>4, RequestOnlyEnds
<1>5. CASE \E g \in GrantIds : adminRevokeGrant(g)
  BY <1>5, RevokeOnlyEnds DEF adminRevokeGrant
<1>6. CASE Crash
  BY <1>1, <1>6 DEF Crash, LoseRequests
<1> QED
  BY <1>2, <1>3, <1>4, <1>5, <1>6 DEF Next

\* Authority only shrinks: whatever the handlers, the operator and a crash do, a
\* revoked token stays revoked and no issued grant changes hands or grows.
THEOREM AuthorityOnlyShrinks == Spec => [][GrantsOnlyEnd]_vars
<1>1. Inv /\ [Next]_vars => [GrantsOnlyEnd]_vars
  BY NextOnlyEnds
<1> QED
  BY <1>1, Invariance, PTL DEF Spec

-----------------------------------------------------------------------------
(***************************************************************************)
(*                        II.  The connector edge                           *)
(* First what routing and the decision compute from a manifest, then what    *)
(* the edge makes of it.                                                    *)
(***************************************************************************)

(***************************************************************************)
(* Induction over the natural numbers, in a form without an operator         *)
(* parameter: a counterexample would have a least one.                       *)
(***************************************************************************)

\* A set that contains 0 and the successor of each of its numbers has them all.
LEMMA NatSetInduction ==
    ASSUME NEW S, 0 \in S, \A n \in Nat : n \in S => n + 1 \in S
    PROVE  Nat \subseteq S
<1> DEFINE T == Nat \ S
           R == OpToRel(<, Nat)
<1> SUFFICES ASSUME T # {} PROVE FALSE
  OBVIOUS
<1>1. IsWellFoundedOn(R, Nat)
  BY NatLessThanWellFounded
<1>2. R = {ss \in Nat \X Nat : ss[1] < ss[2]}
  BY Zenon DEF OpToRel
<1> HIDE DEF R
<1>3. PICK x \in T : \A y \in T : <<y, x>> \notin R
  <2> HIDE DEF T
  <2>1. T \subseteq Nat
    BY DEF T
  <2> QED
    BY <1>1, <2>1, WFMin
<1>4. x \in Nat /\ x # 0
  OBVIOUS
<1>5. x - 1 \in Nat /\ x - 1 \in S
  <2>1. x - 1 \in Nat /\ x - 1 < x
    BY <1>4
  <2>2. <<x - 1, x>> \in Nat \X Nat /\ <<x - 1, x>>[1] < <<x - 1, x>>[2]
    BY <1>4, <2>1
  <2>3. <<x - 1, x>> \in R
    BY <1>2, <2>2
  <2> QED
    BY <1>3, <2>1, <2>3
<1> QED
  BY <1>4, <1>5

(***************************************************************************)
(* The router.                                                              *)
(***************************************************************************)

\* The index of a set of claims: a name with one owner is its owner's, a name
\* with several is ambiguous.
Index(C) ==
    [unqualified |-> {c \in C : \A d \in C : d.name = c.name => d.provider = c.provider},
     ambiguous   |-> {c.name : c \in {x \in C : \E d \in C : d.name = x.name /\ d.provider # x.provider}}]

\* The claims of a connector's first i names, and of all of them.
ClaimsTo(k, i) == {[name |-> Names(k)[j], provider |-> k.provider] : j \in 1..i}
Claims(k) == ClaimsTo(k, Len(Names(k)))

\* One round of the loop keeps the index exact, in whatever order claims come.
LEMMA AddClaimIndex ==
    ASSUME NEW C, NEW c
    PROVE  AddClaim(Index(C), c) = Index(C \cup {c})
<1> DEFINE r      == Index(C)
           rivals == {u \in r.unqualified : u.name = c.name /\ u.provider # c.provider}
           new    == Index(C \cup {c})
<1>1. CASE rivals # {}
  <2>1. PICK u \in C : /\ u.name = c.name /\ u.provider # c.provider
                       /\ \A d \in C : d.name = u.name => d.provider = u.provider
    BY <1>1 DEF Index
  <2>2. new.unqualified = r.unqualified \ rivals
    BY <2>1 DEF Index
  <2>3. new.ambiguous = r.ambiguous \cup {c.name}
    BY <2>1 DEF Index
  <2> QED
    BY <1>1, <2>2, <2>3 DEF AddClaim, Index
<1>2. CASE rivals = {} /\ c.name \in r.ambiguous
  <2>1. PICK u, d \in C : u.name = c.name /\ d.name = c.name /\ u.provider # d.provider
    BY <1>2 DEF Index
  <2>2. new.unqualified = r.unqualified
    BY <2>1 DEF Index
  <2>3. new.ambiguous = r.ambiguous
    BY <2>1 DEF Index
  <2> QED
    BY <1>2, <2>2, <2>3 DEF AddClaim, Index
<1>3. CASE rivals = {} /\ c.name \notin r.ambiguous
  <2>1. \A d \in C : d.name = c.name => d.provider = c.provider
    BY <1>3 DEF Index
  <2>2. new.unqualified = r.unqualified \cup {c}
    BY <2>1 DEF Index
  <2>3. new.ambiguous = r.ambiguous
    BY <2>1 DEF Index
  <2> QED
    BY <1>3, <2>2, <2>3 DEF AddClaim, Index
<1> QED
  BY <1>1, <1>2, <1>3

\* The inner loop adds all of a connector's claims to the index.
LEMMA AddClaimsIndex ==
    ASSUME NEW C, NEW k, Len(Names(k)) \in Nat
    PROVE  AddClaims(Index(C), k) = Index(C \cup Claims(k))
<1> DEFINE n        == Len(Names(k))
           claim(i) == [name |-> Names(k)[i], provider |-> k.provider]
           Loop(f)  == f = [i \in 0..n |-> IF i = 0 THEN Index(C) ELSE AddClaim(f[i - 1], claim(i))]
           exact    == [i \in 0..n |-> Index(C \cup ClaimsTo(k, i))]
           after    == CHOOSE f : Loop(f)
<1>1. AddClaims(Index(C), k) = after[n]
  BY DEF AddClaims
<1>2. ClaimsTo(k, 0) = {}
  BY DEF ClaimsTo
<1>3. \A i \in 1..n : ClaimsTo(k, i) = ClaimsTo(k, i - 1) \cup {claim(i)}
  BY DEF ClaimsTo
<1> HIDE DEF n, claim
<1>4. n \in Nat
  BY DEF n
<1>5. Loop(exact)
  <2> SUFFICES ASSUME NEW i \in 0..n
               PROVE  exact[i] = IF i = 0 THEN Index(C) ELSE AddClaim(exact[i - 1], claim(i))
    BY Zenon
  <2>1. CASE i = 0
    BY <1>2, <2>1
  <2>2. CASE i # 0
    <3>1. i \in 1..n /\ i - 1 \in 0..n
      BY <1>4, <2>2
    <3>2. C \cup ClaimsTo(k, i) = (C \cup ClaimsTo(k, i - 1)) \cup {claim(i)}
      BY <1>3, <3>1
    <3> QED
      BY <2>2, <3>1, <3>2, AddClaimIndex
  <2> QED
    BY <2>1, <2>2
<1>6. Loop(after)
  <2> HIDE DEF exact, Loop
  <2> QED
    BY <1>5, Zenon
<1> HIDE DEF after
<1>7. \A i \in Nat : i <= n => after[i] = exact[i]
  <2> DEFINE S == {i \in Nat : i <= n => after[i] = exact[i]}
  <2>1. 0 \in S
    BY <1>4, <1>5, <1>6
  <2>2. ASSUME NEW i \in Nat, i \in S PROVE i + 1 \in S
    <3> SUFFICES ASSUME i + 1 <= n PROVE after[i + 1] = exact[i + 1]
      OBVIOUS
    <3>1. i \in 0..n /\ i + 1 \in 0..n /\ i + 1 # 0 /\ (i + 1) - 1 = i /\ after[i] = exact[i]
      BY <1>4, <2>2
    <3>2. after[i + 1] = AddClaim(after[i], claim(i + 1))
      BY <1>6, <3>1
    <3>3. exact[i + 1] = AddClaim(exact[i], claim(i + 1))
      <4> HIDE DEF exact
      <4> QED
        BY <1>5, <3>1
    <3> QED
      BY <3>1, <3>2, <3>3
  <2> HIDE DEF S
  <2>3. Nat \subseteq S
    BY <2>1, <2>2, NatSetInduction
  <2> QED
    BY <2>3 DEF S
<1>8. after[n] = Index(C \cup ClaimsTo(k, n))
  BY <1>4, <1>7
<1> QED
  BY <1>1, <1>8 DEF Claims, n

\* The claims of a manifest's first i connectors, and of all of them.
AllTo(m, i) == UNION {Claims(m[j]) : j \in 1..i}
All(m) == AllTo(m, Len(m))

\* The outer loop: what newToolRouter returns is the index of every claim in the
\* manifest, whatever the order of its connectors and of their names.
THEOREM RouterIsIndex ==
    ASSUME NEW m, Len(m) \in Nat, \A i \in 1..Len(m) : Len(Names(m[i])) \in Nat
    PROVE  newToolRouter(m) = Index(All(m))
<1> DEFINE n       == Len(m)
           empty   == [unqualified |-> {}, ambiguous |-> {}]
           Loop(f) == f = [i \in 0..n |-> IF i = 0 THEN empty ELSE AddClaims(f[i - 1], m[i])]
           exact   == [i \in 0..n |-> Index(AllTo(m, i))]
           after   == CHOOSE f : Loop(f)
<1>1. newToolRouter(m) = after[n]
  BY DEF newToolRouter
<1>2. Index(AllTo(m, 0)) = empty
  BY DEF AllTo, Index
<1>3. \A i \in 1..n : AllTo(m, i) = AllTo(m, i - 1) \cup Claims(m[i])
  BY DEF AllTo
<1>4. n \in Nat
  OBVIOUS
<1> HIDE DEF n, empty
<1>5. Loop(exact)
  <2> SUFFICES ASSUME NEW i \in 0..n
               PROVE  exact[i] = IF i = 0 THEN empty ELSE AddClaims(exact[i - 1], m[i])
    BY Zenon
  <2>1. CASE i = 0
    BY <1>2, <2>1
  <2>2. CASE i # 0
    <3>1. i \in 1..n /\ i - 1 \in 0..n
      BY <1>4, <2>2
    <3>2. AddClaims(Index(AllTo(m, i - 1)), m[i]) = Index(AllTo(m, i - 1) \cup Claims(m[i]))
      BY <3>1, AddClaimsIndex DEF n
    <3> QED
      BY <1>3, <2>2, <3>1, <3>2
  <2> QED
    BY <2>1, <2>2
<1>6. Loop(after)
  <2> HIDE DEF exact, Loop
  <2> QED
    BY <1>5, Zenon
<1> HIDE DEF after
<1>7. \A i \in Nat : i <= n => after[i] = exact[i]
  <2> DEFINE S == {i \in Nat : i <= n => after[i] = exact[i]}
  <2>1. 0 \in S
    BY <1>4, <1>5, <1>6
  <2>2. ASSUME NEW i \in Nat, i \in S PROVE i + 1 \in S
    <3> SUFFICES ASSUME i + 1 <= n PROVE after[i + 1] = exact[i + 1]
      OBVIOUS
    <3>1. i \in 0..n /\ i + 1 \in 0..n /\ i + 1 # 0 /\ (i + 1) - 1 = i /\ after[i] = exact[i]
      BY <1>4, <2>2
    <3>2. after[i + 1] = AddClaims(after[i], m[i + 1])
      BY <1>6, <3>1
    <3>3. exact[i + 1] = AddClaims(exact[i], m[i + 1])
      <4> HIDE DEF exact
      <4> QED
        BY <1>5, <3>1
    <3> QED
      BY <3>1, <3>2, <3>3
  <2> HIDE DEF S
  <2>3. Nat \subseteq S
    BY <2>1, <2>2, NatSetInduction
  <2> QED
    BY <2>3 DEF S
<1>8. after[n] = Index(AllTo(m, n))
  BY <1>4, <1>7
<1> QED
  BY <1>1, <1>8 DEF All, n

\* A manifest the server starts with, as the decoder delivers it.
Sound(m) ==
    /\ IsList(m)
    /\ \A k \in ToSet(m) : IsList(k.tools) /\ IsList(k.excluded) /\ IsList(k.inventory)
    /\ Validate(m)
    /\ Routable(m)

\* A list is indexed from 1 to its length.
LEMMA ListDomain ==
    ASSUME NEW s, IsList(s)
    PROVE  Len(s) \in Nat /\ DOMAIN s = 1..Len(s) /\ ToSet(s) = {s[i] : i \in 1..Len(s)}
BY DEF IsList, ToSet

\* The connectors that claim a bare name.
Claimants(m, name) == {k \in ToSet(m) : name \in ToSet(Classified(k)) \cup ToSet(k.inventory)}

\* A connector claims the names of its tools, of its exclusions and of its
\* inventory, and no other.
LEMMA ClaimsOfConnector ==
    ASSUME NEW k, IsList(k.tools), IsList(k.excluded), IsList(k.inventory)
    PROVE  /\ Len(Names(k)) \in Nat
           /\ Claims(k) = {[name |-> x, provider |-> k.provider] :
                              x \in ToSet(Classified(k)) \cup ToSet(k.inventory)}
<1> DEFINE tools == [i \in DOMAIN k.tools |-> k.tools[i].tool]
<1>1. PICK A : tools \in Seq(A)
  <2>1. tools \in Seq({k.tools[i].tool : i \in 1..Len(k.tools)})
    BY ListDomain
  <2> QED
    BY <2>1
<1>2. PICK B : k.excluded \in Seq(B)
  BY DEF IsList
<1>3. PICK D : k.inventory \in Seq(D)
  BY DEF IsList
<1>4. Classified(k) \in Seq(A \cup B)
  <2> HIDE DEF tools
  <2>1. tools \o k.excluded \in Seq(A \cup B)
    BY <1>1, <1>2
  <2> QED
    BY <2>1 DEF Classified, tools
<1>5. /\ Names(k) \in Seq(A \cup B \cup D)
      /\ Len(Names(k)) = Len(Classified(k)) + Len(k.inventory)
      /\ \A i \in 1..Len(Names(k)) : Names(k)[i] =
            IF i <= Len(Classified(k)) THEN Classified(k)[i]
            ELSE k.inventory[i - Len(Classified(k))]
  BY <1>3, <1>4 DEF Names
<1>6. {Names(k)[i] : i \in 1..Len(Names(k))} = ToSet(Classified(k)) \cup ToSet(k.inventory)
  <2>1. \A i \in 1..Len(Classified(k)) : i \in 1..Len(Names(k)) /\ Names(k)[i] = Classified(k)[i]
    BY <1>3, <1>4, <1>5
  <2>2. \A i \in 1..Len(k.inventory) : /\ i + Len(Classified(k)) \in 1..Len(Names(k))
                                       /\ Names(k)[i + Len(Classified(k))] = k.inventory[i]
    BY <1>3, <1>4, <1>5
  <2>3. DOMAIN Classified(k) = 1..Len(Classified(k)) /\ DOMAIN k.inventory = 1..Len(k.inventory)
    BY <1>3, <1>4
  <2>4. \A i \in 1..Len(Names(k)) :
            \/ \E j \in 1..Len(Classified(k)) : Names(k)[i] = Classified(k)[j]
            \/ \E j \in 1..Len(k.inventory) : Names(k)[i] = k.inventory[j]
    BY <1>3, <1>4, <1>5
  <2>5. /\ ToSet(Classified(k)) = {Classified(k)[j] : j \in 1..Len(Classified(k))}
        /\ ToSet(k.inventory) = {k.inventory[j] : j \in 1..Len(k.inventory)}
    BY <2>3 DEF ToSet
  <2>6. ASSUME NEW x \in ToSet(Classified(k)) PROVE \E i \in 1..Len(Names(k)) : x = Names(k)[i]
    BY <2>1, <2>5
  <2>7. ASSUME NEW x \in ToSet(k.inventory) PROVE \E i \in 1..Len(Names(k)) : x = Names(k)[i]
    <3>1. PICK j \in 1..Len(k.inventory) : x = k.inventory[j]
      BY <2>5
    <3> QED
      BY <2>2, <3>1
  <2>8. ASSUME NEW i \in 1..Len(Names(k))
        PROVE  Names(k)[i] \in ToSet(Classified(k)) \cup ToSet(k.inventory)
    BY <2>4, <2>5
  <2> QED
    BY <2>6, <2>7, <2>8
<1>7. Len(Names(k)) \in Nat
  BY <1>5
<1> QED
  BY <1>6, <1>7 DEF Claims, ClaimsTo

\* Provider names tell the connectors of a valid manifest apart.
LEMMA ProvidersOnce ==
    ASSUME NEW m, Sound(m), NEW k \in ToSet(m), NEW l \in ToSet(m), k.provider = l.provider
    PROVE  k = l
<1>1. PICK i \in 1..Len(m) : k = m[i]
  BY ListDomain DEF Sound
<1>2. PICK j \in 1..Len(m) : l = m[j]
  BY ListDomain DEF Sound
<1>3. i = j
  BY <1>1, <1>2, ListDomain DEF Sound, Validate, Once
<1> QED
  BY <1>1, <1>2, <1>3

\* What the router of a valid manifest indexes.
LEMMA RouterClaims ==
    ASSUME NEW m, Sound(m)
    PROVE  /\ newToolRouter(m) = Index(All(m))
           /\ \A c \in All(m) : \E k \in Claimants(m, c.name) :
                  c = [name |-> c.name, provider |-> k.provider]
           /\ \A name : \A k \in Claimants(m, name) :
                  [name |-> name, provider |-> k.provider] \in All(m)
<1>1. /\ Len(m) \in Nat
      /\ \A i \in 1..Len(m) : m[i] \in ToSet(m)
      /\ \A k \in ToSet(m) : \E i \in 1..Len(m) : k = m[i]
  BY ListDomain DEF Sound
<1>2. \A k \in ToSet(m) :
        /\ Len(Names(k)) \in Nat
        /\ Claims(k) = {[name |-> x, provider |-> k.provider] :
                           x \in ToSet(Classified(k)) \cup ToSet(k.inventory)}
  BY ClaimsOfConnector DEF Sound
<1>3. newToolRouter(m) = Index(All(m))
  BY <1>1, <1>2, RouterIsIndex
<1>4. ASSUME NEW c \in All(m)
      PROVE  \E k \in Claimants(m, c.name) : c = [name |-> c.name, provider |-> k.provider]
  <2>1. PICK i \in 1..Len(m) : c \in Claims(m[i])
    BY DEF All, AllTo
  <2>2. PICK x \in ToSet(Classified(m[i])) \cup ToSet(m[i].inventory) :
            c = [name |-> x, provider |-> m[i].provider]
    BY <1>1, <1>2, <2>1
  <2> QED
    BY <1>1, <2>2 DEF Claimants
<1>5. ASSUME NEW name, NEW k \in Claimants(m, name)
      PROVE  [name |-> name, provider |-> k.provider] \in All(m)
  <2>1. k \in ToSet(m) /\ [name |-> name, provider |-> k.provider] \in Claims(k)
    BY <1>2 DEF Claimants
  <2>2. PICK i \in 1..Len(m) : k = m[i]
    BY <1>1, <2>1
  <2> QED
    BY <2>1, <2>2 DEF All, AllTo
<1> QED
  BY <1>3, <1>4, <1>5

\* A bare name goes to the one connector that claims it, and to no connector
\* when none does or several do.
LEMMA RouteBare ==
    ASSUME NEW m, Sound(m), NEW name, ~Qualified(m, name)
    PROVE  LET at == route(m, newToolRouter(m), name)
           IN  /\ at.tool = name
               /\ \A k : Claimants(m, name) = {k} => at.provider = k.provider
               /\ (~ \E k : Claimants(m, name) = {k}) => at.provider \in reservedProviderNames
<1> DEFINE r  == newToolRouter(m)
           at == route(m, r, name)
<1>1. /\ r.unqualified = {c \in All(m) : \A d \in All(m) : d.name = c.name => d.provider = c.provider}
  BY RouterClaims DEF Index
<1> HIDE DEF r
<1>2. at.tool = name
  BY DEF route
<1>3. ASSUME NEW k, Claimants(m, name) = {k} PROVE at.provider = k.provider
  <2>1. \A c \in All(m) : c.name = name => c.provider = k.provider
    BY <1>3, RouterClaims
  <2>2. [name |-> name, provider |-> k.provider] \in All(m)
    BY <1>3, RouterClaims
  <2>3. [name |-> name, provider |-> k.provider] \in r.unqualified
    BY <1>1, <2>1, <2>2
  <2>4. \A u \in r.unqualified : u.name = name => u.provider = k.provider
    BY <1>1, <2>1
  <2>5. \E u \in r.unqualified : u.name = name
    BY <2>3
  <2>6. at.provider = (CHOOSE u \in r.unqualified : u.name = name).provider
    BY <2>5 DEF route
  <2> QED
    BY <2>4, <2>5, <2>6
<1>4. ASSUME ~ \E k : Claimants(m, name) = {k} PROVE at.provider \in reservedProviderNames
  <2>1. ASSUME NEW u \in r.unqualified, u.name = name PROVE FALSE
    <3>1. u \in All(m) /\ \A d \in All(m) : d.name = name => d.provider = u.provider
      BY <1>1, <2>1
    <3>2. PICK k \in Claimants(m, name) : TRUE
      BY <2>1, <3>1, RouterClaims
    <3>3. \A l \in Claimants(m, name) : l.provider = u.provider
      <4>1. TAKE l \in Claimants(m, name)
      <4>2. [name |-> name, provider |-> l.provider] \in All(m)
        BY RouterClaims
      <4> QED
        BY <3>1, <4>2
    <3>4. \A l \in Claimants(m, name) : l = k
      BY <3>2, <3>3, ProvidersOnce DEF Claimants
    <3>5. Claimants(m, name) = {k}
      BY <3>2, <3>4
    <3> QED
      BY <1>4, <3>5
  <2> QED
    BY <2>1 DEF route, reservedProviderNames
<1> QED
  BY <1>2, <1>3, <1>4 DEF r

\* Routing is sound: a name goes to the connector of the one thing it can mean,
\* or to no connector when it means nothing or several things.
LEMMA RouteSound ==
    ASSUME NEW m, Sound(m), NEW name
    PROVE  LET at == route(m, newToolRouter(m), name)
           IN  \/ \E k \in ToSet(m) : /\ k.provider = at.provider
                                      /\ Meant(m, name) = {[connector |-> k, tool |-> at.tool]}
               \/ /\ \A k \in ToSet(m) : k.provider # at.provider
                  /\ ~ \E w : Meant(m, name) = {w}
<1> DEFINE at == route(m, newToolRouter(m), name)
<1>1. CASE Qualified(m, name)
  <2>1. at.provider = Head(name) /\ at.tool = Tail(name)
    BY <1>1 DEF route
  <2>2. PICK k \in ToSet(m) : k.provider = Head(name)
    BY <1>1 DEF Qualified
  <2>3. {l \in ToSet(m) : l.provider = Head(name)} = {k}
    BY <2>2, ProvidersOnce
  <2>4. Meant(m, name) = {[connector |-> k, tool |-> Tail(name)]}
    BY <1>1, <2>3 DEF Meant
  <2> QED
    BY <2>1, <2>2, <2>4
<1>2. CASE ~Qualified(m, name)
  <2>1. Meant(m, name) = {[connector |-> k, tool |-> name] : k \in Claimants(m, name)}
    BY <1>2 DEF Meant, Claimants
  <2>2. at.tool = name
    BY <1>2, RouteBare
  <2>3. CASE \E k : Claimants(m, name) = {k}
    <3>1. PICK k : Claimants(m, name) = {k}
      BY <2>3
    <3>2. at.provider = k.provider
      BY <1>2, <3>1, RouteBare
    <3>3. k \in ToSet(m)
      BY <3>1 DEF Claimants
    <3> QED
      BY <2>1, <2>2, <3>1, <3>2, <3>3
  <2>4. CASE ~ \E k : Claimants(m, name) = {k}
    <3>1. at.provider \in reservedProviderNames
      BY <1>2, <2>4, RouteBare
    <3>2. \A k \in ToSet(m) : k.provider # at.provider
      BY <3>1 DEF Sound, Routable
    <3>3. ASSUME NEW w, Meant(m, name) = {w} PROVE FALSE
      <4>1. PICK k \in Claimants(m, name) : w = [connector |-> k, tool |-> name]
        BY <2>1, <3>3
      <4>2. \A l \in Claimants(m, name) : [connector |-> l, tool |-> name] = w
        BY <2>1, <3>3
      <4>3. \A l \in Claimants(m, name) : l = k
        BY <4>1, <4>2
      <4> QED
        BY <2>4, <4>1, <4>3
    <3> QED
      BY <3>2, <3>3
  <2> QED
    BY <2>3, <2>4
<1> QED
  BY <1>1, <1>2

(***************************************************************************)
(* The decision.                                                            *)
(***************************************************************************)

\* The greatest element of a set of one number.
LEMMA MaxOfOne == ASSUME NEW i \in Nat PROVE Max({i}) = i
BY DEF Max

\* Register's index finds the connector a provider name stands for.
LEMMA LookupConnector ==
    ASSUME NEW m, Sound(m), NEW provider
    PROVE  /\ \A k \in ToSet(m) : k.provider = provider =>
                /\ Registered(m, provider) \in 1..Len(m)
                /\ m[Registered(m, provider)] = k
           /\ (\A k \in ToSet(m) : k.provider # provider) => Registered(m, provider) = 0
<1> DEFINE I == {i \in 1..Len(m) : m[i].provider = provider}
<1>1. Registered(m, provider) = IF I # {} THEN Max(I) ELSE 0
  BY DEF Registered, SelectLastInSeq
<1>2. /\ Len(m) \in Nat /\ DOMAIN m = 1..Len(m)
      /\ \A i \in 1..Len(m) : m[i] \in ToSet(m)
      /\ \A k \in ToSet(m) : \E i \in 1..Len(m) : k = m[i]
  BY ListDomain DEF Sound
<1>3. ASSUME NEW k \in ToSet(m), k.provider = provider
      PROVE  Registered(m, provider) \in 1..Len(m) /\ m[Registered(m, provider)] = k
  <2>1. PICK i \in 1..Len(m) : k = m[i]
    BY <1>2
  <2>2. I = {i}
    BY <1>2, <1>3, <2>1 DEF Sound, Validate, Once
  <2>3. Registered(m, provider) = i
    BY <1>1, <2>2, MaxOfOne
  <2> QED
    BY <2>1, <2>3
<1>4. ASSUME \A k \in ToSet(m) : k.provider # provider PROVE Registered(m, provider) = 0
  BY <1>1, <1>2, <1>4
<1> QED
  BY <1>3, <1>4

\* The tools a connector maps under a name.
Mapped(k, tool) == {t \in ToSet(k.tools) : t.tool = tool}

\* A valid connector maps a name at most once, and never one it excludes.
LEMMA LookupTool ==
    ASSUME NEW k, connectorValidate(k), IsList(k.tools), IsList(k.excluded), NEW tool
    PROVE  LET j == MappingOf(k, tool)
           IN  /\ j = 0 => Mapped(k, tool) = {}
               /\ j # 0 => /\ Mapped(k, tool) = {k.tools[j]}
                           /\ k.tools[j] \in ToSet(k.tools)
                           /\ tool \notin ToSet(k.excluded)
<1> DEFINE n == Len(k.tools)
           e == Len(k.excluded)
           J == {i \in 1..n : k.tools[i].tool = tool}
           s == [i \in DOMAIN k.tools |-> k.tools[i].tool]
           all == Classified(k)
<1>1. MappingOf(k, tool) = IF J # {} THEN Max(J) ELSE 0
  BY DEF MappingOf, SelectLastInSeq
<1>2. /\ n \in Nat /\ DOMAIN k.tools = 1..n
      /\ ToSet(k.tools) = {k.tools[i] : i \in 1..n}
  BY ListDomain
<1>3. e \in Nat /\ ToSet(k.excluded) = {k.excluded[i] : i \in 1..e}
  BY ListDomain
<1>4. /\ \A x \in 1..n : x \in DOMAIN all /\ all[x] = k.tools[x].tool
      /\ \A x \in 1..e : x + n \in DOMAIN all /\ all[x + n] = k.excluded[x]
  <2> DEFINE A == {k.tools[x].tool : x \in 1..n} \cup ToSet(k.excluded)
  <2>1. s \in Seq(A) /\ k.excluded \in Seq(A)
    BY <1>2 DEF IsList
  <2>2. \A x \in 1..n : s[x] = k.tools[x].tool
    BY <1>2
  <2>3. DOMAIN s = 1..n
    BY <1>2
  <2>4. all = s \o k.excluded
    BY DEF Classified
  <2> HIDE DEF s, A, all
  <2>5. Len(s) = n
    <3> HIDE DEF n
    <3> QED
      BY <1>2, <2>1, <2>3
  <2>6. /\ all \in Seq(A) /\ Len(all) = n + e
        /\ \A x \in 1..(n + e) : all[x] = IF x <= n THEN s[x] ELSE k.excluded[x - n]
    <3>1. /\ s \o k.excluded \in Seq(A)
          /\ Len(s \o k.excluded) = Len(s) + Len(k.excluded)
          /\ \A x \in 1..(Len(s) + Len(k.excluded)) : (s \o k.excluded)[x] =
                IF x <= Len(s) THEN s[x] ELSE k.excluded[x - Len(s)]
      BY <2>1, ConcatProperties, Zenon
    <3> QED
      BY <2>4, <2>5, <3>1, Zenon
  <2> HIDE DEF n, e
  <2>7. DOMAIN all = 1..(n + e)
    BY <2>6
  <2>8. \A x \in 1..e : x + n \in 1..(n + e) /\ ~(x + n <= n) /\ (x + n) - n = x
    BY <1>2, <1>3
  <2>9. \A x \in 1..n : x \in 1..(n + e) /\ x <= n
    BY <1>2, <1>3
  <2> QED
    BY <2>2, <2>6, <2>7, <2>8, <2>9
<1>5. \A x, y \in DOMAIN all : all[x] = all[y] => x = y
  BY DEF connectorValidate, Once
<1> HIDE DEF n, e, s, all
<1>6. CASE J = {}
  BY <1>1, <1>2, <1>6 DEF Mapped
<1>7. CASE J # {}
  <2>1. PICK i \in 1..n : k.tools[i].tool = tool
    BY <1>7
  <2>2. \A x \in J : x = i
    BY <1>4, <1>5, <2>1
  <2>3. J = {i}
    BY <2>1, <2>2
  <2>4. MappingOf(k, tool) = i
    BY <1>1, <1>2, <2>3, MaxOfOne
  <2>5. Mapped(k, tool) = {k.tools[i]} /\ k.tools[i] \in ToSet(k.tools)
    BY <1>2, <2>1, <2>2 DEF Mapped
  <2>6. tool \notin ToSet(k.excluded)
    <3>1. SUFFICES ASSUME NEW x \in 1..e, k.excluded[x] = tool PROVE FALSE
      BY <1>3
    <3>2. x + n = i
      BY <1>4, <1>5, <2>1, <3>1
    <3> QED
      BY <1>2, <1>3, <3>2
  <2>7. i # 0
    BY <1>2
  <2> QED
    BY <2>4, <2>5, <2>6, <2>7
<1> QED
  BY <1>6, <1>7

\* A call of a valid mapping has a class exactly when it has a declared power,
\* and that power is no more than what the engine asks a grant to hold.
LEMMA PowerOfCall ==
    ASSUME NEW t, toolValidate(t), NEW args
    PROVE  /\ ResolveActionClass(t, args) = {} <=> Power(t, args) = {}
           /\ \A c \in Power(t, args) :
                \/ \E a \in ResolveActionClass(t, args) : c = classCapability[a]
                \/ \E g \in ToSet(t.guards) : Applies(g, args) /\ c = g.capability
<1> DEFINE declared == IF Polymorphic(t)
                       THEN {t.selector.cases[v] :
                                v \in {args[t.selector.pointer]} \cap DOMAIN t.selector.cases}
                       ELSE {t.class}
<1>1. ResolveActionClass(t, args) = declared
  <2>1. CASE Polymorphic(t)
    <3>1. \A v \in DOMAIN t.selector.cases : v \notin Unusable
      BY <2>1 DEF toolValidate, validateSelector
    <3> QED
      BY <2>1, <3>1 DEF ResolveActionClass, Extract
  <2>2. CASE ~Polymorphic(t)
    BY <2>2 DEF ResolveActionClass, toolValidate
  <2> QED
    BY <2>1, <2>2
<1>2. Power(t, args) =
        IF declared = {} THEN {}
        ELSE {classCapability[a] : a \in declared} \cup
             {g.capability : g \in {x \in ToSet(t.guards) : args[x.pointer] \notin x.unlessIn}}
  BY DEF Power
<1>3. \A g \in ToSet(t.guards) : args[g.pointer] \notin g.unlessIn => Applies(g, args)
  BY DEF Applies, Extract
<1> HIDE DEF declared
<1> QED
  BY <1>1, <1>2, <1>3

\* The powers of a call whose name means one tool.
LEMMA PowersOfOne ==
    ASSUME NEW m, NEW name, NEW args, NEW k, NEW tool,
           Meant(m, name) = {[connector |-> k, tool |-> tool]}
    PROVE  Powers(m, name, args) =
             {Power(t, args) : t \in Mapped(k, tool)} \cup
             (IF Mapped(k, tool) = {} \/ tool \in ToSet(k.excluded) THEN {{}} ELSE {})
BY DEF Powers, Mapped

\* The engine's decision against the manifest: an admitted call's name means one
\* declared tool, whose every power the grant holds; a refusal is a denial when
\* only the grant stood in the way, and a policy violation otherwise.
THEOREM DecisionSound ==
    ASSUME NEW m, Sound(m), NEW name, NEW args, NEW held
    PROVE  LET reason == Authorize(m, route(m, newToolRouter(m), name), args, held)
               powers == Powers(m, name, args)
           IN  /\ reason = "allowed" =>
                    powers # {} /\ {} \notin powers /\ UNION powers \subseteq held
               /\ reason # "allowed" =>
                    CallEvent(reason) = IF Declared(m, name, args) THEN "call_denied"
                                        ELSE "policy_violation"
<1> DEFINE at     == route(m, newToolRouter(m), name)
           i      == Registered(m, at.provider)
           j      == MappingOf(m[i], at.tool)
           t      == m[i].tools[j]
           class  == ResolveActionClass(t, args)
           lacks  == \/ \E a \in class : classCapability[a] \notin held
                     \/ \E g \in ToSet(t.guards) : Applies(g, args) /\ g.capability \notin held
           reason == Authorize(m, at, args, held)
           powers == Powers(m, name, args)
           Goal   == /\ reason = "allowed" =>
                            powers # {} /\ {} \notin powers /\ UNION powers \subseteq held
                     /\ reason # "allowed" =>
                            CallEvent(reason) = IF Declared(m, name, args) THEN "call_denied"
                                                ELSE "policy_violation"
<1> SUFFICES Goal
  OBVIOUS
<1>1. CASE /\ \A k \in ToSet(m) : k.provider # at.provider
           /\ ~ \E w : Meant(m, name) = {w}
  <2>1. i = 0
    BY <1>1, LookupConnector
  <2>2. reason = "unknown_provider"
    BY <2>1 DEF Authorize
  <2>3. ~Declared(m, name, args)
    BY <1>1 DEF Declared
  <2> QED
    BY <2>2, <2>3 DEF CallEvent
<1>2. ASSUME NEW k \in ToSet(m), k.provider = at.provider,
             Meant(m, name) = {[connector |-> k, tool |-> at.tool]}
      PROVE  Goal
  <2>1. i \in 1..Len(m) /\ m[i] = k /\ Len(m) \in Nat
    BY <1>2, LookupConnector, ListDomain DEF Sound
  <2>2. i # 0
    BY <2>1
  <2>3. connectorValidate(k) /\ IsList(k.tools) /\ IsList(k.excluded)
    BY <1>2 DEF Sound, Validate
  <2>4. /\ j = 0 => Mapped(k, at.tool) = {}
        /\ j # 0 => /\ Mapped(k, at.tool) = {t} /\ t \in ToSet(k.tools)
                    /\ at.tool \notin ToSet(k.excluded)
    BY <2>1, <2>3, LookupTool
  <2>5. powers = {Power(x, args) : x \in Mapped(k, at.tool)} \cup
                 (IF Mapped(k, at.tool) = {} \/ at.tool \in ToSet(k.excluded) THEN {{}} ELSE {})
    <3> DEFINE tool == at.tool
    <3>1. Meant(m, name) = {[connector |-> k, tool |-> tool]}
      BY <1>2
    <3> HIDE DEF tool
    <3>2. Powers(m, name, args) =
             {Power(x, args) : x \in Mapped(k, tool)} \cup
             (IF Mapped(k, tool) = {} \/ tool \in ToSet(k.excluded) THEN {{}} ELSE {})
      BY <3>1, PowersOfOne
    <3> QED
      BY <3>2 DEF tool
  <2>6. Declared(m, name, args) <=> {} \notin powers
    BY <1>2 DEF Declared
  <2>7. CASE j = 0
    <3>1. reason \in {"excluded_tool", "unmapped_tool"}
      BY <2>1, <2>2, <2>7 DEF Authorize
    <3>2. {} \in powers
      BY <2>4, <2>5, <2>7
    <3> QED
      BY <2>6, <3>1, <3>2 DEF CallEvent
  <2>8. CASE j # 0
    <3>1. powers = {Power(t, args)}
      BY <2>4, <2>5, <2>8
    <3>2. toolValidate(t)
      BY <2>3, <2>4, <2>8 DEF connectorValidate
    <3>3. /\ class = {} <=> Power(t, args) = {}
          /\ \A c \in Power(t, args) :
                \/ \E a \in class : c = classCapability[a]
                \/ \E g \in ToSet(t.guards) : Applies(g, args) /\ c = g.capability
      BY <3>2, PowerOfCall
    <3>4. reason = IF class = {} THEN "unresolved_action"
                   ELSE IF lacks THEN "capability_missing" ELSE "allowed"
      BY <2>2, <2>8 DEF Authorize
    <3> HIDE DEF at, i, j, t, class, lacks, reason, powers
    <3>5. CASE class = {}
      BY <2>6, <3>1, <3>3, <3>4, <3>5 DEF CallEvent
    <3>6. CASE class # {} /\ lacks
      BY <2>6, <3>1, <3>3, <3>4, <3>6 DEF CallEvent
    <3>7. CASE class # {} /\ ~lacks
      <4>1. Power(t, args) \subseteq held
        BY <3>3, <3>7 DEF lacks
      <4> QED
        BY <3>1, <3>3, <3>4, <3>7, <4>1
    <3> QED
      BY <3>5, <3>6, <3>7
  <2> QED
    BY <2>7, <2>8
<1>3. \/ \E k \in ToSet(m) : k.provider = at.provider /\ Meant(m, name) = {[connector |-> k, tool |-> at.tool]}
      \/ /\ \A k \in ToSet(m) : k.provider # at.provider
         /\ ~ \E w : Meant(m, name) = {w}
  BY RouteSound
<1> HIDE DEF at, Goal
<1> QED
  BY <1>1, <1>2, <1>3

(***************************************************************************)
(* The inductive invariant of the edge.                                     *)
(***************************************************************************)

Steps == InFlight \cup {"idle", "done", "lost"}
RowKinds == {"auth_denied", "call_allowed", "call_denied", "policy_violation",
             "result_ok", "tool_failed"}
Replies == {"none", "unauthenticated", "error", "proxied", "denied", "result", "failure",
            "unavailable"}

\* Every field of a call keeps its type.
CallTypes ==
    /\ step  \in [Calls -> Steps]
    /\ node  \in [Calls -> Nodes \cup {"nobody"}]
    /\ token \in [Calls -> GrantIds \cup {"none"}]
    /\ late  \in [Calls -> BOOLEAN]
    /\ body  \in [Calls -> ToolCalls \cup {NoCall}]
    /\ rows  \in [Calls -> Seq(RowKinds)]
    /\ wire  \in [Calls -> {"nothing", "frame", "tool"}]
    /\ gone  \in [Calls -> BOOLEAN]
    /\ logFails \in [Calls -> BOOLEAN]
    /\ reply \in [Calls -> Replies]

\* The steps between the recorded decision and the result row.
Busy == {"recorded", "calling", "answered", "failed"}

\* A call past authentication, and any whose bytes reached the gateway, was made
\* by the machine of an issued grant; a call that came too late never got there.
Authentic(c) ==
    /\ step[c] # "idle" => token[c] \in GrantIds
    /\ step[c] = "admitted" \/ step[c] \in Busy \/ wire[c] # "nothing" =>
            token[c] \in GrantIds /\ status[token[c]] # "none" /\ machine[token[c]] = node[c]
    /\ late[c] => /\ token[c] \in GrantIds /\ status[token[c]] = "revoked"
                  /\ step[c] \in {"arrived", "done", "lost"}
                  /\ wire[c] = "nothing"

\* A call past the decision takes only what the grant itself carries.
Authorized(c) ==
    step[c] \in Busy \/ wire[c] = "tool" =>
        LET powers == Powers(manifest, body[c].tool, body[c].args)
        IN  powers # {} /\ {} \notin powers /\ UNION powers \subseteq caps[token[c]]

\* The log at each step of a call.
OnRecord(c) ==
    /\ step[c] \in {"idle", "arrived", "admitted"} => rows[c] = <<>> /\ wire[c] = "nothing"
    /\ step[c] \in Busy => rows[c] = <<"call_allowed">>
    /\ step[c] \in {"recorded", "calling", "answered", "failed"} => wire[c] # "frame"
    /\ wire[c] = "tool" => rows[c] # <<>> /\ rows[c][1] = "call_allowed"
    /\ step[c] = "done" => rows[c] \in RowsOf(c, reply[c])
    /\ wire[c] = "tool" /\ step[c] = "done" /\ ~logFails[c] => Len(rows[c]) = 2

CallInv(c) == Authentic(c) /\ Authorized(c) /\ OnRecord(c)

EdgeInv ==
    /\ Inv
    /\ Sound(manifest)
    /\ router = newToolRouter(manifest)
    /\ CallTypes
    /\ \A c \in Calls : CallInv(c)

(***************************************************************************)
(* Initial states, and the steps of the control plane.                      *)
(***************************************************************************)

\* The server starts with a sound manifest, its router and no calls.
LEMMA EdgeInitInv == EdgeInit => EdgeInv
<1> SUFFICES ASSUME EdgeInit PROVE EdgeInv
  OBVIOUS
<1>1. Inv
  BY InitInv DEF EdgeInit
<1>2. Sound(manifest) /\ router = newToolRouter(manifest)
  BY ManifestAssumption DEF EdgeInit, Sound
<1>3. CallTypes
  <2>1. rows \in [Calls -> Seq(RowKinds)]
    BY DEF EdgeInit
  <2>2. reply \in [Calls -> Replies]
    BY DEF EdgeInit, Replies
  <2>3. body \in [Calls -> ToolCalls \cup {NoCall}]
    BY DEF EdgeInit
  <2> QED
    BY <2>1, <2>2, <2>3 DEF EdgeInit, CallTypes, Steps
<1>4. \A c \in Calls : CallInv(c)
  BY DEF EdgeInit, CallInv, Authentic, Authorized, OnRecord, Busy
<1> QED
  BY <1>1, <1>2, <1>3, <1>4 DEF EdgeInv

\* The fields of one call are untouched.
Same(c) ==
    /\ step'[c] = step[c] /\ node'[c] = node[c] /\ token'[c] = token[c] /\ late'[c] = late[c]
    /\ body'[c] = body[c] /\ rows'[c] = rows[c] /\ wire'[c] = wire[c] /\ gone'[c] = gone[c]
    /\ logFails'[c] = logFails[c] /\ reply'[c] = reply[c]

\* What holds of a call goes on holding while grants are issued and ended.
LEMMA SameCall ==
    ASSUME Inv, NEW c \in Calls, CallInv(c), Same(c), GrantsOnlyEnd, UNCHANGED manifest
    PROVE  CallInv(c)'
<1>1. Authentic(c)'
  BY DEF CallInv, Authentic, Same, GrantsOnlyEnd
<1>2. Authorized(c)'
  BY DEF CallInv, Authentic, Authorized, Same, GrantsOnlyEnd
<1>3. OnRecord(c)'
  BY DEF CallInv, OnRecord, Same, RowsOf
<1> QED
  BY <1>1, <1>2, <1>3 DEF CallInv

\* Enrolments, issuances and revocations between two steps of the calls.
LEMMA ControlStepInv ==
    ASSUME EdgeInv, ControlStep PROVE EdgeInv'
<1>1. Next /\ UNCHANGED <<callVars, manifest, router>>
  BY DEF ControlStep, Next
<1>2. Inv' /\ GrantsOnlyEnd
  BY <1>1, NextInv, NextOnlyEnds DEF EdgeInv
<1>3. CallTypes'
  BY <1>1 DEF EdgeInv, CallTypes, callVars
<1>4. \A c \in Calls : CallInv(c)'
  BY <1>1, <1>2, SameCall DEF EdgeInv, Same, callVars
<1> QED
  BY <1>1, <1>2, <1>3, <1>4 DEF EdgeInv

\* A step of one call: the others, the control plane and the manifest keep what
\* they have, and what is left to show is about the call itself.
LEMMA OneCall ==
    ASSUME EdgeInv, NEW c \in Calls, UNCHANGED plane, \A d \in Calls \ {c} : Same(d),
           CallTypes', CallInv(c)'
    PROVE  EdgeInv'
<1>1. UNCHANGED vars /\ UNCHANGED <<manifest, router>>
  BY DEF plane
<1>2. Inv' /\ GrantsOnlyEnd
  BY <1>1, NextInv, NextOnlyEnds DEF EdgeInv
<1>3. \A d \in Calls : CallInv(d)'
  BY <1>1, <1>2, SameCall DEF EdgeInv
<1> QED
  BY <1>1, <1>2, <1>3 DEF EdgeInv

(***************************************************************************)
(* The steps of a call.                                                     *)
(***************************************************************************)

\* One more row of a call.
LEMMA RowAdded ==
    ASSUME CallTypes, NEW c \in Calls, NEW row \in RowKinds,
           rows' = [rows EXCEPT ![c] = Append(@, row)]
    PROVE  /\ rows' \in [Calls -> Seq(RowKinds)]
           /\ \A d \in Calls \ {c} : rows'[d] = rows[d]
           /\ rows[c] = <<>> => rows'[c] = <<row>>
           /\ rows[c] = <<"call_allowed">> => rows'[c] = <<"call_allowed", row>>
<1>1. rows[c] \in Seq(RowKinds) /\ Append(rows[c], row) \in Seq(RowKinds)
  BY DEF CallTypes
<1>2. rows'[c] = Append(rows[c], row) /\ \A d \in Calls \ {c} : rows'[d] = rows[d]
  BY DEF CallTypes
<1>3. rows' \in [Calls -> Seq(RowKinds)]
  BY <1>1 DEF CallTypes
<1>4. rows[c] = <<>> => rows'[c] = <<row>>
  BY <1>2
<1>5. rows[c] = <<"call_allowed">> => rows'[c] = <<"call_allowed", row>>
  <2> DEFINE a == Append(<<"call_allowed">>, row)
             b == <<"call_allowed", row>>
  <2>1. <<"call_allowed">> \in Seq(RowKinds) /\ b \in Seq(RowKinds)
    BY DEF RowKinds
  <2>2. a \in Seq(RowKinds) /\ Len(a) = 2 /\ a[1] = "call_allowed" /\ a[2] = row
    BY <2>1, EndOfActive DEF RowKinds
  <2>3. Len(b) = 2 /\ b[1] = "call_allowed" /\ b[2] = row
    OBVIOUS
  <2>4. \A i \in 1..Len(a) : a[i] = b[i]
    BY <2>2, <2>3
  <2> HIDE DEF a, b
  <2>5. a = b
    BY <2>1, <2>2, <2>3, <2>4, SeqEqual
  <2> QED
    BY <1>2, <2>5 DEF a, b
<1> QED
  BY <1>2, <1>3, <1>4, <1>5

\* The client sends its request, late or in time.
LEMMA ArriveStep ==
    ASSUME EdgeInv, NEW c \in Calls, NEW n \in Nodes, NEW g \in GrantIds, Arrive(c, n, g)
    PROVE  EdgeInv'
<1> USE DEF Arrive, Move
<1>1. CallTypes'
  BY DEF EdgeInv, CallTypes, Steps, InFlight
<1>2. \A d \in Calls \ {c} : Same(d)
  BY DEF EdgeInv, CallTypes, Same
<1>3. /\ step'[c] = "arrived" /\ token'[c] = g /\ late'[c] = (status[g] = "revoked")
      /\ rows'[c] = <<>> /\ wire'[c] = "nothing" /\ UNCHANGED plane
  BY DEF EdgeInv, CallTypes, CallInv, OnRecord
<1>4. CallInv(c)'
  <2>1. UNCHANGED <<status, machine, caps, manifest>>
    BY <1>3 DEF plane, vars, grantVars
  <2>2. Authentic(c)'
    BY <1>3, <2>1 DEF Authentic, Busy
  <2>3. Authorized(c)' /\ OnRecord(c)'
    BY <1>3 DEF Authorized, OnRecord, Busy
  <2> QED
    BY <2>2, <2>3 DEF CallInv
<1> QED
  BY <1>1, <1>2, <1>3, <1>4, OneCall

\* A call that ends before anything of it reached the gateway.
LEMMA RefusedCall ==
    ASSUME EdgeInv, NEW c \in Calls, step[c] \in {"arrived", "admitted"},
           UNCHANGED <<plane, node, token, late, wire>>,
           step'[c] = "done", rows'[c] \in RowsOf(c, reply[c])'
    PROVE  CallInv(c)'
<1>1. wire'[c] = "nothing" /\ UNCHANGED <<status, machine, caps, manifest>>
  BY DEF EdgeInv, CallInv, OnRecord, plane, vars, grantVars
<1>2. Authentic(c)'
  BY <1>1 DEF EdgeInv, CallInv, Authentic, Busy
<1>3. Authorized(c)' /\ OnRecord(c)'
  BY <1>1 DEF Authorized, OnRecord, Busy
<1> QED
  BY <1>2, <1>3 DEF CallInv

\* A refusal whose row cannot be written, or whose client is gone.
LEMMA UnrecordedCall ==
    ASSUME EdgeInv, NEW c \in Calls, step[c] \in {"arrived", "admitted"},
           UNCHANGED <<plane, node, token, late, wire, gone, rows>>,
           body' \in [Calls -> ToolCalls \cup {NoCall}],
           \A d \in Calls \ {c} : body'[d] = body[d],
           logFails' = [logFails EXCEPT ![c] = ~gone[c]], Reply(c, "unavailable")
    PROVE  EdgeInv'
<1> USE DEF Reply, Move
<1>1. CallTypes'
  BY DEF EdgeInv, CallTypes, Steps, Replies
<1>2. \A d \in Calls \ {c} : Same(d)
  BY DEF EdgeInv, CallTypes, Same
<1>3. step'[c] = "done" /\ rows'[c] = <<>> /\ reply'[c] = "unavailable"
  BY DEF EdgeInv, CallTypes, CallInv, OnRecord
<1>4. rows'[c] \in RowsOf(c, reply[c])'
  BY <1>3 DEF RowsOf
<1> QED
  BY <1>1, <1>2, <1>3, <1>4, RefusedCall, OneCall

\* Authentication: only an active grant's token from its own machine gets on.
LEMMA AuthenticateCallStep ==
    ASSUME EdgeInv, NEW c \in Calls, Authenticate(c)
    PROVE  EdgeInv'
<1> DEFINE g == token[c]
<1>1. /\ step[c] = "arrived" /\ UNCHANGED <<plane, node, token, late, body, wire, gone>>
      /\ UNCHANGED <<status, machine, caps, manifest>>
  BY DEF Authenticate, plane, vars, grantVars
<1>2. CASE ActiveGrant(g) /\ machine[g] = node[c]
  <2>1. Move(c, "admitted") /\ UNCHANGED <<rows, logFails, reply>>
    BY <1>2 DEF Authenticate
  <2>2. CallTypes'
    BY <1>1, <2>1 DEF EdgeInv, CallTypes, Steps, InFlight, Move
  <2>3. \A d \in Calls \ {c} : Same(d)
    BY <1>1, <2>1 DEF EdgeInv, CallTypes, Same, Move
  <2>4. step'[c] = "admitted"
    BY <2>1 DEF EdgeInv, CallTypes, Move
  <2>5. Authentic(c)'
    BY <1>1, <1>2, <2>4 DEF EdgeInv, CallInv, Authentic, ActiveGrant
  <2>6. Authorized(c)' /\ OnRecord(c)'
    BY <1>1, <2>1, <2>4 DEF EdgeInv, CallInv, Authorized, OnRecord, Busy
  <2> QED
    BY <1>1, <2>2, <2>3, <2>5, <2>6, OneCall DEF CallInv
<1>3. CASE ~(ActiveGrant(g) /\ machine[g] = node[c])
  <2>1. Record(c, "auth_denied", Reply(c, "unauthenticated"))
    BY <1>3 DEF Authenticate
  <2>2. CASE /\ rows' = [rows EXCEPT ![c] = Append(@, "auth_denied")]
             /\ Reply(c, "unauthenticated") /\ UNCHANGED logFails
    <3>1. rows' \in [Calls -> Seq(RowKinds)] /\ \A d \in Calls \ {c} : rows'[d] = rows[d]
      BY <2>2, RowAdded DEF EdgeInv, RowKinds
    <3>2. CallTypes'
      BY <1>1, <2>2, <3>1 DEF EdgeInv, CallTypes, Steps, Replies, Reply, Move
    <3>3. \A d \in Calls \ {c} : Same(d)
      BY <1>1, <2>2, <3>1 DEF EdgeInv, CallTypes, Same, Reply, Move
    <3>4. step'[c] = "done" /\ reply'[c] = "unauthenticated"
      BY <2>2 DEF EdgeInv, CallTypes, Reply, Move
    <3>5. rows'[c] = <<"auth_denied">>
      BY <1>1, <2>2, RowAdded DEF EdgeInv, RowKinds, CallInv, OnRecord
    <3>6. rows'[c] \in RowsOf(c, reply[c])'
      BY <3>4, <3>5 DEF RowsOf
    <3> QED
      BY <1>1, <3>2, <3>3, <3>4, <3>6, RefusedCall, OneCall
  <2>3. CASE /\ logFails' = [logFails EXCEPT ![c] = ~gone[c]]
             /\ Reply(c, "unavailable") /\ UNCHANGED rows
    BY <1>1, <2>3, UnrecordedCall DEF EdgeInv, CallTypes
  <2> QED
    BY <2>1, <2>2, <2>3 DEF Record
<1> QED
  BY <1>2, <1>3

\* A body that is too large or malformed, and a failed lookup.
LEMMA MalformedStep ==
    ASSUME EdgeInv, NEW c \in Calls, Malformed(c)
    PROVE  EdgeInv'
<1> USE DEF Malformed, Reply, Move
<1>1. CallTypes'
  BY DEF EdgeInv, CallTypes, Steps, Replies
<1>2. \A d \in Calls \ {c} : Same(d)
  BY DEF EdgeInv, CallTypes, Same
<1>3. step'[c] = "done" /\ reply'[c] = "error" /\ rows'[c] = <<>>
  BY DEF EdgeInv, CallTypes, CallInv, OnRecord
<1>4. rows'[c] \in RowsOf(c, reply[c])'
  BY <1>3 DEF RowsOf
<1> QED
  BY <1>1, <1>2, <1>3, <1>4, RefusedCall, OneCall

\* Session traffic of an admitted caller, proxied without a row.
LEMMA ForwardStep ==
    ASSUME EdgeInv, NEW c \in Calls, Forward(c)
    PROVE  EdgeInv'
<1> USE DEF Forward, Reply, Move
<1>1. CallTypes'
  BY DEF EdgeInv, CallTypes, Steps, Replies
<1>2. \A d \in Calls \ {c} : Same(d)
  BY DEF EdgeInv, CallTypes, Same
<1>3. /\ step'[c] = "done" /\ reply'[c] = "proxied" /\ rows'[c] = <<>> /\ wire'[c] = "frame"
      /\ UNCHANGED <<plane, token, node, late>> /\ UNCHANGED <<status, machine, manifest>>
  BY DEF EdgeInv, CallTypes, CallInv, OnRecord, plane, vars, grantVars
<1>4. Authentic(c)'
  BY <1>3 DEF EdgeInv, CallInv, Authentic
<1>5. Authorized(c)' /\ OnRecord(c)'
  BY <1>3 DEF Authorized, OnRecord, Busy, RowsOf
<1> QED
  BY <1>1, <1>2, <1>3, <1>4, <1>5, OneCall DEF CallInv

\* The decision: an admitted call is on record with all it takes from its grant
\* before it goes on, and a refused one with the reason of its refusal.
LEMMA DecideStep ==
    ASSUME EdgeInv, NEW c \in Calls, NEW call \in ToolCalls, Decide(c, call)
    PROVE  EdgeInv'
<1> DEFINE reason == Authorize(manifest, route(manifest, router, call.tool), call.args,
                               caps[token[c]])
           powers == Powers(manifest, call.tool, call.args)
           then   == IF reason = "allowed" THEN Move(c, "recorded") /\ UNCHANGED reply
                     ELSE Reply(c, "denied")
<1>1. /\ step[c] = "admitted" /\ UNCHANGED <<plane, node, token, late, wire, gone>>
      /\ UNCHANGED <<status, machine, caps, manifest>>
  BY DEF Decide, plane, vars, grantVars
<1>2. /\ body' \in [Calls -> ToolCalls \cup {NoCall}]
      /\ body'[c] = call /\ \A d \in Calls \ {c} : body'[d] = body[d]
  BY DEF Decide, EdgeInv, CallTypes
<1>3. Record(c, CallEvent(reason), then)
  BY DEF Decide
<1>4. /\ reason = "allowed" =>
             powers # {} /\ {} \notin powers /\ UNION powers \subseteq caps[token[c]]
      /\ reason # "allowed" =>
             CallEvent(reason) = IF Declared(manifest, call.tool, call.args) THEN "call_denied"
                                 ELSE "policy_violation"
  BY DecisionSound DEF EdgeInv
<1>5. CallEvent(reason) \in RowKinds /\ (reason = "allowed" => CallEvent(reason) = "call_allowed")
  BY DEF CallEvent, RowKinds
<1> HIDE DEF reason
<1>6. CASE rows' = [rows EXCEPT ![c] = Append(@, CallEvent(reason))] /\ then /\ UNCHANGED logFails
  <2>1. /\ rows' \in [Calls -> Seq(RowKinds)] /\ rows'[c] = <<CallEvent(reason)>>
        /\ \A d \in Calls \ {c} : rows'[d] = rows[d]
    <3>1. rows[c] = <<>>
      BY <1>1 DEF EdgeInv, CallInv, OnRecord
    <3> QED
      BY <1>5, <1>6, <3>1, RowAdded DEF EdgeInv
  <2>2. CASE reason = "allowed"
    <3>1. Move(c, "recorded") /\ UNCHANGED reply
      BY <1>6, <2>2
    <3>2. CallTypes'
      BY <1>1, <1>2, <1>6, <2>1, <3>1 DEF EdgeInv, CallTypes, Steps, InFlight, Move
    <3>3. \A d \in Calls \ {c} : Same(d)
      BY <1>1, <1>2, <1>6, <2>1, <3>1 DEF EdgeInv, CallTypes, Same, Move
    <3>4. /\ step'[c] = "recorded" /\ wire'[c] = "nothing" /\ rows'[c] = <<"call_allowed">>
      BY <1>1, <1>5, <2>1, <2>2, <3>1 DEF EdgeInv, CallTypes, CallInv, OnRecord, Move
    <3>5. Authentic(c)'
      BY <1>1, <3>4 DEF EdgeInv, CallInv, Authentic, Busy
    <3>6. Authorized(c)'
      BY <1>1, <1>2, <1>4, <2>2 DEF Authorized
    <3>7. OnRecord(c)'
      BY <3>4 DEF OnRecord, Busy
    <3> QED
      BY <1>1, <3>2, <3>3, <3>5, <3>6, <3>7, OneCall DEF CallInv
  <2>3. CASE reason # "allowed"
    <3>1. Reply(c, "denied")
      BY <1>6, <2>3
    <3>2. CallTypes'
      BY <1>1, <1>2, <1>6, <2>1, <3>1 DEF EdgeInv, CallTypes, Steps, Replies, Reply, Move
    <3>3. \A d \in Calls \ {c} : Same(d)
      BY <1>1, <1>2, <1>6, <2>1, <3>1 DEF EdgeInv, CallTypes, Same, Reply, Move
    <3>4. step'[c] = "done" /\ reply'[c] = "denied"
      BY <3>1 DEF EdgeInv, CallTypes, Reply, Move
    <3>5. rows'[c] \in RowsOf(c, reply[c])'
      BY <1>1, <1>2, <1>4, <2>1, <2>3, <3>4 DEF RowsOf
    <3> QED
      BY <1>1, <3>2, <3>3, <3>4, <3>5, RefusedCall, OneCall
  <2> QED
    BY <2>2, <2>3
<1>7. CASE logFails' = [logFails EXCEPT ![c] = ~gone[c]] /\ Reply(c, "unavailable") /\ UNCHANGED rows
  BY <1>1, <1>2, <1>7, UnrecordedCall
<1> QED
  BY <1>3, <1>6, <1>7 DEF Record

\* The call goes out, or fails before it does.
LEMMA CallToolStep ==
    ASSUME EdgeInv, NEW c \in Calls, CallTool(c)
    PROVE  EdgeInv'
<1>1. /\ step[c] = "recorded"
      /\ UNCHANGED <<plane, node, token, late, body, rows, gone, logFails, reply>>
      /\ UNCHANGED <<status, machine, caps, manifest>>
  BY DEF CallTool, plane, vars, grantVars
<1>2. CallTypes'
  BY DEF CallTool, EdgeInv, CallTypes, Steps, InFlight, Move
<1>3. \A d \in Calls \ {c} : Same(d)
  BY DEF CallTool, EdgeInv, CallTypes, Same, Move
<1>4. step'[c] \in {"calling", "failed"} /\ wire'[c] \in {"nothing", "tool"}
  BY <1>1 DEF CallTool, EdgeInv, CallTypes, CallInv, OnRecord, Move, Busy
<1>5. Authentic(c)'
  BY <1>1, <1>4 DEF EdgeInv, CallInv, Authentic, Busy
<1>6. Authorized(c)'
  BY <1>1 DEF EdgeInv, CallInv, Authorized, Busy
<1>7. OnRecord(c)'
  BY <1>1, <1>4 DEF EdgeInv, CallInv, OnRecord, Busy
<1> QED
  BY <1>1, <1>2, <1>3, <1>5, <1>6, <1>7, OneCall DEF CallInv

\* The wait for the gateway ends.
LEMMA ToolReturnsStep ==
    ASSUME EdgeInv, NEW c \in Calls, ToolReturns(c)
    PROVE  EdgeInv'
<1>1. /\ step[c] = "calling"
      /\ UNCHANGED <<plane, node, token, late, body, rows, wire, gone, logFails, reply>>
      /\ UNCHANGED <<status, machine, caps, manifest>>
  BY DEF ToolReturns, plane, vars, grantVars
<1>2. CallTypes'
  BY DEF ToolReturns, EdgeInv, CallTypes, Steps, InFlight, Move
<1>3. \A d \in Calls \ {c} : Same(d)
  BY DEF ToolReturns, EdgeInv, CallTypes, Same, Move
<1>4. step'[c] \in {"answered", "failed"}
  BY DEF ToolReturns, EdgeInv, CallTypes, Move
<1>5. Authentic(c)'
  BY <1>1, <1>4 DEF EdgeInv, CallInv, Authentic, Busy
<1>6. Authorized(c)'
  BY <1>1 DEF EdgeInv, CallInv, Authorized, Busy
<1>7. OnRecord(c)'
  BY <1>1, <1>4 DEF EdgeInv, CallInv, OnRecord, Busy
<1> QED
  BY <1>1, <1>2, <1>3, <1>5, <1>6, <1>7, OneCall DEF CallInv

\* The result row, or the log's refusal of it.
LEMMA RecordResultStep ==
    ASSUME EdgeInv, NEW c \in Calls, RecordResult(c)
    PROVE  EdgeInv'
<1> DEFINE row  == IF step[c] = "answered" THEN "result_ok" ELSE "tool_failed"
           said == IF step[c] = "answered" THEN "result" ELSE "failure"
<1>1. /\ step[c] \in {"answered", "failed"} /\ rows[c] = <<"call_allowed">>
      /\ UNCHANGED <<plane, node, token, late, body, wire, gone>>
      /\ UNCHANGED <<status, machine, caps, manifest>>
  BY DEF RecordResult, EdgeInv, CallInv, OnRecord, Busy, plane, vars, grantVars
<1>2. ASSUME step'[c] = "done" PROVE Authentic(c)' /\ Authorized(c)'
  BY <1>1, <1>2 DEF EdgeInv, CallInv, Authentic, Authorized, Busy
<1>3. CASE rows' = [rows EXCEPT ![c] = Append(@, row)] /\ Reply(c, said) /\ UNCHANGED logFails
  <2>1. /\ rows' \in [Calls -> Seq(RowKinds)] /\ rows'[c] = <<"call_allowed", row>>
        /\ \A d \in Calls \ {c} : rows'[d] = rows[d]
    BY <1>1, <1>3, RowAdded DEF EdgeInv, RowKinds
  <2>2. CallTypes'
    BY <1>1, <1>3, <2>1 DEF EdgeInv, CallTypes, Steps, Replies, Reply, Move
  <2>3. \A d \in Calls \ {c} : Same(d)
    BY <1>1, <1>3, <2>1 DEF EdgeInv, CallTypes, Same, Reply, Move
  <2>4. step'[c] = "done" /\ reply'[c] = said
    BY <1>3 DEF EdgeInv, CallTypes, Reply, Move
  <2>5. rows'[c] \in RowsOf(c, reply[c])'
    BY <2>1, <2>4 DEF RowsOf
  <2>6. OnRecord(c)'
    BY <2>1, <2>4, <2>5 DEF OnRecord, Busy
  <2> QED
    BY <1>1, <1>2, <2>2, <2>3, <2>4, <2>6, OneCall DEF CallInv
<1>4. CASE logFails' = [logFails EXCEPT ![c] = TRUE] /\ Reply(c, "unavailable") /\ UNCHANGED rows
  <2>1. CallTypes'
    BY <1>1, <1>4 DEF EdgeInv, CallTypes, Steps, Replies, Reply, Move
  <2>2. \A d \in Calls \ {c} : Same(d)
    BY <1>1, <1>4 DEF EdgeInv, CallTypes, Same, Reply, Move
  <2>3. step'[c] = "done" /\ reply'[c] = "unavailable" /\ logFails'[c]
    BY <1>4 DEF EdgeInv, CallTypes, Reply, Move
  <2>4. rows'[c] \in RowsOf(c, reply[c])'
    BY <1>1, <1>4, <2>3 DEF RowsOf
  <2>5. OnRecord(c)'
    BY <1>1, <1>4, <2>3, <2>4 DEF OnRecord, Busy
  <2> QED
    BY <1>1, <1>2, <2>1, <2>2, <2>3, <2>5, OneCall DEF CallInv
<1> QED
  BY <1>3, <1>4 DEF RecordResult

\* A client that hangs up changes nothing of what the edge has done.
LEMMA HangUpStep ==
    ASSUME EdgeInv, NEW c \in Calls, HangUp(c)
    PROVE  EdgeInv'
<1>1. /\ UNCHANGED <<plane, step, node, token, late, body, rows, wire, logFails, reply>>
      /\ UNCHANGED <<status, machine, caps, manifest>>
  BY DEF HangUp, plane, vars, grantVars
<1>2. CallTypes' /\ \A d \in Calls \ {c} : Same(d)
  BY DEF HangUp, EdgeInv, CallTypes, Same
<1>3. CallInv(c)'
  BY <1>1 DEF EdgeInv, CallInv, Authentic, Authorized, OnRecord, RowsOf
<1> QED
  BY <1>1, <1>2, <1>3, OneCall

\* The process dies with every call in flight.
LEMMA EdgeCrashStep ==
    ASSUME EdgeInv, EdgeCrash PROVE EdgeInv'
<1>1. /\ LoseRequests /\ UNCHANGED <<manifest, router>>
      /\ UNCHANGED <<node, token, late, body, rows, wire, gone, logFails, reply>>
      /\ UNCHANGED <<status, machine, caps>>
  BY DEF EdgeCrash, LoseRequests, grantVars
<1>2. Inv'
  BY <1>1, LoseRequestsStep DEF EdgeInv
<1>3. /\ step' \in [Calls -> Steps]
      /\ \A c \in Calls : step'[c] = IF step[c] \in InFlight THEN "lost" ELSE step[c]
  BY DEF EdgeCrash, EdgeInv, CallTypes, Steps
<1>4. CallTypes'
  BY <1>1, <1>3 DEF EdgeInv, CallTypes
<1>5. ASSUME NEW c \in Calls PROVE CallInv(c)'
  <2>1. CASE step[c] \in InFlight
    <3>1. step'[c] = "lost" /\ CallInv(c) /\ step[c] # "idle"
      BY <1>3, <2>1 DEF EdgeInv, InFlight
    <3> QED
      BY <1>1, <3>1 DEF CallInv, Authentic, Authorized, OnRecord, Busy
  <2>2. CASE step[c] \notin InFlight
    <3>1. step'[c] = step[c] /\ CallInv(c)
      BY <1>3, <2>2 DEF EdgeInv
    <3> QED
      BY <1>1, <3>1 DEF CallInv, Authentic, Authorized, OnRecord, RowsOf
  <2> QED
    BY <2>1, <2>2
<1> QED
  BY <1>1, <1>2, <1>4, <1>5 DEF EdgeInv

\* The invariant is inductive.
LEMMA EdgeNextInv == EdgeInv /\ [EdgeNext]_edgeVars => EdgeInv'
<1> SUFFICES ASSUME EdgeInv, [EdgeNext]_edgeVars PROVE EdgeInv'
  OBVIOUS
<1>1. CASE UNCHANGED edgeVars
  <2>1. UNCHANGED vars /\ UNCHANGED <<manifest, router>> /\ UNCHANGED callVars
    BY <1>1 DEF edgeVars, plane
  <2>2. Inv' /\ GrantsOnlyEnd
    BY <2>1, NextInv, NextOnlyEnds DEF EdgeInv
  <2>3. CallTypes' /\ \A c \in Calls : Same(c)
    BY <2>1 DEF EdgeInv, CallTypes, Same, callVars
  <2>4. \A c \in Calls : CallInv(c)'
    BY <2>1, <2>2, <2>3, SameCall DEF EdgeInv
  <2> QED
    BY <2>1, <2>2, <2>3, <2>4 DEF EdgeInv
<1>2. CASE ControlStep
  BY <1>2, ControlStepInv
<1>3. ASSUME NEW c \in Calls, Serve(c) PROVE EdgeInv'
  BY <1>3, AuthenticateCallStep, MalformedStep, ForwardStep, DecideStep, CallToolStep,
     ToolReturnsStep, RecordResultStep DEF Serve
<1>4. CASE EdgeCrash
  BY <1>4, EdgeCrashStep
<1> QED
  BY <1>1, <1>2, <1>3, <1>4, ArriveStep, HangUpStep DEF EdgeNext

\* The edge always keeps its inductive invariant, the control plane's included.
THEOREM EdgeInvariance == EdgeSpec => []EdgeInv
BY EdgeInitInv, EdgeNextInv, PTL DEF EdgeSpec

\* "a revoked grant stops working on the next call": nothing of a call that
\* arrived after its grant's revocation committed reaches the gateway, whatever
\* the handlers, the operator and other calls do meanwhile.
THEOREM RevocationAlwaysBites == EdgeSpec => []RevocationBites
<1>1. EdgeInv => RevocationBites
  BY DEF EdgeInv, CallInv, Authentic, RevocationBites
<1> QED
  BY <1>1, EdgeInvariance, PTL

\* Under every manifest that validates, whatever reaches the gateway came from
\* the grant's own machine, and a tool call takes nothing that the policy of the
\* grant's harness withholds, under any reading of the tool's name.
THEOREM AuthorityAlwaysProven == EdgeSpec => []AuthorityIsProven
<1>1. EdgeInv => AuthorityIsProven
  <2> SUFFICES ASSUME EdgeInv, NEW c \in Calls
               PROVE  /\ wire[c] # "nothing" => machine[token[c]] = node[c]
                      /\ wire[c] = "tool" =>
                            LET powers == Powers(manifest, body[c].tool, body[c].args)
                            IN  /\ powers # {} /\ {} \notin powers
                                /\ UNION powers \subseteq Allowed[harness[token[c]]]
    BY DEF AuthorityIsProven
  <2>1. wire[c] # "nothing" => /\ token[c] \in GrantIds /\ status[token[c]] # "none"
                               /\ machine[token[c]] = node[c]
    BY DEF EdgeInv, CallInv, Authentic
  <2>2. wire[c] = "tool" => caps[token[c]] \subseteq Allowed[harness[token[c]]]
    BY <2>1 DEF EdgeInv, Inv, GrantShape
  <2> QED
    BY <2>1, <2>2 DEF EdgeInv, CallInv, Authorized
<1> QED
  BY <1>1, EdgeInvariance, PTL

\* A tool call is on the record before it runs, the client is told nothing the
\* log does not say, and a call that came back has its result row unless the log
\* itself refused it, whenever the client hangs up.
THEOREM CallsAlwaysOnRecord == EdgeSpec => []CallsAreOnRecord
<1>1. EdgeInv => CallsAreOnRecord
  BY DEF EdgeInv, CallInv, OnRecord, CallsAreOnRecord
<1> QED
  BY <1>1, EdgeInvariance, PTL

\* A crash of the edge is a crash of the control plane, or loses calls only.
LEMMA CrashIsCrash ==
    ASSUME EdgeInv, EdgeCrash PROVE [Next]_vars
<1>1. LoseRequests
  BY DEF EdgeCrash
<1>2. CASE Pending # {}
  BY <1>1, <1>2 DEF Next, Crash
<1>3. CASE Pending = {}
  <2>1. phase \in [Requests -> {"idle", "authenticated", "owned", "done"}]
    BY DEF EdgeInv, Inv, TypeOK
  <2>2. phase' = [r \in Requests |-> phase[r]]
    BY <1>1, <1>3 DEF LoseRequests
  <2>3. phase' = phase
    BY <2>1, <2>2
  <2> QED
    BY <1>1, <2>3 DEF LoseRequests, vars, reqVars
<1> QED
  BY <1>2, <1>3

\* The edge implements the control plane it is composed with: sharing the store
\* with it, it adds no step to what enrolment, issuance and revocation may do, so
\* that every theorem about the control plane holds of the composition.
THEOREM EdgeKeepsControlPlane == EdgeSpec => Spec
<1>1. EdgeInit => Init
  BY DEF EdgeInit
<1>2. EdgeInv /\ [EdgeNext]_edgeVars => [Next]_vars
  <2> SUFFICES ASSUME EdgeInv, [EdgeNext]_edgeVars PROVE [Next]_vars
    OBVIOUS
  <2>1. ASSUME UNCHANGED plane PROVE [Next]_vars
    BY <2>1 DEF plane
  <2>2. CASE UNCHANGED edgeVars
    BY <2>1, <2>2 DEF edgeVars
  <2>3. CASE ControlStep
    BY <2>3 DEF ControlStep, Next
  <2>4. ASSUME NEW c \in Calls, NEW n \in Nodes, NEW g \in GrantIds, Arrive(c, n, g)
        PROVE  [Next]_vars
    BY <2>1, <2>4 DEF Arrive
  <2>5. ASSUME NEW c \in Calls, Serve(c) PROVE UNCHANGED plane
    BY <2>5 DEF Serve, Authenticate, Malformed, Forward, Decide, CallTool, ToolReturns, RecordResult
  <2>6. ASSUME NEW c \in Calls, HangUp(c) PROVE [Next]_vars
    BY <2>1, <2>6 DEF HangUp
  <2>7. CASE EdgeCrash
    BY <2>7, CrashIsCrash
  <2> QED
    BY <2>1, <2>2, <2>3, <2>4, <2>5, <2>6, <2>7 DEF EdgeNext
<1> QED
  BY <1>1, <1>2, EdgeInvariance, PTL DEF EdgeSpec, Spec

=============================================================================
