------------------------------- MODULE Manifest -------------------------------
(***************************************************************************)
(* The connector manifest (internal/server/connectors/manifest.go), the      *)
(* router that maps the name a caller uses onto a declared tool              *)
(* (internal/server/edge/router.go) and the decision the engine takes from   *)
(* both (engine.go).  All of it is a function of a loaded manifest and one   *)
(* call, so the module has no variables: ConnectorEdge keeps the state.      *)
(*                                                                         *)
(* A manifest is the sequence of its connectors, a connector a record of its *)
(* provider, tools, excluded tools and inventory, each in the file's order.  *)
(* A tool name is the sequence of the pieces the separator cuts it into.     *)
(* Arguments give each pointer the manifest reads the value it finds.        *)
(***************************************************************************)
EXTENDS Naturals, Sequences, SequencesExt

CONSTANTS classCapability   \* the capability each action class requires

knownCapabilities == {classCapability[a] : a \in DOMAIN classCapability}

-----------------------------------------------------------------------------
(***************************************************************************)
(* Reading an argument.                                                     *)
(***************************************************************************)

\* What a pointer can find and Extract will not use: nothing, an object, an
\* array or null, the empty string, and a value too long to be an identity.
Unusable == {"absent", "object", "empty", "oversized"}

\* Extract for a pointer without steps: a scalar, or nothing at all.
Extract(args, pointer) == {args[pointer]} \ Unusable

Polymorphic(t) == t.selector.pointer # "none"

\* The class of one call of the tool: none when the discriminator cannot be
\* read or is no declared case.
ResolveActionClass(t, args) ==
    IF Polymorphic(t)
    THEN {t.selector.cases[v] : v \in Extract(args, t.selector.pointer) \cap DOMAIN t.selector.cases}
    ELSE {t.class} \cap DOMAIN classCapability

\* Mutant: a guard needs a value to object to.
AppliesToValue(g, args) == \E v \in Extract(args, g.pointer) : v \notin g.unlessIn

\* A guard fires on doubt: only a listed value disarms it.
Applies(g, args) == ~ \E v \in Extract(args, g.pointer) : v \in g.unlessIn

-----------------------------------------------------------------------------
(***************************************************************************)
(* Validation.                                                              *)
(***************************************************************************)

\* A guard lists a safe value, and none that is empty or too long to be read.
guardValidate(g) ==
    /\ g.capability \in knownCapabilities
    /\ g.unlessIn # {}
    /\ g.unlessIn \cap Unusable = {}

validateSelector(t) ==
    /\ t.class = "none"
    /\ t.capability = "none"
    /\ DOMAIN t.selector.cases # {}
    /\ \A v \in DOMAIN t.selector.cases :
            v \notin Unusable /\ t.selector.cases[v] \in DOMAIN classCapability

\* A restated capability may not differ from the class's.
toolValidate(t) ==
    /\ \A g \in ToSet(t.guards) : guardValidate(g)
    /\ IF Polymorphic(t)
       THEN validateSelector(t)
       ELSE /\ t.class \in DOMAIN classCapability
            /\ t.capability \in {"none", classCapability[t.class]}

\* The names a connector classifies, in the order they are met.
Classified(k) == [i \in DOMAIN k.tools |-> k.tools[i].tool] \o k.excluded

Once(s) == \A i, j \in DOMAIN s : s[i] = s[j] => i = j

\* Nothing is declared twice, and a known inventory is classified completely,
\* with no name left over.
connectorValidate(k) ==
    /\ Classified(k) # <<>>
    /\ \A t \in ToSet(k.tools) : toolValidate(t)
    /\ Once(Classified(k))
    /\ k.inventory # <<>> => Once(k.inventory) /\ ToSet(k.inventory) = ToSet(Classified(k))

Validate(m) ==
    /\ m # <<>>
    /\ \A k \in ToSet(m) : connectorValidate(k)
    /\ Once([i \in DOMAIN m |-> m[i].provider])

-----------------------------------------------------------------------------
(***************************************************************************)
(* Routing.                                                                 *)
(***************************************************************************)

reservedProviderNames == {"unrouted", "ambiguous"}

\* newToolRouter refuses only a connector that takes a marker's name.
Routable(m) == \A k \in ToSet(m) : k.provider \notin reservedProviderNames

\* Mutant: a name found ambiguous may be claimed again.
AddClaimAgain(r, claim) ==
    LET rivals == {u \in r.unqualified : u.name = claim.name /\ u.provider # claim.provider}
    IN  IF rivals # {}
        THEN [unqualified |-> r.unqualified \ rivals, ambiguous |-> r.ambiguous \cup {claim.name}]
        ELSE [r EXCEPT !.unqualified = @ \cup {claim}]

\* One round of the loop: a rival's claim evicts the owner for good.
AddClaim(r, claim) ==
    LET rivals == {u \in r.unqualified : u.name = claim.name /\ u.provider # claim.provider}
    IN  IF rivals # {}
        THEN [unqualified |-> r.unqualified \ rivals, ambiguous |-> r.ambiguous \cup {claim.name}]
        ELSE IF claim.name \in r.ambiguous
        THEN r
        ELSE [r EXCEPT !.unqualified = @ \cup {claim}]

\* The names a connector claims, an inventoried tool once more than the rest.
Names(k) == Classified(k) \o k.inventory

\* The inner loop: one claim after the other.
AddClaims(r, k) ==
    LET after[i \in 0..Len(Names(k))] ==
            IF i = 0 THEN r
            ELSE AddClaim(after[i - 1], [name |-> Names(k)[i], provider |-> k.provider])
    IN  after[Len(Names(k))]

\* The outer loop: one connector after the other.
newToolRouter(m) ==
    LET after[i \in 0..Len(m)] ==
            IF i = 0 THEN [unqualified |-> {}, ambiguous |-> {}]
            ELSE AddClaims(after[i - 1], m[i])
    IN  after[Len(m)]

\* The name is qualified: its first piece is a declared provider.
Qualified(m, name) ==
    /\ Len(name) > 1 /\ Tail(name) # <<"">>
    /\ \E k \in ToSet(m) : k.provider = Head(name)

\* A name that routes nowhere keeps itself under a marker no connector can have.
route(m, r, name) ==
    IF Qualified(m, name)
    THEN [provider |-> Head(name), tool |-> Tail(name)]
    ELSE [provider |-> IF \E u \in r.unqualified : u.name = name
                       THEN (CHOOSE u \in r.unqualified : u.name = name).provider
                       ELSE IF name \in r.ambiguous THEN "ambiguous" ELSE "unrouted",
          tool |-> name]

-----------------------------------------------------------------------------
(***************************************************************************)
(* The decision.                                                            *)
(***************************************************************************)

\* Register's index: a later entry replaces an earlier one of the same name.
Registered(m, provider) == SelectLastInSeq(m, LAMBDA k : k.provider = provider)
MappingOf(k, tool) == SelectLastInSeq(k.tools, LAMBDA t : t.tool = tool)

\* The edge's callers are fully attributed machines, so the reason of a refusal
\* comes from the manifest or from the capabilities held.
Authorize(m, at, args, held) ==
    LET i     == Registered(m, at.provider)
        j     == MappingOf(m[i], at.tool)
        t     == m[i].tools[j]
        class == ResolveActionClass(t, args)
        lacks == \/ \E a \in class : classCapability[a] \notin held
                 \/ \E g \in ToSet(t.guards) : Applies(g, args) /\ g.capability \notin held
    IN  CASE i = 0                                                  -> "unknown_provider"
          [] i # 0 /\ j = 0 /\ at.tool \in ToSet(m[i].excluded)     -> "excluded_tool"
          [] i # 0 /\ j = 0 /\ at.tool \notin ToSet(m[i].excluded)  -> "unmapped_tool"
          [] i # 0 /\ j # 0 /\ class = {}                           -> "unresolved_action"
          [] i # 0 /\ j # 0 /\ class # {} /\ lacks                  -> "capability_missing"
          [] OTHER                                                  -> "allowed"

\* The event CallEvent records for a decision.
CallEvent(reason) ==
    CASE reason = "allowed"            -> "call_allowed"
      [] reason = "capability_missing" -> "call_denied"
      [] OTHER                         -> "policy_violation"

-----------------------------------------------------------------------------
(***************************************************************************)
(* The reference the properties are stated against, read off the manifest    *)
(* without router or index: what an operator who wrote it has allowed.       *)
(***************************************************************************)

\* Every declared tool the gateway may run under the name.
Meant(m, name) ==
    IF Qualified(m, name)
    THEN {[connector |-> k, tool |-> Tail(name)] :
            k \in {k \in ToSet(m) : k.provider = Head(name)}}
    ELSE {[connector |-> k, tool |-> name] :
            k \in {k \in ToSet(m) : name \in ToSet(Classified(k)) \cup ToSet(k.inventory)}}

\* What one mapping declares a call to take: its class's capability and that of
\* every guard no safe value disarms, or nothing when the call has no class.
Power(t, args) ==
    LET classes == IF Polymorphic(t)
                   THEN {t.selector.cases[v] :
                            v \in {args[t.selector.pointer]} \cap DOMAIN t.selector.cases}
                   ELSE {t.class}
    IN  IF classes = {} THEN {}
        ELSE {classCapability[a] : a \in classes} \cup
             {g.capability : g \in {g \in ToSet(t.guards) : args[g.pointer] \notin g.unlessIn}}

\* The powers of everything the name may mean; the empty one is an undeclared
\* or an excluded tool, or a call nobody has classified.
Powers(m, name, args) ==
    UNION {LET mapped == {t \in ToSet(w.connector.tools) : t.tool = w.tool}
           IN  {Power(t, args) : t \in mapped} \cup
               (IF mapped = {} \/ w.tool \in ToSet(w.connector.excluded) THEN {{}} ELSE {}) :
           w \in Meant(m, name)}

\* The name means one declared tool and the call of it has a class: whether it
\* is admitted is then up to the grant alone.
Declared(m, name, args) ==
    /\ \E w \in Meant(m, name) : Meant(m, name) = {w}
    /\ {} \notin Powers(m, name, args)

=============================================================================
