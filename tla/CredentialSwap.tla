----------------------------- MODULE CredentialSwap ----------------------------
(***************************************************************************)
(* What the credential store promises its clients (PutSecretCAS, R13's      *)
(* atomic swap): a client reads a credential's version, takes as long as it *)
(* likes, and replaces the credential only if nobody else did meanwhile.    *)
(* Clients come and go in any order; an operator may replace a credential   *)
(* at any time without looking.                                             *)
(***************************************************************************)
EXTENDS Naturals

CONSTANTS
    Clients,  \* whoever replaces credentials
    Refs,     \* the credentials
    RefOf     \* [Clients -> Refs]: the credential a client works on

VARIABLES
    version,  \* per credential ref: how often it was written
    phase,    \* per client: "idle", "open" or "stored"
    basis     \* the version an open or stored client started from

swapVars == <<version, phase, basis>>

SwapInit ==
    /\ version = [r \in Refs |-> 0]
    /\ phase = [c \in Clients |-> "idle"]
    /\ basis = [c \in Clients |-> 0]

Begin(c) ==
    /\ phase[c] = "idle"
    /\ phase' = [phase EXCEPT ![c] = "open"]
    /\ basis' = [basis EXCEPT ![c] = version[RefOf[c]]]
    /\ UNCHANGED version

Swap(c) ==
    /\ phase[c] = "open"
    /\ version[RefOf[c]] = basis[c]
    /\ version' = [version EXCEPT ![RefOf[c]] = @ + 1]
    /\ phase' = [phase EXCEPT ![c] = "stored"]
    /\ UNCHANGED basis

\* Any number of clients give up together (a crash ends them all at once).
GiveUp(S) ==
    /\ \A c \in S : phase[c] = "open"
    /\ phase' = [c \in Clients |-> IF c \in S THEN "idle" ELSE phase[c]]
    /\ UNCHANGED <<version, basis>>

Overwrite(r) ==
    /\ version' = [version EXCEPT ![r] = @ + 1]
    /\ UNCHANGED <<phase, basis>>

SwapNext ==
    \/ \E c \in Clients : Begin(c) \/ Swap(c)
    \/ \E S \in SUBSET Clients : GiveUp(S)
    \/ \E r \in Refs : Overwrite(r)

SwapSpec == SwapInit /\ [][SwapNext]_swapVars

=============================================================================
