------------------------------ MODULE MCCredFlow ------------------------------
(***************************************************************************)
(* Small instances of the broker: which machine starts which flow for       *)
(* which provider.                                                          *)
(***************************************************************************)
EXTENDS CredFlow

CONSTANTS f1, f2, m1, gmail

\* Every flow of one machine, for one provider: flows race for one credential
\* and one budget.
MCOneMachine == [f \in Flows |-> m1]
MCOneProvider == [f \in Flows |-> gmail]

=============================================================================
