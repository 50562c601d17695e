----------------------------- MODULE MCAgentState -----------------------------
(***************************************************************************)
(* Every configure run asks for every harness, so the runs race for it.     *)
(***************************************************************************)
EXTENDS AgentState

CONSTANTS e1, e2, k1, k2, m1, codex

MCAll == [k \in Configures |-> Harnesses]

=============================================================================
