---------------------------- MODULE MCControlPlane ----------------------------
(***************************************************************************)
(* Two machines, one harness with a policy and one without.                 *)
(***************************************************************************)
EXTENDS ControlPlane

CONSTANTS n1, n2, g1, g2, g3, r1, r2, r3, codex, unknown, read, send

\* The policy of the one known harness: it may read and never send.
MCAllowed == [h \in {codex} |-> {read}]
MCDefault == [h \in {codex} |-> {read}]

=============================================================================
