------------------------------ MODULE MCEngine ------------------------------
(***************************************************************************)
(* A small instance of the retrieval engine: a first activation and a       *)
(* second one over it, and two rebuilds.                                    *)
(***************************************************************************)
EXTENDS Engine

CONSTANTS r1, r2

=============================================================================
