------------------------------ MODULE MCVaultSync ------------------------------
(***************************************************************************)
(* One operator activates, another one applies, a third one retrieves.       *)
(***************************************************************************)
EXTENDS VaultSync

CONSTANTS a1, p1

=============================================================================
