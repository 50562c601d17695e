--------------------------- MODULE MCHarnessFile ---------------------------
(***************************************************************************)
(* A small instance of one harness's configuration file: a Codex file, two   *)
(* contents beside Homeplane's entries, two names for the engine.            *)
(***************************************************************************)
EXTENDS HarnessFile

CONSTANTS none, mine, conn, e1, e2
=============================================================================
