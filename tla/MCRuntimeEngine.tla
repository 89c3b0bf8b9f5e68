-------------------------- MODULE MCRuntimeEngine ---------------------------
(* Small instances of RuntimeEngine. *)
EXTENDS RuntimeEngine, TLC

CONSTANTS x, y, z
=============================================================================
