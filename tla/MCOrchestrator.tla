--------------------------- MODULE MCOrchestrator ---------------------------
(* Small instances of Orchestrator. *)
EXTENDS Orchestrator, TLC

CONSTANTS a1, a2, i1, i2, r1, r2, w1, w2, c1, stop, p1, p2, p3

Symmetry == Permutations(Procs) \cup Permutations(Reconciles)
=============================================================================
