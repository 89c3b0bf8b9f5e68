--------------------------- MODULE MCAgentProcess ---------------------------
(* Small instances of AgentProcess. *)
EXTENDS AgentProcess, TLC

CONSTANTS e1, e2, e3, k1, k2, k3, x1

Symmetry == Permutations(Corrs)
=============================================================================
