-------------------------- MODULE MCRequestBroker ---------------------------
(* Small instances of RequestBroker. *)
EXTENDS RequestBroker, TLC

CONSTANTS a1, a2, a3, i1, i2, k1, k2, e1, e2

Symmetry == Permutations(Corrs) \cup Permutations(Agents) \cup Permutations(InstanceKeys)
              \cup Permutations(Events)
=============================================================================
