-------------------------- MODULE MCRuntimeControl --------------------------
(* Small instances of RuntimeControl: process ids are 1.., commands 11.. *)
EXTENDS RuntimeControl

CONSTANTS s, t, k, l, none
KeyOfEach == [x \in Swarms |-> IF x = s THEN k ELSE l]
=============================================================================
