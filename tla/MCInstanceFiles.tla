-------------------------- MODULE MCInstanceFiles --------------------------
EXTENDS InstanceFiles, TLC
CONSTANTS m1, m2, m3, x1, x2, s1, s2
MCMessages == {m1, m2, m3}
MCExtensions == {x1, x2}
MCObjects == {s1, s2}
Alike == Permutations(MCMessages) \cup Permutations(MCExtensions) \cup Permutations(MCObjects)
=============================================================================
