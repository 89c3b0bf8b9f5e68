------------------------------- MODULE Semver -------------------------------
(***************************************************************************)
(* The order of package versions that both registries share: compareSemver *)
(* of registry/src/semver.ts and of cloudflare/src/router.ts.  A version   *)
(* is [core |-> <<major, minor, patch>>, pre |-> its prerelease            *)
(* identifiers]; build metadata is not compared and so is left out.  An    *)
(* identifier below Alpha is a number, one from Alpha on a word, in the    *)
(* order of localeCompare.                                                 *)
(***************************************************************************)
EXTENDS Integers, Sequences

CONSTANT Alpha

ASSUME AlphaAssumption == Alpha \in Nat

Version == [core : [1..3 -> Nat], pre : Seq(Nat)]

\* The first place where they differ decides.
CoreLess(a, b) ==
  \E i \in 1..3 : a.core[i] < b.core[i] /\ \A j \in 1..(i - 1) : a.core[j] = b.core[j]

\* compareIdentifier: numbers by value, before words.
IdentifierLess(x, y) ==
  \/ x < Alpha /\ y < Alpha /\ x < y
  \/ x < Alpha /\ y >= Alpha
  \/ x >= Alpha /\ y >= Alpha /\ x < y

\* comparePrerelease: none at all is the greatest; of two, the first place where
\* they differ decides, and the end comes before anything.
PrereleaseLess(p, q) ==
  \/ p # <<>> /\ q = <<>>
  \/ /\ p # <<>> /\ q # <<>>
     /\ \E i \in 1..Len(q) :
          /\ i - 1 <= Len(p)
          /\ \A j \in 1..(i - 1) : p[j] = q[j]
          /\ i <= Len(p) => IdentifierLess(p[i], q[i])

SemverLess(a, b) ==
  \/ CoreLess(a, b)
  \/ a.core = b.core /\ PrereleaseLess(a.pre, b.pre)

\* resolveLatestVersion
Latest(versions) == CHOOSE v \in versions : \A w \in versions \ {v} : SemverLess(w, v)
=============================================================================
