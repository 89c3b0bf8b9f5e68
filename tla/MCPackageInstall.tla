-------------------------- MODULE MCPackageInstall --------------------------
(* Two packages that depend on each other; b has a greater version that is   *)
(* published without tags, a has two builds of one version, and the second   *)
(* comes with a tag for a version that is never published.                   *)
EXTENDS PackageInstall

CONSTANTS a, b, x, y

V(major, pre) == [core |-> [i \in 1..3 |-> IF i = 1 THEN major ELSE 0], pre |-> pre]
V1 == V(1, <<>>)
V2 == V(2, <<Alpha, 1>>)
MCVersions == {V1, V2}

Needs(n, op, v) == [m \in {n} |-> [op |-> op, ver |-> v]]
Publish(n, v, bytes, tags, deps) ==
  [name |-> n, ver |-> v, bytes |-> bytes, tags |-> tags, deps |-> deps]
MCPublishes ==
  {Publish(a, V1, x, [latest |-> V1], Needs(b, "caret", V1)),
   Publish(a, V1, y, [beta |-> V2], <<>>),
   Publish(b, V1, x, [latest |-> V1], Needs(a, "exact", V1)),
   Publish(b, V2, x, <<>>, <<>>)}
MCDeclared == Needs(a, "tilde", V1)
=============================================================================
