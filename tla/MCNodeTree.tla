----------------------------- MODULE MCNodeTree -----------------------------
(* Node trees of at most three nodes below the root.                       *)
EXTENDS NodeTree, TLC
CONSTANTS n1, n2, n3, a, b
MCNodes == {n1, n2, n3}
MCRoots == {a, b}
MCWanted == {Plain(a), Plain(b)}
MCSymmetry == Permutations(MCNodes)
=============================================================================
