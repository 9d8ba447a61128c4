----------------------------- MODULE MCSiblings -----------------------------
(* Two threads, four nodes, two root names, ints of three bits.            *)
EXTENDS Siblings, TLC
CONSTANTS n1, n2, n3, n4, t1, t2, a, b
MCIds == {n1, n2, n3, n4}
MCEditors == {t1, t2}
MCRoots == {a, b}
MCWanted == {Plain(a), Instance(a, 0), Instance(a, -2), Plain(b)}
MCSymmetry == Permutations(MCIds) \cup Permutations(MCEditors)
=============================================================================
