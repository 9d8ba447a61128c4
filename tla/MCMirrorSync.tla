---------------------------- MODULE MCMirrorSync ----------------------------
(* Trees of depth two over the names a and a.1, and a few events and updates.        *)
EXTENDS MirrorSync
CONSTANT a
MCRoots == {a}
MCStart == {<<Plain(a)>>, <<Plain(a), Plain(a)>>}
MCWanted == {Plain(a), Instance(a, 1)}
=============================================================================
