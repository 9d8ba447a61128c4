--------------------------- MODULE MCQueryServer ---------------------------
(* Three clients, and a few messages in each direction.                    *)
EXTENDS QueryServer, TLC
CONSTANTS c1, c2, c3
MCClients == {c1, c2, c3}
MCSymmetry == Permutations(MCClients)

=============================================================================
