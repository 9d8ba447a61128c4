---------------------------- MODULE SanitizeName ----------------------------
(***************************************************************************)
(* ossia::net::sanitize_name(name, brethren): the name a node gets when it *)
(* is created or renamed among its siblings.                               *)
(*                                                                         *)
(* A name "root" or "root.N" is a record: the root is opaque, N is an int. *)
(* Replacing invalid characters is the identity on such names.             *)
(***************************************************************************)
EXTENDS Integers, FiniteSetsExt

CONSTANTS
    Roots,    \* the root names
    IntMax    \* std::numeric_limits<int>::max()

ASSUME IntMaxAssumption == IntMax \in Nat \ {0}

IntMin == -IntMax - 1
Int32  == IntMin..IntMax

(* A plain name has no instance number; its field is then 0.               *)
Plain(r)       == [root |-> r, plain |-> TRUE, num |-> 0]
Instance(r, n) == [root |-> r, plain |-> FALSE, num |-> n]
Names == {Plain(r) : r \in Roots} \cup {Instance(r, n) : r \in Roots, n \in Int32}

(* instance_num: the instance numbers taken by the siblings of that root.  *)
(* A sibling named exactly like the root is shorter than "root." and is    *)
(* skipped.                                                                *)
instance_num(r, brethren) ==
    {b.num : b \in {c \in brethren : c.root = r /\ ~c.plain}}

(* Signed overflow, as the two's complement machines the library is built  *)
(* for execute it.                                                         *)
plus_one(n) == IF n = IntMax THEN IntMin ELSE n + 1

(* Mutant: the instance number is the number of instances.                 *)
new_instance_count(r, brethren) ==
    Instance(r, Cardinality(instance_num(r, brethren)))

(* The name given when the wanted one is taken.                            *)
new_instance(r, brethren) ==
    LET taken == instance_num(r, brethren)
    IN  IF taken \subseteq {0} THEN Instance(r, 1)
        ELSE Instance(r, plus_one(Max(taken)))

sanitize_name(name, brethren) ==
    IF name \in brethren THEN new_instance(name.root, brethren) ELSE name

(* sanitize_name computes IntMax + 1.                                      *)
overflows(want, brethren) ==
    /\ want \in brethren
    /\ IntMax \in instance_num(want.root, brethren)
=============================================================================
