------------------------- MODULE SanitizeNameProofs -------------------------
(***************************************************************************)
(* TLAPS proofs: the names that sanitize_name gives are free.              *)
(***************************************************************************)
EXTENDS SanitizeName, WellFoundedInduction, TLAPS

(* A non-empty set of ints has a largest element.                          *)
LEMMA LargestInt ==
    ASSUME NEW S \in SUBSET Int32, S # {}
    PROVE  \E m \in S : \A n \in S : m >= n
<1> USE IntMaxAssumption DEF Int32, IntMin
<1> DEFINE T == {IntMax - n : n \in S}
<1>1. T \subseteq Nat /\ T # {}
  OBVIOUS
<1>2. PICK x \in T : \A y \in T : ~(<<y, x>> \in OpToRel(<, Nat))
  BY <1>1, NatLessThanWellFounded, WFMin, Zenon
<1>3. \A y \in T : ~(y < x)
  BY <1>1, <1>2, Zenon DEF OpToRel
<1>4. PICK m \in S : x = IntMax - m
  BY <1>2
<1>5. ASSUME NEW n \in S PROVE m >= n
  <2>1. ~(IntMax - n < IntMax - m)
    BY <1>3, <1>4
  <2> QED
    BY <2>1
<1> QED
  BY <1>4, <1>5

(* The name that replaces a taken one is taken by no sibling, provided the *)
(* largest int is not among their instance numbers.                        *)
LEMMA NewInstanceFresh ==
    ASSUME NEW B \in SUBSET Names, NEW r \in Roots,
           IntMax \notin instance_num(r, B)
    PROVE  new_instance(r, B) \in Names \ B
<1> USE IntMaxAssumption
<1> DEFINE taken == instance_num(r, B)
<1>1. \A b \in B : ~b.plain => b.num \in Int32
  BY DEF Names, Plain, Instance
<1>2. taken \subseteq Int32
  BY <1>1 DEF instance_num
<1>3. \A n : Instance(r, n) \in B => n \in taken
  BY DEF instance_num, Instance
<1>4. CASE taken \subseteq {0}
  <2>1. new_instance(r, B) = Instance(r, 1)
    BY <1>4 DEF new_instance
  <2>2. 1 \in Int32 /\ 1 \notin taken
    BY <1>4 DEF Int32, IntMin
  <2> QED
    BY <2>1, <2>2, <1>3 DEF Names
<1>5. CASE ~(taken \subseteq {0})
  <2>1. \E m \in taken : \A n \in taken : m >= n
    BY <1>2, <1>5, LargestInt
  <2>2. Max(taken) \in taken /\ \A n \in taken : Max(taken) >= n
    BY <2>1 DEF Max
  <2>3. Max(taken) \in Int32 /\ Max(taken) # IntMax
    BY <1>2, <2>2
  <2>4. plus_one(Max(taken)) \in Int32 /\ plus_one(Max(taken)) \notin taken
    <3> HIDE DEF taken
    <3> DEFINE m == Max(taken)
    <3>1. m \in Int32 /\ m # IntMax /\ \A n \in taken : m >= n
      BY <2>2, <2>3
    <3> HIDE DEF m
    <3>2. plus_one(m) = m + 1
      BY <3>1 DEF plus_one
    <3>3. m + 1 \in Int32 /\ m + 1 \notin taken
      BY <3>1 DEF Int32, IntMin
    <3> QED
      BY <3>2, <3>3 DEF m
  <2>5. new_instance(r, B) = Instance(r, plus_one(Max(taken)))
    BY <1>5 DEF new_instance
  <2> QED
    BY <2>4, <2>5, <1>3 DEF Names
<1> QED
  BY <1>4, <1>5

(* sanitize_name returns a name that no sibling has.                       *)
THEOREM SanitizedIsFresh ==
    ASSUME NEW B \in SUBSET Names, NEW want \in Names, ~overflows(want, B)
    PROVE  sanitize_name(want, B) \in Names \ B
<1>1. want.root \in Roots
  BY DEF Names, Plain, Instance
<1>2. CASE want \in B
  BY <1>1, <1>2, NewInstanceFresh DEF sanitize_name, overflows
<1>3. CASE want \notin B
  BY <1>3 DEF sanitize_name
<1> QED
  BY <1>2, <1>3

(* sanitize_name returns a name, even when the instance number overflows.  *)
LEMMA SanitizedIsName ==
    ASSUME NEW B \in SUBSET Names, NEW want \in Names
    PROVE  sanitize_name(want, B) \in Names
<1> USE IntMaxAssumption
<1>1. want.root \in Roots
  BY DEF Names, Plain, Instance
<1>2. CASE ~overflows(want, B)
  BY <1>2, SanitizedIsFresh
<1>3. CASE overflows(want, B)
  <2> DEFINE taken == instance_num(want.root, B)
  <2>1. IntMax \in taken /\ want \in B
    BY <1>3 DEF overflows
  <2>2. \A b \in B : ~b.plain => b.num \in Int32
    BY DEF Names, Plain, Instance
  <2>3. taken \subseteq Int32
    BY <2>2 DEF instance_num
  <2>4. \E m \in taken : \A n \in taken : m >= n
    BY <2>1, <2>3, LargestInt
  <2>5. Max(taken) \in Int32
    BY <2>3, <2>4 DEF Max
  <2>6. plus_one(Max(taken)) \in Int32
    <3> DEFINE m == Max(taken)
    <3>1. m \in Int32
      BY <2>5
    <3> HIDE DEF m
    <3>2. plus_one(m) \in Int32
      BY <3>1 DEF plus_one, Int32, IntMin
    <3> QED
      BY <3>2 DEF m
  <2>7. ~(taken \subseteq {0})
    BY <2>1
  <2>8. sanitize_name(want, B) = Instance(want.root, plus_one(Max(taken)))
    BY <2>1, <2>7 DEF sanitize_name, new_instance
  <2> QED
    BY <1>1, <2>6, <2>8 DEF Names
<1> QED
  BY <1>2, <1>3
=============================================================================
