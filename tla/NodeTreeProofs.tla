--------------------------- MODULE NodeTreeProofs ---------------------------
(***************************************************************************)
(* The addresses that nodes cache, and the table of listened parameters,   *)
(* for trees of any size and any names.                                    *)
(*                                                                         *)
(* An address is computed by a recursion up the tree.  What it computes is *)
(* proved from the invariant Tree, which says of each node only how its    *)
(* cached address follows from that of its parent: a node that were an     *)
(* exception, with a cached address as short as possible, would have a     *)
(* parent that is one too.                                                 *)
(***************************************************************************)
EXTENDS NodeTree, SanitizeNameProofs, SequenceTheorems, WellFoundedInduction, TLAPS

(* A non-empty set of naturals has a least element.                        *)
LEMMA Least ==
    ASSUME NEW T, T \subseteq Nat, T # {}
    PROVE  \E n \in T : \A m \in T : n <= m
<1> DEFINE R == OpToRel(<, Nat)
<1>1. IsWellFoundedOn(R, Nat)
  BY NatLessThanWellFounded
<1>2. \A x, y \in Nat : <<x, y>> \in R <=> x < y
  BY DEF OpToRel
<1> HIDE DEF R
<1>3. PICK n \in T : \A m \in T : ~(<<m, n>> \in R)
  BY <1>1, WFMin
<1>4. ASSUME NEW m \in T PROVE n <= m
  <2>1. m \in Nat /\ n \in Nat
    OBVIOUS
  <2>2. ~(m < n)
    BY <2>1, <1>2, <1>3
  <2> QED
    BY <2>1, <2>2
<1> QED
  BY <1>4

-----------------------------------------------------------------------------
(* Each node that is alive hangs below the root or a node that is alive,   *)
(* its address is that of its parent and its own name, and no sibling has  *)
(* its name.  No instance number is so large that the next one overflows.  *)
Tree ==
    /\ m_parent \in [Nodes -> Nodes \cup {Root, Unborn, Dead}]
    /\ m_name \in [Nodes -> {w \in Names : w.num <= MaxInstance}]
    /\ m_oscAddressCache \in [Nodes -> Seq(Names)]
    /\ \A n \in alive :
         /\ m_parent[n] \in alive \cup {Root}
         /\ m_oscAddressCache[n] = Append(address(m_parent[n]), m_name[n])
    /\ \A n, m \in alive :
         m_parent[n] = m_parent[m] /\ m_name[n] = m_name[m] => n = m

(* A node's address is one longer than its parent's.                       *)
LEMMA Depth ==
    ASSUME Tree, NEW n \in alive
    PROVE  /\ n \in Nodes /\ n # Root
           /\ m_name[n] \in Names
           /\ m_parent[n] \in alive \cup {Root}
           /\ address(m_parent[n]) \in Seq(Names)
           /\ m_oscAddressCache[n] \in Seq(Names)
           /\ m_oscAddressCache[n] = Append(address(m_parent[n]), m_name[n])
           /\ Len(address(m_parent[n])) \in Nat
           /\ Len(m_oscAddressCache[n]) = Len(address(m_parent[n])) + 1
           /\ m_parent[n] = Root => address(m_parent[n]) = <<>>
           /\ m_parent[n] # Root =>
                address(m_parent[n]) = m_oscAddressCache[m_parent[n]]
<1>1. n \in Nodes /\ n # Root /\ m_name[n] \in Names
  BY DistinctAssumption DEF Tree, alive
<1>2. /\ m_parent[n] \in alive \cup {Root}
      /\ m_oscAddressCache[n] = Append(address(m_parent[n]), m_name[n])
  BY DEF Tree
<1>3. address(m_parent[n]) \in Seq(Names) /\ m_oscAddressCache[n] \in Seq(Names)
  BY <1>1, <1>2 DEF address, Tree, alive
<1>4. /\ Len(address(m_parent[n])) \in Nat
      /\ Len(m_oscAddressCache[n]) = Len(address(m_parent[n])) + 1
  BY <1>1, <1>2, <1>3
<1> QED
  BY <1>1, <1>2, <1>3, <1>4 DEF address

(* What two sequences tell of their last elements.                         *)
LEMMA AppendEqual ==
    ASSUME NEW S, NEW s \in Seq(S), NEW t \in Seq(S), NEW x \in S, NEW y \in S,
           Append(s, x) = Append(t, y)
    PROVE  s = t /\ x = y
<1>1. Len(s) = Len(t)
  BY AppendProperties
<1>2. \A i \in 1..Len(s) : s[i] = t[i]
  <2> SUFFICES ASSUME NEW i \in 1..Len(s) PROVE s[i] = t[i]
    OBVIOUS
  <2>1. Append(s, x)[i] = s[i] /\ Append(t, y)[i] = t[i]
    BY <1>1, AppendProperties
  <2> QED
    BY <2>1
<1>3. s = t
  BY <1>1, <1>2, SeqEqual
<1>4. Append(s, x)[Len(s) + 1] = x /\ Append(t, y)[Len(t) + 1] = y
  BY AppendProperties
<1> QED
  BY <1>1, <1>3, <1>4

(* Induction over the tree: from the root down.                            *)
LEMMA TreeInduction ==
    ASSUME Tree, NEW Good,
           \A n \in alive : m_parent[n] = Root \/ m_parent[n] \in Good => n \in Good
    PROVE  alive \subseteq Good
<1> DEFINE T == {Len(m_oscAddressCache[k]) : k \in alive \ Good}
<1> SUFFICES ASSUME ~(alive \subseteq Good) PROVE FALSE
  OBVIOUS
<1>1. T \subseteq Nat
  BY Depth
<1>2. PICK d \in T : \A e \in T : d <= e
  BY <1>1, Least
<1>3. PICK k \in alive \ Good : Len(m_oscAddressCache[k]) = d
  BY <1>2
<1>4. m_parent[k] # Root /\ m_parent[k] \notin Good /\ m_parent[k] \in alive
  BY <1>3, Depth
<1>5. /\ Len(m_oscAddressCache[m_parent[k]]) \in Nat
      /\ d = Len(m_oscAddressCache[m_parent[k]]) + 1
  BY <1>3, <1>4, Depth
<1>6. Len(m_oscAddressCache[m_parent[k]]) \in T
  BY <1>4
<1> HIDE DEF T
<1> QED
  BY <1>2, <1>5, <1>6

(* No two nodes have the same address, and none has the root's.            *)
LEMMA AddressesDistinct ==
    ASSUME Tree, NEW n \in alive \cup {Root}, NEW m \in alive \cup {Root},
           address(n) = address(m)
    PROVE  n = m
<1> DEFINE Good == {k \in alive : \A l \in alive :
                      m_oscAddressCache[l] = m_oscAddressCache[k] => l = k}
<1>1. \A p \in alive : /\ p # Root /\ address(p) = m_oscAddressCache[p]
                       /\ Len(address(p)) # 0
  <2> SUFFICES ASSUME NEW p \in alive
               PROVE  /\ p # Root /\ address(p) = m_oscAddressCache[p]
                      /\ Len(address(p)) # 0
    OBVIOUS
  <2>1. /\ p # Root /\ Len(address(m_parent[p])) \in Nat
        /\ Len(m_oscAddressCache[p]) = Len(address(m_parent[p])) + 1
    BY Depth
  <2> QED
    BY <2>1 DEF address
<1>2. Len(address(Root)) = 0
  BY DEF address
<1>3. ASSUME NEW k \in alive, m_parent[k] = Root \/ m_parent[k] \in Good,
             NEW l \in alive, m_oscAddressCache[l] = m_oscAddressCache[k]
      PROVE  l = k
  <2>1. m_name[k] = m_name[l] /\ address(m_parent[k]) = address(m_parent[l])
    <3>1. Append(address(m_parent[k]), m_name[k])
            = Append(address(m_parent[l]), m_name[l])
      BY <1>3, Depth
    <3>2. /\ address(m_parent[k]) \in Seq(Names) /\ address(m_parent[l]) \in Seq(Names)
          /\ m_name[k] \in Names /\ m_name[l] \in Names
      BY Depth
    <3> QED
      BY <3>1, <3>2, AppendEqual
  <2>2. m_parent[l] \in alive \cup {Root}
    BY Depth
  <2>3. m_parent[k] = m_parent[l]
    <3>1. CASE m_parent[k] = Root
      BY <1>1, <1>2, <2>1, <2>2, <3>1
    <3>2. CASE m_parent[k] # Root
      <4>1. m_parent[k] \in Good /\ m_parent[k] \in alive
        BY <1>3, <3>2
      <4>2. m_parent[l] # Root
        BY <1>1, <1>2, <2>1, <4>1
      <4> QED
        BY <1>1, <2>1, <2>2, <4>1, <4>2
    <3> QED
      BY <3>1, <3>2
  <2> QED
    BY <2>1, <2>3 DEF Tree
<1>4. alive \subseteq Good
  <2>1. \A k \in alive : m_parent[k] = Root \/ m_parent[k] \in Good => k \in Good
    BY <1>3
  <2> HIDE DEF Good
  <2> QED
    BY <2>1, TreeInduction
<1>5. CASE n \in alive /\ m \in alive
  BY <1>1, <1>4, <1>5
<1>6. CASE n = Root \/ m = Root
  BY <1>1, <1>2, <1>6
<1> QED
  BY <1>5, <1>6

(***************************************************************************)
(* osc_parameter_string.  A solution of its recursion is what it computes. *)
(***************************************************************************)
Solves(path, name) ==
    path = [n \in alive |-> IF m_parent[n] = Root THEN <<name[n]>>
                            ELSE Append(path[m_parent[n]], name[n])]

(* The recursion of osc_parameter_string has one solution.                 *)
LEMMA PathIs ==
    ASSUME Tree, NEW name, NEW path, Solves(path, name)
    PROVE  osc_parameter_string(name) = path
<1> DEFINE g == osc_parameter_string(name)
           Good == {n \in alive : g[n] = path[n]}
<1>1. g = CHOOSE f : Solves(f, name)
  BY DEF osc_parameter_string, Solves
<1>2. Solves(g, name)
  BY <1>1
<1> HIDE DEF g
<1>3. ASSUME NEW n \in alive, m_parent[n] = Root \/ m_parent[n] \in Good
      PROVE  n \in Good
  BY <1>2, <1>3 DEF Solves
<1>4. alive \subseteq Good
  BY <1>3, TreeInduction
<1>5. g = path
  BY <1>2, <1>4 DEF Solves
<1> QED
  BY <1>5 DEF g

(* The cached addresses are the paths of names.                            *)
LEMMA CacheIsPath ==
    ASSUME Tree
    PROVE  osc_parameter_string(m_name) = [n \in alive |-> m_oscAddressCache[n]]
<1> DEFINE path == [n \in alive |-> m_oscAddressCache[n]]
<1>1. ASSUME NEW n \in alive
      PROVE  path[n] = IF m_parent[n] = Root THEN <<m_name[n]>>
                       ELSE Append(path[m_parent[n]], m_name[n])
  <2>1. CASE m_parent[n] = Root
    <3>1. path[n] = Append(<<>>, m_name[n])
      BY <2>1, Depth
    <3> QED
      BY <2>1, <3>1
  <2>2. CASE m_parent[n] # Root
    BY <2>2, Depth
  <2> QED
    BY <2>1, <2>2
<1>2. Solves(path, m_name)
  BY <1>1 DEF Solves
<1> HIDE DEF path
<1> QED
  BY <1>2, PathIs DEF path

(***************************************************************************)
(* subtree: the nodes whose address begins with that of the node.          *)
(***************************************************************************)
Above(k, m) ==
    /\ Len(m_oscAddressCache[k]) <= Len(m_oscAddressCache[m])
    /\ \A i \in 1..Len(m_oscAddressCache[k]) :
         m_oscAddressCache[k][i] = m_oscAddressCache[m][i]

Ups(up) ==
    up = [m \in alive |-> IF m_parent[m] = Root THEN {m} ELSE {m} \cup up[m_parent[m]]]

(* A node is above another one if it is that one, or above its parent.     *)
LEMMA AboveParent ==
    ASSUME Tree, NEW k \in alive, NEW m \in alive
    PROVE  /\ m_parent[m] = Root => (Above(k, m) <=> k = m)
           /\ m_parent[m] # Root => (Above(k, m) <=> k = m \/ Above(k, m_parent[m]))
<1> DEFINE s == m_oscAddressCache[k]
           t == m_oscAddressCache[m]
           p == address(m_parent[m])
<1>1. /\ s \in Seq(Names) /\ Len(s) \in Nat \ {0}
      /\ t \in Seq(Names) /\ p \in Seq(Names) /\ Len(p) \in Nat
      /\ t = Append(p, m_name[m]) /\ m_name[m] \in Names /\ Len(t) = Len(p) + 1
  BY Depth
<1>2. k = m => Above(k, m)
  BY <1>1 DEF Above
<1>3. s = t => k = m
  BY AddressesDistinct, Depth DEF address
<1>4. \A i \in 1..Len(p) : t[i] = p[i]
  BY <1>1
<1>5. Above(k, m) /\ k # m => Len(s) <= Len(p) /\ \A i \in 1..Len(s) : s[i] = p[i]
  <2> SUFFICES ASSUME Above(k, m), k # m
               PROVE  Len(s) <= Len(p) /\ \A i \in 1..Len(s) : s[i] = p[i]
    OBVIOUS
  <2>1. Len(s) <= Len(t) /\ \A i \in 1..Len(s) : s[i] = t[i]
    BY DEF Above
  <2>2. Len(s) # Len(t)
    BY <1>1, <1>3, <2>1, SeqEqual
  <2>3. Len(s) <= Len(p)
    BY <1>1, <2>1, <2>2
  <2> HIDE DEF s, t, p
  <2> QED
    BY <1>1, <1>4, <2>1, <2>3
<1>6. Len(s) <= Len(p) /\ (\A i \in 1..Len(s) : s[i] = p[i]) => Above(k, m)
  <2> SUFFICES ASSUME Len(s) <= Len(p), \A i \in 1..Len(s) : s[i] = p[i]
               PROVE  Len(s) <= Len(t) /\ \A i \in 1..Len(s) : s[i] = t[i]
    BY DEF Above
  <2> HIDE DEF s, t, p
  <2> QED
    BY <1>1, <1>4
<1>7. CASE m_parent[m] = Root
  <2>1. Len(p) = 0
    BY <1>7, Depth
  <2> QED
    BY <1>1, <1>2, <1>5, <1>7, <2>1
<1>8. CASE m_parent[m] # Root
  <2>1. p = m_oscAddressCache[m_parent[m]]
    BY <1>8, Depth
  <2>2. Above(k, m_parent[m]) <=> Len(s) <= Len(p) /\ \A i \in 1..Len(s) : s[i] = p[i]
    BY <2>1 DEF Above
  <2> QED
    BY <1>2, <1>5, <1>6, <1>8, <2>2
<1> QED
  BY <1>7, <1>8

(* The nodes of a subtree are those whose address begins with that of its  *)
(* root.                                                                   *)
LEMMA SubtreeIs ==
    ASSUME Tree, NEW n \in alive
    PROVE  subtree(n) = {m \in alive : Above(n, m)}
<1> DEFINE w == [m \in alive |-> {k \in alive : Above(k, m)}]
           g == CHOOSE up : Ups(up)
           Good == {m \in alive : g[m] = w[m]}
<1> HIDE DEF Above
<1>1. ASSUME NEW m \in alive
      PROVE  w[m] = IF m_parent[m] = Root THEN {m} ELSE {m} \cup w[m_parent[m]]
  <2>1. CASE m_parent[m] = Root
    BY <2>1, AboveParent
  <2>2. CASE m_parent[m] # Root
    <3>1. m_parent[m] \in alive
      BY <2>2, Depth
    <3> QED
      BY <2>2, <3>1, AboveParent
  <2> QED
    BY <2>1, <2>2
<1>2. Ups(w)
  BY <1>1 DEF Ups
<1>3. subtree(n) = {m \in alive : n \in g[m]}
  BY DEF subtree, Ups
<1> HIDE DEF w
<1>4. Ups(g)
  BY <1>2
<1> HIDE DEF g
<1>5. ASSUME NEW m \in alive, m_parent[m] = Root \/ m_parent[m] \in Good
      PROVE  m \in Good
  <2>1. /\ g[m] = IF m_parent[m] = Root THEN {m} ELSE {m} \cup g[m_parent[m]]
        /\ w[m] = IF m_parent[m] = Root THEN {m} ELSE {m} \cup w[m_parent[m]]
    BY <1>2, <1>4 DEF Ups
  <2> QED
    BY <1>5, <2>1
<1>6. alive \subseteq Good
  BY <1>5, TreeInduction
<1>7. \A m \in alive : n \in g[m] <=> Above(n, m)
  BY <1>6 DEF w
<1> QED
  BY <1>3, <1>7

(* A subtree: it has its node, all children of what it has, and but for    *)
(* its node the parents; the parent of its node is outside.                *)
LEMMA SubtreeShape ==
    ASSUME Tree, NEW n \in alive
    PROVE  /\ subtree(n) \subseteq alive
           /\ n \in subtree(n)
           /\ m_parent[n] \notin subtree(n)
           /\ \A m \in alive : m_parent[m] \in subtree(n) => m \in subtree(n)
           /\ \A m \in subtree(n) : m # n => m_parent[m] \in subtree(n)
           /\ \A m \in subtree(n) : Len(m_oscAddressCache[n]) <= Len(m_oscAddressCache[m])
<1>1. subtree(n) = {m \in alive : Above(n, m)}
  BY SubtreeIs
<1>2. \A m \in subtree(n) : Len(m_oscAddressCache[n]) <= Len(m_oscAddressCache[m])
  BY <1>1 DEF Above
<1>3. n \in subtree(n)
  BY <1>1 DEF Above
<1>4. m_parent[n] \notin subtree(n)
  <2> SUFFICES ASSUME m_parent[n] \in subtree(n) PROVE FALSE
    OBVIOUS
  <2>1. m_parent[n] \in alive /\ m_parent[n] # Root
    BY <1>1, Depth
  <2>2. /\ Len(m_oscAddressCache[m_parent[n]]) \in Nat
        /\ Len(m_oscAddressCache[n]) = Len(m_oscAddressCache[m_parent[n]]) + 1
    BY <2>1, Depth
  <2> QED
    BY <1>2, <2>2
<1>5. ASSUME NEW m \in alive, m_parent[m] \in subtree(n) PROVE m \in subtree(n)
  <2>1. m_parent[m] \in alive /\ m_parent[m] # Root
    BY <1>1, <1>5, Depth
  <2> QED
    BY <1>1, <1>5, <2>1, AboveParent
<1>6. ASSUME NEW m \in subtree(n), m # n PROVE m_parent[m] \in subtree(n)
  <2>1. m \in alive /\ Above(n, m)
    BY <1>1
  <2>2. m_parent[m] # Root /\ Above(n, m_parent[m])
    BY <1>6, <2>1, AboveParent
  <2> QED
    BY <1>1, <2>1, <2>2, Depth
<1> QED
  BY <1>1, <1>2, <1>3, <1>4, <1>5, <1>6

-----------------------------------------------------------------------------
(* The name a node gets: of a sibling's it is never.                       *)
LEMMA NewName ==
    ASSUME Tree, NEW want \in Wanted, NEW kids \in SUBSET Nodes
    PROVE  /\ child_names(kids) \in SUBSET Names
           /\ sanitize_name(want, child_names(kids)) \in Names \ child_names(kids)
<1>1. child_names(kids) \in SUBSET {w \in Names : w.num <= MaxInstance}
  BY DEF child_names, Tree
<1>2. IntMax \notin instance_num(want.root, child_names(kids))
  <2>1. MaxInstance < IntMax /\ ~(IntMax <= MaxInstance)
    BY BoundsAssumption, IntMaxAssumption
  <2> QED
    BY <1>1, <2>1 DEF instance_num
<1>3. want \in Names
  BY WantedAssumption
<1> QED
  BY <1>1, <1>2, <1>3, SanitizedIsFresh DEF overflows

LEMMA TreeInit == Init => Tree
<1> SUFFICES ASSUME Init PROVE Tree
  OBVIOUS
<1>1. alive = {}
  BY DEF Init, alive
<1>2. (CHOOSE w \in Wanted : TRUE) \in {w \in Names : w.num <= MaxInstance}
  BY WantedAssumption
<1>3. <<>> \in Seq(Names)
  OBVIOUS
<1> QED
  BY <1>1, <1>2, <1>3 DEF Init, Tree

LEMMA TreeKept ==
    ASSUME Tree, UNCHANGED <<m_parent, m_name, m_oscAddressCache>>
    PROVE  Tree'
BY DEF Tree, alive, address

(* A new node hangs below p, under a name that none of its siblings has.   *)
LEMMA TreeLink ==
    ASSUME Tree, NEW p \in alive \cup {Root}, NEW n \in children(Unborn),
           NEW name \in Names \ child_names(children(p)), name.num <= MaxInstance,
           link(n, p, name)
    PROVE  Tree' /\ alive' = alive \cup {n} /\ n \notin alive
<1>1. /\ m_parent' = [m_parent EXCEPT ![n] = p]
      /\ m_name' = [m_name EXCEPT ![n] = name]
      /\ m_oscAddressCache' = [m_oscAddressCache EXCEPT ![n] = Append(address(p), name)]
  BY DEF link
<1>2. n \in Nodes /\ m_parent[n] = Unborn /\ n \notin alive /\ n # p
  BY DistinctAssumption DEF children, alive
<1>3. p \notin {Unborn, Dead} /\ p \in Nodes \cup {Root}
  BY DistinctAssumption DEF alive
<1>4. alive' = alive \cup {n}
  BY <1>1, <1>2, <1>3 DEF alive, Tree
<1>5. \A m \in alive : /\ m # n /\ m_parent'[m] = m_parent[m] /\ m_name'[m] = m_name[m]
                       /\ m_oscAddressCache'[m] = m_oscAddressCache[m]
  BY <1>1, <1>2 DEF alive, Tree
<1>6. \A q \in alive \cup {Root} : address(q)' = address(q)
  BY <1>5 DEF address
<1>7. address(p) \in Seq(Names)
  BY DEF address, Tree, alive
<1>8. /\ m_parent'[n] = p /\ m_name'[n] = name
      /\ m_oscAddressCache'[n] = Append(address(p), name)
  BY <1>1, <1>2 DEF Tree
<1>9. Append(address(p), name) \in Seq(Names)
  BY <1>7
<1>10. /\ m_parent' \in [Nodes -> Nodes \cup {Root, Unborn, Dead}]
       /\ m_name' \in [Nodes -> {w \in Names : w.num <= MaxInstance}]
       /\ m_oscAddressCache' \in [Nodes -> Seq(Names)]
  BY <1>1, <1>3, <1>9 DEF Tree
<1>11. ASSUME NEW m \in alive'
       PROVE  /\ m_parent'[m] \in alive' \cup {Root}
              /\ m_oscAddressCache'[m] = Append(address(m_parent[m])', m_name'[m])
  <2>1. CASE m = n
    BY <1>4, <1>6, <1>8, <2>1
  <2>2. CASE m \in alive
    BY <1>4, <1>5, <1>6, <2>2 DEF Tree
  <2> QED
    BY <1>4, <2>1, <2>2
<1>12. ASSUME NEW m \in alive, m_parent[m] = p PROVE m_name[m] # name
  BY <1>12 DEF child_names, children, alive
<1>13. \A k, m \in alive' :
         m_parent'[k] = m_parent'[m] /\ m_name'[k] = m_name'[m] => k = m
  BY <1>4, <1>5, <1>8, <1>12 DEF Tree
<1> QED
  BY <1>2, <1>4, <1>10, <1>11, <1>13 DEF Tree

(* Nodes go, with all that is below them.                                  *)
LEMMA TreeRemove ==
    ASSUME Tree, NEW ns \in SUBSET alive,
           \A m \in alive : m_parent[m] \in ns => m \in ns,
           remove_nodes(ns)
    PROVE  Tree' /\ alive' = alive \ ns
<1>1. /\ m_parent' = [n \in Nodes |-> IF n \in ns THEN Dead ELSE m_parent[n]]
      /\ UNCHANGED <<m_name, m_oscAddressCache>>
  BY DEF remove_nodes
<1>2. alive' = alive \ ns /\ \A m \in alive' : m_parent'[m] = m_parent[m]
  BY <1>1 DEF alive
<1>4. m_parent' \in [Nodes -> Nodes \cup {Root, Unborn, Dead}]
  BY <1>1 DEF Tree
<1>5. \A m \in alive' :
        /\ m_parent'[m] \in alive' \cup {Root}
        /\ m_oscAddressCache'[m] = Append(address(m_parent[m])', m_name'[m])
  <2> SUFFICES ASSUME NEW m \in alive'
               PROVE  /\ m_parent'[m] \in alive' \cup {Root}
                      /\ m_oscAddressCache'[m] = Append(address(m_parent[m])', m_name'[m])
    OBVIOUS
  <2>1. m \in alive /\ m \notin ns /\ m_parent'[m] = m_parent[m]
    BY <1>2
  <2>2. address(m_parent[m])' = address(m_parent[m])
    BY <1>1, <2>1 DEF address
  <2> QED
    BY <1>1, <1>2, <2>1, <2>2 DEF Tree
<1>6. \A k, m \in alive' :
        m_parent'[k] = m_parent'[m] /\ m_name'[k] = m_name'[m] => k = m
  BY <1>1, <1>2 DEF Tree
<1>7. /\ m_name' \in [Nodes -> {w \in Names : w.num <= MaxInstance}]
      /\ m_oscAddressCache' \in [Nodes -> Seq(Names)]
  BY <1>1 DEF Tree
<1> QED
  BY <1>2, <1>4, <1>5, <1>6, <1>7 DEF Tree

(***************************************************************************)
(* set_name: in the addresses of the subtree, the name is replaced at the  *)
(* place of the renamed node.                                              *)
(***************************************************************************)
LEMMA AppendReplace ==
    ASSUME NEW S, NEW s \in Seq(S), NEW x \in S, NEW y \in S, NEW i \in 1..Len(s)
    PROVE  [Append(s, x) EXCEPT ![i] = y] = Append([s EXCEPT ![i] = y], x)
<1> DEFINE u == Append(s, x)
           v == [s EXCEPT ![i] = y]
           a == [u EXCEPT ![i] = y]
           b == Append(v, x)
<1>1. /\ u \in Seq(S) /\ Len(u) = Len(s) + 1 /\ Len(s) \in Nat
      /\ \A j \in 1..Len(s) : u[j] = s[j]
      /\ u[Len(s) + 1] = x
  BY AppendProperties
<1>2. /\ v \in Seq(S) /\ Len(v) = Len(s)
      /\ \A j \in 1..Len(s) : v[j] = IF j = i THEN y ELSE s[j]
  BY ExceptSeq
<1> HIDE DEF u, v
<1>3. i \in 1..Len(u)
  BY <1>1
<1>4. /\ a \in Seq(S) /\ Len(a) = Len(u)
      /\ \A j \in 1..Len(u) : a[j] = IF j = i THEN y ELSE u[j]
  BY <1>1, <1>3, ExceptSeq
<1>5. /\ b \in Seq(S) /\ Len(b) = Len(v) + 1
      /\ \A j \in 1..Len(v) : b[j] = v[j]
      /\ b[Len(v) + 1] = x
  BY <1>2, AppendProperties
<1> HIDE DEF a, b
<1>6. \A j \in 1..Len(a) : a[j] = b[j]
  BY <1>1, <1>2, <1>4, <1>5
<1>7. a = b
  BY <1>1, <1>2, <1>4, <1>5, <1>6, SeqEqual
<1> QED
  BY <1>7 DEF a, b, u, v

(* Replacing the last name of an address.                                  *)
LEMMA AppendLast ==
    ASSUME NEW S, NEW s \in Seq(S), NEW x \in S, NEW y \in S,
           NEW u, u = Append(s, x), NEW i, i = Len(s) + 1
    PROVE  [u EXCEPT ![i] = y] = Append(s, y)
<1> DEFINE a == [u EXCEPT ![i] = y]
           b == Append(s, y)
<1>1. /\ u \in Seq(S) /\ Len(u) = Len(s) + 1 /\ Len(s) \in Nat
      /\ \A j \in 1..Len(s) : u[j] = s[j]
  BY AppendProperties
<1>2. /\ b \in Seq(S) /\ Len(b) = Len(s) + 1 /\ b[Len(s) + 1] = y
      /\ \A j \in 1..Len(s) : b[j] = s[j]
  BY AppendProperties
<1> HIDE DEF b
<1>3. i \in 1..Len(u)
  BY <1>1
<1>4. /\ a \in Seq(S) /\ Len(a) = Len(u)
      /\ \A j \in 1..Len(u) : a[j] = IF j = i THEN y ELSE u[j]
  <2>1. \A v \in Seq(S) : \A k \in 1..Len(v) :
          /\ [v EXCEPT ![k] = y] \in Seq(S) /\ Len([v EXCEPT ![k] = y]) = Len(v)
          /\ \A j \in 1..Len(v) : [v EXCEPT ![k] = y][j] = IF j = k THEN y ELSE v[j]
    BY ExceptSeq
  <2> QED
    BY <1>1, <1>3, <2>1, Zenon
<1> HIDE DEF a
<1>5. \A j \in 1..Len(a) : a[j] = b[j]
  BY <1>1, <1>2, <1>4
<1>6. a = b
  BY <1>1, <1>2, <1>4, <1>5, SeqEqual
<1> QED
  BY <1>6 DEF a, b

Renamed(n, name) ==
    [m \in alive |-> IF m \in subtree(n)
                     THEN [m_oscAddressCache[m] EXCEPT ![Len(m_oscAddressCache[n])] = name]
                     ELSE m_oscAddressCache[m]]

(* on_address_change: the recursion with the new name gives each address   *)
(* of the subtree with one name replaced, and leaves the others alone.     *)
LEMMA RenamedSolves ==
    ASSUME Tree, NEW n \in alive, NEW name \in Names
    PROVE  /\ Solves(Renamed(n, name), [m_name EXCEPT ![n] = name])
           /\ \A m \in alive : Renamed(n, name)[m] \in Seq(Names)
           /\ Renamed(n, name)[n] = Append(address(m_parent[n]), name)
<1> DEFINE c == m_oscAddressCache
           L == Len(c[n])
           new == Renamed(n, name)
           names == [m_name EXCEPT ![n] = name]
<1>1. /\ \A m \in subtree(n) : new[m] = [c[m] EXCEPT ![L] = name]
      /\ \A m \in alive \ subtree(n) : new[m] = c[m]
  BY SubtreeShape DEF Renamed
<1>2. /\ names[n] = name
      /\ \A m \in alive \ {n} : names[m] = m_name[m]
  BY Depth DEF Tree, alive
<1>3. new[n] = Append(address(m_parent[n]), name)
  <2>1. new[n] = [c[n] EXCEPT ![L] = name]
    BY <1>1, SubtreeShape
  <2>2. /\ address(m_parent[n]) \in Seq(Names) /\ m_name[n] \in Names
        /\ c[n] = Append(address(m_parent[n]), m_name[n])
        /\ L = Len(address(m_parent[n])) + 1
    BY Depth
  <2>3. PICK a : a = address(m_parent[n])
    OBVIOUS
  <2> HIDE DEF c, L, new
  <2>4. [c[n] EXCEPT ![L] = name] = Append(a, name)
    BY <2>2, <2>3, AppendLast
  <2> QED
    BY <2>1, <2>3, <2>4
<1>4. ASSUME NEW m \in alive PROVE new[m] \in Seq(Names)
  <2>1. c[m] \in Seq(Names) /\ L \in Nat \ {0} /\ Len(c[m]) \in Nat
    BY Depth
  <2>2. CASE m \in subtree(n)
    <3>1. L \in 1..Len(c[m])
      BY <2>1, <2>2, SubtreeShape
    <3>2. [c[m] EXCEPT ![L] = name] \in Seq(Names)
      BY <2>1, <3>1, ExceptSeq
    <3> QED
      BY <1>1, <2>2, <3>2
  <2>3. CASE m \notin subtree(n)
    BY <1>1, <2>1, <2>3
  <2> QED
    BY <2>2, <2>3
<1> HIDE DEF new, names
<1>5. ASSUME NEW m \in alive
      PROVE  new[m] = IF m_parent[m] = Root THEN <<names[m]>>
                      ELSE Append(new[m_parent[m]], names[m])
  <2>1. new[m] = Append(IF m_parent[m] = Root THEN <<>> ELSE new[m_parent[m]], names[m])
    <3>1. CASE m = n
      <4>1. CASE m_parent[m] = Root
        BY <1>2, <1>3, <3>1, <4>1, Depth
      <4>2. CASE m_parent[m] # Root
        <5>1. m_parent[m] \in alive \ subtree(n)
          BY <3>1, <4>2, SubtreeShape, Depth
        <5>2. new[m_parent[m]] = address(m_parent[m])
          BY <1>1, <4>2, <5>1, Depth
        <5> QED
          BY <1>2, <1>3, <3>1, <4>2, <5>2
      <4> QED
        BY <4>1, <4>2
    <3>2. CASE m # n /\ m \in subtree(n)
      <4>1. m_parent[m] \in subtree(n) /\ m_parent[m] \in alive
        BY <3>2, SubtreeShape
      <4>2. m_parent[m] # Root
        BY <4>1, Depth
      <4>3. /\ c[m_parent[m]] \in Seq(Names) /\ m_name[m] \in Names
            /\ c[m] = Append(c[m_parent[m]], m_name[m])
            /\ Len(c[m_parent[m]]) \in Nat /\ L \in Nat \ {0}
        BY <4>1, <4>2, Depth
      <4>4. L \in 1..Len(c[m_parent[m]])
        BY <4>1, <4>3, SubtreeShape
      <4>5. [c[m] EXCEPT ![L] = name]
              = Append([c[m_parent[m]] EXCEPT ![L] = name], m_name[m])
        <5> HIDE DEF c, L
        <5> QED
          BY <4>3, <4>4, AppendReplace
      <4> QED
        BY <1>1, <1>2, <3>2, <4>1, <4>2, <4>5
    <3>3. CASE m # n /\ m \notin subtree(n)
      <4>1. m_parent[m] \notin subtree(n) /\ m_parent[m] \in alive \cup {Root}
        BY <3>3, SubtreeShape, Depth
      <4> QED
        BY <1>1, <1>2, <3>3, <4>1, Depth
    <3> QED
      BY <3>1, <3>2, <3>3
  <2>2. Append(<<>>, names[m]) = <<names[m]>>
    OBVIOUS
  <2> QED
    BY <2>1, <2>2
<1>6. new = [m \in alive |-> new[m]]
  BY DEF new, Renamed
<1>7. Solves(new, names)
  BY <1>5, <1>6 DEF Solves
<1> QED
  BY <1>3, <1>4, <1>7 DEF new, names

(* set_name gives a name that no sibling has, and fresh addresses.         *)
LEMMA TreeRename ==
    ASSUME Tree, NEW n \in alive, NEW want \in Wanted, set_name(n, want)
    PROVE  \E name \in Names :
             /\ Tree'
             /\ on_nodeRenamed(n, name)
             /\ m_oscAddressCache'[n] = Append(address(m_parent[n]), name)
             /\ \A m \in alive \ subtree(n) : m_oscAddressCache'[m] = m_oscAddressCache[m]
<1> DEFINE kids == children(m_parent[n]) \ {n}
           name == sanitize_name(want, child_names(kids))
           names == [m_name EXCEPT ![n] = name]
<1>1. name \in Names \ child_names(kids)
  <2>1. kids \in SUBSET Nodes
    BY DEF children
  <2> HIDE DEF kids
  <2> QED
    BY <2>1, NewName
<1>2. /\ name.num <= MaxInstance
      /\ m_name' = names
      /\ m_oscAddressCache' = [m \in Nodes |-> IF m \in subtree(n)
                                               THEN osc_parameter_string(names)[m]
                                               ELSE m_oscAddressCache[m]]
      /\ on_nodeRenamed(n, name)
      /\ m_parent' = m_parent
  BY DEF set_name
<1> HIDE DEF name
<1>3. /\ Solves(Renamed(n, name), names)
      /\ \A m \in alive : Renamed(n, name)[m] \in Seq(Names)
      /\ Renamed(n, name)[n] = Append(address(m_parent[n]), name)
  BY <1>1, RenamedSolves
<1>4. osc_parameter_string(names) = Renamed(n, name)
  <2> HIDE DEF names
  <2> QED
    BY <1>3, PathIs
<1>5. PICK new : new = Renamed(n, name)
  OBVIOUS
<1>6. \A m \in alive : m_oscAddressCache'[m] = new[m] /\ m \in Nodes
  BY <1>2, <1>4, <1>5 DEF Renamed, alive
<1>7. \A m \in Nodes \ alive : m_oscAddressCache'[m] = m_oscAddressCache[m]
  BY <1>2, SubtreeShape
<1>8. m_oscAddressCache' \in [Nodes -> Seq(Names)]
  <2>1. \A m \in Nodes : m_oscAddressCache'[m] \in Seq(Names)
    BY <1>3, <1>5, <1>6, <1>7 DEF Tree
  <2> QED
    BY <1>2, <2>1
<1>9. alive' = alive
  BY <1>2 DEF alive
<1>10. m_name' \in [Nodes -> {w \in Names : w.num <= MaxInstance}]
  BY <1>1, <1>2 DEF Tree
<1>11. ASSUME NEW m \in alive'
       PROVE  /\ m_parent'[m] \in alive' \cup {Root}
              /\ m_oscAddressCache'[m] = Append(address(m_parent[m])', m_name'[m])
  <2>1. m_parent'[m] = m_parent[m] /\ m_parent[m] \in alive \cup {Root}
    BY <1>2, <1>9, Depth
  <2>2. new[m] = IF m_parent[m] = Root THEN <<m_name'[m]>>
                 ELSE Append(new[m_parent[m]], m_name'[m])
    BY <1>2, <1>3, <1>5, <1>9 DEF Solves
  <2>3. CASE m_parent[m] = Root
    <3>1. address(m_parent[m])' = <<>>
      BY <2>1, <2>3 DEF address
    <3>2. <<m_name'[m]>> = Append(<<>>, m_name'[m])
      OBVIOUS
    <3> QED
      BY <1>6, <1>9, <2>1, <2>2, <2>3, <3>1, <3>2
  <2>4. CASE m_parent[m] # Root
    <3>1. address(m_parent[m])' = new[m_parent[m]]
      BY <1>6, <2>1, <2>4 DEF address
    <3> QED
      BY <1>6, <1>9, <2>1, <2>2, <2>4, <3>1
  <2> QED
    BY <2>3, <2>4
<1>12. \A m \in alive : m # n => m_name'[m] = m_name[m]
  BY <1>2 DEF Tree, alive
<1>13. m_name'[n] = name
  BY <1>2 DEF Tree, alive
<1>14. \A m \in alive : m # n /\ m_parent[m] = m_parent[n] => m_name[m] # name
  BY <1>1 DEF child_names, children, alive
<1>15. \A k, m \in alive' :
         m_parent'[k] = m_parent'[m] /\ m_name'[k] = m_name'[m] => k = m
  BY <1>2, <1>9, <1>12, <1>13, <1>14 DEF Tree
<1>16. Tree'
  <2>1. m_parent' \in [Nodes -> Nodes \cup {Root, Unborn, Dead}]
    BY <1>2 DEF Tree
  <2> QED
    BY <1>8, <1>10, <1>11, <1>15, <2>1 DEF Tree
<1>17. m_oscAddressCache'[n] = Append(address(m_parent[n]), name)
  BY <1>3, <1>5, <1>6
<1>18. \A m \in alive \ subtree(n) : m_oscAddressCache'[m] = m_oscAddressCache[m]
  BY <1>2 DEF alive
<1> QED
  BY <1>1, <1>2, <1>16, <1>17, <1>18

-----------------------------------------------------------------------------
(* The steps by what they do to the tree.                                  *)
Links == \E p \in alive \cup {Root}, n \in children(Unborn) :
           \E name \in Names \ child_names(children(p)) :
             name.num <= MaxInstance /\ link(n, p, name)

Renames == \E n \in alive, want \in Wanted : set_name(n, want)

Removes == \E ns \in SUBSET alive :
             /\ \A m \in alive : m_parent[m] \in ns => m \in ns
             /\ remove_nodes(ns)

Listens == \E n \in alive :
             create_parameter(n) \/ remove_parameter(n)
               \/ add_callback(n) \/ remove_callback(n)

Receives ==
    \/ \E p \in alive \cup {Root} : receive_pattern(p)
    \/ \E to : receive(to)

(* The steps, sorted by what they change.                                  *)
LEMMA StepCases ==
    ASSUME Tree, Next
    PROVE  Links \/ Renames \/ Removes \/ Listens \/ Receives
<1>1. \A p \in alive \cup {Root} : children(p) \in SUBSET alive
  BY DistinctAssumption DEF children, alive
<1>2. alive \subseteq Nodes
  BY DEF alive
<1>3. ASSUME NEW p, NEW want \in Wanted, create_child(p, want) PROVE Links
  <2>1. p \in alive \cup {Root} /\ children(p) \in SUBSET Nodes
    BY <1>1, <1>2, <1>3 DEF create_child
  <2>2. PICK name : name = sanitize_name(want, child_names(children(p)))
    OBVIOUS
  <2>3. name \in Names \ child_names(children(p))
    BY <2>1, <2>2, NewName
  <2> QED
    BY <1>3, <2>1, <2>2, <2>3 DEF create_child, Links
<1>4. ASSUME NEW p, NEW want \in Wanted, add_child(p, want) PROVE Links
  <2>1. p \in alive \cup {Root} /\ children(p) \in SUBSET Nodes
    BY <1>1, <1>2, <1>4 DEF add_child
  <2>2. want \in Names \ child_names(children(p)) /\ want.num <= MaxInstance
    BY <1>4, <2>1, NewName, WantedAssumption DEF add_child
  <2> QED
    BY <1>4, <2>1, <2>2 DEF add_child, Links
<1>5. ASSUME NEW p, clear_children(p) PROVE Removes
  <2> DEFINE ns == UNION {subtree(n) : n \in children(p)}
  <2>1. children(p) \in SUBSET alive /\ remove_nodes(ns)
    BY <1>1, <1>5 DEF clear_children
  <2>2. ns \in SUBSET alive /\ \A m \in alive : m_parent[m] \in ns => m \in ns
    BY <2>1, SubtreeShape
  <2> HIDE DEF ns
  <2> QED
    BY <2>1, <2>2 DEF Removes
<1>6. ASSUME NEW n, remove_child(n) PROVE Removes
  <2>1. n \in alive /\ remove_nodes(subtree(n))
    BY <1>6 DEF remove_child
  <2>2. /\ subtree(n) \in SUBSET alive
        /\ \A m \in alive : m_parent[m] \in subtree(n) => m \in subtree(n)
    BY <2>1, SubtreeShape
  <2> QED
    BY <2>1, <2>2 DEF Removes
<1>7. ASSUME NEW n, NEW want \in Wanted, set_name(n, want) PROVE Renames
  BY <1>7 DEF set_name, Renames
<1>8. ASSUME NEW n, \/ create_parameter(n) \/ remove_parameter(n)
                    \/ add_callback(n) \/ remove_callback(n)
      PROVE  Listens
  BY <1>8 DEF create_parameter, remove_parameter, add_callback, remove_callback,
              listened, Listens
<1>9. ASSUME NEW p, receive_pattern(p) PROVE Receives
  BY <1>9 DEF receive_pattern, Receives
<1>10. ASSUME NEW to, receive(to) PROVE Receives
  BY <1>10 DEF Receives
<1> QED
  BY <1>3, <1>4, <1>5, <1>6, <1>7, <1>8, <1>9, <1>10 DEF Next

LEMMA TreeStep == Tree /\ [Next]_vars => Tree'
<1> SUFFICES ASSUME Tree, [Next]_vars PROVE Tree'
  OBVIOUS
<1>1. CASE UNCHANGED vars
  BY <1>1, TreeKept DEF vars
<1>2. CASE Links
  BY <1>2, TreeLink DEF Links
<1>3. CASE Renames
  BY <1>3, TreeRename DEF Renames
<1>4. CASE Removes
  BY <1>4, TreeRemove DEF Removes
<1>5. CASE Listens
  <2>1. UNCHANGED <<m_parent, m_name, m_oscAddressCache>>
    BY <1>5 DEF Listens, create_parameter, remove_parameter, add_callback, remove_callback
  <2> QED
    BY <2>1, TreeKept
<1>6. CASE Receives
  <2>1. UNCHANGED <<m_parent, m_name, m_oscAddressCache>>
    BY <1>6 DEF Receives, receive, receive_pattern
  <2> QED
    BY <2>1, TreeKept
<1> QED
  BY <1>1, <1>2, <1>3, <1>4, <1>5, <1>6, StepCases

(* The address cached in each node is the path of names from the root to   *)
(* it, and no other node has it, whatever was created, renamed or removed  *)
(* above it: for every protocol, any tree and any names.                   *)
THEOREM AddressCacheFreshCorrect == Spec => []AddressCacheFresh
<1>1. Init => Tree
  BY TreeInit
<1>2. Tree /\ [Next]_vars => Tree'
  BY TreeStep
<1>3. Tree => AddressCacheFresh
  <2> SUFFICES ASSUME Tree PROVE AddressCacheFresh
    OBVIOUS
  <2>1. \A n \in alive : n # Root
    BY DistinctAssumption DEF alive
  <2>2. \A n, m \in alive : m_oscAddressCache[n] = m_oscAddressCache[m] => n = m
    BY <2>1, AddressesDistinct DEF address
  <2>3. \A n \in alive : m_oscAddressCache[n] = osc_parameter_string(m_name)[n]
    BY CacheIsPath
  <2> QED
    BY <2>2, <2>3 DEF AddressCacheFresh
<1> QED
  BY <1>1, <1>2, <1>3, PTL DEF Spec

-----------------------------------------------------------------------------
(* locked_map.                                                             *)
Values(table) == {table[a] : a \in DOMAIN table}

(* What locked_map::erase leaves.                                          *)
LEMMA EraseIs ==
    ASSUME NEW table, NEW ks
    PROVE  /\ DOMAIN erase(table, ks) = DOMAIN table \ ks
           /\ \A a \in DOMAIN table \ ks : erase(table, ks)[a] = table[a]
           /\ Values(erase(table, ks)) \subseteq Values(table)
BY DEF erase, Values

(* What locked_map::insert adds: nothing where there is a value already.   *)
LEMMA InsertIs ==
    ASSUME NEW table, NEW k, NEW v
    PROVE  /\ DOMAIN insert(table, k, v) = DOMAIN table \cup {k}
           /\ \A a \in DOMAIN table : insert(table, k, v)[a] = table[a]
           /\ k \notin DOMAIN table => insert(table, k, v)[k] = v
           /\ Values(insert(table, k, v)) \subseteq Values(table) \cup {v}
BY DEF insert, Values

(* A renamed entry keeps its value.                                        *)
LEMMA RenameValues ==
    ASSUME NEW table, NEW old, NEW new
    PROVE  Values(rename(table, old, new)) \subseteq Values(table)
<1>1. CASE old \in DOMAIN table
  <2>1. Values(insert(erase(table, {old}), new, table[old]))
          \subseteq Values(erase(table, {old})) \cup {table[old]}
    BY InsertIs
  <2>2. Values(erase(table, {old})) \subseteq Values(table)
    BY EraseIs
  <2>3. table[old] \in Values(table)
    BY <1>1 DEF Values
  <2> QED
    BY <1>1, <2>1, <2>2, <2>3 DEF rename
<1>2. CASE old \notin DOMAIN table
  BY <1>2 DEF rename
<1> QED
  BY <1>1, <1>2

LEMMA TypeInit == Init => TypeOK
<1> SUFFICES ASSUME Init PROVE TypeOK
  OBVIOUS
<1>1. /\ m_parameter \in [Nodes -> 0..MaxParameters]
      /\ made \in [Nodes -> 0..MaxParameters]
      /\ callbacks \in [Nodes -> 0..MaxCallbacks]
  BY BoundsAssumption DEF Init
<1>2. DOMAIN m_listening = {}
  BY DEF Init
<1> QED
  BY <1>1, <1>2, TreeInit DEF TypeOK, Tree

LEMMA TypeStep == Tree /\ TypeOK /\ [Next]_vars => TypeOK'
<1> SUFFICES ASSUME Tree, TypeOK, [Next]_vars PROVE TypeOK'
  OBVIOUS
<1> USE BoundsAssumption
<1> DEFINE All == Nodes \X (1..MaxParameters)
<1>1. /\ m_parent' \in [Nodes -> Nodes \cup {Root, Unborn, Dead}]
      /\ \A n \in Nodes : m_name'[n] \in Names
  BY TreeStep DEF Tree
<1>2. Values(m_listening) \subseteq All
  BY DEF TypeOK, Values
<1>3. SUFFICES /\ m_parameter' \in [Nodes -> 0..MaxParameters]
               /\ made' \in [Nodes -> 0..MaxParameters]
               /\ callbacks' \in [Nodes -> 0..MaxCallbacks]
               /\ Values(m_listening') \subseteq All
  BY <1>1 DEF TypeOK, Values
<1>4. CASE UNCHANGED <<m_parameter, made, callbacks, m_listening>>
  BY <1>2, <1>4 DEF TypeOK
<1>5. CASE Renames
  <2>1. UNCHANGED <<m_parameter, made, callbacks>>
    BY <1>5 DEF Renames, set_name
  <2>2. \E n, name : on_nodeRenamed(n, name)
    BY <1>5, TreeRename DEF Renames
  <2>3. Values(m_listening') \subseteq Values(m_listening)
    BY <2>2, RenameValues DEF on_nodeRenamed
  <2> QED
    BY <1>2, <2>1, <2>3 DEF TypeOK
<1>6. ASSUME NEW ns, drop_parameters(ns), made' = made
      PROVE  /\ m_parameter' \in [Nodes -> 0..MaxParameters]
             /\ made' \in [Nodes -> 0..MaxParameters]
             /\ callbacks' \in [Nodes -> 0..MaxCallbacks]
             /\ Values(m_listening') \subseteq All
  <2>1. m_parameter' \in [Nodes -> 0..MaxParameters] /\ callbacks' \in [Nodes -> 0..MaxCallbacks]
    BY <1>6 DEF drop_parameters, TypeOK
  <2>2. Values(m_listening') \subseteq Values(m_listening)
    BY <1>6, EraseIs DEF drop_parameters
  <2> QED
    BY <1>2, <1>6, <2>1, <2>2 DEF TypeOK
<1>7. CASE Removes
  BY <1>6, <1>7 DEF Removes, remove_nodes
<1>8. ASSUME NEW n \in alive, create_parameter(n)
      PROVE  /\ m_parameter' \in [Nodes -> 0..MaxParameters]
             /\ made' \in [Nodes -> 0..MaxParameters]
             /\ callbacks' = callbacks /\ m_listening' = m_listening
  <2>1. made[n] \in Nat /\ made[n] + 1 \in 0..MaxParameters
    BY <1>8 DEF create_parameter, TypeOK, alive
  <2> QED
    BY <1>8, <2>1 DEF create_parameter, TypeOK
<1>9. ASSUME NEW n \in alive, add_callback(n)
      PROVE  /\ callbacks' \in [Nodes -> 0..MaxCallbacks]
             /\ UNCHANGED <<m_parameter, made>>
             /\ Values(m_listening') \subseteq All
  <2>1. n \in Nodes /\ callbacks[n] + 1 \in 0..MaxCallbacks /\ m_parameter[n] \in 1..MaxParameters
    BY <1>9 DEF add_callback, TypeOK, alive
  <2>2. parameter(n) \in All
    BY <2>1 DEF parameter
  <2>3. Values(insert(m_listening, m_oscAddressCache[n], parameter(n)))
          \subseteq Values(m_listening) \cup {parameter(n)}
    BY InsertIs
  <2>4. Values(m_listening') \subseteq All
    BY <1>2, <1>9, <2>2, <2>3 DEF add_callback
  <2>5. callbacks' \in [Nodes -> 0..MaxCallbacks]
    BY <1>9, <2>1 DEF add_callback, TypeOK
  <2> QED
    BY <1>9, <2>4, <2>5 DEF add_callback
<1>10. ASSUME NEW n \in alive, remove_callback(n)
       PROVE  /\ callbacks' \in [Nodes -> 0..MaxCallbacks]
              /\ UNCHANGED <<m_parameter, made>>
              /\ Values(m_listening') \subseteq All
  <2>1. n \in Nodes /\ callbacks[n] - 1 \in 0..MaxCallbacks
    BY <1>10 DEF remove_callback, listened, TypeOK, alive
  <2>2. Values(m_listening') \subseteq Values(m_listening)
    BY <1>10, EraseIs DEF remove_callback
  <2>3. callbacks' \in [Nodes -> 0..MaxCallbacks]
    BY <1>10, <2>1 DEF remove_callback, TypeOK
  <2> QED
    BY <1>2, <1>10, <2>2, <2>3 DEF remove_callback
<1> HIDE DEF All
<1>11. CASE Listens
  <2>1. PICK n \in alive : \/ create_parameter(n) \/ remove_parameter(n)
                           \/ add_callback(n) \/ remove_callback(n)
    BY <1>11 DEF Listens
  <2>2. CASE create_parameter(n)
    BY <1>2, <1>8, <2>2 DEF TypeOK
  <2>3. CASE remove_parameter(n)
    BY <1>6, <2>3 DEF remove_parameter
  <2>4. CASE add_callback(n)
    BY <1>9, <2>4 DEF TypeOK
  <2>5. CASE remove_callback(n)
    BY <1>10, <2>5 DEF TypeOK
  <2> QED
    BY <2>1, <2>2, <2>3, <2>4, <2>5
<1>12. CASE Links \/ Receives \/ UNCHANGED vars
  BY <1>4, <1>12 DEF Links, link, Receives, receive, receive_pattern, vars
<1> QED
  BY <1>5, <1>7, <1>11, <1>12, StepCases

(* The types of the tree and of its parameters, and the table of listened  *)
(* parameters holds none that was never made.                              *)
THEOREM TypeCorrect == Spec => []TypeOK
<1>1. Init => Tree /\ TypeOK
  BY TreeInit, TypeInit
<1>2. Tree /\ TypeOK /\ [Next]_vars => Tree' /\ TypeOK'
  BY TreeStep, TypeStep
<1> QED
  BY <1>1, <1>2, PTL DEF Spec

-----------------------------------------------------------------------------
(* What is not alive has no parameter; what has none has no callbacks.     *)
Owned ==
    \A n \in Nodes :
        /\ n \notin alive => m_parameter[n] = 0
        /\ m_parameter[n] = 0 => callbacks[n] = 0

LEMMA OwnedStep == Tree /\ TypeOK /\ Owned /\ [Next]_vars => Owned'
<1> SUFFICES ASSUME Tree, TypeOK, Owned, [Next]_vars PROVE Owned'
  OBVIOUS
<1>1. CASE UNCHANGED vars
  BY <1>1 DEF vars, Owned, alive
<1>2. CASE Links
  <2>1. PICK n \in children(Unborn) :
          alive' = alive \cup {n} /\ UNCHANGED <<m_parameter, callbacks>>
    BY <1>2, TreeLink DEF Links, link
  <2> QED
    BY <2>1 DEF Owned
<1>3. CASE Renames
  BY <1>3 DEF Renames, set_name, Owned, alive
<1>4. CASE Removes
  <2>1. PICK ns \in SUBSET alive : alive' = alive \ ns /\ drop_parameters(ns)
    BY <1>4, TreeRemove DEF Removes, remove_nodes
  <2> QED
    BY <2>1 DEF Owned, drop_parameters
<1>5. CASE Listens
  <2>1. PICK n \in alive : \/ create_parameter(n) \/ remove_parameter(n)
                           \/ add_callback(n) \/ remove_callback(n)
    BY <1>5 DEF Listens
  <2>2. alive' = alive /\ n \in Nodes
    BY <2>1 DEF alive, create_parameter, remove_parameter, add_callback, remove_callback
  <2>3. CASE create_parameter(n)
    <3>1. made[n] + 1 # 0
      BY <2>2 DEF TypeOK
    <3> QED
      BY <2>2, <2>3, <3>1 DEF create_parameter, Owned, TypeOK
  <2>4. CASE remove_parameter(n)
    BY <2>2, <2>4 DEF remove_parameter, drop_parameters, Owned
  <2>5. CASE add_callback(n)
    BY <2>2, <2>5 DEF add_callback, Owned, TypeOK
  <2>6. CASE remove_callback(n)
    BY <2>2, <2>6 DEF remove_callback, listened, Owned, TypeOK
  <2> QED
    BY <2>1, <2>3, <2>4, <2>5, <2>6
<1>6. CASE Receives
  <2>1. UNCHANGED <<m_parent, m_parameter, callbacks>>
    BY <1>6 DEF Receives, receive, receive_pattern
  <2> QED
    BY <2>1 DEF Owned, alive
<1> QED
  BY <1>1, <1>2, <1>3, <1>4, <1>5, <1>6, StepCases

(***************************************************************************)
(* The table of an oscquery protocol, where no node above a listened       *)
(* parameter is renamed.                                                   *)
(***************************************************************************)
Supported == Protocol = "oscquery" /\ RenameInner = FALSE

LEMMA CacheDistinct ==
    ASSUME Tree, NEW n \in alive, NEW m \in alive,
           m_oscAddressCache[n] = m_oscAddressCache[m]
    PROVE  n = m
<1>1. n # Root /\ m # Root
  BY DistinctAssumption DEF alive
<1> QED
  BY <1>1, AddressesDistinct DEF address

LEMMA AllDistinct ==
    Tree => \A n, m \in alive : m_oscAddressCache[n] = m_oscAddressCache[m] => n = m
BY CacheDistinct

LEMMA AllDistinctNext ==
    (Tree => \A n, m \in alive : m_oscAddressCache[n] = m_oscAddressCache[m] => n = m)'
BY AllDistinct, PTL

(* The table stays exact if the parameters of ns are taken out of it, and  *)
(* the others stay listened to where they are.                             *)
LEMMA TableDrops ==
    ASSUME Tree, TypeOK, Owned, TableIsExact, NEW ns \in SUBSET alive,
           drop_parameters(ns), UNCHANGED m_oscAddressCache,
           \A n \in Nodes : n \in alive' => n \in alive,
           \A n \in alive \ ns : n \in alive'
    PROVE  TableIsExact'
<1> DEFINE gone == {m_oscAddressCache[n] : n \in {k \in ns : m_parameter[k] # 0}}
<1>1. /\ DOMAIN m_listening' = DOMAIN m_listening \ gone
      /\ \A a \in DOMAIN m_listening' : m_listening'[a] = m_listening[a]
  <2>1. m_listening' = erase(m_listening, gone)
    BY DEF drop_parameters
  <2> HIDE DEF gone
  <2> QED
    BY <2>1, EraseIs
<1>2. \A n \in Nodes : /\ n \in ns => m_parameter'[n] = 0
                       /\ n \notin ns => /\ m_parameter'[n] = m_parameter[n]
                                         /\ callbacks'[n] = callbacks[n]
  BY DEF drop_parameters
<1>3. \A n \in Nodes : listened(n)' <=> listened(n) /\ n \notin ns
  BY <1>2 DEF listened
<1>4. \A n \in Nodes : listened(n)' => parameter(n)' = parameter(n)
  BY <1>2, <1>3 DEF parameter
<1>5. \A n \in alive \ ns : m_oscAddressCache[n] \notin gone
  BY CacheDistinct
<1>6. \A n \in ns : listened(n) => m_oscAddressCache[n] \in gone
  BY DEF listened
<1> HIDE DEF gone
<1>7. ASSUME NEW n \in Nodes, listened(n)'
      PROVE  /\ m_oscAddressCache'[n] \in DOMAIN m_listening'
             /\ m_listening'[m_oscAddressCache'[n]] = parameter(n)'
  <2>1. listened(n) /\ n \notin ns /\ n \in alive
    BY <1>3, <1>7 DEF listened
  <2>2. /\ m_oscAddressCache[n] \in DOMAIN m_listening
        /\ m_listening[m_oscAddressCache[n]] = parameter(n)
    BY <2>1 DEF TableIsExact
  <2> QED
    BY <1>1, <1>4, <1>5, <1>7, <2>1, <2>2
<1>8. ASSUME NEW a \in DOMAIN m_listening'
      PROVE  \E n \in alive' : /\ listened(n)'
                               /\ m_listening'[a] = parameter(n)'
                               /\ a = m_oscAddressCache'[n]
  <2>1. PICK n \in alive : /\ listened(n)
                           /\ m_listening[a] = parameter(n)
                           /\ a = m_oscAddressCache[n]
    BY <1>1 DEF TableIsExact
  <2>2. n \in Nodes /\ n \notin ns
    BY <1>1, <1>6, <2>1 DEF alive
  <2>3. listened(n)' /\ n \in alive'
    BY <1>3, <2>1, <2>2
  <2> QED
    BY <1>1, <1>4, <2>1, <2>2, <2>3
<1> QED
  BY <1>7, <1>8 DEF TableIsExact

(* set_name and on_nodeRenamed move the entry of a leaf to its address.    *)
LEMMA TableRenames ==
    ASSUME Supported, Tree, TypeOK, Owned, TableIsExact,
           NEW n \in alive, NEW want \in Wanted, set_name(n, want)
    PROVE  TableIsExact'
<1> DEFINE c == m_oscAddressCache
<1>1. PICK name \in Names :
        /\ Tree'
        /\ on_nodeRenamed(n, name)
        /\ m_oscAddressCache'[n] = Append(address(m_parent[n]), name)
        /\ \A m \in alive \ subtree(n) : m_oscAddressCache'[m] = m_oscAddressCache[m]
  BY TreeRename
<1>2. /\ UNCHANGED <<m_parent, m_parameter, callbacks>>
      /\ \A m \in subtree(n) \ {n} : ~listened(m)
  BY DEF set_name, Supported
<1>3. alive' = alive
  BY <1>2 DEF alive
<1>4. \A m \in Nodes : (listened(m)' <=> listened(m)) /\ parameter(m)' = parameter(m)
  BY <1>2, <1>3 DEF listened, parameter
<1>5. PICK old, new : old = c[n] /\ new = c'[n]
  OBVIOUS
<1>6. m_listening' = rename(m_listening, old, new)
  BY <1>1, <1>5, Depth DEF on_nodeRenamed, Supported
<1>7. \A m \in alive : listened(m) /\ m # n => c'[m] = c[m] /\ c[m] # old /\ c[m] # new
  <2> SUFFICES ASSUME NEW m \in alive, listened(m), m # n
               PROVE  c'[m] = c[m] /\ c[m] # old /\ c[m] # new
    OBVIOUS
  <2>1. c'[m] = c[m]
    BY <1>1, <1>2
  <2>2. c[m] # old
    BY <1>5, CacheDistinct
  <2>3. c'[m] # new
    <3>1. Tree' /\ n \in alive' /\ m \in alive'
      BY <1>1, <1>3
    <3>2. \A k, l \in alive' : c'[k] = c'[l] => k = l
      BY <3>1, AllDistinctNext
    <3> QED
      BY <1>5, <3>1, <3>2
  <2> QED
    BY <2>1, <2>2, <2>3
<1>8. CASE listened(n)
  <2> DEFINE rest == erase(m_listening, {old})
  <2>1. old \in DOMAIN m_listening /\ m_listening[old] = parameter(n) /\ n \in Nodes
    BY <1>5, <1>8 DEF TableIsExact, alive
  <2>2. m_listening' = insert(rest, new, parameter(n))
    BY <1>6, <2>1 DEF rename
  <2>3. /\ DOMAIN rest = DOMAIN m_listening \ {old}
        /\ \A a \in DOMAIN rest : rest[a] = m_listening[a]
    BY DEF erase
  <2>4. \A a \in DOMAIN rest : \E m \in alive \ {n} :
          listened(m) /\ rest[a] = parameter(m) /\ a = c[m]
    BY <1>5, <2>3 DEF TableIsExact
  <2>5. new \notin DOMAIN rest
    BY <1>7, <2>4
  <2> HIDE DEF rest
  <2>6. /\ DOMAIN m_listening' = DOMAIN rest \cup {new}
        /\ \A a \in DOMAIN rest : m_listening'[a] = rest[a]
        /\ m_listening'[new] = parameter(n)
    BY <2>2, <2>5 DEF insert
  <2>7. ASSUME NEW m \in Nodes, listened(m)'
        PROVE  /\ m_oscAddressCache'[m] \in DOMAIN m_listening'
               /\ m_listening'[m_oscAddressCache'[m]] = parameter(m)'
    <3>1. CASE m = n
      BY <1>4, <1>5, <2>6, <2>7, <3>1
    <3>2. CASE m # n
      <4>1. listened(m) /\ m \in alive /\ parameter(m)' = parameter(m)
        BY <1>4, <2>7 DEF listened
      <4>2. c[m] \in DOMAIN m_listening /\ m_listening[c[m]] = parameter(m)
        BY <4>1 DEF TableIsExact
      <4> QED
        BY <1>7, <2>3, <2>6, <3>2, <4>1, <4>2
    <3> QED
      BY <3>1, <3>2
  <2>8. ASSUME NEW a \in DOMAIN m_listening'
        PROVE  \E m \in alive' : /\ listened(m)'
                                 /\ m_listening'[a] = parameter(m)'
                                 /\ a = m_oscAddressCache'[m]
    <3>1. CASE a = new
      BY <1>3, <1>4, <1>5, <1>8, <2>1, <2>6, <3>1
    <3>2. CASE a \in DOMAIN rest
      <4>1. PICK m \in alive \ {n} : listened(m) /\ rest[a] = parameter(m) /\ a = c[m]
        BY <2>4, <3>2
      <4>2. m \in Nodes
        BY DEF alive
      <4> QED
        BY <1>3, <1>4, <1>7, <2>6, <3>2, <4>1, <4>2
    <3> QED
      BY <2>6, <3>1, <3>2
  <2> QED
    BY <2>7, <2>8 DEF TableIsExact
<1>9. CASE ~listened(n)
  <2>1. old \notin DOMAIN m_listening
    BY <1>5, <1>9, CacheDistinct DEF TableIsExact
  <2>2. m_listening' = m_listening
    BY <1>6, <2>1 DEF rename
  <2>3. ASSUME NEW m \in Nodes, listened(m)'
        PROVE  /\ m_oscAddressCache'[m] \in DOMAIN m_listening'
               /\ m_listening'[m_oscAddressCache'[m]] = parameter(m)'
    <3>1. listened(m) /\ m \in alive /\ m # n /\ parameter(m)' = parameter(m)
      BY <1>4, <1>9, <2>3 DEF listened
    <3> QED
      BY <1>7, <2>2, <3>1 DEF TableIsExact
  <2>4. ASSUME NEW a \in DOMAIN m_listening'
        PROVE  \E m \in alive' : /\ listened(m)'
                                 /\ m_listening'[a] = parameter(m)'
                                 /\ a = m_oscAddressCache'[m]
    <3>1. PICK m \in alive : /\ listened(m)
                             /\ m_listening[a] = parameter(m)
                             /\ a = m_oscAddressCache[m]
      BY <2>2 DEF TableIsExact
    <3>2. m \in Nodes /\ m # n
      BY <1>9, <3>1 DEF alive
    <3> QED
      BY <1>3, <1>4, <1>7, <2>2, <3>1, <3>2
  <2> QED
    BY <2>3, <2>4 DEF TableIsExact
<1> QED
  BY <1>8, <1>9

(* The table and the callbacks of one parameter: the first callback puts   *)
(* it in, the last one takes it out.                                       *)
LEMMA TableListens ==
    ASSUME Tree, TypeOK, Owned, TableIsExact, NEW n \in alive,
           add_callback(n) \/ remove_callback(n)
    PROVE  TableIsExact'
<1> DEFINE here == m_oscAddressCache[n]
<1>1. /\ UNCHANGED <<m_parent, m_oscAddressCache, m_parameter>>
      /\ m_parameter[n] # 0
      /\ \/ callbacks' = [callbacks EXCEPT ![n] = callbacks[n] + 1]
         \/ callbacks' = [callbacks EXCEPT ![n] = callbacks[n] - 1]
  BY DEF add_callback, remove_callback, listened
<1>2. alive' = alive /\ n \in Nodes /\ callbacks[n] \in Nat
  BY <1>1 DEF alive, TypeOK
<1>3. \A m \in Nodes : parameter(m)' = parameter(m)
  BY <1>1 DEF parameter
<1>4. \A m \in Nodes : m # n => (listened(m)' <=> listened(m))
  BY <1>1, <1>2 DEF listened, TypeOK
<1>5. \A m \in alive : m # n => m_oscAddressCache[m] # here
  BY CacheDistinct
<1>6. ASSUME listened(n)', here \in DOMAIN m_listening', m_listening'[here] = parameter(n),
             DOMAIN m_listening' \subseteq DOMAIN m_listening \cup {here},
             \A a \in DOMAIN m_listening \ {here} :
               a \in DOMAIN m_listening' /\ m_listening'[a] = m_listening[a]
      PROVE  TableIsExact'
  <2>1. ASSUME NEW m \in Nodes, listened(m)'
        PROVE  /\ m_oscAddressCache'[m] \in DOMAIN m_listening'
               /\ m_listening'[m_oscAddressCache'[m]] = parameter(m)'
    <3>1. CASE m = n
      BY <1>1, <1>3, <1>6, <3>1
    <3>2. CASE m # n
      <4>1. listened(m) /\ m \in alive
        BY <1>4, <2>1, <3>2 DEF listened
      <4> QED
        BY <1>1, <1>3, <1>5, <1>6, <3>2, <4>1 DEF TableIsExact
    <3> QED
      BY <3>1, <3>2
  <2>2. ASSUME NEW a \in DOMAIN m_listening'
        PROVE  \E m \in alive' : /\ listened(m)'
                                 /\ m_listening'[a] = parameter(m)'
                                 /\ a = m_oscAddressCache'[m]
    <3>1. CASE a = here
      BY <1>1, <1>2, <1>3, <1>6, <3>1
    <3>2. CASE a # here
      <4>1. PICK m \in alive : /\ listened(m)
                               /\ m_listening[a] = parameter(m)
                               /\ a = m_oscAddressCache[m]
        BY <1>6, <3>2 DEF TableIsExact
      <4>2. m # n /\ m \in Nodes
        BY <3>2, <4>1 DEF alive
      <4> QED
        BY <1>1, <1>2, <1>3, <1>4, <1>6, <3>2, <4>1, <4>2
    <3> QED
      BY <3>1, <3>2
  <2> QED
    BY <2>1, <2>2 DEF TableIsExact
<1>7. listened(n) => here \in DOMAIN m_listening /\ m_listening[here] = parameter(n)
  BY <1>2 DEF TableIsExact
<1>8. here \in DOMAIN m_listening => listened(n)
  BY CacheDistinct DEF TableIsExact
<1>9. CASE add_callback(n)
  <2>1. callbacks'[n] = callbacks[n] + 1 /\ listened(n)'
    BY <1>1, <1>2, <1>9 DEF add_callback, listened, TypeOK
  <2>2. CASE callbacks[n] = 0
    <3>1. here \notin DOMAIN m_listening
      BY <1>8, <2>2 DEF listened
    <3>2. m_listening' = insert(m_listening, here, parameter(n))
      BY <1>9, <2>2 DEF add_callback
    <3>3. /\ DOMAIN m_listening' = DOMAIN m_listening \cup {here}
          /\ \A a \in DOMAIN m_listening : m_listening'[a] = m_listening[a]
          /\ m_listening'[here] = parameter(n)
      BY <3>1, <3>2 DEF insert
    <3> HIDE DEF here
    <3> QED
      BY <1>6, <2>1, <3>1, <3>3
  <2>3. CASE callbacks[n] # 0
    <3>1. listened(n) /\ m_listening' = m_listening
      BY <1>1, <1>2, <1>9, <2>3 DEF add_callback, listened
    <3> QED
      BY <1>6, <1>7, <2>1, <3>1
  <2> QED
    BY <2>2, <2>3
<1>10. CASE remove_callback(n)
  <2>1. listened(n) /\ callbacks'[n] = callbacks[n] - 1
    BY <1>2, <1>10 DEF remove_callback, TypeOK
  <2>2. CASE callbacks[n] # 1
    <3>1. listened(n)' /\ m_listening' = m_listening
      BY <1>1, <1>2, <1>10, <2>1, <2>2 DEF remove_callback, listened
    <3> QED
      BY <1>6, <1>7, <2>1, <3>1
  <2>3. CASE callbacks[n] = 1
    <3>1. ~listened(n)'
      BY <2>1, <2>3 DEF listened
    <3>2. m_listening' = erase(m_listening, {here})
      BY <1>10, <2>3 DEF remove_callback
    <3>3. /\ DOMAIN m_listening' = DOMAIN m_listening \ {here}
          /\ \A a \in DOMAIN m_listening' : m_listening'[a] = m_listening[a]
      BY <3>2 DEF erase
    <3>4. ASSUME NEW m \in Nodes, listened(m)'
          PROVE  /\ m_oscAddressCache'[m] \in DOMAIN m_listening'
                 /\ m_listening'[m_oscAddressCache'[m]] = parameter(m)'
      <4>1. m # n /\ listened(m) /\ m \in alive
        BY <1>4, <3>1, <3>4 DEF listened
      <4> QED
        BY <1>1, <1>3, <1>5, <3>3, <4>1 DEF TableIsExact
    <3>5. ASSUME NEW a \in DOMAIN m_listening'
          PROVE  \E m \in alive' : /\ listened(m)'
                                   /\ m_listening'[a] = parameter(m)'
                                   /\ a = m_oscAddressCache'[m]
      <4>1. PICK m \in alive : /\ listened(m)
                               /\ m_listening[a] = parameter(m)
                               /\ a = m_oscAddressCache[m]
        BY <3>3 DEF TableIsExact
      <4>2. m # n /\ m \in Nodes
        BY <3>3, <4>1 DEF alive
      <4> QED
        BY <1>1, <1>2, <1>3, <1>4, <3>3, <4>1, <4>2
    <3> QED
      BY <3>4, <3>5 DEF TableIsExact
  <2> QED
    BY <2>2, <2>3
<1> QED
  BY <1>9, <1>10

(* A step that changes nothing of what is listened to keeps the table.     *)
LEMMA TableKept ==
    ASSUME TableIsExact, UNCHANGED m_listening,
           \A m \in Nodes : listened(m)' <=> listened(m),
           \A m \in Nodes : listened(m) => /\ parameter(m)' = parameter(m)
                                           /\ m_oscAddressCache'[m] = m_oscAddressCache[m]
    PROVE  TableIsExact'
<1>1. ASSUME NEW a \in DOMAIN m_listening'
      PROVE  \E m \in alive' : /\ listened(m)'
                               /\ m_listening'[a] = parameter(m)'
                               /\ a = m_oscAddressCache'[m]
  <2>1. PICK m \in alive : /\ listened(m)
                           /\ m_listening[a] = parameter(m)
                           /\ a = m_oscAddressCache[m]
    BY DEF TableIsExact
  <2>2. m \in Nodes
    BY DEF alive
  <2>3. m \in alive'
    BY <2>1, <2>2 DEF listened
  <2> QED
    BY <2>1, <2>2, <2>3
<1>2. \A m \in Nodes : listened(m)' =>
        /\ m_oscAddressCache'[m] \in DOMAIN m_listening'
        /\ m_listening'[m_oscAddressCache'[m]] = parameter(m)'
  BY DEF TableIsExact
<1> QED
  BY <1>1, <1>2 DEF TableIsExact

LEMMA TableStep ==
    ASSUME Supported
    PROVE  Tree /\ TypeOK /\ Owned /\ TableIsExact /\ [Next]_vars => TableIsExact'
<1> SUFFICES ASSUME Tree, TypeOK, Owned, TableIsExact, [Next]_vars
             PROVE  TableIsExact'
  OBVIOUS
<1>1. CASE Receives \/ UNCHANGED vars
  <2>1. UNCHANGED <<m_parent, m_oscAddressCache, m_parameter, callbacks, m_listening>>
    BY <1>1 DEF Receives, receive, receive_pattern, vars
  <2> QED
    BY <2>1, TableKept DEF listened, parameter, alive
<1>2. CASE Links
  <2>1. PICK n \in children(Unborn) :
          /\ alive' = alive \cup {n} /\ n \notin alive
          /\ \E a : m_oscAddressCache' = [m_oscAddressCache EXCEPT ![n] = a]
          /\ UNCHANGED <<m_parameter, callbacks, m_listening>>
    BY <1>2, TreeLink DEF Links, link
  <2>2. m_parameter[n] = 0 /\ n \in Nodes
    BY <2>1 DEF Owned, children
  <2>3. \A m \in Nodes : listened(m)' <=> listened(m)
    BY <2>1, <2>2 DEF listened
  <2>4. \A m \in Nodes : listened(m) =>
          parameter(m)' = parameter(m) /\ m_oscAddressCache'[m] = m_oscAddressCache[m]
    BY <2>1, <2>2 DEF listened, parameter, Tree
  <2> QED
    BY <2>1, <2>3, <2>4, TableKept
<1>3. CASE Renames
  BY <1>3, TableRenames DEF Renames
<1>4. CASE Removes
  <2>1. PICK ns \in SUBSET alive : /\ drop_parameters(ns) /\ UNCHANGED m_oscAddressCache
                                   /\ alive' = alive \ ns
    BY <1>4, TreeRemove DEF Removes, remove_nodes
  <2> QED
    BY <2>1, TableDrops
<1>5. CASE Listens
  <2>1. PICK n \in alive : \/ create_parameter(n) \/ remove_parameter(n)
                           \/ add_callback(n) \/ remove_callback(n)
    BY <1>5 DEF Listens
  <2>2. CASE create_parameter(n)
    <3>1. /\ UNCHANGED <<m_parent, m_oscAddressCache, callbacks, m_listening>>
          /\ callbacks[n] = 0 /\ n \in Nodes
          /\ m_parameter' = [m_parameter EXCEPT ![n] = made[n] + 1]
      BY <2>2 DEF create_parameter, Owned, alive
    <3>2. \A m \in Nodes : listened(m)' <=> listened(m)
      BY <3>1 DEF listened, alive, TypeOK
    <3>3. \A m \in Nodes : listened(m) =>
            parameter(m)' = parameter(m) /\ m_oscAddressCache'[m] = m_oscAddressCache[m]
      BY <3>1 DEF listened, parameter, TypeOK
    <3> QED
      BY <3>1, <3>2, <3>3, TableKept
  <2>3. CASE remove_parameter(n)
    <3>1. drop_parameters({n}) /\ UNCHANGED <<m_oscAddressCache, m_parent>>
      BY <2>3 DEF remove_parameter
    <3>2. alive' = alive /\ {n} \in SUBSET alive
      BY <3>1 DEF alive
    <3> QED
      BY <3>1, <3>2, TableDrops
  <2>4. CASE add_callback(n) \/ remove_callback(n)
    BY <2>4, TableListens
  <2> QED
    BY <2>1, <2>2, <2>3, <2>4
<1> QED
  BY <1>1, <1>2, <1>3, <1>4, <1>5, StepCases

TableInv == Tree /\ TypeOK /\ Owned /\ TableIsExact

LEMMA TableInvInit == Init => TableInv
<1> SUFFICES ASSUME Init PROVE TableInv
  OBVIOUS
<1>1. Tree
  BY TreeInit
<1>2. TypeOK
  BY TypeInit
<1>3. Owned
  BY DEF Init, Owned
<1>4. TableIsExact
  <2>1. \A n \in Nodes : ~listened(n)
    BY DEF Init, listened
  <2>2. DOMAIN m_listening = {}
    BY DEF Init
  <2> QED
    BY <2>1, <2>2 DEF TableIsExact
<1> QED
  BY <1>1, <1>2, <1>3, <1>4 DEF TableInv

LEMMA TableInvStep ==
    ASSUME Supported
    PROVE  TableInv /\ [Next]_vars => TableInv'
BY TreeStep, TypeStep, OwnedStep, TableStep DEF TableInv

(* With an oscquery protocol, and no renaming above a listened parameter,  *)
(* the table of listened parameters holds exactly the parameters that have *)
(* callbacks, under their present addresses, after any edits of a tree of  *)
(* any size: no pointer to a destroyed parameter stays in it.              *)
THEOREM TableIsExactCorrect == ASSUME Supported PROVE Spec => []TableIsExact
<1>1. TableInv => TableIsExact
  BY DEF TableInv
<1> QED
  BY <1>1, TableInvInit, TableInvStep, PTL DEF Spec

-----------------------------------------------------------------------------
(* A message finds what the table and the addresses say, in the state in   *)
(* which it is received.                                                   *)
Silent == delivered = NoMessage

(* Before the first message, and after an edit, no node is addressed.      *)
LEMMA NoneAddressed ==
    ASSUME Tree, Silent, NEW n \in alive
    PROVE  ~addressed(n)
<1>1. /\ Len(address(m_parent[n])) \in Nat
      /\ Len(m_oscAddressCache[n]) = Len(address(m_parent[n])) + 1
  BY Depth
<1>2. Len(delivered.to) = 0 /\ delivered.pattern = FALSE
  BY DEF Silent, NoMessage
<1> QED
  BY <1>1, <1>2 DEF addressed

LEMMA SilentIsRight ==
    Tree /\ Silent => ListenedIsNotified /\ DeliveredToItsAddress
<1>1. Silent => delivered.loud = {} /\ delivered.quiet = {}
  BY DEF Silent, NoMessage
<1> QED
  BY <1>1, NoneAddressed DEF ListenedIsNotified, DeliveredToItsAddress

LEMMA SilentIsRightNext ==
    (Tree /\ Silent => ListenedIsNotified /\ DeliveredToItsAddress)'
BY SilentIsRight, PTL

(* A message to an address.                                                *)
LEMMA ReceiveIsRight ==
    ASSUME Tree, TypeOK, TableIsExact, NEW to, receive(to)
    PROVE  ListenedIsNotified' /\ DeliveredToItsAddress'
<1> DEFINE found == with_parameter(find_node(to))
<1>1. UNCHANGED <<m_parent, m_oscAddressCache, m_parameter, callbacks>> /\ alive' = alive
  BY DEF receive, alive
<1>2. \A n \in Nodes : (listened(n)' <=> listened(n)) /\ parameter(n)' = parameter(n)
  BY <1>1 DEF listened, parameter
<1>3. delivered'.to = to /\ delivered'.pattern = FALSE
  BY DEF receive
<1>4. \A n : addressed(n)' <=> m_oscAddressCache[n] = to
  BY <1>1, <1>3 DEF addressed
<1>5. find_node(to) = {n \in alive : m_oscAddressCache[n] = to}
  BY CacheIsPath DEF find_node
<1>6. CASE to \in DOMAIN m_listening
  <2>1. delivered'.loud = {m_listening[to]} /\ delivered'.quiet = {}
    BY <1>6 DEF receive
  <2>2. PICK n \in alive : /\ listened(n)
                           /\ m_listening[to] = parameter(n)
                           /\ to = m_oscAddressCache[n]
    BY <1>6 DEF TableIsExact
  <2>3. n \in Nodes
    BY DEF alive
  <2>4. ListenedIsNotified'
    <3> SUFFICES ASSUME NEW m \in alive', listened(m)', addressed(m)'
                 PROVE  parameter(m)' \in delivered'.loud
      BY DEF ListenedIsNotified
    <3>1. m \in alive /\ m = n
      BY <1>1, <1>4, <2>2, CacheDistinct
    <3> QED
      BY <1>2, <2>1, <2>2, <2>3, <3>1
  <2>5. parameter(n)[1] = n /\ parameter(n)[2] = m_parameter[n]
    BY DEF parameter
  <2>6. DeliveredToItsAddress'
    BY <1>1, <1>4, <2>1, <2>2, <2>5 DEF DeliveredToItsAddress
  <2> QED
    BY <2>4, <2>6
<1>7. CASE to \notin DOMAIN m_listening
  <2>1. delivered'.loud \cup delivered'.quiet = found
    BY <1>7 DEF receive
  <2>2. ListenedIsNotified'
    <3> SUFFICES ASSUME NEW m \in alive', listened(m)', addressed(m)' PROVE FALSE
      BY DEF ListenedIsNotified
    <3>1. m \in Nodes /\ listened(m) /\ m_oscAddressCache[m] = to
      BY <1>1, <1>2, <1>4 DEF alive
    <3> QED
      BY <1>7, <3>1 DEF TableIsExact
  <2>3. DeliveredToItsAddress'
    <3> SUFFICES ASSUME NEW q \in found
                 PROVE  q[1] \in alive' /\ m_parameter'[q[1]] = q[2] /\ addressed(q[1])'
      BY <2>1 DEF DeliveredToItsAddress
    <3>1. PICK n \in alive : m_oscAddressCache[n] = to /\ q = parameter(n)
      BY <1>5 DEF with_parameter
    <3> QED
      BY <1>1, <1>4, <3>1 DEF parameter
  <2> QED
    BY <2>2, <2>3
<1> QED
  BY <1>6, <1>7

(* A message to the children of a node.                                    *)
LEMMA PatternIsRight ==
    ASSUME Tree, TypeOK, TableIsExact, NEW p \in alive \cup {Root}, receive_pattern(p)
    PROVE  ListenedIsNotified' /\ DeliveredToItsAddress'
<1> DEFINE heard == {n \in children(p) : ~SilentUpdate
                                           \/ m_oscAddressCache[n] \in DOMAIN m_listening}
<1>1. /\ UNCHANGED <<m_parent, m_oscAddressCache, m_parameter, callbacks>>
      /\ alive' = alive
  BY DEF receive_pattern, alive
<1>2. \A n \in Nodes : (listened(n)' <=> listened(n)) /\ parameter(n)' = parameter(n)
  BY <1>1 DEF listened, parameter
<1>3. /\ delivered'.to = address(p) /\ delivered'.pattern = TRUE
      /\ delivered'.loud = with_parameter(heard)
      /\ delivered'.quiet = with_parameter(children(p) \ heard)
  BY DEF receive_pattern
<1>4. \A n : addressed(n)' <=> address(m_parent[n]) = address(p)
  BY <1>1, <1>3 DEF addressed, address
<1>5. children(p) \in SUBSET alive
  BY DistinctAssumption DEF children, alive
<1>6. ListenedIsNotified'
  <2> SUFFICES ASSUME NEW m \in alive', listened(m)', addressed(m)'
               PROVE  parameter(m)' \in delivered'.loud
    BY DEF ListenedIsNotified
  <2>1. m \in alive /\ m \in Nodes /\ listened(m) /\ address(m_parent[m]) = address(p)
    BY <1>1, <1>2, <1>4 DEF alive
  <2>2. m_parent[m] = p
    BY <2>1, AddressesDistinct, Depth
  <2>3. m \in heard
    BY <2>1, <2>2 DEF children, TableIsExact
  <2> HIDE DEF heard
  <2> QED
    BY <1>2, <1>3, <2>1, <2>3 DEF with_parameter, listened
<1>7. DeliveredToItsAddress'
  <2> SUFFICES ASSUME NEW q \in with_parameter(heard) \cup with_parameter(children(p) \ heard)
               PROVE  q[1] \in alive' /\ m_parameter'[q[1]] = q[2] /\ addressed(q[1])'
    BY <1>3 DEF DeliveredToItsAddress
  <2>1. PICK n \in children(p) : q = parameter(n)
    BY DEF with_parameter
  <2>2. m_parent[n] = p
    BY DEF children
  <2> QED
    BY <1>1, <1>4, <1>5, <2>1, <2>2 DEF parameter
<1> QED
  BY <1>6, <1>7

(* What a message does is right when it is received; an edit forgets it.   *)
LEMMA MessageStep ==
    TableInv /\ TableInv' /\ ListenedIsNotified /\ DeliveredToItsAddress /\ [Next]_vars
      => ListenedIsNotified' /\ DeliveredToItsAddress'
<1> SUFFICES ASSUME TableInv, TableInv', ListenedIsNotified, DeliveredToItsAddress,
                    [Next]_vars
             PROVE  ListenedIsNotified' /\ DeliveredToItsAddress'
  OBVIOUS
<1>0. Tree /\ TypeOK /\ TableIsExact /\ Tree'
  BY DEF TableInv
<1>1. CASE UNCHANGED vars
  BY <1>1 DEF vars, ListenedIsNotified, DeliveredToItsAddress, alive, listened,
              parameter, addressed, address
<1>2. CASE Receives
  BY <1>0, <1>2, ReceiveIsRight, PatternIsRight DEF Receives
<1>3. CASE Links \/ Renames \/ Removes \/ Listens
  <2>1. delivered' = NoMessage
    BY <1>3 DEF Links, link, Renames, set_name, Removes, remove_nodes, Listens,
                create_parameter, remove_parameter, add_callback, remove_callback
  <2>2. Silent'
    BY <2>1 DEF Silent, NoMessage
  <2> QED
    BY <1>0, <2>2, SilentIsRightNext
<1> QED
  BY <1>0, <1>1, <1>2, <1>3, StepCases

(* protocol_base::observe keeps its promise, with an oscquery protocol and *)
(* no renaming above a listened parameter: a message to the address of a   *)
(* listened parameter, or to a pattern it matches, calls its callbacks.    *)
THEOREM ListenedIsNotifiedCorrect == ASSUME Supported PROVE Spec => []ListenedIsNotified
<1> DEFINE Inv == TableInv /\ ListenedIsNotified /\ DeliveredToItsAddress
<1>1. Init => Inv
  BY TableInvInit, SilentIsRight DEF Init, Silent, TableInv
<1>2. Inv /\ [Next]_vars => Inv'
  BY TableInvStep, MessageStep
<1> QED
  BY <1>1, <1>2, PTL DEF Spec

(* Under the same conditions, a message reaches parameters that exist and  *)
(* that its address designates, and no others.                             *)
THEOREM DeliveredToItsAddressCorrect ==
    ASSUME Supported PROVE Spec => []DeliveredToItsAddress
<1> DEFINE Inv == TableInv /\ ListenedIsNotified /\ DeliveredToItsAddress
<1>1. Init => Inv
  BY TableInvInit, SilentIsRight DEF Init, Silent, TableInv
<1>2. Inv /\ [Next]_vars => Inv'
  BY TableInvStep, MessageStep
<1> QED
  BY <1>1, <1>2, PTL DEF Spec
=============================================================================
