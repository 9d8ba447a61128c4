-------------------------- MODULE MirrorSyncProofs --------------------------
(***************************************************************************)
(* TLAPS proofs: the server's events tell everything of its tree, and the  *)
(* mirror that applies them is always a past state of the server.  A       *)
(* mirror that is not synchronised is still a tree.                        *)
(***************************************************************************)
EXTENDS MirrorSync, SanitizeNameProofs

(* Every path above a node of the set is in the set.                       *)
Closed(S) == \A q \in S : \A k \in 1..(Len(q) - 1) : SubSeq(q, 1, k) \in S

Events ==
    [type : {"PATH_ADDED", "PATH_REMOVED"}, path : Paths]
      \cup [type : {"PATH_RENAMED"}, path : Paths, new : Paths]
      \cup [type : {"ATTRIBUTES_CHANGED"}, path : Paths, typed : BOOLEAN]

(* What holds of an event where it is applied: a node is added to its      *)
(* parent, once; a node is removed after what is below it; a new name is   *)
(* taken neither by a sibling nor, if zombies are kept, by a removed one.  *)
Legal(zombie, s, e) ==
    /\ e.type = "PATH_ADDED" =>
         /\ e.path \notin s.nodes
         /\ children(e.path, s.nodes) = {}
         /\ \A k \in 1..(Len(e.path) - 1) : SubSeq(e.path, 1, k) \in s.nodes
    /\ e.type = "PATH_REMOVED" => subtree(e.path, s.nodes) = {e.path}
    /\ e.type = "PATH_RENAMED" =>
         /\ e.path \in s.nodes
         /\ parent(e.new) = parent(e.path)
         /\ Len(e.new) = Len(e.path)
         /\ e.new = e.path \/ e.new \notin s.nodes
         /\ zombie => e.new \notin s.gone
    /\ e.type = "ATTRIBUTES_CHANGED" => (e.typed => e.path \in s.nodes)

(* An event that can be sent: it is legal, and a rename was begun below the*)
(* bound on events.                                                        *)
Proper(e) ==
    /\ e \in Events
    /\ Legal(m_zombie_on_remove /\ ~ReuseNames, told, e)
    /\ e.type = "PATH_RENAMED" => sent < MaxEvents

(* The server's tree, a subtree that is being removed, and an event that   *)
(* waits for its signal.                                                   *)
ServerInv ==
    /\ tree \cup removing \cup params \subseteq Paths
    /\ Closed(tree)
    /\ \A p \in removing, q \in tree : ~within(q, p)
    /\ told \in Known
    /\ sent \in Nat
    /\ due # NoEvent => Proper(due)

(* What the events before the i-th of the queue tell, counted from zero.   *)
after(start, queue, i) == IF i = 0 THEN start ELSE queue[i].after
state(i) == after(base, m_functionQueue, i)

(* The queue leads from what was applied to what was sent, by legal steps. *)
ChainInv ==
    /\ base \in Known
    /\ m_functionQueue \in Seq([event : Events, after : Known])
    /\ \A i \in 1..Len(m_functionQueue) :
         /\ Legal(m_zombie_on_remove, state(i - 1), m_functionQueue[i].event)
         /\ state(i) = effect(state(i - 1), m_functionQueue[i].event)
    /\ state(Len(m_functionQueue)) = told

applied == sent - Len(m_functionQueue)

(* An answer that is not older than what was applied is what the server    *)
(* had after the event that it followed.                                   *)
AnswerInv ==
    /\ requests = [k \in 1..MaxUpdates |-> requests[k]]
    /\ \A k \in 1..MaxUpdates :
         LET p == requests[k].path
             r == requests[k].answer
         IN  r # NoAnswer =>
               /\ r.at \in 0..sent /\ r.nodes \subseteq Paths
               /\ r.quiet /\ r.at >= applied =>
                    /\ r.nodes = subtree(p, state(r.at - applied).nodes)
                    /\ r.params = subtree(p, state(r.at - applied).params)

(* The mirror is what the applied events tell.                             *)
MirrorInv ==
    synced => /\ live = base.nodes
              /\ zombies \subseteq base.gone
              /\ ~m_zombie_on_remove => zombies = {}
              /\ base.params \subseteq m_parameters

(* The mirror's nodes are paths, the root is not among them.               *)
MirrorPaths == live \cup zombies \subseteq Seq(Names) \ {<<>>}

SyncInv ==
    /\ ServerInv /\ EventsTellAll /\ ChainInv /\ AnswerInv
    /\ MirrorPaths /\ MirrorInv

-----------------------------------------------------------------------------
Bounded == {w \in Names : w.num <= MaxInstance}

(* The path above a path is one name shorter.                              *)
LEMMA ParentLength ==
    ASSUME NEW p \in Paths
    PROVE  Len(parent(p)) = Len(p) - 1
<1>1. p \in Seq(Bounded) /\ p # <<>>
  BY DEF Paths, Bounded
<1>2. Len(p) \in Nat \ {0}
  BY <1>1
<1>3. CASE Len(p) = 1
  <2>1. SubSeq(p, 1, 0) = <<>>
    BY <1>1
  <2> QED
    BY <1>3, <2>1 DEF parent
<1>4. CASE Len(p) # 1
  <2>1. Len(p) - 1 \in 1..Len(p)
    BY <1>2, <1>4
  <2> QED
    BY <1>1, <2>1 DEF parent
<1> QED
  BY <1>3, <1>4

(* A path is what is above it and its name.                                *)
LEMMA PathParts ==
    ASSUME NEW p \in Paths, NEW q \in Paths,
           parent(p) = parent(q), name(p) = name(q), Len(p) = Len(q)
    PROVE  p = q
<1>1. p \in Seq(Bounded) /\ q \in Seq(Bounded) /\ Len(p) \in Nat \ {0}
  BY DEF Paths, Bounded
<1>2. \A i \in 1..(Len(p) - 1) : p[i] = parent(p)[i] /\ q[i] = parent(q)[i]
  BY <1>1 DEF parent
<1>3. \A i \in 1..Len(p) : p[i] = q[i]
  BY <1>1, <1>2 DEF name
<1> QED
  BY <1>1, <1>3

(* The parts of a path that is made from a parent and a name.              *)
LEMMA AppendParts ==
    ASSUME NEW p \in Seq(Bounded), NEW n \in Bounded
    PROVE  /\ Append(p, n) \in Paths
           /\ Len(Append(p, n)) = Len(p) + 1
           /\ name(Append(p, n)) = n
           /\ parent(Append(p, n)) = p
           /\ \A k \in 1..(Len(p) - 1) : SubSeq(Append(p, n), 1, k) = SubSeq(p, 1, k)
<1>1. Append(p, n) \in Seq(Bounded) /\ Len(Append(p, n)) = Len(p) + 1
  OBVIOUS
<1>2. Append(p, n) # <<>>
  <2>1. Len(<<>>) = 0 /\ Len(p) \in Nat
    OBVIOUS
  <2> QED
    BY <1>1, <2>1
<1>3. name(Append(p, n)) = n
  BY <1>1 DEF name
<1>4. parent(Append(p, n)) = p
  BY <1>1 DEF parent
<1>5. \A k \in 1..(Len(p) - 1) : SubSeq(Append(p, n), 1, k) = SubSeq(p, 1, k)
  OBVIOUS
<1> QED
  BY <1>1, <1>2, <1>3, <1>4, <1>5 DEF Paths, Bounded

(* A node is below itself, and what is below a node below p is below p.    *)
LEMMA WithinSelf ==
    ASSUME NEW p \in Paths
    PROVE  within(p, p)
BY DEF within, Paths

LEMMA WithinTransitive ==
    ASSUME NEW p \in Paths, NEW q \in Paths, NEW r \in Paths,
           within(r, q), within(q, p)
    PROVE  within(r, p)
BY DEF within, Paths

(* Renaming gives paths, of the same length.                               *)
LEMMA RenamedIsSeq ==
    ASSUME NEW S, NEW q \in Seq(S) \ {<<>>}, NEW old \in Seq(S) \ {<<>>},
           NEW new, name(new) \in S
    PROVE  /\ renamed(q, old, new) \in Seq(S) \ {<<>>}
           /\ Len(renamed(q, old, new)) = Len(q)
<1>1. CASE within(q, old)
  <2>1. renamed(q, old, new) = [q EXCEPT ![Len(old)] = name(new)]
    BY <1>1 DEF renamed
  <2>2. Len(old) \in 1..Len(q)
    BY <1>1 DEF within
  <2>3. [q EXCEPT ![Len(old)] = name(new)] \in Seq(S)
    BY <2>2
  <2>4. Len([q EXCEPT ![Len(old)] = name(new)]) = Len(q)
    BY <2>2
  <2>5. Len(q) # 0 /\ Len(<<>>) = 0
    OBVIOUS
  <2> QED
    BY <2>1, <2>3, <2>4, <2>5
<1>2. CASE ~within(q, old)
  BY <1>2 DEF renamed
<1> QED
  BY <1>1, <1>2

LEMMA RenamedIsPath ==
    ASSUME NEW q \in Paths, NEW old \in Paths, NEW new \in Paths
    PROVE  renamed(q, old, new) \in Paths /\ Len(renamed(q, old, new)) = Len(q)
<1>1. name(new) \in Bounded
  BY DEF name, Paths, Bounded
<1> QED
  BY <1>1, RenamedIsSeq DEF Paths, Bounded

(* What is above a renamed node is renamed in the same way.                *)
LEMMA RenamedPrefix ==
    ASSUME NEW S, NEW q \in Seq(S) \ {<<>>}, NEW old \in Seq(S) \ {<<>>},
           NEW new, name(new) \in S, NEW k \in 1..(Len(q) - 1)
    PROVE  SubSeq(renamed(q, old, new), 1, k) = renamed(SubSeq(q, 1, k), old, new)
<1> DEFINE u == SubSeq(q, 1, k)
<1>1. q \in Seq(S) /\ old \in Seq(S) /\ Len(old) \in Nat \ {0}
  OBVIOUS
<1>2. u \in Seq(S) /\ Len(u) = k /\ \A i \in 1..k : u[i] = q[i]
  BY <1>1
<1>3. CASE within(q, old) /\ Len(old) <= k
  <2>1. within(u, old)
    BY <1>1, <1>2, <1>3 DEF within
  <2>2. renamed(q, old, new) = [q EXCEPT ![Len(old)] = name(new)]
    BY <1>3 DEF renamed
  <2>3. renamed(u, old, new) = [u EXCEPT ![Len(old)] = name(new)]
    BY <2>1 DEF renamed
  <2>4. SubSeq([q EXCEPT ![Len(old)] = name(new)], 1, k)
          = [u EXCEPT ![Len(old)] = name(new)]
    <3> DEFINE v == [q EXCEPT ![Len(old)] = name(new)]
               w == [u EXCEPT ![Len(old)] = name(new)]
    <3>1. name(new) \in S /\ Len(old) \in 1..k /\ k \in 1..Len(q)
      BY <1>1, <1>3
    <3>2. v \in Seq(S) /\ Len(v) = Len(q)
      BY <1>1, <3>1
    <3>3. w \in Seq(S) /\ Len(w) = k
      BY <1>2, <3>1
    <3>4. ASSUME NEW i \in 1..k PROVE v[i] = w[i]
      <4>1. i \in DOMAIN q
        BY <1>1, <3>1
      <4> HIDE DEF u
      <4>2. i \in DOMAIN u
        BY <1>2
      <4>3. v[i] = IF i = Len(old) THEN name(new) ELSE q[i]
        BY <4>1
      <4>4. w[i] = IF i = Len(old) THEN name(new) ELSE u[i]
        BY <4>2
      <4> QED
        BY <1>2, <4>3, <4>4
    <3> HIDE DEF v, w
    <3>5. SubSeq(v, 1, k) = w
      <4>1. k \in 1..Len(v)
        BY <3>1, <3>2
      <4>2. /\ SubSeq(v, 1, k) \in Seq(S)
            /\ Len(SubSeq(v, 1, k)) = k
            /\ \A i \in 1..k : SubSeq(v, 1, k)[i] = v[i]
        BY <3>2, <4>1
      <4>3. \A i \in 1..k : SubSeq(v, 1, k)[i] = w[i]
        BY <3>4, <4>2
      <4> QED
        BY <3>3, <4>2, <4>3
    <3> QED
      BY <3>5 DEF v, w
  <2> QED
    BY <2>2, <2>3, <2>4
<1>4. CASE within(q, old) /\ Len(old) > k
  <2>1. ~within(u, old)
    BY <1>1, <1>2, <1>4 DEF within
  <2>2. renamed(q, old, new) = [q EXCEPT ![Len(old)] = name(new)]
    BY <1>4 DEF renamed
  <2>3. renamed(u, old, new) = u
    BY <2>1 DEF renamed
  <2>4. SubSeq([q EXCEPT ![Len(old)] = name(new)], 1, k) = u
    BY <1>1, <1>2, <1>4
  <2> QED
    BY <2>2, <2>3, <2>4
<1>5. CASE ~within(q, old)
  <2>1. ~within(u, old)
    BY <1>1, <1>2, <1>5 DEF within
  <2> QED
    BY <1>5, <2>1 DEF renamed
<1> QED
  BY <1>1, <1>3, <1>4, <1>5

(* Renaming a node keeps a tree a tree.                                    *)
LEMMA RenamedClosed ==
    ASSUME NEW B, NEW S \in SUBSET (Seq(B) \ {<<>>}), NEW old \in Seq(B) \ {<<>>},
           NEW new, name(new) \in B, Closed(S)
    PROVE  /\ renamed_all(S, old, new) \subseteq Seq(B) \ {<<>>}
           /\ Closed(renamed_all(S, old, new))
<1>1. renamed_all(S, old, new) \subseteq Seq(B) \ {<<>>}
  BY RenamedIsSeq DEF renamed_all
<1>2. ASSUME NEW r \in renamed_all(S, old, new), NEW k \in 1..(Len(r) - 1)
      PROVE  SubSeq(r, 1, k) \in renamed_all(S, old, new)
  <2>1. PICK q \in S : r = renamed(q, old, new)
    BY <1>2 DEF renamed_all
  <2>2. q \in Seq(B) \ {<<>>} /\ Len(r) = Len(q)
    BY <2>1, RenamedIsSeq
  <2>3. SubSeq(r, 1, k) = renamed(SubSeq(q, 1, k), old, new)
    BY <1>2, <2>1, <2>2, RenamedPrefix
  <2>4. SubSeq(q, 1, k) \in S
    BY <1>2, <2>2 DEF Closed
  <2> QED
    BY <2>3, <2>4 DEF renamed_all
<1> QED
  BY <1>1, <1>2 DEF Closed

(* The name that the server gives is free among the siblings.              *)
LEMMA ServerNameFree ==
    ASSUME NEW B \in SUBSET Bounded, NEW want \in Wanted,
           sanitize_name(want, B).num <= MaxInstance
    PROVE  sanitize_name(want, B) \in Bounded \ B
<1> USE IntMaxAssumption, WantedNamesAssumption
<1>1. B \subseteq Names /\ want \in Names
  BY DEF Bounded
<1>2. \A c \in B : c.num <= MaxInstance /\ c.num \in Int32
  BY DEF Bounded, Names, Plain, Instance, Int32, IntMin
<1>3. IntMax \notin instance_num(want.root, B)
  BY <1>2 DEF instance_num
<1>4. sanitize_name(want, B) \in Names \ B
  BY <1>1, <1>3, SanitizedIsFresh DEF overflows
<1> QED
  BY <1>4 DEF Bounded

(* Names of paths are names.                                               *)
LEMMA NamesOfPaths ==
    ASSUME NEW S \in SUBSET Paths
    PROVE  {name(q) : q \in S} \subseteq Bounded
<1>1. ASSUME NEW q \in S PROVE name(q) \in Bounded
  <2>1. q \in Seq(Bounded) /\ q # <<>>
    BY DEF Paths, Bounded
  <2> QED
    BY <2>1 DEF name
<1> QED
  BY <1>1

(* A legal event tells of a tree with parameters.                          *)
LEMMA EffectKnown ==
    ASSUME NEW zombie, NEW s \in Known, NEW e \in Events, Legal(zombie, s, e)
    PROVE  effect(s, e) \in Known
<1>1. s.nodes \subseteq Paths /\ s.params \subseteq s.nodes /\ s.gone \subseteq Paths
  BY DEF Known
<1>2. CASE e.type = "PATH_ADDED"
  <2>1. e.path \in Paths
    BY <1>2 DEF Events
  <2> QED
    BY <1>1, <1>2, <2>1 DEF effect, Known
<1>3. CASE e.type = "PATH_REMOVED"
  <2>1. e.path \in Paths
    BY <1>3 DEF Events
  <2> QED
    BY <1>1, <1>3, <2>1 DEF effect, Known
<1>4. CASE e.type = "PATH_RENAMED"
  <2>1. e.path \in Paths /\ e.new \in Paths
    BY <1>4 DEF Events
  <2>2. \A S \in SUBSET Paths : renamed_all(S, e.path, e.new) \in SUBSET Paths
    BY <2>1, RenamedIsPath DEF renamed_all
  <2>3. renamed_all(s.params, e.path, e.new) \subseteq renamed_all(s.nodes, e.path, e.new)
    BY <1>1 DEF renamed_all
  <2>4. effect(s, e) = [nodes  |-> renamed_all(s.nodes, e.path, e.new),
                        params |-> renamed_all(s.params, e.path, e.new),
                        gone   |-> renamed_all(s.gone, e.path, e.new)]
    BY <1>4 DEF effect
  <2> QED
    BY <1>1, <2>2, <2>3, <2>4 DEF Known
<1>5. CASE e.type = "ATTRIBUTES_CHANGED"
  <2>1. e.path \in Paths /\ e.typed \in BOOLEAN /\ (e.typed => e.path \in s.nodes)
    BY <1>5 DEF Events, Legal
  <2>2. effect(s, e) = [nodes |-> s.nodes, gone |-> s.gone,
                        params |-> IF e.typed THEN s.params \cup {e.path}
                                   ELSE s.params \ {e.path}]
    BY <1>5 DEF effect
  <2>3. CASE e.typed
    BY <1>1, <2>1, <2>2, <2>3 DEF Known
  <2>4. CASE ~e.typed
    BY <1>1, <2>1, <2>2, <2>4 DEF Known
  <2> QED
    BY <2>3, <2>4
<1> QED
  BY <1>2, <1>3, <1>4, <1>5 DEF Events

(* run_commands on a synchronised mirror does what the event tells.        *)
LEMMA MirrorFollows ==
    ASSUME base \in Known, MirrorInv, synced,
           NEW e \in Events, Legal(m_zombie_on_remove, base, e), parse(e)
    PROVE  /\ live' = effect(base, e).nodes
           /\ zombies' \subseteq effect(base, e).gone
           /\ ~m_zombie_on_remove => zombies' = {}
           /\ effect(base, e).params \subseteq m_parameters'
<1>1. /\ live = base.nodes /\ zombies \subseteq base.gone
      /\ ~m_zombie_on_remove => zombies = {}
      /\ base.params \subseteq m_parameters
  BY DEF MirrorInv
<1>2. /\ base.nodes \subseteq Paths /\ base.gone \subseteq Paths
      /\ base.params \subseteq base.nodes
  BY DEF Known
<1>3. CASE e.type = "PATH_ADDED"
  <2>1. /\ e.path \in Paths /\ e.path \notin base.nodes
        /\ children(e.path, base.nodes) = {}
        /\ \A k \in 1..(Len(e.path) - 1) : SubSeq(e.path, 1, k) \in base.nodes
    BY <1>3 DEF Events, Legal
  <2>2. parse_path_added(e.path)
    BY <1>3 DEF parse
  <2>3. effect(base, e) =
          [nodes |-> base.nodes \cup {e.path}, params |-> base.params,
           gone |-> base.gone \ {e.path}]
    BY <1>3 DEF effect
  <2>4. m_parameters' = m_parameters
    BY <2>2 DEF parse_path_added
  <2>5. CASE e.path \in nodes
    <3>1. children(e.path, nodes) \subseteq zombies \ {e.path}
      <4>1. children(e.path, nodes) \subseteq zombies
        BY <1>1, <2>1 DEF children, nodes
      <4>2. e.path \notin children(e.path, nodes)
        BY <2>1, ParentLength DEF children, Paths
      <4> QED
        BY <4>1, <4>2
    <3>2. /\ live' = (live \cup {e.path}) \ children(e.path, nodes)
          /\ zombies' = (zombies \ {e.path}) \cup children(e.path, nodes)
      BY <2>2, <2>5 DEF parse_path_added
    <3>3. live \cap children(e.path, nodes) = {}
      BY <1>1, <2>1 DEF children, nodes
    <3>4. m_zombie_on_remove
      BY <1>1, <2>1, <2>5 DEF nodes
    <3> QED
      BY <1>1, <2>3, <2>4, <3>1, <3>2, <3>3, <3>4
  <2>6. CASE e.path \notin nodes
    <3>1. create_node(e.path) = {e.path}
      <4>1. e.path \in Seq(Bounded) /\ e.path # <<>>
        BY <2>1 DEF Paths, Bounded
      <4>2. SubSeq(e.path, 1, Len(e.path)) = e.path /\ Len(e.path) \in 1..Len(e.path)
        BY <4>1
      <4>3. \A k \in 1..Len(e.path) : k \in 1..(Len(e.path) - 1) \/ k = Len(e.path)
        BY <4>1
      <4>4. \A k \in 1..Len(e.path) :
              SubSeq(e.path, 1, k) \in nodes \/ SubSeq(e.path, 1, k) = e.path
        BY <1>1, <2>1, <4>2, <4>3 DEF nodes
      <4> QED
        BY <2>6, <4>2, <4>4 DEF create_node
    <3>2. live' = live \cup {e.path} /\ zombies' = zombies
      BY <2>2, <2>6, <3>1 DEF parse_path_added
    <3>3. e.path \notin zombies
      BY <2>6 DEF nodes
    <3> QED
      BY <1>1, <2>3, <2>4, <3>2, <3>3
  <2> QED
    BY <2>5, <2>6
<1>4. CASE e.type = "PATH_REMOVED"
  <2>1. e.path \in Paths /\ subtree(e.path, base.nodes) = {e.path}
    BY <1>4 DEF Events, Legal
  <2>2. parse_path_removed(e.path)
    BY <1>4 DEF parse
  <2>3. effect(base, e) =
          [nodes |-> base.nodes \ {e.path}, params |-> base.params \ {e.path},
           gone |-> base.gone \cup {e.path}]
    BY <1>4 DEF effect
  <2>4. CASE m_zombie_on_remove
    BY <1>1, <2>2, <2>3, <2>4 DEF parse_path_removed
  <2>5. CASE ~m_zombie_on_remove
    <3>1. /\ live' = live \ subtree(e.path, live)
          /\ zombies' = zombies \ subtree(e.path, zombies)
          /\ m_parameters' = m_parameters \ subtree(e.path, m_parameters)
      BY <2>2, <2>5 DEF parse_path_removed
    <3>2. \A q \in base.params \ {e.path} : q \notin subtree(e.path, m_parameters)
      BY <1>2, <2>1 DEF subtree
    <3> QED
      BY <1>1, <2>1, <2>3, <2>5, <3>1, <3>2
  <2> QED
    BY <2>4, <2>5
<1>5. CASE e.type = "PATH_RENAMED"
  <2>1. /\ e.path \in base.nodes /\ e.new \in Paths
        /\ parent(e.new) = parent(e.path) /\ Len(e.new) = Len(e.path)
        /\ e.new = e.path \/ e.new \notin base.nodes
        /\ m_zombie_on_remove => e.new \notin base.gone
    BY <1>5 DEF Events, Legal
  <2>2. parse_path_renamed(e.path, e.new)
    BY <1>5 DEF parse
  <2>3. effect(base, e) =
          [nodes  |-> renamed_all(base.nodes, e.path, e.new),
           params |-> renamed_all(base.params, e.path, e.new),
           gone   |-> renamed_all(base.gone, e.path, e.new)]
    BY <1>5 DEF effect
  <2>4. nodes \subseteq Paths /\ e.path \in nodes
    BY <1>1, <1>2, <2>1 DEF nodes
  <2>5. name(e.new) \notin brethren(e.path, nodes)
    <3>1. SUFFICES ASSUME NEW q \in children(parent(e.path), nodes) \ {e.path},
                          name(q) = name(e.new)
                   PROVE  FALSE
      BY DEF brethren
    <3>2. q \in nodes /\ q \in Paths /\ parent(q) = parent(e.new)
      BY <2>1, <2>4, <3>1 DEF children
    <3>3. Len(q) = Len(e.new)
      <4>1. Len(parent(q)) = Len(q) - 1 /\ Len(parent(e.new)) = Len(e.new) - 1
        BY <2>1, <3>2, ParentLength
      <4>2. Len(q) \in Nat /\ Len(e.new) \in Nat
        BY <2>1, <3>2 DEF Paths
      <4> QED
        BY <3>2, <4>1, <4>2
    <3>4. q = e.new
      BY <2>1, <3>1, <3>2, <3>3, PathParts
    <3> QED
      BY <1>1, <2>1, <3>1, <3>2, <3>4 DEF nodes
  <2>6. sanitize_name(name(e.new), brethren(e.path, nodes)) = name(e.new)
    BY <2>5 DEF sanitize_name
  <2>7. Append(parent(e.path), name(e.new)) = e.new
    <3>1. e.new \in Seq(Bounded) /\ e.new # <<>>
      BY <2>1 DEF Paths, Bounded
    <3>2. Append(SubSeq(e.new, 1, Len(e.new) - 1), e.new[Len(e.new)]) = e.new
      BY <3>1
    <3> QED
      BY <2>1, <3>2 DEF parent, name
  <2>8. /\ live' = renamed_all(live, e.path, e.new)
        /\ zombies' = renamed_all(zombies, e.path, e.new)
        /\ m_parameters' = renamed_all(m_parameters, e.path, e.new)
    BY <2>2, <2>4, <2>6, <2>7 DEF parse_path_renamed
  <2> QED
    BY <1>1, <2>3, <2>8 DEF renamed_all
<1>6. CASE e.type = "ATTRIBUTES_CHANGED"
  <2>1. e.typed \in BOOLEAN /\ (e.typed => e.path \in base.nodes)
    BY <1>6 DEF Events, Legal
  <2>2. parse_attributes_changed(e.path, e.typed)
    BY <1>6 DEF parse
  <2>3. effect(base, e) =
          [nodes |-> base.nodes, gone |-> base.gone,
           params |-> IF e.typed THEN base.params \cup {e.path}
                      ELSE base.params \ {e.path}]
    BY <1>6 DEF effect
  <2> QED
    BY <1>1, <2>1, <2>2, <2>3 DEF parse_attributes_changed, nodes
<1> QED
  BY <1>3, <1>4, <1>5, <1>6 DEF Events

(* A legal event can be sent: the queue stays a chain of legal steps, and  *)
(* the answers in flight keep their places in it.                          *)
LEMMA SendKeeps ==
    ASSUME ServerInv, ChainInv, AnswerInv, MirrorPaths, MirrorInv,
           NEW e \in Events, Legal(m_zombie_on_remove, told, e), send_message(e)
    PROVE  /\ told' = effect(told, e) /\ told' \in Known /\ sent' \in Nat
           /\ ChainInv' /\ AnswerInv' /\ MirrorPaths' /\ MirrorInv'
<1> DEFINE Entries == [event : Events, after : Known]
           x == [event |-> e, after |-> effect(told, e)]
<1>1. /\ m_functionQueue' = Append(m_functionQueue, x)
      /\ told' = effect(told, e)
      /\ sent' = sent + 1
      /\ base' = base /\ requests' = requests
      /\ live' = live /\ zombies' = zombies /\ m_parameters' = m_parameters
      /\ m_zombie_on_remove' = m_zombie_on_remove /\ synced' = synced
  BY DEF send_message, on_WSMessage, mirror
<1>2. sent \in Nat /\ told \in Known
  BY DEF ServerInv
<1>3. effect(told, e) \in Known
  BY <1>2, EffectKnown
<1>4. m_functionQueue \in Seq(Entries) /\ x \in Entries
  BY <1>3 DEF ChainInv
<1> DEFINE n == Len(m_functionQueue)
<1>5. /\ n \in Nat
      /\ m_functionQueue' \in Seq(Entries)
      /\ Len(m_functionQueue') = n + 1
      /\ \A i \in 1..n : m_functionQueue'[i] = m_functionQueue[i]
      /\ m_functionQueue'[n + 1] = x
  <2> HIDE DEF x, Entries
  <2> QED
    BY <1>1, <1>4
<1> HIDE DEF n, x
<1> DEFINE next(i) == after(base', m_functionQueue', i)
<1>6. \A i \in 0..n : next(i) = state(i)
  BY <1>1, <1>5 DEF state, after
<1>7. state(n) = told /\ next(n) = told /\ next(n + 1) = told'
  <2>1. next(n + 1) = x.after
    BY <1>5 DEF after
  <2>2. state(n) = told
    BY DEF ChainInv, n
  <2> QED
    BY <1>1, <1>5, <1>6, <2>1, <2>2 DEF x
<1>8. ChainInv'
  <2>1. ASSUME NEW i \in 1..(n + 1)
        PROVE  /\ Legal(m_zombie_on_remove', next(i - 1), m_functionQueue'[i].event)
               /\ next(i) = effect(next(i - 1), m_functionQueue'[i].event)
    <3>1. CASE i \in 1..n
      <4>1. next(i) = state(i) /\ next(i - 1) = state(i - 1)
        BY <1>5, <1>6, <3>1
      <4>2. m_functionQueue'[i] = m_functionQueue[i]
        BY <1>5, <3>1
      <4>3. /\ Legal(m_zombie_on_remove, state(i - 1), m_functionQueue[i].event)
            /\ state(i) = effect(state(i - 1), m_functionQueue[i].event)
        BY <3>1 DEF ChainInv, n
      <4> QED
        BY <1>1, <4>1, <4>2, <4>3
    <3>2. CASE i = n + 1
      <4>1. next(i - 1) = told /\ next(i) = effect(told, e)
        BY <1>1, <1>5, <1>7, <3>2
      <4>2. m_functionQueue'[i].event = e
        BY <1>5, <3>2 DEF x
      <4> QED
        BY <1>1, <4>1, <4>2
    <3> QED
      BY <1>5, <3>1, <3>2
  <2>2. base' \in Known
    BY <1>1 DEF ChainInv
  <2> QED
    BY <1>5, <1>7, <2>1, <2>2 DEF ChainInv, state
<1>9. AnswerInv'
  <2>1. applied' = applied /\ sent - applied = n /\ applied \in Int
    BY <1>1, <1>2, <1>5 DEF applied, n
  <2>2. ASSUME NEW k \in 1..MaxUpdates, requests[k].answer # NoAnswer,
               requests[k].answer.quiet, requests[k].answer.at >= applied
        PROVE  next(requests[k].answer.at - applied)
                 = state(requests[k].answer.at - applied)
    <3>1. requests[k].answer.at \in 0..sent
      BY <2>2 DEF AnswerInv
    <3>2. requests[k].answer.at - applied \in 0..n
      BY <1>2, <1>5, <2>1, <2>2, <3>1
    <3> QED
      BY <1>6, <3>2
  <2>3. \A k \in 1..MaxUpdates :
          requests[k].answer # NoAnswer => /\ requests[k].answer.at \in 0..(sent + 1)
                                           /\ requests[k].answer.nodes \subseteq Paths
    BY <1>2 DEF AnswerInv
  <2> QED
    BY <1>1, <2>1, <2>2, <2>3 DEF AnswerInv, state
<1>10. MirrorPaths' /\ MirrorInv'
  BY <1>1 DEF MirrorPaths, MirrorInv
<1> QED
  BY <1>1, <1>2, <1>3, <1>8, <1>9, <1>10

(* The paths of the server are sequences of names.                         *)
LEMMA PathsAreSeqs == Paths \subseteq Seq(Names) \ {<<>>}
BY DEF Paths

(* Any event leaves the mirror with paths, though a mirror that is not     *)
(* synchronised may give names that the server never gave.                 *)
LEMMA ParseKeepsPaths ==
    ASSUME MirrorPaths, NEW e \in Events, parse(e)
    PROVE  MirrorPaths'
<1> DEFINE N == Seq(Names) \ {<<>>}
<1>1. nodes \subseteq N
  BY DEF MirrorPaths, nodes
<1>2. CASE e.type = "PATH_ADDED"
  <2>1. parse_path_added(e.path) /\ e.path \in N
    BY <1>2, PathsAreSeqs DEF parse, Events
  <2>2. create_node(e.path) \subseteq N
    <3>1. ASSUME NEW k \in 1..Len(e.path) PROVE SubSeq(e.path, 1, k) \in N
      <4>1. SubSeq(e.path, 1, k) \in Seq(Names) /\ Len(SubSeq(e.path, 1, k)) = k
        BY <2>1
      <4>2. Len(<<>>) = 0 /\ k # 0
        BY <2>1
      <4> QED
        BY <4>1, <4>2
    <3> QED
      BY <3>1 DEF create_node
  <2> QED
    BY <1>1, <2>1, <2>2 DEF parse_path_added, MirrorPaths, nodes, children
<1>3. CASE e.type = "PATH_REMOVED"
  <2>1. parse_path_removed(e.path)
    BY <1>3 DEF parse
  <2> QED
    BY <1>1, <2>1 DEF parse_path_removed, MirrorPaths, nodes
<1>4. CASE e.type = "PATH_RENAMED"
  <2>1. parse_path_renamed(e.path, e.new) /\ e.new \in N
    BY <1>4, PathsAreSeqs DEF parse, Events
  <2>2. CASE e.path \notin nodes
    BY <2>1, <2>2 DEF parse_path_renamed, mirror, MirrorPaths
  <2>3. CASE e.path \in nodes
    <3> DEFINE n == sanitize_name(name(e.new), brethren(e.path, nodes))
               x == Append(parent(e.path), n)
    <3>1. /\ live' = renamed_all(live, e.path, x)
          /\ zombies' = renamed_all(zombies, e.path, x)
      BY <2>1, <2>3 DEF parse_path_renamed
    <3>2. n \in Names
      <4>1. \A q \in N : name(q) \in Names
        BY DEF name
      <4>2. brethren(e.path, nodes) \subseteq Names
        BY <1>1, <4>1 DEF brethren, children
      <4> QED
        BY <2>1, <4>1, <4>2, SanitizedIsName
    <3> HIDE DEF n
    <3>3. name(x) = n
      <4>1. parent(e.path) \in Seq(Names)
        BY <1>1, <2>3 DEF parent
      <4> QED
        BY <3>2, <4>1 DEF name
    <3> HIDE DEF x
    <3>4. \A q \in N : renamed(q, e.path, x) \in N
      BY <1>1, <2>3, <3>2, <3>3, RenamedIsSeq
    <3> QED
      BY <1>1, <3>1, <3>4 DEF renamed_all, MirrorPaths, nodes
  <2> QED
    BY <2>2, <2>3
<1>5. CASE e.type = "ATTRIBUTES_CHANGED"
  <2>1. parse_attributes_changed(e.path, e.typed)
    BY <1>5 DEF parse
  <2> QED
    BY <2>1 DEF parse_attributes_changed, MirrorPaths
<1> QED
  BY <1>2, <1>3, <1>4, <1>5 DEF Events

(* run_commands moves the mirror one step along the queue.                 *)
LEMMA RunKeeps ==
    ASSUME SyncInv, run_commands
    PROVE  ChainInv' /\ AnswerInv' /\ MirrorPaths' /\ MirrorInv'
<1> DEFINE Entries == [event : Events, after : Known]
           n == Len(m_functionQueue)
           next(i) == after(base', m_functionQueue', i)
           e == m_functionQueue[1].event
<1>1. /\ m_functionQueue # <<>> /\ m_functionQueue' = Tail(m_functionQueue)
      /\ base' = m_functionQueue[1].after /\ parse(e)
      /\ told' = told /\ sent' = sent /\ requests' = requests
      /\ m_zombie_on_remove' = m_zombie_on_remove /\ synced' = synced
  BY DEF run_commands, SyncInv, ChainInv
<1>2. m_functionQueue \in Seq(Entries) /\ base \in Known /\ sent \in Nat
  BY DEF SyncInv, ChainInv, ServerInv
<1>3. /\ n \in Nat \ {0}
      /\ m_functionQueue' \in Seq(Entries)
      /\ Len(m_functionQueue') = n - 1
      /\ \A i \in 1..(n - 1) : m_functionQueue'[i] = m_functionQueue[i + 1]
      /\ m_functionQueue[1] \in Entries
  <2> HIDE DEF Entries
  <2> QED
    BY <1>1, <1>2
<1> HIDE DEF n
<1>4. \A i \in 0..(n - 1) : next(i) = state(i + 1)
  BY <1>1, <1>3 DEF state, after
<1>5. /\ \A i \in 1..n : /\ Legal(m_zombie_on_remove, state(i - 1), m_functionQueue[i].event)
                        /\ state(i) = effect(state(i - 1), m_functionQueue[i].event)
      /\ state(n) = told
  BY DEF SyncInv, ChainInv, n
<1>6. ChainInv'
  <2>1. ASSUME NEW i \in 1..(n - 1)
        PROVE  /\ Legal(m_zombie_on_remove', next(i - 1), m_functionQueue'[i].event)
               /\ next(i) = effect(next(i - 1), m_functionQueue'[i].event)
    <3>1. i + 1 \in 1..n /\ i \in 0..(n - 1) /\ i - 1 \in 0..(n - 1) /\ (i + 1) - 1 = i
          /\ (i - 1) + 1 = i
      BY <1>3
    <3>2. next(i) = state(i + 1) /\ next(i - 1) = state(i)
      BY <1>4, <3>1
    <3>3. m_functionQueue'[i] = m_functionQueue[i + 1]
      BY <1>3
    <3>4. /\ Legal(m_zombie_on_remove, state(i), m_functionQueue[i + 1].event)
          /\ state(i + 1) = effect(state(i), m_functionQueue[i + 1].event)
      BY <1>5, <3>1
    <3> QED
      BY <1>1, <3>2, <3>3, <3>4
  <2>2. base' \in Known
    BY <1>1, <1>3
  <2>3. next(n - 1) = told'
    BY <1>1, <1>3, <1>4, <1>5
  <2> QED
    BY <1>3, <2>1, <2>2, <2>3 DEF ChainInv, state
<1>7. AnswerInv'
  <2>1. applied' = applied + 1 /\ sent - applied = n /\ applied \in Int
    BY <1>1, <1>2, <1>3 DEF applied, n
  <2>2. ASSUME NEW k \in 1..MaxUpdates, requests[k].answer # NoAnswer,
               requests[k].answer.quiet, requests[k].answer.at >= applied'
        PROVE  /\ next(requests[k].answer.at - applied')
                    = state(requests[k].answer.at - applied)
               /\ requests[k].answer.at >= applied
    <3>1. requests[k].answer.at \in 0..sent
      BY <2>2 DEF AnswerInv, SyncInv
    <3>2. /\ requests[k].answer.at - applied' \in 0..(n - 1)
          /\ (requests[k].answer.at - applied') + 1 = requests[k].answer.at - applied
          /\ requests[k].answer.at >= applied
      <4> DEFINE t == requests[k].answer.at
                 b == applied'
      <4>1. n \in Nat \ {0} /\ sent \in Nat
        BY <1>2, <1>3
      <4>2. t \in 0..sent /\ t >= b /\ b = applied + 1
        BY <2>1, <2>2, <3>1
      <4> HIDE DEF t, b
      <4>3. t - b \in 0..(n - 1) /\ (t - b) + 1 = t - applied /\ t >= applied
        BY <2>1, <4>1, <4>2
      <4> QED
        BY <4>3 DEF t, b
    <3> QED
      BY <1>4, <3>2
  <2> QED
    BY <1>1, <2>2 DEF AnswerInv, SyncInv, state
<1>8. MirrorInv'
  <2>1. SUFFICES ASSUME synced PROVE MirrorInv'
    BY <1>1 DEF MirrorInv
  <2>2. state(0) = base /\ state(1) = m_functionQueue[1].after
    BY DEF state, after
  <2>3. Legal(m_zombie_on_remove, base, e) /\ base' = effect(base, e)
    BY <1>1, <1>3, <1>5, <2>2
  <2>4. e \in Events
    BY <1>3
  <2> HIDE DEF e
  <2>5. /\ live' = effect(base, e).nodes
        /\ zombies' \subseteq effect(base, e).gone
        /\ ~m_zombie_on_remove => zombies' = {}
        /\ effect(base, e).params \subseteq m_parameters'
    BY <1>1, <1>2, <2>1, <2>3, <2>4, MirrorFollows DEF SyncInv
  <2> QED
    BY <1>1, <2>3, <2>5 DEF MirrorInv
<1>9. MirrorPaths'
  BY <1>1, <1>3, ParseKeepsPaths DEF SyncInv
<1> QED
  BY <1>6, <1>7, <1>8, <1>9

(* A namespace answer that is applied in its place brings the mirror to    *)
(* what the applied events tell.                                           *)
LEMMA NamespaceKeeps ==
    ASSUME SyncInv, NEW k \in 1..MaxUpdates, on_namespace(k)
    PROVE  ChainInv' /\ AnswerInv' /\ MirrorPaths' /\ MirrorInv'
<1> DEFINE p == requests[k].path
           r == requests[k].answer
<1>1. /\ m_functionQueue' = m_functionQueue /\ base' = base
      /\ told' = told /\ sent' = sent
      /\ m_zombie_on_remove' = m_zombie_on_remove
      /\ r # NoAnswer /\ requests' = [requests EXCEPT ![k] = NoRequest]
  BY DEF on_namespace
<1>2. ChainInv'
  BY <1>1 DEF SyncInv, ChainInv, state
<1>3. AnswerInv'
  <2>1. /\ requests' = [j \in 1..MaxUpdates |-> requests'[j]]
        /\ \A j \in 1..MaxUpdates : j # k => requests'[j] = requests[j]
        /\ requests'[k] = NoRequest
    BY <1>1 DEF SyncInv, AnswerInv
  <2>2. NoRequest.answer = NoAnswer
    BY DEF NoRequest
  <2> QED
    BY <1>1, <2>1, <2>2 DEF SyncInv, AnswerInv, applied, state
<1>4. MirrorInv'
  <2>1. CASE ~(p \in nodes \cup {<<>>})
    <3>1. live' = live /\ zombies' = zombies /\ m_parameters' = m_parameters
          /\ synced' = synced
      BY <2>1 DEF on_namespace, mirror
    <3> QED
      BY <1>1, <3>1 DEF SyncInv, MirrorInv
  <2>2. CASE p \in nodes \cup {<<>>}
    <3>1. parse_namespace(p, r) /\ synced' = (in_place(r) /\ (synced \/ p = <<>>))
      BY <2>2 DEF on_namespace
    <3>2. SUFFICES ASSUME in_place(r), synced \/ p = <<>>
                   PROVE  MirrorInv'
      BY <3>1 DEF MirrorInv
    <3>3. r.quiet /\ r.at = applied
      BY <3>2 DEF in_place, applied
    <3>4. r.nodes = subtree(p, base.nodes) /\ r.params = subtree(p, base.params)
      <4>1. r.at \in 0..sent /\ sent \in Nat
        BY <1>1 DEF SyncInv, AnswerInv, ServerInv
      <4>2. r.at >= applied /\ r.at - applied = 0
        BY <3>3, <4>1
      <4>3. state(r.at - applied) = base
        BY <4>2 DEF state, after
      <4>4. /\ r.nodes = subtree(p, state(r.at - applied).nodes)
            /\ r.params = subtree(p, state(r.at - applied).params)
        BY <1>1, <3>3, <4>2 DEF SyncInv, AnswerInv
      <4> QED
        BY <4>3, <4>4
    <3>5. /\ live' = (live \ (subtree(p, live) \ {p})) \cup (r.nodes \ {p})
          /\ zombies' = zombies \ (subtree(p, zombies) \ {p})
          /\ m_parameters' = (m_parameters \ subtree(p, m_parameters)) \cup r.params
      BY <3>1 DEF parse_namespace
    <3> HIDE DEF p, r
    <3>6. CASE p = <<>>
      <4>1. \A S : subtree(p, S) = S
        BY <3>6 DEF subtree, within
      <4>2. base.nodes \subseteq Paths
        BY DEF SyncInv, ChainInv, Known
      <4>3. <<>> \notin base.nodes /\ <<>> \notin live \cup zombies
        BY <4>2 DEF Paths, SyncInv, MirrorPaths
      <4>4. live' = base.nodes /\ zombies' = {} /\ base.params \subseteq m_parameters'
        BY <3>4, <3>5, <3>6, <4>1, <4>3
      <4> QED
        BY <1>1, <4>4 DEF MirrorInv
    <3>7. CASE synced
      <4>1. /\ live = base.nodes /\ zombies \subseteq base.gone
            /\ ~m_zombie_on_remove => zombies = {}
            /\ base.params \subseteq m_parameters
        BY <3>7 DEF SyncInv, MirrorInv
      <4>2. live' = base.nodes
        BY <3>4, <3>5, <4>1 DEF subtree
      <4>3. base.params \subseteq m_parameters'
        BY <3>4, <3>5, <4>1 DEF subtree
      <4> QED
        BY <1>1, <3>5, <4>1, <4>2, <4>3 DEF MirrorInv
    <3> QED
      BY <3>2, <3>6, <3>7
  <2> QED
    BY <2>1, <2>2
<1>5. MirrorPaths'
  <2>1. CASE ~(p \in nodes \cup {<<>>})
    BY <2>1 DEF on_namespace, mirror, SyncInv, MirrorPaths
  <2>2. CASE p \in nodes \cup {<<>>}
    <3>1. parse_namespace(p, r)
      BY <2>2 DEF on_namespace
    <3>2. r.nodes \subseteq Paths
      BY <1>1 DEF SyncInv, AnswerInv
    <3>3. Paths \subseteq Seq(Names) \ {<<>>}
      BY PathsAreSeqs
    <3> QED
      BY <3>1, <3>2, <3>3 DEF parse_namespace, SyncInv, MirrorPaths
  <2> QED
    BY <2>1, <2>2
<1> QED
  BY <1>2, <1>3, <1>4, <1>5

-----------------------------------------------------------------------------
server_step ==
    \/ \E p \in tree \cup {<<>>}, want \in Wanted : create_child(p, want)
    \/ \E p \in tree :
         \/ \E want \in Wanted : set_name(p, want)
         \/ create_parameter(p)
         \/ remove_child(p)
    \/ \E p \in params : remove_parameter(p)
    \/ \E p \in removing : removing_child(p)
    \/ signal

(* An edit that begins finds the tree told to the last detail.             *)
LEMMA IdleIsTold ==
    ASSUME ServerInv, EventsTellAll, idle
    PROVE  /\ removing = {} /\ params \subseteq tree /\ due = NoEvent
           /\ told.nodes = tree /\ told.params = params
BY DEF ServerInv, EventsTellAll, signalled, idle, Known

(* An edit finds no event waiting, and leaves one that can be sent.        *)
Edits(e) == due = NoEvent /\ Proper(e) /\ edited(e)

(* An event is sent, and none waits after it.                              *)
Tells(e) == Proper(e) /\ send_message(e) /\ due' = NoEvent

(* What an edit leaves to be told is what it has changed.                  *)
LEMMA EditTells ==
    ASSUME NEW e \in Events, edited(e)
    PROVE  signalled' = effect(told, e)
<1>1. due' = e /\ told' = told
  BY DEF edited
<1>2. e # NoEvent
  BY DEF Events, NoEvent
<1> QED
  BY <1>1, <1>2 DEF signalled

LEMMA CreateEdits ==
    ASSUME ServerInv, EventsTellAll,
           NEW p \in tree \cup {<<>>}, NEW want \in Wanted, create_child(p, want)
    PROVE  /\ \E e : Edits(e)
           /\ tree' \cup removing' \cup params' \subseteq Paths /\ Closed(tree')
           /\ \A r \in removing', q \in tree' : ~within(q, r)
           /\ EventsTellAll'
<1> DEFINE B == {name(q) : q \in children(p, tree)}
           n == sanitize_name(want, B)
           x == Append(p, n)
           e == path_added(x)
<1>1. /\ n.num <= MaxInstance /\ tree' = tree \cup {x} /\ edited(e)
      /\ params' = params /\ removing' = removing /\ idle
  BY DEF create_child, may_edit
<1>2. /\ removing = {} /\ params \subseteq tree /\ due = NoEvent
      /\ told.nodes = tree /\ told.params = params
  BY <1>1, IdleIsTold
<1>3. tree \subseteq Paths /\ Closed(tree)
  BY DEF ServerInv
<1>4. p \in Seq(Bounded)
  <2>1. CASE p \in tree
    BY <1>3, <2>1 DEF Paths, Bounded
  <2>2. CASE p = <<>>
    BY <2>2
  <2> QED
    BY <2>1, <2>2
<1>5. n \in Bounded \ B
  <2>1. children(p, tree) \in SUBSET Paths
    BY <1>3 DEF children
  <2>2. B \in SUBSET Bounded
    BY <2>1, NamesOfPaths
  <2> HIDE DEF B
  <2> QED
    BY <1>1, <2>2, ServerNameFree
<1> HIDE DEF n
<1>6. /\ x \in Paths /\ Len(x) = Len(p) + 1 /\ name(x) = n /\ parent(x) = p
      /\ \A k \in 1..(Len(p) - 1) : SubSeq(x, 1, k) = SubSeq(p, 1, k)
  BY <1>4, <1>5, AppendParts
<1>7. SubSeq(x, 1, Len(p)) = p
  BY <1>4, <1>5, <1>6 DEF parent
<1> HIDE DEF x
<1>8. x \notin tree
  BY <1>5, <1>6 DEF children
<1>9. \A k \in 1..(Len(x) - 1) : SubSeq(x, 1, k) \in tree
  <2>1. SUFFICES ASSUME NEW k \in 1..(Len(x) - 1) PROVE SubSeq(x, 1, k) \in tree
    OBVIOUS
  <2>2. Len(p) \in Nat /\ Len(<<>>) = 0
    BY <1>4
  <2>3. p \in tree
    BY <1>6, <2>1, <2>2
  <2>4. CASE k = Len(p)
    BY <1>7, <2>3, <2>4
  <2>5. CASE k # Len(p)
    <3>1. k \in 1..(Len(p) - 1)
      BY <1>6, <2>1, <2>2, <2>5
    <3> QED
      BY <1>3, <1>6, <2>3, <3>1 DEF Closed
  <2> QED
    BY <2>4, <2>5
<1>10. children(x, tree) = {}
  <2>1. SUFFICES ASSUME NEW q \in tree, parent(q) = x PROVE FALSE
    BY DEF children
  <2>2. q \in Paths /\ Len(q) \in Nat /\ Len(x) \in Nat \ {0}
    BY <1>3, <1>6 DEF Paths
  <2>3. Len(q) - 1 = Len(x)
    BY <2>1, <2>2, ParentLength
  <2>4. Len(q) - 1 \in 1..(Len(q) - 1)
    BY <2>2, <2>3
  <2> QED
    BY <1>3, <1>8, <2>1, <2>4 DEF Closed, parent
<1>11. Edits(e)
  <2>1. e.type = "PATH_ADDED" /\ e.path = x /\ e \in Events
    BY <1>6 DEF path_added, Events
  <2>2. Legal(m_zombie_on_remove /\ ~ReuseNames, told, e)
    BY <1>2, <1>8, <1>9, <1>10, <2>1 DEF Legal
  <2> HIDE DEF e
  <2> QED
    BY <1>1, <1>2, <2>1, <2>2 DEF Edits, Proper
<1>12. Closed(tree')
  BY <1>1, <1>3, <1>9 DEF Closed
<1>13. EventsTellAll'
  <2>1. signalled' = effect(told, e)
    BY <1>1, <1>11, EditTells DEF Edits, Proper
  <2>2. effect(told, e) = [nodes |-> told.nodes \cup {x}, params |-> told.params,
                           gone |-> told.gone \ {x}]
    BY DEF effect, path_added
  <2> QED
    BY <1>1, <1>2, <1>8, <2>1, <2>2 DEF EventsTellAll
<1> QED
  BY <1>1, <1>2, <1>3, <1>6, <1>11, <1>12, <1>13

LEMMA RenameEdits ==
    ASSUME ServerInv, EventsTellAll,
           NEW p \in tree, NEW want \in Wanted, set_name(p, want)
    PROVE  /\ \E e : Edits(e)
           /\ tree' \cup removing' \cup params' \subseteq Paths /\ Closed(tree')
           /\ \A r \in removing', q \in tree' : ~within(q, r)
           /\ EventsTellAll'
<1> DEFINE B == brethren(p, tree)
           n == sanitize_name(want, B)
           x == Append(parent(p), n)
           e == path_renamed(p, x)
<1>1. /\ n.num <= MaxInstance /\ edited(e) /\ removing' = removing /\ idle
      /\ sent < MaxEvents
      /\ tree' = renamed_all(tree, p, x) /\ params' = renamed_all(params, p, x)
      /\ ReuseNames \/ ~m_zombie_on_remove \/ x \notin told.gone
  BY DEF set_name, may_edit
<1>2. /\ removing = {} /\ params \subseteq tree /\ due = NoEvent
      /\ told.nodes = tree /\ told.params = params
  BY <1>1, IdleIsTold
<1>3. tree \subseteq Paths /\ Closed(tree) /\ p \in Paths
  BY DEF ServerInv
<1>4. parent(p) \in Seq(Bounded)
  BY <1>3 DEF Paths, Bounded, parent
<1>5. n \in Bounded \ B
  <2>1. children(parent(p), tree) \ {p} \in SUBSET Paths
    BY <1>3 DEF children
  <2>2. B \in SUBSET Bounded
    BY <2>1, NamesOfPaths DEF brethren
  <2> HIDE DEF B
  <2> QED
    BY <1>1, <2>2, ServerNameFree
<1> HIDE DEF n
<1>6. x \in Paths /\ Len(x) = Len(p) /\ name(x) = n /\ parent(x) = parent(p)
  <2>1. x \in Paths /\ Len(x) = Len(parent(p)) + 1 /\ name(x) = n /\ parent(x) = parent(p)
    BY <1>4, <1>5, AppendParts
  <2>2. Len(parent(p)) = Len(p) - 1 /\ Len(p) \in Nat
    BY <1>3, ParentLength DEF Paths
  <2> QED
    BY <2>1, <2>2
<1> HIDE DEF x
<1>7. x = p \/ x \notin tree
  BY <1>5, <1>6 DEF brethren, children
<1>8. Edits(e)
  <2>1. e.type = "PATH_RENAMED" /\ e.path = p /\ e.new = x /\ e \in Events
    BY <1>3, <1>6 DEF path_renamed, Events
  <2>2. Legal(m_zombie_on_remove /\ ~ReuseNames, told, e)
    BY <1>1, <1>2, <1>6, <1>7, <2>1 DEF Legal
  <2> HIDE DEF e
  <2> QED
    BY <1>1, <1>2, <2>1, <2>2 DEF Edits, Proper
<1>9. tree' \subseteq Paths /\ Closed(tree') /\ params' \subseteq Paths
  <2>1. tree' \subseteq Paths /\ Closed(tree')
    <3>1. Paths = Seq(Bounded) \ {<<>>}
      BY DEF Paths, Bounded
    <3>2. name(x) \in Bounded
      BY <1>5, <1>6
    <3> QED
      BY <1>1, <1>3, <3>1, <3>2, RenamedClosed
  <2>2. params' \subseteq tree'
    BY <1>1, <1>2 DEF renamed_all
  <2> QED
    BY <2>1, <2>2
<1>10. EventsTellAll'
  <2>1. signalled' = effect(told, e)
    BY <1>1, <1>8, EditTells DEF Edits, Proper
  <2>2. effect(told, e) = [nodes  |-> renamed_all(told.nodes, p, x),
                           params |-> renamed_all(told.params, p, x),
                           gone   |-> renamed_all(told.gone, p, x)]
    BY DEF effect, path_renamed
  <2> QED
    BY <1>1, <1>2, <2>1, <2>2 DEF EventsTellAll
<1> QED
  BY <1>1, <1>2, <1>8, <1>9, <1>10

LEMMA TypeEdits ==
    ASSUME ServerInv, EventsTellAll, NEW p \in tree, create_parameter(p)
    PROVE  /\ \E e : Edits(e)
           /\ tree' \cup removing' \cup params' \subseteq Paths /\ Closed(tree')
           /\ \A r \in removing', q \in tree' : ~within(q, r)
           /\ EventsTellAll'
<1> DEFINE e == attributes_changed(p, TRUE)
<1>1. /\ params' = params \cup {p} /\ edited(e) /\ idle
      /\ tree' = tree /\ removing' = removing
  BY DEF create_parameter, may_edit
<1>2. /\ told.nodes = tree /\ told.params = params /\ due = NoEvent
  BY <1>1, IdleIsTold
<1>3. p \in Paths
  BY DEF ServerInv
<1>4. Edits(e)
  <2>1. e.type = "ATTRIBUTES_CHANGED" /\ e.path = p /\ e.typed = TRUE /\ e \in Events
    BY <1>3 DEF attributes_changed, Events
  <2>2. Legal(m_zombie_on_remove /\ ~ReuseNames, told, e)
    BY <1>2, <2>1 DEF Legal
  <2> HIDE DEF e
  <2> QED
    BY <1>1, <1>2, <2>1, <2>2 DEF Edits, Proper
<1>5. EventsTellAll'
  <2>1. signalled' = effect(told, e)
    BY <1>1, <1>4, EditTells DEF Edits, Proper
  <2>2. effect(told, e) = [nodes |-> told.nodes, gone |-> told.gone,
                           params |-> told.params \cup {p}]
    BY DEF effect, attributes_changed
  <2>3. signalled = told
    BY <1>2 DEF signalled
  <2> HIDE DEF e
  <2>4. signalled'.nodes = told.nodes /\ signalled'.params = told.params \cup {p}
    BY <2>1, <2>2
  <2> QED
    BY <1>1, <2>3, <2>4 DEF EventsTellAll
<1> QED
  BY <1>1, <1>3, <1>4, <1>5 DEF ServerInv

LEMMA UntypeEdits ==
    ASSUME ServerInv, EventsTellAll, NEW p \in params, remove_parameter(p)
    PROVE  /\ \E e : Edits(e)
           /\ tree' \cup removing' \cup params' \subseteq Paths /\ Closed(tree')
           /\ \A r \in removing', q \in tree' : ~within(q, r)
           /\ EventsTellAll'
<1> DEFINE e == attributes_changed(p, FALSE)
<1>1. /\ params' = params \ {p} /\ edited(e) /\ due = NoEvent
      /\ tree' = tree /\ removing' = removing
  BY DEF remove_parameter, may_edit, idle
<1>2. p \in Paths
  BY DEF ServerInv
<1>3. Edits(e)
  <2>1. e.type = "ATTRIBUTES_CHANGED" /\ e.path = p /\ e.typed = FALSE /\ e \in Events
    BY <1>2 DEF attributes_changed, Events
  <2>2. Legal(m_zombie_on_remove /\ ~ReuseNames, told, e)
    BY <2>1 DEF Legal
  <2> HIDE DEF e
  <2> QED
    BY <1>1, <2>1, <2>2 DEF Edits, Proper
<1>4. EventsTellAll'
  <2>1. signalled' = effect(told, e)
    BY <1>1, <1>3, EditTells DEF Edits, Proper
  <2>2. effect(told, e) = [nodes |-> told.nodes, gone |-> told.gone,
                           params |-> told.params \ {p}]
    BY DEF effect, attributes_changed
  <2>3. signalled = told
    BY <1>1 DEF signalled
  <2> HIDE DEF e
  <2>4. signalled'.nodes = told.nodes /\ signalled'.params = told.params \ {p}
    BY <2>1, <2>2
  <2> QED
    BY <1>1, <2>3, <2>4 DEF EventsTellAll
<1> QED
  BY <1>1, <1>3, <1>4 DEF ServerInv

LEMMA RemovedTells ==
    ASSUME ServerInv, EventsTellAll, NEW p \in removing, removing_child(p)
    PROVE  /\ \E e : Tells(e)
           /\ tree' \cup removing' \cup params' \subseteq Paths /\ Closed(tree')
           /\ \A r \in removing', q \in tree' : ~within(q, r)
           /\ EventsTellAll'
<1> DEFINE e == path_removed(p)
<1>1. /\ removing' = removing \ {p} /\ send_message(e)
      /\ tree' = tree /\ params' = params /\ subtree(p, removing) = {p}
      /\ due = NoEvent /\ due' = due
  BY DEF removing_child
<1>2. p \in Paths /\ p \notin tree /\ \A q \in tree : ~within(q, p)
  BY WithinSelf DEF ServerInv
<1>3. told.nodes = tree \cup removing /\ told.params \cap tree = params \cap tree
  BY <1>1 DEF EventsTellAll, signalled
<1>4. Tells(e)
  <2>1. e.type = "PATH_REMOVED" /\ e.path = p /\ e \in Events
    BY <1>2 DEF path_removed, Events
  <2>2. subtree(p, told.nodes) = {p}
    BY <1>1, <1>2, <1>3 DEF subtree
  <2>3. Legal(m_zombie_on_remove /\ ~ReuseNames, told, e)
    BY <2>1, <2>2 DEF Legal
  <2> HIDE DEF e
  <2> QED
    BY <1>1, <2>1, <2>3 DEF Tells, Proper
<1>5. EventsTellAll'
  <2>1. told' = [nodes |-> told.nodes \ {p}, params |-> told.params \ {p},
                 gone |-> told.gone \cup {p}]
    BY <1>1 DEF send_message, effect, path_removed
  <2> QED
    BY <1>1, <1>2, <1>3, <2>1 DEF EventsTellAll, signalled
<1> QED
  BY <1>1, <1>4, <1>5 DEF ServerInv

(* The signal tells what the edit has done, and nothing waits after it.    *)
LEMMA SignalTells ==
    ASSUME ServerInv, EventsTellAll, signal
    PROVE  /\ \E e : Tells(e)
           /\ tree' \cup removing' \cup params' \subseteq Paths /\ Closed(tree')
           /\ \A r \in removing', q \in tree' : ~within(q, r)
           /\ EventsTellAll'
<1>1. /\ due # NoEvent /\ send_message(due) /\ due' = NoEvent
      /\ tree' = tree /\ params' = params /\ removing' = removing
  BY DEF signal
<1>2. Tells(due)
  BY <1>1 DEF ServerInv, Tells
<1>3. told' = effect(told, due)
  BY <1>1 DEF send_message
<1>4. signalled' = signalled
  BY <1>1, <1>3 DEF signalled
<1>5. EventsTellAll'
  BY <1>1, <1>4 DEF EventsTellAll
<1> QED
  BY <1>1, <1>2, <1>5 DEF ServerInv

(* The subtree leaves the tree before any of it is told.                   *)
LEMMA RemoveKeeps ==
    ASSUME ServerInv, EventsTellAll, NEW p \in tree, remove_child(p)
    PROVE  ServerInv' /\ EventsTellAll'
<1>1. /\ tree' = tree \ subtree(p, tree) /\ removing' = subtree(p, tree)
      /\ params' = params /\ told' = told /\ sent' = sent /\ idle
      /\ due' = due
  BY DEF remove_child, may_edit
<1>2. /\ told.nodes = tree /\ told.params = params /\ due = NoEvent
  BY <1>1, IdleIsTold
<1>3. tree \subseteq Paths /\ Closed(tree) /\ p \in Paths
  BY DEF ServerInv
<1>4. ASSUME NEW q \in tree', NEW k \in 1..(Len(q) - 1)
      PROVE  SubSeq(q, 1, k) \in tree'
  <2>1. q \in tree /\ ~within(q, p) /\ q \in Paths
    BY <1>1, <1>3 DEF subtree
  <2>2. SubSeq(q, 1, k) \in tree
    BY <1>3, <1>4, <2>1 DEF Closed
  <2>3. within(q, SubSeq(q, 1, k))
    <3>1. q \in Seq(Bounded) /\ k \in 1..Len(q)
      BY <1>4, <2>1 DEF Paths, Bounded
    <3>2. Len(SubSeq(q, 1, k)) = k /\ \A i \in 1..k : SubSeq(q, 1, k)[i] = q[i]
      BY <3>1
    <3> QED
      BY <3>1, <3>2 DEF within
  <2>4. ~within(SubSeq(q, 1, k), p)
    BY <1>3, <2>1, <2>2, <2>3, WithinTransitive
  <2> QED
    BY <1>1, <2>2, <2>4 DEF subtree
<1>5. ASSUME NEW r \in removing', NEW q \in tree' PROVE ~within(q, r)
  <2>1. q \in Paths /\ r \in Paths /\ within(r, p) /\ ~within(q, p)
    BY <1>1, <1>3, <1>5 DEF subtree
  <2> QED
    BY <1>3, <2>1, WithinTransitive
<1>6. ServerInv'
  BY <1>1, <1>2, <1>4, <1>5 DEF ServerInv, Closed, subtree
<1>7. EventsTellAll'
  BY <1>1, <1>2 DEF EventsTellAll, signalled, subtree
<1> QED
  BY <1>6, <1>7

(* The parts of SyncInv that only events and the mirror change.            *)
Silent == UNCHANGED <<told, sent, m_functionQueue, base, mirror, m_zombie_on_remove,
                      requests, calls, m_namespacePromise, synced>>

(* Every step of the server keeps what the events tell in step with it, and*)
(* sends at most one event.                                                *)
LEMMA ServerKeeps ==
    ASSUME ServerInv, EventsTellAll, server_step
    PROVE  /\ ServerInv' /\ EventsTellAll'
           /\ Silent \/ (\E e : Tells(e))
<1>1. CASE \E p \in tree : remove_child(p)
  <2>1. Silent
    BY <1>1 DEF remove_child, Silent
  <2> QED
    BY <1>1, <2>1, RemoveKeeps
<1> DEFINE Kept == /\ tree' \cup removing' \cup params' \subseteq Paths /\ Closed(tree')
                   /\ \A r \in removing', q \in tree' : ~within(q, r)
                   /\ EventsTellAll'
<1>2. CASE \/ \E p \in tree \cup {<<>>}, want \in Wanted : create_child(p, want)
           \/ \E p \in tree, want \in Wanted : set_name(p, want)
           \/ \E p \in tree : create_parameter(p)
           \/ \E p \in params : remove_parameter(p)
  <2>1. (\E e : Edits(e)) /\ Kept
    BY <1>2, CreateEdits, RenameEdits, TypeEdits, UntypeEdits
  <2>2. PICK e : Edits(e)
    BY <2>1
  <2>3. Silent /\ due' = e
    BY <2>2 DEF Edits, edited, Silent
  <2>4. Proper(e)'
    BY <2>2, <2>3 DEF Edits, Proper, Silent
  <2> QED
    BY <2>1, <2>3, <2>4 DEF ServerInv, Silent
<1>3. CASE (\E p \in removing : removing_child(p)) \/ signal
  <2>1. (\E e : Tells(e)) /\ Kept
    BY <1>3, RemovedTells, SignalTells
  <2>2. PICK e : Tells(e)
    BY <2>1
  <2>3. told' \in Known /\ sent' \in Nat
    <3>1. told \in Known /\ sent \in Nat
      BY DEF ServerInv
    <3>2. told' = effect(told, e) /\ sent' = sent + 1
      BY <2>2 DEF Tells, send_message
    <3>3. effect(told, e) \in Known
      BY <2>2, <3>1, EffectKnown DEF Tells, Proper
    <3> QED
      BY <3>1, <3>2, <3>3
  <2>4. due' = NoEvent
    BY <2>2 DEF Tells
  <2> QED
    BY <2>1, <2>3, <2>4 DEF ServerInv
<1> QED
  BY <1>1, <1>2, <1>3 DEF server_step

mirror_step ==
    \/ run_commands
    \/ \E p \in nodes \cup {<<>>}, wait \in BOOLEAN : update_async(p, wait)
    \/ update_returns
    \/ \E k \in in_flight :
         query_namespace(k) \/ http_fail(k) \/ on_namespace(k)

LEMMA StepsOfNext ==
    Next <=> server_step \/ mirror_step
BY DEF Next, server_step, mirror_step

(* Nothing that the mirror does changes the server.                        *)
LEMMA MirrorLeavesServer ==
    ASSUME ServerInv, EventsTellAll, mirror_step
    PROVE  /\ tree' = tree /\ params' = params /\ removing' = removing
           /\ told' = told /\ sent' = sent /\ ServerInv' /\ EventsTellAll'
<1>1. /\ tree' = tree /\ params' = params /\ removing' = removing /\ due' = due
      /\ told' = told /\ sent' = sent /\ m_zombie_on_remove' = m_zombie_on_remove
  BY DEF mirror_step, run_commands, update_async, update_returns,
         query_namespace, http_fail, on_namespace, server
<1> QED
  BY <1>1 DEF ServerInv, EventsTellAll, signalled, Proper, Closed

(* The mirror starts with nothing, or with the server's tree.              *)
LEMMA InitKeeps == Init => SyncInv
<1> SUFFICES ASSUME Init PROVE SyncInv
  OBVIOUS
<1>1. /\ tree = Start /\ params = {} /\ removing = {} /\ due = NoEvent
      /\ told = [nodes |-> Start, params |-> {}, gone |-> {}] /\ base = told
      /\ sent = 0 /\ m_functionQueue = <<>> /\ live \in {{}, Start}
      /\ zombies = {} /\ m_parameters = {}
      /\ requests = [k \in 1..MaxUpdates |-> NoRequest]
      /\ synced = (live = tree)
  BY DEF Init
<1>2. Start \subseteq Paths /\ Closed(Start)
  BY StartAssumption DEF Paths, Closed
<1>3. told \in Known
  BY <1>1, <1>2 DEF Known
<1>4. ServerInv /\ EventsTellAll
  BY <1>1, <1>2, <1>3 DEF ServerInv, EventsTellAll, signalled
<1>5. ChainInv
  BY <1>1, <1>3 DEF ChainInv, state, after
<1>6. AnswerInv
  <2>1. NoRequest.answer = NoAnswer
    BY DEF NoRequest
  <2> QED
    BY <1>1, <2>1 DEF AnswerInv
<1>7. MirrorPaths
  BY <1>1, <1>2, PathsAreSeqs DEF MirrorPaths
<1>8. MirrorInv
  BY <1>1 DEF MirrorInv
<1> QED
  BY <1>4, <1>5, <1>6, <1>7, <1>8 DEF SyncInv

(* A request that is made, answered or lost leaves the rest as it is.      *)
LEMMA RequestKeeps ==
    ASSUME SyncInv, NEW k, NEW r,
           requests' = [requests EXCEPT ![k] = r],
           r.answer # NoAnswer =>
             /\ r.answer.at = sent /\ r.answer.nodes \subseteq Paths
             /\ r.answer.quiet => /\ r.answer.nodes = subtree(r.path, told.nodes)
                                  /\ r.answer.params = subtree(r.path, told.params),
           UNCHANGED <<told, sent, m_functionQueue, base, mirror,
                       m_zombie_on_remove, synced>>
    PROVE  ChainInv' /\ AnswerInv' /\ MirrorPaths' /\ MirrorInv'
<1>1. ChainInv' /\ MirrorPaths' /\ MirrorInv'
  BY DEF SyncInv, ChainInv, MirrorPaths, MirrorInv, mirror, state
<1>2. /\ sent \in Nat /\ Len(m_functionQueue) \in Nat
      /\ state(Len(m_functionQueue)) = told
  BY DEF SyncInv, ServerInv, ChainInv
<1>3. sent - applied = Len(m_functionQueue)
  BY <1>2 DEF applied
<1>4. state(sent - applied) = told
  BY <1>2, <1>3
<1>5. /\ requests' = [j \in 1..MaxUpdates |-> requests'[j]]
      /\ \A j \in 1..MaxUpdates : requests'[j] = IF j = k THEN r ELSE requests[j]
  BY DEF SyncInv, AnswerInv
<1>6. sent' = sent /\ applied' = applied /\ sent \in 0..sent
      /\ \A i : after(base', m_functionQueue', i) = state(i)
  BY <1>2 DEF applied, state
<1>7. ASSUME NEW j \in 1..MaxUpdates, requests'[j].answer # NoAnswer
      PROVE  LET p == requests'[j].path
                 s == requests'[j].answer
             IN  /\ s.at \in 0..sent /\ s.nodes \subseteq Paths
                 /\ s.quiet /\ s.at >= applied =>
                      /\ s.nodes = subtree(p, state(s.at - applied).nodes)
                      /\ s.params = subtree(p, state(s.at - applied).params)
  <2>1. CASE j = k
    <3>1. requests'[j] = r
      BY <1>5, <2>1
    <3>2. r.answer.at \in 0..sent /\ state(r.answer.at - applied) = told
      BY <1>4, <1>6, <1>7, <3>1
    <3> QED
      BY <1>7, <3>1, <3>2
  <2>2. CASE j # k
    <3>1. requests'[j] = requests[j]
      BY <1>5, <2>2
    <3> QED
      BY <1>7, <3>1 DEF SyncInv, AnswerInv
  <2> QED
    BY <2>1, <2>2
<1>8. AnswerInv'
  BY <1>5, <1>6, <1>7 DEF AnswerInv, state
<1> QED
  BY <1>1, <1>8

LEMMA MirrorKeeps ==
    ASSUME SyncInv, mirror_step
    PROVE  SyncInv'
<1>1. ServerInv' /\ EventsTellAll'
  BY MirrorLeavesServer DEF SyncInv
<1>2. ASSUME NEW k \in in_flight PROVE k \in 1..MaxUpdates
  BY <1>2 DEF in_flight, SyncInv, AnswerInv
<1> SUFFICES ChainInv' /\ AnswerInv' /\ MirrorPaths' /\ MirrorInv'
  BY <1>1 DEF SyncInv
<1>3. CASE run_commands
  BY <1>3, RunKeeps
<1>4. ASSUME NEW p \in nodes \cup {<<>>}, NEW wait \in BOOLEAN, update_async(p, wait)
      PROVE  ChainInv' /\ AnswerInv' /\ MirrorPaths' /\ MirrorInv'
  <2>1. request(p).answer = NoAnswer
    BY DEF request
  <2>2. /\ requests' = [requests EXCEPT ![updates + 1] = request(p)]
        /\ UNCHANGED <<told, sent, m_functionQueue, base, mirror,
                       m_zombie_on_remove, synced>>
    BY <1>4 DEF update_async, http_send_message
  <2> QED
    BY <2>1, <2>2, RequestKeeps
<1>5. CASE update_returns
  BY <1>5 DEF update_returns, SyncInv, ChainInv, AnswerInv, MirrorPaths,
              MirrorInv, mirror, state, applied
<1>6. ASSUME NEW k \in in_flight, query_namespace(k)
      PROVE  ChainInv' /\ AnswerInv' /\ MirrorPaths' /\ MirrorInv'
  <2> DEFINE p == requests[k].path
             r == [open |-> TRUE, path |-> p, answer |->
                     [at |-> sent, quiet |-> idle,
                      nodes |-> subtree(p, tree),
                      params |-> subtree(p, params \cap tree)]]
  <2>1. /\ requests' = [requests EXCEPT ![k] = r]
        /\ UNCHANGED <<told, sent, m_functionQueue, base, mirror,
                       m_zombie_on_remove, synced>>
    BY <1>6 DEF query_namespace
  <2>2. /\ r.path = p /\ r.answer.at = sent
        /\ r.answer.quiet = idle /\ r.answer.nodes = subtree(p, tree)
        /\ r.answer.params = subtree(p, params \cap tree)
    OBVIOUS
  <2> HIDE DEF r
  <2>3. r.answer.nodes \subseteq Paths
    BY <2>2 DEF SyncInv, ServerInv, subtree
  <2>4. r.answer.quiet => /\ r.answer.nodes = subtree(r.path, told.nodes)
                          /\ r.answer.params = subtree(r.path, told.params)
    <3>1. SUFFICES ASSUME idle
                   PROVE  /\ r.answer.nodes = subtree(r.path, told.nodes)
                          /\ r.answer.params = subtree(r.path, told.params)
      BY <2>2
    <3>2. told.nodes = tree /\ told.params = params /\ params \subseteq tree
      BY <3>1, IdleIsTold DEF SyncInv
    <3>3. params \cap tree = params
      BY <3>2
    <3> QED
      BY <2>2, <3>2, <3>3
  <2> QED
    BY <2>1, <2>2, <2>3, <2>4, RequestKeeps
<1>7. ASSUME NEW k \in in_flight, http_fail(k)
      PROVE  ChainInv' /\ AnswerInv' /\ MirrorPaths' /\ MirrorInv'
  <2>1. NoRequest.answer = NoAnswer
    BY DEF NoRequest
  <2> QED
    BY <1>7, <2>1, RequestKeeps DEF http_fail
<1>8. ASSUME NEW k \in in_flight, on_namespace(k)
      PROVE  ChainInv' /\ AnswerInv' /\ MirrorPaths' /\ MirrorInv'
  BY <1>2, <1>8, NamespaceKeeps
<1> QED
  BY <1>3, <1>4, <1>5, <1>6, <1>7, <1>8 DEF mirror_step

(* If no removed name comes back by a rename, every step of the server and *)
(* of the mirror keeps the mirror on the server's path.                    *)
LEMMA SyncStep ==
    ASSUME ~ReuseNames, SyncInv, [Next]_vars
    PROVE  SyncInv'
<1>1. CASE UNCHANGED vars
  <2>1. UNCHANGED <<tree, params, removing, due, told, sent, m_functionQueue, base,
                    live, zombies, m_parameters, m_zombie_on_remove, requests,
                    synced>>
    BY <1>1 DEF vars, server, mirror
  <2> QED
    BY <2>1 DEF SyncInv, ServerInv, Proper, Closed, EventsTellAll, signalled,
                ChainInv, AnswerInv, MirrorPaths, MirrorInv, state, applied
<1>2. CASE mirror_step
  BY <1>2, MirrorKeeps
<1>3. CASE server_step
  <2>1. /\ ServerInv' /\ EventsTellAll'
        /\ Silent \/ (\E e : Tells(e))
    BY <1>3, ServerKeeps DEF SyncInv
  <2>2. CASE Silent
    BY <2>1, <2>2 DEF SyncInv, ChainInv, AnswerInv, MirrorPaths, MirrorInv,
                      mirror, state, applied, Silent
  <2>3. CASE \E e : Tells(e)
    <3>1. PICK e : Tells(e)
      BY <2>3
    <3>2. e \in Events /\ Legal(m_zombie_on_remove, told, e) /\ send_message(e)
      BY <3>1 DEF Tells, Proper, Legal
    <3>3. ChainInv' /\ AnswerInv' /\ MirrorPaths' /\ MirrorInv'
      BY <3>2, SendKeeps DEF SyncInv
    <3> QED
      BY <2>1, <3>3 DEF SyncInv
  <2> QED
    BY <2>1, <2>2, <2>3
<1> QED
  BY <1>1, <1>2, <1>3, StepsOfNext

(* The events of oscquery_server_protocol tell the whole tree, for every   *)
(* tree, every set of names and every sequence of edits.                   *)
THEOREM EventsTellAllCorrect == Spec => []EventsTellAll
<1> DEFINE I == ServerInv /\ EventsTellAll
<1>1. Init => I
  BY InitKeeps DEF SyncInv
<1>2. I /\ [Next]_vars => I'
  <2> SUFFICES ASSUME I, [Next]_vars PROVE I'
    OBVIOUS
  <2>1. CASE UNCHANGED vars
    BY <2>1 DEF vars, server, ServerInv, Proper, EventsTellAll, signalled, Closed
  <2>2. CASE server_step
    BY <2>2, ServerKeeps
  <2>3. CASE mirror_step
    BY <2>3, MirrorLeavesServer
  <2> QED
    BY <2>1, <2>2, <2>3, StepsOfNext
<1>3. I => EventsTellAll
  OBVIOUS
<1> QED
  BY <1>1, <1>2, <1>3, PTL DEF Spec

(* The mirror's tree is the server's as it was after the last event that   *)
(* run_commands applied, and its zombies were removed by the server.       *)
THEOREM MirrorIsPastCorrect ==
    ASSUME ~ReuseNames
    PROVE  Spec => []MirrorIsPast
<1>1. Init => SyncInv
  BY InitKeeps
<1>2. SyncInv /\ [Next]_vars => SyncInv'
  BY SyncStep
<1>3. SyncInv => MirrorIsPast
  BY DEF SyncInv, MirrorInv, MirrorIsPast
<1> QED
  BY <1>1, <1>2, <1>3, PTL DEF Spec

(* The parameters that the applied events told of are on the mirror, though*)
(* create_or_update_parameter_type runs for an event of its own.           *)
THEOREM ParametersArriveCorrect ==
    ASSUME ~ReuseNames
    PROVE  Spec => []ParametersArrive
<1>1. Init => SyncInv
  BY InitKeeps
<1>2. SyncInv /\ [Next]_vars => SyncInv'
  BY SyncStep
<1>3. SyncInv => ParametersArrive
  BY DEF SyncInv, MirrorInv, ParametersArrive
<1> QED
  BY <1>1, <1>2, <1>3, PTL DEF Spec

(* When the server is at rest and the queue is empty, run_commands has     *)
(* brought the mirror to the server's tree.                                *)
THEOREM UpToDateCorrect ==
    ASSUME ~ReuseNames
    PROVE  Spec => []UpToDate
<1>1. Init => SyncInv
  BY InitKeeps
<1>2. SyncInv /\ [Next]_vars => SyncInv'
  BY SyncStep
<1>3. SyncInv => UpToDate
  <2> SUFFICES ASSUME SyncInv, synced, idle, m_functionQueue = <<>>
               PROVE  live = tree
    BY DEF UpToDate
  <2>1. state(0) = told
    BY DEF SyncInv, ChainInv
  <2>2. base = told
    BY <2>1 DEF state, after
  <2>3. told.nodes = tree
    BY IdleIsTold DEF SyncInv
  <2> QED
    BY <2>2, <2>3 DEF SyncInv, MirrorInv
<1> QED
  BY <1>1, <1>2, <1>3, PTL DEF Spec

-----------------------------------------------------------------------------
(* The answers in flight that may keep the promise of a call that was made *)
(* alone were written after it.                                            *)
RecentInv ==
    /\ sent \in Nat /\ updates \in Nat
    /\ requests = [k \in 1..MaxUpdates |-> requests[k]]
    /\ m_namespacePromise = [kept  |-> m_namespacePromise.kept,
                             at    |-> m_namespacePromise.at,
                             since |-> m_namespacePromise.since,
                             alone |-> m_namespacePromise.alone]
    /\ m_namespacePromise.since \in 0..sent
    /\ \A k \in 1..MaxUpdates : requests[k].answer # NoAnswer =>
         /\ requests[k].open
         /\ m_namespacePromise.alone =>
              requests[k].answer.at >= m_namespacePromise.since
    /\ m_namespacePromise.kept /\ m_namespacePromise.alone =>
         m_namespacePromise.at >= m_namespacePromise.since

(* A step that leaves the requests and the promise alone sends an event or *)
(* none.                                                                   *)
LEMMA RecentKept ==
    ASSUME RecentInv, sent' \in {sent, sent + 1},
           UNCHANGED <<updates, requests, m_namespacePromise>>
    PROVE  RecentInv'
BY DEF RecentInv

LEMMA RecentStep == RecentInv /\ [Next]_vars => RecentInv'
<1> SUFFICES ASSUME RecentInv, [Next]_vars PROVE RecentInv'
  OBVIOUS
<1>1. CASE UNCHANGED vars
  BY <1>1, RecentKept DEF vars, calls
<1>2. CASE server_step
  <2>1. /\ sent' \in {sent, sent + 1}
        /\ UNCHANGED <<updates, requests, m_namespacePromise>>
    BY <1>2 DEF server_step, create_child, create_parameter, set_name, remove_child,
                remove_parameter, removing_child, signal, edited, send_message, calls
  <2> QED
    BY <2>1, RecentKept
<1>3. CASE run_commands \/ update_returns
  BY <1>3, RecentKept DEF run_commands, update_returns, calls
<1>4. ASSUME NEW p, NEW wait \in BOOLEAN, update_async(p, wait)
      PROVE  RecentInv'
  <2>1. \A k \in 1..MaxUpdates : ~requests[k].open => requests[k].answer = NoAnswer
    BY DEF RecentInv
  <2>2. in_flight = {} =>
          \A k \in 1..MaxUpdates : requests[k].answer = NoAnswer
    BY <2>1 DEF in_flight, RecentInv
  <2>3. \A k \in 1..MaxUpdates :
          requests'[k] = request(p) \/ requests'[k] = requests[k]
    BY <1>4 DEF update_async, http_send_message, RecentInv
  <2>4. request(p).answer = NoAnswer
    BY DEF request
  <2>5. /\ sent' = sent /\ updates' = updates + 1
        /\ m_namespacePromise' = [kept |-> FALSE, at |-> 0,
                                  since |-> IF wait THEN sent ELSE 0,
                                  alone |-> in_flight = {}]
        /\ requests' = [k \in 1..MaxUpdates |-> requests'[k]]
    BY <1>4 DEF update_async, http_send_message, RecentInv
  <2>6. m_namespacePromise'.since \in 0..sent /\ ~m_namespacePromise'.kept
    BY <2>5 DEF RecentInv
  <2>7. ASSUME NEW k \in 1..MaxUpdates, requests'[k].answer # NoAnswer
        PROVE  requests'[k].open /\ ~m_namespacePromise'.alone
    <3>1. requests'[k] = requests[k]
      BY <2>3, <2>4, <2>7
    <3>2. requests[k].answer # NoAnswer
      BY <3>1, <2>7
    <3>3. requests[k].open
      BY <3>2, <2>1
    <3>4. in_flight # {}
      BY <3>2, <2>2
    <3> QED
      BY <3>1, <3>3, <3>4, <2>5
  <2>8. m_namespacePromise' = [kept  |-> m_namespacePromise'.kept,
                               at    |-> m_namespacePromise'.at,
                               since |-> m_namespacePromise'.since,
                               alone |-> m_namespacePromise'.alone]
    BY <2>5
  <2> QED
    BY <2>5, <2>6, <2>7, <2>8 DEF RecentInv
<1>5. ASSUME NEW k \in in_flight, query_namespace(k) PROVE RecentInv'
  <2>1. /\ requests' = [requests EXCEPT ![k] = requests'[k]]
        /\ requests'[k].open /\ requests'[k].answer.at = sent
        /\ UNCHANGED <<sent, updates, m_namespacePromise>>
    BY <1>5 DEF query_namespace, in_flight, calls, RecentInv
  <2>2. \A j \in 1..MaxUpdates : j = k \/ requests'[j] = requests[j]
    BY <2>1 DEF RecentInv
  <2>3. requests' = [j \in 1..MaxUpdates |-> requests'[j]]
    BY <2>1 DEF RecentInv
  <2>4. m_namespacePromise.since <= sent
    BY DEF RecentInv
  <2> QED
    BY <2>1, <2>2, <2>3, <2>4 DEF RecentInv
<1>6. ASSUME NEW k \in in_flight, http_fail(k) PROVE RecentInv'
  BY <1>6 DEF http_fail, RecentInv, in_flight, NoRequest, calls
<1>7. ASSUME NEW k \in in_flight, on_namespace(k) PROVE RecentInv'
  <2>1. k \in 1..MaxUpdates
    BY <1>7 DEF in_flight, RecentInv
  <2>2. /\ requests[k].answer # NoAnswer
        /\ requests' = [requests EXCEPT ![k] = NoRequest]
        /\ UNCHANGED <<sent, updates>>
        /\ \/ UNCHANGED m_namespacePromise
           \/ m_namespacePromise' = [m_namespacePromise EXCEPT !.kept = TRUE,
                                                      !.at = requests[k].answer.at]
    BY <1>7 DEF on_namespace, calls
  <2>3. \A j \in 1..MaxUpdates : requests'[j].answer # NoAnswer =>
          requests'[j] = requests[j]
    BY <2>1, <2>2 DEF RecentInv, NoRequest
  <2>4. /\ m_namespacePromise'.since = m_namespacePromise.since
        /\ m_namespacePromise'.alone = m_namespacePromise.alone
    BY <2>2 DEF RecentInv
  <2> QED
    BY <2>1, <2>2, <2>3, <2>4 DEF RecentInv
<1> QED
  BY <1>1, <1>2, <1>3, <1>4, <1>5, <1>6, <1>7, StepsOfNext DEF mirror_step, Next

(* An update that was alone when it was called, and whose promise is kept, *)
(* has got an answer that the server wrote after the call, whatever older  *)
(* answers failed or came late.                                            *)
THEOREM UpdateIsRecentCorrect == Spec => []UpdateIsRecent
<1>1. Init => RecentInv
  BY SyncBoundsAssumption DEF Init, RecentInv, NoRequest
<1>2. RecentInv /\ [Next]_vars => RecentInv'
  BY RecentStep
<1>3. RecentInv => UpdateIsRecent
  BY DEF RecentInv, UpdateIsRecent
<1> QED
  BY <1>1, <1>2, <1>3, PTL DEF Spec

-----------------------------------------------------------------------------
(* The mirror gives names of its own when it renames a node next to nodes  *)
(* that the server does not have.  k events after the start, its instance  *)
(* numbers are at most k above those of the server.                        *)
Reach(k) == {w \in Names : w.num <= MaxInstance + k}

(* Only the events sent before the bound on events rename.                 *)
QueueInv ==
    /\ base \in Known
    /\ m_functionQueue \in Seq([event : Events, after : Known])
    /\ Len(m_functionQueue) <= sent
    /\ \A i \in 1..Len(m_functionQueue) :
         m_functionQueue[i].event.type = "PATH_RENAMED" => applied + i <= MaxEvents

(* The mirror's nodes are a tree, synchronised or not.                     *)
MirrorTree ==
    /\ nodes \subseteq Seq(Reach(applied)) \ {<<>>}
    /\ Closed(nodes)
    /\ live \cap zombies = {}
    /\ m_parameters \subseteq nodes

(* S is a tree with p as its root, p itself included or not.               *)
Below(p, S) ==
    \A q \in S : /\ within(q, p)
                 /\ \A k \in 1..(Len(q) - 1) : k > Len(p) => SubSeq(q, 1, k) \in S

(* Every answer is a part of a tree.                                       *)
AnswerTree ==
    /\ requests = [k \in 1..MaxUpdates |-> requests[k]]
    /\ \A k \in 1..MaxUpdates :
         LET p == requests[k].path
             r == requests[k].answer
         IN  r # NoAnswer =>
               /\ p \in Paths \cup {<<>>}
               /\ r.nodes \subseteq Paths /\ r.params \subseteq r.nodes
               /\ Below(p, r.nodes)

ShapeInv ==
    /\ ServerInv /\ EventsTellAll /\ QueueInv /\ MirrorTree /\ AnswerTree
    /\ updates \in 0..MaxUpdates
    /\ {waiting, synced, m_zombie_on_remove} \subseteq BOOLEAN

(* Instance numbers stay below the largest int.                            *)
Modest == MaxInstance + MaxEvents <= IntMax

(* One renaming raises the instance numbers by at most one.                *)
LEMMA MirrorNameFree ==
    ASSUME NEW k \in Nat, MaxInstance + k < IntMax,
           NEW B \in SUBSET Reach(k), NEW want \in Reach(k)
    PROVE  sanitize_name(want, B) \in Reach(k + 1) \ B
<1> USE IntMaxAssumption, WantedNamesAssumption
<1>1. B \subseteq Names /\ want \in Names /\ MaxInstance \in Nat
  BY DEF Reach
<1>2. \A c \in Names : c.num \in Int32 /\ c.num \in Int
  BY DEF Names, Plain, Instance, Int32, IntMin
<1>3. \A c \in B : c.num <= MaxInstance + k /\ c.num \in Int32 /\ c.num \in Int
  BY <1>1, <1>2 DEF Reach
<1>4. IntMax \notin instance_num(want.root, B)
  BY <1>1, <1>3 DEF instance_num
<1>5. sanitize_name(want, B) \in Names \ B
  BY <1>1, <1>4, SanitizedIsFresh DEF overflows
<1>6. sanitize_name(want, B).num <= MaxInstance + (k + 1)
  <2>1. CASE want \notin B
    <3>1. sanitize_name(want, B) = want
      BY <2>1 DEF sanitize_name
    <3>2. want.num <= MaxInstance + k /\ want.num \in Int
      BY <1>1, <1>2 DEF Reach
    <3> QED
      BY <1>1, <3>1, <3>2
  <2>2. CASE want \in B
    <3> DEFINE taken == instance_num(want.root, B)
    <3>1. \A m \in taken : m \in Int32 /\ m \in Int /\ m <= MaxInstance + k
      BY <1>3 DEF instance_num
    <3>2. sanitize_name(want, B) = new_instance(want.root, B)
      BY <2>2 DEF sanitize_name
    <3>3. CASE taken \subseteq {0}
      <4>1. new_instance(want.root, B).num = 1
        BY <3>3 DEF new_instance, Instance
      <4> QED
        BY <1>1, <3>2, <4>1
    <3>4. CASE ~(taken \subseteq {0})
      <4>1. new_instance(want.root, B).num = plus_one(Max(taken))
        BY <3>4 DEF new_instance, Instance
      <4>2. \E m \in taken : \A n \in taken : m >= n
        BY <3>1, <3>4, LargestInt
      <4>3. Max(taken) \in taken
        BY <4>2 DEF Max
      <4> DEFINE m == Max(taken)
      <4>4. m \in Int /\ m <= MaxInstance + k
        BY <3>1, <4>3
      <4> HIDE DEF m
      <4>5. plus_one(m) <= MaxInstance + (k + 1)
        BY <1>1, <4>4 DEF plus_one
      <4> QED
        BY <3>2, <4>1, <4>5 DEF m
    <3> QED
      BY <3>3, <3>4
  <2> QED
    BY <2>1, <2>2
<1> QED
  BY <1>5, <1>6 DEF Reach

(* A renaming to a name that no sibling has keeps apart what was apart.    *)
LEMMA RenamedApart ==
    ASSUME NEW B, NEW S \in SUBSET (Seq(B) \ {<<>>}), Closed(S), NEW old \in S,
           NEW x \in Seq(B) \ {<<>>}, Len(x) = Len(old), parent(x) = parent(old),
           name(x) \in B, name(x) \notin brethren(old, S),
           NEW q \in S, NEW r \in S, renamed(q, old, x) = renamed(r, old, x)
    PROVE  q = r
<1> DEFINE d == Len(old)
<1>1. /\ q \in Seq(B) /\ r \in Seq(B) /\ old \in Seq(B) /\ x \in Seq(B)
      /\ d \in Nat \ {0} /\ q # <<>> /\ r # <<>> /\ old # <<>>
  OBVIOUS
<1>2. Len(q) = Len(r)
  BY RenamedIsSeq
<1>3. ASSUME NEW u \in S, NEW v \in S, within(u, old), ~within(v, old),
             renamed(u, old, x) = renamed(v, old, x)
      PROVE  FALSE
  <2>1. v = [u EXCEPT ![d] = name(x)] /\ u \in Seq(B) /\ v \in Seq(B)
    BY <1>3 DEF renamed
  <2>2. /\ Len(v) = Len(u) /\ d \in 1..Len(u)
        /\ \A i \in 1..Len(u) : v[i] = IF i = d THEN name(x) ELSE u[i]
        /\ \A i \in 1..d : u[i] = old[i]
    BY <1>1, <1>3, <2>1 DEF within
  <2> DEFINE w == SubSeq(v, 1, d)
  <2>3. /\ w \in Seq(B) /\ Len(w) = d
        /\ \A i \in 1..d : w[i] = v[i]
    BY <2>1, <2>2
  <2>4. w \in S
    <3>1. CASE d = Len(v)
      <4>1. w = v
        BY <2>1, <2>2, <2>3, <3>1
      <4> QED
        BY <4>1
    <3>2. CASE d # Len(v)
      <4>1. d \in 1..(Len(v) - 1)
        BY <2>1, <2>2, <3>2
      <4> QED
        BY <4>1 DEF Closed
    <3> QED
      BY <3>1, <3>2
  <2> HIDE DEF w
  <2>5. name(w) = name(x)
    BY <1>1, <2>2, <2>3 DEF name
  <2>6. parent(w) = parent(old)
    <3>1. \A i \in 1..(d - 1) : w[i] = old[i]
      BY <1>1, <2>2, <2>3
    <3>2. /\ parent(w) \in Seq(B) /\ parent(old) \in Seq(B)
          /\ Len(parent(w)) = d - 1 /\ Len(parent(old)) = d - 1
          /\ \A i \in 1..(d - 1) : parent(w)[i] = w[i] /\ parent(old)[i] = old[i]
      BY <1>1, <2>3 DEF parent
    <3> HIDE DEF d
    <3> QED
      BY <1>1, <3>1, <3>2
  <2>7. w # old
    BY <1>1, <1>3, <2>2, <2>3 DEF within
  <2> QED
    BY <2>4, <2>5, <2>6, <2>7 DEF brethren, children
<1>4. CASE within(q, old) /\ within(r, old)
  <2>1. /\ [q EXCEPT ![d] = name(x)] = [r EXCEPT ![d] = name(x)]
        /\ d \in 1..Len(q) /\ d \in 1..Len(r)
        /\ q[d] = old[d] /\ r[d] = old[d]
    BY <1>1, <1>4 DEF renamed, within
  <2>2. ASSUME NEW i \in 1..Len(q) PROVE q[i] = r[i]
    <3>1. i = d \/ (/\ [q EXCEPT ![d] = name(x)][i] = q[i]
                    /\ [r EXCEPT ![d] = name(x)][i] = r[i])
      BY <1>1, <1>2
    <3> QED
      BY <2>1, <3>1
  <2> QED
    BY <1>1, <1>2, <2>2
<1>5. CASE ~within(q, old) /\ ~within(r, old)
  BY <1>5 DEF renamed
<1> QED
  BY <1>3, <1>4, <1>5

(* The server's paths are within reach of the mirror, always.              *)
LEMMA ReachGrows ==
    ASSUME NEW k \in Nat
    PROVE  /\ Paths \subseteq Seq(Reach(k)) \ {<<>>}
           /\ Seq(Reach(k)) \subseteq Seq(Reach(k + 1))
<1>1. MaxInstance \in Nat
  BY IntMaxAssumption, WantedNamesAssumption
<1>2. \A c \in Names : c.num \in Int
  BY IntMaxAssumption DEF Names, Plain, Instance, Int32, IntMin
<1>3. Bounded \subseteq Reach(k) /\ Reach(k) \subseteq Reach(k + 1)
  BY <1>1, <1>2 DEF Bounded, Reach
<1>4. Paths = Seq(Bounded) \ {<<>>}
  BY DEF Paths, Bounded
<1> QED
  BY <1>3, <1>4

(* The path above any path, the mirror's own included.                     *)
LEMMA ParentIsSeq ==
    ASSUME NEW B, NEW p \in Seq(B) \ {<<>>}
    PROVE  parent(p) \in Seq(B) /\ Len(parent(p)) = Len(p) - 1
<1>1. Len(p) \in Nat \ {0}
  OBVIOUS
<1>2. CASE Len(p) = 1
  BY <1>2 DEF parent
<1>3. CASE Len(p) # 1
  <2>1. Len(p) - 1 \in 1..Len(p)
    BY <1>1, <1>3
  <2> QED
    BY <2>1 DEF parent
<1> QED
  BY <1>2, <1>3

(* What is above a prefix of a path is above the path.                     *)
LEMMA PrefixOfPrefix ==
    ASSUME NEW B, NEW p \in Seq(B) \ {<<>>}, NEW k \in 1..Len(p)
    PROVE  /\ SubSeq(p, 1, k) \in Seq(B) \ {<<>>}
           /\ Len(SubSeq(p, 1, k)) = k
           /\ \A i \in 1..k : SubSeq(p, 1, k)[i] = p[i]
           /\ \A j \in 1..k : SubSeq(SubSeq(p, 1, k), 1, j) = SubSeq(p, 1, j)
<1> DEFINE u == SubSeq(p, 1, k)
<1>1. u \in Seq(B) /\ Len(u) = k /\ \A i \in 1..k : u[i] = p[i]
  OBVIOUS
<1>2. u # <<>>
  BY <1>1
<1> HIDE DEF u
<1>3. ASSUME NEW j \in 1..k PROVE SubSeq(u, 1, j) = SubSeq(p, 1, j)
  <2>1. /\ SubSeq(u, 1, j) \in Seq(B) /\ SubSeq(p, 1, j) \in Seq(B)
        /\ Len(SubSeq(u, 1, j)) = j /\ Len(SubSeq(p, 1, j)) = j
        /\ \A i \in 1..j : SubSeq(u, 1, j)[i] = u[i] /\ SubSeq(p, 1, j)[i] = p[i]
    BY <1>1
  <2>2. \A i \in 1..j : u[i] = p[i]
    BY <1>1
  <2> HIDE DEF u
  <2> QED
    BY <2>1, <2>2
<1> QED
  BY <1>1, <1>2, <1>3 DEF u

(* Whatever event run_commands applies, the mirror's nodes stay a tree, in *)
(* which no node is live and a zombie.                                     *)
LEMMA ParseKeepsTree ==
    ASSUME NEW k \in Nat, nodes \subseteq Seq(Reach(k)) \ {<<>>}, Closed(nodes),
           live \cap zombies = {}, m_parameters \subseteq nodes,
           NEW e \in Events, parse(e),
           e.type = "PATH_RENAMED" => MaxInstance + k < IntMax
    PROVE  /\ nodes' \subseteq Seq(Reach(k + 1)) \ {<<>>} /\ Closed(nodes')
           /\ live' \cap zombies' = {} /\ m_parameters' \subseteq nodes'
<1> DEFINE N == Seq(Reach(k)) \ {<<>>}
           M == Seq(Reach(k + 1)) \ {<<>>}
<1>1. N \subseteq M /\ Paths \subseteq N
  BY ReachGrows
<1>2. nodes = live \cup zombies /\ nodes' = live' \cup zombies'
  BY DEF nodes
<1>3. CASE e.type = "PATH_ADDED"
  <2>1. parse_path_added(e.path) /\ e.path \in Paths
    BY <1>3 DEF parse, Events
  <2>2. CASE e.path \in nodes
    <3>1. /\ live' = (live \cup {e.path}) \ children(e.path, nodes)
          /\ zombies' = (zombies \ {e.path}) \cup children(e.path, nodes)
          /\ m_parameters' = m_parameters
      BY <2>1, <2>2 DEF parse_path_added
    <3>2. children(e.path, nodes) \subseteq nodes
      BY DEF children
    <3>3. nodes' = nodes /\ live' \cap zombies' = {}
      BY <1>2, <2>2, <3>1, <3>2
    <3> QED
      BY <1>1, <3>1, <3>3
  <2>3. CASE e.path \notin nodes
    <3>1. /\ live' = live \cup create_node(e.path) /\ zombies' = zombies
          /\ m_parameters' = m_parameters
      BY <2>1, <2>3 DEF parse_path_added
    <3> DEFINE P == {SubSeq(e.path, 1, i) : i \in 1..Len(e.path)}
    <3>2. create_node(e.path) = P \ nodes
      BY DEF create_node
    <3>3. e.path \in N
      BY <1>1, <2>1
    <3>4. ASSUME NEW u \in P, NEW j \in 1..(Len(u) - 1)
          PROVE  u \in N /\ SubSeq(u, 1, j) \in P
      <4>1. PICK i \in 1..Len(e.path) : u = SubSeq(e.path, 1, i)
        BY <3>4
      <4>2. /\ SubSeq(e.path, 1, i) \in N
            /\ Len(SubSeq(e.path, 1, i)) = i
            /\ \A l \in 1..i :
                 SubSeq(SubSeq(e.path, 1, i), 1, l) = SubSeq(e.path, 1, l)
        BY <3>3, PrefixOfPrefix
      <4>3. j \in 1..i /\ j \in 1..Len(e.path)
        BY <3>3, <3>4, <4>1, <4>2
      <4> QED
        BY <4>1, <4>2, <4>3
    <3>5. P \subseteq N
      BY <3>3, PrefixOfPrefix
    <3> HIDE DEF P
    <3>6. nodes' = nodes \cup P /\ live' \cap zombies' = {}
      BY <1>2, <3>1, <3>2
    <3>7. Closed(nodes')
      BY <3>4, <3>6 DEF Closed
    <3> QED
      BY <1>1, <3>1, <3>5, <3>6, <3>7
  <2> QED
    BY <2>2, <2>3
<1>4. CASE e.type = "PATH_REMOVED"
  <2>1. parse_path_removed(e.path) /\ e.path \in Paths
    BY <1>4 DEF parse, Events
  <2>2. CASE m_zombie_on_remove
    <3>1. /\ live' = live \ {e.path} /\ zombies' = zombies \cup ({e.path} \cap nodes)
          /\ m_parameters' = m_parameters
      BY <2>1, <2>2 DEF parse_path_removed
    <3>2. nodes' = nodes /\ live' \cap zombies' = {}
      BY <1>2, <3>1
    <3> QED
      BY <1>1, <3>1, <3>2
  <2>3. CASE ~m_zombie_on_remove
    <3>1. /\ live' = live \ subtree(e.path, live)
          /\ zombies' = zombies \ subtree(e.path, zombies)
          /\ m_parameters' = m_parameters \ subtree(e.path, m_parameters)
      BY <2>1, <2>3 DEF parse_path_removed
    <3>2. nodes' = {q \in nodes : ~within(q, e.path)}
      BY <1>2, <3>1 DEF subtree
    <3>3. ASSUME NEW q \in nodes', NEW j \in 1..(Len(q) - 1)
          PROVE  SubSeq(q, 1, j) \in nodes'
      <4>1. q \in N /\ ~within(q, e.path) /\ SubSeq(q, 1, j) \in nodes
        BY <3>2, <3>3 DEF Closed
      <4>2. j \in 1..Len(q)
        BY <3>3, <4>1
      <4>3. Len(SubSeq(q, 1, j)) = j /\ \A i \in 1..j : SubSeq(q, 1, j)[i] = q[i]
        BY <4>1, <4>2, PrefixOfPrefix
      <4>4. Len(e.path) \in Nat
        BY <2>1 DEF Paths
      <4>5. ~within(SubSeq(q, 1, j), e.path)
        BY <4>1, <4>2, <4>3, <4>4 DEF within
      <4> QED
        BY <3>2, <4>1, <4>5
    <3>4. live' \cap zombies' = {} /\ m_parameters' \subseteq nodes'
      BY <3>1, <3>2 DEF subtree
    <3> QED
      BY <1>1, <3>2, <3>3, <3>4 DEF Closed
  <2> QED
    BY <2>2, <2>3
<1>5. CASE e.type = "PATH_RENAMED"
  <2>1. parse_path_renamed(e.path, e.new) /\ e.new \in Paths
    BY <1>5 DEF parse, Events
  <2>2. CASE e.path \notin nodes
    <3>1. live' = live /\ zombies' = zombies /\ m_parameters' = m_parameters
      BY <2>1, <2>2 DEF parse_path_renamed, mirror
    <3>2. nodes' = nodes
      BY <1>2, <3>1
    <3> QED
      BY <1>1, <3>1, <3>2
  <2>3. CASE e.path \in nodes
    <3> DEFINE old == e.path
               B == brethren(old, nodes)
               n == sanitize_name(name(e.new), B)
               x == Append(parent(old), n)
    <3>1. /\ live' = renamed_all(live, old, x)
          /\ zombies' = renamed_all(zombies, old, x)
          /\ m_parameters' = renamed_all(m_parameters, old, x)
      BY <2>1, <2>3 DEF parse_path_renamed
    <3>2. n \in Reach(k + 1) \ B
      <4>1. \A q \in N : name(q) \in Reach(k)
        BY DEF name
      <4>2. B \subseteq Reach(k)
        BY <4>1 DEF brethren, children
      <4>3. name(e.new) \in Reach(k)
        BY <1>1, <2>1, <4>1
      <4> HIDE DEF B
      <4> QED
        BY <1>5, <4>2, <4>3, MirrorNameFree
    <3> HIDE DEF n
    <3>3. old \in Seq(Reach(k + 1)) /\ old # <<>> /\ nodes \subseteq M
      BY <1>1, <2>3
    <3>4. /\ x \in Seq(Reach(k + 1)) /\ x # <<>> /\ Len(x) = Len(old)
          /\ name(x) = n /\ parent(x) = parent(old)
      <4> HIDE DEF old
      <4>1. Len(old) \in Nat \ {0}
        BY <3>3
      <4>2. parent(old) \in Seq(Reach(k + 1)) /\ Len(parent(old)) = Len(old) - 1
        BY <3>3, ParentIsSeq
      <4> DEFINE o == parent(old)
      <4> HIDE DEF o
      <4>3. o \in Seq(Reach(k + 1)) /\ Len(o) = Len(old) - 1
        BY <4>2 DEF o
      <4> DEFINE y == Append(o, n)
      <4>4. y \in Seq(Reach(k + 1)) /\ Len(y) = Len(old) /\ y[Len(old)] = n
        BY <3>2, <4>1, <4>3
      <4>5. SubSeq(y, 1, Len(y) - 1) = o
        BY <3>2, <4>1, <4>3
      <4> HIDE DEF y
      <4>6. y # <<>>
        BY <4>1, <4>4
      <4> QED
        BY <4>4, <4>5, <4>6 DEF y, o, name, parent
    <3> HIDE DEF x, B
    <3>5. /\ renamed_all(nodes, old, x) \subseteq M
          /\ Closed(renamed_all(nodes, old, x))
      BY <2>3, <3>2, <3>3, <3>4, RenamedClosed
    <3>6. nodes' = renamed_all(nodes, old, x)
      BY <1>2, <3>1 DEF renamed_all
    <3>7. m_parameters' \subseteq nodes'
      BY <3>1, <3>6 DEF renamed_all
    <3>8. live' \cap zombies' = {}
      <4>1. SUFFICES ASSUME NEW s \in live', s \in zombies' PROVE FALSE
        OBVIOUS
      <4>2. PICK q \in live : s = renamed(q, old, x)
        BY <3>1, <4>1 DEF renamed_all
      <4>3. PICK r \in zombies : s = renamed(r, old, x)
        BY <3>1, <4>1 DEF renamed_all
      <4>4. q \in nodes /\ r \in nodes /\ name(x) \notin brethren(old, nodes)
        BY <1>2, <3>2, <3>4 DEF B
      <4>5. /\ nodes \in SUBSET (Seq(Reach(k + 1)) \ {<<>>})
            /\ old \in nodes /\ x \in Seq(Reach(k + 1)) \ {<<>>}
            /\ name(x) \in Reach(k + 1) /\ renamed(q, old, x) = renamed(r, old, x)
        BY <2>3, <3>2, <3>3, <3>4, <4>2, <4>3
      <4> HIDE DEF old
      <4>6. q = r
        BY <3>4, <4>4, <4>5, RenamedApart
      <4> QED
        BY <4>6
    <3> QED
      BY <3>5, <3>6, <3>7, <3>8
  <2> QED
    BY <2>2, <2>3
<1>6. CASE e.type = "ATTRIBUTES_CHANGED"
  <2>1. parse_attributes_changed(e.path, e.typed)
    BY <1>6 DEF parse
  <2>2. live' = live /\ zombies' = zombies /\ m_parameters' \subseteq m_parameters \cup nodes
    BY <2>1 DEF parse_attributes_changed
  <2>3. nodes' = nodes
    BY <1>2, <2>2
  <2> QED
    BY <1>1, <2>2, <2>3
<1> QED
  BY <1>3, <1>4, <1>5, <1>6 DEF Events

(* A namespace answer takes the place of what the mirror had below the     *)
(* node, and leaves a tree.                                                *)
LEMMA NamespaceKeepsTree ==
    ASSUME NEW k \in Nat, nodes \subseteq Seq(Reach(k)) \ {<<>>}, Closed(nodes),
           live \cap zombies = {}, m_parameters \subseteq nodes,
           NEW p \in nodes \cup {<<>>}, NEW r,
           r.nodes \subseteq Paths, r.params \subseteq r.nodes, Below(p, r.nodes),
           parse_namespace(p, r)
    PROVE  /\ nodes' \subseteq Seq(Reach(k)) \ {<<>>} /\ Closed(nodes')
           /\ live' \cap zombies' = {} /\ m_parameters' \subseteq nodes'
<1> DEFINE N == Seq(Reach(k)) \ {<<>>}
           A == r.nodes
<1>1. Paths \subseteq N
  BY ReachGrows
<1>2. nodes = live \cup zombies /\ nodes' = live' \cup zombies'
  BY DEF nodes
<1>3. /\ live' = (live \ (subtree(p, live) \ {p})) \cup (A \ {p})
      /\ zombies' = zombies \ (subtree(p, zombies) \ {p})
      /\ m_parameters' = (m_parameters \ subtree(p, m_parameters)) \cup r.params
  BY DEF parse_namespace
<1>4. A \subseteq N /\ <<>> \notin A
  BY <1>1
<1>5. \A q \in A : within(q, p)
  BY DEF Below
<1> DEFINE K == {q \in nodes : ~within(q, p) \/ q = p}
<1>6. nodes' = K \cup (A \ {p})
  BY <1>2, <1>3 DEF subtree
<1>7. live' \cap zombies' = {}
  BY <1>3, <1>5 DEF subtree
<1>8. m_parameters' \subseteq nodes'
  <2>1. ASSUME NEW m \in r.params PROVE m \in nodes'
    <3>1. m \in A
      OBVIOUS
    <3>2. m = p => p \in nodes
      BY <1>4, <3>1
    <3> QED
      BY <1>6, <3>1, <3>2
  <2>2. m_parameters \ subtree(p, m_parameters) \subseteq K
    BY DEF subtree
  <2> QED
    BY <1>3, <1>6, <2>1, <2>2
<1>9. p \in Seq(Reach(k)) /\ Len(p) \in Nat
  <2>1. <<>> \in Seq(Reach(k))
    OBVIOUS
  <2>2. p \in Seq(Reach(k))
    BY <2>1
  <2> QED
    BY <2>2
<1>10. ASSUME NEW q \in nodes', NEW j \in 1..(Len(q) - 1)
       PROVE  SubSeq(q, 1, j) \in nodes'
  <2> DEFINE u == SubSeq(q, 1, j)
  <2>1. q \in N
    BY <1>4, <1>6
  <2>2. j \in 1..Len(q) /\ Len(q) \in Nat /\ j < Len(q)
    BY <2>1, <1>10
  <2>3. u \in N /\ Len(u) = j /\ \A i \in 1..j : u[i] = q[i]
    BY <2>1, <2>2, PrefixOfPrefix
  <2>4. CASE q \in K
    <3>1. u \in nodes
      BY <1>10, <2>4 DEF Closed
    <3>2. ~within(u, p)
      <4> HIDE DEF u
      <4>1. CASE q = p
        BY <1>9, <2>2, <2>3, <4>1 DEF within
      <4>2. CASE ~within(q, p)
        BY <1>9, <2>2, <2>3, <4>2 DEF within
      <4> QED
        BY <2>4, <4>1, <4>2
    <3> QED
      BY <1>6, <3>1, <3>2
  <2>5. CASE q \in A
    <3>1. Len(p) <= Len(q) /\ \A i \in 1..Len(p) : q[i] = p[i]
      BY <1>5, <2>5 DEF within
    <3>2. CASE j > Len(p)
      <4>1. u \in A
        BY <1>10, <2>5, <3>2 DEF Below
      <4>2. u # p
        BY <1>9, <2>2, <2>3, <3>2
      <4> QED
        BY <1>6, <4>1, <4>2
    <3>3. CASE j <= Len(p)
      <4> HIDE DEF u
      <4>1. j \in 1..Len(p) /\ p # <<>>
        BY <1>9, <2>2, <3>3
      <4>2. p \in N /\ p \in nodes
        BY <1>9, <4>1
      <4> DEFINE v == SubSeq(p, 1, j)
      <4>3. v \in N /\ Len(v) = j /\ \A i \in 1..j : v[i] = p[i]
        BY <4>1, <4>2, PrefixOfPrefix
      <4> HIDE DEF v
      <4>4. \A i \in 1..j : u[i] = v[i]
        BY <1>9, <2>3, <3>1, <4>1, <4>3
      <4>5. u = v
        BY <2>3, <4>3, <4>4
      <4>6. CASE j = Len(p)
        <5>1. \A i \in 1..j : v[i] = p[i]
          BY <4>3
        <5>2. v = p
          BY <4>2, <4>3, <4>6, <5>1
        <5>3. p \in K
          BY <4>2
        <5>4. p \in nodes'
          BY <1>6, <5>3
        <5> QED
          BY <4>5, <5>2, <5>4 DEF u
      <4>7. CASE j # Len(p)
        <5>1. j \in 1..(Len(p) - 1)
          BY <1>9, <4>1, <4>7
        <5>2. v \in nodes
          BY <4>2, <5>1 DEF Closed, v
        <5>3. ~within(u, p)
          BY <1>9, <2>2, <2>3, <5>1 DEF within
        <5> QED
          BY <1>6, <4>5, <5>2, <5>3 DEF u
      <4> QED
        BY <4>6, <4>7
    <3> QED
      BY <1>9, <2>2, <3>2, <3>3
  <2> QED
    BY <1>6, <2>4, <2>5
<1> HIDE DEF K
<1>11. K \subseteq N
  BY DEF K
<1> QED
  BY <1>4, <1>6, <1>7, <1>8, <1>10, <1>11 DEF Closed

(* What the server writes below a node of its tree.                        *)
LEMMA SubtreeIsBelow ==
    ASSUME NEW S \in SUBSET Paths, Closed(S), NEW p \in S \cup {<<>>}
    PROVE  Below(p, subtree(p, S))
<1> SUFFICES ASSUME NEW q \in subtree(p, S), NEW k \in 1..(Len(q) - 1), k > Len(p)
             PROVE  SubSeq(q, 1, k) \in subtree(p, S)
  BY DEF Below, subtree
<1>1. q \in S /\ within(q, p) /\ SubSeq(q, 1, k) \in S
  BY DEF subtree, Closed
<1>2. q \in Seq(Bounded) \ {<<>>} /\ k \in 1..Len(q)
  BY <1>1 DEF Paths, Bounded
<1>3. Len(SubSeq(q, 1, k)) = k /\ \A i \in 1..k : SubSeq(q, 1, k)[i] = q[i]
  BY <1>2, PrefixOfPrefix
<1>4. Len(p) \in Nat
  <2>1. Paths \subseteq Seq(Bounded) /\ <<>> \in Seq(Bounded)
    BY DEF Paths, Bounded
  <2>2. p \in Seq(Bounded)
    BY <2>1
  <2> QED
    BY <2>2
<1>5. within(SubSeq(q, 1, k), p)
  BY <1>1, <1>2, <1>3, <1>4 DEF within
<1> QED
  BY <1>1, <1>5 DEF subtree

(* The parts of ShapeInv that the server's edits leave alone, but for the  *)
(* queue.                                                                  *)
Rest == <<base, live, zombies, m_parameters, m_zombie_on_remove, requests, updates,
          waiting, synced>>

(* An edit adds at most one event to the queue and touches nothing of the  *)
(* mirror.                                                                 *)
LEMMA ServerKeepsShape ==
    ASSUME ShapeInv, server_step
    PROVE  ShapeInv'
<1>1. /\ ServerInv' /\ EventsTellAll'
      /\ Silent \/ (\E e : Tells(e))
  BY ServerKeeps DEF ShapeInv
<1>2. /\ QueueInv /\ MirrorTree /\ AnswerTree /\ sent \in Nat
      /\ updates \in 0..MaxUpdates
      /\ {waiting, synced, m_zombie_on_remove} \subseteq BOOLEAN
  BY DEF ShapeInv, ServerInv
<1>3. ASSUME UNCHANGED Rest, QueueInv', applied' = applied PROVE ShapeInv'
  <2>1. MirrorTree'
    BY <1>2, <1>3 DEF MirrorTree, Rest, nodes, Closed
  <2>2. AnswerTree'
    BY <1>2, <1>3 DEF AnswerTree, Rest
  <2> QED
    BY <1>1, <1>2, <1>3, <2>1, <2>2 DEF ShapeInv, Rest
<1>4. CASE Silent
  <2>1. UNCHANGED Rest /\ UNCHANGED <<sent, m_functionQueue>>
    BY <1>4 DEF Silent, mirror, calls, Rest
  <2>2. QueueInv' /\ applied' = applied
    BY <1>2, <2>1 DEF QueueInv, applied, Rest
  <2> QED
    BY <1>3, <2>1, <2>2
<1>5. CASE \E e : Tells(e)
  <2>1. PICK e : Tells(e)
    BY <1>5
  <2> DEFINE Entries == [event : Events, after : Known]
             x == [event |-> e, after |-> effect(told, e)]
             n == Len(m_functionQueue)
  <2>2. /\ m_functionQueue' = Append(m_functionQueue, x) /\ sent' = sent + 1
        /\ UNCHANGED Rest
    BY <2>1 DEF Tells, send_message, on_WSMessage, mirror, calls, Rest
  <2>3. x \in Entries
    <3>1. told \in Known
      BY DEF ShapeInv, ServerInv
    <3> QED
      BY <2>1, <3>1, EffectKnown DEF Tells, Proper
  <2>4. m_functionQueue \in Seq(Entries) /\ n \in Nat /\ n <= sent
    BY <1>2 DEF QueueInv
  <2>5. e.type = "PATH_RENAMED" => sent < MaxEvents
    BY <2>1 DEF Tells, Proper
  <2>6. x.event = e
    OBVIOUS
  <2> HIDE DEF x, Entries
  <2>7. /\ m_functionQueue' \in Seq(Entries) /\ Len(m_functionQueue') = n + 1
        /\ \A i \in 1..n : m_functionQueue'[i] = m_functionQueue[i]
        /\ m_functionQueue'[n + 1] = x
    BY <2>2, <2>3, <2>4
  <2> HIDE DEF n
  <2>8. applied' = applied /\ applied = sent - n
    BY <1>2, <2>2, <2>4, <2>7 DEF applied, n
  <2>9. MaxEvents \in Nat
    BY SyncBoundsAssumption
  <2>10. ASSUME NEW i \in 1..(n + 1), m_functionQueue'[i].event.type = "PATH_RENAMED"
         PROVE  applied + i <= MaxEvents
    <3>1. CASE i = n + 1
      <4>1. e.type = "PATH_RENAMED"
        BY <2>6, <2>7, <2>10, <3>1
      <4> QED
        BY <1>2, <2>4, <2>5, <2>8, <2>9, <3>1, <4>1
    <3>2. CASE i \in 1..n
      BY <1>2, <2>7, <2>10, <3>2 DEF QueueInv, n
    <3> QED
      BY <2>4, <3>1, <3>2
  <2>11. QueueInv'
    <3>1. base' \in Known
      BY <1>2, <2>2 DEF QueueInv, Rest
    <3>2. Len(m_functionQueue') <= sent'
      BY <1>2, <2>2, <2>4, <2>7
    <3> QED
      BY <2>7, <2>8, <2>10, <3>1, <3>2 DEF QueueInv, Entries
  <2> QED
    BY <1>3, <2>2, <2>8, <2>11
<1> QED
  BY <1>1, <1>4, <1>5

(* run_commands moves one event further, by one legal name.                *)
LEMMA RunKeepsShape ==
    ASSUME Modest, ShapeInv, run_commands
    PROVE  QueueInv' /\ MirrorTree'
<1> DEFINE Entries == [event : Events, after : Known]
           n == Len(m_functionQueue)
           e == m_functionQueue[1].event
<1>1. /\ m_functionQueue # <<>> /\ m_functionQueue' = Tail(m_functionQueue)
      /\ base' = m_functionQueue[1].after /\ parse(e) /\ sent' = sent
  BY DEF run_commands, ShapeInv, QueueInv
<1>2. m_functionQueue \in Seq(Entries) /\ sent \in Nat /\ n <= sent
  BY DEF ShapeInv, QueueInv, ServerInv
<1>3. /\ n \in Nat \ {0}
      /\ m_functionQueue' \in Seq(Entries)
      /\ Len(m_functionQueue') = n - 1
      /\ \A i \in 1..(n - 1) : m_functionQueue'[i] = m_functionQueue[i + 1]
      /\ m_functionQueue[1] \in Entries
  <2> HIDE DEF Entries
  <2> QED
    BY <1>1, <1>2
<1>4. e \in Events /\ base' \in Known
  BY <1>1, <1>3
<1>5. applied = sent - n
  BY DEF applied
<1>6. \A i \in 1..n : m_functionQueue[i].event.type = "PATH_RENAMED" =>
                        applied + i <= MaxEvents
  BY DEF ShapeInv, QueueInv
<1> HIDE DEF n
<1>7. applied \in Nat /\ applied' = applied + 1
  BY <1>1, <1>2, <1>3, <1>5 DEF applied
<1>8. QueueInv'
  <2>1. ASSUME NEW i \in 1..(n - 1), m_functionQueue'[i].event.type = "PATH_RENAMED"
        PROVE  applied' + i <= MaxEvents
    <3>1. i + 1 \in 1..n /\ applied' + i = applied + (i + 1)
      BY <1>3, <1>7
    <3>2. m_functionQueue[i + 1].event.type = "PATH_RENAMED"
      BY <1>3, <2>1
    <3> QED
      BY <1>6, <3>1, <3>2
  <2>2. Len(m_functionQueue') <= sent'
    BY <1>1, <1>2, <1>3
  <2> QED
    BY <1>3, <1>4, <2>1, <2>2 DEF QueueInv
<1>9. e.type = "PATH_RENAMED" => MaxInstance + applied < IntMax
  <2>1. e.type = "PATH_RENAMED" => applied + 1 <= MaxEvents
    BY <1>3, <1>6
  <2>2. MaxEvents \in Nat /\ MaxInstance \in Nat /\ IntMax \in Nat
    BY SyncBoundsAssumption, IntMaxAssumption, WantedNamesAssumption
  <2> QED
    BY <1>7, <2>1, <2>2 DEF Modest
<1>10. MirrorTree'
  <2>1. /\ nodes \subseteq Seq(Reach(applied)) \ {<<>>} /\ Closed(nodes)
        /\ live \cap zombies = {} /\ m_parameters \subseteq nodes
    BY DEF ShapeInv, MirrorTree
  <2> HIDE DEF e
  <2>2. /\ nodes' \subseteq Seq(Reach(applied + 1)) \ {<<>>} /\ Closed(nodes')
        /\ live' \cap zombies' = {} /\ m_parameters' \subseteq nodes'
    BY <1>1, <1>4, <1>7, <1>9, <2>1, ParseKeepsTree
  <2>3. Reach(applied)' = Reach(applied')
    BY DEF Reach
  <2> QED
    BY <1>7, <2>2, <2>3 DEF MirrorTree, Closed
<1> QED
  BY <1>8, <1>10

(* Requests come, fail, and are answered with a part of the tree.          *)
LEMMA RequestKeepsShape ==
    ASSUME ShapeInv, NEW k,
           \/ \E p \in nodes \cup {<<>>}, wait \in BOOLEAN :
                k = updates + 1 /\ update_async(p, wait)
           \/ k \in in_flight /\ (query_namespace(k) \/ http_fail(k) \/ on_namespace(k))
    PROVE  AnswerTree'
<1>1. AnswerTree /\ tree \subseteq Paths /\ Closed(tree)
  BY DEF ShapeInv, ServerInv
<1>2. ASSUME requests' = [requests EXCEPT ![k] = requests'[k]],
             LET p == requests'[k].path
                 r == requests'[k].answer
             IN  r # NoAnswer =>
                   /\ p \in Paths \cup {<<>>}
                   /\ r.nodes \subseteq Paths /\ r.params \subseteq r.nodes
                   /\ Below(p, r.nodes)
      PROVE  AnswerTree'
  <2>1. requests' = [j \in 1..MaxUpdates |-> requests'[j]]
    BY <1>1, <1>2 DEF AnswerTree
  <2>2. \A j \in 1..MaxUpdates : j # k => requests'[j] = requests[j]
    BY <1>1, <1>2 DEF AnswerTree
  <2>3. ASSUME NEW j \in 1..MaxUpdates, requests'[j].answer # NoAnswer
        PROVE  /\ requests'[j].path \in Paths \cup {<<>>}
               /\ requests'[j].answer.nodes \subseteq Paths
               /\ requests'[j].answer.params \subseteq requests'[j].answer.nodes
               /\ Below(requests'[j].path, requests'[j].answer.nodes)
    <3>1. CASE j = k
      BY <1>2, <2>3, <3>1
    <3>2. CASE j # k
      <4>1. requests'[j] = requests[j]
        BY <2>2, <3>2
      <4> QED
        BY <1>1, <2>3, <4>1 DEF AnswerTree
    <3> QED
      BY <3>1, <3>2
  <2> QED
    BY <2>1, <2>3 DEF AnswerTree, Below
<1>3. ASSUME NEW f, f.answer = NoAnswer, requests' = [requests EXCEPT ![k] = f]
      PROVE  AnswerTree'
  <2>1. CASE k \in 1..MaxUpdates
    <3>1. requests'[k] = f
      BY <1>1, <1>3, <2>1 DEF AnswerTree
    <3> QED
      BY <1>2, <1>3, <3>1
  <2>2. CASE k \notin 1..MaxUpdates
    <3>1. requests' = requests
      BY <1>1, <1>3, <2>2 DEF AnswerTree
    <3> QED
      BY <1>1, <3>1 DEF AnswerTree, Below
  <2> QED
    BY <2>1, <2>2
<1>4. CASE \E p \in nodes \cup {<<>>}, wait \in BOOLEAN :
             k = updates + 1 /\ update_async(p, wait)
  <2>1. PICK p : requests' = [requests EXCEPT ![k] = request(p)]
    BY <1>4 DEF update_async, http_send_message
  <2>2. request(p).answer = NoAnswer
    BY DEF request
  <2> QED
    BY <1>3, <2>1, <2>2
<1>5. CASE k \in in_flight /\ (http_fail(k) \/ on_namespace(k))
  <2>1. requests' = [requests EXCEPT ![k] = NoRequest] /\ NoRequest.answer = NoAnswer
    BY <1>5 DEF http_fail, on_namespace, NoRequest
  <2> QED
    BY <1>3, <2>1
<1>6. CASE k \in in_flight /\ query_namespace(k)
  <2> DEFINE p == requests[k].path
             r == [at |-> sent, quiet |-> idle, nodes |-> subtree(p, tree),
                   params |-> subtree(p, params \cap tree)]
             f == [open |-> TRUE, path |-> p, answer |-> r]
  <2>1. p \in tree \cup {<<>>} /\ requests' = [requests EXCEPT ![k] = f]
    BY <1>6 DEF query_namespace
  <2>2. k \in 1..MaxUpdates
    BY <1>1, <1>6 DEF in_flight, AnswerTree
  <2>3. f.path = p /\ f.answer = r
    OBVIOUS
  <2>4. r.nodes = subtree(p, tree) /\ r.params = subtree(p, params \cap tree)
    OBVIOUS
  <2> HIDE DEF f, r
  <2>5. requests'[k] = f
    BY <1>1, <2>1, <2>2 DEF AnswerTree
  <2> HIDE DEF p
  <2>6. r.nodes \subseteq Paths /\ r.params \subseteq r.nodes /\ p \in Paths \cup {<<>>}
    BY <1>1, <2>1, <2>4 DEF subtree
  <2>7. Below(p, r.nodes)
    BY <1>1, <2>1, <2>4, SubtreeIsBelow
  <2> QED
    BY <1>2, <2>1, <2>3, <2>5, <2>6, <2>7
<1> QED
  BY <1>4, <1>5, <1>6

(* Every step of the mirror and of its requests keeps the shape.           *)
LEMMA MirrorKeepsShape ==
    ASSUME Modest, ShapeInv, mirror_step
    PROVE  ShapeInv'
<1>1. ServerInv' /\ EventsTellAll' /\ sent' = sent
  BY MirrorLeavesServer DEF ShapeInv
<1>2. /\ QueueInv /\ MirrorTree /\ AnswerTree /\ sent \in Nat
      /\ updates \in 0..MaxUpdates /\ MaxUpdates \in Nat
      /\ waiting \in BOOLEAN /\ synced \in BOOLEAN /\ m_zombie_on_remove \in BOOLEAN
  BY SyncBoundsAssumption DEF ShapeInv, ServerInv
<1>3. ASSUME m_functionQueue' = m_functionQueue, base' = base
      PROVE  QueueInv' /\ applied' = applied
  BY <1>1, <1>2, <1>3 DEF QueueInv, applied
<1>4. ASSUME m_functionQueue' = m_functionQueue, base' = base, UNCHANGED mirror
      PROVE  MirrorTree'
  BY <1>2, <1>3, <1>4 DEF MirrorTree, nodes, mirror, Closed
<1>5. m_zombie_on_remove' \in BOOLEAN
  BY <1>2 DEF mirror_step, run_commands, update_async, update_returns,
              query_namespace, http_fail, on_namespace
<1>6. CASE run_commands
  <2>1. UNCHANGED <<requests, updates, waiting, synced>>
    BY <1>6 DEF run_commands, calls
  <2>2. AnswerTree'
    BY <1>2, <2>1 DEF AnswerTree
  <2>3. QueueInv' /\ MirrorTree'
    BY <1>6, RunKeepsShape
  <2> QED
    BY <1>1, <1>2, <1>5, <2>1, <2>2, <2>3 DEF ShapeInv
<1>7. ASSUME NEW p \in nodes \cup {<<>>}, NEW wait \in BOOLEAN, update_async(p, wait)
      PROVE  ShapeInv'
  <2>1. /\ m_functionQueue' = m_functionQueue /\ base' = base /\ UNCHANGED mirror
        /\ updates < MaxUpdates /\ updates' = updates + 1
        /\ waiting' = wait /\ synced' = synced
    BY <1>7 DEF update_async
  <2>2. AnswerTree'
    <3>1. \E q \in nodes \cup {<<>>}, w \in BOOLEAN :
            updates + 1 = updates + 1 /\ update_async(q, w)
      BY <1>7, Zenon
    <3> QED
      BY <3>1, RequestKeepsShape, Zenon
  <2>3. updates' \in 0..MaxUpdates
    BY <1>2, <2>1
  <2> QED
    BY <1>1, <1>2, <1>3, <1>4, <1>5, <2>1, <2>2, <2>3 DEF ShapeInv
<1>8. CASE update_returns
  <2>1. /\ m_functionQueue' = m_functionQueue /\ base' = base /\ UNCHANGED mirror
        /\ UNCHANGED <<requests, updates, synced>> /\ waiting' = FALSE
    BY <1>8 DEF update_returns
  <2>2. AnswerTree'
    BY <1>2, <2>1 DEF AnswerTree
  <2> QED
    BY <1>1, <1>2, <1>3, <1>4, <1>5, <2>1, <2>2 DEF ShapeInv
<1>9. ASSUME NEW k \in in_flight, query_namespace(k) \/ http_fail(k)
      PROVE  ShapeInv'
  <2>1. /\ m_functionQueue' = m_functionQueue /\ base' = base /\ UNCHANGED mirror
        /\ UNCHANGED <<updates, waiting, synced>>
    BY <1>9 DEF query_namespace, http_fail, calls
  <2>2. AnswerTree'
    BY <1>9, RequestKeepsShape
  <2> QED
    BY <1>1, <1>2, <1>3, <1>4, <1>5, <2>1, <2>2 DEF ShapeInv
<1>10. ASSUME NEW k \in in_flight, on_namespace(k)
       PROVE  ShapeInv'
  <2> DEFINE p == requests[k].path
             r == requests[k].answer
  <2>1. /\ m_functionQueue' = m_functionQueue /\ base' = base
        /\ UNCHANGED <<updates, waiting>> /\ r # NoAnswer
    BY <1>10 DEF on_namespace, calls
  <2>2. AnswerTree'
    BY <1>10, RequestKeepsShape
  <2>3. QueueInv' /\ applied' = applied
    BY <1>3, <2>1
  <2>4. MirrorTree' /\ synced' \in BOOLEAN
    <3>1. CASE ~(p \in nodes \cup {<<>>})
      <4>1. UNCHANGED mirror /\ synced' = synced
        BY <1>10, <3>1 DEF on_namespace
      <4> QED
        BY <1>2, <1>4, <2>1, <4>1
    <3>2. CASE p \in nodes \cup {<<>>}
      <4>1. /\ parse_namespace(p, r)
            /\ synced' = (in_place(r) /\ (synced \/ p = <<>>))
        BY <1>10, <3>2 DEF on_namespace
      <4>2. k \in 1..MaxUpdates
        BY <1>2 DEF in_flight, AnswerTree
      <4>3. r.nodes \subseteq Paths /\ r.params \subseteq r.nodes /\ Below(p, r.nodes)
        BY <1>2, <2>1, <4>2 DEF AnswerTree
      <4>4. /\ nodes \subseteq Seq(Reach(applied)) \ {<<>>} /\ Closed(nodes)
            /\ live \cap zombies = {} /\ m_parameters \subseteq nodes
        BY <1>2 DEF MirrorTree
      <4>5. applied \in Nat
        BY <1>2 DEF applied, QueueInv
      <4> HIDE DEF p, r
      <4>6. /\ nodes' \subseteq Seq(Reach(applied)) \ {<<>>} /\ Closed(nodes')
            /\ live' \cap zombies' = {} /\ m_parameters' \subseteq nodes'
        BY <3>2, <4>1, <4>3, <4>4, <4>5, NamespaceKeepsTree
      <4>7. Reach(applied)' = Reach(applied)
        BY <2>3 DEF Reach
      <4>8. MirrorTree'
        BY <4>6, <4>7 DEF MirrorTree, Closed
      <4>9. synced' \in BOOLEAN
        BY <4>1
      <4> QED
        BY <4>8, <4>9
    <3> QED
      BY <3>1, <3>2
  <2> QED
    BY <1>1, <1>2, <1>5, <2>1, <2>2, <2>3, <2>4 DEF ShapeInv
<1> QED
  BY <1>6, <1>7, <1>8, <1>9, <1>10 DEF mirror_step

(* The mirror starts as a tree, without requests.                          *)
LEMMA InitShape == Init => ShapeInv
<1> SUFFICES ASSUME Init PROVE ShapeInv
  OBVIOUS
<1>1. ServerInv /\ EventsTellAll /\ base \in Known
  BY InitKeeps DEF SyncInv, ChainInv
<1>2. /\ m_functionQueue = <<>> /\ sent = 0 /\ live \subseteq tree /\ zombies = {}
      /\ m_parameters = {} /\ live \in {{}, tree} /\ updates = 0 /\ waiting = FALSE
      /\ requests = [k \in 1..MaxUpdates |-> NoRequest]
      /\ synced = (live = tree) /\ m_zombie_on_remove \in BOOLEAN
  BY DEF Init
<1>3. QueueInv /\ applied = 0
  <2>1. Len(m_functionQueue) = 0
    BY <1>2
  <2>2. m_functionQueue \in Seq([event : Events, after : Known])
    BY <1>2
  <2>3. applied = 0
    <3>1. sent = 0
      BY <1>2
    <3>2. applied = 0 - 0
      BY <2>1, <3>1 DEF applied
    <3> QED
      BY ONLY <3>2
  <2>4. \A i \in 1..Len(m_functionQueue) : FALSE
    BY <2>1
  <2>5. Len(m_functionQueue) <= sent
    BY <1>2, <2>1
  <2> QED
    BY <1>1, <2>2, <2>3, <2>4, <2>5 DEF QueueInv
<1>4. MirrorTree
  <2>1. nodes = live /\ live \subseteq Paths /\ Closed(live)
    BY <1>1, <1>2 DEF nodes, ServerInv, Closed
  <2>2. Paths \subseteq Seq(Reach(0)) \ {<<>>}
    BY ReachGrows
  <2> QED
    BY <1>2, <1>3, <2>1, <2>2 DEF MirrorTree
<1>5. AnswerTree
  BY <1>2 DEF AnswerTree, NoRequest
<1>6. updates \in 0..MaxUpdates /\ {waiting, synced, m_zombie_on_remove} \subseteq BOOLEAN
  <2>1. 0 \in 0..MaxUpdates
    BY SyncBoundsAssumption
  <2>2. synced \in BOOLEAN
    BY <1>2, Zenon
  <2> QED
    BY <1>2, <2>1, <2>2
<1> QED
  BY <1>1, <1>3, <1>4, <1>5, <1>6 DEF ShapeInv

(* Whatever the mirror missed, whatever came late and whatever names it    *)
(* had to invent, its nodes are paths of names, none is both live and a    *)
(* zombie, and each parameter has its node: renaming a node of the mirror  *)
(* never makes two nodes one.  The assumption excludes instance numbers    *)
(* that overflow, which C++ does not define.                               *)
THEOREM TypeCorrect ==
    ASSUME Modest
    PROVE  Spec => []TypeOK
<1>1. Init => ShapeInv
  BY InitShape
<1>2. ShapeInv /\ [Next]_vars => ShapeInv'
  <2> SUFFICES ASSUME ShapeInv, [Next]_vars PROVE ShapeInv'
    OBVIOUS
  <2>1. CASE UNCHANGED vars
    BY <2>1 DEF vars, server, mirror, calls, ShapeInv, ServerInv, Proper, EventsTellAll,
                signalled, QueueInv, MirrorTree, AnswerTree, applied, nodes, Closed
  <2>2. CASE server_step
    BY <2>2, ServerKeepsShape
  <2>3. CASE mirror_step
    BY <2>3, MirrorKeepsShape
  <2> QED
    BY <2>1, <2>2, <2>3, StepsOfNext
<1>3. ShapeInv => TypeOK
  <2> SUFFICES ASSUME ShapeInv PROVE TypeOK
    OBVIOUS
  <2>1. due # NoEvent => due \in Events
    BY DEF ShapeInv, ServerInv, Proper
  <2>2. due # NoEvent => due.path \in Paths
    BY <2>1 DEF Events
  <2> QED
    BY <2>2 DEF ShapeInv, ServerInv, QueueInv, MirrorTree, TypeOK
<1> QED
  BY <1>1, <1>2, <1>3, PTL DEF Spec
=============================================================================
