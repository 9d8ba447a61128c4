--------------------------- MODULE GenericProofs ---------------------------
(***************************************************************************)
(* TLAPS proofs about generic nodes and parameters: the children of a node *)
(* keep distinct names but for those that threads choose at the same time; *)
(* values, callbacks and message queues keep together whatever threads do. *)
(***************************************************************************)
EXTENDS Siblings, ParameterValue, SanitizeNameProofs, SequenceTheorems,
        FiniteSetTheorems, TLAPS

(* One thread makes all the edits of the children of a node.               *)
OneThread == \A t, u \in Editors : t = u

(* Between its choice and its appearance, a name may be taken by a sibling *)
(* only if that sibling's appeared in between.                             *)
PendingFresh ==
    ~overflow => \A t \in Editors : pending[t] # Idle =>
        \A j \in named : m_name[j] = m_name[pending[t]] => <<pending[t], j>> \in crossed

(* The inductive invariant: the names that are pending matter too.         *)
NamesInv == TypeOK /\ NamesUnique /\ PendingFresh

(* Types are kept by every edit of the children.                           *)
LEMMA ChildrenTypeStep == TypeOK /\ [ChildrenNext]_childrenVars => TypeOK'
<1> USE WantedAssumption, IdleAssumption
<1> SUFFICES ASSUME TypeOK, [ChildrenNext]_childrenVars PROVE TypeOK'
  OBVIOUS
<1>0. \A kids \in SUBSET m_children : names(kids) \in SUBSET Names
  BY DEF TypeOK, names
<1>k. named \in SUBSET m_children /\ \A t \in Editors : pending[t] \notin named
  BY DEF named
<1>c. ASSUME NEW t \in Editors, NEW j
      PROVE  crossing(t, j) \subseteq (DOMAIN m_name \cup {j}) \X (DOMAIN m_name \cup {j})
  BY DEF crossing, TypeOK
<1>1. ASSUME NEW t \in Editors, NEW want \in Wanted, create_child(t, want)
      PROVE TypeOK'
  <2>1. PICK i \in unused :
          /\ m_name' = [j \in DOMAIN m_name \cup {i} |->
                          IF j = i THEN sanitize_name(want, names(named))
                          ELSE m_name[j]]
          /\ m_children' = m_children \cup {i}
          /\ crossed' = crossing(t, i)
    BY <1>1 DEF create_child
  <2>2. sanitize_name(want, names(named)) \in Names
    BY <1>0, <1>k, SanitizedIsName
  <2>3. overflow' \in BOOLEAN /\ pending' = pending
    BY <1>1 DEF create_child
  <2>4. crossed' \subseteq (DOMAIN m_name') \X (DOMAIN m_name')
    BY <1>c, <2>1
  <2> QED
    BY <2>1, <2>2, <2>3, <2>4 DEF TypeOK, unused
<1>2. ASSUME NEW t \in Editors, NEW want \in Wanted, add_child_check(t, want)
      PROVE TypeOK'
  <2>1. PICK i \in unused :
          /\ m_name' = [j \in DOMAIN m_name \cup {i} |->
                          IF j = i THEN want ELSE m_name[j]]
          /\ pending' = [pending EXCEPT ![t] = i]
    BY <1>2 DEF add_child_check
  <2>2. m_children' = m_children /\ overflow' \in BOOLEAN /\ crossed' = crossed
    BY <1>2 DEF add_child_check
  <2> QED
    BY <2>1, <2>2 DEF TypeOK, unused
<1>3. ASSUME NEW t \in Editors, NEW i \in Ids, NEW want \in Wanted,
             set_name_sanitize(t, i, want)
      PROVE TypeOK'
  <2>1. sanitize_name(want, names(named \ {i})) \in Names
    BY <1>0, <1>k, SanitizedIsName
  <2>2. crossed' \subseteq crossed /\ overflow' \in BOOLEAN /\ m_children' = m_children
    BY <1>3 DEF set_name_sanitize, without
  <2>3. /\ m_name' = [m_name EXCEPT ![i] = sanitize_name(want, names(named \ {i}))]
        /\ pending' = [pending EXCEPT ![t] = i]
        /\ i \in m_children /\ \A u \in Editors : pending[u] # i
    BY <1>3, <1>k DEF set_name_sanitize
  <2> QED
    BY <2>1, <2>2, <2>3 DEF TypeOK
<1>4. ASSUME NEW t \in Editors, NEW i \in Ids, remove_child(t, i)
      PROVE TypeOK'
  <2>1. /\ m_children' = m_children \ {i} /\ DOMAIN m_name' = DOMAIN m_name \ {i}
        /\ \A j \in DOMAIN m_name' : m_name'[j] = m_name[j]
        /\ pending' = pending /\ overflow' = overflow
        /\ \A u \in Editors : pending[u] # i
    BY <1>4, <1>k DEF remove_child
  <2>2. crossed' \subseteq (DOMAIN m_name') \X (DOMAIN m_name')
    BY <1>4, <2>1 DEF remove_child, without, TypeOK
  <2> QED
    BY <2>1, <2>2 DEF TypeOK
<1>5. ASSUME NEW t \in Editors, add_child_insert(t) \/ set_name_assign(t) PROVE TypeOK'
  <2>1. /\ m_children' = m_children \cup {pending[t]} /\ pending[t] # Idle
        /\ crossed' = crossing(t, pending[t])
        /\ pending' = [pending EXCEPT ![t] = Idle]
        /\ UNCHANGED <<m_name, overflow>>
    BY <1>5 DEF add_child_insert, set_name_assign, TypeOK
  <2>2. crossed' \subseteq (DOMAIN m_name) \X (DOMAIN m_name)
    BY <1>c, <2>1 DEF TypeOK
  <2> QED
    BY <2>1, <2>2 DEF TypeOK
<1>6. CASE UNCHANGED childrenVars
  BY <1>6 DEF childrenVars, TypeOK
<1> QED
  BY <1>1, <1>2, <1>3, <1>4, <1>5, <1>6 DEF ChildrenNext

(* Every edit by any thread keeps the names apart, but for crossed ones.   *)
LEMMA NamesUniqueStep == NamesInv /\ [ChildrenNext]_childrenVars => NamesInv'
<1> USE WantedAssumption, IdleAssumption
<1> SUFFICES ASSUME TypeOK, NamesUnique, PendingFresh, [ChildrenNext]_childrenVars,
                    overflow' = FALSE
             PROVE NamesUnique' /\ PendingFresh'
  BY ChildrenTypeStep DEF NamesInv, NamesUnique, PendingFresh, TypeOK
<1>0. \A kids \in SUBSET m_children : names(kids) \in SUBSET Names
  BY DEF TypeOK, names
<1>k. named \in SUBSET m_children /\ \A t \in Editors : pending[t] \notin named
  BY DEF named
<1>1. ASSUME NEW t \in Editors, NEW want \in Wanted, create_child(t, want)
      PROVE NamesUnique' /\ PendingFresh'
  <2>1. PICK i \in unused :
          /\ m_name' = [j \in DOMAIN m_name \cup {i} |->
                          IF j = i THEN sanitize_name(want, names(named))
                          ELSE m_name[j]]
          /\ m_children' = m_children \cup {i}
          /\ crossed' = crossing(t, i)
    BY <1>1 DEF create_child
  <2>2. ~overflow /\ ~overflows(want, names(named)) /\ pending' = pending
    BY <1>1 DEF create_child
  <2>3. sanitize_name(want, names(named)) \notin names(named)
    BY <1>0, <1>k, <2>2, SanitizedIsFresh
  <2>4. /\ named' \subseteq named \cup {i}
        /\ \A u \in Editors : pending[u] \in DOMAIN m_name \cup {Idle}
    BY <2>1, <2>2 DEF named, TypeOK
  <2>5. \A j \in DOMAIN m_name : m_name'[j] = m_name[j]
    BY <2>1 DEF unused
  <2>6. \A j \in named : m_name'[j] # m_name'[i]
    BY <2>1, <2>3, <1>k DEF names, unused, TypeOK
  <2>7. /\ crossed \subseteq crossed'
        /\ \A u \in Editors : u # t /\ pending[u] # Idle => <<pending[u], i>> \in crossed'
    BY <2>1 DEF crossing
  <2>8. pending[t] = Idle
    BY <1>1 DEF create_child
  <2>9. NamesUnique'
    BY <1>k, <2>2, <2>4, <2>5, <2>6, <2>7 DEF NamesUnique, TypeOK
  <2>10. PendingFresh'
    <3> SUFFICES ASSUME NEW u \in Editors, pending[u] # Idle, NEW j \in named',
                        m_name'[j] = m_name'[pending[u]]
                 PROVE  <<pending[u], j>> \in crossed'
      BY <2>2 DEF PendingFresh
    <3>1. m_name'[pending[u]] = m_name[pending[u]]
      BY <2>4, <2>5
    <3>2. CASE j = i
      BY <3>2, <2>7, <2>8
    <3>3. CASE j \in named
      BY <3>1, <3>3, <1>k, <2>2, <2>5, <2>7 DEF PendingFresh, TypeOK
    <3> QED
      BY <3>2, <3>3, <2>4
  <2> QED
    BY <2>9, <2>10
<1>2. ASSUME NEW t \in Editors, NEW want \in Wanted, add_child_check(t, want)
      PROVE NamesUnique' /\ PendingFresh'
  <2>1. PICK i \in unused :
          /\ m_name' = [j \in DOMAIN m_name \cup {i} |->
                          IF j = i THEN want ELSE m_name[j]]
          /\ pending' = [pending EXCEPT ![t] = i]
    BY <1>2 DEF add_child_check
  <2>2. m_children' = m_children /\ ~overflow /\ crossed' = crossed /\ pending[t] = Idle
    BY <1>2 DEF add_child_check
  <2>3. /\ \A j \in DOMAIN m_name : m_name'[j] = m_name[j]
        /\ m_name'[i] = want /\ pending'[t] = i
        /\ \A u \in Editors \ {t} : pending'[u] = pending[u]
    BY <2>1 DEF TypeOK, unused
  <2>4. named' \subseteq named
    BY <2>2, <2>3 DEF named, TypeOK
  <2>5. want \notin names(named)
    <3>1. /\ sanitize_name(want, names(named)) = want
          /\ ~overflows(want, names(named))
      BY <1>2 DEF add_child_check
    <3> QED
      BY <1>0, <1>k, <3>1, SanitizedIsFresh
  <2>6. \A j \in named : m_name'[j] = m_name[j] /\ m_name'[j] # want
    BY <1>k, <2>3, <2>5 DEF names, TypeOK
  <2>7. NamesUnique'
    BY <2>2, <2>4, <2>6 DEF NamesUnique
  <2>8. PendingFresh'
    <3> SUFFICES ASSUME NEW u \in Editors, pending'[u] # Idle, NEW j \in named',
                        m_name'[j] = m_name'[pending'[u]]
                 PROVE  <<pending'[u], j>> \in crossed'
      BY DEF PendingFresh
    <3>1. CASE u = t
      BY <3>1, <2>3, <2>4, <2>6
    <3>2. CASE u # t
      <4>1. pending'[u] = pending[u] /\ m_name'[pending[u]] = m_name[pending[u]]
        BY <3>2, <2>3 DEF TypeOK
      <4> QED
        BY <4>1, <2>2, <2>4, <2>6 DEF PendingFresh
    <3> QED
      BY <3>1, <3>2
  <2> QED
    BY <2>7, <2>8
<1>3. ASSUME NEW t \in Editors, NEW i \in Ids, NEW want \in Wanted,
             set_name_sanitize(t, i, want)
      PROVE NamesUnique' /\ PendingFresh'
  <2> DEFINE siblings == names(named \ {i})
  <2>1. /\ ~overflow /\ ~overflows(want, siblings)
        /\ m_name' = [m_name EXCEPT ![i] = sanitize_name(want, siblings)]
        /\ m_children' = m_children /\ i \in named
        /\ pending' = [pending EXCEPT ![t] = i] /\ pending[t] = Idle
        /\ crossed' = without(i)
    BY <1>3 DEF set_name_sanitize
  <2>2. sanitize_name(want, siblings) \notin siblings
    BY <1>0, <1>k, <2>1, SanitizedIsFresh
  <2> HIDE DEF siblings
  <2>3. /\ pending'[t] = i /\ \A u \in Editors \ {t} : pending'[u] = pending[u]
        /\ \A u \in Editors : pending[u] # i
    BY <2>1, <1>k DEF TypeOK
  <2>4. named' \subseteq named \ {i}
    BY <2>1, <2>3, <1>k DEF named, TypeOK
  <2>5. /\ \A j \in DOMAIN m_name \ {i} : m_name'[j] = m_name[j]
        /\ m_name'[i] \notin siblings
    BY <2>1, <2>2, <1>k DEF TypeOK
  <2>6. \A j \in named' : m_name'[j] = m_name[j] /\ m_name[j] # m_name'[i]
    BY <2>4, <2>5, <1>k DEF siblings, names, TypeOK
  <2>7. \A j, k \in Ids \ {i} : <<j, k>> \in crossed => <<j, k>> \in crossed'
    BY <2>1 DEF without
  <2>8. NamesUnique'
    BY <1>k, <2>1, <2>4, <2>6, <2>7 DEF NamesUnique, TypeOK
  <2>9. PendingFresh'
    <3> SUFFICES ASSUME NEW u \in Editors, pending'[u] # Idle, NEW j \in named',
                        m_name'[j] = m_name'[pending'[u]]
                 PROVE  <<pending'[u], j>> \in crossed'
      BY DEF PendingFresh
    <3>1. CASE u = t
      BY <3>1, <2>3, <2>6
    <3>2. CASE u # t
      <4>1. /\ pending'[u] = pending[u] /\ pending[u] \in DOMAIN m_name \ {i}
            /\ m_name'[pending[u]] = m_name[pending[u]]
        BY <3>2, <2>3, <2>5 DEF TypeOK
      <4>2. <<pending[u], j>> \in crossed
        BY <4>1, <2>1, <2>4, <2>6 DEF PendingFresh
      <4> QED
        BY <4>1, <4>2, <1>k, <2>4, <2>7 DEF TypeOK
    <3> QED
      BY <3>1, <3>2
  <2> QED
    BY <2>8, <2>9
<1>4. ASSUME NEW t \in Editors, NEW i \in Ids, remove_child(t, i)
      PROVE NamesUnique' /\ PendingFresh'
  <2>1. /\ m_children' = m_children \ {i} /\ pending' = pending /\ ~overflow
        /\ i \in named /\ crossed' = without(i)
        /\ \A j \in DOMAIN m_name \ {i} : m_name'[j] = m_name[j]
    BY <1>4 DEF remove_child
  <2>2. named' = named \ {i}
    BY <2>1 DEF named
  <2>3. \A j, k \in Ids \ {i} : <<j, k>> \in crossed => <<j, k>> \in crossed'
    BY <2>1 DEF without
  <2>4. NamesUnique'
    BY <1>k, <2>1, <2>2, <2>3 DEF NamesUnique, TypeOK
  <2>5. ASSUME NEW u \in Editors, pending[u] # Idle
        PROVE  pending[u] \in DOMAIN m_name \ {i}
    BY <2>5, <2>1, <1>k DEF TypeOK
  <2>6. PendingFresh'
    BY <1>k, <2>1, <2>2, <2>3, <2>5 DEF PendingFresh, TypeOK
  <2> QED
    BY <2>4, <2>6
<1>5. ASSUME NEW t \in Editors, add_child_insert(t) \/ set_name_assign(t)
      PROVE NamesUnique' /\ PendingFresh'
  <2>1. /\ m_children' = m_children \cup {pending[t]} /\ pending[t] # Idle
        /\ crossed' = crossing(t, pending[t])
        /\ pending' = [pending EXCEPT ![t] = Idle]
        /\ m_name' = m_name /\ ~overflow
    BY <1>5 DEF add_child_insert, set_name_assign, TypeOK
  <2>2. /\ pending'[t] = Idle /\ \A u \in Editors \ {t} : pending'[u] = pending[u]
    BY <2>1 DEF TypeOK
  <2>3. named' \subseteq named \cup {pending[t]}
    BY <2>1, <2>2 DEF named, TypeOK
  <2>4. /\ crossed \subseteq crossed'
        /\ \A u \in Editors : u # t /\ pending[u] # Idle =>
             <<pending[u], pending[t]>> \in crossed'
    BY <2>1 DEF crossing
  <2>5. \A j \in named : m_name[j] = m_name[pending[t]] => <<pending[t], j>> \in crossed
    BY <2>1 DEF PendingFresh
  <2>6. NamesUnique'
    BY <2>1, <2>3, <2>4, <2>5 DEF NamesUnique
  <2>7. PendingFresh'
    BY <2>1, <2>2, <2>3, <2>4 DEF PendingFresh
  <2> QED
    BY <2>6, <2>7
<1>6. CASE UNCHANGED childrenVars
  BY <1>6 DEF childrenVars, NamesUnique, PendingFresh, named
<1> QED
  BY <1>1, <1>2, <1>3, <1>4, <1>5, <1>6 DEF ChildrenNext

(* Two children of a node share a name only if one of them got it in the   *)
(* window that add_child or set_name left for the other: for any number of *)
(* threads and nodes, and whatever names are asked for.                    *)
THEOREM NamesUniqueCorrect == ChildrenSpec => []NamesUnique
<1>1. ChildrenInit => NamesInv
  BY DEF ChildrenInit, NamesInv, TypeOK, NamesUnique, PendingFresh, named
<1>2. NamesInv /\ [ChildrenNext]_childrenVars => NamesInv'
  BY NamesUniqueStep
<1>3. NamesInv => NamesUnique
  BY DEF NamesInv
<1> QED
  BY <1>1, <1>2, <1>3, PTL DEF ChildrenSpec

NothingCrossed == crossed = {}

(* A single thread has nobody to cross.                                    *)
LEMMA NothingCrossedStep ==
    ASSUME OneThread
    PROVE  NothingCrossed /\ [ChildrenNext]_childrenVars => NothingCrossed'
<1> SUFFICES ASSUME crossed = {}, [ChildrenNext]_childrenVars PROVE crossed' = {}
  BY DEF NothingCrossed
<1>1. ASSUME NEW t \in Editors, NEW j PROVE crossing(t, j) = {}
  BY DEF crossing, OneThread
<1>2. \A i : without(i) = {}
  BY DEF without
<1> QED
  BY <1>1, <1>2 DEF ChildrenNext, childrenVars, create_child, add_child_check,
       add_child_insert, set_name_sanitize, set_name_assign, remove_child

(* All the children that have a name have names of their own.              *)
NamesDistinct ==
    ~overflow => \A i, j \in named : m_name[i] = m_name[j] => i = j

(* One thread that makes all the edits, in whatever order, keeps the names *)
(* of a node's children distinct.                                          *)
THEOREM SingleThreadedNamesUnique ==
    ASSUME OneThread PROVE ChildrenSpec => []NamesDistinct
<1>1. ChildrenInit => NothingCrossed
  BY DEF ChildrenInit, NothingCrossed
<1>2. NothingCrossed /\ [ChildrenNext]_childrenVars => NothingCrossed'
  BY NothingCrossedStep
<1>3. NamesUnique /\ NothingCrossed => NamesDistinct
  BY DEF NamesUnique, NothingCrossed, NamesDistinct
<1> QED
  BY <1>1, <1>2, <1>3, NamesUniqueCorrect, PTL DEF ChildrenSpec

(* Types hold for any number of editing threads.                           *)
THEOREM ChildrenTypeCorrect == ChildrenSpec => []TypeOK
<1>1. ChildrenInit => TypeOK
  BY DEF ChildrenInit, TypeOK
<1> QED
  BY <1>1, ChildrenTypeStep, PTL DEF ChildrenSpec

-----------------------------------------------------------------------------
(* A call: what it does, to which parameter, with which value, which       *)
(* callbacks of its send are left, and where it is.                        *)
Frames == [n : Nat, op : {"set", "quiet", "push", "repush"}, p : Params, v : Values,
           todo : Seq(Params \cup Queues), at : {"store", "lock", "notify", "push"}]

(* The types of the variables.                                             *)
ValueTypes ==
    /\ alive \in [Params -> BOOLEAN]
    /\ m_value \in [Params -> Values]
    /\ m_previousValue \in [Params -> Values]
    /\ DOMAIN m_mutx = Params
    /\ m_callbacks \in [Params -> Seq(Params \cup Queues)]
    /\ notified \in [Params -> Values]
    /\ sends \in [Params -> Nat]
    /\ sent \in [Params -> Values]
    /\ DOMAIN stack = Threads
    /\ \A t \in Threads : stack[t] \in Seq(Frames)
    /\ DOMAIN m_reg = Queues
    /\ \A q \in Queues : DOMAIN m_reg[q] \subseteq Params
    /\ life \in [Queues -> {"alive", "closing", "gone"}]
    /\ heard \in [Queues -> Seq(Params \X Nat)]

(* The outermost call is made by a thread; every other is the push of a    *)
(* callback, with the value of the send that calls it, along a link, and   *)
(* is not called again by that send.                                       *)
nested(s, i) ==
    /\ i = 1 => s[i].p \in Direct
    /\ i > 1 => /\ s[i].op = "push"
                /\ s[i - 1].at = "notify"
                /\ s[i - 1].v = s[i].v
                /\ <<s[i - 1].p, s[i].p>> \in Links
                /\ \A j \in 1..Len(s[i - 1].todo) : s[i - 1].todo[j] # s[i].p

(* The stack of each thread is a chain of sends under way that push to     *)
(* each other.                                                             *)
CallsNest ==
    \A t \in Threads : \A i \in 1..Len(stack[t]) : nested(stack[t], i)

(* A thread that calls the callbacks of a parameter holds its m_mutx,      *)
(* which is not recursive: no other send of that parameter is under way.   *)
MutexHeld ==
    \A t \in Threads : \A i \in 1..Len(stack[t]) : stack[t][i].at = "notify" =>
        /\ m_mutx[stack[t][i].p] = t
        /\ \A j \in 1..Len(stack[t]) :
             stack[t][j].at = "notify" /\ stack[t][j].p = stack[t][i].p => i = j

(* A callback is registered once; it is a link or a queue that knows of    *)
(* it; a parameter that exists has the callbacks of its links.             *)
callbacksKnown(p) ==
    /\ \A i, j \in 1..Len(m_callbacks[p]) : m_callbacks[p][i] = m_callbacks[p][j] => i = j
    /\ \A i \in 1..Len(m_callbacks[p]) :
         \/ m_callbacks[p][i] \in Params /\ <<p, m_callbacks[p][i]>> \in Links
         \/ m_callbacks[p][i] \in Queues /\ p \in DOMAIN m_reg[m_callbacks[p][i]]
    /\ alive[p] => \A f \in Params : <<p, f>> \in Links =>
         \E i \in 1..Len(m_callbacks[p]) : m_callbacks[p][i] = f

(* This of every parameter: no callback is left behind by a queue.         *)
CallbacksKnown == \A p \in Params : callbacksKnown(p)

(* What a queue has in m_reg exists and calls the queue, which is not      *)
(* gone.                                                                   *)
RegistrationsCalled ==
    \A q \in Queues : \A p \in DOMAIN m_reg[q] :
        /\ alive[p] /\ life[q] # "gone"
        /\ \E i \in 1..Len(m_callbacks[p]) : m_callbacks[p][i] = q

(* The callbacks that a send has left are callbacks of the parameter       *)
(* still: remove_callback waits for its mutex.                             *)
todoKnown(f) ==
    /\ f.at # "notify" => f.todo = <<>>
    /\ \A j, k \in 1..Len(f.todo) : f.todo[j] = f.todo[k] => j = k
    /\ \A j \in 1..Len(f.todo) :
         \E k \in 1..Len(m_callbacks[f.p]) : m_callbacks[f.p][k] = f.todo[j]

(* This of every call.                                                     *)
TodoKnown ==
    \A t \in Threads : \A i \in 1..Len(stack[t]) : todoKnown(stack[t][i])

(* A queue heard of the sends of one parameter in the order in which they  *)
(* began.                                                                  *)
HeardInOrder ==
    \A q \in Queues :
        /\ \A i \in 1..Len(heard[q]) : heard[q][i][2] <= sends[heard[q][i][1]]
        /\ \A i, j \in 1..Len(heard[q]) :
             i < j /\ heard[q][i][1] = heard[q][j][1] => heard[q][i][2] < heard[q][j][2]

(* A send under way is the last of its parameter, and the queues it has    *)
(* still to call have heard of earlier ones only.                          *)
sendCurrent(f) ==
    f.at = "notify" =>
        /\ f.n = sends[f.p]
        /\ f.v = notified[f.p]
        /\ \A j \in 1..Len(f.todo) : f.todo[j] \in Queues =>
             \A k \in 1..Len(heard[f.todo[j]]) :
                heard[f.todo[j]][k][1] = f.p => heard[f.todo[j]][k][2] < f.n

(* This of every call.                                                     *)
SendsCurrent ==
    \A t \in Threads : \A i \in 1..Len(stack[t]) : sendCurrent(stack[t][i])

(* Nothing but this link sets its second parameter.                        *)
onlyLink(l) == l[2] \notin Direct /\ \A k \in Links : k[2] = l[2] => k = l

(* A push to b is under way.                                               *)
pushing(b) == \E t \in Threads : \E i \in 1..Len(stack[t]) : stack[t][i].p = b

(* A send of a has still to push to b.                                     *)
owed(a, b) ==
    \E t \in Threads : \E i \in 1..Len(stack[t]) :
        /\ stack[t][i].p = a /\ stack[t][i].at = "notify"
        /\ \E j \in 1..Len(stack[t][i].todo) : stack[t][i].todo[j] = b

(* The second parameter of such a link: its value is notified once stored, *)
(* and what was sent is its previous value between the store and the push, *)
(* so that the repetition filter never leaves it behind.  Of a parameter   *)
(* that is muted or disabled nothing is sent.                              *)
follows(a, b) ==
    /\ \A t \in Threads : \A i \in 1..Len(stack[t]) : stack[t][i].p = b =>
         IF stack[t][i].at = "store" THEN (b \notin Muted => sent[b] = m_value[b])
         ELSE m_value[b] = notified[a] /\ (b \notin Muted => sent[b] = m_previousValue[b])
    /\ ~pushing(b) => /\ (b \notin Muted => sent[b] = m_value[b])
                      /\ ~owed(a, b) => m_value[b] = notified[a]

(* This of every link that is alone.                                       *)
LinksFollow ==
    \A l \in Links : alive[l[1]] /\ onlyLink(l) => follows(l[1], l[2])

(* What a step of a thread does to the stacks: it replaces the innermost   *)
(* call, returns from it, makes it call another, or makes a first call.    *)
replaced(t, g) ==
    /\ \A u \in Threads \ {t} : stack'[u] = stack[u]
    /\ Len(stack'[t]) = Len(stack[t])
    /\ \A i \in 1..(Len(stack[t]) - 1) : stack'[t][i] = stack[t][i]
    /\ stack'[t][Len(stack[t])] = g
popped(t) ==
    /\ \A u \in Threads \ {t} : stack'[u] = stack[u]
    /\ Len(stack'[t]) = Len(stack[t]) - 1
    /\ \A i \in 1..(Len(stack[t]) - 1) : stack'[t][i] = stack[t][i]
pushed(t, g, h) ==
    /\ \A u \in Threads \ {t} : stack'[u] = stack[u]
    /\ Len(stack'[t]) = Len(stack[t]) + 1
    /\ \A i \in 1..(Len(stack[t]) - 1) : stack'[t][i] = stack[t][i]
    /\ stack'[t][Len(stack[t])] = g
    /\ stack'[t][Len(stack[t]) + 1] = h
entered(t, h) ==
    /\ \A u \in Threads \ {t} : stack'[u] = stack[u]
    /\ Len(stack[t]) = 0
    /\ Len(stack'[t]) = 1
    /\ stack'[t][1] = h

(* All but the last element of a sequence.                                 *)
LEMMA FrontOfSeq ==
  ASSUME NEW S, NEW s \in Seq(S), s # <<>>
  PROVE  /\ Front(s) \in Seq(S)
         /\ Len(Front(s)) = Len(s) - 1
         /\ \A i \in 1..(Len(s) - 1) : Front(s)[i] = s[i]
<1>1. Len(s) \in Nat \ {0} /\ s \in [1..Len(s) -> S]
  BY EmptySeq, LenProperties
<1>2. \A i \in 1..(Len(s) - 1) : s[i] \in S
  BY <1>1
<1> QED
  BY <1>1, <1>2, SubSeqProperties DEF Front

(* The innermost call is the last one.                                     *)
LEMMA TopTyped ==
  ASSUME ValueTypes, NEW t \in Threads, stack[t] # <<>>
  PROVE  /\ stack[t] \in Seq(Frames)
         /\ Len(stack[t]) \in Nat \ {0} /\ Len(stack[t]) \in 1..Len(stack[t])
         /\ \A i \in 1..Len(stack[t]) : stack[t][i] \in Frames
         /\ top(t) = stack[t][Len(stack[t])] /\ top(t) \in Frames
<1>1. stack[t] \in Seq(Frames)
  BY DEF ValueTypes
<1>2. Len(stack[t]) \in Nat \ {0} /\ stack[t] \in [1..Len(stack[t]) -> Frames]
  BY <1>1, EmptySeq, LenProperties
<1>3. \A i \in 1..Len(stack[t]) : stack[t][i] \in Frames
  BY <1>2
<1>4. top(t) = stack[t][Len(stack[t])]
  BY DEF top, depth
<1> QED
  BY <1>1, <1>2, <1>3, <1>4

(* Every call of a stack has its type.                                     *)
LEMMA FrameTyped ==
  ASSUME ValueTypes
  PROVE  \A t \in Threads : \A i \in 1..Len(stack[t]) :
           stack[t][i] \in Frames /\ stack[t][i].p \in Params
<1> SUFFICES ASSUME NEW t \in Threads, NEW i \in 1..Len(stack[t])
             PROVE  stack[t][i] \in Frames /\ stack[t][i].p \in Params
  OBVIOUS
<1>1. stack[t][i] \in Frames
  BY ElementOfSeq DEF ValueTypes
<1> QED
  BY <1>1 DEF Frames

(* The innermost call is replaced.                                         *)
LEMMA Replace ==
  ASSUME ValueTypes, NEW t \in Threads, stack[t] # <<>>, NEW g \in Frames,
         stack' = [stack EXCEPT ![t] = [stack[t] EXCEPT ![Len(stack[t])] = g]]
  PROVE  replaced(t, g) /\ DOMAIN stack' = Threads
         /\ \A u \in Threads : stack'[u] \in Seq(Frames)
<1>1. stack'[t] = [stack[t] EXCEPT ![Len(stack[t])] = g]
  BY DEF ValueTypes
<1>2. \A u \in Threads \ {t} : stack'[u] = stack[u]
  BY DEF ValueTypes
<1>3. /\ stack'[t] \in Seq(Frames)
      /\ Len(stack'[t]) = Len(stack[t])
      /\ \A j \in 1..Len(stack[t]) :
           stack'[t][j] = IF j = Len(stack[t]) THEN g ELSE stack[t][j]
  BY <1>1, TopTyped, ExceptSeq
<1>4. DOMAIN stack' = Threads /\ \A u \in Threads : stack[u] \in Seq(Frames)
  BY DEF ValueTypes
<1>5. Len(stack[t]) \in Nat \ {0}
  BY TopTyped
<1>6. replaced(t, g)
  BY <1>2, <1>3, <1>5 DEF replaced
<1> QED
  BY <1>2, <1>3, <1>4, <1>6

(* The innermost call returns.                                             *)
LEMMA Pop ==
  ASSUME ValueTypes, NEW t \in Threads, stack[t] # <<>>, return(t)
  PROVE  popped(t) /\ DOMAIN stack' = Threads
         /\ \A u \in Threads : stack'[u] \in Seq(Frames)
<1>1. stack'[t] = Front(stack[t]) /\ \A u \in Threads \ {t} : stack'[u] = stack[u]
  BY DEF ValueTypes, return
<1>2. DOMAIN stack' = Threads /\ \A u \in Threads : stack[u] \in Seq(Frames)
  BY DEF ValueTypes, return
<1>3. /\ stack'[t] \in Seq(Frames)
      /\ Len(stack'[t]) = Len(stack[t]) - 1
      /\ \A i \in 1..(Len(stack[t]) - 1) : stack'[t][i] = stack[t][i]
  BY <1>1, TopTyped, FrontOfSeq
<1> QED
  BY <1>1, <1>2, <1>3 DEF popped

(* The innermost call is replaced and calls another.                       *)
LEMMA Push ==
  ASSUME ValueTypes, NEW t \in Threads, stack[t] # <<>>, NEW g \in Frames, NEW h \in Frames,
         stack' = [stack EXCEPT ![t] = Append([stack[t] EXCEPT ![Len(stack[t])] = g], h)]
  PROVE  pushed(t, g, h) /\ DOMAIN stack' = Threads
         /\ \A u \in Threads : stack'[u] \in Seq(Frames)
<1> DEFINE r == [stack[t] EXCEPT ![Len(stack[t])] = g]
<1>1. stack'[t] = Append(r, h) /\ \A u \in Threads \ {t} : stack'[u] = stack[u]
  BY DEF ValueTypes
<1>2. DOMAIN stack' = Threads /\ \A u \in Threads : stack[u] \in Seq(Frames)
  BY DEF ValueTypes
<1>3. /\ r \in Seq(Frames)
      /\ Len(r) = Len(stack[t])
      /\ \A j \in 1..Len(stack[t]) :
           r[j] = IF j = Len(stack[t]) THEN g ELSE stack[t][j]
  BY TopTyped, ExceptSeq
<1>4. Len(stack[t]) \in Nat \ {0}
  BY TopTyped
<1> HIDE DEF r
<1>5. /\ stack'[t] \in Seq(Frames)
      /\ Len(stack'[t]) = Len(stack[t]) + 1
      /\ \A i \in 1..Len(stack[t]) : stack'[t][i] = r[i]
      /\ stack'[t][Len(stack[t]) + 1] = h
  <2>1. /\ Append(r, h) \in Seq(Frames)
        /\ Len(Append(r, h)) = Len(r) + 1
        /\ \A i \in 1..Len(r) : Append(r, h)[i] = r[i]
        /\ Append(r, h)[Len(r) + 1] = h
    BY <1>3, AppendProperties
  <2> QED
    BY <1>1, <1>3, <2>1
<1>6. pushed(t, g, h)
  BY <1>1, <1>3, <1>4, <1>5 DEF pushed
<1> QED
  BY <1>1, <1>2, <1>5, <1>6

(* A thread makes a first call.                                            *)
LEMMA Enter ==
  ASSUME ValueTypes, NEW t \in Threads, stack[t] = <<>>, NEW h \in Frames,
         stack' = [stack EXCEPT ![t] = <<h>>]
  PROVE  entered(t, h) /\ DOMAIN stack' = Threads
         /\ \A u \in Threads : stack'[u] \in Seq(Frames)
<1>1. stack'[t] = <<h>> /\ \A u \in Threads \ {t} : stack'[u] = stack[u]
  BY DEF ValueTypes
<1>2. DOMAIN stack' = Threads /\ \A u \in Threads : stack[u] \in Seq(Frames)
  BY DEF ValueTypes
<1>3. <<h>> \in Seq(Frames) /\ Len(<<h>>) = 1 /\ <<h>>[1] = h /\ Len(<<>>) = 0
  OBVIOUS
<1> QED
  BY <1>1, <1>2, <1>3 DEF entered

(* The part of the types about stacks.                                     *)
StacksTyped == DOMAIN stack = Threads /\ \A u \in Threads : stack[u] \in Seq(Frames)

(* What each action does to the stacks.                                    *)
LEMMA CallEffect ==
  ASSUME ValueTypes, NEW t \in Threads, NEW op \in operations(t), NEW p \in Params,
         NEW v \in Values, call(t, op, p, v)
  PROVE  entered(t, frame(op, p, v)) /\ StacksTyped'
<1>1. frame(op, p, v) \in Frames
  BY DEF frame, Frames, operations
<1>2. stack[t] = <<>> /\ stack' = [stack EXCEPT ![t] = <<frame(op, p, v)>>]
  BY DEF call, idle
<1> HIDE DEF frame
<1> QED
  BY <1>1, <1>2, Enter DEF StacksTyped

LEMMA GoEffect ==
  ASSUME ValueTypes, NEW t \in Threads, stack[t] # <<>>,
         NEW where \in {"store", "lock", "notify", "push"}, go(t, where)
  PROVE  replaced(t, [top(t) EXCEPT !.at = where]) /\ StacksTyped'
<1>1. top(t) \in Frames /\ top(t) = stack[t][Len(stack[t])]
  BY TopTyped
<1>2. [top(t) EXCEPT !.at = where] \in Frames
  BY <1>1 DEF Frames
<1>3. stack' = [stack EXCEPT ![t] = [stack[t] EXCEPT ![Len(stack[t])] =
                  [top(t) EXCEPT !.at = where]]]
  BY <1>1 DEF go, depth
<1> QED
  BY <1>2, <1>3, Replace DEF StacksTyped

LEMMA StoreEffect ==
  ASSUME ValueTypes, NEW t \in Threads, store(t)
  PROVE  /\ stack[t] # <<>> /\ top(t).at = "store"
         /\ top(t).op = "quiet" => popped(t)
         /\ top(t).op # "quiet" => replaced(t, [top(t) EXCEPT !.at = "lock"])
         /\ StacksTyped'
<1>1. stack[t] # <<>> /\ top(t).at = "store"
  BY DEF store, at
<1>2. CASE top(t).op = "quiet"
  <2>1. return(t)
    BY <1>2 DEF store
  <2> QED
    BY <1>1, <1>2, <2>1, Pop DEF StacksTyped
<1>3. CASE top(t).op # "quiet"
  <2>1. go(t, "lock")
    BY <1>3 DEF store
  <2> QED
    BY <1>1, <1>3, <2>1, GoEffect
<1> QED
  BY <1>2, <1>3

LEMMA SendEffect ==
  ASSUME ValueTypes, NEW t \in Threads, send(t)
  PROVE  /\ stack[t] # <<>> /\ top(t).at = "lock"
         /\ replaced(t, [top(t) EXCEPT !.at = "notify", !.n = sends[top(t).p] + 1,
                                       !.todo = m_callbacks[top(t).p]])
         /\ StacksTyped'
<1>1. stack[t] # <<>> /\ top(t).at = "lock"
  BY DEF send, at
<1>2. top(t) \in Frames /\ top(t) = stack[t][Len(stack[t])]
  BY <1>1, TopTyped
<1>3. /\ sends[top(t).p] + 1 \in Nat
      /\ m_callbacks[top(t).p] \in Seq(Params \cup Queues)
  BY <1>2 DEF ValueTypes, Frames
<1>4. [top(t) EXCEPT !.at = "notify", !.n = sends[top(t).p] + 1,
                     !.todo = m_callbacks[top(t).p]] \in Frames
  BY <1>2, <1>3 DEF Frames
<1>5. stack' = [stack EXCEPT ![t] = [stack[t] EXCEPT ![Len(stack[t])] =
                  [top(t) EXCEPT !.at = "notify", !.n = sends[top(t).p] + 1,
                                 !.todo = m_callbacks[top(t).p]]]]
  BY DEF send, begin_send, depth
<1> QED
  BY <1>1, <1>4, <1>5, Replace DEF StacksTyped

LEMMA CallbackEffect ==
  ASSUME ValueTypes, NEW t \in Threads, callback(t)
  PROVE  /\ stack[t] # <<>> /\ top(t).at = "notify" /\ top(t).todo # <<>>
         /\ Head(top(t).todo) \in Queues =>
              replaced(t, [top(t) EXCEPT !.todo = Tail(top(t).todo)])
         /\ Head(top(t).todo) \notin Queues =>
              /\ Head(top(t).todo) \in Params
              /\ pushed(t, [top(t) EXCEPT !.todo = Tail(top(t).todo)],
                        frame("push", Head(top(t).todo), top(t).v))
         /\ StacksTyped'
<1>1. stack[t] # <<>> /\ top(t).at = "notify" /\ top(t).todo # <<>>
  BY DEF callback, at
<1>2. top(t) \in Frames /\ top(t) = stack[t][Len(stack[t])]
  BY <1>1, TopTyped
<1>3. top(t).todo \in Seq(Params \cup Queues) /\ top(t).v \in Values
  BY <1>2 DEF Frames
<1>4. /\ Head(top(t).todo) \in Params \cup Queues
      /\ Tail(top(t).todo) \in Seq(Params \cup Queues)
  BY <1>1, <1>3, HeadTailProperties
<1>5. [top(t) EXCEPT !.todo = Tail(top(t).todo)] \in Frames
  BY <1>2, <1>4 DEF Frames
<1>6. CASE Head(top(t).todo) \in Queues
  <2>1. stack' = [stack EXCEPT ![t] = [stack[t] EXCEPT ![Len(stack[t])] =
                    [top(t) EXCEPT !.todo = Tail(top(t).todo)]]]
    BY <1>2, <1>6 DEF callback, depth
  <2> QED
    BY <1>1, <1>5, <1>6, <2>1, Replace DEF StacksTyped
<1>7. CASE Head(top(t).todo) \notin Queues
  <2>1. frame("push", Head(top(t).todo), top(t).v) \in Frames
    BY <1>3, <1>4, <1>7 DEF frame, Frames
  <2>2. stack' = [stack EXCEPT ![t] = Append([stack[t] EXCEPT ![Len(stack[t])] =
                    [top(t) EXCEPT !.todo = Tail(top(t).todo)]],
                    frame("push", Head(top(t).todo), top(t).v))]
    BY <1>2, <1>7 DEF callback, depth
  <2> QED
    BY <1>1, <1>4, <1>5, <1>7, <2>1, <2>2, Push DEF StacksTyped
<1> QED
  BY <1>6, <1>7

LEMMA EndSendEffect ==
  ASSUME ValueTypes, NEW t \in Threads, end_send(t)
  PROVE  /\ stack[t] # <<>> /\ top(t).at = "notify" /\ top(t).todo = <<>>
         /\ top(t).op = "push" => replaced(t, [top(t) EXCEPT !.at = "push"])
         /\ top(t).op # "push" => popped(t)
         /\ StacksTyped'
<1>1. stack[t] # <<>> /\ top(t).at = "notify" /\ top(t).todo = <<>>
  BY DEF end_send, at
<1>2. CASE top(t).op = "push"
  <2>1. go(t, "push")
    BY <1>2 DEF end_send
  <2> QED
    BY <1>1, <1>2, <2>1, GoEffect
<1>3. CASE top(t).op # "push"
  <2>1. return(t)
    BY <1>3 DEF end_send
  <2> QED
    BY <1>1, <1>3, <2>1, Pop DEF StacksTyped
<1> QED
  BY <1>2, <1>3

LEMMA PushEffect ==
  ASSUME ValueTypes, NEW t \in Threads, push(t)
  PROVE  stack[t] # <<>> /\ top(t).at = "push" /\ popped(t) /\ StacksTyped'
<1>1. stack[t] # <<>> /\ top(t).at = "push" /\ return(t)
  BY DEF push, at
<1> QED
  BY <1>1, Pop DEF StacksTyped

(* SetToSeq lists every element of a finite set once.                      *)
LEMMA SetToSeqProperties ==
  ASSUME NEW S, IsFiniteSet(S)
  PROVE  /\ SetToSeq(S) \in Seq(S)
         /\ \A i, j \in 1..Len(SetToSeq(S)) : SetToSeq(S)[i] = SetToSeq(S)[j] => i = j
         /\ \A x \in S : \E i \in 1..Len(SetToSeq(S)) : SetToSeq(S)[i] = x
<1> DEFINE n == Cardinality(S)
           s == SetToSeq(S)
<1>1. n \in Nat /\ ExistsBijection(1..n, S)
  BY FS_CardinalityType
<1>2. \E f \in [1..n -> S] : IsInjective(f)
  BY <1>1 DEF ExistsBijection, Bijection, Injection
<1>3. s \in [1..n -> S] /\ IsInjective(s)
  BY <1>2 DEF SetToSeq
<1>4. Cardinality(1..n) = n
  BY <1>1, FS_Interval
<1>5. s \in Injection(1..n, S)
  BY <1>3 DEF Injection
<1> HIDE DEF s, n
<1>6. s \in Surjection(1..n, S)
  <2>1. Cardinality(S) = n
    BY DEF n
  <2> QED
    BY <1>4, <1>5, <2>1, FS_Injection
<1>7. s \in Seq(S) /\ Len(s) = n
  BY <1>1, <1>3
<1>8. \A i, j \in 1..Len(s) : s[i] = s[j] => i = j
  BY <1>3, <1>7 DEF IsInjective
<1>9. \A x \in S : \E i \in 1..Len(s) : s[i] = x
  BY <1>6, <1>7 DEF Surjection
<1> QED
  BY <1>7, <1>8, <1>9 DEF s

(* RemoveAt closes the gap.                                                *)
LEMMA RemoveAtProperties ==
  ASSUME NEW S, NEW s \in Seq(S), NEW i \in 1..Len(s)
  PROVE  /\ RemoveAt(s, i) \in Seq(S)
         /\ Len(RemoveAt(s, i)) = Len(s) - 1
         /\ \A j \in 1..(Len(s) - 1) :
              RemoveAt(s, i)[j] = IF j < i THEN s[j] ELSE s[j + 1]
<1> DEFINE a == SubSeq(s, 1, i - 1)
           b == SubSeq(s, i + 1, Len(s))
<1>1. Len(s) \in Nat /\ i \in Nat \ {0} /\ i <= Len(s) /\ \A j \in 1..Len(s) : s[j] \in S
  BY LenProperties, ElementOfSeq
<1>2. \A j \in 1..(i - 1) : s[j] \in S
  BY <1>1
<1>3. \A j \in (i + 1)..Len(s) : s[j] \in S
  BY <1>1
<1>4. /\ a \in Seq(S) /\ Len(a) = i - 1
      /\ \A j \in 1..(i - 1) : a[j] = s[j]
  <2>1. 1 \in Int /\ i - 1 \in Int
    BY <1>1
  <2>2. /\ a \in Seq(S)
        /\ Len(a) = IF 1 <= i - 1 THEN i - 1 - 1 + 1 ELSE 0
        /\ \A j \in 1..(i - 1 - 1 + 1) : a[j] = s[1 + j - 1]
    BY <1>2, <2>1, SubSeqProperties
  <2> HIDE DEF a
  <2> QED
    BY <1>1, <2>2
<1>5. /\ b \in Seq(S) /\ Len(b) = Len(s) - i
      /\ \A j \in 1..(Len(s) - i) : b[j] = s[i + j]
  <2>1. i + 1 \in Int /\ Len(s) \in Int
    BY <1>1
  <2>2. /\ b \in Seq(S)
        /\ Len(b) = IF i + 1 <= Len(s) THEN Len(s) - (i + 1) + 1 ELSE 0
        /\ \A j \in 1..(Len(s) - (i + 1) + 1) : b[j] = s[i + 1 + j - 1]
    BY <1>3, <2>1, SubSeqProperties
  <2> HIDE DEF b
  <2> QED
    BY <1>1, <2>2
<1> HIDE DEF a, b
<1>6. /\ a \o b \in Seq(S) /\ Len(a \o b) = Len(a) + Len(b)
      /\ \A j \in 1..(Len(a) + Len(b)) :
           (a \o b)[j] = IF j <= Len(a) THEN a[j] ELSE b[j - Len(a)]
  BY <1>4, <1>5, ConcatProperties
<1>7. RemoveAt(s, i) = a \o b
  BY DEF RemoveAt, a, b
<1>8. ASSUME NEW j \in 1..(Len(s) - 1)
      PROVE  (a \o b)[j] = IF j < i THEN s[j] ELSE s[j + 1]
  <2>1. CASE j < i
    BY <1>1, <1>4, <1>5, <1>6, <2>1
  <2>2. CASE ~(j < i)
    <3>1. (a \o b)[j] = b[j - (i - 1)] /\ j - (i - 1) \in 1..(Len(s) - i)
      BY <1>1, <1>4, <1>5, <1>6, <2>2
    <3>2. b[j - (i - 1)] = s[i + (j - (i - 1))]
      BY <1>5, <3>1
    <3>3. i + (j - (i - 1)) = j + 1
      BY <1>1
    <3> QED
      BY <2>2, <3>1, <3>2, <3>3
  <2> QED
    BY <2>1, <2>2
<1>9. Len(a \o b) = Len(s) - 1
  BY <1>1, <1>4, <1>5, <1>6
<1> QED
  BY <1>6, <1>7, <1>8, <1>9

(* An element before a sequence.                                           *)
LEMMA PrependProperties ==
  ASSUME NEW S, NEW s \in Seq(S), NEW x \in S
  PROVE  /\ <<x>> \o s \in Seq(S)
         /\ Len(<<x>> \o s) = Len(s) + 1
         /\ (<<x>> \o s)[1] = x
         /\ \A j \in 2..(Len(s) + 1) : (<<x>> \o s)[j] = s[j - 1]
<1>1. <<x>> \in Seq(S) /\ Len(<<x>>) = 1 /\ <<x>>[1] = x
  OBVIOUS
<1>2. Len(s) \in Nat
  OBVIOUS
<1>3. /\ <<x>> \o s \in Seq(S) /\ Len(<<x>> \o s) = 1 + Len(s)
      /\ \A j \in 1..(1 + Len(s)) :
           (<<x>> \o s)[j] = IF j <= 1 THEN <<x>>[j] ELSE s[j - 1]
  BY <1>1, ConcatProperties
<1> QED
  BY <1>1, <1>2, <1>3

(* The inductive invariant.                                                *)
ValueInv ==
    /\ ValueTypes /\ CallsNest /\ MutexHeld /\ CallbacksKnown /\ RegistrationsCalled
    /\ TodoKnown /\ HeardInOrder /\ SendsCurrent /\ LinksFollow

(* It holds initially: the links are the only callbacks.                   *)
LEMMA ValueInit == Init => ValueInv
<1> SUFFICES ASSUME Init PROVE ValueInv
  OBVIOUS
<1>0. ASSUME NEW p \in Params
      PROVE  /\ m_callbacks[p] \in Seq(Params)
             /\ \A i, j \in 1..Len(m_callbacks[p]) : m_callbacks[p][i] = m_callbacks[p][j] => i = j
             /\ \A i \in 1..Len(m_callbacks[p]) :
                  m_callbacks[p][i] \in Params /\ <<p, m_callbacks[p][i]>> \in Links
             /\ \A f \in Params : <<p, f>> \in Links =>
                  \E i \in 1..Len(m_callbacks[p]) : m_callbacks[p][i] = f
  <2> DEFINE S == {f \in Params : <<p, f>> \in Links}
  <2>1. IsFiniteSet(S)
    BY LinksAssumption, FS_Subset
  <2>2. m_callbacks[p] = SetToSeq(S)
    BY DEF Init
  <2>3. S \subseteq Params /\ \A f \in Params : f \in S <=> <<p, f>> \in Links
    OBVIOUS
  <2> HIDE DEF S
  <2>4. /\ m_callbacks[p] \in Seq(S)
        /\ \A i, j \in 1..Len(m_callbacks[p]) : m_callbacks[p][i] = m_callbacks[p][j] => i = j
        /\ \A x \in S : \E i \in 1..Len(m_callbacks[p]) : m_callbacks[p][i] = x
    <3>1. PICK s : s = SetToSeq(S)
      OBVIOUS
    <3>2. /\ s \in Seq(S)
          /\ \A i, j \in 1..Len(s) : s[i] = s[j] => i = j
          /\ \A x \in S : \E i \in 1..Len(s) : s[i] = x
      BY <2>1, <3>1, SetToSeqProperties, Zenon
    <3>3. m_callbacks[p] = s
      BY <2>2, <3>1
    <3> QED
      BY <3>2, <3>3
  <2>5. \A i \in 1..Len(m_callbacks[p]) : m_callbacks[p][i] \in S
    BY <2>4, ElementOfSeq
  <2>6. m_callbacks[p] \in Seq(Params)
    BY <2>3, <2>4, SeqMonotonic
  <2> QED
    BY <2>3, <2>4, <2>5, <2>6
<1>1. m_callbacks \in [Params -> Seq(Params \cup Queues)]
  <2>1. \A p \in Params : m_callbacks[p] \in Seq(Params \cup Queues)
    BY <1>0, SeqMonotonic
  <2>2. m_callbacks = [p \in Params |-> m_callbacks[p]]
    BY DEF Init
  <2> QED
    BY <2>1, <2>2
<1>2. ValueTypes
  BY <1>1, ValuesAssumption DEF Init, ValueTypes
<1>3. \A t \in Threads : Len(stack[t]) = 0
  BY DEF Init
<1>4. CallsNest /\ MutexHeld /\ TodoKnown /\ SendsCurrent
  BY <1>3 DEF CallsNest, MutexHeld, TodoKnown, SendsCurrent
<1>5. CallbacksKnown
  BY <1>0 DEF CallbacksKnown, callbacksKnown
<1>6. RegistrationsCalled /\ HeardInOrder
  BY DEF Init, RegistrationsCalled, HeardInOrder
<1>7. LinksFollow
  <2>1. \A l \in Links : l[1] \in Params /\ l[2] \in Params
    BY LinksAssumption
  <2> QED
    BY <1>3, <2>1 DEF Init, LinksFollow, follows
<1> QED
  BY <1>2, <1>4, <1>5, <1>6, <1>7 DEF ValueInv

(* Every step keeps the types.                                             *)
LEMMA ValueTypesStep == ValueTypes /\ [Next]_vars => ValueTypes'
<1> SUFFICES ASSUME ValueTypes, [Next]_vars PROVE ValueTypes'
  OBVIOUS
<1> USE DEF values, history, others
<1>1. ASSUME NEW t \in Threads, NEW op \in operations(t), NEW p \in Params,
             NEW v \in Values, call(t, op, p, v)
      PROVE  ValueTypes'
  <2>1. StacksTyped'
    BY <1>1, CallEffect
  <2> QED
    BY <1>1, <2>1 DEF call, ValueTypes, StacksTyped
<1>2. ASSUME NEW t \in Threads, store(t) PROVE ValueTypes'
  <2>1. StacksTyped' /\ stack[t] # <<>>
    BY <1>2, StoreEffect
  <2>2. top(t) \in Frames
    BY <2>1, TopTyped
  <2>3. top(t).p \in Params /\ top(t).v \in Values
    BY <2>2 DEF Frames
  <2> QED
    BY <1>2, <2>1, <2>3 DEF store, ValueTypes, StacksTyped
<1>3. ASSUME NEW t \in Threads, send(t) PROVE ValueTypes'
  <2>1. StacksTyped' /\ stack[t] # <<>>
    BY <1>3, SendEffect
  <2>2. top(t) \in Frames
    BY <2>1, TopTyped
  <2>3. top(t).p \in Params /\ top(t).v \in Values
    BY <2>2 DEF Frames
  <2> QED
    BY <1>3, <2>1, <2>3 DEF send, begin_send, ValueTypes, StacksTyped
<1>4. ASSUME NEW t \in Threads, callback(t) PROVE ValueTypes'
  <2>1. StacksTyped' /\ stack[t] # <<>>
    BY <1>4, CallbackEffect
  <2>2. top(t) \in Frames
    BY <2>1, TopTyped
  <2>3. top(t).p \in Params /\ top(t).n \in Nat
    BY <2>2 DEF Frames
  <2>4. <<top(t).p, top(t).n>> \in Params \X Nat
    BY <2>3
  <2>5. heard' \in [Queues -> Seq(Params \X Nat)]
    <3>1. CASE Head(top(t).todo) \in Queues
      <4>1. heard' = [heard EXCEPT ![Head(top(t).todo)] =
                        Append(heard[Head(top(t).todo)], <<top(t).p, top(t).n>>)]
        BY <1>4, <3>1 DEF callback
      <4>2. Append(heard[Head(top(t).todo)], <<top(t).p, top(t).n>>) \in Seq(Params \X Nat)
        BY <2>4, <3>1, AppendProperties DEF ValueTypes
      <4> QED
        BY <4>1, <4>2 DEF ValueTypes
    <3>2. CASE Head(top(t).todo) \notin Queues
      BY <1>4, <3>2 DEF callback, ValueTypes
    <3> QED
      BY <3>1, <3>2
  <2>6. UNCHANGED <<alive, values, m_mutx, m_callbacks, history, sent, m_reg, life>>
    BY <1>4 DEF callback
  <2> QED
    BY <2>1, <2>5, <2>6 DEF ValueTypes, StacksTyped
<1>5. ASSUME NEW t \in Threads, end_send(t) PROVE ValueTypes'
  <2>1. StacksTyped' /\ stack[t] # <<>>
    BY <1>5, EndSendEffect
  <2> QED
    BY <1>5, <2>1 DEF end_send, ValueTypes, StacksTyped
<1>6. ASSUME NEW t \in Threads, push(t) PROVE ValueTypes'
  <2>1. StacksTyped' /\ stack[t] # <<>>
    BY <1>6, PushEffect
  <2>2. top(t) \in Frames
    BY <2>1, TopTyped
  <2>3. top(t).p \in Params
    BY <2>2 DEF Frames
  <2> QED
    BY <1>6, <2>1, <2>3 DEF push, ValueTypes, StacksTyped
<1>7. ASSUME NEW q \in Queues, NEW p \in Params, reg(q, p) PROVE ValueTypes'
  <2>1. CASE p \in DOMAIN m_reg[q]
    <3>1. m_reg' = [m_reg EXCEPT ![q][p] = m_reg[q][p] + 1] /\ m_callbacks' = m_callbacks
      BY <1>7, <2>1 DEF reg
    <3>2. UNCHANGED <<alive, life, others>>
      BY <1>7 DEF reg
    <3>3. \A r \in Queues : DOMAIN m_reg'[r] = DOMAIN m_reg[r]
      BY <3>1 DEF ValueTypes
    <3>4. DOMAIN m_reg' = Queues
      BY <3>1 DEF ValueTypes
    <3> QED
      BY <3>1, <3>2, <3>3, <3>4 DEF ValueTypes
  <2>2. CASE p \notin DOMAIN m_reg[q]
    <3>1. /\ m_callbacks' = [m_callbacks EXCEPT ![p] = <<q>> \o m_callbacks[p]]
          /\ m_reg' = [m_reg EXCEPT ![q] =
                [r \in DOMAIN m_reg[q] \cup {p} |-> IF r = p THEN 0 ELSE m_reg[q][r]]]
      BY <1>7, <2>2 DEF reg
    <3>2. UNCHANGED <<alive, life, others>>
      BY <1>7 DEF reg
    <3>3. <<q>> \o m_callbacks[p] \in Seq(Params \cup Queues)
      BY PrependProperties DEF ValueTypes
    <3>4. m_callbacks' \in [Params -> Seq(Params \cup Queues)]
      BY <3>1, <3>3 DEF ValueTypes
    <3>5. DOMAIN m_reg' = Queues /\ \A r \in Queues : DOMAIN m_reg'[r] \subseteq Params
      BY <3>1 DEF ValueTypes
    <3> QED
      BY <3>2, <3>4, <3>5 DEF ValueTypes
  <2> QED
    BY <2>1, <2>2
<1>0. ASSUME NEW q \in Queues, NEW p \in Params, remove_callback(q, p), forget(q, p)
      PROVE  /\ m_callbacks' \in [Params -> Seq(Params \cup Queues)]
             /\ DOMAIN m_reg' = Queues /\ \A r \in Queues : DOMAIN m_reg'[r] \subseteq Params
  <2>1. PICK i \in DOMAIN m_callbacks[p] :
               m_callbacks' = [m_callbacks EXCEPT ![p] = RemoveAt(m_callbacks[p], i)]
    BY <1>0 DEF remove_callback
  <2>2. m_callbacks[p] \in Seq(Params \cup Queues)
    BY DEF ValueTypes
  <2>3. i \in 1..Len(m_callbacks[p])
    BY <2>2
  <2>4. RemoveAt(m_callbacks[p], i) \in Seq(Params \cup Queues)
    BY <2>2, <2>3, RemoveAtProperties
  <2>5. m_callbacks' \in [Params -> Seq(Params \cup Queues)]
    BY <2>1, <2>4 DEF ValueTypes
  <2>6. DOMAIN m_reg' = Queues /\ \A r \in Queues : DOMAIN m_reg'[r] \subseteq Params
    BY <1>0 DEF forget, ValueTypes
  <2> QED
    BY <2>5, <2>6
<1>8. ASSUME NEW q \in Queues, NEW p \in Params, unreg(q, p) PROVE ValueTypes'
  <2>0. p \in DOMAIN m_reg[q] /\ UNCHANGED <<alive, life, others>>
    BY <1>8 DEF unreg
  <2>1. CASE m_reg[q][p] <= 1
    <3>1. remove_callback(q, p) /\ forget(q, p)
      BY <1>8, <2>1 DEF unreg
    <3> QED
      BY <1>0, <2>0, <3>1 DEF ValueTypes
  <2>2. CASE ~(m_reg[q][p] <= 1)
    <3>1. m_reg' = [m_reg EXCEPT ![q][p] = m_reg[q][p] - 1] /\ m_callbacks' = m_callbacks
      BY <1>8, <2>2 DEF unreg
    <3>2. \A r \in Queues : DOMAIN m_reg'[r] = DOMAIN m_reg[r]
      BY <3>1 DEF ValueTypes
    <3>3. DOMAIN m_reg' = Queues
      BY <3>1 DEF ValueTypes
    <3> QED
      BY <2>0, <3>1, <3>2, <3>3 DEF ValueTypes
  <2> QED
    BY <2>1, <2>2
<1>9. ASSUME NEW q \in Queues, destroy(q) PROVE ValueTypes'
  BY <1>9 DEF destroy, ValueTypes
<1>10. ASSUME NEW q \in Queues, destroy_step(q) PROVE ValueTypes'
  <2>0. UNCHANGED <<alive, others>>
    BY <1>10 DEF destroy_step
  <2>1. CASE DOMAIN m_reg[q] = {}
    <3>1. life' = [life EXCEPT ![q] = "gone"] /\ UNCHANGED <<m_callbacks, m_reg>>
      BY <1>10, <2>1 DEF destroy_step
    <3> QED
      BY <2>0, <3>1 DEF ValueTypes
  <2>2. CASE DOMAIN m_reg[q] # {}
    <3>1. PICK p \in DOMAIN m_reg[q] : remove_callback(q, p) /\ forget(q, p)
      BY <1>10, <2>2 DEF destroy_step
    <3>2. p \in Params
      BY DEF ValueTypes
    <3>3. life' = life
      BY <1>10, <2>2 DEF destroy_step
    <3> QED
      BY <1>0, <2>0, <3>1, <3>2, <3>3 DEF ValueTypes
  <2> QED
    BY <2>1, <2>2
<1>11. ASSUME NEW p \in Params, remove_parameter(p) PROVE ValueTypes'
  <2>1. m_callbacks' \in [Params -> Seq(Params \cup Queues)]
    BY <1>11 DEF remove_parameter, ValueTypes
  <2>2. DOMAIN m_reg' = Queues /\ \A r \in Queues : DOMAIN m_reg'[r] \subseteq Params
    BY <1>11 DEF remove_parameter, on_param_removed, ValueTypes
  <2>3. alive' \in [Params -> BOOLEAN] /\ UNCHANGED <<life, others>>
    BY <1>11 DEF remove_parameter, ValueTypes
  <2> QED
    BY <2>1, <2>2, <2>3 DEF ValueTypes
<1>12. CASE UNCHANGED vars
  BY <1>12 DEF vars, ValueTypes
<1> QED
  BY <1>1, <1>2, <1>3, <1>4, <1>5, <1>6, <1>7, <1>8, <1>9, <1>10, <1>11, <1>12 DEF Next

(* Calls stay nested when the innermost goes on,                           *)
LEMMA NestReplaced ==
  ASSUME ValueTypes, CallsNest, NEW t \in Threads, stack[t] # <<>>, NEW g,
         g.p = top(t).p, g.op = top(t).op, g.v = top(t).v, replaced(t, g)
  PROVE  CallsNest'
<1>1. Len(stack[t]) \in Nat \ {0} /\ top(t) = stack[t][Len(stack[t])]
  BY TopTyped
<1> SUFFICES ASSUME NEW u \in Threads, NEW i \in 1..Len(stack'[u])
             PROVE  nested(stack'[u], i)
  BY DEF CallsNest
<1>2. CASE u # t
  BY <1>2 DEF CallsNest, replaced
<1>3. CASE u = t
  <2>1. i \in 1..Len(stack[t]) /\ nested(stack[t], i)
    BY <1>3 DEF CallsNest, replaced
  <2>2. /\ stack'[t][i].p = stack[t][i].p /\ stack'[t][i].op = stack[t][i].op
        /\ stack'[t][i].v = stack[t][i].v
    BY <1>1, <2>1 DEF replaced
  <2>3. i > 1 => stack'[t][i - 1] = stack[t][i - 1]
    BY <1>1, <2>1 DEF replaced
  <2> QED
    BY <1>3, <2>1, <2>2, <2>3 DEF nested
<1> QED
  BY <1>2, <1>3

(* when it returns,                                                        *)
LEMMA NestPopped ==
  ASSUME ValueTypes, CallsNest, NEW t \in Threads, stack[t] # <<>>, popped(t)
  PROVE  CallsNest'
<1>1. Len(stack[t]) \in Nat \ {0}
  BY TopTyped
<1> SUFFICES ASSUME NEW u \in Threads, NEW i \in 1..Len(stack'[u])
             PROVE  nested(stack'[u], i)
  BY DEF CallsNest
<1>2. CASE u # t
  BY <1>2 DEF CallsNest, popped
<1>3. CASE u = t
  <2>1. i \in 1..Len(stack[t]) /\ i <= Len(stack[t]) - 1
    BY <1>1, <1>3 DEF popped
  <2>2. nested(stack[t], i)
    BY <2>1  DEF CallsNest
  <2>3. stack'[t][i] = stack[t][i] /\ (i > 1 => stack'[t][i - 1] = stack[t][i - 1])
    BY <1>1, <2>1 DEF popped
  <2> QED
    BY <1>3, <2>1, <2>2, <2>3 DEF nested
<1> QED
  BY <1>2, <1>3

(* and when it pushes along a link that its send has not left.             *)
LEMMA NestPushed ==
  ASSUME ValueTypes, CallsNest, NEW t \in Threads, stack[t] # <<>>, NEW g, NEW h,
         g.p = top(t).p, g.op = top(t).op, g.v = top(t).v, g.at = "notify",
         h.op = "push", h.v = g.v, <<g.p, h.p>> \in Links,
         \A j \in 1..Len(g.todo) : g.todo[j] # h.p, pushed(t, g, h)
  PROVE  CallsNest'
<1>1. Len(stack[t]) \in Nat \ {0} /\ top(t) = stack[t][Len(stack[t])]
  BY TopTyped
<1> SUFFICES ASSUME NEW u \in Threads, NEW i \in 1..Len(stack'[u])
             PROVE  nested(stack'[u], i)
  BY DEF CallsNest
<1>2. CASE u # t
  BY <1>2 DEF CallsNest, pushed
<1>3. CASE u = t /\ i <= Len(stack[t])
  <2>1. i \in 1..Len(stack[t]) /\ nested(stack[t], i)
    BY <1>1, <1>3 DEF CallsNest, pushed
  <2>2. /\ stack'[t][i].p = stack[t][i].p /\ stack'[t][i].op = stack[t][i].op
        /\ stack'[t][i].v = stack[t][i].v
    BY <1>1, <2>1 DEF pushed
  <2>3. i > 1 => stack'[t][i - 1] = stack[t][i - 1]
    BY <1>1, <2>1 DEF pushed
  <2> QED
    BY <1>3, <2>1, <2>2, <2>3 DEF nested
<1>4. CASE u = t /\ ~(i <= Len(stack[t]))
  <2>1. i = Len(stack[t]) + 1 /\ i > 1 /\ i - 1 = Len(stack[t])
    BY <1>1, <1>4 DEF pushed
  <2>2. stack'[t][i] = h /\ stack'[t][i - 1] = g
    BY <2>1 DEF pushed
  <2> QED
    BY <1>4, <2>1, <2>2 DEF nested
<1> QED
  BY <1>2, <1>3, <1>4

(* The first callback that is left, and those after it. *)
LEMMA CallbackOf ==
  ASSUME ValueTypes, CallbacksKnown, TodoKnown, NEW t \in Threads, callback(t)
  PROVE  LET todo == top(t).todo
         IN  /\ todo \in Seq(Params \cup Queues) /\ Len(todo) \in Nat \ {0}
             /\ Head(todo) = todo[1]
             /\ Tail(todo) \in Seq(Params \cup Queues)
             /\ Len(Tail(todo)) = Len(todo) - 1
             /\ \A j \in 1..(Len(todo) - 1) :
                  Tail(todo)[j] = todo[j + 1] /\ todo[j + 1] # Head(todo)
             /\ Head(todo) \notin Queues => <<top(t).p, Head(todo)>> \in Links
<1> DEFINE todo == top(t).todo
<1>1. stack[t] # <<>> /\ todo # <<>>
  BY CallbackEffect
<1>2. top(t) \in Frames /\ Len(stack[t]) \in 1..Len(stack[t]) /\ top(t) = stack[t][Len(stack[t])]
  BY <1>1, TopTyped
<1>3. todo \in Seq(Params \cup Queues) /\ top(t).p \in Params
  BY <1>2 DEF Frames
<1>4. /\ \A j, k \in 1..Len(todo) : todo[j] = todo[k] => j = k
      /\ \A j \in 1..Len(todo) :
           \E k \in 1..Len(m_callbacks[top(t).p]) : m_callbacks[top(t).p][k] = todo[j]
  <2>1. todoKnown(top(t))
    BY <1>2 DEF TodoKnown
  <2> QED
    BY <2>1 DEF todoKnown
<1>5. /\ Len(todo) \in Nat \ {0} /\ Head(todo) = todo[1]
      /\ Tail(todo) \in Seq(Params \cup Queues)
      /\ Len(Tail(todo)) = Len(todo) - 1
      /\ \A j \in 1..Len(Tail(todo)) : Tail(todo)[j] = todo[j + 1]
  <2> HIDE DEF todo
  <2>1. Head(todo) = todo[1]
    BY <1>1, <1>3
  <2>2. Len(todo) \in Nat \ {0}
    BY <1>1, <1>3, EmptySeq
  <2> QED
    BY <1>1, <1>3, <2>1, <2>2, HeadTailProperties
<1>6. Head(todo) \notin Queues => <<top(t).p, Head(todo)>> \in Links
  <2>1. PICK k \in 1..Len(m_callbacks[top(t).p]) : m_callbacks[top(t).p][k] = todo[1]
    BY <1>4, <1>5
  <2> QED
    BY <1>3, <1>5, <2>1 DEF CallbacksKnown, callbacksKnown
<1> HIDE DEF todo
<1>7. \A j \in 1..(Len(todo) - 1) : Tail(todo)[j] = todo[j + 1] /\ todo[j + 1] # Head(todo)
  BY <1>4, <1>5
<1>8. /\ todo \in Seq(Params \cup Queues) /\ Len(todo) \in Nat \ {0}
      /\ Head(todo) = todo[1]
      /\ Tail(todo) \in Seq(Params \cup Queues)
      /\ Len(Tail(todo)) = Len(todo) - 1
  BY <1>3, <1>5
<1> QED
  BY <1>6, <1>7, <1>8 DEF todo

(* Every step keeps the calls nested.                                      *)
LEMMA CallsNestStep == ValueInv /\ [Next]_vars => CallsNest'
<1> SUFFICES ASSUME ValueInv, [Next]_vars PROVE CallsNest'
  OBVIOUS
<1>0. ValueTypes /\ CallsNest /\ CallbacksKnown /\ TodoKnown
  BY DEF ValueInv
<1>1. ASSUME NEW t \in Threads, NEW op \in operations(t), NEW p \in Params,
             NEW v \in Values, call(t, op, p, v)
      PROVE  CallsNest'
  <2>1. entered(t, frame(op, p, v))
    BY <1>0, <1>1, CallEffect
  <2>2. p \in Direct /\ frame(op, p, v).p = p
    BY <1>1 DEF call, frame
  <2> SUFFICES ASSUME NEW u \in Threads, NEW i \in 1..Len(stack'[u])
               PROVE  nested(stack'[u], i)
    BY DEF CallsNest
  <2>3. CASE u # t
    BY <1>0, <2>1, <2>3 DEF CallsNest, entered
  <2>4. CASE u = t
    BY <2>1, <2>2, <2>4 DEF entered, nested
  <2> QED
    BY <2>3, <2>4
<1>2. ASSUME NEW t \in Threads, store(t) PROVE CallsNest'
  <2>1. top(t) \in Frames
    BY <1>0, <1>2, StoreEffect, TopTyped
  <2>2. /\ [top(t) EXCEPT !.at = "lock"].p = top(t).p
        /\ [top(t) EXCEPT !.at = "lock"].op = top(t).op
        /\ [top(t) EXCEPT !.at = "lock"].v = top(t).v
    BY <2>1 DEF Frames
  <2> QED
    BY <1>0, <1>2, <2>2, StoreEffect, NestPopped, NestReplaced
<1>3. ASSUME NEW t \in Threads, send(t) PROVE CallsNest'
  <2>1. top(t) \in Frames
    BY <1>0, <1>3, SendEffect, TopTyped
  <2>2. PICK g : /\ g = [top(t) EXCEPT !.at = "notify", !.n = sends[top(t).p] + 1,
                                       !.todo = m_callbacks[top(t).p]]
                 /\ replaced(t, g)
    BY <1>0, <1>3, SendEffect
  <2>3. g.p = top(t).p /\ g.op = top(t).op /\ g.v = top(t).v
    BY <2>1, <2>2 DEF Frames
  <2> QED
    BY <1>0, <1>3, <2>2, <2>3, SendEffect, NestReplaced
<1>4. ASSUME NEW t \in Threads, callback(t) PROVE CallsNest'
  <2>1. top(t) \in Frames /\ stack[t] # <<>> /\ top(t).at = "notify"
    BY <1>0, <1>4, CallbackEffect, TopTyped
  <2>2. PICK g : g = [top(t) EXCEPT !.todo = Tail(top(t).todo)]
    OBVIOUS
  <2>3. /\ g.p = top(t).p /\ g.op = top(t).op /\ g.v = top(t).v /\ g.at = "notify"
        /\ g.todo = Tail(top(t).todo)
    BY <2>1, <2>2 DEF Frames
  <2>4. CASE Head(top(t).todo) \in Queues
    BY <1>0, <1>4, <2>1, <2>2, <2>3, <2>4, CallbackEffect, NestReplaced
  <2>5. CASE Head(top(t).todo) \notin Queues
    <3>1. PICK h : h = frame("push", Head(top(t).todo), top(t).v)
      OBVIOUS
    <3>2. h.op = "push" /\ h.v = g.v /\ h.p = Head(top(t).todo)
      BY <2>3, <3>1 DEF frame
    <3>3. pushed(t, g, h)
      BY <1>0, <1>4, <2>2, <2>5, <3>1, CallbackEffect
    <3>4. /\ <<top(t).p, Head(top(t).todo)>> \in Links
          /\ \A j \in 1..Len(Tail(top(t).todo)) : Tail(top(t).todo)[j] # Head(top(t).todo)
      BY <1>0, <1>4, <2>5, CallbackOf
    <3> QED
      BY <1>0, <2>1, <2>3, <3>2, <3>3, <3>4, NestPushed
  <2> QED
    BY <2>4, <2>5
<1>5. ASSUME NEW t \in Threads, end_send(t) PROVE CallsNest'
  <2>1. top(t) \in Frames
    BY <1>0, <1>5, EndSendEffect, TopTyped
  <2>2. /\ [top(t) EXCEPT !.at = "push"].p = top(t).p
        /\ [top(t) EXCEPT !.at = "push"].op = top(t).op
        /\ [top(t) EXCEPT !.at = "push"].v = top(t).v
    BY <2>1 DEF Frames
  <2> QED
    BY <1>0, <1>5, <2>2, EndSendEffect, NestPopped, NestReplaced
<1>6. ASSUME NEW t \in Threads, push(t) PROVE CallsNest'
  BY <1>0, <1>6, PushEffect, NestPopped
<1>7. CASE UNCHANGED stack
  BY <1>0, <1>7 DEF CallsNest, nested
<1> QED
  <2>1. ASSUME NEW q \in Queues, NEW p \in Params, reg(q, p) \/ unreg(q, p)
        PROVE  UNCHANGED stack
    BY <2>1 DEF reg, unreg, others
  <2>2. ASSUME NEW q \in Queues, destroy(q) \/ destroy_step(q) PROVE UNCHANGED stack
    BY <2>2 DEF destroy, destroy_step, others
  <2>3. ASSUME NEW p \in Params, remove_parameter(p) PROVE UNCHANGED stack
    BY <2>3 DEF remove_parameter, others
  <2>4. UNCHANGED vars => UNCHANGED stack
    BY DEF vars
  <2> QED
    BY <1>1, <1>2, <1>3, <1>4, <1>5, <1>6, <1>7, <2>1, <2>2, <2>3, <2>4 DEF Next

(* No send begins: those under way were under way.                         *)
sendsKept ==
    \A u \in Threads : \A i \in 1..Len(stack'[u]) : stack'[u][i].at = "notify" =>
        /\ i \in 1..Len(stack[u])
        /\ stack[u][i].at = "notify"
        /\ stack'[u][i].p = stack[u][i].p

(* Only send begins one.                                                   *)
LEMMA SendsKept ==
  ASSUME ValueTypes, NEW t \in Threads,
         \/ store(t) \/ callback(t) \/ end_send(t) \/ push(t)
         \/ \E op \in operations(t), p \in Params, v \in Values : call(t, op, p, v)
  PROVE  sendsKept
<1>1. ASSUME stack[t] # <<>>, NEW g, replaced(t, g),
             g.at = "notify" => top(t).at = "notify" /\ g.p = top(t).p
      PROVE  sendsKept
  <2>1. Len(stack[t]) \in Nat \ {0} /\ top(t) = stack[t][Len(stack[t])]
    BY <1>1, TopTyped
  <2> QED
    BY <1>1, <2>1 DEF replaced, sendsKept
<1>2. ASSUME stack[t] # <<>>, popped(t) PROVE sendsKept
  <2>1. Len(stack[t]) \in Nat \ {0}
    BY <1>2, TopTyped
  <2> QED
    BY <1>2, <2>1 DEF popped, sendsKept
<1>3. ASSUME stack[t] # <<>>, NEW g, NEW h, pushed(t, g, h),
             g.at = "notify" => top(t).at = "notify" /\ g.p = top(t).p,
             h.at # "notify"
      PROVE  sendsKept
  <2>1. Len(stack[t]) \in Nat \ {0} /\ top(t) = stack[t][Len(stack[t])]
    BY <1>3, TopTyped
  <2> QED
    <3> SUFFICES ASSUME NEW u \in Threads, NEW i \in 1..Len(stack'[u]),
                        stack'[u][i].at = "notify"
                 PROVE  /\ i \in 1..Len(stack[u]) /\ stack[u][i].at = "notify"
                        /\ stack'[u][i].p = stack[u][i].p
      BY DEF sendsKept
    <3>1. CASE u # t
      BY <1>3, <3>1 DEF pushed
    <3>2. CASE u = t
      <4>1. i \in 1..(Len(stack[t]) - 1) \/ i = Len(stack[t]) \/ i = Len(stack[t]) + 1
        BY <1>3, <2>1, <3>2 DEF pushed
      <4> QED
        BY <1>3, <2>1, <3>2, <4>1 DEF pushed
    <3> QED
      BY <3>1, <3>2
<1>4. ASSUME NEW h, entered(t, h), h.at # "notify" PROVE sendsKept
  BY <1>4 DEF entered, sendsKept
<1>5. stack[t] # <<>> => top(t) \in Frames
  BY TopTyped
<1>6. CASE store(t)
  <2>1. [top(t) EXCEPT !.at = "lock"].at = "lock"
    BY <1>5, <1>6, StoreEffect DEF Frames
  <2> QED
    BY <1>1, <1>2, <1>6, <2>1, StoreEffect
<1>7. CASE callback(t)
  <2>1. PICK g : g = [top(t) EXCEPT !.todo = Tail(top(t).todo)]
    OBVIOUS
  <2>2. g.at = top(t).at /\ g.p = top(t).p
    BY <1>5, <1>7, <2>1, CallbackEffect DEF Frames
  <2>3. PICK h : h = frame("push", Head(top(t).todo), top(t).v)
    OBVIOUS
  <2>4. h.at = "store"
    BY <2>3 DEF frame
  <2>5. replaced(t, g) \/ pushed(t, g, h)
    BY <1>7, <2>1, <2>3, CallbackEffect
  <2>6. stack[t] # <<>> /\ top(t).at = "notify"
    BY <1>7, CallbackEffect
  <2> QED
    BY <1>1, <1>3, <2>2, <2>4, <2>5, <2>6
<1>8. CASE end_send(t)
  <2>1. [top(t) EXCEPT !.at = "push"].at = "push"
    BY <1>5, <1>8, EndSendEffect DEF Frames
  <2> QED
    BY <1>1, <1>2, <1>8, <2>1, EndSendEffect
<1>9. CASE push(t)
  BY <1>2, <1>9, PushEffect
<1>10. ASSUME NEW op \in operations(t), NEW p \in Params, NEW v \in Values, call(t, op, p, v)
       PROVE  sendsKept
  <2>1. frame(op, p, v).at # "notify"
    BY DEF frame
  <2>2. entered(t, frame(op, p, v))
    BY <1>10, CallEffect
  <2> QED
    BY <1>4, <2>1, <2>2
<1> QED
  BY <1>6, <1>7, <1>8, <1>9, <1>10

(* Every step keeps the mutex with the sends under way: send waits until   *)
(* it is free, and only the end of the one send frees it.                  *)
LEMMA MutexHeldStep == ValueInv /\ [Next]_vars => MutexHeld'
<1> SUFFICES ASSUME ValueInv, [Next]_vars PROVE MutexHeld'
  OBVIOUS
<1> USE DEF values, history, others
<1>0. ValueTypes /\ MutexHeld
  BY DEF ValueInv
<1>1. ASSUME sendsKept, UNCHANGED m_mutx PROVE MutexHeld'
  BY <1>0, <1>1 DEF MutexHeld, sendsKept
<1>2. ASSUME NEW t \in Threads, end_send(t) PROVE MutexHeld'
  <2>1. sendsKept
    BY <1>0, <1>2, SendsKept
  <2>2. /\ stack[t] # <<>> /\ top(t).at = "notify"
        /\ top(t) = stack[t][Len(stack[t])] /\ top(t).p \in Params
        /\ Len(stack[t]) \in 1..Len(stack[t]) /\ Len(stack[t]) \in Nat
    <3>1. stack[t] # <<>> /\ top(t).at = "notify"
      BY <1>0, <1>2, EndSendEffect
    <3>2. /\ top(t) = stack[t][Len(stack[t])] /\ top(t) \in Frames
          /\ Len(stack[t]) \in Nat \ {0}
      BY <1>0, <3>1, TopTyped
    <3> QED
      BY <3>1, <3>2 DEF Frames
  <2>3. m_mutx' = [m_mutx EXCEPT ![top(t).p] = NoThread]
    BY <1>2 DEF end_send
  <2>4. ASSUME NEW u \in Threads, NEW i \in 1..Len(stack'[u]), stack'[u][i].at = "notify"
        PROVE  stack'[u][i].p # top(t).p
    <3>1. i \in 1..Len(stack[u]) /\ stack[u][i].at = "notify" /\ stack'[u][i].p = stack[u][i].p
      BY <2>1, <2>4 DEF sendsKept
    <3>2. SUFFICES ASSUME stack[u][i].p = top(t).p PROVE FALSE
      BY <3>1
    <3>3. u = t
      BY <1>0, <2>2, <3>1, <3>2 DEF MutexHeld
    <3>4. i = Len(stack[t])
      BY <1>0, <2>2, <3>1, <3>2, <3>3 DEF MutexHeld
    <3>5. CASE top(t).op = "push"
      <4>1. stack'[t][Len(stack[t])].at = "push"
        <5>1. stack'[t][Len(stack[t])] = [top(t) EXCEPT !.at = "push"]
          BY <1>0, <1>2, <3>5, EndSendEffect DEF replaced
        <5>2. top(t) \in Frames
          BY <1>0, <2>2, TopTyped
        <5> QED
          BY <5>1, <5>2 DEF Frames
      <4> QED
        BY <2>4, <3>3, <3>4, <4>1
    <3>6. CASE top(t).op # "push"
      <4>1. Len(stack'[t]) = Len(stack[t]) - 1
        BY <1>0, <1>2, <3>6, EndSendEffect DEF popped
      <4> QED
        BY <2>2, <3>3, <3>4, <4>1
    <3> QED
      BY <3>5, <3>6
  <2>5. \A p \in Params : p # top(t).p => m_mutx'[p] = m_mutx[p]
    BY <1>0, <2>3 DEF ValueTypes
  <2>6. \A u \in Threads : \A i \in 1..Len(stack'[u]) : stack'[u][i].p \in Params
    <3>1. \A u \in Threads : stack'[u] \in Seq(Frames)
      BY <1>0, <1>2, EndSendEffect DEF StacksTyped
    <3>2. \A u \in Threads : \A i \in 1..Len(stack'[u]) : stack'[u][i] \in Frames
      BY <3>1, ElementOfSeq
    <3> QED
      BY <3>2 DEF Frames
  <2> QED
    BY <1>0, <2>1, <2>4, <2>5, <2>6 DEF MutexHeld, sendsKept
<1>3. ASSUME NEW t \in Threads, send(t) PROVE MutexHeld'
  <2>1. /\ stack[t] # <<>> /\ top(t).at = "lock"
        /\ top(t) \in Frames /\ top(t) = stack[t][Len(stack[t])] /\ top(t).p \in Params
        /\ Len(stack[t]) \in Nat \ {0}
    BY <1>0, <1>3, SendEffect, TopTyped DEF Frames
  <2>2. m_mutx[top(t).p] = NoThread /\ m_mutx' = [m_mutx EXCEPT ![top(t).p] = t]
    BY <1>3 DEF send
  <2>3. PICK g : /\ g = [top(t) EXCEPT !.at = "notify", !.n = sends[top(t).p] + 1,
                                       !.todo = m_callbacks[top(t).p]]
                 /\ replaced(t, g)
    BY <1>0, <1>3, SendEffect
  <2>4. g.p = top(t).p
    BY <2>1, <2>3 DEF Frames
  <2>5. ASSUME NEW u \in Threads, NEW i \in 1..Len(stack[u]), stack[u][i].at = "notify"
        PROVE  stack[u][i].p # top(t).p /\ stack[u][i].p \in Params
    <3>1. m_mutx[stack[u][i].p] = u /\ u # NoThread
      BY <1>0, <2>5, AppAssumption DEF MutexHeld
    <3>2. stack[u][i] \in Frames
      BY <1>0, ElementOfSeq DEF ValueTypes
    <3> QED
      BY <2>2, <3>1, <3>2 DEF Frames
  <2>6. ASSUME NEW u \in Threads, NEW i \in 1..Len(stack'[u]), stack'[u][i].at = "notify"
        PROVE  \/ u = t /\ i = Len(stack[t]) /\ stack'[u][i] = g
               \/ i \in 1..Len(stack[u]) /\ stack'[u][i] = stack[u][i]
    BY <2>1, <2>3, <2>6 DEF replaced
  <2>7. \A p \in Params : p # top(t).p => m_mutx'[p] = m_mutx[p]
    BY <1>0, <2>2 DEF ValueTypes
  <2>8. m_mutx'[top(t).p] = t
    BY <1>0, <2>1, <2>2 DEF ValueTypes
  <2>9. ASSUME NEW u \in Threads, NEW i \in 1..Len(stack'[u]), stack'[u][i].at = "notify"
        PROVE  /\ m_mutx'[stack'[u][i].p] = u
               /\ \A j \in 1..Len(stack'[u]) :
                    stack'[u][j].at = "notify" /\ stack'[u][j].p = stack'[u][i].p => i = j
    <3>1. CASE u = t /\ i = Len(stack[t]) /\ stack'[u][i] = g
      <4>1. m_mutx'[stack'[u][i].p] = u
        BY <2>4, <2>8, <3>1
      <4>2. ASSUME NEW j \in 1..Len(stack'[u]), stack'[u][j].at = "notify",
                   stack'[u][j].p = stack'[u][i].p
            PROVE  i = j
        BY <2>4, <2>5, <2>6, <3>1, <4>2
      <4> QED
        BY <4>1, <4>2
    <3>2. CASE i \in 1..Len(stack[u]) /\ stack'[u][i] = stack[u][i]
      <4>1. stack[u][i].p # top(t).p /\ stack[u][i].p \in Params
        BY <2>5, <2>9, <3>2
      <4>2. m_mutx'[stack'[u][i].p] = u
        BY <1>0, <2>7, <2>9, <3>2, <4>1 DEF MutexHeld
      <4>3. ASSUME NEW j \in 1..Len(stack'[u]), stack'[u][j].at = "notify",
                   stack'[u][j].p = stack'[u][i].p
            PROVE  i = j
        <5>1. j \in 1..Len(stack[u]) /\ stack'[u][j] = stack[u][j]
          BY <2>4, <2>6, <3>2, <4>1, <4>3
        <5> QED
          BY <1>0, <2>9, <3>2, <4>3, <5>1 DEF MutexHeld
      <4> QED
        BY <4>2, <4>3
    <3> QED
      BY <2>6, <2>9, <3>1, <3>2
  <2> QED
    BY <2>9 DEF MutexHeld
<1>4. ASSUME NEW t \in Threads, NEW op \in operations(t), NEW p \in Params,
             NEW v \in Values, call(t, op, p, v)
      PROVE  MutexHeld'
  <2>1. sendsKept
    BY <1>0, <1>4, SendsKept
  <2> QED
    BY <1>1, <1>4, <2>1 DEF call
<1>5. ASSUME NEW t \in Threads, store(t) \/ callback(t) \/ push(t) PROVE MutexHeld'
  <2>1. sendsKept
    BY <1>0, <1>5, SendsKept
  <2> QED
    BY <1>1, <1>5, <2>1 DEF store, callback, push
<1>6. CASE UNCHANGED <<stack, m_mutx>>
  BY <1>0, <1>6 DEF MutexHeld
<1> QED
  <2>1. ASSUME NEW q \in Queues, NEW p \in Params, reg(q, p) \/ unreg(q, p)
        PROVE  UNCHANGED <<stack, m_mutx>>
    BY <2>1 DEF reg, unreg
  <2>2. ASSUME NEW q \in Queues, destroy(q) \/ destroy_step(q)
        PROVE  UNCHANGED <<stack, m_mutx>>
    BY <2>2 DEF destroy, destroy_step
  <2>3. ASSUME NEW p \in Params, remove_parameter(p) PROVE UNCHANGED <<stack, m_mutx>>
    BY <2>3 DEF remove_parameter
  <2>4. UNCHANGED vars => UNCHANGED <<stack, m_mutx>>
    BY DEF vars
  <2> QED
    BY <1>2, <1>3, <1>4, <1>5, <1>6, <2>1, <2>2, <2>3, <2>4 DEF Next

(* What the queues do: a callback more, one less, or only counting.        *)
added(q, p) ==
    /\ Len(m_callbacks'[p]) = Len(m_callbacks[p]) + 1
    /\ m_callbacks'[p][1] = q
    /\ \A j \in 2..(Len(m_callbacks[p]) + 1) : m_callbacks'[p][j] = m_callbacks[p][j - 1]
    /\ \A r \in Params \ {p} : m_callbacks'[r] = m_callbacks[r]
    /\ DOMAIN m_reg'[q] = DOMAIN m_reg[q] \cup {p}
    /\ \A r \in Queues \ {q} : DOMAIN m_reg'[r] = DOMAIN m_reg[r]

removed(q, p, i) ==
    /\ m_mutx[p] = NoThread
    /\ i \in 1..Len(m_callbacks[p]) /\ m_callbacks[p][i] = q
    /\ Len(m_callbacks'[p]) = Len(m_callbacks[p]) - 1
    /\ \A j \in 1..(Len(m_callbacks[p]) - 1) :
         m_callbacks'[p][j] = IF j < i THEN m_callbacks[p][j] ELSE m_callbacks[p][j + 1]
    /\ \A r \in Params \ {p} : m_callbacks'[r] = m_callbacks[r]
    /\ DOMAIN m_reg'[q] = DOMAIN m_reg[q] \ {p}
    /\ \A r \in Queues \ {q} : DOMAIN m_reg'[r] = DOMAIN m_reg[r]

counted == m_callbacks' = m_callbacks /\ \A r \in Queues : DOMAIN m_reg'[r] = DOMAIN m_reg[r]

(* reg counts or adds.                                                     *)
LEMMA RegEffect ==
  ASSUME ValueTypes, NEW q \in Queues, NEW p \in Params, reg(q, p)
  PROVE  /\ life[q] = "alive" /\ alive[p]
         /\ p \in DOMAIN m_reg[q] => counted
         /\ p \notin DOMAIN m_reg[q] => added(q, p)
         /\ UNCHANGED <<alive, life, stack, heard, sends, notified, m_mutx, m_value,
                        m_previousValue, sent>>
<1>1. life[q] = "alive" /\ alive[p]
  BY DEF reg
<1>2. UNCHANGED <<alive, life, stack, heard, sends, notified, m_mutx, m_value,
                  m_previousValue, sent>>
  BY DEF reg, others, values, history
<1>3. CASE p \in DOMAIN m_reg[q]
  <2>1. m_reg' = [m_reg EXCEPT ![q][p] = m_reg[q][p] + 1] /\ m_callbacks' = m_callbacks
    BY <1>3 DEF reg
  <2>2. counted
    BY <2>1 DEF ValueTypes, counted
  <2> QED
    BY <1>1, <1>2, <1>3, <2>2
<1>4. CASE p \notin DOMAIN m_reg[q]
  <2>1. /\ m_callbacks' = [m_callbacks EXCEPT ![p] = <<q>> \o m_callbacks[p]]
        /\ m_reg' = [m_reg EXCEPT ![q] =
              [r \in DOMAIN m_reg[q] \cup {p} |-> IF r = p THEN 0 ELSE m_reg[q][r]]]
    BY <1>4 DEF reg
  <2>2. m_callbacks[p] \in Seq(Params \cup Queues) /\ q \in Params \cup Queues
    BY DEF ValueTypes
  <2>3. m_callbacks'[p] = <<q>> \o m_callbacks[p]
    BY <2>1 DEF ValueTypes
  <2>4. /\ Len(m_callbacks'[p]) = Len(m_callbacks[p]) + 1
        /\ m_callbacks'[p][1] = q
        /\ \A j \in 2..(Len(m_callbacks[p]) + 1) : m_callbacks'[p][j] = m_callbacks[p][j - 1]
    BY <2>2, <2>3, PrependProperties
  <2>5. /\ \A r \in Params \ {p} : m_callbacks'[r] = m_callbacks[r]
        /\ DOMAIN m_reg'[q] = DOMAIN m_reg[q] \cup {p}
        /\ \A r \in Queues \ {q} : DOMAIN m_reg'[r] = DOMAIN m_reg[r]
    BY <2>1 DEF ValueTypes
  <2>6. added(q, p)
    BY <2>4, <2>5 DEF added
  <2> QED
    BY <1>1, <1>2, <1>4, <2>6
<1> QED
  BY <1>3, <1>4

(* remove_callback and forget go together.                                 *)
LEMMA RemoveEffect ==
  ASSUME ValueTypes, NEW q \in Queues, NEW p \in Params, remove_callback(q, p), forget(q, p)
  PROVE  \E i \in Nat : removed(q, p, i)
<1>1. PICK i \in DOMAIN m_callbacks[p] :
        /\ m_callbacks[p][i] = q
        /\ m_callbacks' = [m_callbacks EXCEPT ![p] = RemoveAt(m_callbacks[p], i)]
  BY DEF remove_callback
<1>2. m_callbacks[p] \in Seq(Params \cup Queues)
  BY DEF ValueTypes
<1>3. i \in 1..Len(m_callbacks[p]) /\ i \in Nat
  BY <1>2
<1>4. m_callbacks'[p] = RemoveAt(m_callbacks[p], i)
  BY <1>1 DEF ValueTypes
<1>5. /\ Len(m_callbacks'[p]) = Len(m_callbacks[p]) - 1
      /\ \A j \in 1..(Len(m_callbacks[p]) - 1) :
           m_callbacks'[p][j] = IF j < i THEN m_callbacks[p][j] ELSE m_callbacks[p][j + 1]
  BY <1>2, <1>3, <1>4, RemoveAtProperties
<1>6. /\ \A r \in Params \ {p} : m_callbacks'[r] = m_callbacks[r]
      /\ DOMAIN m_reg'[q] = DOMAIN m_reg[q] \ {p}
      /\ \A r \in Queues \ {q} : DOMAIN m_reg'[r] = DOMAIN m_reg[r]
  BY <1>1 DEF ValueTypes, forget
<1>7. m_mutx[p] = NoThread
  BY DEF remove_callback
<1> QED
  BY <1>1, <1>3, <1>5, <1>6, <1>7 DEF removed

(* unreg counts or removes.                                                *)
LEMMA UnregEffect ==
  ASSUME ValueTypes, NEW q \in Queues, NEW p \in Params, unreg(q, p)
  PROVE  /\ counted \/ \E i \in Nat : removed(q, p, i)
         /\ UNCHANGED <<alive, life, stack, heard, sends, notified, m_mutx, m_value,
                        m_previousValue, sent>>
<1>1. UNCHANGED <<alive, life, stack, heard, sends, notified, m_mutx, m_value,
                  m_previousValue, sent>>
  BY DEF unreg, others, values, history
<1>2. CASE m_reg[q][p] <= 1
  <2>1. remove_callback(q, p) /\ forget(q, p)
    BY <1>2 DEF unreg
  <2> QED
    BY <1>1, <2>1, RemoveEffect
<1>3. CASE ~(m_reg[q][p] <= 1)
  <2>1. m_reg' = [m_reg EXCEPT ![q][p] = m_reg[q][p] - 1] /\ m_callbacks' = m_callbacks
    BY <1>3 DEF unreg
  <2>2. counted
    BY <2>1 DEF ValueTypes, counted
  <2> QED
    BY <1>1, <2>2
<1> QED
  BY <1>2, <1>3

(* destroy only marks the queue.                                           *)
LEMMA DestroyEffect ==
  ASSUME ValueTypes, NEW q \in Queues, destroy(q)
  PROVE  /\ life' = [life EXCEPT ![q] = "closing"] /\ counted
         /\ UNCHANGED <<alive, stack, heard, sends, notified, m_mutx, m_value,
                        m_previousValue, sent>>
BY DEF destroy, counted, others, values, history

(* The destructor removes one registration, or ends without any.           *)
LEMMA DestroyStepEffect ==
  ASSUME ValueTypes, NEW q \in Queues, destroy_step(q)
  PROVE  /\ \/ /\ life' = [life EXCEPT ![q] = "gone"] /\ DOMAIN m_reg[q] = {} /\ counted
            \/ life' = life /\ \E p \in Params, i \in Nat : removed(q, p, i)
         /\ UNCHANGED <<alive, stack, heard, sends, notified, m_mutx, m_value,
                        m_previousValue, sent>>
<1>1. UNCHANGED <<alive, stack, heard, sends, notified, m_mutx, m_value,
                  m_previousValue, sent>>
  BY DEF destroy_step, others, values, history
<1>2. CASE DOMAIN m_reg[q] = {}
  BY <1>1, <1>2 DEF destroy_step, counted
<1>3. CASE DOMAIN m_reg[q] # {}
  <2>1. PICK p \in DOMAIN m_reg[q] : remove_callback(q, p) /\ forget(q, p)
    BY <1>3 DEF destroy_step
  <2>2. p \in Params
    BY DEF ValueTypes
  <2>3. life' = life
    BY <1>3 DEF destroy_step
  <2> QED
    BY <1>1, <2>1, <2>2, <2>3, RemoveEffect
<1> QED
  BY <1>2, <1>3

(* The destruction of a parameter clears both sides.                       *)
LEMMA RemoveParameterEffect ==
  ASSUME ValueTypes, NEW p \in Params, remove_parameter(p)
  PROVE  /\ \A t \in Threads : \A i \in 1..Len(stack[t]) : stack[t][i].p # p
         /\ alive' = [alive EXCEPT ![p] = FALSE]
         /\ Len(m_callbacks'[p]) = 0
         /\ \A r \in Params \ {p} : m_callbacks'[r] = m_callbacks[r]
         /\ \A q \in Queues : DOMAIN m_reg'[q] = DOMAIN m_reg[q] \ {p}
         /\ UNCHANGED <<life, stack, heard, sends, notified, m_mutx, m_value,
                        m_previousValue, sent>>
<1>1. \A t \in Threads : \A i \in 1..Len(stack[t]) : stack[t][i].p # p
  <2>1. \A t \in Threads : DOMAIN stack[t] = 1..Len(stack[t])
    BY LenProperties DEF ValueTypes
  <2> QED
    BY <2>1 DEF remove_parameter
<1>2. /\ m_callbacks'[p] = <<>>
      /\ \A r \in Params \ {p} : m_callbacks'[r] = m_callbacks[r]
  BY DEF remove_parameter, ValueTypes
<1>3. \A q \in Queues : DOMAIN m_reg'[q] = DOMAIN m_reg[q] \ {p}
  BY DEF remove_parameter, on_param_removed, ValueTypes
<1> QED
  BY <1>1, <1>2, <1>3 DEF remove_parameter, others, values, history

(* A first registration adds a callback that was not there.                *)
LEMMA AddedKeepsCallbacks ==
  ASSUME ValueTypes, CallbacksKnown, NEW q \in Queues, NEW p \in Params,
         p \notin DOMAIN m_reg[q], added(q, p), UNCHANGED alive
  PROVE  CallbacksKnown'
<1> SUFFICES ASSUME NEW r \in Params PROVE callbacksKnown(r)'
  BY DEF CallbacksKnown
<1>0. callbacksKnown(r) /\ Len(m_callbacks[r]) \in Nat
  BY LenProperties DEF CallbacksKnown, ValueTypes
<1>1. \A s \in Queues : DOMAIN m_reg[s] \subseteq DOMAIN m_reg'[s]
  BY DEF added
<1>2. CASE r # p
  <2>1. m_callbacks'[r] = m_callbacks[r]
    BY <1>2 DEF added
  <2> QED
    BY <1>0, <1>1, <2>1 DEF callbacksKnown
<1>3. CASE r = p
  <2>1. \A i \in 1..Len(m_callbacks[p]) : m_callbacks[p][i] # q
    <3> SUFFICES ASSUME NEW i \in 1..Len(m_callbacks[p]), m_callbacks[p][i] = q PROVE FALSE
      OBVIOUS
    <3>1. q \notin Params
      BY NamesAssumption
    <3>2. \/ m_callbacks[p][i] \in Params
          \/ p \in DOMAIN m_reg[m_callbacks[p][i]]
      BY <1>0, <1>3 DEF callbacksKnown
    <3> QED
      BY <3>1, <3>2
  <2>2. ASSUME NEW i \in 1..Len(m_callbacks'[p])
        PROVE  \/ i = 1 /\ m_callbacks'[p][i] = q
               \/ i # 1 /\ i - 1 \in 1..Len(m_callbacks[p])
                  /\ m_callbacks'[p][i] = m_callbacks[p][i - 1]
    BY <1>0, <1>3 DEF added
  <2>3. \A i, j \in 1..Len(m_callbacks'[p]) : m_callbacks'[p][i] = m_callbacks'[p][j] => i = j
    <3> SUFFICES ASSUME NEW i \in 1..Len(m_callbacks'[p]), NEW j \in 1..Len(m_callbacks'[p]),
                        m_callbacks'[p][i] = m_callbacks'[p][j]
                 PROVE  i = j
      OBVIOUS
    <3>1. CASE i # 1 /\ j # 1
      <4>1. i - 1 = j - 1
        BY <1>0, <1>3, <2>2, <3>1 DEF callbacksKnown
      <4> QED
        BY <4>1
    <3> QED
      BY <2>1, <2>2, <3>1
  <2>4. p \in DOMAIN m_reg'[q]
    BY DEF added
  <2>5. \A i \in 1..Len(m_callbacks'[p]) :
         \/ m_callbacks'[p][i] \in Params /\ <<p, m_callbacks'[p][i]>> \in Links
         \/ m_callbacks'[p][i] \in Queues /\ p \in DOMAIN m_reg'[m_callbacks'[p][i]]
    <3> SUFFICES ASSUME NEW i \in 1..Len(m_callbacks'[p])
                 PROVE  \/ m_callbacks'[p][i] \in Params /\ <<p, m_callbacks'[p][i]>> \in Links
                        \/ m_callbacks'[p][i] \in Queues /\ p \in DOMAIN m_reg'[m_callbacks'[p][i]]
      OBVIOUS
    <3>1. CASE i = 1
      BY <2>2, <2>4, <3>1
    <3>2. CASE i # 1
      <4>1. PICK k \in 1..Len(m_callbacks[p]) : m_callbacks'[p][i] = m_callbacks[p][k]
        BY <2>2, <3>2
      <4>2. \/ m_callbacks[p][k] \in Params /\ <<p, m_callbacks[p][k]>> \in Links
            \/ m_callbacks[p][k] \in Queues /\ p \in DOMAIN m_reg[m_callbacks[p][k]]
        BY <1>0, <1>3 DEF callbacksKnown
      <4> QED
        BY <1>1, <4>1, <4>2
    <3> QED
      BY <3>1, <3>2
  <2>6. ASSUME NEW f, NEW i \in 1..Len(m_callbacks[p]), m_callbacks[p][i] = f
        PROVE  \E j \in 1..Len(m_callbacks'[p]) : m_callbacks'[p][j] = f
    <3>1. i + 1 \in 2..(Len(m_callbacks[p]) + 1) /\ i + 1 \in 1..Len(m_callbacks'[p])
          /\ i + 1 - 1 = i
      BY <1>0, <1>3 DEF added
    <3>2. m_callbacks'[p][i + 1] = m_callbacks[p][i]
      BY <3>1 DEF added
    <3> QED
      BY <2>6, <3>1, <3>2
  <2> QED
    BY <1>0, <1>3, <2>3, <2>5, <2>6 DEF callbacksKnown
<1> QED
  BY <1>2, <1>3

(* A removal keeps the other callbacks,                                    *)
LEMMA RemovedKeepsOthers ==
  ASSUME ValueTypes, NEW q \in Queues, NEW p \in Params, NEW i \in Nat, removed(q, p, i),
         NEW k \in 1..Len(m_callbacks[p]), m_callbacks[p][k] # q
  PROVE  \E j \in 1..Len(m_callbacks'[p]) : m_callbacks'[p][j] = m_callbacks[p][k]
<1>0. Len(m_callbacks[p]) \in Nat
  BY LenProperties DEF ValueTypes
<1>1. k # i
  BY DEF removed
<1>2. CASE k < i
  BY <1>0, <1>2 DEF removed
<1>3. CASE k > i
  <2>1. k - 1 \in 1..(Len(m_callbacks[p]) - 1) /\ k - 1 >= i /\ k - 1 + 1 = k
    BY <1>0, <1>3 DEF removed
  <2>2. m_callbacks'[p][k - 1] = m_callbacks[p][k]
    BY <2>1 DEF removed
  <2> QED
    BY <2>1, <2>2 DEF removed
<1> QED
  BY <1>0, <1>1, <1>2, <1>3

(* and leaves none of the queue, which had one.                            *)
LEMMA RemovedKeepsCallbacks ==
  ASSUME ValueTypes, CallbacksKnown, NEW q \in Queues, NEW p \in Params, NEW i \in Nat,
         removed(q, p, i), UNCHANGED alive
  PROVE  CallbacksKnown'
<1> SUFFICES ASSUME NEW r \in Params PROVE callbacksKnown(r)'
  BY DEF CallbacksKnown
<1>0. callbacksKnown(r) /\ Len(m_callbacks[r]) \in Nat
  BY LenProperties DEF CallbacksKnown, ValueTypes
<1>1. CASE r # p
  <2>1. m_callbacks'[r] = m_callbacks[r]
    BY <1>1 DEF removed
  <2>2. \A s \in Queues : r \in DOMAIN m_reg[s] => r \in DOMAIN m_reg'[s]
    BY <1>1 DEF removed
  <2> QED
    BY <1>0, <2>1, <2>2 DEF callbacksKnown
<1>2. CASE r = p
  <2>1. ASSUME NEW j \in 1..Len(m_callbacks'[p])
        PROVE  \E k \in 1..Len(m_callbacks[p]) :
                 /\ m_callbacks'[p][j] = m_callbacks[p][k] /\ k # i
                 /\ k = IF j < i THEN j ELSE j + 1
    BY <1>0, <1>2 DEF removed
  <2>2. \A j, k \in 1..Len(m_callbacks'[p]) : m_callbacks'[p][j] = m_callbacks'[p][k] => j = k
    <3> SUFFICES ASSUME NEW j \in 1..Len(m_callbacks'[p]), NEW k \in 1..Len(m_callbacks'[p]),
                        m_callbacks'[p][j] = m_callbacks'[p][k]
                 PROVE  j = k
      OBVIOUS
    <3>1. PICK a \in 1..Len(m_callbacks[p]) : m_callbacks'[p][j] = m_callbacks[p][a]
                 /\ a = IF j < i THEN j ELSE j + 1
      BY <2>1
    <3>2. PICK b \in 1..Len(m_callbacks[p]) : m_callbacks'[p][k] = m_callbacks[p][b]
                 /\ b = IF k < i THEN k ELSE k + 1
      BY <2>1
    <3>3. a = b
      BY <1>0, <1>2, <3>1, <3>2 DEF callbacksKnown
    <3> QED
      BY <3>1, <3>2, <3>3
  <2>3. ASSUME NEW j \in 1..Len(m_callbacks'[p])
        PROVE  \/ m_callbacks'[p][j] \in Params /\ <<p, m_callbacks'[p][j]>> \in Links
               \/ m_callbacks'[p][j] \in Queues /\ p \in DOMAIN m_reg'[m_callbacks'[p][j]]
    <3>1. PICK k \in 1..Len(m_callbacks[p]) : m_callbacks'[p][j] = m_callbacks[p][k] /\ k # i
      BY <2>1
    <3>2. m_callbacks[p][k] # q
      BY <1>0, <1>2, <3>1 DEF callbacksKnown, removed
    <3>3. \A s \in Queues : s # q /\ p \in DOMAIN m_reg[s] => p \in DOMAIN m_reg'[s]
      BY DEF removed
    <3> QED
      BY <1>0, <1>2, <3>1, <3>2, <3>3 DEF callbacksKnown
  <2>4. ASSUME alive[p], NEW f \in Params, <<p, f>> \in Links
        PROVE  \E j \in 1..Len(m_callbacks'[p]) : m_callbacks'[p][j] = f
    <3>1. PICK k \in 1..Len(m_callbacks[p]) : m_callbacks[p][k] = f
      BY <1>0, <1>2, <2>4 DEF callbacksKnown
    <3>2. m_callbacks[p][k] # q
      BY <3>1, NamesAssumption
    <3> QED
      BY <3>1, <3>2, RemovedKeepsOthers
  <2> QED
    BY <1>2, <2>2, <2>3, <2>4 DEF callbacksKnown
<1> QED
  BY <1>1, <1>2

(* Every step keeps the callbacks known.                                   *)
LEMMA CallbacksKnownStep == ValueInv /\ [Next]_vars => CallbacksKnown'
<1> SUFFICES ASSUME ValueInv, [Next]_vars PROVE CallbacksKnown'
  OBVIOUS
<1>0. ValueTypes /\ CallbacksKnown
  BY DEF ValueInv
<1>1. ASSUME counted, UNCHANGED alive PROVE CallbacksKnown'
  BY <1>0, <1>1 DEF counted, CallbacksKnown, callbacksKnown
<1>2. CASE UNCHANGED <<m_callbacks, m_reg, alive>>
  BY <1>1, <1>2 DEF counted
<1>3. ASSUME NEW q \in Queues, NEW p \in Params, reg(q, p) PROVE CallbacksKnown'
  BY <1>0, <1>1, <1>3, RegEffect, AddedKeepsCallbacks
<1>4. ASSUME NEW q \in Queues, NEW p \in Params, unreg(q, p) PROVE CallbacksKnown'
  BY <1>0, <1>1, <1>4, UnregEffect, RemovedKeepsCallbacks
<1>5. ASSUME NEW q \in Queues, destroy(q) PROVE CallbacksKnown'
  BY <1>0, <1>1, <1>5, DestroyEffect
<1>6. ASSUME NEW q \in Queues, destroy_step(q) PROVE CallbacksKnown'
  BY <1>0, <1>1, <1>6, DestroyStepEffect, RemovedKeepsCallbacks
<1>7. ASSUME NEW p \in Params, remove_parameter(p) PROVE CallbacksKnown'
  <2>1. /\ alive' = [alive EXCEPT ![p] = FALSE]
        /\ Len(m_callbacks'[p]) = 0
        /\ \A r \in Params \ {p} : m_callbacks'[r] = m_callbacks[r]
        /\ \A q \in Queues : DOMAIN m_reg'[q] = DOMAIN m_reg[q] \ {p}
    BY <1>0, <1>7, RemoveParameterEffect
  <2>2. ~alive'[p] /\ \A r \in Params \ {p} : alive'[r] = alive[r]
    BY <1>0, <2>1 DEF ValueTypes
  <2> SUFFICES ASSUME NEW r \in Params PROVE callbacksKnown(r)'
    BY DEF CallbacksKnown
  <2>3. CASE r = p
    BY <2>1, <2>2, <2>3 DEF callbacksKnown
  <2>4. CASE r # p
    <3>1. \A q \in Queues : r \in DOMAIN m_reg[q] => r \in DOMAIN m_reg'[q]
      BY <2>1, <2>4
    <3>2. m_callbacks'[r] = m_callbacks[r] /\ alive'[r] = alive[r]
      BY <2>1, <2>2, <2>4
    <3>3. callbacksKnown(r)
      BY <1>0 DEF CallbacksKnown
    <3> QED
      BY <3>1, <3>2, <3>3 DEF callbacksKnown
  <2> QED
    BY <2>3, <2>4
<1> QED
  <2>1. ASSUME NEW t \in Threads,
               \/ store(t) \/ send(t) \/ callback(t) \/ end_send(t) \/ push(t)
               \/ \E op \in operations(t), p \in Params, v \in Values : call(t, op, p, v)
        PROVE  UNCHANGED <<m_callbacks, m_reg, alive>>
    BY <2>1 DEF store, send, begin_send, callback, end_send, push, call
  <2>2. UNCHANGED vars => UNCHANGED <<m_callbacks, m_reg, alive>>
    BY DEF vars
  <2> QED
    BY <1>2, <1>3, <1>4, <1>5, <1>6, <1>7, <2>1, <2>2 DEF Next

(* Every step keeps the registrations called.                              *)
LEMMA RegistrationsCalledStep == ValueInv /\ [Next]_vars => RegistrationsCalled'
<1> SUFFICES ASSUME ValueInv, [Next]_vars PROVE RegistrationsCalled'
  OBVIOUS
<1>0. ValueTypes /\ RegistrationsCalled /\ \A r \in Params : Len(m_callbacks[r]) \in Nat
  BY LenProperties DEF ValueInv, ValueTypes
<1>1. ASSUME counted, UNCHANGED alive,
             \A q \in Queues : DOMAIN m_reg[q] # {} /\ life[q] # "gone" => life'[q] # "gone"
      PROVE  RegistrationsCalled'
  BY <1>0, <1>1 DEF counted, RegistrationsCalled
<1>2. CASE UNCHANGED <<m_callbacks, m_reg, alive, life>>
  BY <1>1, <1>2 DEF counted
<1>3. ASSUME NEW q \in Queues, NEW p \in Params, reg(q, p) PROVE RegistrationsCalled'
  <2>0. life[q] = "alive" /\ alive[p] /\ UNCHANGED <<alive, life>>
    BY <1>0, <1>3, RegEffect
  <2>1. CASE p \in DOMAIN m_reg[q]
    BY <1>0, <1>1, <1>3, <2>0, <2>1, RegEffect
  <2>2. CASE p \notin DOMAIN m_reg[q]
    <3>1. added(q, p)
      BY <1>0, <1>3, <2>2, RegEffect
    <3> SUFFICES ASSUME NEW s \in Queues, NEW r \in DOMAIN m_reg'[s]
                 PROVE  /\ alive[r] /\ life[s] # "gone"
                        /\ \E j \in 1..Len(m_callbacks'[r]) : m_callbacks'[r][j] = s
      BY <2>0 DEF RegistrationsCalled
    <3>2. CASE s = q /\ r = p
      <4>1. 1 \in 1..Len(m_callbacks'[p]) /\ m_callbacks'[p][1] = q
        BY <1>0, <3>1 DEF added
      <4> QED
        BY <2>0, <3>2, <4>1
    <3>3. CASE ~(s = q /\ r = p)
      <4>1. r \in DOMAIN m_reg[s] /\ r \in Params
        BY <1>0, <3>1, <3>3 DEF added, ValueTypes
      <4>2. PICK j \in 1..Len(m_callbacks[r]) : m_callbacks[r][j] = s
        BY <1>0, <4>1 DEF RegistrationsCalled
      <4>3. alive[r] /\ life[s] # "gone"
        BY <1>0, <4>1 DEF RegistrationsCalled
      <4>4. CASE r # p
        BY <3>1, <4>1, <4>2, <4>3, <4>4 DEF added
      <4>5. CASE r = p
        <5>1. j + 1 \in 2..(Len(m_callbacks[p]) + 1) /\ j + 1 - 1 = j
              /\ j + 1 \in 1..Len(m_callbacks'[p])
          BY <1>0, <3>1, <4>2, <4>5 DEF added
        <5>2. m_callbacks'[p][j + 1] = m_callbacks[p][j]
          BY <3>1, <5>1 DEF added
        <5> QED
          BY <4>2, <4>3, <4>5, <5>1, <5>2
      <4> QED
        BY <4>4, <4>5
    <3> QED
      BY <3>2, <3>3
  <2> QED
    BY <2>1, <2>2
<1>4. ASSUME NEW q \in Queues, NEW p \in Params, NEW i \in Nat, removed(q, p, i),
             UNCHANGED <<alive, life>>
      PROVE  RegistrationsCalled'
  <2> SUFFICES ASSUME NEW s \in Queues, NEW r \in DOMAIN m_reg'[s]
               PROVE  /\ alive[r] /\ life[s] # "gone"
                      /\ \E j \in 1..Len(m_callbacks'[r]) : m_callbacks'[r][j] = s
    BY <1>4 DEF RegistrationsCalled
  <2>1. r \in DOMAIN m_reg[s] /\ r \in Params /\ ~(s = q /\ r = p)
    BY <1>0, <1>4 DEF removed, ValueTypes
  <2>2. PICK j \in 1..Len(m_callbacks[r]) : m_callbacks[r][j] = s
    BY <1>0, <2>1 DEF RegistrationsCalled
  <2>3. alive[r] /\ life[s] # "gone"
    BY <1>0, <2>1 DEF RegistrationsCalled
  <2>4. CASE r # p
    BY <1>4, <2>1, <2>2, <2>3, <2>4 DEF removed
  <2>5. CASE r = p
    <3>1. m_callbacks[p][j] # q /\ j \in 1..Len(m_callbacks[p])
      BY <2>1, <2>2, <2>5
    <3>2. \E k \in 1..Len(m_callbacks'[p]) : m_callbacks'[p][k] = m_callbacks[p][j]
      BY <1>0, <1>4, <3>1, RemovedKeepsOthers
    <3> QED
      BY <2>2, <2>3, <2>5, <3>2
  <2> QED
    BY <2>4, <2>5
<1>5. ASSUME NEW q \in Queues, NEW p \in Params, unreg(q, p) PROVE RegistrationsCalled'
  <2>1. UNCHANGED <<alive, life>> /\ (counted \/ \E i \in Nat : removed(q, p, i))
    BY <1>0, <1>5, UnregEffect
  <2> QED
    BY <1>1, <1>4, <2>1
<1>6. ASSUME NEW q \in Queues, destroy(q) PROVE RegistrationsCalled'
  <2>1. life' = [life EXCEPT ![q] = "closing"] /\ counted /\ UNCHANGED alive
    BY <1>0, <1>6, DestroyEffect
  <2>2. \A r \in Queues : life[r] # "gone" => life'[r] # "gone"
    BY <1>0, <2>1 DEF ValueTypes
  <2> QED
    BY <1>1, <2>1, <2>2
<1>7. ASSUME NEW q \in Queues, destroy_step(q) PROVE RegistrationsCalled'
  <2>1. CASE life' = [life EXCEPT ![q] = "gone"] /\ DOMAIN m_reg[q] = {} /\ counted
    <3>1. \A r \in Queues : DOMAIN m_reg[r] # {} /\ life[r] # "gone" => life'[r] # "gone"
      BY <1>0, <2>1 DEF ValueTypes
    <3>2. UNCHANGED alive
      BY <1>0, <1>7, DestroyStepEffect
    <3> QED
      BY <1>1, <2>1, <3>1, <3>2
  <2>2. CASE life' = life /\ \E p \in Params, i \in Nat : removed(q, p, i)
    <3>1. UNCHANGED alive
      BY <1>0, <1>7, DestroyStepEffect
    <3> QED
      BY <1>4, <2>2, <3>1
  <2> QED
    BY <1>0, <1>7, <2>1, <2>2, DestroyStepEffect
<1>8. ASSUME NEW p \in Params, remove_parameter(p) PROVE RegistrationsCalled'
  <2>1. /\ alive' = [alive EXCEPT ![p] = FALSE]
        /\ \A r \in Params \ {p} : m_callbacks'[r] = m_callbacks[r]
        /\ \A q \in Queues : DOMAIN m_reg'[q] = DOMAIN m_reg[q] \ {p}
        /\ life' = life
    BY <1>0, <1>8, RemoveParameterEffect
  <2>2. \A r \in Params \ {p} : alive'[r] = alive[r]
    BY <1>0, <2>1 DEF ValueTypes
  <2>3. \A q \in Queues : \A r \in DOMAIN m_reg'[q] : r \in DOMAIN m_reg[q] /\ r \in Params \ {p}
    BY <1>0, <2>1 DEF ValueTypes
  <2> QED
    BY <1>0, <2>1, <2>2, <2>3 DEF RegistrationsCalled
<1> QED
  <2>1. ASSUME NEW t \in Threads,
               \/ store(t) \/ send(t) \/ callback(t) \/ end_send(t) \/ push(t)
               \/ \E op \in operations(t), p \in Params, v \in Values : call(t, op, p, v)
        PROVE  UNCHANGED <<m_callbacks, m_reg, alive, life>>
    BY <2>1 DEF store, send, begin_send, callback, end_send, push, call
  <2>2. UNCHANGED vars => UNCHANGED <<m_callbacks, m_reg, alive, life>>
    BY DEF vars
  <2> QED
    BY <1>2, <1>3, <1>5, <1>6, <1>7, <1>8, <2>1, <2>2 DEF Next

(* The calls after a step of t are those before it, but for the innermost  *)
(* of t, and those of G.                                                   *)
framesFrom(t, G) ==
    \A u \in Threads : \A i \in 1..Len(stack'[u]) :
        \/ stack'[u][i] \in G
        \/ /\ i \in 1..Len(stack[u]) /\ stack'[u][i] = stack[u][i]
           /\ ~(u = t /\ i = Len(stack[t]))

(* This of the changes of a stack,                                         *)
LEMMA FramesFrom ==
  ASSUME ValueTypes, NEW t \in Threads
  PROVE  /\ \A g : stack[t] # <<>> /\ replaced(t, g) => framesFrom(t, {g})
         /\ stack[t] # <<>> /\ popped(t) => framesFrom(t, {})
         /\ \A g, h : stack[t] # <<>> /\ pushed(t, g, h) => framesFrom(t, {g, h})
         /\ \A h : entered(t, h) => framesFrom(t, {h})
<1>0. \A u \in Threads : Len(stack[u]) \in Nat
  BY LenProperties DEF ValueTypes
<1>1. stack[t] # <<>> => Len(stack[t]) \in Nat \ {0}
  BY TopTyped
<1>2. ASSUME NEW g, stack[t] # <<>>, replaced(t, g) PROVE framesFrom(t, {g})
  BY <1>0, <1>1, <1>2 DEF replaced, framesFrom
<1>3. ASSUME stack[t] # <<>>, popped(t) PROVE framesFrom(t, {})
  BY <1>0, <1>1, <1>3 DEF popped, framesFrom
<1>4. ASSUME NEW g, NEW h, stack[t] # <<>>, pushed(t, g, h) PROVE framesFrom(t, {g, h})
  <2> SUFFICES ASSUME NEW u \in Threads, NEW i \in 1..Len(stack'[u])
               PROVE  \/ stack'[u][i] \in {g, h}
                      \/ /\ i \in 1..Len(stack[u]) /\ stack'[u][i] = stack[u][i]
                         /\ ~(u = t /\ i = Len(stack[t]))
    BY DEF framesFrom
  <2>1. CASE u # t
    BY <1>4, <2>1 DEF pushed
  <2>2. CASE u = t
    <3>1. i \in 1..(Len(stack[t]) - 1) \/ i = Len(stack[t]) \/ i = Len(stack[t]) + 1
      BY <1>1, <1>4, <2>2 DEF pushed
    <3> QED
      BY <1>1, <1>4, <2>2, <3>1 DEF pushed
  <2> QED
    BY <2>1, <2>2
<1>5. ASSUME NEW h, entered(t, h) PROVE framesFrom(t, {h})
  BY <1>0, <1>5 DEF entered, framesFrom
<1> QED
  BY <1>2, <1>3, <1>4, <1>5

(* and so of the actions.                                                  *)
LEMMA FramesAfter ==
  ASSUME ValueTypes, NEW t \in Threads
  PROVE  /\ \A op \in operations(t), p \in Params, v \in Values :
              call(t, op, p, v) => framesFrom(t, {frame(op, p, v)})
         /\ store(t) => framesFrom(t, {[top(t) EXCEPT !.at = "lock"]})
         /\ send(t) => framesFrom(t, {[top(t) EXCEPT !.at = "notify",
                                        !.n = sends[top(t).p] + 1,
                                        !.todo = m_callbacks[top(t).p]]})
         /\ callback(t) /\ Head(top(t).todo) \in Queues =>
              framesFrom(t, {[top(t) EXCEPT !.todo = Tail(top(t).todo)]})
         /\ callback(t) /\ Head(top(t).todo) \notin Queues =>
              framesFrom(t, {[top(t) EXCEPT !.todo = Tail(top(t).todo)],
                             frame("push", Head(top(t).todo), top(t).v)})
         /\ end_send(t) => framesFrom(t, {[top(t) EXCEPT !.at = "push"]})
         /\ push(t) => framesFrom(t, {})
<1>0. \A G : framesFrom(t, {}) => framesFrom(t, G)
  BY DEF framesFrom
<1>1. ASSUME NEW op \in operations(t), NEW p \in Params, NEW v \in Values, call(t, op, p, v)
      PROVE  framesFrom(t, {frame(op, p, v)})
  BY <1>1, CallEffect, FramesFrom
<1>2. store(t) => framesFrom(t, {[top(t) EXCEPT !.at = "lock"]})
  BY <1>0, StoreEffect, FramesFrom
<1>3. send(t) => framesFrom(t, {[top(t) EXCEPT !.at = "notify",
                                        !.n = sends[top(t).p] + 1,
                                        !.todo = m_callbacks[top(t).p]]})
  BY SendEffect, FramesFrom
<1>4. callback(t) /\ Head(top(t).todo) \in Queues =>
              framesFrom(t, {[top(t) EXCEPT !.todo = Tail(top(t).todo)]})
  BY CallbackEffect, FramesFrom
<1>5. callback(t) /\ Head(top(t).todo) \notin Queues =>
              framesFrom(t, {[top(t) EXCEPT !.todo = Tail(top(t).todo)],
                             frame("push", Head(top(t).todo), top(t).v)})
  BY CallbackEffect, FramesFrom
<1>6. end_send(t) => framesFrom(t, {[top(t) EXCEPT !.at = "push"]})
  BY <1>0, EndSendEffect, FramesFrom
<1>7. push(t) => framesFrom(t, {})
  BY PushEffect, FramesFrom
<1> QED
  BY <1>1, <1>2, <1>3, <1>4, <1>5, <1>6, <1>7

(* Every step keeps the callbacks left to be called registered: the mutex  *)
(* that the send holds keeps remove_callback away.                         *)
LEMMA TodoKnownStep == ValueInv /\ [Next]_vars => TodoKnown'
<1> SUFFICES ASSUME ValueInv, [Next]_vars PROVE TodoKnown'
  OBVIOUS
<1>0. ValueTypes /\ TodoKnown /\ CallbacksKnown /\ MutexHeld
  BY DEF ValueInv
<1>1. ASSUME NEW t \in Threads, NEW G, framesFrom(t, G), UNCHANGED m_callbacks,
             \A g \in G : todoKnown(g)
      PROVE  TodoKnown'
  <2>1. \A f : todoKnown(f) => todoKnown(f)'
    BY <1>1 DEF todoKnown
  <2>2. \A u \in Threads : \A i \in 1..Len(stack'[u]) : todoKnown(stack'[u][i])
    BY <1>0, <1>1 DEF TodoKnown, framesFrom
  <2> QED
    BY <1>1, <2>2 DEF TodoKnown, todoKnown
<1>2. \A op, p, v : todoKnown(frame(op, p, v))
  BY DEF todoKnown, frame
<1>3. ASSUME NEW t \in Threads, stack[t] # <<>>
      PROVE  top(t) \in Frames /\ todoKnown(top(t))
  BY <1>0, <1>3, TopTyped DEF TodoKnown
<1>4. ASSUME NEW t \in Threads, NEW op \in operations(t), NEW p \in Params,
             NEW v \in Values, call(t, op, p, v)
      PROVE  TodoKnown'
  <2>1. framesFrom(t, {frame(op, p, v)})
    BY <1>0, <1>4, FramesAfter
  <2>2. UNCHANGED m_callbacks
    BY <1>4 DEF call
  <2> QED
    BY <1>1, <1>2, <2>1, <2>2
<1>5. ASSUME NEW t \in Threads, store(t) PROVE TodoKnown'
  <2>1. todoKnown([top(t) EXCEPT !.at = "lock"])
    <3>1. stack[t] # <<>> /\ top(t).at = "store"
      BY <1>0, <1>5, StoreEffect
    <3>2. PICK g : g = [top(t) EXCEPT !.at = "lock"]
      OBVIOUS
    <3>3. g.todo = top(t).todo /\ g.p = top(t).p
      BY <1>3, <3>1, <3>2 DEF Frames
    <3>4. todoKnown(g)
      BY <1>3, <3>1, <3>3 DEF todoKnown
    <3> QED
      BY <3>2, <3>4
  <2> QED
    <3>1. framesFrom(t, {[top(t) EXCEPT !.at = "lock"]})
      BY <1>0, <1>5, FramesAfter
    <3>2. UNCHANGED m_callbacks
      BY <1>5 DEF store
    <3> QED
      BY <1>1, <2>1, <3>1, <3>2
<1>6. ASSUME NEW t \in Threads, send(t) PROVE TodoKnown'
  <2>1. PICK g : g = [top(t) EXCEPT !.at = "notify", !.n = sends[top(t).p] + 1,
                                    !.todo = m_callbacks[top(t).p]]
    OBVIOUS
  <2>2. stack[t] # <<>>
    BY <1>0, <1>6, SendEffect
  <2>3. /\ g.at = "notify" /\ g.todo = m_callbacks[g.p] /\ g.p \in Params
    BY <1>3, <2>1, <2>2 DEF Frames
  <2>4. todoKnown(g)
    BY <1>0, <2>3 DEF todoKnown, CallbacksKnown, callbacksKnown
  <2>5. framesFrom(t, {g}) /\ UNCHANGED m_callbacks
    BY <1>0, <1>6, <2>1, FramesAfter DEF send, begin_send
  <2> QED
    BY <1>1, <2>4, <2>5
<1>7. ASSUME NEW t \in Threads, callback(t) PROVE TodoKnown'
  <2>1. PICK g : g = [top(t) EXCEPT !.todo = Tail(top(t).todo)]
    OBVIOUS
  <2>2. stack[t] # <<>> /\ top(t).at = "notify"
    BY <1>0, <1>7, CallbackEffect
  <2>3. g.at = "notify" /\ g.todo = Tail(top(t).todo) /\ g.p = top(t).p
    BY <1>3, <2>1, <2>2 DEF Frames
  <2>4. /\ Len(top(t).todo) \in Nat \ {0} /\ Len(g.todo) = Len(top(t).todo) - 1
        /\ \A j \in 1..(Len(top(t).todo) - 1) : g.todo[j] = top(t).todo[j + 1]
    BY <1>0, <1>7, <2>3, CallbackOf
  <2>5. todoKnown(g)
    <3>1. todoKnown(top(t))
      BY <1>3, <2>2
    <3>2. \A j \in 1..Len(g.todo) : j + 1 \in 1..Len(top(t).todo) /\ g.todo[j] = top(t).todo[j + 1]
      BY <2>4
    <3>3. \A j, k \in 1..Len(g.todo) : g.todo[j] = g.todo[k] => j = k
      <4> SUFFICES ASSUME NEW j \in 1..Len(g.todo), NEW k \in 1..Len(g.todo),
                          g.todo[j] = g.todo[k]
                   PROVE  j = k
        OBVIOUS
      <4>1. j + 1 = k + 1
        BY <3>1, <3>2 DEF todoKnown
      <4> QED
        BY <4>1
    <3>4. \A j \in 1..Len(g.todo) :
            \E k \in 1..Len(m_callbacks[g.p]) : m_callbacks[g.p][k] = g.todo[j]
      BY <2>3, <3>1, <3>2 DEF todoKnown
    <3> QED
      BY <2>3, <3>3, <3>4 DEF todoKnown
  <2>6. UNCHANGED m_callbacks
    BY <1>7 DEF callback
  <2>7. CASE Head(top(t).todo) \in Queues
    <3>1. framesFrom(t, {g})
      BY <1>0, <1>7, <2>1, <2>7, FramesAfter
    <3> QED
      BY <1>1, <2>5, <2>6, <3>1
  <2>8. CASE Head(top(t).todo) \notin Queues
    <3>1. framesFrom(t, {g, frame("push", Head(top(t).todo), top(t).v)})
      BY <1>0, <1>7, <2>1, <2>8, FramesAfter
    <3>2. \A f \in {g, frame("push", Head(top(t).todo), top(t).v)} : todoKnown(f)
      BY <1>2, <2>5
    <3> QED
      BY <1>1, <2>6, <3>1, <3>2
  <2> QED
    BY <2>7, <2>8
<1>8. ASSUME NEW t \in Threads, end_send(t) PROVE TodoKnown'
  <2>1. PICK g : g = [top(t) EXCEPT !.at = "push"]
    OBVIOUS
  <2>2. stack[t] # <<>> /\ top(t).todo = <<>>
    BY <1>0, <1>8, EndSendEffect
  <2>3. g.todo = <<>> /\ Len(g.todo) = 0
    BY <1>3, <2>1, <2>2 DEF Frames
  <2>4. todoKnown(g)
    BY <2>3 DEF todoKnown
  <2>5. framesFrom(t, {g}) /\ UNCHANGED m_callbacks
    BY <1>0, <1>8, <2>1, FramesAfter DEF end_send
  <2> QED
    BY <1>1, <2>4, <2>5
<1>9. ASSUME NEW t \in Threads, push(t) PROVE TodoKnown'
  <2>1. framesFrom(t, {})
    BY <1>0, <1>9, FramesAfter
  <2>2. UNCHANGED m_callbacks
    BY <1>9 DEF push
  <2> QED
    BY <1>1, <2>1, <2>2
<1>10. ASSUME UNCHANGED stack,
              \A t \in Threads : \A i \in 1..Len(stack[t]) : stack[t][i].todo # <<>> =>
                \A x : (\E k \in 1..Len(m_callbacks[stack[t][i].p]) :
                           m_callbacks[stack[t][i].p][k] = x)
                       => \E k \in 1..Len(m_callbacks'[stack[t][i].p]) :
                             m_callbacks'[stack[t][i].p][k] = x
       PROVE  TodoKnown'
  <2> SUFFICES ASSUME NEW t \in Threads, NEW i \in 1..Len(stack[t])
               PROVE  todoKnown(stack[t][i])'
    BY <1>10 DEF TodoKnown
  <2>1. PICK f : f = stack[t][i]
    OBVIOUS
  <2>2. todoKnown(f) /\ f = stack'[t][i]
    BY <1>0, <1>10, <2>1 DEF TodoKnown
  <2>3. CASE f.todo = <<>>
    BY <2>2, <2>3 DEF todoKnown
  <2>4. CASE f.todo # <<>>
    <3>1. \A j \in 1..Len(f.todo) :
            \E k \in 1..Len(m_callbacks'[f.p]) : m_callbacks'[f.p][k] = f.todo[j]
      <4>1. \A x : (\E k \in 1..Len(m_callbacks[f.p]) : m_callbacks[f.p][k] = x)
                   => \E k \in 1..Len(m_callbacks'[f.p]) : m_callbacks'[f.p][k] = x
        BY <1>10, <2>1, <2>4
      <4> QED
        BY <2>2, <4>1 DEF todoKnown
    <3> QED
      BY <2>2, <3>1 DEF todoKnown
  <2> QED
    BY <2>3, <2>4
<1>11. CASE UNCHANGED <<stack, m_callbacks>>
  BY <1>10, <1>11
<1>12. ASSUME NEW q \in Queues, NEW p \in Params, added(q, p), UNCHANGED stack PROVE TodoKnown'
  <2>1. Len(m_callbacks[p]) \in Nat
    BY <1>0, LenProperties DEF ValueTypes
  <2>2. ASSUME NEW k \in 1..Len(m_callbacks[p])
        PROVE  \E j \in 1..Len(m_callbacks'[p]) : m_callbacks'[p][j] = m_callbacks[p][k]
    <3>1. k + 1 \in 2..(Len(m_callbacks[p]) + 1) /\ k + 1 \in 1..Len(m_callbacks'[p])
          /\ k + 1 - 1 = k
      BY <1>12, <2>1 DEF added
    <3>2. m_callbacks'[p][k + 1] = m_callbacks[p][k]
      BY <1>12, <3>1 DEF added
    <3> QED
      BY <3>1, <3>2
  <2>3. \A t \in Threads : \A i \in 1..Len(stack[t]) : stack[t][i].p \in Params
    BY <1>0, FrameTyped
  <2>4. \A r \in Params : r # p => m_callbacks'[r] = m_callbacks[r]
    BY <1>12 DEF added
  <2> QED
    BY <1>10, <1>12, <2>2, <2>3, <2>4
<1>13. ASSUME NEW q \in Queues, NEW p \in Params, NEW j \in Nat, removed(q, p, j), UNCHANGED stack
       PROVE  TodoKnown'
  <2>1. \A t \in Threads : \A i \in 1..Len(stack[t]) : stack[t][i].p \in Params
    BY <1>0, FrameTyped
  <2>2. \A r \in Params : r # p => m_callbacks'[r] = m_callbacks[r]
    BY <1>13 DEF removed
  <2>3. ASSUME NEW t \in Threads, NEW i \in 1..Len(stack[t]), stack[t][i].p = p
        PROVE  stack[t][i].todo = <<>>
    <3>1. stack[t][i].at # "notify"
      BY <1>0, <1>13, <2>3, AppAssumption DEF MutexHeld, removed
    <3>2. todoKnown(stack[t][i])
      BY <1>0 DEF TodoKnown
    <3> QED
      BY <3>1, <3>2 DEF todoKnown
  <2> QED
    BY <1>10, <1>13, <2>1, <2>2, <2>3
<1>14. ASSUME NEW p \in Params, remove_parameter(p) PROVE TodoKnown'
  <2>1. \A t \in Threads : \A i \in 1..Len(stack[t]) : stack[t][i].p \in Params
    BY <1>0, FrameTyped
  <2>2. /\ \A t \in Threads : \A i \in 1..Len(stack[t]) : stack[t][i].p # p
        /\ \A r \in Params \ {p} : m_callbacks'[r] = m_callbacks[r]
        /\ UNCHANGED stack
    BY <1>0, <1>14, RemoveParameterEffect
  <2> QED
    BY <1>10, <2>1, <2>2
<1>15. ASSUME NEW q \in Queues, NEW p \in Params, reg(q, p) PROVE TodoKnown'
  BY <1>0, <1>11, <1>12, <1>15, RegEffect DEF counted
<1>16. ASSUME NEW q \in Queues, NEW p \in Params, unreg(q, p) PROVE TodoKnown'
  BY <1>0, <1>11, <1>13, <1>16, UnregEffect DEF counted
<1>17. ASSUME NEW q \in Queues, destroy(q) PROVE TodoKnown'
  BY <1>0, <1>11, <1>17, DestroyEffect DEF counted
<1>18. ASSUME NEW q \in Queues, destroy_step(q) PROVE TodoKnown'
  BY <1>0, <1>11, <1>13, <1>18, DestroyStepEffect DEF counted
<1> QED
  <2>1. UNCHANGED vars => UNCHANGED <<stack, m_callbacks>>
    BY DEF vars
  <2> QED
    BY <1>4, <1>5, <1>6, <1>7, <1>8, <1>9, <1>11, <1>14, <1>15, <1>16, <1>17, <1>18, <2>1 DEF Next

(* A callback to a queue.                                                  *)
LEMMA HeardEffect ==
  ASSUME ValueTypes, NEW t \in Threads, callback(t), Head(top(t).todo) \in Queues
  PROVE  LET c == Head(top(t).todo)
         IN  /\ Len(heard[c]) \in Nat
             /\ Len(heard'[c]) = Len(heard[c]) + 1
             /\ \A i \in 1..Len(heard[c]) : heard'[c][i] = heard[c][i]
             /\ heard'[c][Len(heard[c]) + 1] = <<top(t).p, top(t).n>>
             /\ \A q \in Queues \ {c} : heard'[q] = heard[q]
<1> DEFINE c == Head(top(t).todo)
           x == <<top(t).p, top(t).n>>
<1>1. heard' = [heard EXCEPT ![c] = Append(heard[c], x)]
  BY DEF callback
<1>2. top(t) \in Frames
  BY CallbackEffect, TopTyped
<1>3. x \in Params \X Nat
  BY <1>2 DEF Frames
<1>4. heard[c] \in Seq(Params \X Nat) /\ c \in Queues
  BY DEF ValueTypes
<1>5. heard'[c] = Append(heard[c], x) /\ \A q \in Queues \ {c} : heard'[q] = heard[q]
  BY <1>1, <1>4 DEF ValueTypes
<1> HIDE DEF c, x
<1>6. /\ Len(Append(heard[c], x)) = Len(heard[c]) + 1
      /\ \A i \in 1..Len(heard[c]) : Append(heard[c], x)[i] = heard[c][i]
      /\ Append(heard[c], x)[Len(heard[c]) + 1] = x
  BY <1>3, <1>4, AppendProperties
<1>7. Len(heard[c]) \in Nat
  BY <1>4, LenProperties
<1> QED
  BY <1>5, <1>6, <1>7 DEF c, x

(* The types of what queues heard.                                         *)
LEMMA HeardTyped ==
  ASSUME ValueTypes
  PROVE  \A q \in Queues : \A i \in 1..Len(heard[q]) :
           heard[q][i][1] \in Params /\ heard[q][i][2] \in Nat
<1> SUFFICES ASSUME NEW q \in Queues, NEW i \in 1..Len(heard[q])
             PROVE  heard[q][i][1] \in Params /\ heard[q][i][2] \in Nat
  OBVIOUS
<1>1. heard[q][i] \in Params \X Nat
  BY ElementOfSeq DEF ValueTypes
<1> QED
  BY <1>1

(* The other actions leave the calls and the values alone.                 *)
LEMMA QuietSteps ==
  ASSUME [Next]_vars,
         ~\E t \in Threads :
             \/ store(t) \/ send(t) \/ callback(t) \/ end_send(t) \/ push(t)
             \/ \E op \in operations(t), p \in Params, v \in Values : call(t, op, p, v)
  PROVE  UNCHANGED <<stack, heard, sends, notified, m_mutx, m_value, m_previousValue, sent>>
<1>1. ASSUME NEW q \in Queues, NEW p \in Params, reg(q, p) \/ unreg(q, p)
      PROVE  UNCHANGED others
  BY <1>1 DEF reg, unreg
<1>2. ASSUME NEW q \in Queues, destroy(q) \/ destroy_step(q) PROVE UNCHANGED others
  BY <1>2 DEF destroy, destroy_step
<1>3. ASSUME NEW p \in Params, remove_parameter(p) PROVE UNCHANGED others
  BY <1>3 DEF remove_parameter
<1>4. UNCHANGED vars => UNCHANGED others
  BY DEF vars, others
<1>5. UNCHANGED others
  BY <1>1, <1>2, <1>3, <1>4 DEF Next
<1> QED
  BY <1>5 DEF others, values, history

(* Every step keeps the order in which queues heard of sends.              *)
LEMMA HeardInOrderStep == ValueInv /\ [Next]_vars => HeardInOrder'
<1> SUFFICES ASSUME ValueInv, [Next]_vars PROVE HeardInOrder'
  OBVIOUS
<1>0. ValueTypes /\ HeardInOrder /\ SendsCurrent
  BY DEF ValueInv
<1>1. CASE UNCHANGED <<heard, sends>>
  BY <1>0, <1>1 DEF HeardInOrder
<1>2. ASSUME NEW t \in Threads, send(t) PROVE HeardInOrder'
  <2>1. top(t) \in Frames
    BY <1>0, <1>2, SendEffect, TopTyped
  <2>2. sends' = [sends EXCEPT ![top(t).p] = sends[top(t).p] + 1] /\ heard' = heard
    BY <1>2 DEF send, begin_send
  <2>3. \A p \in Params : sends[p] \in Nat /\ sends'[p] \in Nat /\ sends[p] <= sends'[p]
    BY <1>0, <2>1, <2>2 DEF ValueTypes
  <2>4. \A q \in Queues : \A i \in 1..Len(heard[q]) : heard[q][i][2] <= sends'[heard[q][i][1]]
    BY <1>0, <2>3, HeardTyped DEF HeardInOrder
  <2> QED
    BY <1>0, <2>2, <2>4 DEF HeardInOrder
<1>3. ASSUME NEW t \in Threads, callback(t) PROVE HeardInOrder'
  <2>1. sends' = sends
    BY <1>3 DEF callback, history
  <2>2. CASE Head(top(t).todo) \notin Queues
    <3>1. heard' = heard
      BY <1>3, <2>2 DEF callback
    <3> QED
      BY <1>1, <2>1, <3>1
  <2>3. CASE Head(top(t).todo) \in Queues
    <3>1. PICK c \in Queues : c = Head(top(t).todo)
      BY <2>3
    <3>2. /\ Len(heard[c]) \in Nat
          /\ Len(heard'[c]) = Len(heard[c]) + 1
          /\ \A i \in 1..Len(heard[c]) : heard'[c][i] = heard[c][i]
          /\ heard'[c][Len(heard[c]) + 1] = <<top(t).p, top(t).n>>
          /\ \A q \in Queues \ {c} : heard'[q] = heard[q]
      BY <1>0, <1>3, <3>1, HeardEffect
    <3>3. /\ stack[t] # <<>> /\ top(t).at = "notify" /\ top(t).todo # <<>>
          /\ top(t) \in Frames /\ Len(stack[t]) \in 1..Len(stack[t])
          /\ top(t) = stack[t][Len(stack[t])]
      <4>1. stack[t] # <<>> /\ top(t).at = "notify" /\ top(t).todo # <<>>
        BY <1>0, <1>3, CallbackEffect
      <4> QED
        BY <1>0, <4>1, TopTyped
    <3>4. sendCurrent(top(t))
      BY <1>0, <3>3 DEF SendsCurrent
    <3>5. /\ top(t).todo[1] = c /\ 1 \in 1..Len(top(t).todo)
          /\ top(t).n \in Nat /\ top(t).p \in Params
      BY <3>1, <3>3, EmptySeq DEF Frames
    <3>6. /\ top(t).n = sends[top(t).p]
          /\ \A k \in 1..Len(heard[c]) : heard[c][k][1] = top(t).p => heard[c][k][2] < top(t).n
      BY <3>3, <3>4, <3>5 DEF sendCurrent
    <3> SUFFICES ASSUME NEW q \in Queues
                 PROVE  /\ \A i \in 1..Len(heard'[q]) : heard'[q][i][2] <= sends[heard'[q][i][1]]
                        /\ \A i, j \in 1..Len(heard'[q]) :
                             i < j /\ heard'[q][i][1] = heard'[q][j][1]
                               => heard'[q][i][2] < heard'[q][j][2]
      BY <2>1 DEF HeardInOrder
    <3>7. CASE q # c
      BY <1>0, <3>2, <3>7 DEF HeardInOrder
    <3>8. CASE q = c
      <4>1. \A i \in 1..Len(heard'[c]) :
              i \in 1..Len(heard[c]) \/ i = Len(heard[c]) + 1
        BY <3>2
      <4>2. /\ heard'[c][Len(heard[c]) + 1][1] = top(t).p
            /\ heard'[c][Len(heard[c]) + 1][2] = top(t).n
        BY <3>2
      <4>3. \A i \in 1..Len(heard'[c]) : heard'[c][i][2] <= sends[heard'[c][i][1]]
        BY <1>0, <3>2, <3>5, <3>6, <4>1, <4>2 DEF HeardInOrder
      <4>4. ASSUME NEW i \in 1..Len(heard'[c]), NEW j \in 1..Len(heard'[c]),
                   i < j, heard'[c][i][1] = heard'[c][j][1]
            PROVE  heard'[c][i][2] < heard'[c][j][2]
        <5>1. i \in 1..Len(heard[c])
          BY <3>2, <4>1, <4>4
        <5>2. CASE j \in 1..Len(heard[c])
          BY <1>0, <3>2, <4>4, <5>1, <5>2 DEF HeardInOrder
        <5>3. CASE j = Len(heard[c]) + 1
          BY <3>2, <3>6, <4>2, <4>4, <5>1, <5>3
        <5> QED
          BY <4>1, <5>2, <5>3
      <4> QED
        BY <3>8, <4>3, <4>4
    <3> QED
      BY <3>7, <3>8
  <2> QED
    BY <2>2, <2>3
<1> QED
  <2>1. ASSUME NEW t \in Threads,
               \/ store(t) \/ end_send(t) \/ push(t)
               \/ \E op \in operations(t), p \in Params, v \in Values : call(t, op, p, v)
        PROVE  UNCHANGED <<heard, sends>>
    BY <2>1 DEF store, end_send, push, call, history
  <2> QED
    BY <1>1, <1>2, <1>3, <2>1, QuietSteps

(* A send under way, or one that can begin, is the only one of its         *)
(* parameter.                                                              *)
LEMMA OtherSends ==
  ASSUME ValueTypes, MutexHeld, NEW t \in Threads, stack[t] # <<>>,
         \/ top(t).at = "notify"
         \/ m_mutx[top(t).p] = NoThread,
         NEW u \in Threads, NEW i \in 1..Len(stack[u]), ~(u = t /\ i = Len(stack[t])),
         stack[u][i].at = "notify"
  PROVE  stack[u][i].p # top(t).p
<1>1. m_mutx[stack[u][i].p] = u /\ u # NoThread
  BY AppAssumption DEF MutexHeld
<1>2. top(t) = stack[t][Len(stack[t])] /\ Len(stack[t]) \in 1..Len(stack[t])
  BY TopTyped
<1>3. CASE m_mutx[top(t).p] = NoThread
  BY <1>1, <1>3
<1>4. CASE top(t).at = "notify"
  BY <1>1, <1>2, <1>4 DEF MutexHeld
<1> QED
  BY <1>3, <1>4

(* Every step keeps the sends under way the last ones.                     *)
LEMMA SendsCurrentStep == ValueInv /\ [Next]_vars => SendsCurrent'
<1> SUFFICES ASSUME ValueInv, [Next]_vars PROVE SendsCurrent'
  OBVIOUS
<1>0. ValueTypes /\ HeardInOrder /\ SendsCurrent /\ MutexHeld /\ TodoKnown /\ CallbacksKnown
  BY DEF ValueInv
<1>1. ASSUME NEW t \in Threads, NEW G, framesFrom(t, G), UNCHANGED <<heard, sends, notified>>,
             \A g \in G : sendCurrent(g)
      PROVE  SendsCurrent'
  <2>1. \A u \in Threads : \A i \in 1..Len(stack'[u]) : sendCurrent(stack'[u][i])
    BY <1>0, <1>1 DEF SendsCurrent, framesFrom
  <2> QED
    BY <1>1, <2>1 DEF SendsCurrent, sendCurrent
<1>2. \A g : g.at # "notify" => sendCurrent(g)
  BY DEF sendCurrent
<1>3. CASE UNCHANGED <<stack, heard, sends, notified>>
  <2> SUFFICES ASSUME NEW u \in Threads, NEW i \in 1..Len(stack[u])
               PROVE  sendCurrent(stack[u][i])'
    BY <1>3 DEF SendsCurrent
  <2>1. sendCurrent(stack[u][i])
    BY <1>0 DEF SendsCurrent
  <2> QED
    BY <1>3, <2>1 DEF sendCurrent
<1>4. ASSUME NEW t \in Threads, NEW op \in operations(t), NEW p \in Params,
             NEW v \in Values, call(t, op, p, v)
      PROVE  SendsCurrent'
  <2>1. framesFrom(t, {frame(op, p, v)})
    BY <1>0, <1>4, FramesAfter
  <2>2. frame(op, p, v).at # "notify"
    BY DEF frame
  <2>3. UNCHANGED <<heard, sends, notified>>
    BY <1>4 DEF call, history
  <2> QED
    BY <1>1, <1>2, <2>1, <2>2, <2>3
<1>5. ASSUME NEW t \in Threads, store(t) PROVE SendsCurrent'
  <2>1. PICK g : g = [top(t) EXCEPT !.at = "lock"]
    OBVIOUS
  <2>2. framesFrom(t, {g})
    BY <1>0, <1>5, <2>1, FramesAfter
  <2>3. top(t) \in Frames
    BY <1>0, <1>5, StoreEffect, TopTyped
  <2>4. g.at = "lock"
    BY <2>1, <2>3 DEF Frames
  <2>5. UNCHANGED <<heard, sends, notified>>
    BY <1>5 DEF store, history
  <2> QED
    BY <1>1, <1>2, <2>2, <2>4, <2>5
<1>6. ASSUME NEW t \in Threads, end_send(t) PROVE SendsCurrent'
  <2>1. PICK g : g = [top(t) EXCEPT !.at = "push"]
    OBVIOUS
  <2>2. framesFrom(t, {g})
    BY <1>0, <1>6, <2>1, FramesAfter
  <2>3. top(t) \in Frames
    BY <1>0, <1>6, EndSendEffect, TopTyped
  <2>4. g.at = "push"
    BY <2>1, <2>3 DEF Frames
  <2>5. UNCHANGED <<heard, sends, notified>>
    BY <1>6 DEF end_send, history
  <2> QED
    BY <1>1, <1>2, <2>2, <2>4, <2>5
<1>7. ASSUME NEW t \in Threads, push(t) PROVE SendsCurrent'
  <2>1. framesFrom(t, {})
    BY <1>0, <1>7, FramesAfter
  <2>2. UNCHANGED <<heard, sends, notified>>
    BY <1>7 DEF push, history
  <2> QED
    BY <1>1, <2>1, <2>2
<1>8. ASSUME NEW t \in Threads, send(t) PROVE SendsCurrent'
  <2>1. PICK g : g = [top(t) EXCEPT !.at = "notify", !.n = sends[top(t).p] + 1,
                                    !.todo = m_callbacks[top(t).p]]
    OBVIOUS
  <2>2. framesFrom(t, {g})
    BY <1>0, <1>8, <2>1, FramesAfter
  <2>3. top(t) \in Frames /\ stack[t] # <<>>
    BY <1>0, <1>8, SendEffect, TopTyped
  <2>4. /\ g.n = sends[top(t).p] + 1 /\ g.p = top(t).p /\ g.p \in Params /\ g.v = top(t).v
    BY <2>1, <2>3 DEF Frames
  <2>5. /\ sends' = [sends EXCEPT ![top(t).p] = sends[top(t).p] + 1] /\ heard' = heard
        /\ notified' = [notified EXCEPT ![top(t).p] = top(t).v]
        /\ m_mutx[top(t).p] = NoThread
    BY <1>8 DEF send, begin_send
  <2>6. sends'[g.p] = g.n /\ notified'[g.p] = g.v /\ sends[g.p] \in Nat
    BY <1>0, <2>4, <2>5 DEF ValueTypes
  <2>7. \A p \in Params : p # g.p => sends'[p] = sends[p] /\ notified'[p] = notified[p]
    BY <1>0, <2>4, <2>5 DEF ValueTypes
  <2>8. \A q \in Queues : \A k \in 1..Len(heard[q]) :
          heard[q][k][1] = g.p => heard[q][k][2] < g.n
    BY <1>0, <2>4, <2>6, HeardTyped DEF HeardInOrder
  <2>9. sendCurrent(g)'
    BY <2>5, <2>6, <2>8 DEF sendCurrent
  <2> SUFFICES ASSUME NEW u \in Threads, NEW i \in 1..Len(stack'[u])
               PROVE  sendCurrent(stack[u][i])'
    BY DEF SendsCurrent
  <2>10. PICK f : f = stack'[u][i]
    OBVIOUS
  <2>11. CASE f = g
    <3>1. f.at = "notify" =>
            /\ f.n = sends'[f.p] /\ f.v = notified'[f.p]
            /\ \A j \in 1..Len(f.todo) : f.todo[j] \in Queues =>
                 \A k \in 1..Len(heard'[f.todo[j]]) :
                   heard'[f.todo[j]][k][1] = f.p => heard'[f.todo[j]][k][2] < f.n
      BY <2>5, <2>6, <2>8, <2>11
    <3> QED
      BY <2>10, <3>1 DEF sendCurrent
  <2>12. CASE f # g
    <3>1. i \in 1..Len(stack[u]) /\ f = stack[u][i] /\ ~(u = t /\ i = Len(stack[t]))
      BY <2>2, <2>10, <2>12 DEF framesFrom
    <3>2. sendCurrent(f)
      BY <1>0, <3>1 DEF SendsCurrent
    <3>3. f.at = "notify" => f.p # g.p
      BY <1>0, <2>3, <2>4, <2>5, <3>1, OtherSends
    <3>4. f.p \in Params
      BY <1>0, <3>1, FrameTyped
    <3>5. f.at = "notify" => sends'[f.p] = sends[f.p] /\ notified'[f.p] = notified[f.p]
      BY <2>7, <3>3, <3>4
    <3> QED
      BY <2>5, <2>10, <3>2, <3>5 DEF sendCurrent
  <2> QED
    BY <2>11, <2>12
<1>9. ASSUME NEW t \in Threads, callback(t) PROVE SendsCurrent'
  <2>1. PICK g : g = [top(t) EXCEPT !.todo = Tail(top(t).todo)]
    OBVIOUS
  <2>2. /\ top(t) \in Frames /\ stack[t] # <<>> /\ top(t).at = "notify"
        /\ top(t) = stack[t][Len(stack[t])] /\ Len(stack[t]) \in 1..Len(stack[t])
    <3>1. stack[t] # <<>> /\ top(t).at = "notify"
      BY <1>0, <1>9, CallbackEffect
    <3> QED
      BY <1>0, <3>1, TopTyped
  <2>3. /\ g.n = top(t).n /\ g.p = top(t).p /\ g.v = top(t).v
        /\ g.todo = Tail(top(t).todo) /\ g.at = "notify"
    BY <2>1, <2>2 DEF Frames
  <2>4. sendCurrent(top(t))
    BY <1>0, <2>2 DEF SendsCurrent
  <2>5. /\ Len(top(t).todo) \in Nat \ {0} /\ Len(g.todo) = Len(top(t).todo) - 1
        /\ \A j \in 1..(Len(top(t).todo) - 1) :
             g.todo[j] = top(t).todo[j + 1] /\ top(t).todo[j + 1] # Head(top(t).todo)
    BY <1>0, <1>9, <2>3, CallbackOf
  <2>6. \A j \in 1..Len(g.todo) : \E k \in 1..Len(top(t).todo) :
          g.todo[j] = top(t).todo[k] /\ g.todo[j] # Head(top(t).todo)
    BY <2>5
  <2>7. sendCurrent(g)
    BY <2>2, <2>3, <2>4, <2>6 DEF sendCurrent
  <2>8. UNCHANGED <<sends, notified>>
    BY <1>9 DEF callback, history
  <2>9. CASE Head(top(t).todo) \notin Queues
    <3>1. framesFrom(t, {g, frame("push", Head(top(t).todo), top(t).v)})
      BY <1>0, <1>9, <2>1, <2>9, FramesAfter
    <3>2. heard' = heard
      BY <1>9, <2>9 DEF callback
    <3>3. sendCurrent(frame("push", Head(top(t).todo), top(t).v))
      BY DEF frame, sendCurrent
    <3>4. \A f \in {g, frame("push", Head(top(t).todo), top(t).v)} : sendCurrent(f)
      BY <2>7, <3>3
    <3> QED
      BY <1>1, <2>8, <3>1, <3>2, <3>4
  <2>10. CASE Head(top(t).todo) \in Queues
    <3>1. framesFrom(t, {g})
      BY <1>0, <1>9, <2>1, <2>10, FramesAfter
    <3>2. PICK c \in Queues : c = Head(top(t).todo)
      BY <2>10
    <3>3. /\ Len(heard[c]) \in Nat
          /\ Len(heard'[c]) = Len(heard[c]) + 1
          /\ \A i \in 1..Len(heard[c]) : heard'[c][i] = heard[c][i]
          /\ heard'[c][Len(heard[c]) + 1] = <<top(t).p, top(t).n>>
          /\ \A q \in Queues \ {c} : heard'[q] = heard[q]
      BY <1>0, <1>9, <3>2, HeardEffect
    <3>4. \A q \in Queues : \A k \in 1..Len(heard'[q]) :
            \/ k \in 1..Len(heard[q]) /\ heard'[q][k] = heard[q][k]
            \/ q = c /\ heard'[q][k][1] = top(t).p
      BY <3>3
    <3> SUFFICES ASSUME NEW u \in Threads, NEW i \in 1..Len(stack'[u])
                 PROVE  sendCurrent(stack[u][i])'
      BY DEF SendsCurrent
    <3>5. PICK f : f = stack'[u][i]
      OBVIOUS
    <3>6. sendCurrent(f) /\ (f.at = "notify" => f.p # top(t).p
                              \/ \A j \in 1..Len(f.todo) : f.todo[j] # c)
      <4>1. CASE f = g
        BY <2>6, <2>7, <3>2, <4>1
      <4>2. CASE f # g
        <5>1. i \in 1..Len(stack[u]) /\ f = stack[u][i] /\ ~(u = t /\ i = Len(stack[t]))
          BY <3>1, <3>5, <4>2 DEF framesFrom
        <5>2. sendCurrent(f)
          BY <1>0, <5>1 DEF SendsCurrent
        <5>3. f.at = "notify" => f.p # top(t).p
          BY <1>0, <2>2, <5>1, OtherSends
        <5> QED
          BY <5>2, <5>3
      <4> QED
        BY <4>1, <4>2
    <3>7. ASSUME f.at = "notify"
          PROVE  \A j \in 1..Len(f.todo) : f.todo[j] \in Queues =>
                   \A k \in 1..Len(heard'[f.todo[j]]) :
                     heard'[f.todo[j]][k][1] = f.p => heard'[f.todo[j]][k][2] < f.n
      <4> SUFFICES ASSUME NEW j \in 1..Len(f.todo), f.todo[j] \in Queues,
                          NEW k \in 1..Len(heard'[f.todo[j]]), heard'[f.todo[j]][k][1] = f.p
                   PROVE  heard'[f.todo[j]][k][2] < f.n
        OBVIOUS
      <4>1. PICK q \in Queues : q = f.todo[j]
        OBVIOUS
      <4>2. ~(q = c /\ f.p = top(t).p)
        BY <3>6, <3>7, <4>1
      <4>3. k \in 1..Len(heard[q]) /\ heard'[q][k] = heard[q][k]
        BY <3>4, <4>1, <4>2
      <4> QED
        BY <3>6, <3>7, <4>1, <4>3 DEF sendCurrent
    <3> QED
      BY <2>8, <3>5, <3>6, <3>7 DEF sendCurrent
  <2> QED
    BY <2>9, <2>10
<1> QED
  BY <1>3, <1>4, <1>5, <1>6, <1>7, <1>8, <1>9, QuietSteps

(* No call but the innermost of t changes or goes.                         *)
framesStay(t) ==
    \A u \in Threads : \A i \in 1..Len(stack[u]) :
        \/ u = t /\ i = Len(stack[t])
        \/ i \in 1..Len(stack'[u]) /\ stack'[u][i] = stack[u][i]

(* This of the actions of a thread.                                        *)
LEMMA FramesStay ==
  ASSUME ValueTypes, NEW t \in Threads,
         \/ store(t) \/ send(t) \/ callback(t) \/ end_send(t) \/ push(t)
         \/ \E op \in operations(t), p \in Params, v \in Values : call(t, op, p, v)
  PROVE  framesStay(t)
<1>0. \A u \in Threads : Len(stack[u]) \in Nat
  BY LenProperties DEF ValueTypes
<1>1. ASSUME NEW g, replaced(t, g) PROVE framesStay(t)
  BY <1>0, <1>1 DEF replaced, framesStay
<1>2. ASSUME popped(t) PROVE framesStay(t)
  BY <1>0, <1>2 DEF popped, framesStay
<1>3. ASSUME NEW g, NEW h, pushed(t, g, h) PROVE framesStay(t)
  BY <1>0, <1>3 DEF pushed, framesStay
<1>4. ASSUME NEW h, entered(t, h) PROVE framesStay(t)
  BY <1>0, <1>4 DEF entered, framesStay
<1>5. store(t) => framesStay(t)
  BY <1>1, <1>2, StoreEffect
<1>6. send(t) => framesStay(t)
  BY <1>1, SendEffect
<1>7. callback(t) => framesStay(t)
  BY <1>1, <1>3, CallbackEffect
<1>8. end_send(t) => framesStay(t)
  BY <1>1, <1>2, EndSendEffect
<1>9. push(t) => framesStay(t)
  BY <1>2, PushEffect
<1>10. (\E op \in operations(t), p \in Params, v \in Values : call(t, op, p, v)) => framesStay(t)
  BY <1>4, CallEffect
<1> QED
  BY <1>5, <1>6, <1>7, <1>8, <1>9, <1>10

(* A link goes from a parameter to another one.                            *)
LEMMA LinkTyped ==
  ASSUME NEW l \in Links
  PROVE  l[1] \in Params /\ l[2] \in Params /\ l[1] # l[2] /\ l = <<l[1], l[2]>>
<1>1. l[1] \in Params /\ l[2] \in Params /\ l = <<l[1], l[2]>>
  BY LinksAssumption
<1>2. PICK rank \in [Params -> 1..Cardinality(Params)] : \A k \in Links : rank[k[1]] < rank[k[2]]
  BY LinksAcyclic
<1>3. rank[l[1]] < rank[l[2]] /\ rank[l[1]] \in 1..Cardinality(Params)
  BY <1>1, <1>2
<1>4. Cardinality(Params) \in Nat
  BY LinksAssumption, FS_CardinalityType
<1>5. l[1] # l[2]
  BY <1>3, <1>4
<1> QED
  BY <1>1, <1>5

(* A call on a parameter that only one link sets is the push of a send of  *)
(* the other parameter.                                                    *)
LEMMA Pusher ==
  ASSUME ValueInv, NEW l \in Links, onlyLink(l), NEW t \in Threads,
         NEW i \in 1..Len(stack[t]), stack[t][i].p = l[2]
  PROVE  /\ i - 1 \in 1..Len(stack[t])
         /\ stack[t][i].op = "push"
         /\ stack[t][i - 1].at = "notify" /\ stack[t][i - 1].p = l[1]
         /\ m_mutx[l[1]] = t
         /\ stack[t][i].v = notified[l[1]]
         /\ \A j \in 1..Len(stack[t][i - 1].todo) : stack[t][i - 1].todo[j] # l[2]
<1>0. ValueTypes /\ CallsNest /\ SendsCurrent /\ MutexHeld
  BY DEF ValueInv
<1>1. nested(stack[t], i) /\ Len(stack[t]) \in Nat
  BY <1>0, LenProperties DEF CallsNest, ValueTypes
<1>2. i # 1
  BY <1>1 DEF nested, onlyLink
<1>3. i - 1 \in 1..Len(stack[t]) /\ i > 1
  BY <1>1, <1>2
<1>4. /\ stack[t][i].op = "push" /\ stack[t][i - 1].at = "notify"
      /\ stack[t][i - 1].v = stack[t][i].v
      /\ <<stack[t][i - 1].p, l[2]>> \in Links
      /\ \A j \in 1..Len(stack[t][i - 1].todo) : stack[t][i - 1].todo[j] # l[2]
  BY <1>1, <1>3 DEF nested
<1>5. stack[t][i - 1].p = l[1]
  <2>1. <<stack[t][i - 1].p, l[2]>>[2] = l[2]
    OBVIOUS
  <2>2. <<stack[t][i - 1].p, l[2]>> = l
    BY <1>4, <2>1 DEF onlyLink
  <2> QED
    BY <2>2
<1>6. sendCurrent(stack[t][i - 1])
  BY <1>0, <1>3 DEF SendsCurrent
<1>7. stack[t][i].v = notified[l[1]]
  BY <1>4, <1>5, <1>6 DEF sendCurrent
<1>8. m_mutx[l[1]] = t
  BY <1>0, <1>3, <1>4, <1>5 DEF MutexHeld
<1> QED
  BY <1>3, <1>4, <1>5, <1>7, <1>8

(* There is one such call at most, and no other is owed.                   *)
LEMMA OnePush ==
  ASSUME ValueInv, NEW l \in Links, onlyLink(l), NEW t \in Threads,
         NEW i \in 1..Len(stack[t]), stack[t][i].p = l[2]
  PROVE  /\ ~owed(l[1], l[2])
         /\ \A u \in Threads : \A j \in 1..Len(stack[u]) :
              stack[u][j].p = l[2] => u = t /\ j = i
<1>0. MutexHeld
  BY DEF ValueInv
<1>1. /\ i - 1 \in 1..Len(stack[t]) /\ m_mutx[l[1]] = t
      /\ stack[t][i - 1].at = "notify" /\ stack[t][i - 1].p = l[1]
      /\ \A j \in 1..Len(stack[t][i - 1].todo) : stack[t][i - 1].todo[j] # l[2]
  BY Pusher
<1>2. ASSUME NEW u \in Threads, NEW j \in 1..Len(stack[u]), stack[u][j].p = l[1],
             stack[u][j].at = "notify"
      PROVE  u = t /\ j = i - 1
  BY <1>0, <1>1, <1>2 DEF MutexHeld
<1>3. ~owed(l[1], l[2])
  BY <1>1, <1>2 DEF owed
<1>4. ASSUME NEW u \in Threads, NEW j \in 1..Len(stack[u]), stack[u][j].p = l[2]
      PROVE  u = t /\ j = i
  <2>1. /\ j - 1 \in 1..Len(stack[u])
        /\ stack[u][j - 1].at = "notify" /\ stack[u][j - 1].p = l[1]
    BY <1>4, Pusher
  <2>2. u = t /\ j - 1 = i - 1
    BY <1>2, <2>1
  <2> QED
    BY <2>2
<1> QED
  BY <1>3, <1>4

(* A step that changes neither the values of a link nor the calls on its   *)
(* second parameter keeps it.                                              *)
LEMMA FollowsKept ==
  ASSUME ValueInv, NEW a \in Params, NEW b \in Params, follows(a, b),
         NEW t \in Threads, NEW G, framesFrom(t, G), framesStay(t),
         sent'[b] = sent[b], m_value'[b] = m_value[b],
         m_previousValue'[b] = m_previousValue[b], notified'[a] = notified[a],
         \A g \in G : g.p = b => /\ stack[t] # <<>> /\ top(t).p = b
                                 /\ g.at # "store" /\ top(t).at # "store",
         stack[t] # <<>> /\ top(t).p = b => pushing(b)',
         owed(a, b) => owed(a, b)'
  PROVE  follows(a, b)'
<1>0. ValueTypes
  BY DEF ValueInv
<1>1. \A u \in Threads : \A i \in 1..Len(stack[u]) : stack[u][i].p = b =>
        IF stack[u][i].at = "store" THEN (b \notin Muted => sent[b] = m_value[b])
        ELSE m_value[b] = notified[a] /\ (b \notin Muted => sent[b] = m_previousValue[b])
  BY DEF follows
<1>2. ASSUME NEW u \in Threads, NEW i \in 1..Len(stack'[u]), stack'[u][i].p = b
      PROVE  IF stack'[u][i].at = "store" THEN (b \notin Muted => sent[b] = m_value[b])
             ELSE m_value[b] = notified[a] /\ (b \notin Muted => sent[b] = m_previousValue[b])
  <2>1. CASE stack'[u][i] \in G
    <3>1. stack[t] # <<>> /\ top(t).p = b /\ stack'[u][i].at # "store" /\ top(t).at # "store"
      BY <1>2, <2>1
    <3>2. Len(stack[t]) \in 1..Len(stack[t]) /\ top(t) = stack[t][Len(stack[t])]
      BY <1>0, <3>1, TopTyped
    <3> QED
      BY <1>1, <3>1, <3>2
  <2>2. CASE i \in 1..Len(stack[u]) /\ stack'[u][i] = stack[u][i]
    BY <1>1, <1>2, <2>2
  <2> QED
    BY <2>1, <2>2 DEF framesFrom
<1>3. ASSUME pushing(b) PROVE pushing(b)'
  <2>0. PICK u \in Threads : \E i \in 1..Len(stack[u]) : stack[u][i].p = b
    BY <1>3 DEF pushing
  <2>1. PICK i \in 1..Len(stack[u]) : stack[u][i].p = b
    BY <2>0
  <2>2. CASE u = t /\ i = Len(stack[t])
    <3>1. Len(stack[t]) \in 1..Len(stack[t]) /\ stack[t] # <<>>
      BY <2>1, <2>2
    <3>2. top(t).p = b
      BY <1>0, <2>1, <2>2, <3>1, TopTyped
    <3> QED
      BY <3>1, <3>2
  <2>3. CASE ~(u = t /\ i = Len(stack[t]))
    BY <2>1, <2>3 DEF framesStay, pushing
  <2> QED
    BY <2>2, <2>3
<1>4. ASSUME ~pushing(b)'
      PROVE  (b \notin Muted => sent[b] = m_value[b]) /\ (~owed(a, b)' => m_value[b] = notified[a])
  BY <1>3, <1>4 DEF follows
<1>5. /\ \A u \in Threads : \A i \in 1..Len(stack'[u]) : stack'[u][i].p = b =>
           IF stack'[u][i].at = "store" THEN (b \notin Muted => sent'[b] = m_value'[b])
           ELSE m_value'[b] = notified'[a] /\ (b \notin Muted => sent'[b] = m_previousValue'[b])
      /\ ~pushing(b)' => /\ (b \notin Muted => sent'[b] = m_value'[b])
                         /\ (~owed(a, b)' => m_value'[b] = notified'[a])
  BY <1>2, <1>4
<1> QED
  BY <1>5 DEF follows

(* A push that is owed stays owed unless the send goes on with it.         *)
LEMMA OwedKept ==
  ASSUME NEW t \in Threads, framesStay(t), NEW a, NEW b, owed(a, b),
         stack[t] # <<>> /\ top(t).p = a /\ top(t).at = "notify"
           /\ (\E j \in 1..Len(top(t).todo) : top(t).todo[j] = b) => owed(a, b)'
  PROVE  owed(a, b)'
<1>0. PICK u \in Threads : \E i \in 1..Len(stack[u]) :
        /\ stack[u][i].p = a /\ stack[u][i].at = "notify"
        /\ \E j \in 1..Len(stack[u][i].todo) : stack[u][i].todo[j] = b
  BY DEF owed
<1>1. PICK i \in 1..Len(stack[u]) :
        /\ stack[u][i].p = a /\ stack[u][i].at = "notify"
        /\ \E j \in 1..Len(stack[u][i].todo) : stack[u][i].todo[j] = b
  BY <1>0
<1>2. CASE u = t /\ i = Len(stack[t])
  <2>1. stack[t] # <<>> /\ top(t) = stack[u][i]
    BY <1>1, <1>2 DEF top, depth
  <2> QED
    BY <1>1, <2>1
<1>3. CASE ~(u = t /\ i = Len(stack[t]))
  <2>1. i \in 1..Len(stack'[u]) /\ stack'[u][i] = stack[u][i]
    BY <1>3 DEF framesStay
  <2> QED
    BY <1>1, <2>1 DEF owed
<1> QED
  BY <1>2, <1>3

(* The steps of a thread keep a link that is alone followed.               *)
LEMMA LinkStep ==
  ASSUME ValueInv, NEW l \in Links, alive[l[1]], onlyLink(l), follows(l[1], l[2]),
         NEW t \in Threads,
         \/ store(t) \/ send(t) \/ callback(t) \/ end_send(t) \/ push(t)
         \/ \E op \in operations(t), p \in Params, v \in Values : call(t, op, p, v)
  PROVE  follows(l[1], l[2])'
<1>0. ValueTypes /\ TodoKnown /\ CallbacksKnown /\ MutexHeld
  BY DEF ValueInv
<1>1. PICK a \in Params, b \in Params :
        a = l[1] /\ b = l[2] /\ a # b /\ <<a, b>> \in Links /\ l = <<a, b>>
  BY LinkTyped
<1>2. b \notin Direct /\ \A k \in Links : k[2] = b => k = <<a, b>>
  BY <1>1 DEF onlyLink
<1>3. follows(a, b) /\ onlyLink(l) /\ framesStay(t)
  BY <1>0, <1>1, FramesStay
<1>4. SUFFICES follows(a, b)'
  BY <1>1
<1>5. ASSUME stack[t] # <<>>
      PROVE  /\ top(t) \in Frames /\ top(t).p \in Params /\ top(t).v \in Values
             /\ top(t) = stack[t][Len(stack[t])] /\ Len(stack[t]) \in 1..Len(stack[t])
             /\ Len(stack[t]) \in Nat
  BY <1>0, <1>5, TopTyped DEF Frames
<1>6. ASSUME stack[t] # <<>>, top(t).p = b
      PROVE  /\ top(t).op = "push" /\ top(t).v = notified[a]
             /\ \A u \in Threads : \A j \in 1..Len(stack[u]) :
                  stack[u][j].p = b => u = t /\ j = Len(stack[t])
  BY <1>1, <1>3, <1>5, <1>6, Pusher, OnePush
<1>7. ASSUME NEW op \in operations(t), NEW p \in Params, NEW v \in Values, call(t, op, p, v)
      PROVE  follows(a, b)'
  <2>1. p \in Direct /\ stack[t] = <<>>
    BY <1>7 DEF call, idle
  <2>2. framesFrom(t, {frame(op, p, v)}) /\ frame(op, p, v).p # b
    BY <1>0, <1>2, <1>7, <2>1, FramesAfter DEF frame
  <2>3. UNCHANGED <<sent, m_value, m_previousValue, notified>>
    BY <1>7 DEF call, values, history
  <2>4. owed(a, b) => owed(a, b)'
    BY <1>3, <2>1, OwedKept
  <2> QED
    BY <1>3, <2>1, <2>2, <2>3, <2>4, FollowsKept
<1>8. ASSUME store(t) PROVE follows(a, b)'
  <2>1. stack[t] # <<>> /\ top(t).at = "store"
    BY <1>0, <1>8, StoreEffect
  <2>2. PICK g : g = [top(t) EXCEPT !.at = "lock"]
    OBVIOUS
  <2>3. g.p = top(t).p /\ g.at = "lock" /\ framesFrom(t, {g})
    BY <1>0, <1>5, <1>8, <2>1, <2>2, FramesAfter DEF Frames
  <2>4. /\ m_previousValue' = [m_previousValue EXCEPT ![top(t).p] = m_value[top(t).p]]
        /\ m_value' = [m_value EXCEPT ![top(t).p] = top(t).v]
        /\ sent' = sent /\ notified' = notified
    BY <1>8 DEF store, history
  <2>5. CASE top(t).p # b
    <3>1. m_value'[b] = m_value[b] /\ m_previousValue'[b] = m_previousValue[b]
      BY <1>0, <2>4, <2>5 DEF ValueTypes
    <3>2. owed(a, b) => owed(a, b)'
      BY <1>3, <2>1, OwedKept
    <3> QED
      BY <1>3, <2>3, <2>4, <2>5, <3>1, <3>2, FollowsKept
  <2>6. CASE top(t).p = b
    <3>1. m_value'[b] = notified[a] /\ m_previousValue'[b] = m_value[b]
      BY <1>0, <1>6, <2>1, <2>4, <2>6 DEF ValueTypes
    <3>2. (b \notin Muted => sent[b] = m_value[b])
      BY <1>3, <1>5, <2>1, <2>6 DEF follows
    <3>3. replaced(t, g)
      BY <1>0, <1>6, <1>8, <2>1, <2>2, <2>6, StoreEffect
    <3>4. pushing(b)'
      BY <1>5, <2>1, <2>3, <2>6, <3>3 DEF pushing, replaced
    <3>5. ASSUME NEW u \in Threads, NEW i \in 1..Len(stack'[u]), stack'[u][i].p = b
          PROVE  stack'[u][i].at # "store"
      BY <1>6, <2>1, <2>3, <2>6, <3>5 DEF framesFrom
    <3> QED
      BY <2>4, <3>1, <3>2, <3>4, <3>5 DEF follows
  <2> QED
    BY <2>5, <2>6
<1>9. ASSUME send(t) PROVE follows(a, b)'
  <2>1. stack[t] # <<>> /\ top(t).at = "lock" /\ m_mutx[top(t).p] = NoThread
    BY <1>0, <1>9, SendEffect DEF send
  <2>2. PICK g : g = [top(t) EXCEPT !.at = "notify", !.n = sends[top(t).p] + 1,
                                    !.todo = m_callbacks[top(t).p]]
    OBVIOUS
  <2>3. g.p = top(t).p /\ g.at = "notify" /\ g.todo = m_callbacks[top(t).p]
    BY <1>5, <2>1, <2>2 DEF Frames
  <2>4. framesFrom(t, {g}) /\ replaced(t, g)
    BY <1>0, <1>9, <2>2, FramesAfter, SendEffect
  <2>5. UNCHANGED <<sent, m_value, m_previousValue>>
    BY <1>9 DEF send, begin_send, values
  <2>6. notified' = [notified EXCEPT ![top(t).p] = top(t).v]
    BY <1>9 DEF send, begin_send
  <2>7. stack'[t][Len(stack[t])] = g /\ Len(stack[t]) \in 1..Len(stack'[t])
    BY <1>5, <2>1, <2>4 DEF replaced
  <2>8. CASE top(t).p # a
    <3>1. notified'[a] = notified[a]
      BY <1>0, <2>6, <2>8 DEF ValueTypes
    <3>2. top(t).p = b => pushing(b)'
      BY <2>3, <2>7 DEF pushing
    <3>3. owed(a, b) => owed(a, b)'
      BY <1>3, <2>1, OwedKept
    <3> QED
      BY <1>3, <2>1, <2>3, <2>4, <2>5, <3>1, <3>2, <3>3, FollowsKept
  <2>9. CASE top(t).p = a
    <3>1. ASSUME NEW u \in Threads, NEW i \in 1..Len(stack[u]) PROVE stack[u][i].p # b
      <4>1. SUFFICES ASSUME stack[u][i].p = b PROVE FALSE
        OBVIOUS
      <4>2. m_mutx[a] = u
        BY <1>1, <1>3, <4>1, Pusher
      <4> QED
        BY <2>1, <2>9, <4>2, AppAssumption
    <3>2. ~pushing(b)
      BY <3>1 DEF pushing
    <3>3. \A u \in Threads : \A i \in 1..Len(stack'[u]) : stack'[u][i].p # b
      BY <1>1, <2>3, <2>4, <2>9, <3>1 DEF framesFrom
    <3>4. owed(a, b)'
      <4>1. PICK j \in 1..Len(m_callbacks[a]) : m_callbacks[a][j] = b
        BY <1>0, <1>1 DEF CallbacksKnown, callbacksKnown
      <4> QED
        BY <2>3, <2>7, <2>9, <4>1 DEF owed
    <3>5. (b \notin Muted => sent[b] = m_value[b])
      BY <1>3, <3>2 DEF follows
    <3> QED
      BY <2>5, <3>3, <3>4, <3>5 DEF follows
  <2> QED
    BY <2>8, <2>9
<1>10. ASSUME callback(t) PROVE follows(a, b)'
  <2>1. stack[t] # <<>> /\ top(t).at = "notify" /\ top(t).todo # <<>>
    BY <1>0, <1>10, CallbackEffect
  <2>2. PICK g : g = [top(t) EXCEPT !.todo = Tail(top(t).todo)]
    OBVIOUS
  <2>3. g.p = top(t).p /\ g.at = "notify" /\ g.todo = Tail(top(t).todo)
    BY <1>5, <2>1, <2>2 DEF Frames
  <2>4. PICK h : h = frame("push", Head(top(t).todo), top(t).v)
    OBVIOUS
  <2>5. h.p = Head(top(t).todo) /\ h.at = "store"
    BY <2>4 DEF frame
  <2>6. UNCHANGED <<sent, m_value, m_previousValue, notified>>
    BY <1>10 DEF callback, values, history
  <2>7. PICK c : c = Head(top(t).todo)
    OBVIOUS
  <2>8. /\ Len(top(t).todo) \in Nat \ {0} /\ top(t).todo[1] = c
        /\ Len(g.todo) = Len(top(t).todo) - 1
        /\ \A j \in 1..(Len(top(t).todo) - 1) : g.todo[j] = top(t).todo[j + 1]
        /\ c \notin Queues => <<top(t).p, c>> \in Links
    BY <1>0, <1>10, <2>3, <2>7, CallbackOf
  <2>9. /\ c \in Queues => replaced(t, g) /\ framesFrom(t, {g})
        /\ c \notin Queues => pushed(t, g, h) /\ framesFrom(t, {g, h})
    BY <1>0, <1>10, <2>2, <2>4, <2>7, CallbackEffect, FramesAfter
  <2>10. stack'[t][Len(stack[t])] = g /\ Len(stack[t]) \in 1..Len(stack'[t])
    BY <1>5, <2>1, <2>9 DEF replaced, pushed
  <2>11. top(t).p = b => pushing(b)'
    BY <2>3, <2>10 DEF pushing
  <2>12. CASE c # b
    <3>1. owed(a, b) => owed(a, b)'
      <4>1. ASSUME top(t).p = a, NEW j \in 1..Len(top(t).todo), top(t).todo[j] = b
            PROVE  owed(a, b)'
        <5>1. j # 1
          BY <2>8, <2>12, <4>1
        <5>2. j - 1 \in 1..(Len(top(t).todo) - 1) /\ j - 1 + 1 = j
          BY <2>8, <5>1
        <5>3. j - 1 \in 1..Len(g.todo) /\ g.todo[j - 1] = b
          BY <2>8, <4>1, <5>2
        <5> QED
          BY <2>3, <2>10, <4>1, <5>3 DEF owed
      <4> QED
        BY <1>3, <4>1, OwedKept
    <3>2. PICK G : framesFrom(t, G) /\ \A f \in G : f = g \/ f = h
      BY <2>9
    <3>3. \A f \in G : f.p = b => /\ stack[t] # <<>> /\ top(t).p = b
                                  /\ f.at # "store" /\ top(t).at # "store"
      BY <2>1, <2>3, <2>5, <2>7, <2>12, <3>2
    <3> QED
      BY <1>3, <2>6, <2>11, <3>1, <3>2, <3>3, FollowsKept
  <2>13. CASE c = b
    <3>1. c \notin Queues
      BY <2>13, NamesAssumption
    <3>2. <<top(t).p, b>>[2] = b /\ <<top(t).p, b>> \in Links
      BY <2>8, <2>13, <3>1
    <3>3. top(t).p = a
      <4>1. <<top(t).p, b>> = <<a, b>>
        BY <1>2, <3>2
      <4> QED
        BY <4>1
    <3>4. owed(a, b)
      <4>1. PICK i : i = Len(stack[t])
        OBVIOUS
      <4>2. i \in 1..Len(stack[t]) /\ stack[t][i] = top(t)
        BY <1>5, <2>1, <4>1
      <4>3. 1 \in 1..Len(top(t).todo) /\ top(t).todo[1] = b
        BY <2>8, <2>13
      <4> QED
        BY <2>1, <3>3, <4>2, <4>3 DEF owed
    <3>5. ASSUME NEW u \in Threads, NEW i \in 1..Len(stack[u]) PROVE stack[u][i].p # b
      BY <1>1, <1>3, <3>4, OnePush
    <3>6. (b \notin Muted => sent[b] = m_value[b])
      BY <1>3, <3>5 DEF follows, pushing
    <3>7. ASSUME NEW u \in Threads, NEW i \in 1..Len(stack'[u]), stack'[u][i].p = b
          PROVE  stack'[u][i].at = "store"
      BY <1>1, <2>3, <2>5, <2>9, <3>1, <3>3, <3>5, <3>7 DEF framesFrom
    <3>8. pushing(b)'
      <4>1. stack'[t][Len(stack[t]) + 1] = h /\ Len(stack[t]) + 1 \in 1..Len(stack'[t])
        BY <1>5, <2>1, <2>9, <3>1 DEF pushed
      <4> QED
        BY <2>5, <2>7, <2>13, <4>1 DEF pushing
    <3> QED
      BY <2>6, <3>6, <3>7, <3>8 DEF follows
  <2> QED
    BY <2>12, <2>13
<1>11. ASSUME end_send(t) PROVE follows(a, b)'
  <2>1. stack[t] # <<>> /\ top(t).at = "notify" /\ top(t).todo = <<>>
    BY <1>0, <1>11, EndSendEffect
  <2>2. PICK g : g = [top(t) EXCEPT !.at = "push"]
    OBVIOUS
  <2>3. g.p = top(t).p /\ g.at = "push" /\ framesFrom(t, {g})
    BY <1>0, <1>5, <1>11, <2>1, <2>2, FramesAfter DEF Frames
  <2>4. UNCHANGED <<sent, m_value, m_previousValue, notified>>
    BY <1>11 DEF end_send, values, history
  <2>5. top(t).p = b => pushing(b)'
    <3> SUFFICES ASSUME top(t).p = b PROVE pushing(b)'
      OBVIOUS
    <3>1. replaced(t, g)
      BY <1>0, <1>6, <1>11, <2>1, <2>2, EndSendEffect
    <3> QED
      BY <1>5, <2>1, <2>3, <3>1 DEF pushing, replaced
  <2>6. owed(a, b) => owed(a, b)'
    <3>1. Len(top(t).todo) = 0
      BY <2>1
    <3> QED
      BY <1>3, <3>1, OwedKept
  <2> QED
    BY <1>3, <2>1, <2>3, <2>4, <2>5, <2>6, FollowsKept
<1>12. ASSUME push(t) PROVE follows(a, b)'
  <2>1. stack[t] # <<>> /\ top(t).at = "push" /\ framesFrom(t, {})
    BY <1>0, <1>12, PushEffect, FramesAfter
  <2>2. UNCHANGED <<m_value, m_previousValue, notified>>
    BY <1>12 DEF push, values, history
  <2>3. sent' = IF filter_value(top(t).p) THEN sent
                ELSE [sent EXCEPT ![top(t).p] = m_value[top(t).p]]
    BY <1>12 DEF push
  <2>4. owed(a, b) => owed(a, b)'
    BY <1>3, <2>1, OwedKept
  <2>5. CASE top(t).p # b
    <3>1. sent'[b] = sent[b]
      BY <1>0, <2>3, <2>5 DEF ValueTypes
    <3> QED
      BY <1>3, <2>1, <2>2, <2>4, <2>5, <3>1, FollowsKept
  <2>6. CASE top(t).p = b
    <3>1. m_value[b] = notified[a] /\ (b \notin Muted => sent[b] = m_previousValue[b])
      BY <1>3, <1>5, <2>1, <2>6 DEF follows
    <3>2. (b \notin Muted => sent'[b] = m_value[b])
      BY <1>0, <2>3, <2>6, <3>1 DEF ValueTypes, filter_value
    <3>3. \A u \in Threads : \A i \in 1..Len(stack'[u]) : stack'[u][i].p # b
      BY <1>6, <2>1, <2>6 DEF framesFrom
    <3> QED
      BY <2>2, <3>1, <3>2, <3>3 DEF follows
  <2> QED
    BY <2>5, <2>6
<1> QED
  BY <1>7, <1>8, <1>9, <1>10, <1>11, <1>12

(* Every step does.                                                        *)
LEMMA LinksFollowStep == ValueInv /\ [Next]_vars => LinksFollow'
<1> SUFFICES ASSUME ValueInv, [Next]_vars, NEW l \in Links, alive'[l[1]], onlyLink(l)
             PROVE  follows(l[1], l[2])'
  BY DEF LinksFollow, onlyLink
<1>0. ValueTypes /\ LinksFollow
  BY DEF ValueInv
<1>1. alive[l[1]]
  <2>1. \A p \in Params : remove_parameter(p) => alive' = [alive EXCEPT ![p] = FALSE]
    BY DEF remove_parameter
  <2>2. UNCHANGED alive \/ \E p \in Params : remove_parameter(p)
    BY DEF Next, vars, call, store, send, begin_send, callback, end_send, push, reg, unreg,
           destroy, destroy_step
  <2>3. l[1] \in Params
    BY LinkTyped
  <2> QED
    BY <1>0, <2>1, <2>2, <2>3 DEF ValueTypes
<1>2. follows(l[1], l[2])
  BY <1>0, <1>1 DEF LinksFollow
<1>3. CASE UNCHANGED <<stack, heard, sends, notified, m_mutx, m_value, m_previousValue, sent>>
  BY <1>2, <1>3 DEF follows, pushing, owed
<1> QED
  BY <1>1, <1>2, <1>3, LinkStep, QuietSteps

(* All the parts of the inductive invariant are kept by every step.        *)
LEMMA ValueInvStep == ValueInv /\ [Next]_vars => ValueInv'
<1> SUFFICES ASSUME ValueInv, [Next]_vars PROVE ValueInv'
  OBVIOUS
<1>1. ValueTypes' /\ CallsNest' /\ MutexHeld'
  BY ValueTypesStep, CallsNestStep, MutexHeldStep DEF ValueInv
<1>2. CallbacksKnown' /\ RegistrationsCalled' /\ TodoKnown'
  BY CallbacksKnownStep, RegistrationsCalledStep, TodoKnownStep
<1>3. HeardInOrder' /\ SendsCurrent' /\ LinksFollow'
  BY HeardInOrderStep, SendsCurrentStep, LinksFollowStep
<1> QED
  BY <1>1, <1>2, <1>3 DEF ValueInv

(* The place of something that a queue heard.                              *)
LEMMA PositionOf ==
  ASSUME ValueTypes, HeardInOrder, NEW q \in Queues, NEW k \in Range(heard[q])
  PROVE  /\ position(q, k) \in 1..Len(heard[q])
         /\ heard[q][position(q, k)] = k
         /\ k \in Params \X Nat
<1>1. heard[q] \in Seq(Params \X Nat)
  BY DEF ValueTypes
<1>2. DOMAIN heard[q] = 1..Len(heard[q])
  BY <1>1, LenProperties
<1>3. \E i \in DOMAIN heard[q] : heard[q][i] = k
  BY DEF Range
<1>4. position(q, k) \in DOMAIN heard[q] /\ heard[q][position(q, k)] = k
  BY <1>3 DEF position
<1>5. k \in Params \X Nat
  BY <1>1, <1>2, <1>4, ElementOfSeq
<1> QED
  BY <1>2, <1>4, <1>5

(* Between two entries of one parameter, the order of the positions is     *)
(* that of the numbers of the sends.                                       *)
LEMMA PositionOrder ==
  ASSUME ValueTypes, HeardInOrder, NEW q \in Queues,
         NEW k \in Range(heard[q]), NEW l \in Range(heard[q]), k[1] = l[1]
  PROVE  position(q, k) < position(q, l) <=> k[2] < l[2]
<1>1. PICK i \in 1..Len(heard[q]) : i = position(q, k) /\ heard[q][i] = k
  BY PositionOf
<1>2. PICK j \in 1..Len(heard[q]) : j = position(q, l) /\ heard[q][j] = l
  BY PositionOf
<1>3. k[2] \in Nat /\ l[2] \in Nat
  BY PositionOf
<1>4. Len(heard[q]) \in Nat
  BY LenProperties DEF ValueTypes
<1>5. i \in Nat /\ j \in Nat
  BY <1>4
<1>6. i < j => k[2] < l[2]
  BY <1>1, <1>2 DEF HeardInOrder
<1>7. j < i => l[2] < k[2]
  BY <1>1, <1>2 DEF HeardInOrder
<1>8. i = j => k[2] = l[2]
  BY <1>1, <1>2
<1> QED
  BY <1>1, <1>2, <1>3, <1>5, <1>6, <1>7, <1>8

(* Queues that hear in the order of the sends agree.                       *)
LEMMA AgreeFromOrder == ValueInv => ListenersAgree
<1> SUFFICES ASSUME ValueInv, NEW q \in Queues, NEW r \in Queues,
                    NEW k \in Range(heard[q]) \cap Range(heard[r]),
                    NEW l \in Range(heard[q]) \cap Range(heard[r]),
                    k[1] = l[1], position(q, k) < position(q, l)
             PROVE  position(r, k) < position(r, l)
  BY DEF ListenersAgree
<1>1. ValueTypes /\ HeardInOrder
  BY DEF ValueInv
<1>2. k[2] < l[2]
  BY <1>1, PositionOrder
<1> QED
  BY <1>1, <1>2, PositionOrder

(* Without a send of the first parameter no push to the second is under    *)
(* way or owed.                                                            *)
LEMMA FollowsFromLinks == ValueInv => LinkedFollows
<1> SUFFICES ASSUME ValueInv, NEW l \in Links, alive[l[1]], l[2] \notin Direct,
                    \A k \in Links : k[2] = l[2] => k = l,
                    \A t \in Threads : \A i \in DOMAIN stack[t] :
                      stack[t][i].p = l[1] => stack[t][i].at # "notify"
             PROVE  m_value[l[2]] = notified[l[1]] /\ (l[2] \notin Muted => sent[l[2]] = m_value[l[2]])
  BY DEF LinkedFollows
<1>1. onlyLink(l)
  BY DEF onlyLink
<1>2. follows(l[1], l[2])
  BY <1>1 DEF ValueInv, LinksFollow
<1>3. \A t \in Threads : DOMAIN stack[t] = 1..Len(stack[t])
  BY LenProperties DEF ValueInv, ValueTypes
<1>4. ~owed(l[1], l[2])
  BY <1>3 DEF owed
<1>5. ~pushing(l[2])
  <2> SUFFICES ASSUME NEW t \in Threads, NEW i \in 1..Len(stack[t]), stack[t][i].p = l[2]
               PROVE  FALSE
    BY DEF pushing
  <2>1. /\ i - 1 \in 1..Len(stack[t])
        /\ stack[t][i - 1].at = "notify" /\ stack[t][i - 1].p = l[1]
    BY <1>1, Pusher
  <2> QED
    BY <1>3, <2>1
<1> QED
  BY <1>2, <1>4, <1>5 DEF follows

(* The invariant counts one callback for each registration.                *)
LEMMA MatchFromCalls == ValueInv => RegistrationsMatch
<1> SUFFICES ASSUME ValueInv PROVE RegistrationsMatch
  OBVIOUS
<1>0. ValueTypes /\ CallbacksKnown /\ RegistrationsCalled /\ TodoKnown
  BY DEF ValueInv
<1>1. ASSUME NEW q \in Queues, NEW p \in Params
      PROVE  p \in DOMAIN m_reg[q] <=>
               Cardinality({i \in DOMAIN m_callbacks[p] : m_callbacks[p][i] = q}) = 1
  <2>1. PICK places : places = {i \in DOMAIN m_callbacks[p] : m_callbacks[p][i] = q}
    OBVIOUS
  <2>2. DOMAIN m_callbacks[p] = 1..Len(m_callbacks[p])
    BY <1>0, LenProperties DEF ValueTypes
  <2>3. callbacksKnown(p)
    BY <1>0 DEF CallbacksKnown
  <2>4. CASE p \in DOMAIN m_reg[q]
    <3>1. PICK i \in 1..Len(m_callbacks[p]) : m_callbacks[p][i] = q
      BY <1>0, <2>4 DEF RegistrationsCalled
    <3>2. places = {i}
      BY <2>1, <2>2, <2>3, <3>1 DEF callbacksKnown
    <3> QED
      BY <2>1, <2>4, <3>2, FS_Singleton
  <2>5. CASE p \notin DOMAIN m_reg[q]
    <3>1. \A i \in 1..Len(m_callbacks[p]) : m_callbacks[p][i] # q
      BY <2>3, <2>5, NamesAssumption DEF callbacksKnown
    <3>2. places = {}
      BY <2>1, <2>2, <3>1
    <3>3. Cardinality(places) = 0
      BY <3>2, FS_EmptySet
    <3> QED
      BY <2>1, <2>5, <3>3
  <2> QED
    BY <2>4, <2>5
<1>2. ASSUME NEW q \in Queues, NEW p \in Params, p \in DOMAIN m_reg[q]
      PROVE  alive[p] /\ life[q] # "gone"
  BY <1>0, <1>2 DEF RegistrationsCalled
<1>3. ASSUME NEW t \in Threads, NEW i \in DOMAIN stack[t], NEW q \in Queues,
             q \in Range(stack[t][i].todo)
      PROVE  life[q] # "gone"
  <2>1. i \in 1..Len(stack[t])
    BY <1>0, LenProperties DEF ValueTypes
  <2>2. stack[t][i] \in Frames /\ stack[t][i].p \in Params
    BY <1>0, <2>1, FrameTyped
  <2>3. stack[t][i].todo \in Seq(Params \cup Queues)
    BY <2>2 DEF Frames
  <2>4. PICK j \in 1..Len(stack[t][i].todo) : stack[t][i].todo[j] = q
    BY <1>3, <2>3, LenProperties DEF Range
  <2>5. todoKnown(stack[t][i])
    BY <1>0, <2>1 DEF TodoKnown
  <2>6. PICK k \in 1..Len(m_callbacks[stack[t][i].p]) : m_callbacks[stack[t][i].p][k] = q
    BY <2>4, <2>5 DEF todoKnown
  <2>7. callbacksKnown(stack[t][i].p)
    BY <1>0, <2>2 DEF CallbacksKnown
  <2>8. stack[t][i].p \in DOMAIN m_reg[q]
    BY <2>6, <2>7, NamesAssumption DEF callbacksKnown
  <2> QED
    BY <1>0, <2>8 DEF RegistrationsCalled
<1> QED
  BY <1>1, <1>2, <1>3 DEF RegistrationsMatch

(* The inductive invariant of the values, calls and registrations holds    *)
(* for any parameters, acyclic links, queues and threads, and any number   *)
(* of calls.                                                               *)
THEOREM ValueInvCorrect == Spec => []ValueInv
  BY ValueInit, ValueInvStep, PTL DEF Spec

(* The queues registered on a parameter hear of its sends in the same      *)
(* order, however many threads set it: m_mutx is held from the first       *)
(* callback of a send to the last.                                         *)
THEOREM ListenersAgreeCorrect == Spec => []ListenersAgree
  BY ValueInvCorrect, AgreeFromOrder, PTL

(* A parameter that only one link pushes to has the value last notified by *)
(* the other one, and the protocol sent it unless it is muted, whenever no *)
(* send of that one is under way, for any acyclic links, any repetition    *)
(* filters and any muted parameters.                                       *)
THEOREM LinkedFollowsCorrect == Spec => []LinkedFollows
  BY ValueInvCorrect, FollowsFromLinks, PTL

(* Callbacks and registrations match through registrations, removals, the  *)
(* destruction of queues and that of parameters, and no send has a queue   *)
(* left to call that is gone.                                              *)
THEOREM RegistrationsMatchCorrect == Spec => []RegistrationsMatch
  BY ValueInvCorrect, MatchFromCalls, PTL
=============================================================================
