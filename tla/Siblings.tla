------------------------------ MODULE Siblings ------------------------------
(***************************************************************************)
(* The children of one node_base, edited by one or several threads:        *)
(* create_child, add_child, set_name and remove_child.  create_child holds *)
(* the parent's mutex from the choice of the name to the insertion.        *)
(* add_child chooses under a read lock and inserts under a write lock      *)
(* taken afterwards; set_name locks a mutex of the renamed node only.  In  *)
(* both, other threads may run between the choice and the moment when the  *)
(* siblings see the name.                                                  *)
(***************************************************************************)
EXTENDS SanitizeName

CONSTANTS
    Ids,       \* identities of the nodes
    Editors,   \* threads that edit the tree
    Wanted     \* names that callers ask for

ASSUME WantedAssumption == Wanted \subseteq Names

VARIABLES
    m_children,  \* identities of the children
    m_name,      \* name of each node that was made
    pending,     \* per thread, the node whose name is chosen and not seen yet
    crossed,     \* history: <<i, j>> if j's name appeared while i's was pending
    overflow     \* history: an instance number overflowed (undefined in C++)

childrenVars == <<m_children, m_name, pending, crossed, overflow>>

Idle == "idle"
ASSUME IdleAssumption == Idle \notin Ids

names(kids) == {m_name[i] : i \in kids}
unused == Ids \ DOMAIN m_name

(* A node that is being renamed is a child without a name: set_name moves  *)
(* the old name out of it first.                                           *)
named == m_children \ {pending[t] : t \in Editors}

(* What the name of j, which thread t makes visible, came in between of.   *)
crossing(t, j) ==
    crossed \cup {<<pending[u], j>> : u \in {v \in Editors \ {t} : pending[v] # Idle}}

without(i) == {c \in crossed : c[1] # i /\ c[2] # i}

(* The write lock is held from sanitize_name to push_back.                 *)
create_child(t, want) ==
    /\ pending[t] = Idle
    /\ \E i \in unused :
         /\ m_name' = [j \in DOMAIN m_name \cup {i} |->
                         IF j = i THEN sanitize_name(want, names(named))
                         ELSE m_name[j]]
         /\ m_children' = m_children \cup {i}
         /\ crossed' = crossing(t, i)
    /\ overflow' = (overflow \/ overflows(want, names(named)))
    /\ UNCHANGED pending

(* children_names() locks for reading, and unlocks; a name that would be   *)
(* changed is refused, and the node destroyed.                             *)
add_child_check(t, want) ==
    /\ pending[t] = Idle
    /\ sanitize_name(want, names(named)) = want
    /\ \E i \in unused :
         /\ m_name' = [j \in DOMAIN m_name \cup {i} |->
                         IF j = i THEN want ELSE m_name[j]]
         /\ pending' = [pending EXCEPT ![t] = i]
    /\ overflow' = (overflow \/ overflows(want, names(named)))
    /\ UNCHANGED <<m_children, crossed>>

(* push_back, under the write lock.                                        *)
add_child_insert(t) ==
    /\ pending[t] \notin m_children \cup {Idle}
    /\ m_children' = m_children \cup {pending[t]}
    /\ crossed' = crossing(t, pending[t])
    /\ pending' = [pending EXCEPT ![t] = Idle]
    /\ UNCHANGED <<m_name, overflow>>

(* The old name is moved out of the node, so that the node is not among    *)
(* the siblings its new name is compared with.  Two threads do not rename  *)
(* one node at a time: the string itself has no lock.                      *)
set_name_sanitize(t, i, want) ==
    /\ pending[t] = Idle
    /\ i \in named
    /\ m_name' = [m_name EXCEPT ![i] =
                    sanitize_name(want, names(named \ {i}))]
    /\ pending' = [pending EXCEPT ![t] = i]
    /\ crossed' = without(i)
    /\ overflow' = (overflow \/ overflows(want, names(named \ {i})))
    /\ UNCHANGED m_children

(* m_name = name: siblings see the new name.                               *)
set_name_assign(t) ==
    /\ pending[t] \in m_children
    /\ crossed' = crossing(t, pending[t])
    /\ pending' = [pending EXCEPT ![t] = Idle]
    /\ UNCHANGED <<m_children, m_name, overflow>>

(* A child is found by its name.  The identity is freed with the node.     *)
remove_child(t, i) ==
    /\ pending[t] = Idle
    /\ i \in named
    /\ m_children' = m_children \ {i}
    /\ m_name' = [j \in DOMAIN m_name \ {i} |-> m_name[j]]
    /\ crossed' = without(i)
    /\ UNCHANGED <<pending, overflow>>

ChildrenInit ==
    /\ m_children = {}
    /\ m_name = [i \in {} |-> Plain(CHOOSE r \in Roots : TRUE)]
    /\ pending = [t \in Editors |-> Idle]
    /\ crossed = {}
    /\ overflow = FALSE

ChildrenNext ==
    \E t \in Editors :
        \/ \E want \in Wanted : create_child(t, want) \/ add_child_check(t, want)
        \/ add_child_insert(t)
        \/ \E i \in Ids, want \in Wanted : set_name_sanitize(t, i, want)
        \/ set_name_assign(t)
        \/ \E i \in Ids : remove_child(t, i)

ChildrenSpec == ChildrenInit /\ [][ChildrenNext]_childrenVars

-----------------------------------------------------------------------------
(* Types; a pending node is made, and belongs to one thread alone (the     *)
(* unique_ptr of add_child, or the node that set_name renames).            *)
TypeOK ==
    /\ m_children \subseteq DOMAIN m_name
    /\ DOMAIN m_name \subseteq Ids
    /\ \A i \in DOMAIN m_name : m_name[i] \in Names
    /\ DOMAIN pending = Editors
    /\ \A t \in Editors : pending[t] \in DOMAIN m_name \cup {Idle}
    /\ \A t, u \in Editors : pending[t] = pending[u] => t = u \/ pending[t] = Idle
    /\ crossed \subseteq (DOMAIN m_name) \X (DOMAIN m_name)
    /\ overflow \in BOOLEAN

(* Whatever threads create, add, rename and remove, and however their      *)
(* steps interleave: as long as sanitize_name did not add one to the       *)
(* largest int, two children of a node_base share a name only if one of    *)
(* them got it while the other's was chosen and not seen yet by its        *)
(* siblings (the window of add_child, or that of set_name).                *)
NamesUnique ==
    ~overflow => \A i, j \in named :
        m_name[i] = m_name[j] => i = j \/ <<i, j>> \in crossed \/ <<j, i>> \in crossed
=============================================================================
