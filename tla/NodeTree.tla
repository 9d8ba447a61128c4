------------------------------ MODULE NodeTree ------------------------------
(***************************************************************************)
(* The node tree of a device, the parameters it carries, and the table of  *)
(* listened parameters of its protocol: generic_node, generic_parameter's  *)
(* callbacks, m_listening and handle_osc_message.                          *)
(*                                                                         *)
(* One thread makes the edits, as the library asks; a message from the     *)
(* network is handled between two edits.  An identity in Nodes is never    *)
(* reused, so that a pointer to a destroyed node or parameter is visible.  *)
(***************************************************************************)
EXTENDS SanitizeName, Sequences

CONSTANTS
    Nodes,          \* identities of the nodes other than the root
    Wanted,         \* names that callers ask for
    Root, Unborn, Dead,
    MaxParameters,  \* bound on the parameters made for one node
    MaxCallbacks,   \* bound on the callbacks of one parameter
    MaxInstance,    \* bound on the instance numbers
    Protocol,       \* "oscquery" (server or mirror) or "osc"
    RenameInner     \* whether nodes above listened parameters are renamed

ASSUME ProtocolAssumption == Protocol \in {"oscquery", "osc"}
ASSUME RenameInnerAssumption == RenameInner \in BOOLEAN
ASSUME DistinctAssumption ==
    /\ Root \notin Nodes /\ Unborn \notin Nodes /\ Dead \notin Nodes
    /\ Root # Unborn /\ Root # Dead /\ Unborn # Dead
ASSUME BoundsAssumption ==
    MaxParameters \in Nat /\ MaxCallbacks \in Nat /\ MaxInstance \in 0..(IntMax - 1)
ASSUME WantedAssumption ==
    /\ Wanted # {}
    /\ Wanted \subseteq {w \in Names : w.num <= MaxInstance}

VARIABLES
    m_parent,           \* the parent of a node, or Unborn, or Dead
    m_name,
    m_oscAddressCache,  \* address of a node, cached as a sequence of names
    m_parameter,        \* which of its parameters a node has; 0 for none
    made,               \* number of parameters made for a node so far
    callbacks,          \* number of callbacks of a node's parameter
    m_listening,        \* the protocol's map from addresses to parameters
    delivered           \* the parameters the last message was given to

vars == <<m_parent, m_name, m_oscAddressCache, m_parameter, made, callbacks,
          m_listening, delivered>>

alive        == {n \in Nodes : m_parent[n] \notin {Unborn, Dead}}
children(p)  == {n \in Nodes : m_parent[n] = p}
child_names(kids) == {m_name[n] : n \in kids}
parameter(n) == <<n, m_parameter[n]>>
listened(n)  == n \in alive /\ m_parameter[n] # 0 /\ callbacks[n] > 0
NoMessage    == [to |-> <<>>, pattern |-> FALSE, loud |-> {}, quiet |-> {}]

(* osc_parameter_string: the names from the root down to each node.        *)
osc_parameter_string(name) ==
    LET path[n \in alive] ==
          IF m_parent[n] = Root THEN <<name[n]>>
          ELSE Append(path[m_parent[n]], name[n])
    IN  path

address(n) == IF n = Root THEN <<>> ELSE m_oscAddressCache[n]

(* The nodes below a node, and the node itself.                            *)
subtree(n) ==
    LET up[m \in alive] ==
          IF m_parent[m] = Root THEN {m} ELSE {m} \cup up[m_parent[m]]
    IN  {m \in alive : n \in up[m]}

(***************************************************************************)
(* locked_map.  insert() keeps an entry that is already there.             *)
(***************************************************************************)
insert(table, k, v) ==
    IF k \in DOMAIN table THEN table
    ELSE [a \in DOMAIN table \cup {k} |-> IF a = k THEN v ELSE table[a]]

erase(table, ks) == [a \in DOMAIN table \ ks |-> table[a]]

rename(table, old, new) ==
    IF old \in DOMAIN table THEN insert(erase(table, {old}), new, table[old])
    ELSE table

(***************************************************************************)
(* Edits of the tree.                                                      *)
(***************************************************************************)
link(n, p, name) ==
    /\ m_parent' = [m_parent EXCEPT ![n] = p]
    /\ m_name' = [m_name EXCEPT ![n] = name]
    /\ m_oscAddressCache' =
         [m_oscAddressCache EXCEPT ![n] = Append(address(p), name)]
    /\ delivered' = NoMessage
    /\ UNCHANGED <<m_parameter, made, callbacks, m_listening>>

create_child(p, want) ==
    /\ p \in alive \cup {Root}
    /\ LET name == sanitize_name(want, child_names(children(p)))
       IN  /\ name.num <= MaxInstance
           /\ \E n \in children(Unborn) : link(n, p, name)

add_child(p, want) ==
    /\ p \in alive \cup {Root}
    /\ sanitize_name(want, child_names(children(p))) = want
    /\ \E n \in children(Unborn) : link(n, p, want)

(* Mutant: the table of the protocol is not told.                          *)
on_nodeRenamed_ignored(n, name) == m_listening' = m_listening

(* The old address of the renamed node alone is exchanged in m_listening   *)
(* by oscquery_server_protocol and oscquery_mirror_protocol::on_nodeRenamed;*)
(* osc_protocol is not connected to on_node_renamed.                       *)
on_nodeRenamed(n, name) ==
    LET parent_address == address(m_parent[n])
    IN  m_listening' =
          IF Protocol = "osc" THEN m_listening
          ELSE rename(m_listening, Append(parent_address, m_name[n]),
                      Append(parent_address, name))

(* Mutant: only the address of the renamed node is computed again.         *)
set_name_shallow(n, want) ==
    /\ n \in alive
    /\ RenameInner \/ \A m \in subtree(n) \ {n} : ~listened(m)
    /\ LET name == sanitize_name(want, child_names(children(m_parent[n]) \ {n}))
       IN  /\ name.num <= MaxInstance
           /\ m_name' = [m_name EXCEPT ![n] = name]
           /\ m_oscAddressCache' =
                [m_oscAddressCache EXCEPT
                   ![n] = Append(address(m_parent[n]), name)]
           /\ on_nodeRenamed(n, name)
    /\ delivered' = NoMessage
    /\ UNCHANGED <<m_parent, m_parameter, made, callbacks>>

(* The new name is chosen, the cached addresses below are computed again   *)
(* (on_address_change), and on_node_renamed is emitted.                    *)
set_name(n, want) ==
    /\ n \in alive
    /\ RenameInner \/ \A m \in subtree(n) \ {n} : ~listened(m)
    /\ LET name == sanitize_name(want, child_names(children(m_parent[n]) \ {n}))
       IN  /\ name.num <= MaxInstance
           /\ m_name' = [m_name EXCEPT ![n] = name]
           /\ m_oscAddressCache' =
                [m \in Nodes |->
                   IF m \in subtree(n)
                   THEN osc_parameter_string([m_name EXCEPT ![n] = name])[m]
                   ELSE m_oscAddressCache[m]]
           /\ on_nodeRenamed(n, name)
    /\ delivered' = NoMessage
    /\ UNCHANGED <<m_parent, m_parameter, made, callbacks>>

(* The parameters of a set of nodes go: each one is unobserved under the   *)
(* address that its node has now, its callbacks are cleared.               *)
drop_parameters(ns) ==
    /\ m_parameter' = [n \in Nodes |-> IF n \in ns THEN 0 ELSE m_parameter[n]]
    /\ callbacks' = [n \in Nodes |-> IF n \in ns THEN 0 ELSE callbacks[n]]
    /\ m_listening' =
         erase(m_listening,
               {m_oscAddressCache[n] : n \in {k \in ns : m_parameter[k] # 0}})

remove_nodes(ns) ==
    /\ drop_parameters(ns)
    /\ m_parent' = [n \in Nodes |-> IF n \in ns THEN Dead ELSE m_parent[n]]
    /\ delivered' = NoMessage
    /\ UNCHANGED <<m_name, m_oscAddressCache, made>>

(* Children first, then the node and, with its destructor, its parameter.  *)
remove_child(n) == n \in alive /\ remove_nodes(subtree(n))

clear_children(p) ==
    /\ p \in alive \cup {Root}
    /\ children(p) # {}
    /\ remove_nodes(UNION {subtree(n) : n \in children(p)})

(***************************************************************************)
(* Parameters and their callbacks.                                         *)
(***************************************************************************)
create_parameter(n) ==
    /\ n \in alive
    /\ m_parameter[n] = 0
    /\ made[n] < MaxParameters
    /\ made' = [made EXCEPT ![n] = @ + 1]
    /\ m_parameter' = [m_parameter EXCEPT ![n] = made[n] + 1]
    /\ delivered' = NoMessage
    /\ UNCHANGED <<m_parent, m_name, m_oscAddressCache, callbacks, m_listening>>

(* Mutant: the protocol goes on observing.                                 *)
remove_parameter_observed(n) ==
    /\ n \in alive
    /\ m_parameter[n] # 0
    /\ m_parameter' = [m_parameter EXCEPT ![n] = 0]
    /\ callbacks' = [callbacks EXCEPT ![n] = 0]
    /\ delivered' = NoMessage
    /\ UNCHANGED <<m_parent, m_name, m_oscAddressCache, made, m_listening>>

remove_parameter(n) ==
    /\ n \in alive
    /\ m_parameter[n] # 0
    /\ drop_parameters({n})
    /\ delivered' = NoMessage
    /\ UNCHANGED <<m_parent, m_name, m_oscAddressCache, made>>

(* Mutant: the node is observed without a parameter.                       *)
add_callback_no_parameter(n) ==
    /\ n \in alive
    /\ callbacks[n] < MaxCallbacks
    /\ callbacks' = [callbacks EXCEPT ![n] = @ + 1]
    /\ m_listening' =
         IF callbacks[n] = 0
         THEN insert(m_listening, m_oscAddressCache[n], parameter(n))
         ELSE m_listening
    /\ delivered' = NoMessage
    /\ UNCHANGED <<m_parent, m_name, m_oscAddressCache, m_parameter, made>>

(* The first callback makes the protocol observe the parameter.            *)
add_callback(n) ==
    /\ n \in alive
    /\ m_parameter[n] # 0
    /\ callbacks[n] < MaxCallbacks
    /\ callbacks' = [callbacks EXCEPT ![n] = @ + 1]
    /\ m_listening' =
         IF callbacks[n] = 0
         THEN insert(m_listening, m_oscAddressCache[n], parameter(n))
         ELSE m_listening
    /\ delivered' = NoMessage
    /\ UNCHANGED <<m_parent, m_name, m_oscAddressCache, m_parameter, made>>

(* Mutant: observation stops one callback too early.                       *)
remove_callback_early(n) ==
    /\ listened(n)
    /\ callbacks' = [callbacks EXCEPT ![n] = @ - 1]
    /\ m_listening' = erase(m_listening, {m_oscAddressCache[n]})
    /\ delivered' = NoMessage
    /\ UNCHANGED <<m_parent, m_name, m_oscAddressCache, m_parameter, made>>

(* The last one makes it stop.                                             *)
remove_callback(n) ==
    /\ listened(n)
    /\ callbacks' = [callbacks EXCEPT ![n] = @ - 1]
    /\ m_listening' =
         IF callbacks[n] = 1
         THEN erase(m_listening, {m_oscAddressCache[n]})
         ELSE m_listening
    /\ delivered' = NoMessage
    /\ UNCHANGED <<m_parent, m_name, m_oscAddressCache, m_parameter, made>>

(***************************************************************************)
(* handle_osc_message<SilentUpdate>: a parameter is given the value with   *)
(* set_value, which runs its callbacks (loud), or with set_value_quiet.    *)
(***************************************************************************)
SilentUpdate == Protocol = "oscquery"

find_node(to) == {n \in alive : osc_parameter_string(m_name)[n] = to}

with_parameter(ns) == {parameter(n) : n \in {k \in ns : m_parameter[k] # 0}}

(* The address is in the table, or it is the path of a node, or else       *)
(* nothing is updated (on_unhandled_message).                              *)
receive(to) ==
    /\ delivered' =
         IF to \in DOMAIN m_listening
         THEN [to |-> to, pattern |-> FALSE,
               loud |-> {m_listening[to]}, quiet |-> {}]
         ELSE LET found == with_parameter(find_node(to))
              IN  [to |-> to, pattern |-> FALSE,
                   loud |-> IF SilentUpdate THEN {} ELSE found,
                   quiet |-> IF SilentUpdate THEN found ELSE {}]
    /\ UNCHANGED <<m_parent, m_name, m_oscAddressCache, m_parameter, made,
                   callbacks, m_listening>>

(* The address is a pattern that matches the children of a node; the       *)
(* table only decides between loud and quiet.                              *)
receive_pattern(p) ==
    /\ p \in alive \cup {Root}
    /\ LET found == children(p)
           heard == {n \in found : ~SilentUpdate
                                     \/ m_oscAddressCache[n] \in DOMAIN m_listening}
       IN  delivered' = [to |-> address(p), pattern |-> TRUE,
                         loud |-> with_parameter(heard),
                         quiet |-> with_parameter(found \ heard)]
    /\ UNCHANGED <<m_parent, m_name, m_oscAddressCache, m_parameter, made,
                   callbacks, m_listening>>

Init ==
    /\ m_parent = [n \in Nodes |-> Unborn]
    /\ m_name = [n \in Nodes |-> CHOOSE w \in Wanted : TRUE]
    /\ m_oscAddressCache = [n \in Nodes |-> <<>>]
    /\ m_parameter = [n \in Nodes |-> 0]
    /\ made = [n \in Nodes |-> 0]
    /\ callbacks = [n \in Nodes |-> 0]
    /\ m_listening = [a \in {} |-> <<>>]
    /\ delivered = NoMessage

Next ==
    \/ \E p \in Nodes \cup {Root} :
         \/ \E want \in Wanted : create_child(p, want) \/ add_child(p, want)
         \/ clear_children(p)
         \/ receive_pattern(p)
    \/ \E n \in Nodes :
         \/ \E want \in Wanted : set_name(n, want)
         \/ remove_child(n)
         \/ create_parameter(n)
         \/ remove_parameter(n)
         \/ add_callback(n)
         \/ remove_callback(n)
    \/ \E to \in DOMAIN m_listening \cup {m_oscAddressCache[n] : n \in alive} :
         receive(to)

Spec == Init /\ [][Next]_vars

-----------------------------------------------------------------------------
(* Types; the protocol's table holds parameters that a node once had.      *)
TypeOK ==
    /\ m_parent \in [Nodes -> Nodes \cup {Root, Unborn, Dead}]
    /\ \A n \in Nodes : m_name[n] \in Names
    /\ m_parameter \in [Nodes -> 0..MaxParameters]
    /\ made \in [Nodes -> 0..MaxParameters]
    /\ callbacks \in [Nodes -> 0..MaxCallbacks]
    /\ \A a \in DOMAIN m_listening :
         m_listening[a] \in Nodes \X (1..MaxParameters)

(* The address cached in a node is the path of names that leads to it,     *)
(* after any sequence of renamings above it (on_address_change), and no    *)
(* other node has it.                                                      *)
AddressCacheFresh ==
    /\ \A n \in alive : m_oscAddressCache[n] = osc_parameter_string(m_name)[n]
    /\ \A n, m \in alive : m_oscAddressCache[n] = m_oscAddressCache[m] => n = m

(* The table of listened parameters holds exactly the parameters that have *)
(* callbacks, each under its present address: none is missing, and none is *)
(* a pointer to a destroyed parameter.                                     *)
TableIsExact ==
    /\ \A n \in Nodes : listened(n) =>
         /\ m_oscAddressCache[n] \in DOMAIN m_listening
         /\ m_listening[m_oscAddressCache[n]] = parameter(n)
    /\ \A a \in DOMAIN m_listening : \E n \in alive :
         /\ listened(n)
         /\ m_listening[a] = parameter(n)
         /\ a = m_oscAddressCache[n]

addressed(n) ==
    IF delivered.pattern THEN address(m_parent[n]) = delivered.to
    ELSE m_oscAddressCache[n] = delivered.to

(* protocol_base::observe: if a parameter is listened to, a message to its *)
(* address calls set_value on it, which notifies its callbacks.            *)
ListenedIsNotified ==
    \A n \in alive :
        listened(n) /\ addressed(n) => parameter(n) \in delivered.loud

(* A message is given to parameters that exist, and to none but those its  *)
(* address designates.                                                     *)
DeliveredToItsAddress ==
    \A q \in delivered.loud \cup delivered.quiet :
        q[1] \in alive /\ m_parameter[q[1]] = q[2] /\ addressed(q[1])
=============================================================================
