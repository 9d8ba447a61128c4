----------------------------- MODULE MirrorSync -----------------------------
(***************************************************************************)
(* How the tree of an oscquery mirror follows the tree of its server.      *)
(*                                                                         *)
(* The server sends one websocket event for each edit (PATH_ADDED and so   *)
(* on); the mirror's websocket thread puts them in m_functionQueue, and    *)
(* run_commands applies them in the thread of the application.  update     *)
(* asks for a whole namespace over HTTP; the answer is applied at once, by *)
(* the thread of the HTTP client.                                          *)
(*                                                                         *)
(* A node is its path, a sequence of names; the root <<>> is always there. *)
(* Each event in flight carries, as history, what it tells: the server's   *)
(* tree after it.                                                          *)
(***************************************************************************)
EXTENDS SanitizeName, Sequences

CONSTANTS
    Wanted,      \* names that the server's application asks for
    Start,       \* the server's tree when the mirror connects
    MaxDepth,    \* bound on the depth of the tree
    MaxInstance, \* bound on the instance numbers
    MaxEvents,   \* bound on the events, after which no edit begins
    MaxUpdates,  \* bound on the calls of update and update_async
    MaxCalls,    \* bound on the events and these calls together
    ReuseNames   \* whether a node is renamed to the name of a removed one

ASSUME WantedNamesAssumption ==
    /\ MaxInstance \in 0..(IntMax - 1)
    /\ Wanted \subseteq {w \in Names : w.num <= MaxInstance}
ASSUME StartAssumption ==
    \A p \in Start :
        /\ p \in Seq({w \in Names : w.num <= MaxInstance}) \ {<<>>}
        /\ \A k \in 1..(Len(p) - 1) : SubSeq(p, 1, k) \in Start
ASSUME SyncBoundsAssumption ==
    {MaxDepth, MaxEvents, MaxUpdates, MaxCalls} \subseteq Nat
ASSUME ReuseNamesAssumption == ReuseNames \in BOOLEAN

VARIABLES
    tree,                \* the server's nodes
    params,              \* the server's nodes that have a parameter
    removing,            \* nodes taken out of the tree, removal not told yet
    top,                 \* the node that remove_child was called with
    due,                 \* the event of an edit that is made and not signalled
    told,                \* history: what the events sent so far tell
    sent,                \* history: number of events sent
    m_functionQueue,     \* events sent and not applied yet
    base,                \* history: what the events applied so far tell
    live,                \* the mirror's nodes that are not zombies
    zombies,             \* the mirror's nodes that are
    m_parameters,        \* the mirror's nodes that have a parameter
    m_zombie_on_remove,
    requests,            \* the namespace request of each call of update_async,
                         \* on a connection of its own, and its answer
    updates,             \* number of calls of update_async
    waiting,             \* update waits for its future
    m_namespacePromise,
    synced               \* history: every answer was applied in its place

server == <<tree, params, removing, top, due>>
mirror == <<live, zombies, m_parameters>>
calls  == <<updates, waiting>>
vars == <<server, told, sent, m_functionQueue, base, mirror,
          m_zombie_on_remove, requests, calls, m_namespacePromise, synced>>

(***************************************************************************)
(* Paths.                                                                  *)
(***************************************************************************)
parent(p) == SubSeq(p, 1, Len(p) - 1)
name(p)   == p[Len(p)]

(* q is p, or below p.                                                     *)
within(q, p) == Len(p) <= Len(q) /\ \A i \in 1..Len(p) : q[i] = p[i]

subtree(p, S)  == {q \in S : within(q, p)}
children(p, S) == {q \in S : parent(q) = p}
brethren(p, S) == {name(q) : q \in children(parent(p), S) \ {p}}

(* on_address_change: the paths of a renamed node and of those below it.   *)
renamed(q, old, new) ==
    IF within(q, old) THEN [q EXCEPT ![Len(old)] = name(new)] ELSE q
renamed_all(S, old, new) == {renamed(q, old, new) : q \in S}

(***************************************************************************)
(* The messages of json_writer.  PATH_ADDED and PATH_REMOVED carry a path  *)
(* and no contents; an attribute event carries a type if the node has a    *)
(* parameter.                                                              *)
(***************************************************************************)
path_added(p)           == [type |-> "PATH_ADDED", path |-> p]
path_removed(p)         == [type |-> "PATH_REMOVED", path |-> p]
path_renamed(old, new)  == [type |-> "PATH_RENAMED", path |-> old, new |-> new]
attributes_changed(p, typed) ==
    [type |-> "ATTRIBUTES_CHANGED", path |-> p, typed |-> typed]

(* What a client knows that has read an event: the nodes, those with a     *)
(* parameter, and the paths that were removed and not added again.         *)
effect(s, e) ==
    CASE e.type = "PATH_ADDED" ->
           [nodes |-> s.nodes \cup {e.path}, params |-> s.params,
            gone |-> s.gone \ {e.path}]
      [] e.type = "PATH_REMOVED" ->
           [nodes |-> s.nodes \ {e.path}, params |-> s.params \ {e.path},
            gone |-> s.gone \cup {e.path}]
      [] e.type = "PATH_RENAMED" ->
           [nodes  |-> renamed_all(s.nodes, e.path, e.new),
            params |-> renamed_all(s.params, e.path, e.new),
            gone   |-> renamed_all(s.gone, e.path, e.new)]
      [] e.type = "ATTRIBUTES_CHANGED" ->
           [nodes |-> s.nodes, gone |-> s.gone,
            params |-> IF e.typed THEN s.params \cup {e.path}
                       ELSE s.params \ {e.path}]

(***************************************************************************)
(* The server's application thread.  An edit changes the tree, and then,   *)
(* when it holds no lock any more, emits a signal, for which               *)
(* oscquery_server_protocol sends one event to the client.  In between,    *)
(* the server's websocket thread may answer a request.                     *)
(***************************************************************************)
NoEvent == [type |-> "NONE"]

(* Mutant: an event goes before those that wait.                           *)
on_WSMessage_first(e) ==
    m_functionQueue' = <<[event |-> e, after |-> effect(told, e)]>> \o m_functionQueue

(* The mirror's websocket thread moves each event from the connection to   *)
(* m_functionQueue.  Both keep the order, and nothing else looks at them:  *)
(* they are one queue.                                                     *)
on_WSMessage(e) ==
    m_functionQueue' = Append(m_functionQueue, [event |-> e, after |-> effect(told, e)])

send_message(e) ==
    /\ on_WSMessage(e)
    /\ told' = effect(told, e)
    /\ sent' = sent + 1
    /\ UNCHANGED <<base, mirror, m_zombie_on_remove, requests, calls,
                   m_namespacePromise, synced>>

(* The events, the one that is due included, and the calls of update.      *)
spent == sent + updates + (IF due = NoEvent THEN 0 ELSE 1)

(* An edit begins when the one before has ended.                           *)
idle == removing = {} /\ params \subseteq tree /\ due = NoEvent
may_edit == idle /\ sent < MaxEvents /\ spent < MaxCalls

(* The edit is made, and its signal is the next that this thread does.     *)
edited(e) ==
    /\ due' = e
    /\ UNCHANGED <<told, sent, m_functionQueue, base, mirror,
                   m_zombie_on_remove, requests, calls, m_namespacePromise,
                   synced>>

(* on_nodeCreated, on_parameterChanged and on_nodeRenamed.                 *)
signal ==
    /\ due # NoEvent
    /\ send_message(due)
    /\ due' = NoEvent
    /\ UNCHANGED <<tree, params, removing, top>>

(* The name is made and the node inserted under one lock.                  *)
create_child(p, want) ==
    /\ may_edit
    /\ p \in tree \cup {<<>>}
    /\ Len(p) < MaxDepth
    /\ LET n == sanitize_name(want, {name(q) : q \in children(p, tree)})
       IN  /\ n.num <= MaxInstance
           /\ tree' = tree \cup {Append(p, n)}
           /\ edited(path_added(Append(p, n)))
    /\ UNCHANGED <<params, removing, top>>

(* The parameter is made with its type.  set_value_type and the signal     *)
(* both lead to on_attributeChanged: the event is sent once more than here,*)
(* which changes nothing at the mirror.                                    *)
create_parameter(p) ==
    /\ may_edit
    /\ p \in tree \ params
    /\ params' = params \cup {p}
    /\ edited(attributes_changed(p, TRUE))
    /\ UNCHANGED <<tree, removing, top>>

(* The new name is given and the addresses below are made again.           *)
set_name(p, want) ==
    /\ may_edit
    /\ p \in tree
    /\ LET n   == sanitize_name(want, brethren(p, tree))
           new == Append(parent(p), n)
       IN  /\ n.num <= MaxInstance
           /\ ReuseNames \/ ~m_zombie_on_remove \/ new \notin told.gone
           /\ tree' = renamed_all(tree, p, new)
           /\ params' = renamed_all(params, p, new)
           /\ edited(path_renamed(p, new))
    /\ UNCHANGED <<removing, top>>

(* Mutant: the children of a removed node are forgotten silently.          *)
remove_child_alone(p) ==
    /\ may_edit
    /\ p \in tree
    /\ tree' = tree \ subtree(p, tree)
    /\ params' = params \ subtree(p, tree)
    /\ removing' = {p}
    /\ top' = p
    /\ UNCHANGED <<due, told, sent, m_functionQueue, base, mirror,
                   m_zombie_on_remove, requests, calls, m_namespacePromise,
                   synced>>

(* The subtree leaves the tree at once; its nodes are removed one by one,  *)
(* children first.                                                         *)
remove_child(p) ==
    /\ may_edit
    /\ p \in tree
    /\ tree' = tree \ subtree(p, tree)
    /\ removing' = subtree(p, tree)
    /\ top' = p
    /\ UNCHANGED <<params, due, told, sent, m_functionQueue, base, mirror,
                   m_zombie_on_remove, requests, calls, m_namespacePromise,
                   synced>>

(* clear_children removes the parameter of a node, then the node;          *)
(* remove_child removes the node, and its destructor the parameter.        *)
remove_parameter(p) ==
    /\ \/ may_edit
       \/ due = NoEvent /\ p \notin tree /\ (p = top => p \notin removing)
    /\ p \in params
    /\ subtree(p, removing) \subseteq {p}
    /\ params' = params \ {p}
    /\ top' = IF p = top THEN <<>> ELSE top
    /\ edited(attributes_changed(p, FALSE))
    /\ UNCHANGED <<tree, removing>>

(* on_nodeRemoved, for a node that has left the tree.                      *)
removing_child(p) ==
    /\ due = NoEvent
    /\ p \in removing
    /\ subtree(p, removing) = {p}
    /\ p \notin params \/ p = top
    /\ removing' = removing \ {p}
    /\ top' = IF p = top /\ p \notin params THEN <<>> ELSE top
    /\ send_message(path_removed(p))
    /\ UNCHANGED <<tree, params, due>>

(***************************************************************************)
(* The thread of the mirror's application.                                 *)
(***************************************************************************)

nodes == live \cup zombies

(* create_node: the node, and what is missing above it.                    *)
create_node(p) == {SubSeq(p, 1, k) : k \in 1..Len(p)} \ nodes

(* Mutant: a zombie that comes back stays a zombie.                        *)
parse_path_added_zombie(p) ==
    /\ live' = IF p \in nodes THEN live ELSE live \cup create_node(p)
    /\ UNCHANGED <<zombies, m_parameters>>

(* A node that exists is no zombie any more; the event has no contents, so *)
(* that reloadObject takes its children for removed ones.                  *)
parse_path_added(p) ==
    /\ IF p \in nodes
       THEN /\ live' = (live \cup {p}) \ children(p, nodes)
            /\ zombies' = (zombies \ {p}) \cup children(p, nodes)
       ELSE /\ live' = live \cup create_node(p)
            /\ zombies' = zombies
    /\ UNCHANGED m_parameters

parse_path_removed(p) ==
    IF m_zombie_on_remove
    THEN /\ live' = live \ {p}
         /\ zombies' = zombies \cup ({p} \cap nodes)
         /\ UNCHANGED m_parameters
    ELSE /\ live' = live \ subtree(p, live)
         /\ zombies' = zombies \ subtree(p, zombies)
         /\ m_parameters' = m_parameters \ subtree(p, m_parameters)

(* set_name with the last part of the new path: it is sanitised among the  *)
(* mirror's own nodes, zombies included.                                   *)
parse_path_renamed(old, new) ==
    IF old \in nodes
    THEN LET n == sanitize_name(name(new), brethren(old, nodes))
             p == Append(parent(old), n)
         IN  /\ live' = renamed_all(live, old, p)
             /\ zombies' = renamed_all(zombies, old, p)
             /\ m_parameters' = renamed_all(m_parameters, old, p)
    ELSE UNCHANGED mirror

(* Mutant: the parameter is looked up and not created.                     *)
parse_attributes_changed_lookup(p, typed) == UNCHANGED mirror

(* create_or_update_parameter_type: without a type nothing is changed.     *)
parse_attributes_changed(p, typed) ==
    /\ m_parameters' =
         IF typed THEN m_parameters \cup ({p} \cap nodes) ELSE m_parameters
    /\ UNCHANGED <<live, zombies>>

parse(e) ==
    CASE e.type = "PATH_ADDED"         -> parse_path_added(e.path)
      [] e.type = "PATH_REMOVED"       -> parse_path_removed(e.path)
      [] e.type = "PATH_RENAMED"       -> parse_path_renamed(e.path, e.new)
      [] e.type = "ATTRIBUTES_CHANGED" -> parse_attributes_changed(e.path, e.typed)

(* One command of the loop of run_commands.                                *)
run_commands ==
    /\ ~waiting
    /\ m_functionQueue # <<>>
    /\ parse(Head(m_functionQueue).event)
    /\ base' = Head(m_functionQueue).after
    /\ m_functionQueue' = Tail(m_functionQueue)
    /\ UNCHANGED <<server, told, sent, m_zombie_on_remove, requests,
                   calls, m_namespacePromise, synced>>

(***************************************************************************)
(* Updates of the namespace.                                               *)
(***************************************************************************)
NoAnswer   == [at |-> -1]
request(p) == [open |-> TRUE, path |-> p, answer |-> NoAnswer]
NoRequest  == [open |-> FALSE, path |-> <<>>, answer |-> NoAnswer]
in_flight  == {k \in DOMAIN requests : requests[k].open}

http_send_message(p) == requests' = [requests EXCEPT ![updates + 1] = request(p)]

(* Mutant: the promise of an earlier update is used again.                 *)
update_async_same_promise(p, wait) ==
    /\ ~waiting
    /\ p \in nodes \cup {<<>>}
    /\ updates < MaxUpdates
    /\ spent < MaxCalls
    /\ updates' = updates + 1
    /\ waiting' = wait
    /\ http_send_message(p)
    /\ m_namespacePromise' =
         [m_namespacePromise EXCEPT !.since = sent, !.alone = (in_flight = {})]
    /\ UNCHANGED <<server, told, sent, m_functionQueue, base, mirror,
                   m_zombie_on_remove, synced>>

(* A new promise takes the place of the old one, and the request is sent;  *)
(* update waits for the future.  History: the number of events sent when   *)
(* the call is made, and whether no other request is in flight.            *)
update_async(p, wait) ==
    /\ ~waiting
    /\ p \in nodes \cup {<<>>}
    /\ updates < MaxUpdates
    /\ spent < MaxCalls
    /\ updates' = updates + 1
    /\ waiting' = wait
    /\ http_send_message(p)
    /\ m_namespacePromise' =
         [kept |-> FALSE, at |-> 0, since |-> IF wait THEN sent ELSE 0,
          alone |-> in_flight = {}]
    /\ UNCHANGED <<server, told, sent, m_functionQueue, base, mirror,
                   m_zombie_on_remove, synced>>

(* update returns true, or gives up after three seconds.                   *)
update_returns ==
    /\ waiting
    /\ waiting' = FALSE
    /\ UNCHANGED <<server, told, sent, m_functionQueue, base, mirror,
                   m_zombie_on_remove, requests, updates, m_namespacePromise,
                   synced>>

(* The server's websocket thread, which also serves HTTP, writes what is   *)
(* below the path.                                                         *)
query_namespace(k) ==
    /\ requests[k].answer = NoAnswer
    /\ requests[k].path \in tree \cup {<<>>}
    /\ LET p == requests[k].path
       IN  requests' = [requests EXCEPT ![k] =
                          [open |-> TRUE, path |-> p, answer |->
                            [at |-> sent, quiet |-> idle,
                             nodes |-> subtree(p, tree),
                             params |-> subtree(p, params \cap tree)]]]
    /\ UNCHANGED <<server, told, sent, m_functionQueue, base, mirror,
                   m_zombie_on_remove, calls, m_namespacePromise, synced>>

(* The server has no such node (404), or the connection fails: nobody is   *)
(* told.                                                                   *)
http_fail(k) ==
    /\ requests[k].answer = NoAnswer
    /\ requests' = [requests EXCEPT ![k] = NoRequest]
    /\ UNCHANGED <<server, told, sent, m_functionQueue, base, mirror,
                   m_zombie_on_remove, calls, m_namespacePromise, synced>>

(* Events that were applied when all those sent before the answer were, and*)
(* none sent after it.                                                     *)
in_place(answer) ==
    answer.quiet /\ answer.at = sent - Len(m_functionQueue)

(* Mutant: what is below the node is not cleared first.                    *)
parse_namespace_merge(p, answer) ==
    /\ live' = live \cup (answer.nodes \ {p})
    /\ zombies' = zombies \ subtree(p, zombies)
    /\ m_parameters' = (m_parameters \ subtree(p, m_parameters)) \cup answer.params

(* clear_children and remove_parameter, then readObject.                   *)
parse_namespace(p, answer) ==
    /\ live' = (live \ (subtree(p, live) \ {p})) \cup (answer.nodes \ {p})
    /\ zombies' = zombies \ (subtree(p, zombies) \ {p})
    /\ m_parameters' = (m_parameters \ subtree(p, m_parameters)) \cup answer.params

(* on_WSMessage for a namespace, in the thread of the HTTP client.  If the *)
(* node is not there any more, parse_namespace throws.  A promise that was *)
(* kept already throws too, when the tree has been read.                   *)
on_namespace(k) ==
    LET p      == requests[k].path
        answer == requests[k].answer
    IN  /\ answer # NoAnswer
        /\ requests' = [requests EXCEPT ![k] = NoRequest]
        /\ IF p \in nodes \cup {<<>>}
           THEN /\ parse_namespace(p, answer)
                /\ synced' = (in_place(answer) /\ (synced \/ p = <<>>))
                /\ m_namespacePromise' =
                     IF m_namespacePromise.kept THEN m_namespacePromise
                     ELSE [m_namespacePromise EXCEPT !.kept = TRUE,
                                                     !.at = answer.at]
           ELSE UNCHANGED <<mirror, synced, m_namespacePromise>>
        /\ UNCHANGED <<server, told, sent, m_functionQueue, base,
                       m_zombie_on_remove, calls>>

(* The mirror has an empty tree, or has read the server's namespace.       *)
Init ==
    /\ tree = Start
    /\ params = {}
    /\ removing = {}
    /\ top = <<>>
    /\ due = NoEvent
    /\ told = [nodes |-> tree, params |-> {}, gone |-> {}]
    /\ base = told
    /\ sent = 0
    /\ m_functionQueue = <<>>
    /\ live \in {{}, Start}
    /\ zombies = {}
    /\ m_parameters = {}
    /\ m_zombie_on_remove \in BOOLEAN
    /\ requests = [k \in 1..MaxUpdates |-> NoRequest]
    /\ updates = 0
    /\ waiting = FALSE
    /\ m_namespacePromise = [kept |-> FALSE, at |-> 0, since |-> 0, alone |-> TRUE]
    /\ synced = (live = tree)

Next ==
    \/ \E p \in tree \cup {<<>>}, want \in Wanted : create_child(p, want)
    \/ \E p \in tree :
         \/ \E want \in Wanted : set_name(p, want)
         \/ create_parameter(p)
         \/ remove_child(p)
    \/ \E p \in params : remove_parameter(p)
    \/ \E p \in removing : removing_child(p)
    \/ signal
    \/ run_commands
    \/ \E p \in nodes \cup {<<>>}, wait \in BOOLEAN : update_async(p, wait)
    \/ update_returns
    \/ \E k \in in_flight :
         query_namespace(k) \/ http_fail(k) \/ on_namespace(k)

(* An edit goes on to its end, the connection delivers, the application    *)
(* runs the commands regularly, and the wait of update has an end.         *)
Fairness ==
    /\ WF_vars(signal)
    /\ WF_vars(\E p \in params : ~idle /\ remove_parameter(p))
    /\ WF_vars(\E p \in removing : removing_child(p))
    /\ WF_vars(run_commands)
    /\ WF_vars(update_returns)

Spec == Init /\ [][Next]_vars /\ Fairness

-----------------------------------------------------------------------------
(* The paths that the server makes.                                        *)
Paths == Seq({w \in Names : w.num <= MaxInstance}) \ {<<>>}

Known == {s \in [nodes : SUBSET Paths, params : SUBSET Paths, gone : SUBSET Paths] :
            s.params \subseteq s.nodes}

(* Paths are paths of names, what the events tell of is a tree with        *)
(* parameters, and no node of the mirror is both live and a zombie.        *)
TypeOK ==
    /\ tree \cup params \cup removing \subseteq Paths
    /\ due # NoEvent => due.path \in Paths
    /\ told \in Known /\ base \in Known
    /\ live \cap zombies = {}
    /\ m_parameters \subseteq nodes
    /\ <<>> \notin nodes
    /\ sent \in Nat
    /\ updates \in 0..MaxUpdates
    /\ {waiting, synced, m_zombie_on_remove} \subseteq BOOLEAN

(* What the events tell when the signal of the last edit has been emitted. *)
signalled == IF due = NoEvent THEN told ELSE effect(told, due)

(* The events tell everything: a client that follows them, the one that is *)
(* still to be signalled included, knows the nodes and the parameters of   *)
(* the server, whatever the edits and the order in which a removal takes a *)
(* subtree down (on_nodeCreated, on_nodeRemoved, on_nodeRenamed,           *)
(* on_parameterChanged).                                                   *)
EventsTellAll ==
    /\ signalled.nodes = tree \cup removing
    /\ signalled.params \cap tree = params \cap tree

(* run_commands applies the events to a tree that other threads change     *)
(* under it.  As long as each namespace answer was applied in its place    *)
(* among the events, the mirror is at every moment the server as it was    *)
(* after the last event applied, and its zombies are nodes that the server *)
(* has removed and not made again.                                         *)
MirrorIsPast ==
    synced => live = base.nodes /\ zombies \subseteq base.gone

(* A parameter of the server is a parameter of the mirror, though the type *)
(* comes in an event of its own after the node.                            *)
ParametersArrive ==
    synced => base.params \subseteq m_parameters

(* run_commands: "Run this function regularly in order to get the update   *)
(* of the device".  When the server is at rest and every event has been    *)
(* applied, the mirror has the server's nodes.                             *)
UpToDate ==
    synced /\ idle /\ m_functionQueue = <<>> => live = tree

(* update makes a new promise each time, which any answer keeps: when it   *)
(* returns true and no other request was in flight, the answer it got was  *)
(* written after the call.                                                 *)
UpdateIsRecent ==
    waiting /\ m_namespacePromise.kept /\ m_namespacePromise.alone =>
        m_namespacePromise.at >= m_namespacePromise.since

(* Once the edits stop, the mirror becomes equal to the server, though     *)
(* update blocks the thread that applies the events.                       *)
Converges ==
    <>[](synced => live = tree /\ params \subseteq m_parameters)
=============================================================================
