---------------------------- MODULE QueryServer ----------------------------
(***************************************************************************)
(* The clients of an oscquery server: the vector m_clients, what the       *)
(* server sends to them, and what they ask of it.                          *)
(*                                                                         *)
(* Three threads: the application's (edits, push, run_commands, stop), the *)
(* websocket server's (connections and requests) and the OSC receiver's    *)
(* (on_OSCMessage).  m_clientsMutex is held for a whole walk of the vector *)
(* by the application's thread; the OSC receiver walks without it, and     *)
(* find_client releases it before its result is used.                      *)
(***************************************************************************)
EXTENDS Naturals, Sequences, SequencesExt

CONSTANTS
    Clients,      \* connections; each is opened at most once
    NoClient,     \* also the port 0, which nobody has
    AnyPort,      \* the port of a message that came over the websocket
    MaxMessages   \* bound on the messages to all, requests for edits and OSC
                  \* messages received, together; one received counts as two

ASSUME NoClientAssumption == NoClient \notin Clients
ASSUME AnyPortAssumption == AnyPort \notin Clients \cup {NoClient}
ASSUME MaxMessagesAssumption == MaxMessages \in Nat

VARIABLES
    connection,       \* state of each connection
    m_clients,
    capacity,         \* of the vector
    app,              \* where the application's thread is
    sent,             \* number of messages sent to all
    delivered,        \* history: the messages given to each client that
                      \* is connected, until stop
    joined,           \* history: the value of sent when a client was added
    handler,          \* the request that the websocket thread handles
    m_functionQueue,  \* requests for edits, not run yet
    asked,            \* history: for each request for an edit, the clients
                      \* that were connected when it was made
    echo,             \* the last message of each receiving thread
    echoes            \* number of messages received

clients == <<m_clients, capacity, joined>>
out     == <<sent, delivered>>
queue   == <<m_functionQueue, asked>>
heard   == <<echo, echoes>>
vars == <<connection, clients, app, out, handler, queue, heard>>

Idle   == [at |-> "idle"]
NoRequest == [at |-> "idle", client |-> NoClient, slot |-> 0]
Quiet  == [at |-> "idle", clean |-> FALSE]
locked == app.at = "walk"
below_bound(n) == sent + Len(m_functionQueue) + 2 * echoes + n <= MaxMessages

(***************************************************************************)
(* oscquery_client.  sender is the client that its OSC socket sends to.    *)
(* Both moves forget remote_sender_port: the new object has none, the      *)
(* assigned one keeps its own.  History: told, the client gave its port.   *)
(***************************************************************************)
oscquery_client(c) ==
    [connection |-> c, sender |-> NoClient, remote_sender_port |-> NoClient,
     told |-> FALSE]

move_construct(r) == [r EXCEPT !.remote_sender_port = NoClient]

(* Mutant: the OSC socket is not moved either.                             *)
move_assign_no_sender(old, r) ==
    [r EXCEPT !.sender = old.sender, !.remote_sender_port = old.remote_sender_port]

move_assign(old, r) ==
    [r EXCEPT !.remote_sender_port = old.remote_sender_port]

(* std::vector: a full one doubles and moves what it has; erase moves what *)
(* is behind by one place.                                                 *)
emplace_back(c) ==
    IF Len(m_clients) < capacity
    THEN /\ m_clients' = Append(m_clients, oscquery_client(c))
         /\ UNCHANGED capacity
    ELSE /\ m_clients' = Append([i \in DOMAIN m_clients |-> move_construct(m_clients[i])],
                                oscquery_client(c))
         /\ capacity' = IF capacity = 0 THEN 1 ELSE 2 * capacity

erase(i) ==
    m_clients' = [k \in 1..(Len(m_clients) - 1) |->
                    IF k < i THEN m_clients[k]
                    ELSE move_assign(m_clients[k], m_clients[k + 1])]

find(c) == {i \in DOMAIN m_clients : m_clients[i].connection = c}

(* m_clients changes.  A walk of it without the mutex is not clean any     *)
(* more; one that is done is forgotten, its clients are not those of now.  *)
disturb ==
    echo' = [t \in DOMAIN echo |-> IF echo[t].at = "walk"
                                   THEN [echo[t] EXCEPT !.clean = FALSE] ELSE Quiet]

(***************************************************************************)
(* The thread of the websocket server.  One handler at a time.             *)
(***************************************************************************)
on_connectionOpen(c) ==
    /\ handler = NoRequest
    /\ ~locked
    /\ app.at # "stopped"
    /\ connection[c] = "none"
    /\ connection' = [connection EXCEPT ![c] = "open"]
    /\ emplace_back(c)
    /\ joined' = [joined EXCEPT ![c] = sent]
    /\ disturb
    /\ UNCHANGED <<app, out, handler, queue, echoes>>

(* The peer has gone already and remote_endpoint throws: the connection is *)
(* open for the websocket server, which goes on reading from it, but has   *)
(* no record.                                                              *)
on_connectionOpen_fails(c) ==
    /\ handler = NoRequest
    /\ app.at # "stopped"
    /\ connection[c] = "none"
    /\ connection' = [connection EXCEPT ![c] = "unlisted"]
    /\ UNCHANGED <<clients, app, out, handler, queue, heard>>

(* The client closes the connection, or it breaks.                         *)
connection_lost(c) ==
    /\ handler = NoRequest
    /\ connection[c] = "open"
    /\ connection' = [connection EXCEPT ![c] = "lost"]
    /\ UNCHANGED <<clients, app, out, handler, queue, heard>>

on_connectionClosed(c) ==
    /\ handler = NoRequest
    /\ ~locked
    /\ app.at # "stopped"
    /\ connection[c] \in {"lost", "unlisted"}
    /\ connection' = [connection EXCEPT ![c] = "closed"]
    /\ IF find(c) # {} THEN \E i \in find(c) : erase(i) /\ disturb
       ELSE UNCHANGED <<m_clients, echo>>
    /\ joined' = [joined EXCEPT ![c] = 0]
    /\ delivered' = [delivered EXCEPT ![c] = <<>>]
    /\ UNCHANGED <<capacity, app, sent, handler, queue, echoes>>

(* handle_start_streaming: find_client; without a record it throws.        *)
start_osc_streaming(c) ==
    /\ handler = NoRequest
    /\ ~locked
    /\ app.at # "stopped"
    /\ connection[c] = "open"
    /\ \E i \in find(c) : handler' = [at |-> "found", client |-> c, slot |-> i]
    /\ UNCHANGED <<connection, clients, app, out, queue, heard>>

(* open_osc_sender, through the pointer and without the mutex.  The port   *)
(* of the client's own sender may be missing from the request.             *)
open_osc_sender(port) ==
    /\ handler.at = "found"
    /\ handler' = NoRequest
    /\ IF handler.slot \in DOMAIN m_clients
       THEN m_clients' = [m_clients EXCEPT ![handler.slot] =
              [connection |-> @.connection, sender |-> handler.client,
               remote_sender_port |-> IF port # NoClient THEN port
                                      ELSE @.remote_sender_port,
               told |-> port # NoClient \/ @.told]]
       ELSE UNCHANGED m_clients
    /\ disturb
    /\ UNCHANGED <<connection, capacity, joined, app, out, queue, echoes>>

(* add_node, remove_node, rename_node: an HTTP or websocket request.       *)
request_edit ==
    /\ handler = NoRequest
    /\ app.at # "stopped"
    /\ below_bound(1)
    /\ asked' = Append(asked, {m_clients[i].connection : i \in DOMAIN m_clients})
    /\ m_functionQueue' = Append(m_functionQueue, Len(asked) + 1)
    /\ UNCHANGED <<connection, clients, app, out, handler, heard>>

(***************************************************************************)
(* The thread of the application: a message to all clients.                *)
(***************************************************************************)

(* on_nodeCreated and the like send an event, push a value.  A critical    *)
(* value goes the way of the events.                                       *)
walk(kind, request) ==
    /\ sent' = sent + 1
    /\ app' = [at |-> "walk", i |-> 1, kind |-> kind, request |-> request]
    /\ UNCHANGED <<connection, clients, delivered, handler, heard>>

send(kind) ==
    /\ app = Idle
    /\ below_bound(1)
    /\ walk(kind, 0)
    /\ UNCHANGED queue

(* Mutant: two commands are taken, one is run.                             *)
run_commands_skip ==
    /\ app = Idle
    /\ m_functionQueue # <<>>
    /\ m_functionQueue' = <<>>
    /\ walk("event", Head(m_functionQueue))
    /\ UNCHANGED asked

(* One command.  It emits on_add_node_requested or the like, to which the  *)
(* library itself connects nothing: the application's slot makes the edit  *)
(* that was asked for; a slot that refuses is left out.                    *)
run_commands ==
    /\ app = Idle
    /\ m_functionQueue # <<>>
    /\ m_functionQueue' = Tail(m_functionQueue)
    /\ walk("event", Head(m_functionQueue))
    /\ UNCHANGED asked

message(way) == [n |-> sent, kind |-> app.kind, request |-> app.request, way |-> way]

(* con->send does nothing if the connection is not open any more.          *)
send_to(r) ==
    IF r.sender # NoClient /\ app.kind = "value"
    THEN delivered' = [delivered EXCEPT ![r.sender] = Append(@, message("osc"))]
    ELSE IF connection[r.connection] = "open"
    THEN delivered' = [delivered EXCEPT ![r.connection] = Append(@, message("ws"))]
    ELSE UNCHANGED delivered

(* Mutant: the walk ends at a connection that is being closed.             *)
walk_step_aborts ==
    /\ app.at = "walk"
    /\ IF app.i <= Len(m_clients) /\ connection[m_clients[app.i].connection] = "open"
       THEN send_to(m_clients[app.i]) /\ app' = [app EXCEPT !.i = @ + 1]
       ELSE app' = Idle /\ UNCHANGED delivered
    /\ UNCHANGED <<connection, clients, sent, handler, queue, heard>>

walk_step ==
    /\ app.at = "walk"
    /\ IF app.i <= Len(m_clients)
       THEN send_to(m_clients[app.i]) /\ app' = [app EXCEPT !.i = @ + 1]
       ELSE app' = Idle /\ UNCHANGED delivered
    /\ UNCHANGED <<connection, clients, sent, handler, queue, heard>>

(* stop joins the OSC thread, then closes and erases the first client      *)
(* until there is none, without the mutex.  A connection that is not open  *)
(* makes close throw, which ends the loop.                                 *)
stop ==
    /\ app = Idle
    /\ echo["osc"].at # "walk"
    /\ app' = [at |-> "stop"]
    /\ joined' = [c \in Clients |-> 0]
    /\ delivered' = [c \in Clients |-> <<>>]
    /\ asked' = [q \in DOMAIN asked |-> {}]
    /\ UNCHANGED <<connection, m_clients, capacity, sent, handler, m_functionQueue,
                   heard>>

stop_close ==
    /\ app.at = "stop"
    /\ IF m_clients # <<>> /\ connection[m_clients[1].connection] = "open"
       THEN /\ connection' = [connection EXCEPT ![m_clients[1].connection] = "lost"]
            /\ app' = [at |-> "stop_erase"]
       ELSE UNCHANGED connection /\ app' = [at |-> "stop_server"]
    /\ UNCHANGED <<clients, out, handler, queue, heard>>

stop_erase ==
    /\ app.at = "stop_erase"
    /\ IF m_clients # <<>> THEN erase(1) ELSE UNCHANGED m_clients
    /\ app' = [at |-> "stop"]
    /\ disturb
    /\ UNCHANGED <<connection, capacity, joined, out, handler, queue, echoes>>

(* m_websocketServer->stop and the join.                                   *)
stop_server ==
    /\ app.at = "stop_server"
    /\ handler = NoRequest
    /\ app' = [at |-> "stopped"]
    /\ UNCHANGED <<connection, clients, out, handler, queue, heard>>

(***************************************************************************)
(* on_OSCMessage with m_echo.  A message over UDP comes with the port of   *)
(* its sender, one over the websocket with AnyPort (on_BinaryWSrequest).   *)
(***************************************************************************)

(* Mutant: the source gets its message back.                               *)
echoed_to_all(r, port) ==
    IF r.sender # NoClient THEN {r.sender}
    ELSE {c \in {r.connection} : connection[c] = "open"}

echoed_to(r, port) ==
    IF r.sender # NoClient
    THEN IF port # r.remote_sender_port THEN {r.sender} ELSE {}
    ELSE {c \in {r.connection} : connection[c] = "open"}

(* t: the thread, of the OSC receiver or of the websocket server.          *)
echo_start(t, c, port) ==
    /\ below_bound(2)
    /\ echoes' = echoes + 1
    /\ echo' = [echo EXCEPT ![t] = [at |-> "walk", i |-> 1, source |-> c,
                                    port |-> port, to |-> {}, clean |-> TRUE]]
    /\ UNCHANGED <<connection, clients, app, out, queue>>

on_OSCMessage(c) ==
    /\ echo["osc"].at # "walk"
    /\ app.at \in {"idle", "walk"}
    /\ echo_start("osc", c, c)
    /\ UNCHANGED handler

on_BinaryWSrequest(c) ==
    /\ handler = NoRequest
    /\ app.at # "stopped"
    /\ connection[c] \in {"open", "unlisted"}
    /\ echo_start("ws", c, AnyPort)
    /\ handler' = [NoRequest EXCEPT !.at = "echo", !.client = c]

(* The iterators of a walk that is disturbed may point anywhere: it ends,  *)
(* and nothing is said of what it sent.                                    *)
echo_step(t) ==
    LET e == echo[t]
    IN  /\ e.at = "walk"
        /\ \/ /\ e.clean
              /\ e.i <= Len(m_clients)
              /\ echo' = [echo EXCEPT ![t].i = @ + 1,
                            ![t].to = @ \cup echoed_to(m_clients[e.i], e.port)]
              /\ UNCHANGED handler
           \/ /\ e.clean => e.i > Len(m_clients)
              /\ echo' = [echo EXCEPT ![t] = IF e.clean THEN [@ EXCEPT !.at = "done"]
                                             ELSE Quiet]
              /\ handler' = IF t = "ws" THEN NoRequest ELSE handler
        /\ UNCHANGED <<connection, clients, app, out, queue, echoes>>

Init ==
    /\ connection = [c \in Clients |-> "none"]
    /\ m_clients = <<>>
    /\ capacity = 0
    /\ app = Idle
    /\ sent = 0
    /\ delivered = [c \in Clients |-> <<>>]
    /\ joined = [c \in Clients |-> 0]
    /\ handler = NoRequest
    /\ m_functionQueue = <<>>
    /\ asked = <<>>
    /\ echo = [t \in {"osc", "ws"} |-> Quiet]
    /\ echoes = 0

Next ==
    \/ \E c \in Clients :
         \/ on_connectionOpen(c) \/ on_connectionOpen_fails(c)
         \/ connection_lost(c) \/ on_connectionClosed(c)
         \/ start_osc_streaming(c)
         \/ on_OSCMessage(c) \/ on_BinaryWSrequest(c)
    \/ \E port \in {NoClient, handler.client} : open_osc_sender(port)
    \/ request_edit
    \/ \E kind \in {"event", "value"} : send(kind)
    \/ run_commands
    \/ walk_step
    \/ stop \/ stop_close \/ stop_erase \/ stop_server
    \/ \E t \in DOMAIN echo : echo_step(t)

Spec == Init /\ [][Next]_vars

-----------------------------------------------------------------------------
running == app.at \in {"idle", "walk"}

(* Records move in the vector when others come and go, and the websocket   *)
(* thread uses a pointer into it that it found earlier.  Until stop, each  *)
(* connection has one record, unless opening it failed, and an OSC socket  *)
(* sends to the client of its own record.                                  *)
RecordsMatch ==
    running =>
        /\ \A i \in DOMAIN m_clients :
             m_clients[i].sender \in {NoClient, m_clients[i].connection}
        /\ \A c \in Clients :
             (\E i \in find(c) : find(c) = {i}) <=> connection[c] \in {"open", "lost"}
        /\ handler.at = "found" => handler.slot \in find(handler.client)

(* Has the walk reached client c yet?                                      *)
behind(c) == locked /\ \E i \in find(c) : i >= app.i

(* Whoever else connects or goes away, a client whose connection is open   *)
(* gets every message sent since it came, once and in the order of         *)
(* sending, and only values that are not critical come over OSC, which may *)
(* lose them.                                                              *)
NothingMissed ==
    running =>
        \A c \in Clients : connection[c] = "open" =>
            /\ Len(delivered[c]) = sent - joined[c] - (IF behind(c) THEN 1 ELSE 0)
            /\ \A k \in DOMAIN delivered[c] :
                 /\ delivered[c][k].n = joined[c] + k
                 /\ delivered[c][k].way = "osc" => delivered[c][k].kind = "value"

(* "When the server receives a message, it will propagate it to other      *)
(* clients.  The implementation will try to prevent sending the message    *)
(* again to its source", whose port it was told.                           *)
EchoPropagates ==
    LET e == echo["osc"]
    IN  running /\ e.at = "done" =>
          \A i \in DOMAIN m_clients :
             LET r == m_clients[i]
             IN  r.sender # NoClient /\ r.told =>
                   (r.sender \in e.to <=> r.sender # e.source)

(* The same for the records that have the port of their client.  All       *)
(* streaming clients get a message that came over the websocket, and       *)
(* clients without an OSC socket get every message.                        *)
EchoExact ==
    \A t \in DOMAIN echo :
        LET e == echo[t]
        IN  running /\ e.at = "done" =>
              \A i \in DOMAIN m_clients :
                 LET r == m_clients[i]
                 IN  /\ r.sender # NoClient /\ r.remote_sender_port = r.connection =>
                          (r.connection \in e.to <=> (t = "osc" => r.connection # e.source))
                     /\ r.sender # NoClient /\ t = "ws" => r.connection \in e.to
                     /\ r.sender = NoClient /\ connection[r.connection] = "open" =>
                          r.connection \in e.to

(* A request for an edit waits in m_functionQueue for run_commands.  It is *)
(* there, or every client that was connected when it was made, and still   *)
(* is, has been told of the edit, or the walk that tells it is under way,  *)
(* provided the application makes the edits it is asked for.  The events   *)
(* come in the order of the requests.                                      *)
RequestsServed ==
    running =>
        \A q \in DOMAIN asked :
            \/ \E k \in DOMAIN m_functionQueue : m_functionQueue[k] = q
            \/ \A c \in asked[q] : connection[c] = "open" =>
                 \/ \E k \in DOMAIN delivered[c] :
                      /\ delivered[c][k].request = q
                      /\ delivered[c][k].way = "ws"
                      /\ \A l \in (k + 1)..Len(delivered[c]) :
                           delivered[c][l].request \notin 1..q
                 \/ behind(c) /\ app.request = q
=============================================================================
