------------------------- MODULE QueryServerProofs -------------------------
(***************************************************************************)
(* For any number of clients and messages of an oscquery server: records   *)
(* stay with their connections, open clients miss no message, requests are *)
(* served in order, and an echo goes where it should.                      *)
(***************************************************************************)
EXTENDS QueryServer, TLAPS

Records == [connection : Clients, sender : Clients \cup {NoClient},
            remote_sender_port : Clients \cup {NoClient}, told : BOOLEAN]

States == {"none", "open", "unlisted", "lost", "closed"}

(* Each record is of a connection that was opened and not closed, and of   *)
(* one only; what the websocket thread found is still where it was.        *)
Matched ==
    /\ \A i \in 1..Len(m_clients) :
         /\ m_clients[i].sender \in {NoClient, m_clients[i].connection}
         /\ connection[m_clients[i].connection] \in {"open", "lost"}
    /\ \A i, j \in 1..Len(m_clients) :
         m_clients[i].connection = m_clients[j].connection => i = j
    /\ \A c \in Clients : connection[c] \in {"open", "lost"} =>
         \E i \in 1..Len(m_clients) : m_clients[i].connection = c
    /\ handler.at = "found" =>
         /\ handler.slot \in 1..Len(m_clients)
         /\ m_clients[handler.slot].connection = handler.client

Handlers == [at : {"idle", "found", "echo"}, client : Clients \cup {NoClient}, slot : Nat]

(* app.at, for the steps of the application's thread.                      *)
Places == {"idle", "walk", "stop", "stop_erase", "stop_server", "stopped"}

ClientsInv ==
    /\ connection \in [Clients -> States]
    /\ m_clients \in Seq(Records)
    /\ handler \in Handlers
    /\ handler.at = "found" => handler.client \in Clients
    /\ app.at \in Places
    /\ running => Matched

-----------------------------------------------------------------------------
LEMMA ClientsInit == Init => ClientsInv
<1> SUFFICES ASSUME Init PROVE ClientsInv
  OBVIOUS
<1>1. Len(m_clients) = 0
  BY DEF Init
<1>2. Matched
  BY <1>1 DEF Init, Matched, NoRequest
<1>3. m_clients \in Seq(Records) /\ app.at \in Places
  BY DEF Init, Idle, Places
<1>4. connection \in [Clients -> States] /\ handler \in Handlers /\ handler.at # "found"
  BY DEF Init, NoRequest, Handlers, States
<1> QED
  BY <1>2, <1>3, <1>4 DEF ClientsInv

(* A step that leaves the vector and the connections alone.                *)
LEMMA ClientsKept ==
    ASSUME ClientsInv, UNCHANGED <<connection, m_clients>>,
           handler' \in {handler} \cup [at : {"idle", "echo"},
                           client : Clients \cup {NoClient}, slot : {0}],
           app'.at \in Places, running' => running
    PROVE  ClientsInv'
<1>1. handler' \in Handlers
  BY DEF ClientsInv, Handlers
<1>2. handler'.at = "found" => handler' = handler
  OBVIOUS
<1>3. running' => Matched'
  BY <1>2 DEF ClientsInv, Matched
<1> QED
  BY <1>1, <1>2, <1>3 DEF ClientsInv

(* on_connectionOpen appends a record; those that are there keep their     *)
(* connection and their sender, moved or not.                              *)
LEMMA OpenKeeps ==
    ASSUME ClientsInv, NEW c \in Clients, on_connectionOpen(c)
    PROVE  ClientsInv'
<1> DEFINE n == Len(m_clients)
<1>0. n \in Nat /\ \A i \in 1..n : m_clients[i] \in Records
  BY DEF ClientsInv
<1>1. /\ handler = NoRequest /\ handler' = handler /\ app' = app
      /\ connection[c] = "none"
      /\ connection' = [connection EXCEPT ![c] = "open"]
      /\ emplace_back(c)
  BY DEF on_connectionOpen
<1>2. oscquery_client(c) \in Records
  BY DEF oscquery_client, Records
<1>3. /\ m_clients' \in Seq(Records)
      /\ Len(m_clients') = n + 1
      /\ m_clients'[n + 1] = oscquery_client(c)
      /\ \A i \in 1..n : /\ m_clients'[i].connection = m_clients[i].connection
                         /\ m_clients'[i].sender = m_clients[i].sender
  <2>1. CASE n < capacity
    BY <2>1, <1>0, <1>1, <1>2 DEF emplace_back, ClientsInv
  <2>2. CASE ~(n < capacity)
    <3> DEFINE moved == [i \in DOMAIN m_clients |-> move_construct(m_clients[i])]
    <3>1. DOMAIN m_clients = 1..n
      BY DEF ClientsInv
    <3>2. \A r \in Records : /\ move_construct(r) \in Records
                             /\ move_construct(r).connection = r.connection
                             /\ move_construct(r).sender = r.sender
      BY DEF move_construct, Records
    <3>3. moved \in Seq(Records) /\ Len(moved) = n
          /\ \A i \in 1..n : moved[i] = move_construct(m_clients[i])
      <4> HIDE DEF n
      <4>1. moved \in [1..n -> Records]
        BY <1>0, <3>1, <3>2
      <4> QED
        BY <4>1, <1>0, <3>1
    <3>4. m_clients' = Append(moved, oscquery_client(c))
      BY <2>2, <1>1 DEF emplace_back
    <3> HIDE DEF moved
    <3> QED
      BY <1>0, <1>2, <3>2, <3>3, <3>4
  <2> QED
    BY <2>1, <2>2
<1>4. oscquery_client(c).connection = c /\ oscquery_client(c).sender = NoClient
  BY DEF oscquery_client
<1>5. connection' \in [Clients -> States]
  BY <1>1 DEF ClientsInv, States
<1>6. ASSUME running' PROVE Matched'
  <2>1. Matched
    BY <1>6, <1>1 DEF running, ClientsInv
  <2>2. \A i \in 1..n : m_clients[i].connection \in Clients \ {c}
    BY <1>0, <1>1, <2>1 DEF Matched, Records
  <2>3. \A i \in 1..(n + 1) :
          m_clients'[i].connection = IF i = n + 1 THEN c ELSE m_clients[i].connection
    BY <1>0, <1>3, <1>4
  <2>4. \A i \in 1..(n + 1) : m_clients'[i].sender \in {NoClient, m_clients'[i].connection}
    BY <1>0, <1>3, <1>4, <2>1 DEF Matched
  <2>5. \A d \in Clients : connection'[d] = IF d = c THEN "open" ELSE connection[d]
    BY <1>1 DEF ClientsInv
  <2>6. \A i \in 1..(n + 1) : connection'[m_clients'[i].connection] \in {"open", "lost"}
    BY <1>0, <2>1, <2>2, <2>3, <2>5 DEF Matched
  <2>7. \A i, j \in 1..(n + 1) :
          m_clients'[i].connection = m_clients'[j].connection => i = j
    BY <1>0, <2>1, <2>2, <2>3 DEF Matched
  <2>8. \A d \in Clients : connection'[d] \in {"open", "lost"} =>
          \E i \in 1..(n + 1) : m_clients'[i].connection = d
    <3> SUFFICES ASSUME NEW d \in Clients, connection'[d] \in {"open", "lost"}
                 PROVE  \E i \in 1..(n + 1) : m_clients'[i].connection = d
      OBVIOUS
    <3>1. CASE d = c
      BY <3>1, <1>0, <2>3
    <3>2. CASE d # c
      <4>1. PICK i \in 1..n : m_clients[i].connection = d
        BY <3>2, <2>1, <2>5 DEF Matched
      <4> QED
        BY <4>1, <1>0, <2>3
    <3> QED
      BY <3>1, <3>2
  <2>9. handler'.at # "found"
    BY <1>1 DEF NoRequest
  <2> QED
    BY <1>3, <2>4, <2>6, <2>7, <2>8, <2>9 DEF Matched
<1> QED
  BY <1>1, <1>3, <1>5, <1>6 DEF ClientsInv

(* erase moves the records behind one place forward; only the port does    *)
(* not go with them.                                                       *)
LEMMA EraseMoves ==
    ASSUME ClientsInv, NEW i \in 1..Len(m_clients), erase(i)
    PROVE  /\ m_clients' \in Seq(Records)
           /\ Len(m_clients') = Len(m_clients) - 1
           /\ \A k \in 1..(Len(m_clients) - 1) :
                LET r == m_clients[IF k < i THEN k ELSE k + 1]
                IN  /\ m_clients'[k].connection = r.connection
                    /\ m_clients'[k].sender = r.sender
<1> DEFINE n == Len(m_clients)
           new == [k \in 1..(n - 1) |-> IF k < i THEN m_clients[k]
                                        ELSE move_assign(m_clients[k], m_clients[k + 1])]
<1>1. n \in Nat \ {0} /\ \A k \in 1..n : m_clients[k] \in Records
  BY DEF ClientsInv
<1>2. \A r, s \in Records : /\ move_assign(r, s) \in Records
                            /\ move_assign(r, s).connection = s.connection
                            /\ move_assign(r, s).sender = s.sender
  BY DEF move_assign, Records
<1>3. m_clients' = new
  BY DEF erase
<1> HIDE DEF n
<1>4. \A k \in 1..(n - 1) : k \in 1..n /\ k + 1 \in 1..n
  BY <1>1
<1>5. new \in [1..(n - 1) -> Records]
  BY <1>1, <1>2, <1>4
<1>6. new \in Seq(Records) /\ Len(new) = n - 1
  <2>1. n - 1 \in Nat
    BY <1>1
  <2> HIDE DEF new
  <2> QED
    BY <2>1, <1>5
<1>7. \A k \in 1..(n - 1) :
        /\ new[k].connection = m_clients[IF k < i THEN k ELSE k + 1].connection
        /\ new[k].sender = m_clients[IF k < i THEN k ELSE k + 1].sender
  BY <1>1, <1>2, <1>4
<1> HIDE DEF new
<1> QED
  BY <1>3, <1>6, <1>7 DEF n

(* on_connectionClosed.                                                    *)
LEMMA CloseKeeps ==
    ASSUME ClientsInv, NEW c \in Clients, on_connectionClosed(c)
    PROVE  ClientsInv'
<1> DEFINE n == Len(m_clients)
<1>0. n \in Nat /\ DOMAIN m_clients = 1..n /\ \A i \in 1..n : m_clients[i] \in Records
  BY DEF ClientsInv
<1>1. /\ handler = NoRequest /\ handler' = handler /\ app' = app
      /\ connection[c] \in {"lost", "unlisted"}
      /\ connection' = [connection EXCEPT ![c] = "closed"]
  BY DEF on_connectionClosed
<1>2. connection' \in [Clients -> States]
  BY <1>1 DEF ClientsInv, States
<1>3. handler'.at # "found"
  BY <1>1 DEF NoRequest
<1>4. CASE find(c) = {}
  <2>1. m_clients' = m_clients
    BY <1>4 DEF on_connectionClosed
  <2>2. \A i \in 1..n : m_clients[i].connection \in Clients \ {c}
    BY <1>0, <1>4 DEF find, Records
  <2>3. ASSUME running' PROVE Matched'
    <3>1. Matched
      BY <2>3, <1>1 DEF running, ClientsInv
    <3>2. \A d \in Clients : connection'[d] = IF d = c THEN "closed" ELSE connection[d]
      BY <1>1 DEF ClientsInv
    <3> QED
      BY <1>3, <2>1, <2>2, <3>1, <3>2 DEF Matched
  <2> QED
    BY <1>1, <1>2, <1>3, <2>1, <2>3 DEF ClientsInv
<1>5. CASE find(c) # {}
  <2>1. PICK i \in find(c) : erase(i)
    BY <1>5 DEF on_connectionClosed
  <2>2. i \in 1..n /\ m_clients[i].connection = c
    BY <2>1, <1>0 DEF find
  <2>3. /\ m_clients' \in Seq(Records)
        /\ Len(m_clients') = n - 1
        /\ \A k \in 1..(n - 1) :
             LET r == m_clients[IF k < i THEN k ELSE k + 1]
             IN  /\ m_clients'[k].connection = r.connection
                 /\ m_clients'[k].sender = r.sender
    BY <2>1, <2>2, EraseMoves
  <2>4. ASSUME running' PROVE Matched'
    <3>1. Matched
      BY <2>4, <1>1 DEF running, ClientsInv
    <3>2. \A d \in Clients : connection'[d] = IF d = c THEN "closed" ELSE connection[d]
      BY <1>1 DEF ClientsInv
    <3>3. \A k \in 1..(n - 1) :
            /\ k \in 1..n /\ k + 1 \in 1..n
            /\ (IF k < i THEN k ELSE k + 1) # i
      BY <1>0, <2>2
    <3>4. \A k \in 1..(n - 1) : m_clients'[k].connection \in Clients \ {c}
      <4> SUFFICES ASSUME NEW k \in 1..(n - 1)
                   PROVE  m_clients'[k].connection \in Clients \ {c}
        OBVIOUS
      <4>1. CASE k < i
        BY <4>1, <1>0, <2>2, <2>3, <3>1, <3>3 DEF Matched, Records
      <4>2. CASE ~(k < i)
        BY <4>2, <1>0, <2>2, <2>3, <3>1, <3>3 DEF Matched, Records
      <4> QED
        BY <4>1, <4>2
    <3>5. \A k \in 1..(n - 1) :
            /\ m_clients'[k].sender \in {NoClient, m_clients'[k].connection}
            /\ connection'[m_clients'[k].connection] \in {"open", "lost"}
      <4> SUFFICES ASSUME NEW k \in 1..(n - 1)
                   PROVE  /\ m_clients'[k].sender \in {NoClient, m_clients'[k].connection}
                          /\ connection'[m_clients'[k].connection] \in {"open", "lost"}
        OBVIOUS
      <4>1. PICK j \in 1..n : /\ m_clients'[k].connection = m_clients[j].connection
                              /\ m_clients'[k].sender = m_clients[j].sender
        BY <2>3, <3>3
      <4> QED
        BY <4>1, <3>1, <3>2, <3>4 DEF Matched
    <3>6. \A k, l \in 1..(n - 1) :
            m_clients'[k].connection = m_clients'[l].connection => k = l
      <4> SUFFICES ASSUME NEW k \in 1..(n - 1), NEW l \in 1..(n - 1),
                          m_clients'[k].connection = m_clients'[l].connection
                   PROVE  k = l
        OBVIOUS
      <4> DEFINE from(m) == IF m < i THEN m ELSE m + 1
      <4>1. from(k) = from(l)
        <5>1. from(k) \in 1..n /\ from(l) \in 1..n
          BY <3>3
        <5>2. m_clients[from(k)].connection = m_clients[from(l)].connection
          BY <2>3
        <5> HIDE DEF from
        <5> QED
          BY <5>1, <5>2, <3>1 DEF Matched
      <4> QED
        BY <4>1, <1>0, <2>2
    <3>7. \A d \in Clients : connection'[d] \in {"open", "lost"} =>
            \E k \in 1..(n - 1) : m_clients'[k].connection = d
      <4> SUFFICES ASSUME NEW d \in Clients, connection'[d] \in {"open", "lost"}
                   PROVE  \E k \in 1..(n - 1) : m_clients'[k].connection = d
        OBVIOUS
      <4>1. d # c /\ connection[d] \in {"open", "lost"}
        BY <3>2
      <4>2. PICK j \in 1..n : m_clients[j].connection = d
        BY <4>1, <3>1 DEF Matched
      <4>3. j # i
        BY <4>1, <4>2, <2>2
      <4>4. CASE j < i
        BY <4>4, <4>2, <1>0, <2>2, <2>3
      <4>5. CASE j > i
        <5>1. j - 1 \in 1..(n - 1) /\ ~(j - 1 < i) /\ (j - 1) + 1 = j
          BY <4>5, <1>0, <2>2
        <5> QED
          BY <5>1, <4>2, <2>3
      <4> QED
        BY <4>3, <4>4, <4>5, <1>0, <2>2
    <3> QED
      BY <1>3, <2>3, <3>5, <3>6, <3>7 DEF Matched
  <2> QED
    BY <1>1, <1>2, <1>3, <2>3, <2>4 DEF ClientsInv
<1> QED
  BY <1>4, <1>5

(* open_osc_sender, through the pointer that start_osc_streaming found.    *)
LEMMA SenderKeeps ==
    ASSUME ClientsInv, NEW port \in {NoClient, handler.client}, open_osc_sender(port)
    PROVE  ClientsInv'
<1> DEFINE n == Len(m_clients)
           s == handler.slot
<1>0. n \in Nat /\ DOMAIN m_clients = 1..n /\ \A i \in 1..n : m_clients[i] \in Records
  BY DEF ClientsInv
<1>1. /\ handler.at = "found" /\ handler' = NoRequest /\ app' = app
      /\ connection' = connection /\ handler.client \in Clients
  BY DEF open_osc_sender, ClientsInv
<1>2. handler' \in Handlers /\ handler'.at # "found"
  BY <1>1 DEF NoRequest, Handlers
<1>3. /\ m_clients' \in Seq(Records) /\ Len(m_clients') = n
      /\ \A i \in 1..n : m_clients'[i].connection = m_clients[i].connection
      /\ \A i \in 1..n : i # s => m_clients'[i].sender = m_clients[i].sender
      /\ s \in 1..n => m_clients'[s].sender = handler.client
  <2>1. CASE s \in 1..n
    <3> DEFINE r == [connection |-> m_clients[s].connection, sender |-> handler.client,
                     remote_sender_port |-> IF port # NoClient THEN port
                                            ELSE m_clients[s].remote_sender_port,
                     told |-> port # NoClient \/ m_clients[s].told]
    <3>1. m_clients' = [m_clients EXCEPT ![s] = r]
      BY <2>1, <1>0 DEF open_osc_sender
    <3>2. r \in Records
      <4>1. m_clients[s] \in Records
        BY <2>1, <1>0
      <4>2. (port # NoClient \/ m_clients[s].told) \in BOOLEAN
        OBVIOUS
      <4>3. (IF port # NoClient THEN port ELSE m_clients[s].remote_sender_port)
              \in Clients \cup {NoClient}
        BY <4>1, <1>1 DEF Records
      <4> QED
        BY <4>1, <4>2, <4>3, <1>1 DEF Records
    <3>3. r.connection = m_clients[s].connection /\ r.sender = handler.client
      OBVIOUS
    <3> HIDE DEF r
    <3> QED
      BY <2>1, <1>0, <3>1, <3>2, <3>3 DEF ClientsInv
  <2>2. CASE s \notin 1..n
    BY <2>2, <1>0 DEF open_osc_sender, ClientsInv
  <2> QED
    BY <2>1, <2>2
<1>4. ASSUME running' PROVE Matched'
  <2>1. Matched
    BY <1>4, <1>1 DEF running, ClientsInv
  <2>2. s \in 1..n /\ m_clients[s].connection = handler.client
    BY <1>1, <2>1 DEF Matched
  <2> HIDE DEF n, s
  <2>3. \A i \in 1..n : m_clients'[i].sender \in {NoClient, m_clients'[i].connection}
    BY <1>3, <2>1, <2>2 DEF Matched, n
  <2> QED
    BY <1>1, <1>2, <1>3, <2>1, <2>3 DEF Matched, n
<1> QED
  BY <1>1, <1>2, <1>3, <1>4 DEF ClientsInv

-----------------------------------------------------------------------------
LEMMA ClientsStep == ClientsInv /\ [Next]_vars => ClientsInv'
<1> SUFFICES ASSUME ClientsInv, [Next]_vars PROVE ClientsInv'
  OBVIOUS
<1> USE DEF running
<1>1. CASE UNCHANGED vars
  BY <1>1, ClientsKept DEF vars, clients, ClientsInv
<1>2. ASSUME NEW c \in Clients, on_connectionOpen(c) PROVE ClientsInv'
  BY <1>2, OpenKeeps
<1>3. ASSUME NEW c \in Clients, connection_lost(c) PROVE ClientsInv'
  BY <1>3 DEF connection_lost, clients, ClientsInv, Matched, States
<1>4. ASSUME NEW c \in Clients, on_connectionClosed(c) PROVE ClientsInv'
  BY <1>4, CloseKeeps
<1>5. ASSUME NEW c \in Clients, start_osc_streaming(c) PROVE ClientsInv'
  <2>1. DOMAIN m_clients = 1..Len(m_clients) /\ Len(m_clients) \in Nat
    BY DEF ClientsInv
  <2>2. PICK i \in find(c) : handler' = [at |-> "found", client |-> c, slot |-> i]
    BY <1>5 DEF start_osc_streaming
  <2>3. i \in 1..Len(m_clients) /\ m_clients[i].connection = c
    BY <2>1, <2>2 DEF find
  <2>4. handler' \in Handlers /\ handler'.client = c /\ handler'.slot = i
    BY <2>1, <2>2, <2>3 DEF Handlers
  <2>5. UNCHANGED <<connection, m_clients, app>>
    BY <1>5 DEF start_osc_streaming, clients
  <2> QED
    BY <2>3, <2>4, <2>5 DEF ClientsInv, Matched
<1>6. ASSUME NEW c \in Clients, on_OSCMessage(c) PROVE ClientsInv'
  BY <1>6, ClientsKept DEF on_OSCMessage, echo_start, clients, ClientsInv
<1>7. ASSUME NEW c \in Clients, on_BinaryWSrequest(c) PROVE ClientsInv'
  BY <1>7, ClientsKept DEF on_BinaryWSrequest, echo_start, clients, ClientsInv, NoRequest
<1>8. ASSUME NEW port \in {NoClient, handler.client}, open_osc_sender(port)
      PROVE  ClientsInv'
  BY <1>8, SenderKeeps
<1>9. CASE request_edit
  BY <1>9, ClientsKept DEF request_edit, clients, ClientsInv
<1>10. ASSUME NEW kind \in {"event", "value"}, send(kind) PROVE ClientsInv'
  BY <1>10, ClientsKept DEF send, walk, clients, ClientsInv, Idle, Places
<1>11. CASE run_commands
  BY <1>11, ClientsKept DEF run_commands, walk, clients, ClientsInv, Idle, Places
<1>12. CASE walk_step
  <2>1. app.at = "walk" /\ UNCHANGED <<connection, m_clients, handler>>
    BY <1>12 DEF walk_step, clients
  <2>2. app'.at \in Places
    <3>1. CASE app' = Idle
      BY <3>1 DEF Idle, Places
    <3>2. CASE app' = [app EXCEPT !.i = app.i + 1]
      BY <3>2, <2>1 DEF Places
    <3> QED
      BY <1>12, <3>1, <3>2 DEF walk_step
  <2> QED
    BY <2>1, <2>2, ClientsKept
<1>13. CASE stop
  BY <1>13, ClientsKept DEF stop, ClientsInv, Idle, Places
<1>14. CASE stop_close
  <2>1. app'.at \in Places /\ ~running' /\ UNCHANGED <<m_clients, handler>>
    BY <1>14 DEF stop_close, clients, Places
  <2>2. connection' \in [Clients -> States]
    BY <1>14 DEF stop_close, ClientsInv, States
  <2> QED
    BY <2>1, <2>2 DEF ClientsInv
<1>15. CASE stop_erase
  <2>1. app'.at \in Places /\ ~running' /\ UNCHANGED <<connection, handler>>
    BY <1>15 DEF stop_erase, Places
  <2>2. m_clients' \in Seq(Records)
    <3>1. CASE m_clients = <<>>
      BY <1>15, <3>1 DEF stop_erase, ClientsInv
    <3>2. CASE m_clients # <<>>
      <4>1. 1 \in 1..Len(m_clients)
        BY <3>2 DEF ClientsInv
      <4>2. erase(1)
        BY <1>15, <3>2 DEF stop_erase
      <4> QED
        BY <4>1, <4>2, EraseMoves
    <3> QED
      BY <3>1, <3>2
  <2> QED
    BY <2>1, <2>2 DEF ClientsInv
<1>16. CASE stop_server
  BY <1>16, ClientsKept DEF stop_server, clients, ClientsInv, Places
<1>17. ASSUME NEW t \in DOMAIN echo, echo_step(t) PROVE ClientsInv'
  <2>1. UNCHANGED <<connection, m_clients, app>> /\ handler' \in {handler, NoRequest}
    BY <1>17 DEF echo_step, clients
  <2> QED
    BY <2>1, ClientsKept DEF ClientsInv, NoRequest
<1>18. ASSUME NEW c \in Clients, on_connectionOpen_fails(c) PROVE ClientsInv'
  <2>1. /\ connection[c] = "none" /\ connection' = [connection EXCEPT ![c] = "unlisted"]
        /\ UNCHANGED <<m_clients, handler, app>>
    BY <1>18 DEF on_connectionOpen_fails, clients
  <2>2. connection' \in [Clients -> States]
    BY <2>1 DEF ClientsInv, States
  <2>3. \A d \in Clients : connection'[d] = IF d = c THEN "unlisted" ELSE connection[d]
    BY <2>1 DEF ClientsInv
  <2>4. \A i \in 1..Len(m_clients) : m_clients[i].connection \in Clients
    <3>1. m_clients \in Seq(Records)
      BY DEF ClientsInv
    <3>2. \A i \in 1..Len(m_clients) : m_clients[i] \in Records
      BY <3>1
    <3> QED
      BY <3>2 DEF Records
  <2>5. ASSUME Matched PROVE Matched'
    <3>1. \A i \in 1..Len(m_clients) : m_clients[i].connection # c
      BY <2>1, <2>5 DEF Matched
    <3>2. \A i \in 1..Len(m_clients) :
            connection'[m_clients[i].connection] = connection[m_clients[i].connection]
      BY <2>3, <2>4, <3>1
    <3>3. \A d \in Clients : connection'[d] \in {"open", "lost"} =>
            connection[d] \in {"open", "lost"}
      BY <2>3
    <3> QED
      BY <2>1, <2>5, <3>2, <3>3 DEF Matched
  <2> QED
    BY <2>1, <2>2, <2>5 DEF ClientsInv
<1> QED
  BY <1>1, <1>2, <1>3, <1>4, <1>5, <1>6, <1>7, <1>8, <1>9, <1>10, <1>11, <1>12,
     <1>13, <1>14, <1>15, <1>16, <1>17, <1>18 DEF Next

(* Until stop, each connection of the server has one record in m_clients,  *)
(* the OSC socket of a record sends to the client of its connection, and   *)
(* the pointer of find_client still points to the record it was asked for, *)
(* for any number of clients that come, stream and go.                     *)
THEOREM RecordsMatchCorrect == Spec => []RecordsMatch
<1>1. Init => ClientsInv
  BY ClientsInit
<1>2. ClientsInv /\ [Next]_vars => ClientsInv'
  BY ClientsStep
<1>3. ClientsInv => RecordsMatch
  <2> SUFFICES ASSUME ClientsInv, running
               PROVE  /\ \A i \in DOMAIN m_clients :
                           m_clients[i].sender \in {NoClient, m_clients[i].connection}
                      /\ \A c \in Clients :
                           (\E i \in find(c) : find(c) = {i})
                             <=> connection[c] \in {"open", "lost"}
                      /\ handler.at = "found" => handler.slot \in find(handler.client)
    BY DEF RecordsMatch
  <2>1. DOMAIN m_clients = 1..Len(m_clients) /\ Matched
    BY DEF ClientsInv
  <2>2. ASSUME NEW c \in Clients
        PROVE  (\E i \in find(c) : find(c) = {i}) <=> connection[c] \in {"open", "lost"}
    <3>1. ASSUME NEW i \in find(c) PROVE connection[c] \in {"open", "lost"}
      BY <3>1, <2>1 DEF find, Matched
    <3>2. ASSUME connection[c] \in {"open", "lost"}
          PROVE  \E i \in find(c) : find(c) = {i}
      <4>1. PICK i \in 1..Len(m_clients) : m_clients[i].connection = c
        BY <3>2, <2>1 DEF Matched
      <4>2. find(c) = {i}
        BY <4>1, <2>1 DEF find, Matched
      <4> QED
        BY <4>2
    <3> QED
      BY <3>1, <3>2
  <2> QED
    BY <2>1, <2>2 DEF Matched, find
<1> QED
  BY <1>1, <1>2, <1>3, PTL DEF Spec

-----------------------------------------------------------------------------
(***************************************************************************)
(* What the clients are given.                                             *)
(***************************************************************************)
Kinds    == {"event", "value"}
Messages == [n : Nat, kind : Kinds, request : Nat, way : {"osc", "ws"}]
Walks    == [at : {"walk"}, i : Nat \ {0}, kind : Kinds, request : Nat]

(* What NothingMissed says of one client.                                  *)
MissedNothing(c) ==
    /\ Len(delivered[c]) = sent - joined[c] - (IF behind(c) THEN 1 ELSE 0)
    /\ \A k \in 1..Len(delivered[c]) :
         /\ delivered[c][k].n = joined[c] + k
         /\ delivered[c][k].way = "osc" => delivered[c][k].kind = "value"

(* A client that is not there yet was given nothing.                       *)
DeliveryInv ==
    /\ sent \in Nat
    /\ joined \in [Clients -> Nat]
    /\ delivered \in [Clients -> Seq(Messages)]
    /\ m_functionQueue \in Seq(Nat)
    /\ locked => app \in Walks
    /\ running => \A c \in Clients :
         /\ connection[c] = "none" => delivered[c] = <<>>
         /\ connection[c] = "open" => MissedNothing(c)

(***************************************************************************)
(* The requests for edits: those not run yet are the last ones, in order.  *)
(***************************************************************************)
served == Len(asked) - Len(m_functionQueue)

(* Client c was told of edit q, or is about to be.                         *)
Told(c, q) ==
    \/ \E k \in 1..Len(delivered[c]) :
         /\ delivered[c][k].request = q
         /\ delivered[c][k].way = "ws"
         /\ \A l \in (k + 1)..Len(delivered[c]) : delivered[c][l].request \notin 1..q
    \/ behind(c) /\ app.request = q

RequestsInv ==
    /\ asked \in Seq(SUBSET Clients)
    /\ Len(m_functionQueue) <= Len(asked)
    /\ \A k \in 1..Len(m_functionQueue) : m_functionQueue[k] = served + k
    /\ locked => app.request \in {0, served} /\ (app.request # 0 => app.kind = "event")
    /\ running => \A q \in 1..Len(asked) : \A c \in asked[q] :
         /\ connection[c] # "none"
         /\ q <= served /\ connection[c] = "open" => Told(c, q)

(***************************************************************************)
(* The walks of the receiving threads.                                     *)
(***************************************************************************)
Echoes == [at : {"walk", "done"}, i : Nat \ {0}, source : Clients,
           port : Clients \cup {AnyPort}, to : SUBSET Clients, clean : BOOLEAN]

(* The record m_clients[j] has been visited by the walk e and was sent to  *)
(* as it should, or it has not been and nothing was sent to its client.    *)
Visited(e, j) ==
    LET r == m_clients[j]
    IN  /\ j < e.i /\ r.sender # NoClient /\ e.port # r.remote_sender_port =>
             r.connection \in e.to
        /\ j < e.i /\ r.sender = NoClient /\ connection[r.connection] = "open" =>
             r.connection \in e.to
        /\ r.connection \in e.to =>
             j < e.i /\ (r.sender # NoClient => e.port # r.remote_sender_port)

(* A walk whose clients are those of now.                                  *)
Current(e) == e.at = "done" \/ (e.at = "walk" /\ e.clean)

EchoOf(t) ==
    /\ echo[t] = Quiet \/ echo[t] \in Echoes
    /\ echo[t] # Quiet => echo[t].port = IF t = "osc" THEN echo[t].source ELSE AnyPort
    /\ running /\ Current(echo[t]) =>
         /\ echo[t].at = "done" => echo[t].i > Len(m_clients)
         /\ \A j \in 1..Len(m_clients) : Visited(echo[t], j)

EchoInv ==
    /\ echo = [t \in {"osc", "ws"} |-> echo[t]]
    /\ \A t \in {"osc", "ws"} : EchoOf(t)

-----------------------------------------------------------------------------
(* Places in the vector.                                                   *)
LEMMA Finds ==
    ASSUME ClientsInv
    PROVE  /\ Len(m_clients) \in Nat
           /\ DOMAIN m_clients = 1..Len(m_clients)
           /\ \A i \in 1..Len(m_clients) : m_clients[i] \in Records
           /\ \A c \in Clients : find(c) \subseteq Nat \ {0}
           /\ \A c \in Clients : find(c) = {i \in 1..Len(m_clients) :
                                              m_clients[i].connection = c}
BY DEF ClientsInv, find

(* open_osc_sender replaces a record by one of the same connection.        *)
LEMMA SenderFinds ==
    ASSUME ClientsInv, NEW port, open_osc_sender(port), NEW c
    PROVE  find(c)' = find(c)
<1>1. DOMAIN m_clients' = DOMAIN m_clients
  BY DEF open_osc_sender
<1>2. \A i \in DOMAIN m_clients : m_clients'[i].connection = m_clients[i].connection
  BY DEF open_osc_sender
<1> QED
  BY <1>1, <1>2 DEF find

LEMMA DeliveryInit == Init => DeliveryInv
<1> SUFFICES ASSUME Init PROVE DeliveryInv
  OBVIOUS
<1>1. <<>> \in Seq(Messages) /\ <<>> \in Seq(Nat)
  OBVIOUS
<1> QED
  BY <1>1 DEF Init, DeliveryInv, Idle, locked

(* A step that gives nothing to a client and adds none.                    *)
LEMMA DeliveryKept ==
    ASSUME DeliveryInv, UNCHANGED <<app, sent, joined, delivered>>,
           m_functionQueue' \in Seq(Nat),
           \A c \in Clients : find(c)' = find(c),
           \A c \in Clients : connection'[c] \in {connection[c], "lost", "unlisted"}
    PROVE  DeliveryInv'
<1>1. \A c \in Clients : behind(c)' = behind(c)
  BY DEF behind, locked
<1>2. \A c \in Clients : MissedNothing(c)' = MissedNothing(c)
  BY <1>1 DEF MissedNothing
<1> HIDE DEF MissedNothing
<1> QED
  BY <1>2 DEF DeliveryInv, running, locked

(* A client that connects is owed nothing of the past.                     *)
LEMMA DeliveryOpen ==
    ASSUME ClientsInv, DeliveryInv, NEW c \in Clients, on_connectionOpen(c)
    PROVE  DeliveryInv'
<1>1. /\ ~locked /\ ~locked' /\ app' = app /\ sent' = sent /\ delivered' = delivered
      /\ connection[c] = "none" /\ connection' = [connection EXCEPT ![c] = "open"]
      /\ joined' = [joined EXCEPT ![c] = sent] /\ m_functionQueue' = m_functionQueue
  BY DEF on_connectionOpen, locked, out, queue
<1>2. joined' \in [Clients -> Nat]
  BY <1>1 DEF DeliveryInv
<1>3. ASSUME running', NEW d \in Clients
      PROVE  /\ connection'[d] = "none" => delivered'[d] = <<>>
             /\ connection'[d] = "open" => MissedNothing(d)'
  <2>1. running
    BY <1>3, <1>1 DEF running
  <2>2. CASE d = c
    <3>1. connection'[d] = "open" /\ delivered'[d] = <<>> /\ joined'[d] = sent'
      BY <2>1, <2>2, <1>1 DEF ClientsInv, DeliveryInv
    <3>2. Len(delivered'[d]) = 0
      BY <3>1
    <3>3. sent' \in Nat
      BY <1>1 DEF DeliveryInv
    <3>4. ~behind(d)'
      BY <1>1 DEF behind
    <3>5. sent' - joined'[d] - 0 = 0
      <4>1. joined'[d] = sent'
        BY <3>1
      <4>2. \A x \in Nat : x - x - 0 = 0
        OBVIOUS
      <4> QED
        BY <4>1, <4>2, <3>3, Zenon
    <3> QED
      BY <3>1, <3>2, <3>4, <3>5 DEF MissedNothing
  <2>3. CASE d # c
    BY <2>1, <2>3, <1>1 DEF ClientsInv, DeliveryInv, MissedNothing, behind
  <2> QED
    BY <2>2, <2>3
<1> QED
  BY <1>1, <1>2, <1>3 DEF DeliveryInv

(* A client that goes leaves the deliveries of the others alone.           *)
LEMMA DeliveryClose ==
    ASSUME ClientsInv, DeliveryInv, NEW c \in Clients, on_connectionClosed(c)
    PROVE  DeliveryInv'
<1>1. /\ ~locked /\ ~locked' /\ app' = app /\ sent' = sent
      /\ connection' = [connection EXCEPT ![c] = "closed"]
      /\ joined' = [joined EXCEPT ![c] = 0]
      /\ delivered' = [delivered EXCEPT ![c] = <<>>]
      /\ m_functionQueue' = m_functionQueue
  BY DEF on_connectionClosed, locked, queue
<1>2. joined' \in [Clients -> Nat] /\ delivered' \in [Clients -> Seq(Messages)]
  <2>1. <<>> \in Seq(Messages)
    OBVIOUS
  <2> QED
    BY <2>1, <1>1 DEF DeliveryInv
<1>3. ASSUME running', NEW d \in Clients
      PROVE  /\ connection'[d] = "none" => delivered'[d] = <<>>
             /\ connection'[d] = "open" => MissedNothing(d)'
  <2>1. running
    BY <1>3, <1>1 DEF running
  <2>2. CASE d = c
    BY <2>2, <1>1 DEF ClientsInv
  <2>3. CASE d # c
    BY <2>1, <2>3, <1>1 DEF ClientsInv, DeliveryInv, MissedNothing, behind
  <2> QED
    BY <2>2, <2>3
<1> QED
  BY <1>1, <1>2, <1>3 DEF DeliveryInv

(* A walk begins: it has not reached any client yet.                       *)
LEMMA WalkBegins ==
    ASSUME ClientsInv, app = Idle, NEW kind, NEW q, walk(kind, q),
           NEW c \in Clients, connection[c] = "open"
    PROVE  behind(c)' /\ ~behind(c)
<1>1. /\ ~locked /\ running /\ m_clients' = m_clients
      /\ app' = [at |-> "walk", i |-> 1, kind |-> kind, request |-> q]
  BY DEF walk, locked, Idle, clients, running
<1>2. Matched
  BY <1>1 DEF ClientsInv
<1>3. \E i \in find(c) : i >= 1
  BY <1>2, Finds DEF Matched
<1> QED
  BY <1>1, <1>3 DEF behind, find, locked

(* A broadcast that begins is behind with every client.                    *)
LEMMA DeliveryWalk ==
    ASSUME ClientsInv, DeliveryInv, app = Idle, NEW kind \in Kinds, NEW q \in Nat,
           walk(kind, q), m_functionQueue' \in Seq(Nat)
    PROVE  DeliveryInv'
<1>1. /\ ~locked /\ running /\ sent' = sent + 1 /\ delivered' = delivered
      /\ connection' = connection /\ joined' = joined /\ m_clients' = m_clients
      /\ app' = [at |-> "walk", i |-> 1, kind |-> kind, request |-> q]
  BY DEF walk, locked, Idle, clients, running
<1>2. locked' /\ app'.i = 1 /\ app' \in Walks
  BY <1>1 DEF locked, Walks
<1>3. ASSUME NEW c \in Clients, connection'[c] = "open" PROVE MissedNothing(c)'
  <2>1. MissedNothing(c)
    BY <1>1, <1>3 DEF DeliveryInv
  <2>2. behind(c)' /\ ~behind(c)
    BY <1>1, <1>3, WalkBegins
  <2> QED
    BY <1>1, <2>1, <2>2 DEF MissedNothing, DeliveryInv
<1> QED
  BY <1>1, <1>2, <1>3 DEF DeliveryInv

(* What walk_step gives to the client of the record it is at, if that is   *)
(* still connected; nobody else gets anything.                             *)
LEMMA WalkSends ==
    ASSUME ClientsInv, DeliveryInv, walk_step, app.i <= Len(m_clients)
    PROVE  /\ locked /\ app \in Walks
           /\ app.i \in 1..Len(m_clients)
           /\ app' = [app EXCEPT !.i = app.i + 1]
           /\ app' \in Walks
           /\ delivered' \in [Clients -> Seq(Messages)]
           /\ \A c \in Clients : c # m_clients[app.i].connection =>
                delivered'[c] = delivered[c]
           /\ connection[m_clients[app.i].connection] = "open" =>
                \E way \in {"osc", "ws"} :
                  /\ way = "osc" => app.kind = "value"
                  /\ delivered'[m_clients[app.i].connection] =
                       Append(delivered[m_clients[app.i].connection], message(way))
<1> DEFINE r == m_clients[app.i]
           c == r.connection
<1>1. locked /\ app \in Walks /\ running /\ Matched
  BY DEF walk_step, locked, running, DeliveryInv, ClientsInv
<1>2. app.i \in 1..Len(m_clients)
  BY <1>1, Finds DEF Walks
<1>3. app' = [app EXCEPT !.i = app.i + 1]
  BY DEF walk_step
<1>4. app' \in Walks
  BY <1>1, <1>3 DEF Walks
<1>5. c \in Clients /\ r.sender \in {NoClient, c} /\ connection[c] \in {"open", "lost"}
  BY <1>1, <1>2, Finds DEF Matched, Records
<1>6. \A way \in {"osc", "ws"} : message(way) \in Messages
  BY <1>1 DEF message, Messages, Walks, DeliveryInv
<1>7. send_to(r)
  BY DEF walk_step
<1> HIDE DEF c
<1>8. \/ \E way \in {"osc", "ws"} :
           /\ way = "osc" => app.kind = "value"
           /\ delivered' = [delivered EXCEPT ![c] = Append(delivered[c], message(way))]
      \/ connection[c] # "open" /\ delivered' = delivered
  <2>1. CASE r.sender # NoClient /\ app.kind = "value"
    BY <2>1, <1>5, <1>7 DEF send_to
  <2>2. CASE ~(r.sender # NoClient /\ app.kind = "value")
    BY <2>2, <1>5, <1>7 DEF send_to, c
  <2> QED
    BY <2>1, <2>2
<1>9. CASE connection[c] # "open" /\ delivered' = delivered
  BY <1>1, <1>2, <1>3, <1>4, <1>9 DEF DeliveryInv, c
<1>10. CASE \E way \in {"osc", "ws"} :
              /\ way = "osc" => app.kind = "value"
              /\ delivered' = [delivered EXCEPT ![c] = Append(delivered[c], message(way))]
  <2>1. PICK way \in {"osc", "ws"} :
              /\ way = "osc" => app.kind = "value"
              /\ delivered' = [delivered EXCEPT ![c] = Append(delivered[c], message(way))]
    BY <1>10
  <2> DEFINE new == Append(delivered[c], message(way))
  <2>2. new \in Seq(Messages)
    BY <1>5, <1>6 DEF DeliveryInv
  <2> HIDE DEF new
  <2>3. delivered' = [delivered EXCEPT ![c] = new]
    BY <2>1 DEF new
  <2>4. /\ delivered' \in [Clients -> Seq(Messages)]
        /\ delivered'[c] = new
        /\ \A d \in Clients : d # c => delivered'[d] = delivered[d]
    BY <2>2, <2>3, <1>5 DEF DeliveryInv
  <2> QED
    BY <1>1, <1>2, <1>3, <1>4, <2>1, <2>4 DEF new, c
<1> QED
  BY <1>8, <1>9, <1>10

(* The walk is behind the client it was at, and where it was for others.   *)
LEMMA WalkPasses ==
    ASSUME ClientsInv, DeliveryInv, walk_step, app.i <= Len(m_clients),
           NEW c \in Clients, connection[c] = "open"
    PROVE  /\ c = m_clients[app.i].connection => behind(c) /\ ~behind(c)'
           /\ c # m_clients[app.i].connection => behind(c)' = behind(c)
<1>1. /\ locked /\ app \in Walks /\ app.i \in 1..Len(m_clients)
      /\ app' = [app EXCEPT !.i = app.i + 1]
  BY WalkSends
<1>2. app'.at = "walk" /\ app'.i = app.i + 1 /\ app.i \in Nat
  BY <1>1 DEF Walks
<1>3. m_clients' = m_clients /\ find(c)' = find(c) /\ locked'
  BY <1>2 DEF walk_step, clients, find, locked
<1>4. Matched
  BY <1>1 DEF locked, running, ClientsInv
<1>5. CASE c = m_clients[app.i].connection
  <2>1. find(c) = {app.i}
    BY <1>1, <1>4, <1>5, Finds DEF Matched
  <2> QED
    BY <1>1, <1>2, <1>3, <1>5, <2>1 DEF behind
<1>6. CASE c # m_clients[app.i].connection
  <2>1. app.i \notin find(c) /\ find(c) \subseteq Nat
    BY <1>6, Finds
  <2>2. \A i \in find(c) : i >= app.i <=> i >= app.i + 1
    BY <2>1, <1>2
  <2> QED
    BY <1>1, <1>2, <1>3, <1>6, <2>2 DEF behind
<1> QED
  BY <1>5, <1>6

(* One step of a walk: one client gets the message and is not behind.      *)
LEMMA DeliveryWalkStep ==
    ASSUME ClientsInv, DeliveryInv, walk_step
    PROVE  DeliveryInv'
<1>1. /\ UNCHANGED <<connection, m_clients, sent, joined, m_functionQueue>>
      /\ locked /\ running
  BY DEF walk_step, clients, queue, locked, running
<1>2. CASE app.i <= Len(m_clients)
  <2>1. Matched /\ app.i \in 1..Len(m_clients)
    BY <1>1, <1>2, WalkSends DEF ClientsInv
  <2>2. PICK b \in Clients : b = m_clients[app.i].connection /\ connection[b] # "none"
    BY <2>1, Finds DEF Matched, Records
  <2>3. ASSUME NEW c \in Clients, connection[c] = "none" PROVE delivered'[c] = <<>>
    BY <2>2, <2>3, <1>1, <1>2, WalkSends DEF DeliveryInv
  <2>4. ASSUME NEW c \in Clients, connection[c] = "open", c # b PROVE MissedNothing(c)'
    <3>1. behind(c)' = behind(c) /\ delivered'[c] = delivered[c]
      BY <2>2, <2>4, <1>2, WalkPasses, WalkSends
    <3>2. MissedNothing(c)
      BY <2>4, <1>1 DEF DeliveryInv
    <3> QED
      BY <3>1, <3>2, <1>1 DEF MissedNothing
  <2>5. ASSUME connection[b] = "open" PROVE MissedNothing(b)'
    <3> DEFINE old == delivered[b]
               n == Len(old)
    <3>1. behind(b) /\ ~behind(b)' /\ MissedNothing(b)
      BY <2>2, <2>5, <1>1, <1>2, WalkPasses DEF DeliveryInv
    <3>2. PICK way \in {"osc", "ws"} : /\ way = "osc" => app.kind = "value"
                                       /\ delivered'[b] = Append(old, message(way))
      BY <2>2, <2>5, <1>2, WalkSends
    <3>3. old \in Seq(Messages) /\ n \in Nat /\ joined[b] \in Nat /\ sent \in Nat
      BY <2>2 DEF DeliveryInv
    <3>4. n = sent - joined[b] - 1
      BY <3>1 DEF MissedNothing
    <3>5. /\ Len(delivered'[b]) = n + 1
          /\ delivered'[b][n + 1] = message(way)
          /\ \A k \in 1..n : delivered'[b][k] = old[k]
      BY <3>2, <3>3
    <3>6. message(way).n = sent /\ message(way).way = way /\ message(way).kind = app.kind
      BY DEF message
    <3>7. \A k \in 1..n : /\ old[k].n = joined[b] + k
                          /\ old[k].way = "osc" => old[k].kind = "value"
      BY <3>1 DEF MissedNothing
    <3> HIDE DEF old, n
    <3>8. \A k \in 1..(n + 1) :
            /\ delivered'[b][k].n = joined[b] + k
            /\ delivered'[b][k].way = "osc" => delivered'[b][k].kind = "value"
      <4> SUFFICES ASSUME NEW k \in 1..(n + 1)
                   PROVE  /\ delivered'[b][k].n = joined[b] + k
                          /\ delivered'[b][k].way = "osc" =>
                               delivered'[b][k].kind = "value"
        OBVIOUS
      <4>1. CASE k = n + 1
        <5>1. joined[b] + k = sent
          BY <4>1, <3>3, <3>4
        <5> QED
          BY <4>1, <5>1, <3>2, <3>5, <3>6
      <4>2. CASE k \in 1..n
        BY <4>2, <3>5, <3>7
      <4> QED
        BY <4>1, <4>2, <3>3
    <3>9. Len(delivered'[b]) = sent - joined[b] - 0
      BY <3>3, <3>4, <3>5
    <3> QED
      BY <1>1, <3>1, <3>5, <3>8, <3>9 DEF MissedNothing
  <2>6. app' \in Walks /\ delivered' \in [Clients -> Seq(Messages)]
    BY <1>2, WalkSends
  <2> QED
    BY <1>1, <2>3, <2>4, <2>5, <2>6 DEF DeliveryInv
<1>3. CASE ~(app.i <= Len(m_clients))
  <2>1. app' = Idle /\ delivered' = delivered
    BY <1>3 DEF walk_step
  <2>2. ~locked' /\ app.i \in Nat /\ Len(m_clients) \in Nat
    BY <1>1, <2>1, Finds DEF locked, Idle, DeliveryInv, Walks
  <2>3. \A c \in Clients : ~behind(c) /\ ~behind(c)'
    BY <1>3, <2>2, Finds DEF behind
  <2>4. \A c \in Clients : MissedNothing(c) => MissedNothing(c)'
    BY <1>1, <2>1, <2>3 DEF MissedNothing
  <2> HIDE DEF MissedNothing
  <2> QED
    BY <1>1, <2>1, <2>2, <2>4 DEF DeliveryInv
<1> QED
  BY <1>2, <1>3

LEMMA DeliveryStep == ClientsInv /\ DeliveryInv /\ [Next]_vars => DeliveryInv'
<1> SUFFICES ASSUME ClientsInv, DeliveryInv, [Next]_vars PROVE DeliveryInv'
  OBVIOUS
<1> USE DEF clients, out, queue
<1>0. m_functionQueue \in Seq(Nat)
  BY DEF DeliveryInv
<1>1. CASE UNCHANGED vars
  BY <1>0, <1>1, DeliveryKept DEF vars, find
<1>2. ASSUME NEW c \in Clients, on_connectionOpen(c) PROVE DeliveryInv'
  BY <1>2, DeliveryOpen
<1>3. ASSUME NEW c \in Clients, connection_lost(c) PROVE DeliveryInv'
  BY <1>0, <1>3, DeliveryKept DEF connection_lost, find, ClientsInv
<1>4. ASSUME NEW c \in Clients, on_connectionClosed(c) PROVE DeliveryInv'
  BY <1>4, DeliveryClose
<1>5. ASSUME NEW c \in Clients, start_osc_streaming(c) PROVE DeliveryInv'
  BY <1>0, <1>5, DeliveryKept DEF start_osc_streaming, find
<1>6. ASSUME NEW c \in Clients, on_OSCMessage(c) PROVE DeliveryInv'
  BY <1>0, <1>6, DeliveryKept DEF on_OSCMessage, echo_start, find
<1>7. ASSUME NEW c \in Clients, on_BinaryWSrequest(c) PROVE DeliveryInv'
  BY <1>0, <1>7, DeliveryKept DEF on_BinaryWSrequest, echo_start, find
<1>8. ASSUME NEW port \in {NoClient, handler.client}, open_osc_sender(port)
      PROVE  DeliveryInv'
  BY <1>0, <1>8, DeliveryKept, SenderFinds DEF open_osc_sender
<1>9. CASE request_edit
  <2>1. m_functionQueue' = Append(m_functionQueue, Len(asked) + 1)
    BY <1>9 DEF request_edit
  <2> QED
    BY <1>0, <1>9, DeliveryKept DEF request_edit, find
<1>10. ASSUME NEW kind \in {"event", "value"}, send(kind) PROVE DeliveryInv'
  BY <1>0, <1>10, DeliveryWalk DEF send, Kinds
<1>11. CASE run_commands
  <2>1. Head(m_functionQueue) \in Nat /\ Tail(m_functionQueue) \in Seq(Nat)
    BY <1>0, <1>11 DEF run_commands
  <2> QED
    BY <1>11, <2>1, DeliveryWalk DEF run_commands, Kinds
<1>12. CASE walk_step
  BY <1>12, DeliveryWalkStep
<1>13. CASE stop
  <2>1. <<>> \in Seq(Messages)
    OBVIOUS
  <2> QED
    BY <1>0, <1>13, <2>1 DEF stop, DeliveryInv, running, locked
<1>14. CASE stop_close \/ stop_erase \/ stop_server
  BY <1>14 DEF stop_close, stop_erase, stop_server, DeliveryInv, running, locked
<1>15. ASSUME NEW t \in DOMAIN echo, echo_step(t) PROVE DeliveryInv'
  BY <1>0, <1>15, DeliveryKept DEF echo_step, find
<1>16. ASSUME NEW c \in Clients, on_connectionOpen_fails(c) PROVE DeliveryInv'
  BY <1>0, <1>16, DeliveryKept DEF on_connectionOpen_fails, find, ClientsInv
<1> QED
  BY <1>1, <1>2, <1>3, <1>4, <1>5, <1>6, <1>7, <1>8, <1>9, <1>10, <1>11, <1>12,
     <1>13, <1>14, <1>15, <1>16 DEF Next

(* However many clients connect, stream and go away while messages are     *)
(* sent to all, one whose connection is open has every message since it    *)
(* came, once and in the order of sending.                                 *)
THEOREM NothingMissedCorrect == Spec => []NothingMissed
<1>1. Init => ClientsInv /\ DeliveryInv
  BY ClientsInit, DeliveryInit
<1>2. ClientsInv /\ DeliveryInv /\ [Next]_vars => ClientsInv' /\ DeliveryInv'
  BY ClientsStep, DeliveryStep
<1>3. DeliveryInv => NothingMissed
  BY DEF DeliveryInv, NothingMissed, MissedNothing
<1> QED
  BY <1>1, <1>2, <1>3, PTL DEF Spec

-----------------------------------------------------------------------------
LEMMA RequestsInit == Init => RequestsInv
<1> SUFFICES ASSUME Init PROVE RequestsInv
  OBVIOUS
<1>1. asked \in Seq(SUBSET Clients) /\ Len(asked) = 0 /\ Len(m_functionQueue) = 0
  BY DEF Init
<1> QED
  BY <1>1 DEF Init, RequestsInv, Idle, locked

(* The numbers of the requests.                                            *)
LEMMA Counts ==
    ASSUME DeliveryInv, RequestsInv
    PROVE  /\ Len(asked) \in Nat /\ Len(m_functionQueue) \in Nat /\ served \in Nat
           /\ served <= Len(asked)
           /\ \A q \in 1..Len(asked) : asked[q] \subseteq Clients
BY DEF DeliveryInv, RequestsInv, served

(* A client that was told stays told, if it is given no more.              *)
LEMMA ToldKept ==
    ASSUME NEW c, NEW q, Told(c, q), delivered'[c] = delivered[c],
           behind(c) /\ app.request = q => behind(c)' /\ app'.request = q
    PROVE  Told(c, q)'
BY DEF Told

(* A step that neither asks, nor serves, nor delivers.                     *)
LEMMA RequestsKept ==
    ASSUME DeliveryInv, RequestsInv,
           UNCHANGED <<app, delivered, asked, m_functionQueue>>,
           \A c \in Clients : find(c)' = find(c),
           \A c \in Clients : connection'[c] \in {connection[c], "lost", "unlisted"}
    PROVE  RequestsInv'
<1>1. \A c \in Clients : behind(c)' = behind(c)
  BY DEF behind, locked
<1>2. served' = served
  BY DEF served
<1>3. ASSUME running', NEW q \in 1..Len(asked'), NEW c \in asked'[q]
      PROVE  /\ connection'[c] # "none"
             /\ q <= served' /\ connection'[c] = "open" => Told(c, q)'
  <2>1. running /\ c \in Clients
    BY <1>3, Counts DEF running
  <2>2. Told(c, q) => Told(c, q)'
    BY <1>1, <2>1, ToldKept
  <2> QED
    BY <1>2, <1>3, <2>1, <2>2 DEF RequestsInv
<1> QED
  BY <1>2, <1>3 DEF RequestsInv, locked

(* A client comes or goes, while there is no walk.                         *)
LEMMA RequestsClient ==
    ASSUME DeliveryInv, RequestsInv, ~locked, connection \in [Clients -> States],
           UNCHANGED <<app, asked, m_functionQueue>>,
           NEW c \in Clients, NEW state \in {"open", "closed"},
           state = "open" => connection[c] = "none",
           connection' = [connection EXCEPT ![c] = state],
           \A d \in Clients \ {c} : delivered'[d] = delivered[d]
    PROVE  RequestsInv'
<1>1. ~locked' /\ \A d : ~behind(d)
  BY DEF locked, behind
<1>2. served' = served
  BY DEF served
<1>3. ASSUME running', NEW q \in 1..Len(asked'), NEW d \in asked'[q]
      PROVE  /\ connection'[d] # "none"
             /\ q <= served' /\ connection'[d] = "open" => Told(d, q)'
  <2>1. running /\ d \in Clients /\ connection[d] # "none"
    BY <1>3, Counts DEF running, RequestsInv
  <2>2. CASE d = c
    BY <2>1, <2>2
  <2>3. CASE d # c
    <3>1. connection'[d] = connection[d] /\ delivered'[d] = delivered[d]
      BY <2>1, <2>3
    <3>2. Told(d, q) => Told(d, q)'
      BY <1>1, <3>1, ToldKept
    <3> QED
      BY <1>2, <1>3, <2>1, <3>1, <3>2 DEF RequestsInv
  <2> QED
    BY <2>2, <2>3
<1> QED
  BY <1>1, <1>2, <1>3 DEF RequestsInv

(* A new request is the last of the queue, and nobody was told of it.      *)
LEMMA RequestsAsk ==
    ASSUME ClientsInv, DeliveryInv, RequestsInv, request_edit
    PROVE  RequestsInv'
<1> DEFINE now == {m_clients[i].connection : i \in DOMAIN m_clients}
           n == Len(m_functionQueue)
           a == Len(asked)
<1>1. /\ UNCHANGED <<app, delivered, connection, m_clients>>
      /\ asked' = Append(asked, now)
      /\ m_functionQueue' = Append(m_functionQueue, a + 1)
  BY DEF request_edit, clients, out
<1>2. now \subseteq Clients
  BY Finds DEF Records
<1>3. running => \A c \in now : connection[c] # "none"
  BY Finds DEF ClientsInv, Matched
<1>4. a \in Nat /\ n \in Nat /\ asked \in Seq(SUBSET Clients) /\ m_functionQueue \in Seq(Nat)
  BY Counts DEF RequestsInv, DeliveryInv
<1> HIDE DEF now
<1>5. /\ asked' \in Seq(SUBSET Clients) /\ Len(asked') = a + 1
      /\ asked'[a + 1] = now
      /\ \A q \in 1..a : asked'[q] = asked[q]
  BY <1>1, <1>2, <1>4
<1>6. /\ Len(m_functionQueue') = n + 1
      /\ m_functionQueue'[n + 1] = a + 1
      /\ \A k \in 1..n : m_functionQueue'[k] = m_functionQueue[k]
  BY <1>1, <1>4
<1>7. served' = served /\ served = a - n /\ n <= a
  BY <1>4, <1>5, <1>6 DEF served, RequestsInv
<1>8. \A k \in 1..(n + 1) : m_functionQueue'[k] = served' + k
  <2> SUFFICES ASSUME NEW k \in 1..(n + 1) PROVE m_functionQueue'[k] = served' + k
    OBVIOUS
  <2>1. CASE k = n + 1
    BY <2>1, <1>4, <1>6, <1>7
  <2>2. CASE k \in 1..n
    BY <2>2, <1>6, <1>7 DEF RequestsInv
  <2> QED
    BY <2>1, <2>2, <1>4
<1>9. \A c : behind(c)' = behind(c)
  BY <1>1 DEF behind, locked, find
<1>10. ASSUME running', NEW q \in 1..(a + 1), NEW c \in asked'[q]
       PROVE  /\ connection'[c] # "none"
              /\ q <= served' /\ connection'[c] = "open" => Told(c, q)'
  <2>1. running
    BY <1>1, <1>10 DEF running
  <2>2. CASE q = a + 1
    <3>1. connection'[c] # "none"
      BY <1>1, <1>3, <1>5, <1>10, <2>1, <2>2
    <3> QED
      BY <1>4, <1>7, <2>2, <3>1
  <2>3. CASE q \in 1..a
    <3>1. Told(c, q) => Told(c, q)'
      BY <1>1, <1>9, ToldKept
    <3>2. c \in asked[q]
      BY <1>5, <1>10, <2>3
    <3> QED
      BY <1>1, <1>7, <2>1, <2>3, <3>1, <3>2 DEF RequestsInv
  <2> QED
    BY <2>2, <2>3, <1>4
<1>11. n + 1 <= a + 1
  BY <1>4, <1>7
<1>12. locked' => /\ app'.request \in {0, served'}
                  /\ app'.request # 0 => app'.kind = "event"
  BY <1>1, <1>7 DEF RequestsInv, locked
<1> HIDE DEF a, n
<1> QED
  BY <1>5, <1>6, <1>8, <1>10, <1>11, <1>12 DEF RequestsInv

(* send and run_commands: a walk begins, of a request that was asked or of *)
(* none, and those served before stay so.                                  *)
LEMMA RequestsWalk ==
    ASSUME ClientsInv, DeliveryInv, RequestsInv, app = Idle,
           NEW kind, NEW r, walk(kind, r), asked' = asked,
           Len(m_functionQueue') \in Nat, Len(m_functionQueue') <= Len(asked),
           \A k \in 1..Len(m_functionQueue') : m_functionQueue'[k] = served' + k,
           \/ r = 0 /\ served' = served
           \/ r = served' /\ served' = served + 1 /\ kind = "event"
    PROVE  RequestsInv'
<1>1. /\ ~locked /\ running /\ UNCHANGED <<connection, delivered>>
      /\ app' = [at |-> "walk", i |-> 1, kind |-> kind, request |-> r]
  BY DEF walk, locked, Idle, running
<1>2. ASSUME NEW q \in 1..Len(asked), NEW c \in asked[q]
      PROVE  /\ connection'[c] # "none"
             /\ q <= served' /\ connection'[c] = "open" => Told(c, q)'
  <2>1. c \in Clients /\ connection[c] # "none"
    BY <1>1, Counts DEF RequestsInv
  <2>2. ASSUME q <= served, connection[c] = "open" PROVE Told(c, q)'
    <3>1. Told(c, q) /\ ~behind(c)
      BY <1>1, <2>2 DEF RequestsInv, behind
    <3> QED
      BY <1>1, <3>1, ToldKept
  <2>3. ASSUME q = served', r = served', connection[c] = "open" PROVE Told(c, q)'
    <3>1. behind(c)'
      BY <2>1, <2>3, WalkBegins
    <3> QED
      BY <1>1, <2>3, <3>1 DEF Told
  <2> QED
    BY <1>1, <2>1, <2>2, <2>3, Counts
<1>3. /\ app'.request \in {0, served'}
      /\ app'.request # 0 => app'.kind = "event"
  BY <1>1
<1>4. asked' \in Seq(SUBSET Clients)
  BY DEF RequestsInv
<1> QED
  BY <1>2, <1>3, <1>4 DEF RequestsInv

(* The event of a request is appended: earlier requests stay told.         *)
LEMMA RequestsWalkStep ==
    ASSUME ClientsInv, DeliveryInv, RequestsInv, walk_step
    PROVE  RequestsInv'
<1>1. /\ UNCHANGED <<connection, m_clients, asked, m_functionQueue>>
      /\ locked /\ running /\ app \in Walks
  BY DEF walk_step, clients, queue, locked, running, DeliveryInv
<1>2. served' = served /\ served \in Nat
  BY <1>1, Counts DEF served
<1>3. CASE app.i <= Len(m_clients)
  <2>1. /\ app.i \in 1..Len(m_clients) /\ app' = [app EXCEPT !.i = app.i + 1]
        /\ app' \in Walks
    BY <1>3, WalkSends
  <2>2. app'.request = app.request /\ app'.kind = app.kind /\ app.request \in Nat
    BY <1>1, <2>1 DEF Walks
  <2>3. app.request \in {0, served} /\ (app.request # 0 => app.kind = "event")
    BY <1>1 DEF RequestsInv
  <2>4. ASSUME NEW q \in 1..Len(asked), NEW c \in asked[q],
               q <= served, connection[c] = "open"
        PROVE  Told(c, q)'
    <3>1. c \in Clients /\ Told(c, q) /\ q \in Nat \ {0}
      BY <1>1, <2>4, Counts DEF RequestsInv
    <3>2. CASE c # m_clients[app.i].connection
      <4>1. behind(c)' = behind(c) /\ delivered'[c] = delivered[c]
        BY <1>3, <2>4, <3>1, <3>2, WalkPasses, WalkSends
      <4> QED
        BY <2>2, <3>1, <4>1, ToldKept
    <3>3. CASE c = m_clients[app.i].connection
      <4> DEFINE old == delivered[c]
                 n == Len(old)
      <4>1. PICK way \in {"osc", "ws"} :
              /\ way = "osc" => app.kind = "value"
              /\ delivered'[c] = Append(old, message(way))
        BY <1>3, <2>4, <3>3, WalkSends
      <4>2. old \in Seq(Messages) /\ n \in Nat
        BY <3>1 DEF DeliveryInv
      <4>3. message(way).request = app.request /\ message(way).way = way
        BY DEF message
      <4>4. /\ Len(delivered'[c]) = n + 1
            /\ delivered'[c][n + 1] = message(way)
            /\ \A k \in 1..n : delivered'[c][k] = old[k]
        BY <4>1, <4>2
      <4>5. CASE app.request = q
        <5>1. way = "ws"
          BY <2>3, <3>1, <4>1, <4>5
        <5>2. (n + 1) + 1 \in Nat /\ \A l \in ((n + 1) + 1)..(n + 1) : FALSE
          BY <4>2
        <5>3. n + 1 \in 1..Len(delivered'[c])
          BY <4>2, <4>4
        <5> QED
          BY <4>3, <4>4, <4>5, <5>1, <5>2, <5>3 DEF Told
      <4>6. CASE app.request # q
        <5>1. app.request \notin 1..q
          BY <1>2, <2>3, <2>4, <3>1, <4>6
        <5>2. PICK k \in 1..n :
                /\ old[k].request = q /\ old[k].way = "ws"
                /\ \A l \in (k + 1)..n : old[l].request \notin 1..q
          BY <3>1, <4>6 DEF Told
        <5> HIDE DEF old, n
        <5>3. \A l \in (k + 1)..(n + 1) : delivered'[c][l].request \notin 1..q
          <6> SUFFICES ASSUME NEW l \in (k + 1)..(n + 1)
                       PROVE  delivered'[c][l].request \notin 1..q
            OBVIOUS
          <6>1. CASE l = n + 1
            BY <6>1, <4>3, <4>4, <5>1
          <6>2. CASE l # n + 1
            <7>1. l \in (k + 1)..n /\ l \in 1..n
              BY <6>2, <4>2
            <7> QED
              BY <7>1, <4>4, <5>2
          <6> QED
            BY <6>1, <6>2
        <5>4. k \in 1..(n + 1) /\ delivered'[c][k] = old[k]
          BY <4>2, <4>4
        <5> QED
          BY <4>4, <5>2, <5>3, <5>4 DEF Told
      <4> QED
        BY <4>5, <4>6
    <3> QED
      BY <3>2, <3>3
  <2> QED
    BY <1>1, <1>2, <2>2, <2>3, <2>4 DEF RequestsInv
<1>4. CASE ~(app.i <= Len(m_clients))
  <2>1. app' = Idle /\ delivered' = delivered
    BY <1>4 DEF walk_step
  <2>2. ~locked' /\ app.i \in Nat /\ Len(m_clients) \in Nat
    BY <1>1, <2>1, Finds DEF locked, Idle, Walks
  <2>3. \A c \in Clients : ~behind(c)
    BY <1>4, <2>2, Finds DEF behind
  <2>4. ASSUME NEW q \in 1..Len(asked), NEW c \in asked[q], Told(c, q)
        PROVE  Told(c, q)'
    <3>1. ~behind(c)
      BY <2>3, Counts
    <3> QED
      BY <2>1, <2>4, <3>1, ToldKept
  <2> QED
    BY <1>1, <1>2, <2>2, <2>4 DEF RequestsInv
<1> QED
  BY <1>3, <1>4

LEMMA RequestsStep ==
    ClientsInv /\ DeliveryInv /\ RequestsInv /\ [Next]_vars => RequestsInv'
<1> SUFFICES ASSUME ClientsInv, DeliveryInv, RequestsInv, [Next]_vars
             PROVE  RequestsInv'
  OBVIOUS
<1> USE DEF clients, out, queue
<1>1. CASE UNCHANGED vars
  BY <1>1, RequestsKept DEF vars, find
<1>2. ASSUME NEW c \in Clients, on_connectionOpen(c) PROVE RequestsInv'
  BY <1>2, RequestsClient DEF on_connectionOpen, ClientsInv
<1>3. ASSUME NEW c \in Clients, connection_lost(c) PROVE RequestsInv'
  BY <1>3, RequestsKept DEF connection_lost, find, ClientsInv
<1>4. ASSUME NEW c \in Clients, on_connectionClosed(c) PROVE RequestsInv'
  <2>1. \A d \in Clients \ {c} : delivered'[d] = delivered[d]
    BY <1>4 DEF on_connectionClosed, DeliveryInv
  <2> QED
    BY <1>4, <2>1, RequestsClient DEF on_connectionClosed, ClientsInv
<1>5. ASSUME NEW c \in Clients, start_osc_streaming(c) PROVE RequestsInv'
  BY <1>5, RequestsKept DEF start_osc_streaming, find
<1>6. ASSUME NEW c \in Clients, on_OSCMessage(c) PROVE RequestsInv'
  BY <1>6, RequestsKept DEF on_OSCMessage, echo_start, find
<1>7. ASSUME NEW c \in Clients, on_BinaryWSrequest(c) PROVE RequestsInv'
  BY <1>7, RequestsKept DEF on_BinaryWSrequest, echo_start, find
<1>8. ASSUME NEW port \in {NoClient, handler.client}, open_osc_sender(port)
      PROVE  RequestsInv'
  BY <1>8, RequestsKept, SenderFinds DEF open_osc_sender
<1>9. CASE request_edit
  BY <1>9, RequestsAsk
<1>10. ASSUME NEW kind \in {"event", "value"}, send(kind) PROVE RequestsInv'
  <2>1. served' = served /\ UNCHANGED <<asked, m_functionQueue>>
    BY <1>10 DEF send, served
  <2>2. /\ Len(m_functionQueue) \in Nat /\ Len(m_functionQueue) <= Len(asked)
        /\ \A k \in 1..Len(m_functionQueue) : m_functionQueue[k] = served + k
    BY Counts DEF RequestsInv
  <2> QED
    BY <1>10, <2>1, <2>2, RequestsWalk DEF send
<1>11. CASE run_commands
  <2> DEFINE n == Len(m_functionQueue)
  <2>1. /\ app = Idle /\ m_functionQueue # <<>> /\ asked' = asked
        /\ m_functionQueue' = Tail(m_functionQueue)
        /\ walk("event", Head(m_functionQueue))
    BY <1>11 DEF run_commands
  <2>2. m_functionQueue \in Seq(Nat) /\ n \in Nat \ {0}
    BY <2>1 DEF DeliveryInv
  <2>3. /\ Head(m_functionQueue) = m_functionQueue[1]
        /\ Len(m_functionQueue') = n - 1
        /\ \A k \in 1..(n - 1) : m_functionQueue'[k] = m_functionQueue[k + 1]
    BY <2>1, <2>2
  <2>4. Len(asked) \in Nat /\ served = Len(asked) - n /\ n <= Len(asked)
    BY Counts DEF served, RequestsInv
  <2>5. served' = Len(asked) - (n - 1)
    BY <2>1, <2>3 DEF served
  <2>6. \A k \in 1..n : m_functionQueue[k] = served + k
    BY DEF RequestsInv
  <2> HIDE DEF n
  <2>7. served' = served + 1 /\ Head(m_functionQueue) = served'
    BY <2>2, <2>3, <2>4, <2>5, <2>6
  <2>8. \A k \in 1..(n - 1) : m_functionQueue'[k] = served' + k
    <3> SUFFICES ASSUME NEW k \in 1..(n - 1) PROVE m_functionQueue'[k] = served' + k
      OBVIOUS
    <3>1. k + 1 \in 1..n
      BY <2>2
    <3>2. m_functionQueue'[k] = served + (k + 1)
      BY <3>1, <2>3, <2>6
    <3> QED
      BY <3>2, <2>2, <2>4, <2>7
  <2>9. n - 1 \in Nat /\ n - 1 <= Len(asked)
    BY <2>2, <2>4
  <2> QED
    BY <2>1, <2>3, <2>7, <2>8, <2>9, RequestsWalk
<1>12. CASE walk_step
  BY <1>12, RequestsWalkStep
<1>13. CASE stop
  <2>1. /\ asked' = [q \in DOMAIN asked |-> {}]
        /\ m_functionQueue' = m_functionQueue /\ app' = [at |-> "stop"]
    BY <1>13 DEF stop
  <2>2. asked' \in Seq(SUBSET Clients) /\ Len(asked') = Len(asked)
    <3>1. DOMAIN asked = 1..Len(asked) /\ Len(asked) \in Nat
      BY DEF RequestsInv
    <3>2. asked' \in [1..Len(asked) -> SUBSET Clients]
      BY <2>1, <3>1
    <3> QED
      BY <3>1, <3>2, <2>1
  <2>3. served' = served
    BY <2>1, <2>2 DEF served
  <2> QED
    BY <2>1, <2>2, <2>3 DEF RequestsInv, running, locked
<1>14. CASE stop_close \/ stop_erase \/ stop_server
  <2>1. UNCHANGED <<asked, m_functionQueue>> /\ ~running' /\ ~locked'
    BY <1>14 DEF stop_close, stop_erase, stop_server, running, locked
  <2> QED
    BY <2>1 DEF RequestsInv, served
<1>15. ASSUME NEW t \in DOMAIN echo, echo_step(t) PROVE RequestsInv'
  BY <1>15, RequestsKept DEF echo_step, find
<1>16. ASSUME NEW c \in Clients, on_connectionOpen_fails(c) PROVE RequestsInv'
  BY <1>16, RequestsKept DEF on_connectionOpen_fails, find, ClientsInv
<1> QED
  BY <1>1, <1>2, <1>3, <1>4, <1>5, <1>6, <1>7, <1>8, <1>9, <1>10, <1>11, <1>12,
     <1>13, <1>14, <1>15, <1>16 DEF Next

(* An edit that a client asked for, over HTTP or its websocket, waits in   *)
(* m_functionQueue, or every client that was connected then and still is   *)
(* was told of it, in the order of the requests, for any number of         *)
(* clients, requests and messages.                                         *)
THEOREM RequestsServedCorrect == Spec => []RequestsServed
<1> DEFINE Inv == ClientsInv /\ DeliveryInv /\ RequestsInv
<1>1. Init => Inv
  BY ClientsInit, DeliveryInit, RequestsInit
<1>2. Inv /\ [Next]_vars => Inv'
  BY ClientsStep, DeliveryStep, RequestsStep
<1>3. Inv => RequestsServed
  <2> SUFFICES ASSUME Inv, running, NEW q \in DOMAIN asked,
                      ~ \E k \in DOMAIN m_functionQueue : m_functionQueue[k] = q,
                      NEW c \in asked[q], connection[c] = "open"
               PROVE  \/ \E k \in DOMAIN delivered[c] :
                           /\ delivered[c][k].request = q
                           /\ delivered[c][k].way = "ws"
                           /\ \A l \in (k + 1)..Len(delivered[c]) :
                                delivered[c][l].request \notin 1..q
                      \/ behind(c) /\ app.request = q
    BY DEF RequestsServed
  <2>1. /\ DOMAIN asked = 1..Len(asked)
        /\ DOMAIN m_functionQueue = 1..Len(m_functionQueue)
    BY DEF RequestsInv, DeliveryInv
  <2>2. q \in 1..Len(asked) /\ c \in Clients
    BY <2>1, Counts
  <2>3. q <= served
    <3> SUFFICES ASSUME q > served PROVE FALSE
      BY <2>2, Counts
    <3> DEFINE k == q - served
    <3>1. k \in 1..Len(m_functionQueue) /\ served + k = q
      BY <2>2, Counts DEF served
    <3> QED
      BY <2>1, <3>1 DEF RequestsInv
  <2>4. Told(c, q)
    BY <2>2, <2>3 DEF RequestsInv
  <2>5. DOMAIN delivered[c] = 1..Len(delivered[c])
    BY <2>2 DEF DeliveryInv
  <2> QED
    BY <2>4, <2>5 DEF Told
<1> QED
  BY <1>1, <1>2, <1>3, PTL DEF Spec

-----------------------------------------------------------------------------
LEMMA EchoInit == Init => EchoInv
<1> SUFFICES ASSUME Init PROVE EchoInv
  OBVIOUS
<1>1. echo = [t \in {"osc", "ws"} |-> Quiet]
  BY DEF Init
<1>2. \A t \in {"osc", "ws"} : echo[t] = Quiet
  BY <1>1
<1>3. Quiet.at = "idle"
  BY DEF Quiet
<1>4. \A t \in {"osc", "ws"} : EchoOf(t)
  BY <1>2, <1>3 DEF EchoOf, Current
<1> QED
  BY <1>1, <1>4 DEF EchoInv

(* A change of m_clients leaves no walk that is current.                   *)
LEMMA EchoDisturbed ==
    ASSUME EchoInv, disturb
    PROVE  EchoInv'
<1>1. DOMAIN echo = {"osc", "ws"}
  BY DEF EchoInv
<1>2. echo' = [t \in {"osc", "ws"} |-> IF echo[t].at = "walk"
                                       THEN [echo[t] EXCEPT !.clean = FALSE] ELSE Quiet]
  BY <1>1 DEF disturb
<1>3. ASSUME NEW t \in {"osc", "ws"} PROVE EchoOf(t)'
  <2>1. CASE echo[t].at # "walk"
    <3>1. echo'[t] = Quiet /\ Quiet.at = "idle"
      BY <1>2, <2>1 DEF Quiet
    <3> QED
      BY <3>1 DEF EchoOf, Current
  <2>2. CASE echo[t].at = "walk"
    <3>1. echo[t] # Quiet
      BY <2>2 DEF Quiet
    <3>2. /\ echo[t] \in Echoes
          /\ echo[t].port = IF t = "osc" THEN echo[t].source ELSE AnyPort
      BY <3>1 DEF EchoInv, EchoOf
    <3>3. echo'[t] = [echo[t] EXCEPT !.clean = FALSE]
      BY <1>2, <2>2
    <3>4. /\ echo'[t] \in Echoes /\ echo'[t].at = "walk" /\ echo'[t].clean = FALSE
          /\ echo'[t].port = echo[t].port /\ echo'[t].source = echo[t].source
      BY <2>2, <3>2, <3>3 DEF Echoes
    <3> QED
      BY <3>2, <3>4 DEF EchoOf, Current
  <2> QED
    BY <2>1, <2>2
<1> QED
  BY <1>2, <1>3 DEF EchoInv

(* A connection that is lost asks for less.                                *)
LEMMA VisitedKept ==
    ASSUME ClientsInv, m_clients' = m_clients,
           \A c \in Clients : connection'[c] = "open" => connection[c] = "open",
           NEW e, NEW j \in 1..Len(m_clients), Visited(e, j)
    PROVE  Visited(e, j)'
<1>1. m_clients[j].connection \in Clients
  BY Finds DEF Records
<1> QED
  BY <1>1 DEF Visited

(* A step that changes no record and opens no connection.                  *)
LEMMA EchoKept ==
    ASSUME ClientsInv, EchoInv, UNCHANGED <<m_clients, echo>>, running' => running,
           \A c \in Clients : connection'[c] = "open" => connection[c] = "open"
    PROVE  EchoInv'
<1>1. ASSUME NEW t \in {"osc", "ws"}, EchoOf(t) PROVE EchoOf(t)'
  <2>1. \A e : \A j \in 1..Len(m_clients) : Visited(e, j) => Visited(e, j)'
    BY VisitedKept
  <2> HIDE DEF Visited
  <2> QED
    BY <1>1, <2>1 DEF EchoOf, Current
<1> QED
  BY <1>1 DEF EchoInv

(* A walk begins at the first record and has sent nothing.                 *)
LEMMA EchoStart ==
    ASSUME ClientsInv, EchoInv, NEW t \in {"osc", "ws"}, NEW c \in Clients, NEW port,
           port = IF t = "osc" THEN c ELSE AnyPort, echo_start(t, c, port)
    PROVE  EchoInv'
<1> DEFINE e == [at |-> "walk", i |-> 1, source |-> c, port |-> port,
                 to |-> {}, clean |-> TRUE]
<1>1. /\ echo' = [echo EXCEPT ![t] = e]
      /\ UNCHANGED <<m_clients, connection, app>>
  BY DEF echo_start, clients
<1>2. /\ e \in Echoes /\ e.at = "walk" /\ e.i = 1 /\ e.to = {}
      /\ e.port = port /\ e.source = c
  BY DEF Echoes
<1>3. \A j \in 1..Len(m_clients) : Visited(e, j)'
  <2>1. \A j \in 1..Len(m_clients) : ~(j < e.i)
    BY <1>2, Finds
  <2> HIDE DEF e
  <2> QED
    BY <1>2, <2>1 DEF Visited
<1>4. e # Quiet
  BY <1>2 DEF Quiet
<1> HIDE DEF e
<1>5. echo' = [s \in {"osc", "ws"} |-> IF s = t THEN e ELSE echo[s]]
  BY <1>1 DEF EchoInv
<1>6. ASSUME NEW s \in {"osc", "ws"} PROVE EchoOf(s)'
  <2>1. CASE s = t
    <3>1. echo'[s] = e
      BY <1>5, <2>1
    <3> QED
      BY <1>1, <1>2, <1>3, <2>1, <3>1 DEF EchoOf, Current
  <2>2. CASE s # t
    <3>1. echo'[s] = echo[s] /\ EchoOf(s)
      BY <1>5, <2>2 DEF EchoInv
    <3>2. \A j \in 1..Len(m_clients) : Visited(echo[s], j)' = Visited(echo[s], j)
      BY <1>1, <3>1 DEF Visited
    <3> HIDE DEF Visited
    <3> QED
      BY <1>1, <3>1, <3>2 DEF EchoOf, Current, running
  <2> QED
    BY <2>1, <2>2
<1> QED
  BY <1>5, <1>6 DEF EchoInv

(* The record e.i is visited: its client is sent to or not, no other is.   *)
LEMMA VisitedNext ==
    ASSUME ClientsInv, running, NEW e \in Echoes, NEW f \in Echoes,
           e.i <= Len(m_clients),
           f.i = e.i + 1, f.port = e.port,
           f.to = e.to \cup echoed_to(m_clients[e.i], e.port),
           NEW j \in 1..Len(m_clients), Visited(e, j)
    PROVE  Visited(f, j)
<1> DEFINE r == m_clients[j]
           s == m_clients[e.i]
<1>1. Matched /\ e.i \in 1..Len(m_clients) /\ j \in Nat /\ e.i \in Nat
  BY Finds DEF ClientsInv, Echoes
<1>2. /\ r.connection \in Clients /\ r.sender \in {NoClient, r.connection}
      /\ s.connection \in Clients /\ s.sender \in {NoClient, s.connection}
  BY <1>1, Finds DEF Matched, Records
<1>3. echoed_to(s, e.port) \subseteq {s.connection}
  BY <1>2 DEF echoed_to
<1>4. CASE j = e.i
  <2>1. ~(j < e.i) /\ j < f.i /\ r = s
    BY <1>1, <1>4
  <2>2. r.connection \notin e.to
    BY <2>1 DEF Visited
  <2>3. r.connection \in f.to <=> r.connection \in echoed_to(r, e.port)
    BY <2>1, <2>2
  <2>4. r.connection \in echoed_to(r, e.port) <=>
          IF r.sender # NoClient THEN e.port # r.remote_sender_port
          ELSE connection[r.connection] = "open"
    BY <1>2 DEF echoed_to
  <2> QED
    BY <2>1, <2>3, <2>4 DEF Visited
<1>5. CASE j # e.i
  <2>1. j < f.i <=> j < e.i
    BY <1>1, <1>5
  <2>2. r.connection # s.connection
    BY <1>1, <1>5 DEF Matched
  <2>3. r.connection \in f.to <=> r.connection \in e.to
    BY <1>3, <2>2
  <2> QED
    BY <2>1, <2>3 DEF Visited
<1> QED
  BY <1>4, <1>5

(* One step of an echo: the record it stands at is visited.                *)
LEMMA EchoWalks ==
    ASSUME ClientsInv, EchoInv, NEW t \in {"osc", "ws"}, echo_step(t)
    PROVE  EchoInv'
<1>1. PICK e : e = echo[t]
  OBVIOUS
<1>2. UNCHANGED <<m_clients, connection, app>> /\ e.at = "walk"
  BY <1>1 DEF echo_step, clients
<1>3. /\ e \in Echoes /\ e # Quiet
      /\ e.port = IF t = "osc" THEN e.source ELSE AnyPort
      /\ running /\ e.clean => \A j \in 1..Len(m_clients) : Visited(e, j)
  <2>1. e # Quiet
    BY <1>2 DEF Quiet
  <2> QED
    BY <1>1, <1>2, <2>1 DEF EchoInv, EchoOf, Current
<1>4. \A f, j : Visited(f, j)' = Visited(f, j)
  BY <1>2 DEF Visited
<1>5. ASSUME NEW f, echo' = [echo EXCEPT ![t] = f],
             f = Quiet \/ f \in Echoes,
             f # Quiet => f.port = e.port /\ f.source = e.source,
             running /\ Current(f) =>
               /\ f.at = "done" => f.i > Len(m_clients)
               /\ \A j \in 1..Len(m_clients) : Visited(f, j)
      PROVE  EchoInv'
  <2>1. echo' = [s \in {"osc", "ws"} |-> IF s = t THEN f ELSE echo[s]]
    BY <1>5 DEF EchoInv
  <2>2. running' = running
    BY <1>2 DEF running
  <2>3. ASSUME NEW s \in {"osc", "ws"} PROVE EchoOf(s)'
    <3>1. CASE s = t
      <4>1. echo'[s] = f
        BY <2>1, <3>1
      <4>2. f # Quiet => f.port = IF s = "osc" THEN f.source ELSE AnyPort
        BY <1>3, <1>5, <3>1
      <4>3. running' /\ Current(f) => \A j \in 1..Len(m_clients) : Visited(f, j)'
        BY <1>4, <1>5, <2>2
      <4> HIDE DEF Visited, Current
      <4>4. /\ Current(echo[s])' = Current(f)
            /\ \A j : Visited(echo[s], j)' = Visited(f, j)'
        BY <4>1 DEF Current, Visited
      <4> QED
        BY <1>2, <1>5, <2>2, <4>1, <4>2, <4>3, <4>4 DEF EchoOf
    <3>2. CASE s # t
      <4>1. echo'[s] = echo[s] /\ EchoOf(s)
        BY <2>1, <3>2 DEF EchoInv
      <4>2. /\ Current(echo[s])' = Current(echo[s])
            /\ \A j : Visited(echo[s], j)' = Visited(echo[s], j)
        BY <4>1, <1>2 DEF Current, Visited
      <4> HIDE DEF Visited, Current
      <4> QED
        BY <1>2, <2>2, <4>1, <4>2 DEF EchoOf
    <3> QED
      BY <3>1, <3>2
  <2> QED
    BY <2>1, <2>3 DEF EchoInv
<1>6. CASE e.clean /\ e.i <= Len(m_clients)
  <2> DEFINE f == [e EXCEPT !.i = e.i + 1,
                            !.to = e.to \cup echoed_to(m_clients[e.i], e.port)]
  <2>1. echo' = [echo EXCEPT ![t].i = @ + 1,
                            ![t].to = @ \cup echoed_to(m_clients[e.i], e.port)]
    <3>1. ~(e.i > Len(m_clients))
      BY <1>3, <1>6, Finds DEF Echoes
    <3> QED
      BY <1>1, <1>6, <3>1 DEF echo_step
  <2>2. /\ f.i = e.i + 1 /\ f.at = "walk" /\ f.port = e.port /\ f.source = e.source
        /\ f.to = e.to \cup echoed_to(m_clients[e.i], e.port)
    BY <1>2, <1>3 DEF Echoes
  <2>3. f \in Echoes
    <3>1. e.i \in 1..Len(m_clients)
      BY <1>3, <1>6, Finds DEF Echoes
    <3>2. m_clients[e.i] \in Records
      BY <3>1, Finds
    <3>3. echoed_to(m_clients[e.i], e.port) \subseteq Clients
      BY <3>2 DEF echoed_to, Records
    <3>4. e.i + 1 \in Nat \ {0}
      BY <1>3 DEF Echoes
    <3>5. PICK to \in SUBSET Clients :
            to = e.to \cup echoed_to(m_clients[e.i], e.port)
      BY <1>3, <3>3 DEF Echoes
    <3>6. f = [e EXCEPT !.i = e.i + 1, !.to = to]
      BY <3>5
    <3> HIDE DEF f
    <3> QED
      BY <1>3, <3>4, <3>6 DEF Echoes
  <2>4. echo' = [echo EXCEPT ![t] = f]
    BY <1>1, <2>1 DEF EchoInv
  <2> HIDE DEF f
  <2>5. running => \A j \in 1..Len(m_clients) : Visited(f, j)
    BY <1>3, <1>6, <2>2, <2>3, VisitedNext
  <2> QED
    BY <1>5, <2>2, <2>3, <2>4, <2>5
<1>7. CASE e.clean /\ e.i > Len(m_clients)
  <2> DEFINE f == [e EXCEPT !.at = "done"]
  <2>1. echo' = [echo EXCEPT ![t] = f]
    <3>1. ~(e.i <= Len(m_clients))
      BY <1>3, <1>7, Finds DEF Echoes
    <3> QED
      BY <1>1, <1>7, <3>1 DEF echo_step
  <2>2. /\ f \in Echoes /\ f.i = e.i /\ f.to = e.to
        /\ f.port = e.port /\ f.source = e.source
    BY <1>3 DEF Echoes
  <2> HIDE DEF f
  <2>3. running => \A j \in 1..Len(m_clients) : Visited(f, j)
    BY <1>3, <1>7, <2>2 DEF Visited
  <2> QED
    BY <1>5, <1>7, <2>1, <2>2, <2>3
<1>8. CASE ~e.clean
  <2>1. echo' = [echo EXCEPT ![t] = Quiet]
    BY <1>1, <1>8 DEF echo_step
  <2>2. ~Current(Quiet)
    BY DEF Current, Quiet
  <2> HIDE DEF Quiet, Current
  <2> QED
    BY <1>5, <2>1, <2>2
<1> QED
  BY <1>3, <1>6, <1>7, <1>8, Finds DEF Echoes

LEMMA EchoStep == ClientsInv /\ EchoInv /\ [Next]_vars => EchoInv'
<1> SUFFICES ASSUME ClientsInv, EchoInv, [Next]_vars PROVE EchoInv'
  OBVIOUS
<1> USE DEF clients, heard, running
<1>1. CASE UNCHANGED vars
  BY <1>1, EchoKept DEF vars
<1>2. ASSUME NEW c \in Clients, on_connectionOpen(c) PROVE EchoInv'
  BY <1>2, EchoDisturbed DEF on_connectionOpen
<1>3. ASSUME NEW c \in Clients, connection_lost(c) PROVE EchoInv'
  BY <1>3, EchoKept DEF connection_lost, ClientsInv
<1>4. ASSUME NEW c \in Clients, on_connectionClosed(c) PROVE EchoInv'
  <2>1. CASE find(c) # {}
    BY <1>4, <2>1, EchoDisturbed DEF on_connectionClosed
  <2>2. CASE find(c) = {}
    BY <1>4, <2>2, EchoKept DEF on_connectionClosed, ClientsInv
  <2> QED
    BY <2>1, <2>2
<1>5. ASSUME NEW c \in Clients, start_osc_streaming(c) PROVE EchoInv'
  BY <1>5, EchoKept DEF start_osc_streaming
<1>6. ASSUME NEW c \in Clients, on_OSCMessage(c) PROVE EchoInv'
  BY <1>6, EchoStart DEF on_OSCMessage
<1>7. ASSUME NEW c \in Clients, on_BinaryWSrequest(c) PROVE EchoInv'
  BY <1>7, EchoStart DEF on_BinaryWSrequest
<1>8. ASSUME NEW port \in {NoClient, handler.client}, open_osc_sender(port)
      PROVE  EchoInv'
  BY <1>8, EchoDisturbed DEF open_osc_sender
<1>9. CASE request_edit
  BY <1>9, EchoKept DEF request_edit
<1>10. ASSUME NEW kind \in {"event", "value"}, send(kind) PROVE EchoInv'
  BY <1>10, EchoKept DEF send, walk, Idle
<1>11. CASE run_commands
  BY <1>11, EchoKept DEF run_commands, walk, Idle
<1>12. CASE walk_step
  BY <1>12, EchoKept DEF walk_step
<1>13. CASE stop
  BY <1>13, EchoKept DEF stop
<1>14. CASE stop_close
  <2>1. \A c \in Clients : connection'[c] = "open" => connection[c] = "open"
    BY <1>14 DEF stop_close, ClientsInv
  <2> QED
    BY <1>14, <2>1, EchoKept DEF stop_close
<1>15. CASE stop_erase
  BY <1>15, EchoDisturbed DEF stop_erase
<1>16. CASE stop_server
  BY <1>16, EchoKept DEF stop_server
<1>17. ASSUME NEW t \in DOMAIN echo, echo_step(t) PROVE EchoInv'
  <2>1. t \in {"osc", "ws"}
    BY DEF EchoInv
  <2> QED
    BY <1>17, <2>1, EchoWalks
<1>18. ASSUME NEW c \in Clients, on_connectionOpen_fails(c) PROVE EchoInv'
  BY <1>18, EchoKept DEF on_connectionOpen_fails, ClientsInv
<1> QED
  BY <1>1, <1>2, <1>3, <1>4, <1>5, <1>6, <1>7, <1>8, <1>9, <1>10, <1>11, <1>12,
     <1>13, <1>14, <1>15, <1>16, <1>17, <1>18 DEF Next

(* A message the server receives with m_echo goes to every other client    *)
(* with an OSC socket whose port the server has, and not back to its       *)
(* source; to all of them if it came over a websocket; and to every client *)
(* without such a socket.  For any number of clients.                      *)
THEOREM EchoExactCorrect == Spec => []EchoExact
<1>1. Init => ClientsInv /\ EchoInv
  BY ClientsInit, EchoInit
<1>2. ClientsInv /\ EchoInv /\ [Next]_vars => ClientsInv' /\ EchoInv'
  BY ClientsStep, EchoStep
<1>3. ClientsInv /\ EchoInv => EchoExact
  <2> SUFFICES ASSUME ClientsInv, EchoInv, NEW t \in DOMAIN echo,
                      running, echo[t].at = "done", NEW j \in DOMAIN m_clients
               PROVE  LET e == echo[t]
                          r == m_clients[j]
                      IN  /\ r.sender # NoClient /\ r.remote_sender_port = r.connection =>
                               (r.connection \in e.to
                                  <=> (t = "osc" => r.connection # e.source))
                          /\ r.sender # NoClient /\ t = "ws" => r.connection \in e.to
                          /\ r.sender = NoClient /\ connection[r.connection] = "open" =>
                               r.connection \in e.to
    BY DEF EchoExact
  <2> DEFINE e == echo[t]
             r == m_clients[j]
  <2>1. t \in {"osc", "ws"} /\ EchoOf(t) /\ e # Quiet
    BY DEF EchoInv, Quiet
  <2>2. j \in 1..Len(m_clients) /\ r \in Records
    BY Finds
  <2>3. e.i > Len(m_clients) /\ Visited(e, j) /\ e \in Echoes
    BY <2>1, <2>2 DEF EchoOf, Current
  <2>4. j < e.i
    BY <2>2, <2>3, Finds DEF Echoes
  <2>5. e.port = IF t = "osc" THEN e.source ELSE AnyPort
    BY <2>1 DEF EchoOf
  <2>6. r.remote_sender_port # AnyPort
    BY <2>2, AnyPortAssumption DEF Records
  <2> QED
    BY <2>1, <2>3, <2>4, <2>5, <2>6 DEF Visited
<1> QED
  BY <1>1, <1>2, <1>3, PTL DEF Spec
=============================================================================
