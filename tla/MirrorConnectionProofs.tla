----------------------- MODULE MirrorConnectionProofs -----------------------
(***************************************************************************)
(* TLAPS proofs: however often the mirror is stopped and connected again,  *)
(* no thread is replaced or destroyed while it is joinable, and m_hasWS is *)
(* honest.                                                                 *)
(***************************************************************************)
EXTENDS MirrorConnection, TLAPS

opened   == {"open", "closing", "closed"}
over     == {"close_handler", "fail_handler", "onClose", "onFail", "ending", "ended"}
stopping == {"client_stop", "io_stop", "client_close", "join", "http", "http_join"}
deciding == {"query_connected", "joinable", "query_stop"}

Types ==
    /\ app \in {"new", "init", "up", "register", "down", "failed", "gone"}
               \cup deciding \cup stopping
    /\ goal \in {"failed", "down", "gone"}
    /\ try \in {1, 2}
    /\ m_hasWS \in BOOLEAN /\ m_open \in BOOLEAN
    /\ m_wsThread \in {"none", "starting", "running"} \cup over
    /\ http \in {"none", "running", "ended"}

(* The websocket thread and its connection.                                *)
SocketInv ==
    /\ m_wsThread \in over => socket = "closed"
    /\ m_wsThread = "starting" => socket = "none"
    /\ m_open => socket \in opened
    /\ m_hasWS => m_wsThread \notin {"none", "ended"}

(* Whether there is a websocket, by where the application's thread is:     *)
(* m_hasWS goes before the client is stopped, and once init has returned   *)
(* it means that the connection has been open.                             *)
HasWSInv ==
    /\ app \in stopping \cup {"new", "down", "failed", "gone"} => ~m_hasWS
    /\ app \in {"init", "up", "register"} /\ ~m_hasWS => m_wsThread \in {"ending", "ended"}
    /\ \/ app \in {"up", "register"}
       \/ app \in deciding /\ goal # "failed"
       => (m_hasWS => socket \in opened)
    /\ app \in {"client_stop", "client_close", "io_stop"} /\ goal # "failed"
       => socket \in opened

(* Only an init that gives up can meet an exception in the second try      *)
(* block: after stop was called on a connection that is not open any more, *)
(* nothing opens it.                                                       *)
SecondTryInv ==
    goal # "failed" =>
        /\ app = "joinable" \/ (app = "query_stop" /\ try = 2) =>
             (m_hasWS => ~m_open)
        /\ app = "client_stop" /\ try = 2 => ~m_open
        /\ ~(app = "client_close" /\ try = 2)
        /\ app \in {"http", "http_join"} => m_wsThread = "none"

JoinedInv ==
    /\ ~terminated
    /\ app \in {"down", "gone", "new"} => m_wsThread = "none" /\ http = "none"
    /\ app \in deciding \cup stopping \cup {"down", "failed", "gone"} =>
         m_oscServer = "stopped"

ConnInv == Types /\ SocketInv /\ HasWSInv /\ SecondTryInv /\ JoinedInv

-----------------------------------------------------------------------------
LEMMA ConnInit == Init => ConnInv
BY DEF Init, ConnInv, Types, SocketInv, HasWSInv, SecondTryInv, JoinedInv,
       opened, over, stopping, deciding

(* The steps of the application's thread.                                  *)
LEMMA AppKeeps ==
    ASSUME Careful, ConnInv,
           init \/ init_connected \/ init_timeout \/ stop \/ destroy
             \/ set_disconnect_callback \/ set_onClose
    PROVE  ConnInv'
<1> USE DEF ConnInv, Types, SocketInv, HasWSInv, SecondTryInv, JoinedInv,
            opened, over, stopping, deciding, websocket, requests
<1>1. CASE init
  BY <1>1 DEF init
<1>2. CASE init_connected
  BY <1>2 DEF init_connected, query_connected
<1>3. CASE init_timeout
  BY <1>3 DEF init_timeout, query_connected, cleanup
<1>4. CASE stop \/ destroy
  BY <1>4 DEF stop, destroy, rest, cleanup
<1>5. CASE set_disconnect_callback
  BY <1>5 DEF set_disconnect_callback
<1>6. CASE set_onClose
  BY <1>6 DEF set_onClose
<1> QED
  BY <1>1, <1>2, <1>3, <1>4, <1>5, <1>6

LEMMA CleanupKeeps ==
    ASSUME ConnInv, CleanupNext
    PROVE  ConnInv'
<1> USE DEF ConnInv, Types, SocketInv, HasWSInv, SecondTryInv, JoinedInv,
            opened, over, stopping, deciding, websocket, requests, go
<1>1. CASE first_try
  BY <1>1 DEF first_try, query_connected
<1>2. CASE second_try
  BY <1>2 DEF second_try
<1>3. CASE query_stop
  BY <1>3 DEF query_stop, next_of_try
<1>4. CASE client_stop
  BY <1>4 DEF client_stop
<1>5. CASE io_stop
  BY <1>5 DEF io_stop, next_of_try
<1>6. CASE client_close
  BY <1>6 DEF client_close, next_of_try
<1>7. CASE join
  BY <1>7 DEF join
<1>8. CASE http_stop
  BY <1>8 DEF http_stop
<1>9. CASE http_join
  BY <1>9 DEF http_join
<1> QED
  BY <1>1, <1>2, <1>3, <1>4, <1>5, <1>6, <1>7, <1>8, <1>9 DEF CleanupNext

(* The steps of the websocket thread and of the HTTP thread.               *)
LEMMA ThreadsKeep ==
    ASSUME ConnInv,
           ws_connect \/ ws_open \/ ws_fail \/ ws_lost \/ ws_closed
             \/ close_handler \/ on_closed \/ ws_stopped \/ ws_end \/ HttpNext
    PROVE  ConnInv'
<1> USE DEF ConnInv, Types, SocketInv, HasWSInv, SecondTryInv, JoinedInv,
            opened, over, stopping, deciding, websocket, requests, others
<1>1. CASE ws_connect
  BY <1>1 DEF ws_connect
<1>2. CASE ws_open
  BY <1>2 DEF ws_open
<1>3. CASE ws_fail \/ ws_lost \/ ws_closed
  BY <1>3 DEF ws_fail, ws_lost, ws_closed
<1>4. CASE close_handler
  <2>1. /\ m_wsThread \in over /\ m_wsThread' \in over /\ m_open' = FALSE
        /\ m_wsThread' \in {"onClose", "onFail"}
        /\ m_wsThread \notin {"none", "ending", "ended"}
        /\ UNCHANGED <<m_hasWS, socket, others>>
    BY <1>4 DEF close_handler
  <2>2. Types' /\ SocketInv'
    BY <2>1
  <2>3. HasWSInv'
    BY <2>1
  <2>4. SecondTryInv' /\ JoinedInv'
    BY <2>1
  <2> QED
    BY <2>2, <2>3, <2>4
<1>5. CASE on_closed
  <2>1. /\ m_wsThread \in over /\ m_hasWS' = FALSE /\ m_wsThread' = "ending"
        /\ UNCHANGED <<m_open, socket, others>>
    BY <1>5 DEF on_closed
  <2>2. Types' /\ SocketInv'
    BY <2>1
  <2>3. HasWSInv' /\ SecondTryInv' /\ JoinedInv'
    BY <2>1
  <2> QED
    BY <2>2, <2>3
<1>6. CASE ws_stopped
  BY <1>6 DEF ws_stopped
<1>7. CASE ws_end
  BY <1>7 DEF ws_end
<1>8. CASE HttpNext
  BY <1>8 DEF HttpNext, on_host_info, http_fail, http_end, threads
<1> QED
  BY <1>1, <1>2, <1>3, <1>4, <1>5, <1>6, <1>7, <1>8

LEMMA ConnStep ==
    ASSUME Careful, ConnInv, [Next]_vars
    PROVE  ConnInv'
<1>1. CASE UNCHANGED vars
  BY <1>1 DEF vars, websocket, requests, ConnInv, Types, SocketInv, HasWSInv,
              SecondTryInv, JoinedInv
<1>2. CASE Next
  BY <1>2, AppKeeps, CleanupKeeps, ThreadsKeep DEF Next
<1> QED
  BY <1>1, <1>2

(* However many times the mirror is stopped and connected again, every     *)
(* thread is joined before it is replaced or destroyed.                    *)
THEOREM ThreadsJoinedCorrect ==
    ASSUME Careful
    PROVE  Spec => []ThreadsJoined
<1>1. ConnInv /\ [Next]_vars => ConnInv'
  BY ConnStep
<1>2. ConnInv => ThreadsJoined
  BY DEF ConnInv, JoinedInv, ThreadsJoined
<1> QED
  BY <1>1, <1>2, ConnInit, PTL DEF Spec

(* m_hasWS tells of an open connection to the application and of a running *)
(* thread to cleanup_connections.                                          *)
THEOREM HasWSHonestCorrect ==
    ASSUME Careful
    PROVE  Spec => []HasWSHonest
<1>1. ConnInv /\ [Next]_vars => ConnInv'
  BY ConnStep
<1>2. ConnInv => HasWSHonest
  BY DEF ConnInv, SocketInv, HasWSInv, HasWSHonest, in_use, over
<1> QED
  BY <1>1, <1>2, ConnInit, PTL DEF Spec
=============================================================================
