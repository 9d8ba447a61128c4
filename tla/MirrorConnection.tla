-------------------------- MODULE MirrorConnection --------------------------
(***************************************************************************)
(* The connections of an oscquery mirror and the threads that serve them:  *)
(* oscquery_mirror_protocol's init, cleanup_connections, reconnect and     *)
(* destructor, with websocket_client and the thread of the HTTP requests.  *)
(*                                                                         *)
(* Three threads: the application's, which builds and takes down the       *)
(* connections; the websocket thread m_wsThread, in websocket_client::     *)
(* connect; the HTTP thread, in io_context::run.  They share m_hasWS and   *)
(* m_open, each an atomic Boolean that is read and written in steps of its *)
(* own.  A std::thread that is assigned or destroyed while it is joinable  *)
(* ends the program (terminated).                                          *)
(***************************************************************************)
EXTENDS Naturals

CONSTANTS
    MaxLives,  \* bound on the calls of init
    Careful    \* whether reconnect is called after stop only

ASSUME LivesAssumption == MaxLives \in Nat \ {0}
ASSUME CarefulAssumption == Careful \in BOOLEAN

VARIABLES
    app,         \* where the application's thread is
    goal,        \* why cleanup_connections was called
    try,         \* which try block of cleanup_connections calls query_stop
    lives,       \* number of calls of init
    m_hasWS,
    m_open,
    m_wsThread,  \* where the websocket thread is; "none" if not joinable
    socket,      \* state of the websocket connection
    stopped,     \* m_client.stop was called
    onClose,     \* the callback for a lost connection
    in_time,     \* history: it was set while the connection was open
    notified,    \* the application's callback has been called
    http,        \* the HTTP thread: "none" if not joinable
    context_stopped,  \* m_http->context.stop was called
    host_info,   \* the request that init makes
    streaming,   \* the server was asked to stream over OSC
    m_oscServer, \* the receiver of OSC messages, with a thread of its own
    terminated   \* std::terminate was called

websocket == <<m_wsThread, socket, stopped>>
callback  == <<onClose, in_time, notified>>
requests  == <<http, context_stopped, host_info, streaming>>
vars == <<app, goal, try, lives, m_hasWS, m_open, websocket, callback,
          requests, m_oscServer, terminated>>

in_use == app \in {"up", "register"}
rest   == app \in {"down", "failed"}

(***************************************************************************)
(* The thread of the application.                                          *)
(***************************************************************************)

(* init up to the wait: new objects, start_http, and the websocket thread. *)
(* The threads that the objects replace must not be joinable.              *)
init ==
    /\ \/ app = "new"
       \/ app = "down"
       \/ ~Careful /\ app \in {"failed", "up"}
    /\ lives < MaxLives
    /\ lives' = lives + 1
    /\ terminated' = (http # "none" \/ m_wsThread # "none")
    /\ app' = "init"
    /\ m_hasWS' = TRUE
    /\ m_open' = FALSE
    /\ m_wsThread' = "starting"
    /\ socket' = "none"
    /\ stopped' = FALSE
    /\ onClose' = "library"
    /\ in_time' = FALSE
    /\ notified' = FALSE
    /\ http' = "running"
    /\ host_info' = "none"
    /\ streaming' = FALSE
    /\ m_oscServer' = "bound"
    /\ UNCHANGED <<goal, try, context_stopped>>

query_connected == m_hasWS => m_open

(* Mutant: the server is not asked for its host info.                      *)
init_connected_silent ==
    /\ app = "init"
    /\ query_connected
    /\ app' = "up"
    /\ m_oscServer' = "running"
    /\ UNCHANGED <<goal, try, lives, m_hasWS, m_open, websocket, callback,
                   requests, terminated>>

(* The websocket is open, or there is none and HTTP has to do.             *)
init_connected ==
    /\ app = "init"
    /\ query_connected
    /\ app' = "up"
    /\ host_info' = "sent"
    /\ m_oscServer' = "running"
    /\ UNCHANGED <<goal, try, lives, m_hasWS, m_open, websocket, callback,
                   http, context_stopped, streaming, terminated>>

(* cleanup_connections: the OSC receiver is stopped and joined first.      *)
cleanup(why) ==
    /\ app' = "query_connected"
    /\ goal' = why
    /\ m_oscServer' = "stopped"
    /\ UNCHANGED <<try, lives, m_hasWS, m_open, websocket, callback, requests,
                   terminated>>

(* After 1500 ms init gives up.                                            *)
init_timeout == app = "init" /\ ~query_connected /\ cleanup("failed")

(* stop, from the application or from the destructor of the device.        *)
stop == (app = "up" \/ rest) /\ cleanup("down")

destroy == (app = "up" \/ rest) /\ cleanup("gone")

(* set_disconnect_callback looks at m_hasWS, then replaces onClose.        *)
set_disconnect_callback ==
    /\ app = "up"
    /\ m_hasWS
    /\ app' = "register"
    /\ UNCHANGED <<goal, try, lives, m_hasWS, m_open, websocket, callback,
                   requests, m_oscServer, terminated>>

set_onClose ==
    /\ app = "register"
    /\ app' = "up"
    /\ onClose' = "application"
    /\ in_time' = (socket = "open")
    /\ UNCHANGED <<goal, try, lives, m_hasWS, m_open, websocket, notified,
                   requests, m_oscServer, terminated>>

(***************************************************************************)
(* cleanup_connections, one access to a shared variable in each step.      *)
(* query_stop is called in a first try block if the websocket is open, and *)
(* in a second one before the join; an exception leaves the block.         *)
(***************************************************************************)
go(where) ==
    /\ app' = where
    /\ UNCHANGED <<goal, lives, callback, requests, m_oscServer, terminated>>

first_try ==
    /\ app = "query_connected"
    /\ IF query_connected THEN try' = 1 /\ go("query_stop")
       ELSE UNCHANGED try /\ go("joinable")
    /\ UNCHANGED <<m_hasWS, m_open, websocket>>

(* Mutant: a thread whose websocket has gone is left alone.                *)
second_try_connected ==
    /\ app = "joinable"
    /\ IF m_wsThread # "none" /\ m_hasWS THEN try' = 2 /\ go("query_stop")
       ELSE UNCHANGED try /\ go("http")
    /\ UNCHANGED <<m_hasWS, m_open, websocket>>

second_try ==
    /\ app = "joinable"
    /\ IF m_wsThread # "none" THEN try' = 2 /\ go("query_stop")
       ELSE UNCHANGED try /\ go("http")
    /\ UNCHANGED <<m_hasWS, m_open, websocket>>

next_of_try == IF try = 1 THEN "joinable" ELSE "join"

query_stop ==
    /\ app = "query_stop"
    /\ m_hasWS' = FALSE
    /\ go(IF m_hasWS THEN "client_stop" ELSE next_of_try)
    /\ UNCHANGED <<try, m_open, websocket>>

(* websocket_client::stop.                                                 *)
client_stop ==
    /\ app = "client_stop"
    /\ go(IF m_open THEN "client_close" ELSE "io_stop")
    /\ UNCHANGED <<try, m_hasWS, m_open, websocket>>

(* Mutant: a connection that is not open yet is left to itself.            *)
io_stop_missing ==
    /\ app = "io_stop"
    /\ go(next_of_try)
    /\ UNCHANGED <<try, m_hasWS, m_open, websocket>>

io_stop ==
    /\ app = "io_stop"
    /\ stopped' = TRUE
    /\ go(next_of_try)
    /\ UNCHANGED <<try, m_hasWS, m_open, m_wsThread, socket>>

(* m_client.close throws when the connection is not open any more.         *)
client_close ==
    /\ app = "client_close"
    /\ IF socket = "open"
       THEN /\ socket' = "closing"
            /\ m_open' = FALSE
            /\ go(next_of_try)
       ELSE /\ UNCHANGED <<socket, m_open>>
            /\ go(IF try = 1 THEN "joinable" ELSE "http")
    /\ UNCHANGED <<try, m_hasWS, m_wsThread, stopped>>

join ==
    /\ app = "join"
    /\ m_wsThread = "ended"
    /\ m_wsThread' = "none"
    /\ go("http")
    /\ UNCHANGED <<try, m_hasWS, m_open, socket, stopped>>

http_stop ==
    /\ app = "http"
    /\ context_stopped' = TRUE
    /\ app' = "http_join"
    /\ UNCHANGED <<goal, try, lives, m_hasWS, m_open, websocket, callback,
                   http, host_info, streaming, m_oscServer, terminated>>

(* init then throws, stop returns, or the members are destroyed.           *)
http_join ==
    /\ app = "http_join"
    /\ http \in {"none", "ended"}
    /\ http' = "none"
    /\ app' = goal
    /\ terminated' = (terminated \/ (goal = "gone" /\ m_wsThread # "none"))
    /\ UNCHANGED <<goal, try, lives, m_hasWS, m_open, websocket, callback,
                   context_stopped, host_info, streaming, m_oscServer>>

(***************************************************************************)
(* The websocket thread: websocket_client::connect and its handlers.       *)
(***************************************************************************)
others == <<app, goal, try, lives, requests, m_oscServer, terminated>>

(* connect and run; or it throws, or returns for an address that is none.  *)
ws_connect ==
    /\ m_wsThread = "starting"
    /\ \/ m_wsThread' = "running" /\ socket' = "connecting"
       \/ m_wsThread' = "ending" /\ socket' = "closed"
    /\ UNCHANGED <<m_hasWS, m_open, stopped, callback, others>>

ws_open ==
    /\ m_wsThread = "running"
    /\ socket = "connecting"
    /\ ~stopped
    /\ socket' = "open"
    /\ m_open' = TRUE
    /\ UNCHANGED <<m_hasWS, m_wsThread, stopped, callback, others>>

ws_fail ==
    /\ m_wsThread = "running"
    /\ socket = "connecting"
    /\ ~stopped
    /\ socket' = "closed"
    /\ m_wsThread' = "fail_handler"
    /\ UNCHANGED <<m_hasWS, m_open, stopped, callback, others>>

(* The server closes the connection, or it breaks.                         *)
ws_lost ==
    /\ m_wsThread = "running"
    /\ socket = "open"
    /\ ~stopped
    /\ socket' = "closed"
    /\ m_wsThread' = "close_handler"
    /\ UNCHANGED <<m_hasWS, m_open, stopped, callback, others>>

(* The server answers a close, or its time is over.                        *)
ws_closed ==
    /\ m_wsThread = "running"
    /\ socket = "closing"
    /\ socket' = "closed"
    /\ m_wsThread' = "close_handler"
    /\ UNCHANGED <<m_hasWS, m_open, stopped, callback, others>>

close_handler ==
    /\ m_wsThread \in {"close_handler", "fail_handler"}
    /\ m_open' = FALSE
    /\ m_wsThread' = IF m_wsThread = "close_handler" THEN "onClose" ELSE "onFail"
    /\ UNCHANGED <<m_hasWS, socket, stopped, callback, others>>

(* Mutant: the application's callback is not called if the application     *)
(* takes the connection down itself.                                       *)
on_closed_peer_only ==
    /\ m_wsThread \in {"onClose", "onFail"}
    /\ notified' = (notified \/ (m_wsThread = "onClose" /\ m_hasWS /\ onClose = "application"))
    /\ m_hasWS' = FALSE
    /\ m_wsThread' = "ending"
    /\ UNCHANGED <<m_open, socket, stopped, onClose, in_time, others>>

(* onClose and onFail.  Nothing is left to do for run, which returns.      *)
on_closed ==
    /\ m_wsThread \in {"onClose", "onFail"}
    /\ notified' = (notified \/ (m_wsThread = "onClose" /\ onClose = "application"))
    /\ m_hasWS' = FALSE
    /\ m_wsThread' = "ending"
    /\ UNCHANGED <<m_open, socket, stopped, onClose, in_time, others>>

(* run returns without the handlers.                                       *)
ws_stopped ==
    /\ m_wsThread = "running"
    /\ stopped
    /\ m_wsThread' = "ending"
    /\ socket' = "closed"
    /\ UNCHANGED <<m_hasWS, m_open, stopped, callback, others>>

(* Mutant: only the handlers reset m_hasWS.                                *)
ws_end_keeps ==
    /\ m_wsThread = "ending"
    /\ m_wsThread' = "ended"
    /\ UNCHANGED <<m_hasWS, m_open, socket, stopped, callback, others>>

ws_end ==
    /\ m_wsThread = "ending"
    /\ m_hasWS' = FALSE
    /\ m_wsThread' = "ended"
    /\ UNCHANGED <<m_open, socket, stopped, callback, others>>

(***************************************************************************)
(* The HTTP thread: io_context::run, which returns when the context is     *)
(* stopped.  reconnect does not restart the context.                       *)
(***************************************************************************)
threads == <<app, goal, try, lives, m_hasWS, m_open, websocket, callback,
             context_stopped, m_oscServer, terminated>>

(* What the host info says: the server takes OSC over UDP and streams      *)
(* values ("streams"), or not ("plain"), or reading it throws ("invalid"): *)
(* on_WSMessage catches the exception.  A server that streams is asked for *)
(* it over the websocket.                                                  *)
on_host_info ==
    /\ http = "running"
    /\ ~context_stopped
    /\ host_info = "sent"
    /\ host_info' \in {"streams", "plain", "invalid"}
    /\ streaming' = (host_info' = "streams" /\ m_hasWS /\ m_open /\ socket = "open")
    /\ UNCHANGED <<http, threads>>

http_fail ==
    /\ http = "running"
    /\ ~context_stopped
    /\ host_info = "sent"
    /\ host_info' = "lost"
    /\ UNCHANGED <<http, streaming, threads>>

http_end ==
    /\ http = "running"
    /\ context_stopped
    /\ http' = "ended"
    /\ UNCHANGED <<host_info, streaming, threads>>

Init ==
    /\ app = "new"
    /\ goal = "down"
    /\ try = 1
    /\ lives = 0
    /\ m_hasWS = FALSE
    /\ m_open = FALSE
    /\ m_wsThread = "none"
    /\ socket = "none"
    /\ stopped = FALSE
    /\ onClose = "library"
    /\ in_time = FALSE
    /\ notified = FALSE
    /\ http = "none"
    /\ context_stopped = FALSE
    /\ host_info = "none"
    /\ streaming = FALSE
    /\ m_oscServer = "none"
    /\ terminated = FALSE

CleanupNext ==
    first_try \/ second_try \/ query_stop \/ client_stop \/ io_stop
      \/ client_close \/ join \/ http_stop \/ http_join

HttpNext == on_host_info \/ http_fail \/ http_end

Next ==
    /\ ~terminated
    /\ \/ init \/ init_connected \/ init_timeout
       \/ stop \/ destroy
       \/ set_disconnect_callback \/ set_onClose
       \/ CleanupNext
       \/ ws_connect \/ ws_open \/ ws_fail \/ ws_lost \/ ws_closed
       \/ close_handler \/ on_closed \/ ws_stopped \/ ws_end
       \/ HttpNext

(* The threads run; a close is answered or its time ends.  A connection    *)
(* that is being made may stay so, and no server has to answer init.       *)
Fairness ==
    /\ WF_vars(~terminated /\ CleanupNext)
    /\ WF_vars(~terminated /\ (init_connected \/ init_timeout \/ set_onClose))
    /\ WF_vars(~terminated /\ (ws_connect \/ ws_closed \/ close_handler
                                 \/ on_closed \/ ws_stopped \/ ws_end))
    /\ WF_vars(~terminated /\ HttpNext)

Spec == Init /\ [][Next]_vars /\ Fairness

-----------------------------------------------------------------------------
(* cleanup_connections may leave its second try block by an exception and  *)
(* skip the join; still no thread is joinable when it is replaced or       *)
(* destroyed, as long as reconnect comes after stop, and none runs once    *)
(* stop or the destructor has returned.                                    *)
ThreadsJoined ==
    /\ ~terminated
    /\ app \in {"down", "gone"} =>
         m_wsThread = "none" /\ http = "none" /\ m_oscServer = "stopped"

(* m_hasWS is written by init, by query_stop, by the handlers and by the   *)
(* end of the websocket thread.  If it is set, that thread has not ended;  *)
(* if it is not set and the mirror is in use, the connection is not open,  *)
(* so that no message is held back from an open connection.                *)
HasWSHonest ==
    /\ m_hasWS => m_wsThread \notin {"none", "ended"}
    /\ in_use /\ ~m_hasWS => socket # "open"

(* stop, the destructor and an init that gives up come to an end, though   *)
(* they join threads whose connection may be opening, open or half closed. *)
StopReturns == app = "query_connected" ~> in_use \/ rest \/ app = "gone"

(* In the first life of the mirror, the host info is asked for over a      *)
(* connection that stays open, and a server whose answer offers streaming  *)
(* is told to stream: the handler of the answer, in the HTTP thread, does  *)
(* not find the websocket missing in m_hasWS or m_open.                    *)
StreamingStarts ==
    lives = 1 /\ in_use /\ socket = "open"
      ~> \/ streaming
         \/ host_info \in {"plain", "invalid", "lost"}
         \/ ~in_use \/ socket # "open"

(* A disconnect callback that was set while the connection was open is     *)
(* called once the connection is closed, whoever closes it.                *)
DisconnectNotified ==
    in_time /\ socket = "closed" ~> notified
=============================================================================
