----------------------------- MODULE MirrorPull -----------------------------
(***************************************************************************)
(* How oscquery_mirror_protocol asks the server for values.  pull_async    *)
(* puts a promise in m_getWSPromises and sends an HTTP request; the answer *)
(* carries no address, so that the thread of the HTTP client gives it to   *)
(* the first promise of the queue.                                         *)
(*                                                                         *)
(* m_getWSPromises has one producer: a single thread calls pull,           *)
(* pull_async, request and run_commands.  Each request has a connection of *)
(* its own, so that answers come in any order, or not at all.              *)
(* A value is a pair <<address, version>>: what the server held where.     *)
(***************************************************************************)
EXTENDS Naturals, Sequences, SequencesExt

CONSTANTS
    Addresses,
    MaxCalls,   \* bound on the calls of pull, pull_async and request
    MaxChange,  \* bound on the changes of one value on the server
    Async,      \* whether pull_async is called for its effect alone
    Requests,   \* whether request is called
    Slow,       \* the calls whose answer may take more than three seconds
    Failures,   \* whether a request may fail, or the handler of its answer throw
    InOrder     \* whether answers come in the order of the requests

ASSUME BoundsAssumption == MaxCalls \in Nat /\ MaxChange \in Nat
ASSUME FlagsAssumption ==
    {Async, Requests, Failures, InOrder} \subseteq BOOLEAN
ASSUME SlowAssumption == Slow \subseteq 1..MaxCalls

VARIABLES
    remote,           \* version of each value on the server
    nodes,            \* addresses that the tree of the mirror has
    m_value,          \* value of each parameter of the mirror
    m_getWSPromises,  \* the promises not kept yet
    network,          \* requests and their answers, in the order of sending
    ready,            \* the promises that have been kept
    calls,            \* number of calls, from which promises get identities
    waiting,          \* the pull that is blocked on its future, or NoPull
    returned          \* what the last pull returned, or NoPull

vars == <<remote, nodes, m_value, m_getWSPromises, network, ready, calls,
          waiting, returned>>

NoPull   == [id |-> 0]
NoAnswer == <<>>
Values   == Addresses \X (0..MaxChange)
Pulls    == [id : 1..MaxCalls, address : Addresses, since : 0..MaxChange]
Messages == [address : Addresses, answer : Values \cup {NoAnswer}]
Results  == [id : 1..MaxCalls, address : Addresses, since : 0..MaxChange,
             ok : BOOLEAN, value : Values]

(***************************************************************************)
(* The thread of the application.                                          *)
(***************************************************************************)
http_send_message(a) ==
    network' = Append(network, [address |-> a, answer |-> NoAnswer])

(* since is the version on the server when the call is made.               *)
promise(a) == [id |-> calls + 1, address |-> a, since |-> remote[a]]

(* Mutant: the promise goes before those of earlier calls.                 *)
enqueue_first(a) ==
    /\ waiting = NoPull
    /\ a \in nodes
    /\ calls < MaxCalls
    /\ calls' = calls + 1
    /\ m_getWSPromises' = <<promise(a)>> \o m_getWSPromises
    /\ http_send_message(a)
    /\ UNCHANGED <<remote, nodes, m_value, ready, returned>>

(* The promise is queued, then the request is sent.  The two make one step:*)
(* the thread that takes from the queue sees no difference.                *)
enqueue(a) ==
    /\ waiting = NoPull
    /\ a \in nodes
    /\ calls < MaxCalls
    /\ calls' = calls + 1
    /\ m_getWSPromises' = Append(m_getWSPromises, promise(a))
    /\ http_send_message(a)
    /\ UNCHANGED <<remote, nodes, m_value, ready, returned>>

(* pull: pull_async, then the wait on the future.                          *)
pull(a) == enqueue(a) /\ waiting' = promise(a)

(* The future is not waited for: an attribute of the parameter has changed *)
(* on the server (run_commands), or the caller does without.               *)
pull_async(a) == Async /\ enqueue(a) /\ UNCHANGED waiting

(* Mutant: pull does not look at the status of the future.                 *)
pull_returns_early ==
    /\ waiting # NoPull
    /\ returned' = [id |-> waiting.id, address |-> waiting.address,
                    since |-> waiting.since, ok |-> TRUE,
                    value |-> m_value[waiting.address]]
    /\ waiting' = NoPull
    /\ UNCHANGED <<remote, nodes, m_value, m_getWSPromises, network, ready, calls>>

pull_returns ==
    /\ waiting # NoPull
    /\ waiting.id \in ready
    /\ returned' = [id |-> waiting.id, address |-> waiting.address,
                    since |-> waiting.since, ok |-> TRUE,
                    value |-> m_value[waiting.address]]
    /\ waiting' = NoPull
    /\ UNCHANGED <<remote, nodes, m_value, m_getWSPromises, network, ready, calls>>

(* Mutant: the wait has no end.                                            *)
pull_timeout_never ==
    /\ waiting # NoPull
    /\ waiting.id \in Slow
    /\ waiting.id \notin ready
    /\ UNCHANGED vars

(* After three seconds pull gives up; its promise stays in the queue.      *)
pull_timeout ==
    /\ waiting # NoPull
    /\ waiting.id \in Slow
    /\ waiting.id \notin ready
    /\ returned' = [id |-> waiting.id, address |-> waiting.address,
                    since |-> waiting.since, ok |-> FALSE,
                    value |-> m_value[waiting.address]]
    /\ waiting' = NoPull
    /\ UNCHANGED <<remote, nodes, m_value, m_getWSPromises, network, ready, calls>>

(* A request without a promise.                                            *)
request(a) ==
    /\ Requests
    /\ waiting = NoPull
    /\ a \in nodes
    /\ calls < MaxCalls
    /\ calls' = calls + 1
    /\ http_send_message(a)
    /\ UNCHANGED <<remote, nodes, m_value, m_getWSPromises, ready, waiting, returned>>

(* PATH_REMOVED, from run_commands.                                        *)
remove_node(a) ==
    /\ waiting = NoPull
    /\ a \in nodes
    /\ nodes' = nodes \ {a}
    /\ UNCHANGED <<remote, m_value, m_getWSPromises, network, ready, calls,
                   waiting, returned>>

(***************************************************************************)
(* The server.                                                             *)
(***************************************************************************)
change(a) ==
    /\ remote[a] < MaxChange
    /\ remote' = [remote EXCEPT ![a] = @ + 1]
    /\ UNCHANGED <<nodes, m_value, m_getWSPromises, network, ready, calls,
                   waiting, returned>>

answer(i) ==
    /\ network[i].answer = NoAnswer
    /\ network' = [network EXCEPT ![i].answer =
                     <<network[i].address, remote[network[i].address]>>]
    /\ UNCHANGED <<remote, nodes, m_value, m_getWSPromises, ready, calls,
                   waiting, returned>>

(***************************************************************************)
(* The thread of the HTTP client.                                          *)
(***************************************************************************)

(* http_get_request: an error of the connection, or a status that is not   *)
(* 200, ends the request; nobody is told.                                  *)
fail(i) ==
    /\ Failures
    /\ network' = RemoveAt(network, i)
    /\ UNCHANGED <<remote, nodes, m_value, m_getWSPromises, ready, calls,
                   waiting, returned>>

(* What an answer does to the values of the mirror: the parameter whose    *)
(* address the promise names gets it (parse_value), or nobody does         *)
(* (on_unhandled_message), or reading it throws and nothing changes.       *)
given(value, p) ==
    (IF p.address \in nodes THEN {[m_value EXCEPT ![p.address] = value]} ELSE {m_value})
      \cup (IF Failures THEN {m_value} ELSE {})

(* Mutant: the object around the value is not taken off.                   *)
give_to_promise_wrapped(value, p) ==
    /\ m_getWSPromises' = Tail(m_getWSPromises)
    /\ m_value' \in given(<<value>>, p)
    /\ ready' = ready \cup {p.id}

(* Mutant: the promise stays in the queue.                                 *)
give_to_promise_peek(value, p) ==
    /\ m_getWSPromises' = m_getWSPromises
    /\ m_value' \in given(value, p)
    /\ ready' = ready \cup {p.id}

(* Mutant: the promise leaves the queue only if its node is still there.   *)
give_to_promise_missing(value, p) ==
    /\ m_getWSPromises' = IF p.address \in nodes THEN Tail(m_getWSPromises)
                          ELSE m_getWSPromises
    /\ m_value' \in given(value, p)
    /\ ready' = IF p.address \in nodes THEN ready \cup {p.id} ELSE ready

(* The promise is kept whether the value found its parameter or not.  When *)
(* an exception is thrown it is destroyed, which makes its future ready as *)
(* well (broken_promise): pull looks at no more than that.                 *)
give_to_promise(value, p) ==
    /\ m_getWSPromises' = Tail(m_getWSPromises)
    /\ m_value' \in given(value, p)
    /\ ready' = ready \cup {p.id}

(* on_WSMessage for an answer.  When no promise is there, the answer is    *)
(* read as a list of addresses and values, and has none: only              *)
(* on_unhandled_message is called.                                         *)
on_WSMessage(i) ==
    /\ InOrder => i = 1
    /\ network[i].answer # NoAnswer
    /\ network' = RemoveAt(network, i)
    /\ IF m_getWSPromises # <<>>
       THEN give_to_promise(network[i].answer, Head(m_getWSPromises))
       ELSE UNCHANGED <<m_getWSPromises, m_value, ready>>
    /\ UNCHANGED <<remote, nodes, calls, waiting, returned>>

Init ==
    /\ remote = [a \in Addresses |-> 0]
    /\ nodes = Addresses
    /\ m_value = [a \in Addresses |-> <<a, 0>>]
    /\ m_getWSPromises = <<>>
    /\ network = <<>>
    /\ ready = {}
    /\ calls = 0
    /\ waiting = NoPull
    /\ returned = NoPull

Next ==
    \/ \E a \in Addresses :
         \/ pull(a) \/ pull_async(a) \/ request(a)
         \/ remove_node(a)
         \/ change(a)
    \/ pull_returns
    \/ pull_timeout
    \/ \E i \in DOMAIN network : answer(i) \/ fail(i) \/ on_WSMessage(i)

(* The server answers, the HTTP thread runs, and the wait has an end.      *)
Fairness ==
    /\ WF_vars(pull_returns)
    /\ WF_vars(pull_timeout)
    /\ WF_vars(\E i \in DOMAIN network : answer(i))
    /\ WF_vars(\E i \in DOMAIN network : on_WSMessage(i))

Spec == Init /\ [][Next]_vars /\ Fairness

-----------------------------------------------------------------------------
(* Types of the mirror's data, of the messages and of what pull returns.   *)
TypeOK ==
    /\ remote \in [Addresses -> 0..MaxChange]
    /\ nodes \subseteq Addresses
    /\ m_value \in [Addresses -> Values]
    /\ m_getWSPromises \in Seq(Pulls)
    /\ network \in Seq(Messages)
    /\ ready \subseteq 1..MaxCalls
    /\ calls \in 0..MaxCalls
    /\ waiting \in Pulls \cup {NoPull}
    /\ returned \in Results \cup {NoPull}

(* protocol_base::pull: "True if the value was correctly retrieved".  The  *)
(* parameter then has a value that the server held at its address at some  *)
(* moment between the call and the return.                                 *)
PulledIsRetrieved ==
    returned # NoPull /\ returned.ok =>
        /\ returned.value[1] = returned.address
        /\ returned.value[2] \in returned.since .. remote[returned.address]

(* The queue of promises follows the network: the i-th promise is for the  *)
(* i-th request without an answer, so that an answer always finds its own  *)
(* promise and no promise is left when the network is quiet.               *)
QueueFollowsNetwork ==
    /\ Len(m_getWSPromises) = Len(network)
    /\ \A i \in DOMAIN network :
         /\ m_getWSPromises[i].address = network[i].address
         /\ network[i].answer # NoAnswer =>
              /\ network[i].answer[1] = network[i].address
              /\ network[i].answer[2] >= m_getWSPromises[i].since

(* Why pull is right when answers come in order and none is missing: the   *)
(* pull that waits has the last promise of the queue, and once it is kept  *)
(* the queue is empty, so that no other answer comes before the return.    *)
WaitingIsLast ==
    waiting # NoPull =>
        /\ waiting.address \in nodes
        /\ IF waiting.id \in ready
           THEN /\ m_getWSPromises = <<>>
                /\ m_value[waiting.address][1] = waiting.address
                /\ m_value[waiting.address][2]
                     \in waiting.since .. remote[waiting.address]
           ELSE /\ m_getWSPromises # <<>>
                /\ m_getWSPromises[Len(m_getWSPromises)] = waiting

(* Promises are queued in the order of their calls.                        *)
InCallOrder ==
    /\ \A i, j \in DOMAIN m_getWSPromises :
         i < j => m_getWSPromises[i].id < m_getWSPromises[j].id
    /\ \A i \in DOMAIN m_getWSPromises :
         m_getWSPromises[i].id \in (1..calls) \ ready
    /\ ready \subseteq 1..calls

(* An answer is not newer than what the server holds.                      *)
AnswersArePast ==
    \A i \in DOMAIN network :
        network[i].answer # NoAnswer =>
            network[i].answer[2] <= remote[network[i].address]

(* A call was made when the server held what it held then, or earlier.     *)
SinceIsPast ==
    \A i \in DOMAIN m_getWSPromises :
        m_getWSPromises[i].since <= remote[m_getWSPromises[i].address]

(* The inductive invariant of the runs in which answers come in order.     *)
IInv ==
    /\ TypeOK
    /\ PulledIsRetrieved
    /\ QueueFollowsNetwork
    /\ WaitingIsLast
    /\ InCallOrder
    /\ AnswersArePast
    /\ SinceIsPast

(* A pull that waits can be woken: its promise is queued, once, or kept.   *)
PromiseKept ==
    /\ waiting # NoPull /\ waiting.id \notin ready =>
         \E i \in DOMAIN m_getWSPromises : m_getWSPromises[i].id = waiting.id
    /\ \A i, j \in DOMAIN m_getWSPromises :
         m_getWSPromises[i].id = m_getWSPromises[j].id => i = j
    /\ \A i \in DOMAIN m_getWSPromises : m_getWSPromises[i].id \notin ready

(* A pull does not block for ever, whatever becomes of its request.        *)
PullReturns == waiting # NoPull ~> waiting = NoPull

(* When the network loses nothing, a pull whose own answer is quick gets   *)
(* the value, though the promise of an earlier one that gave up is before  *)
(* its own in the queue.                                                   *)
PullSucceeds ==
    \A k \in (1..MaxCalls) \ Slow :
        waiting # NoPull /\ waiting.id = k
          ~> returned # NoPull /\ returned.id = k /\ returned.ok
=============================================================================
