-------------------------- MODULE MirrorPullProofs --------------------------
(***************************************************************************)
(* TLAPS proofs about the pulls of oscquery_mirror_protocol, for any       *)
(* number of parameters, calls and changes.                                *)
(***************************************************************************)
EXTENDS MirrorPull, TLAPS

USE BoundsAssumption, FlagsAssumption

(* Taking the first message off the network leaves its tail.               *)
LEMMA RemoveFirstIsTail ==
    ASSUME NEW S, NEW s \in Seq(S), s # <<>>
    PROVE  RemoveAt(s, 1) = Tail(s)
<1>1. SubSeq(s, 1, 0) = <<>>
  OBVIOUS
<1>2. SubSeq(s, 2, Len(s)) = Tail(s)
  OBVIOUS
<1> QED
  BY <1>1, <1>2 DEF RemoveAt

(* Taking a message off the network leaves messages.                       *)
LEMMA RemoveAtType ==
    ASSUME NEW S, NEW s \in Seq(S), NEW i \in DOMAIN s
    PROVE  RemoveAt(s, i) \in Seq(S)
<1>1. SubSeq(s, 1, i - 1) \in Seq(S) /\ SubSeq(s, i + 1, Len(s)) \in Seq(S)
  OBVIOUS
<1> QED
  BY <1>1 DEF RemoveAt

(* The promise that a call makes is one of Pulls.                          *)
LEMMA PromiseType ==
    ASSUME TypeOK, NEW a \in Addresses, calls < MaxCalls
    PROVE  promise(a) \in Pulls
  BY DEF TypeOK, promise, Pulls

(* Every step keeps the types, whatever the network does.                  *)
LEMMA TypeStep == TypeOK /\ [Next]_vars => TypeOK'
<1> SUFFICES ASSUME TypeOK, [Next]_vars PROVE TypeOK'
  OBVIOUS
<1>a. ASSUME NEW a \in Addresses, http_send_message(a) PROVE network' \in Seq(Messages)
  <2>1. [address |-> a, answer |-> NoAnswer] \in Messages
    BY DEF Messages
  <2> QED
    BY <1>a, <2>1 DEF http_send_message, TypeOK
<1>b. ASSUME NEW a \in Addresses, enqueue(a)
      PROVE  /\ m_getWSPromises' \in Seq(Pulls)
             /\ network' \in Seq(Messages)
             /\ calls' \in 0..MaxCalls
             /\ promise(a) \in Pulls
  BY <1>a, <1>b, PromiseType DEF enqueue, TypeOK
<1>1. ASSUME NEW a \in Addresses, pull(a) PROVE TypeOK'
  BY <1>1, <1>b DEF pull, enqueue, TypeOK
<1>2. ASSUME NEW a \in Addresses, pull_async(a) PROVE TypeOK'
  BY <1>2, <1>b DEF pull_async, enqueue, TypeOK
<1>3. ASSUME NEW a \in Addresses, request(a) PROVE TypeOK'
  BY <1>3, <1>a DEF request, TypeOK
<1>4. ASSUME NEW a \in Addresses, remove_node(a) PROVE TypeOK'
  BY <1>4 DEF remove_node, TypeOK
<1>5. ASSUME NEW a \in Addresses, change(a) PROVE TypeOK'
  BY <1>5 DEF change, TypeOK
<1>c. ASSUME waiting # NoPull, NEW ok \in BOOLEAN
      PROVE  [id |-> waiting.id, address |-> waiting.address,
              since |-> waiting.since, ok |-> ok,
              value |-> m_value[waiting.address]] \in Results
  BY <1>c DEF TypeOK, Pulls, Results
<1>6. CASE pull_returns
  BY <1>6, <1>c DEF pull_returns, TypeOK
<1>7. CASE pull_timeout
  BY <1>7, <1>c DEF pull_timeout, TypeOK
<1>8. ASSUME NEW i \in DOMAIN network, answer(i) PROVE TypeOK'
  <2>1. network[i] \in Messages
    BY DEF TypeOK
  <2>2. <<network[i].address, remote[network[i].address]>> \in Values
    BY <2>1 DEF TypeOK, Messages, Values
  <2>3. network' \in Seq(Messages)
    <3>1. [network[i] EXCEPT !.answer =
             <<network[i].address, remote[network[i].address]>>] \in Messages
      BY <2>1, <2>2 DEF Messages
    <3> QED
      BY <1>8, <3>1 DEF answer, TypeOK
  <2> QED
    BY <1>8, <2>3 DEF answer, TypeOK
<1>9. ASSUME NEW i \in DOMAIN network, fail(i) PROVE TypeOK'
  BY <1>9, RemoveAtType DEF fail, TypeOK
<1>10. ASSUME NEW i \in DOMAIN network, on_WSMessage(i) PROVE TypeOK'
  <2>1. network' \in Seq(Messages)
    BY <1>10, RemoveAtType DEF on_WSMessage, TypeOK
  <2>2. network[i].answer \in Values
    <3>1. network[i] \in Messages
      BY DEF TypeOK
    <3>2. network[i].answer # NoAnswer
      BY <1>10 DEF on_WSMessage
    <3> QED
      BY <3>1, <3>2 DEF Messages
  <2>3. CASE m_getWSPromises # <<>>
    <3>1. Head(m_getWSPromises) \in Pulls /\ Tail(m_getWSPromises) \in Seq(Pulls)
      BY <2>3 DEF TypeOK
    <3>2. Head(m_getWSPromises).address \in Addresses
          /\ Head(m_getWSPromises).id \in 1..MaxCalls
      BY <3>1 DEF Pulls
    <3>3. m_value' \in [Addresses -> Values] /\ ready' \subseteq 1..MaxCalls
      BY <1>10, <2>2, <2>3, <3>2 DEF on_WSMessage, give_to_promise, given, TypeOK
    <3> QED
      BY <1>10, <2>1, <2>3, <3>1, <3>3 DEF on_WSMessage, give_to_promise, TypeOK
  <2>4. CASE m_getWSPromises = <<>>
    BY <1>10, <2>1, <2>4 DEF on_WSMessage, TypeOK
  <2> QED
    BY <2>3, <2>4
<1>11. CASE UNCHANGED vars
  BY <1>11 DEF vars, TypeOK
<1> QED
  BY <1>1, <1>2, <1>3, <1>4, <1>5, <1>6, <1>7, <1>8, <1>9, <1>10, <1>11 DEF Next

(* oscquery_mirror_protocol's data has its types in every behaviour: lost, *)
(* late and overtaking answers and requests without a promise included.    *)
THEOREM TypeCorrect == Spec => []TypeOK
<1>1. Init => TypeOK
  BY DEF Init, TypeOK, Values
<1> QED
  BY <1>1, TypeStep, PTL DEF Spec
(***************************************************************************)
(* Answers that come in order.                                             *)
(***************************************************************************)

(* What the promise of a new call does to the queue and to the network.    *)
LEMMA EnqueueStep ==
    ASSUME IInv, TypeOK', NEW a \in Addresses, enqueue(a)
    PROVE  QueueFollowsNetwork' /\ InCallOrder' /\ AnswersArePast' /\ SinceIsPast'
<1> DEFINE q == m_getWSPromises
           n == Len(network)
<1>1. /\ q \in Seq(Pulls) /\ network \in Seq(Messages)
      /\ Len(q) = n /\ n \in Nat
      /\ promise(a) \in Pulls
  BY PromiseType DEF IInv, TypeOK, QueueFollowsNetwork, enqueue
<1>2. /\ q' = Append(q, promise(a))
      /\ network' = Append(network, [address |-> a, answer |-> NoAnswer])
      /\ calls' = calls + 1 /\ ready' = ready /\ remote' = remote
  BY DEF enqueue, http_send_message
<1>3. /\ DOMAIN network = 1..n /\ DOMAIN q = 1..n
      /\ DOMAIN network' = 1..(n + 1) /\ DOMAIN q' = 1..(n + 1)
      /\ Len(q') = n + 1 /\ Len(network') = n + 1
  BY <1>1, <1>2
<1>4. /\ \A i \in 1..n : q'[i] = q[i] /\ network'[i] = network[i]
      /\ q'[n + 1] = promise(a)
      /\ network'[n + 1] = [address |-> a, answer |-> NoAnswer]
  BY <1>1, <1>2
<1>5. QueueFollowsNetwork'
  <2>1. ASSUME NEW i \in 1..(n + 1)
        PROVE  /\ q'[i].address = network'[i].address
               /\ network'[i].answer # NoAnswer =>
                    /\ network'[i].answer[1] = network'[i].address
                    /\ network'[i].answer[2] >= q'[i].since
    <3>1. CASE i \in 1..n
      BY <1>3, <1>4, <3>1 DEF IInv, QueueFollowsNetwork
    <3>2. CASE i = n + 1
      BY <1>4, <3>2 DEF promise
    <3> QED
      BY <1>1, <3>1, <3>2
  <2> QED
    BY <1>3, <2>1 DEF QueueFollowsNetwork
<1>6. InCallOrder'
  <2>1. calls \in Nat /\ ready \subseteq 1..calls
    BY DEF IInv, TypeOK, InCallOrder
  <2>2. \A i \in 1..n : q[i].id \in (1..calls) \ ready
    BY <1>3 DEF IInv, InCallOrder
  <2>3. promise(a).id = calls + 1
    BY DEF promise
  <2>4. \A i \in 1..(n + 1) : q'[i].id \in (1..(calls + 1)) \ ready
    <3>1. ASSUME NEW i \in 1..n PROVE q'[i].id \in (1..(calls + 1)) \ ready
      BY <1>4, <2>1, <2>2, <3>1
    <3>2. q'[n + 1].id \in (1..(calls + 1)) \ ready
      BY <1>4, <2>1, <2>3
    <3> QED
      BY <1>1, <3>1, <3>2
  <2>5. \A i, j \in 1..n : i < j => q[i].id < q[j].id
    BY <1>3 DEF IInv, InCallOrder
  <2>6. \A i, j \in 1..(n + 1) : i < j => q'[i].id < q'[j].id
    <3> SUFFICES ASSUME NEW i \in 1..(n + 1), NEW j \in 1..(n + 1), i < j
                 PROVE  q'[i].id < q'[j].id
      OBVIOUS
    <3>1. i \in 1..n /\ q'[i] = q[i]
      BY <1>1, <1>4
    <3>2. CASE j \in 1..n
      BY <1>4, <2>5, <3>1, <3>2
    <3>3. CASE j = n + 1
      <4>1. q'[j].id = calls + 1 /\ q[i].id \in 1..calls
        BY <1>4, <2>2, <2>3, <3>1, <3>3
      <4> QED
        BY <2>1, <3>1, <4>1
    <3> QED
      BY <1>1, <3>2, <3>3
  <2> QED
    BY <1>2, <1>3, <2>1, <2>4, <2>6 DEF InCallOrder
<1>7. AnswersArePast'
  <2>1. ASSUME NEW i \in 1..(n + 1), network'[i].answer # NoAnswer
        PROVE  network'[i].answer[2] <= remote'[network'[i].address]
    <3>1. i \in 1..n
      BY <1>1, <1>4, <2>1
    <3> QED
      BY <1>2, <1>3, <1>4, <2>1, <3>1 DEF IInv, AnswersArePast
  <2> QED
    BY <1>3, <2>1 DEF AnswersArePast
<1>8. SinceIsPast'
  <2>1. \A i \in 1..(n + 1) : q'[i].since <= remote[q'[i].address]
    <3>1. \A i \in 1..n : q[i].since <= remote[q[i].address]
      BY <1>3 DEF IInv, SinceIsPast
    <3>2. remote[a] \in Nat /\ promise(a).since = remote[a]
          /\ promise(a).address = a
      BY DEF IInv, TypeOK, promise
    <3> QED
      BY <1>1, <1>4, <3>1, <3>2
  <2> QED
    BY <1>2, <1>3, <2>1 DEF SinceIsPast
<1> QED
  BY <1>5, <1>6, <1>7, <1>8

(* A value of the server only gets newer.                                  *)
LEMMA ChangeStep ==
    ASSUME IInv, TypeOK', NEW a \in Addresses, change(a)
    PROVE  IInv'
<1>1. \A b \in Addresses : remote[b] \in Nat /\ remote'[b] \in Nat
                            /\ remote[b] <= remote'[b]
  BY DEF IInv, TypeOK, change
<1>2. UNCHANGED <<nodes, m_value, m_getWSPromises, network, ready, calls,
                  waiting, returned>>
  BY DEF change
<1>3. PulledIsRetrieved'
  <2> SUFFICES ASSUME returned # NoPull, returned.ok
               PROVE  /\ returned.value[1] = returned.address
                      /\ returned.value[2]
                           \in returned.since .. remote'[returned.address]
    BY <1>2 DEF PulledIsRetrieved
  <2>1. returned \in Results
    BY DEF IInv, TypeOK
  <2>2. returned.address \in Addresses /\ returned.since \in Nat
    BY <2>1 DEF Results
  <2> QED
    BY <1>1, <2>2 DEF IInv, PulledIsRetrieved
<1>4. QueueFollowsNetwork' /\ InCallOrder'
  BY <1>2 DEF IInv, QueueFollowsNetwork, InCallOrder
<1>5. WaitingIsLast'
  <2> SUFFICES ASSUME waiting # NoPull PROVE WaitingIsLast'
    BY <1>2 DEF WaitingIsLast
  <2>1. waiting \in Pulls
    BY DEF IInv, TypeOK
  <2>2. waiting.address \in Addresses /\ waiting.since \in Nat
    BY <2>1 DEF Pulls
  <2> QED
    BY <1>1, <1>2, <2>2 DEF IInv, WaitingIsLast
<1>6. AnswersArePast'
  <2> SUFFICES ASSUME NEW i \in DOMAIN network, network[i].answer # NoAnswer
               PROVE  network[i].answer[2] <= remote'[network[i].address]
    BY <1>2 DEF AnswersArePast
  <2>1. network[i] \in Messages
    BY DEF IInv, TypeOK
  <2>2. network[i].address \in Addresses /\ network[i].answer \in Values
    BY <2>1 DEF Messages
  <2>3. network[i].answer[2] \in Nat
    BY <2>2 DEF Values
  <2>4. network[i].answer[2] <= remote[network[i].address]
    BY DEF IInv, AnswersArePast
  <2> QED
    BY <1>1, <2>2, <2>3, <2>4
<1>7. SinceIsPast'
  <2> SUFFICES ASSUME NEW i \in DOMAIN m_getWSPromises
               PROVE  m_getWSPromises[i].since <= remote'[m_getWSPromises[i].address]
    BY <1>2 DEF SinceIsPast
  <2>1. m_getWSPromises[i] \in Pulls
    BY DEF IInv, TypeOK
  <2>2. m_getWSPromises[i].address \in Addresses /\ m_getWSPromises[i].since \in Nat
    BY <2>1 DEF Pulls
  <2>3. m_getWSPromises[i].since <= remote[m_getWSPromises[i].address]
    BY DEF IInv, SinceIsPast
  <2> QED
    BY <1>1, <2>2, <2>3
<1> QED
  BY <1>3, <1>4, <1>5, <1>6, <1>7 DEF IInv
(* The server answers a request: the answer is the value it holds now.     *)
LEMMA AnswerStep ==
    ASSUME IInv, TypeOK', NEW i \in DOMAIN network, answer(i)
    PROVE  IInv'
<1> DEFINE a == network[i].address
<1>1. UNCHANGED <<remote, nodes, m_value, m_getWSPromises, ready, calls,
                  waiting, returned>>
  BY DEF answer
<1>2. /\ network \in Seq(Messages) /\ network[i] \in Messages
      /\ a \in Addresses /\ remote[a] \in Nat
  <2>1. network \in Seq(Messages) /\ network[i] \in Messages
    BY DEF IInv, TypeOK
  <2>2. a \in Addresses
    BY <2>1 DEF Messages
  <2> QED
    BY <2>1, <2>2 DEF IInv, TypeOK
<1>3. /\ DOMAIN network' = DOMAIN network /\ Len(network') = Len(network)
      /\ \A j \in DOMAIN network : j # i => network'[j] = network[j]
      /\ network'[i].address = a
      /\ network'[i].answer = <<a, remote[a]>>
  <2> DEFINE v == <<a, remote[a]>>
             m == [network[i] EXCEPT !.answer = v]
  <2>1. network' = [network EXCEPT ![i] = m]
    BY DEF answer
  <2>2. m.address = a /\ m.answer = v
    BY <1>2 DEF Messages
  <2> HIDE DEF m, v, a
  <2>3. /\ DOMAIN network' = DOMAIN network
        /\ \A j \in DOMAIN network : j # i => network'[j] = network[j]
        /\ network'[i] = m
    BY <2>1
  <2>4. Len(network') = Len(network)
    BY <1>2, <2>1, <2>3
  <2> QED
    BY <2>2, <2>3, <2>4 DEF v
<1>4. m_getWSPromises[i].address = a /\ m_getWSPromises[i] \in Pulls
  BY DEF IInv, TypeOK, QueueFollowsNetwork
<1>5. m_getWSPromises[i].since <= remote[a]
  <2>1. i \in DOMAIN m_getWSPromises
    BY <1>2 DEF IInv, TypeOK, QueueFollowsNetwork
  <2> QED
    BY <1>4, <2>1 DEF IInv, SinceIsPast
<1>6. QueueFollowsNetwork'
  <2>1. ASSUME NEW j \in DOMAIN network
        PROVE  /\ m_getWSPromises[j].address = network'[j].address
               /\ network'[j].answer # NoAnswer =>
                    /\ network'[j].answer[1] = network'[j].address
                    /\ network'[j].answer[2] >= m_getWSPromises[j].since
    <3>1. CASE j = i
      <4>1. m_getWSPromises[i].since \in Nat
        BY <1>4 DEF Pulls
      <4> QED
        BY <1>2, <1>3, <1>4, <1>5, <3>1, <4>1
    <3>2. CASE j # i
      BY <1>3, <3>2 DEF IInv, QueueFollowsNetwork
    <3> QED
      BY <3>1, <3>2
  <2> QED
    BY <1>1, <1>3, <2>1 DEF IInv, QueueFollowsNetwork
<1>7. AnswersArePast'
  <2>1. ASSUME NEW j \in DOMAIN network, network'[j].answer # NoAnswer
        PROVE  network'[j].answer[2] <= remote[network'[j].address]
    <3>1. CASE j = i
      BY <1>2, <1>3, <3>1
    <3>2. CASE j # i
      BY <1>3, <2>1, <3>2 DEF IInv, AnswersArePast
    <3> QED
      BY <3>1, <3>2
  <2> QED
    BY <1>1, <1>3, <2>1 DEF AnswersArePast
<1> QED
  BY <1>1, <1>6, <1>7
     DEF IInv, PulledIsRetrieved, WaitingIsLast, InCallOrder, SinceIsPast

(* The first answer is given to the first promise, which is its own.       *)
LEMMA MessageStep ==
    ASSUME IInv, TypeOK', InOrder, ~Failures, NEW i \in DOMAIN network, on_WSMessage(i)
    PROVE  IInv'
<1> DEFINE q == m_getWSPromises
           n == Len(network)
           p == Head(q)
<1>1. /\ i = 1 /\ network \in Seq(Messages) /\ q \in Seq(Pulls)
      /\ Len(q) = n /\ n \in Nat /\ n >= 1
      /\ network # <<>> /\ q # <<>>
  BY DEF IInv, TypeOK, QueueFollowsNetwork, on_WSMessage
<1>2. network' = Tail(network)
  BY <1>1, RemoveFirstIsTail DEF on_WSMessage
<1>3. /\ q' = Tail(q)
      /\ m_value' = IF p.address \in nodes
                    THEN [m_value EXCEPT ![p.address] = network[1].answer]
                    ELSE m_value
      /\ ready' = ready \cup {p.id}
      /\ UNCHANGED <<remote, nodes, calls, waiting, returned>>
  BY <1>1 DEF on_WSMessage, give_to_promise, given
<1>4. /\ p = q[1] /\ p \in Pulls /\ p.address \in Addresses
      /\ p.address = network[1].address
      /\ network[1].answer # NoAnswer /\ network[1].answer \in Values
  <2>1. p = q[1] /\ p \in Pulls
    BY <1>1
  <2>2. network[1].answer # NoAnswer /\ network[1] \in Messages
    BY <1>1 DEF on_WSMessage
  <2>3. network[1].answer \in Values
    BY <2>2 DEF Messages
  <2> QED
    BY <1>1, <2>1, <2>2, <2>3 DEF IInv, QueueFollowsNetwork, Pulls
<1>5. /\ network[1].answer[1] = p.address
      /\ network[1].answer[2] \in p.since .. remote[p.address]
  <2>1. /\ network[1].answer[1] = p.address
        /\ network[1].answer[2] >= p.since
        /\ network[1].answer[2] <= remote[p.address]
    BY <1>1, <1>4 DEF IInv, QueueFollowsNetwork, AnswersArePast
  <2>2. network[1].answer[2] \in Nat
    BY <1>4 DEF Values
  <2>3. p.since \in Nat /\ remote[p.address] \in Nat
    BY <1>4 DEF Pulls, IInv, TypeOK
  <2> QED
    BY <2>1, <2>2, <2>3
<1>6. /\ DOMAIN network = 1..n /\ DOMAIN q = 1..n
      /\ DOMAIN network' = 1..(n - 1) /\ DOMAIN q' = 1..(n - 1)
      /\ Len(q') = n - 1 /\ Len(network') = n - 1
      /\ \A j \in 1..(n - 1) :
           j + 1 \in 1..n /\ q'[j] = q[j + 1] /\ network'[j] = network[j + 1]
  BY <1>1, <1>2, <1>3
<1>7. QueueFollowsNetwork' /\ AnswersArePast' /\ SinceIsPast'
  <2>1. QueueFollowsNetwork'
    <3>1. ASSUME NEW j \in 1..(n - 1)
          PROVE  /\ q'[j].address = network'[j].address
                 /\ network'[j].answer # NoAnswer =>
                      /\ network'[j].answer[1] = network'[j].address
                      /\ network'[j].answer[2] >= q'[j].since
      <4>1. /\ j + 1 \in DOMAIN network
            /\ q'[j] = q[j + 1] /\ network'[j] = network[j + 1]
        BY <1>6
      <4> QED
        BY <4>1 DEF IInv, QueueFollowsNetwork
    <3> QED
      BY <1>6, <3>1 DEF QueueFollowsNetwork
  <2>2. AnswersArePast'
    BY <1>3, <1>6 DEF IInv, AnswersArePast
  <2>3. SinceIsPast'
    BY <1>3, <1>6 DEF IInv, SinceIsPast
  <2> QED
    BY <2>1, <2>2, <2>3
<1>8. InCallOrder'
  <2>1. \A j \in 1..n : q[j].id \in (1..calls) \ ready
    BY <1>6 DEF IInv, InCallOrder
  <2>2. \A j, k \in 1..n : j < k => q[j].id < q[k].id
    BY <1>6 DEF IInv, InCallOrder
  <2>3. \A j \in 1..(n - 1) : q'[j].id \in (1..calls) \ ready'
    <3> SUFFICES ASSUME NEW j \in 1..(n - 1)
                 PROVE  q[j + 1].id \in (1..calls) \ ready'
      BY <1>6
    <3>1. j + 1 \in 1..n /\ 1 < j + 1 /\ 1 \in 1..n
      BY <1>1
    <3>2. q[1].id < q[j + 1].id /\ q[1].id \in 1..calls
      BY <2>1, <2>2, <3>1
    <3>3. calls \in Nat
      BY DEF IInv, TypeOK
    <3> QED
      BY <1>3, <1>4, <2>1, <3>1, <3>2, <3>3
  <2>4. \A j, k \in 1..(n - 1) : j < k => q'[j].id < q'[k].id
    BY <1>1, <1>6, <2>2
  <2>5. ready' \subseteq 1..calls
    <3>1. 1 \in 1..n /\ p.id \in 1..calls
      BY <1>1, <1>4, <2>1
    <3>2. ready \subseteq 1..calls
      BY DEF IInv, InCallOrder
    <3> QED
      BY <1>3, <3>1, <3>2
  <2> QED
    BY <1>3, <1>6, <2>3, <2>4, <2>5 DEF InCallOrder
<1>9. WaitingIsLast'
  <2> SUFFICES ASSUME waiting # NoPull PROVE WaitingIsLast'
    BY <1>3 DEF WaitingIsLast
  <2>1. /\ waiting.address \in nodes
        /\ waiting.id \notin ready /\ q[n] = waiting
    BY <1>1 DEF IInv, WaitingIsLast
  <2>2. CASE n = 1
    <3>1. p = waiting /\ q' = <<>> /\ waiting.id \in ready'
      BY <1>1, <1>3, <1>4, <1>6, <2>1, <2>2
    <3>2. m_value'[waiting.address] = network[1].answer
      BY <1>3, <1>4, <2>1, <3>1 DEF IInv, TypeOK
    <3> QED
      BY <1>3, <1>5, <2>1, <3>1, <3>2 DEF WaitingIsLast
  <2>3. CASE n > 1
    <3>1. n - 1 \in 1..(n - 1) /\ q'[n - 1] = q[n] /\ q' # <<>>
      BY <1>1, <1>6, <2>3
    <3>2. waiting.id \notin ready'
      BY <1>6, <1>8, <2>1, <3>1 DEF InCallOrder
    <3> QED
      BY <1>3, <1>6, <2>1, <3>1, <3>2 DEF WaitingIsLast
  <2> QED
    BY <1>1, <2>2, <2>3
<1>10. PulledIsRetrieved'
  BY <1>3 DEF IInv, PulledIsRetrieved
<1> QED
  BY <1>7, <1>8, <1>9, <1>10 DEF IInv
(* A call that ends, in time or not, leaves the queue as it is.            *)
LEMMA ReturnStep ==
    ASSUME IInv, TypeOK', pull_returns \/ pull_timeout
    PROVE  IInv'
<1>1. /\ waiting # NoPull /\ waiting' = NoPull
      /\ UNCHANGED <<remote, nodes, m_value, m_getWSPromises, network, ready, calls>>
  BY DEF pull_returns, pull_timeout
<1>2. PulledIsRetrieved'
  <2>1. CASE pull_returns
    <3>1. /\ returned'.value = m_value[waiting.address]
          /\ returned'.address = waiting.address
          /\ returned'.since = waiting.since
          /\ waiting.id \in ready
      BY <2>1 DEF pull_returns
    <3>2. /\ m_value[waiting.address][1] = waiting.address
          /\ m_value[waiting.address][2]
               \in waiting.since .. remote[waiting.address]
      BY <1>1, <3>1 DEF IInv, WaitingIsLast
    <3> QED
      BY <1>1, <3>1, <3>2 DEF PulledIsRetrieved
  <2>2. CASE pull_timeout
    BY <2>2 DEF pull_timeout, PulledIsRetrieved
  <2> QED
    BY <2>1, <2>2
<1> QED
  BY <1>1, <1>2 DEF IInv, QueueFollowsNetwork, WaitingIsLast, InCallOrder,
                    AnswersArePast, SinceIsPast

(* Every step keeps the invariant when answers come in order, no request   *)
(* fails and each one has a promise.                                       *)
LEMMA InvStep ==
    ASSUME InOrder, ~Failures, ~Requests
    PROVE  IInv /\ [Next]_vars => IInv'
<1> SUFFICES ASSUME IInv, [Next]_vars PROVE IInv'
  OBVIOUS
<1>t. TypeOK'
  BY TypeStep DEF IInv
<1>1. ASSUME NEW a \in Addresses, enqueue(a), waiting' \in {waiting, promise(a)}
      PROVE  IInv'
  <2>1. QueueFollowsNetwork' /\ InCallOrder' /\ AnswersArePast' /\ SinceIsPast'
    BY <1>1, <1>t, EnqueueStep
  <2>2. PulledIsRetrieved'
    BY <1>1 DEF enqueue, IInv, PulledIsRetrieved
  <2>3. WaitingIsLast'
    <3>1. CASE waiting' = waiting
      BY <1>1, <3>1 DEF enqueue, WaitingIsLast
    <3>2. CASE waiting' = promise(a)
      <4>1. /\ m_getWSPromises' = Append(m_getWSPromises, promise(a))
            /\ ready' = ready /\ nodes' = nodes /\ a \in nodes
            /\ m_getWSPromises \in Seq(Pulls) /\ promise(a) \in Pulls
        BY <1>1, PromiseType DEF enqueue, IInv, TypeOK
      <4>2. /\ m_getWSPromises' # <<>>
            /\ m_getWSPromises'[Len(m_getWSPromises')] = promise(a)
        BY <4>1
      <4>3. promise(a).address = a /\ promise(a).id = calls + 1
        BY DEF promise
      <4>4. calls + 1 \notin ready
        BY DEF IInv, InCallOrder, TypeOK
      <4> QED
        BY <3>2, <4>1, <4>2, <4>3, <4>4 DEF WaitingIsLast
    <3> QED
      BY <1>1, <3>1, <3>2
  <2> QED
    BY <1>t, <2>1, <2>2, <2>3 DEF IInv
<1>2. ASSUME NEW a \in Addresses, pull(a) \/ pull_async(a) PROVE IInv'
  BY <1>1, <1>2 DEF pull, pull_async
<1>3. ASSUME NEW a \in Addresses, remove_node(a) PROVE IInv'
  BY <1>3, <1>t DEF remove_node, IInv, PulledIsRetrieved, QueueFollowsNetwork,
                    WaitingIsLast, InCallOrder, AnswersArePast, SinceIsPast
<1>4. ASSUME NEW a \in Addresses, change(a) PROVE IInv'
  BY <1>4, <1>t, ChangeStep
<1>5. CASE pull_returns \/ pull_timeout
  BY <1>5, <1>t, ReturnStep
<1>6. ASSUME NEW i \in DOMAIN network, answer(i) PROVE IInv'
  BY <1>6, <1>t, AnswerStep
<1>7. ASSUME NEW i \in DOMAIN network, on_WSMessage(i) PROVE IInv'
  BY <1>7, <1>t, MessageStep
<1>8. CASE UNCHANGED vars
  BY <1>8, <1>t DEF vars, IInv, PulledIsRetrieved, QueueFollowsNetwork,
                    WaitingIsLast, InCallOrder, AnswersArePast, SinceIsPast
<1> QED
  BY <1>2, <1>3, <1>4, <1>5, <1>6, <1>7, <1>8 DEF Next, request, fail

(* The invariant holds throughout.                                         *)
THEOREM Invariance ==
    ASSUME InOrder, ~Failures, ~Requests
    PROVE  Spec => []IInv
<1>1. Init => IInv
  <2>1. Init => TypeOK
    BY DEF Init, TypeOK, Values
  <2> QED
    BY <2>1 DEF Init, IInv, PulledIsRetrieved, QueueFollowsNetwork,
                WaitingIsLast, InCallOrder, AnswersArePast, SinceIsPast, NoPull
<1>2. IInv /\ [Next]_vars => IInv'
  BY InvStep
<1> QED
  BY <1>1, <1>2, PTL DEF Spec

(* protocol_base::pull, "True if the value was correctly retrieved": with  *)
(* any number of calls, and late answers, this is so of the mirror when    *)
(* answers come in order, none fails and request is not used.              *)
THEOREM PullInOrderIsCorrect ==
    ASSUME InOrder, ~Failures, ~Requests
    PROVE  Spec => []PulledIsRetrieved
<1>1. IInv => PulledIsRetrieved
  BY DEF IInv
<1> QED
  BY <1>1, Invariance, PTL

(* Under the same assumptions m_getWSPromises and the requests on their    *)
(* way correspond one by one.                                              *)
THEOREM QueueFollowsNetworkCorrect ==
    ASSUME InOrder, ~Failures, ~Requests
    PROVE  Spec => []QueueFollowsNetwork
<1>1. IInv => QueueFollowsNetwork
  BY DEF IInv
<1> QED
  BY <1>1, Invariance, PTL

-----------------------------------------------------------------------------
(***************************************************************************)
(* Promises, whatever the network does.                                    *)
(***************************************************************************)
KeptInv ==
    /\ TypeOK
    /\ ready \subseteq 1..calls
    /\ \A i \in 1..Len(m_getWSPromises) : m_getWSPromises[i].id \in (1..calls) \ ready
    /\ \A i, j \in 1..Len(m_getWSPromises) :
         m_getWSPromises[i].id = m_getWSPromises[j].id => i = j
    /\ waiting # NoPull /\ waiting.id \notin ready =>
         \E i \in 1..Len(m_getWSPromises) : m_getWSPromises[i].id = waiting.id

(* A call makes a promise that is not in the queue yet.                    *)
LEMMA EnqueueKept ==
    ASSUME KeptInv, TypeOK', NEW a \in Addresses, enqueue(a),
           waiting' \in {NoPull, promise(a)}
    PROVE  KeptInv'
<1> DEFINE n == Len(m_getWSPromises)
<1>1. /\ m_getWSPromises' = Append(m_getWSPromises, promise(a))
      /\ calls' = calls + 1 /\ ready' = ready
      /\ promise(a).id = calls + 1
      /\ calls \in Nat /\ ready \subseteq 1..calls
  BY DEF enqueue, promise, KeptInv, TypeOK
<1>2. /\ n \in Nat /\ Len(m_getWSPromises') = n + 1
      /\ \A i \in 1..n : m_getWSPromises'[i] = m_getWSPromises[i]
      /\ m_getWSPromises'[n + 1].id = calls + 1
  BY <1>1 DEF KeptInv, TypeOK
<1>3. \A i \in 1..n : m_getWSPromises[i].id \in (1..calls) \ ready
  BY DEF KeptInv
<1> HIDE DEF n
<1>4. \A i \in 1..(n + 1) : m_getWSPromises'[i].id \in (1..(calls + 1)) \ ready
  BY <1>1, <1>2, <1>3
<1>5. \A i, j \in 1..(n + 1) : m_getWSPromises'[i].id = m_getWSPromises'[j].id => i = j
  BY <1>1, <1>2, <1>3 DEF KeptInv, n
<1>6. waiting' # NoPull => m_getWSPromises'[n + 1].id = waiting'.id
  BY <1>1, <1>2
<1> QED
  BY <1>1, <1>2, <1>4, <1>5, <1>6 DEF KeptInv

(* An answer takes the first promise out and keeps it.                     *)
LEMMA GiveKept ==
    ASSUME KeptInv, TypeOK', m_getWSPromises # <<>>, NEW v,
           give_to_promise(v, Head(m_getWSPromises)), UNCHANGED <<calls, waiting>>
    PROVE  KeptInv'
<1> DEFINE n == Len(m_getWSPromises)
           q == m_getWSPromises
<1>1. /\ n \in Nat \ {0} /\ Head(q) = q[1]
      /\ Len(Tail(q)) = n - 1 /\ \A i \in 1..(n - 1) : Tail(q)[i] = q[i + 1]
  BY DEF KeptInv, TypeOK
<1>2. q' = Tail(q) /\ ready' = ready \cup {q[1].id}
  BY <1>1 DEF give_to_promise
<1>3. /\ \A i \in 1..n : q[i].id \in (1..calls) \ ready
      /\ \A i, j \in 1..n : q[i].id = q[j].id => i = j
  BY DEF KeptInv
<1> HIDE DEF n, q
<1>4. \A i \in 1..(n - 1) : i + 1 \in 1..n /\ i + 1 # 1
  BY <1>1
<1>5. 1 \in 1..n
  BY <1>1
<1>6. \A i \in 1..(n - 1) : q'[i].id \in (1..calls) \ ready'
  BY <1>1, <1>2, <1>3, <1>4, <1>5
<1>7. \A i, j \in 1..(n - 1) : q'[i].id = q'[j].id => i = j
  <2> SUFFICES ASSUME NEW i \in 1..(n - 1), NEW j \in 1..(n - 1), q'[i].id = q'[j].id
               PROVE  i = j
    OBVIOUS
  <2>1. i + 1 = j + 1
    BY <1>1, <1>2, <1>3, <1>4
  <2> QED
    BY <2>1, <1>1
<1>8. ASSUME waiting # NoPull, waiting.id \notin ready'
      PROVE  \E i \in 1..(n - 1) : q'[i].id = waiting.id
  <2>1. PICK i \in 1..n : q[i].id = waiting.id
    BY <1>2, <1>8 DEF KeptInv, n, q
  <2>2. i # 1
    BY <2>1, <1>2, <1>8
  <2>3. i - 1 \in 1..(n - 1) /\ (i - 1) + 1 = i
    BY <2>2, <1>1
  <2>4. q'[i - 1] = q[i]
    BY <2>3, <1>1, <1>2
  <2> QED
    BY <2>1, <2>3, <2>4
<1>9. ready' \subseteq 1..calls
  BY <1>2, <1>3, <1>5 DEF KeptInv
<1> QED
  BY <1>1, <1>2, <1>6, <1>7, <1>8, <1>9 DEF KeptInv, q

LEMMA KeptStep == KeptInv /\ [Next]_vars => KeptInv'
<1> SUFFICES ASSUME KeptInv, [Next]_vars PROVE KeptInv'
  OBVIOUS
<1>1. TypeOK'
  BY TypeStep DEF KeptInv
<1>2. calls \in Nat
  BY DEF KeptInv, TypeOK
<1>3. ASSUME NEW a \in Addresses, pull(a) \/ pull_async(a) PROVE KeptInv'
  BY <1>1, <1>3, EnqueueKept DEF pull, pull_async, enqueue
<1>4. ASSUME NEW a \in Addresses, request(a) \/ remove_node(a) \/ change(a)
      PROVE  KeptInv'
  <2>1. /\ UNCHANGED <<m_getWSPromises, ready, waiting>>
        /\ calls' = calls \/ calls' = calls + 1
    BY <1>4 DEF request, remove_node, change
  <2> QED
    BY <1>1, <1>2, <2>1 DEF KeptInv
<1>5. CASE pull_returns \/ pull_timeout
  <2>1. UNCHANGED <<m_getWSPromises, ready, calls>> /\ waiting' = NoPull
    BY <1>5 DEF pull_returns, pull_timeout
  <2> QED
    BY <1>1, <2>1 DEF KeptInv
<1>6. ASSUME NEW i \in DOMAIN network, answer(i) \/ fail(i) PROVE KeptInv'
  <2>1. UNCHANGED <<m_getWSPromises, ready, calls, waiting>>
    BY <1>6 DEF answer, fail
  <2> QED
    BY <1>1, <2>1 DEF KeptInv
<1>7. ASSUME NEW i \in DOMAIN network, on_WSMessage(i) PROVE KeptInv'
  <2>1. CASE m_getWSPromises # <<>>
    BY <1>1, <1>7, <2>1, GiveKept DEF on_WSMessage
  <2>2. CASE m_getWSPromises = <<>>
    <3>1. UNCHANGED <<m_getWSPromises, ready, calls, waiting>>
      BY <1>7, <2>2 DEF on_WSMessage
    <3> QED
      BY <1>1, <3>1 DEF KeptInv
  <2> QED
    BY <2>1, <2>2
<1>8. CASE UNCHANGED vars
  BY <1>1, <1>8 DEF vars, KeptInv
<1> QED
  BY <1>3, <1>4, <1>5, <1>6, <1>7, <1>8 DEF Next

(* Whatever fails, is late or overtakes, m_getWSPromises has the promise of*)
(* a pull that waits until it is kept, and no promise twice or after it was*)
(* kept, which std::promise would answer with an exception.                *)
THEOREM PromiseKeptCorrect == Spec => []PromiseKept
<1>1. Init => KeptInv
  <2>1. Init => TypeOK
    BY DEF Init, TypeOK, Values
  <2> QED
    BY <2>1 DEF Init, KeptInv
<1>2. KeptInv /\ [Next]_vars => KeptInv'
  BY KeptStep
<1>3. KeptInv => PromiseKept
  <2> SUFFICES ASSUME KeptInv PROVE PromiseKept
    OBVIOUS
  <2>1. DOMAIN m_getWSPromises = 1..Len(m_getWSPromises)
    BY DEF KeptInv, TypeOK
  <2> QED
    BY <2>1 DEF KeptInv, PromiseKept
<1> QED
  BY <1>1, <1>2, <1>3, PTL DEF Spec
=============================================================================
