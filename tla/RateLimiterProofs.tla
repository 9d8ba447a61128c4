------------------------- MODULE RateLimiterProofs -------------------------
(***************************************************************************)
(* TLAPS proofs about rate_limiting_protocol, for every number of          *)
(* parameters, every period and every bound on pushes and exceptions.      *)
(***************************************************************************)
EXTENDS RateLimiter, TLAPS

USE ParamCountAssumption, MaxPushAssumption, MaxThrowAssumption,
    DurationAssumption

(* The initial state of rate_limiting_protocol satisfies the invariant.    *)
LEMMA InitInv == Init => IInv
  BY DEF Init, IInv, TypeOK, BufferDrained, NewestWins, OutIsOldest,
         ForwardedUpToCur, Empty, Params, Ranks, PCs, Invalid

(* Every step of the thread, of push() and of the destructor keeps types.  *)
LEMMA TypeStep == TypeOK /\ [Next]_vars => TypeOK'
<1> USE DEF TypeOK
<1> SUFFICES ASSUME TypeOK, [Next]_vars PROVE TypeOK'
  OBVIOUS
<1>a. Invalid \in Ranks /\ Empty \in [Params -> Ranks]
  BY DEF Invalid, Ranks, Empty
<1>b. {"head", "sleep", "copy", "push", "exit", "joined"} \subseteq PCs
  BY DEF PCs
<1>1. ASSUME NEW p \in Params, push(p) PROVE TypeOK'
  <2>1. asked[p] + 1 \in Ranks
    BY <1>1 DEF push, Ranks
  <2> QED
    BY <1>1, <2>1 DEF push
<1>2. ASSUME NEW p \in Params, parameter_destroyed(p) PROVE TypeOK'
  BY <1>2 DEF parameter_destroyed
<1>3. CASE loop_head
  BY <1>3, <1>b DEF loop_head
<1>4. CASE swap_messages
  BY <1>4, <1>b DEF swap_messages
<1>5. CASE copy_newest
  <2>1. m_threadMessages' \in [Params -> Ranks] /\ m_buffer' \in [Params -> Ranks]
    BY <1>5, <1>a DEF copy_newest
  <2> QED
    BY <1>5, <1>b, <2>1 DEF copy_newest
<1>6. CASE push_one
  <2>1. cur \in Params /\ cur + 1 \in 1..(ParamCount + 1)
    BY <1>6 DEF push_one, Params
  <2>2. out' \in [Params -> Ranks]
    BY <1>6, <2>1 DEF push_one
  <2> QED
    BY <1>6, <2>1, <2>2 DEF push_one
<1>7. CASE push_throws
  <2>1. cur \in Params
    BY <1>7 DEF push_throws, Params
  <2>2. out' \in [Params -> Ranks]
    BY <1>7, <2>1 DEF push_throws
  <2>3. throws + 1 \in 0..MaxThrow
    BY <1>7 DEF push_throws
  <2> QED
    BY <1>7, <1>b, <2>2, <2>3 DEF push_throws
<1>8. CASE clear_messages
  <2>1. PICK observed \in time_to_sleep..(2 * Duration + 1) :
            time_to_sleep' = next_sleep(observed)
    BY <1>8 DEF clear_messages
  <2>2. time_to_sleep' \in 0..Duration
    BY <2>1 DEF next_sleep
  <2> QED
    BY <1>8, <1>a, <1>b, <2>2 DEF clear_messages
<1>9. CASE destructor_stop
  BY <1>9 DEF destructor_stop
<1>10. CASE destructor_join
  BY <1>10, <1>b DEF destructor_join
<1>11. CASE UNCHANGED vars
  BY <1>11 DEF vars
<1> QED
  BY <1>1, <1>2, <1>3, <1>4, <1>5, <1>6, <1>7, <1>8, <1>9, <1>10, <1>11
     DEF Next, thread_step

(* In a well-typed state the entries of the maps are natural numbers.      *)
LEMMA Entries ==
    ASSUME TypeOK
    PROVE  \A p \in Params : /\ m_userMessages[p] \in Nat
                            /\ m_buffer[p] \in Nat
                            /\ m_threadMessages[p] \in Nat
                            /\ asked[p] \in Nat
                            /\ out[p] \in Nat
  BY DEF TypeOK, Ranks

(* The order of the maps survives every step.                              *)
LEMMA OrderStep == IInv /\ [Next]_vars => IInv'
<1> USE DEF Params, Ranks, PCs, Invalid, Empty, BufferDrained, NewestWins,
            OutIsOldest, ForwardedUpToCur
<1> SUFFICES ASSUME IInv, [Next]_vars
             PROVE (BufferDrained /\ NewestWins /\ OutIsOldest
                      /\ ForwardedUpToCur)'
  BY TypeStep DEF IInv
<1>0. TypeOK /\ BufferDrained /\ NewestWins /\ OutIsOldest
        /\ ForwardedUpToCur
  BY DEF IInv
<1>1. ASSUME NEW p \in Params, push(p)
      PROVE (BufferDrained /\ NewestWins /\ OutIsOldest
               /\ ForwardedUpToCur)'
  <2>1. \A q \in Params :
          /\ asked'[q] = IF q = p THEN asked[q] + 1 ELSE asked[q]
          /\ m_userMessages'[q] = IF q = p THEN asked[q] + 1
                                  ELSE m_userMessages[q]
    BY <1>0, <1>1 DEF TypeOK, push
  <2>2. /\ m_buffer' = m_buffer /\ m_threadMessages' = m_threadMessages
        /\ out' = out /\ pc' = pc /\ cur' = cur
    BY <1>1 DEF push
  <2> HIDE DEF Params, Empty
  <2>3. BufferDrained' /\ ForwardedUpToCur'
    BY <1>0, <2>2
  <2>4. NewestWins'
    BY <1>0, <2>1, <2>2, Entries
  <2>5. OutIsOldest'
    BY <1>0, <2>1, <2>2, Entries
  <2> QED
    BY <2>3, <2>4, <2>5
<1>2. ASSUME NEW p \in Params, parameter_destroyed(p)
      PROVE (BufferDrained /\ NewestWins /\ OutIsOldest
               /\ ForwardedUpToCur)'
  BY <1>0, <1>2 DEF TypeOK, parameter_destroyed
<1>3. CASE loop_head
  BY <1>0, <1>3 DEF TypeOK, loop_head
<1>4. CASE swap_messages
  <2>1. \A q \in Params : m_buffer[q] = 0 /\ m_userMessages'[q] = 0
    BY <1>0, <1>4 DEF swap_messages
  <2>2. /\ m_buffer' = m_userMessages /\ pc' = "copy"
        /\ m_threadMessages' = m_threadMessages /\ asked' = asked
        /\ out' = out
    BY <1>4 DEF swap_messages
  <2> HIDE DEF Params, Empty
  <2>3. BufferDrained' /\ ForwardedUpToCur'
    BY <2>2
  <2>4. NewestWins'
    BY <1>0, <2>1, <2>2
  <2>5. OutIsOldest'
    BY <1>0, <2>1, <2>2, Entries
  <2> QED
    BY <2>3, <2>4, <2>5
<1>5. CASE copy_newest
  <2>1. \A q \in Params :
          /\ m_buffer'[q] = 0
          /\ m_threadMessages'[q] = IF m_buffer[q] # 0 THEN m_buffer[q]
                                    ELSE m_threadMessages[q]
    BY <1>5 DEF copy_newest
  <2>2. /\ m_userMessages' = m_userMessages /\ asked' = asked
        /\ out' = out /\ cur' = 1 /\ m_buffer' = Empty
    BY <1>5 DEF copy_newest
  <2>3. \A q \in Params : ~(q < 1)
    OBVIOUS
  <2> HIDE DEF Params, Empty
  <2>4. BufferDrained' /\ ForwardedUpToCur'
    BY <2>2, <2>3
  <2>5. NewestWins'
    BY <1>0, <2>1, <2>2, Entries
  <2>6. OutIsOldest'
    BY <1>0, <2>1, <2>2, Entries
  <2> QED
    BY <2>4, <2>5, <2>6
<1>6. CASE push_one
  <2>1. cur \in Params /\ cur \in Nat
    BY <1>0, <1>6 DEF push_one, TypeOK
  <2>2. \A q \in Params :
          out'[q] = IF q = cur /\ m_threadMessages[cur] # 0
                    THEN m_threadMessages[cur] ELSE out[q]
    BY <1>0, <1>6 DEF TypeOK, push_one
  <2>3. /\ m_userMessages' = m_userMessages /\ m_buffer' = m_buffer
        /\ m_threadMessages' = m_threadMessages /\ asked' = asked
        /\ pc' = pc /\ pc = "push" /\ cur' = cur + 1
    BY <1>6 DEF push_one
  <2>4. \A q \in Params : q \in Nat
    OBVIOUS
  <2> HIDE DEF Params, Empty
  <2>5. BufferDrained'
    BY <1>0, <2>3
  <2>8. OutIsOldest'
    <3> SUFFICES ASSUME NEW q \in Params
                 PROVE  /\ out'[q] <= asked[q]
                        /\ m_buffer[q] <= asked[q]
                        /\ m_threadMessages[q] <= asked[q]
                        /\ m_threadMessages[q] # 0 => out'[q] <= m_threadMessages[q]
                        /\ m_buffer[q] # 0 => out'[q] <= m_buffer[q]
      BY <2>3
    <3>1. m_buffer[q] = 0
      BY <1>0, <2>3 DEF Empty
    <3> QED
      BY <1>0, <2>2, <3>1, Entries
  <2>6. NewestWins'
    BY <1>0, <2>1, <2>2, <2>3, Entries
  <2>7. ForwardedUpToCur'
    <3>1. \A q \in Params : q < cur + 1 => q < cur \/ q = cur
      BY <2>1, <2>4
    <3> QED
      BY <1>0, <2>1, <2>2, <2>3, <3>1
  <2> QED
    BY <2>5, <2>6, <2>7, <2>8
<1>7. CASE push_throws
  <2>1. cur \in Params
    BY <1>0, <1>7 DEF push_throws, TypeOK
  <2>2. \A q \in Params :
          \/ out'[q] = out[q]
          \/ /\ m_threadMessages[q] # 0
             /\ out'[q] = m_threadMessages[q]
    BY <1>0, <1>7, <2>1 DEF TypeOK, push_throws
  <2>3. /\ m_userMessages' = m_userMessages /\ m_buffer' = m_buffer
        /\ m_threadMessages' = m_threadMessages /\ asked' = asked
        /\ pc' = "head" /\ pc = "push"
    BY <1>7 DEF push_throws
  <2> HIDE DEF Params, Empty
  <2>4. BufferDrained' /\ ForwardedUpToCur'
    BY <1>0, <2>3
  <2>5. OutIsOldest'
    <3> SUFFICES ASSUME NEW q \in Params
                 PROVE  /\ out'[q] <= asked[q]
                        /\ m_buffer[q] <= asked[q]
                        /\ m_threadMessages[q] <= asked[q]
                        /\ m_threadMessages[q] # 0 => out'[q] <= m_threadMessages[q]
                        /\ m_buffer[q] # 0 => out'[q] <= m_buffer[q]
      BY <2>3
    <3>1. m_buffer[q] = 0
      BY <1>0, <2>3 DEF Empty
    <3> QED
      BY <1>0, <2>2, <3>1, Entries
  <2>6. NewestWins'
    BY <1>0, <2>2, <2>3, Entries
  <2> QED
    BY <2>4, <2>5, <2>6
<1>8. CASE clear_messages
  BY <1>0, <1>8 DEF TypeOK, clear_messages
<1>9. CASE destructor_stop
  BY <1>0, <1>9 DEF TypeOK, destructor_stop
<1>10. CASE destructor_join
  BY <1>0, <1>10 DEF TypeOK, destructor_join
<1>11. CASE UNCHANGED vars
  BY <1>0, <1>11 DEF vars
<1> QED
  BY <1>1, <1>2, <1>3, <1>4, <1>5, <1>6, <1>7, <1>8, <1>9, <1>10, <1>11
     DEF Next, thread_step

(* IInv holds in every reachable state of the rate limiter.                *)
THEOREM Invariance == Spec => []IInv
  BY InitInv, OrderStep, PTL DEF Spec

(* The state of rate_limiting_protocol is well typed; in particular the    *)
(* computed sleep stays within the period.                                 *)
THEOREM TypeCorrect == Spec => []TypeOK
<1>1. IInv => TypeOK
  BY DEF IInv
<1> QED
  BY <1>1, Invariance, PTL

(* The newest value pushed to a parameter is never dropped, whatever the   *)
(* exceptions of the wrapped protocol.                                     *)
THEOREM NothingLost == Spec => []NewestNotLost
<1>1. IInv => NewestNotLost
  BY DEF IInv, NewestWins, NewestNotLost
<1> QED
  BY <1>1, Invariance, PTL

(* The wrapped protocol never sees a value go back to an older one.        *)
THEOREM Monotone == Spec => NeverOlder
<1>1. IInv /\ [Next]_vars => [\A p \in Params : out'[p] >= out[p]]_vars
  <2> USE DEF Params, Ranks, Invalid, TypeOK
  <2> SUFFICES ASSUME IInv, Next PROVE \A p \in Params : out'[p] >= out[p]
    OBVIOUS
  <2>0. TypeOK /\ OutIsOldest
    BY DEF IInv
  <2>1. CASE push_one
    BY <2>0, <2>1 DEF push_one, OutIsOldest
  <2>2. CASE push_throws
    <3>1. cur \in Params
      BY <2>0, <2>2 DEF push_throws
    <3>2. \A p \in Params :
            \/ out'[p] = out[p]
            \/ m_threadMessages[p] # 0 /\ out'[p] = m_threadMessages[p]
      BY <2>0, <2>2, <3>1 DEF push_throws
    <3> QED
      <4> SUFFICES ASSUME NEW p \in Params PROVE out'[p] >= out[p]
        OBVIOUS
      <4>1. out[p] \in Nat /\ m_threadMessages[p] \in Nat
        BY <2>0
      <4>2. m_threadMessages[p] # 0 => out[p] <= m_threadMessages[p]
        BY <2>0 DEF OutIsOldest
      <4> QED
        BY <3>2, <4>1, <4>2
  <2>3. CASE out' = out
    BY <2>0, <2>3
  <2> QED
    BY <2>1, <2>2, <2>3
       DEF Next, thread_step, push, parameter_destroyed, loop_head,
           swap_messages, copy_newest, clear_messages, destructor_stop,
           destructor_join
<1> QED
  BY <1>1, Invariance, PTL DEF Spec, NeverOlder

(* Every step of the rate limiter is a step of the latest-value channel,   *)
(* or leaves it unchanged: the safety half of ImplementsChannel.           *)
THEOREM RefinesChannel == Spec => Channel!Init /\ [][Channel!Next]_Channel!vars
<1>1. Init => Channel!Init
  BY DEF Init, Channel!Init, Channel!Channels, Empty, Params, Invalid
<1>2. IInv /\ [Next]_vars => [Channel!Next]_Channel!vars
  <2> USE DEF Channel!Channels, Params, Ranks, Invalid, TypeOK
  <2> SUFFICES ASSUME IInv, [Next]_vars PROVE [Channel!Next]_Channel!vars
    OBVIOUS
  <2>0. TypeOK /\ OutIsOldest
    BY DEF IInv
  <2>1. ASSUME NEW p \in Params, push(p) PROVE Channel!Ask(p)
    BY <2>0, <2>1 DEF push, Channel!Ask
  <2>2. ASSUME NEW p \in Params, p = cur, m_threadMessages[p] # 0,
               out' = [out EXCEPT ![p] = m_threadMessages[p]],
               asked' = asked, m_running' = m_running
        PROVE Channel!Emit(p) \/ UNCHANGED Channel!vars
    <3>1. CASE out[p] = m_threadMessages[p]
      BY <2>0, <2>2, <3>1 DEF Channel!vars
    <3>2. CASE out[p] # m_threadMessages[p]
      <4>1. m_threadMessages[p] \in (out[p] + 1)..asked[p]
        <5>1. out[p] <= m_threadMessages[p] /\ m_threadMessages[p] <= asked[p]
          BY <2>0, <2>2 DEF OutIsOldest
        <5>2. out[p] \in Nat /\ m_threadMessages[p] \in Nat /\ asked[p] \in Nat
          BY <2>0
        <5> QED
          BY <3>2, <5>1, <5>2
      <4>2. \E v \in (out[p] + 1)..asked[p] : out' = [out EXCEPT ![p] = v]
        BY <2>2, <4>1, Zenon
      <4> QED
        BY <2>2, <4>2 DEF Channel!Emit
    <3> QED
      BY <3>1, <3>2
  <2>3. CASE push_one
    <3>1. CASE m_threadMessages[cur] = 0
      BY <2>3, <3>1 DEF push_one, Channel!vars
    <3>2. CASE m_threadMessages[cur] # 0
      <4>1. cur \in Params
        BY <2>0, <2>3 DEF push_one
      <4>2. /\ out' = [out EXCEPT ![cur] = m_threadMessages[cur]]
            /\ asked' = asked /\ m_running' = m_running
        BY <2>3, <3>2 DEF push_one
      <4>3. Channel!Emit(cur) \/ UNCHANGED Channel!vars
        BY <2>2, <3>2, <4>1, <4>2
      <4> QED
        BY <4>1, <4>3 DEF Channel!Next
    <3> QED
      BY <3>1, <3>2
  <2>4. CASE push_throws
    <3>1. CASE out' = out
      BY <2>4, <3>1 DEF push_throws, Channel!vars
    <3>2. CASE out' = [out EXCEPT ![cur] = m_threadMessages[cur]]
      <4>1. cur \in Params /\ m_threadMessages[cur] # 0
        BY <2>0, <2>4 DEF push_throws
      <4>2. asked' = asked /\ m_running' = m_running
        BY <2>4 DEF push_throws
      <4>3. Channel!Emit(cur) \/ UNCHANGED Channel!vars
        BY <2>2, <3>2, <4>1, <4>2
      <4> QED
        BY <4>1, <4>3 DEF Channel!Next
    <3> QED
      BY <2>4, <3>1, <3>2 DEF push_throws
  <2>5. CASE destructor_stop
    BY <2>5 DEF destructor_stop, Channel!Close, Channel!Next
  <2>6. CASE UNCHANGED <<asked, out, m_running>>
    BY <2>6 DEF Channel!vars
  <2> QED
    BY <2>1, <2>3, <2>4, <2>5, <2>6
       DEF Next, thread_step, parameter_destroyed, loop_head, swap_messages,
           copy_newest, clear_messages, destructor_join, vars, Channel!Next
<1> QED
  BY <1>1, <1>2, Invariance, PTL DEF Spec
=============================================================================
