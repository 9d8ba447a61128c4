---------------------------- MODULE RateLimiter ----------------------------
(***************************************************************************)
(* rate_limiting_protocol: a protocol decorator that keeps only the newest *)
(* value of every parameter and lets a thread of its own forward them to   *)
(* the wrapped protocol once per period.                                   *)
(*                                                                         *)
(* Parameters are numbered in the order of the flat_map, i.e. of their     *)
(* addresses in memory.  A value is represented by its rank among the      *)
(* values pushed to its parameter, so that "older" and "newer" are < and   *)
(* >; 0 is the invalid ossia::value, which an absent entry is too.         *)
(***************************************************************************)
EXTENDS Naturals

CONSTANTS
    ParamCount,   \* number of parameters of the device
    MaxPush,      \* bound on the pushes to one parameter
    MaxThrow,     \* bound on the exceptions thrown by the wrapped protocol
    Duration      \* m_duration, in milliseconds

ASSUME ParamCountAssumption == ParamCount \in Nat
ASSUME MaxPushAssumption    == MaxPush \in Nat
ASSUME MaxThrowAssumption   == MaxThrow \in Nat
ASSUME DurationAssumption   == Duration \in Nat

Params  == 1..ParamCount
Invalid == 0
Empty   == [p \in Params |-> Invalid]

VARIABLES
    m_userMessages,    \* written by push(), under m_msgMutex
    m_buffer,          \* swapped with m_userMessages under m_msgMutex
    m_threadMessages,  \* what the thread is forwarding
    m_running,         \* cleared by the destructor
    time_to_sleep,     \* of the thread
    pc,                \* where the thread is in its loop
    cur,               \* index of the push loop
    asked,             \* history: number of values pushed to each parameter
    out,               \* history: last value the wrapped protocol was given
    throws,            \* exceptions so far
    removed            \* parameters that were destroyed

vars == <<m_userMessages, m_buffer, m_threadMessages, m_running,
          time_to_sleep, pc, cur, asked, out, throws, removed>>

(***************************************************************************)
(* push() may be called by several threads; its body is one critical       *)
(* section, so a call is one step.  The caller holds a live parameter of a  *)
(* protocol that is not being destroyed.                                   *)
(***************************************************************************)
push(p) ==
    /\ m_running
    /\ p \notin removed
    /\ asked[p] < MaxPush
    /\ asked' = [asked EXCEPT ![p] = @ + 1]
    /\ m_userMessages' = [m_userMessages EXCEPT ![p] = asked[p] + 1]
    /\ UNCHANGED <<m_buffer, m_threadMessages, m_running, time_to_sleep, pc,
                   cur, out, throws, removed>>

(* The node tree destroys a parameter, at the latest when the device is    *)
(* destroyed, before its protocol; nothing tells the rate limiter.         *)
parameter_destroyed(p) ==
    /\ m_running
    /\ p \notin removed
    /\ removed' = removed \cup {p}
    /\ UNCHANGED <<m_userMessages, m_buffer, m_threadMessages, m_running,
                   time_to_sleep, pc, cur, asked, out, throws>>

(* Mutant: the loop does not look at m_running.                            *)
loop_head_forever ==
    /\ pc = "head"
    /\ pc' = "sleep"
    /\ UNCHANGED <<m_userMessages, m_buffer, m_threadMessages, m_running,
                   time_to_sleep, cur, asked, out, throws, removed>>

loop_head ==
    /\ pc = "head"
    /\ pc' = IF m_running THEN "sleep" ELSE "exit"
    /\ UNCHANGED <<m_userMessages, m_buffer, m_threadMessages, m_running,
                   time_to_sleep, cur, asked, out, throws, removed>>

(* The lock is taken after the sleep; only the two maps are exchanged.     *)
swap_messages ==
    /\ pc = "sleep"
    /\ pc' = "copy"
    /\ m_buffer' = m_userMessages
    /\ m_userMessages' = m_buffer
    /\ UNCHANGED <<m_threadMessages, m_running, time_to_sleep, cur, asked,
                   out, throws, removed>>

(* Mutant: the entries moved out of the buffer are not reset.              *)
copy_newest_no_reset ==
    /\ pc = "copy"
    /\ pc' = "push"
    /\ cur' = 1
    /\ m_threadMessages' =
         [p \in Params |-> IF m_buffer[p] # Invalid THEN m_buffer[p]
                           ELSE m_threadMessages[p]]
    /\ UNCHANGED <<m_userMessages, m_buffer, m_running, time_to_sleep, asked,
                   out, throws, removed>>

(* Mutant: the thread's map is overwritten by the buffer as a whole.       *)
copy_newest_overwrite ==
    /\ pc = "copy"
    /\ pc' = "push"
    /\ cur' = 1
    /\ m_threadMessages' = m_buffer
    /\ m_buffer' = Empty
    /\ UNCHANGED <<m_userMessages, m_running, time_to_sleep, asked, out,
                   throws, removed>>

(* Valid entries move to the thread's map and are reset in the buffer.     *)
copy_newest ==
    /\ pc = "copy"
    /\ pc' = "push"
    /\ cur' = 1
    /\ m_threadMessages' =
         [p \in Params |-> IF m_buffer[p] # Invalid THEN m_buffer[p]
                           ELSE m_threadMessages[p]]
    /\ m_buffer' = Empty
    /\ UNCHANGED <<m_userMessages, m_running, time_to_sleep, asked, out,
                   throws, removed>>

(* One iteration of the loop that calls m_protocol->push().                *)
push_one ==
    /\ pc = "push"
    /\ cur <= ParamCount
    /\ cur' = cur + 1
    /\ out' = IF m_threadMessages[cur] # Invalid
              THEN [out EXCEPT ![cur] = m_threadMessages[cur]]
              ELSE out
    /\ UNCHANGED <<m_userMessages, m_buffer, m_threadMessages, m_running,
                   time_to_sleep, pc, asked, throws, removed>>

(* Mutant: an exception leaves the loop, and with it the thread.           *)
push_throws_exits ==
    /\ pc = "push"
    /\ cur <= ParamCount
    /\ m_threadMessages[cur] # Invalid
    /\ throws < MaxThrow
    /\ throws' = throws + 1
    /\ pc' = "exit"
    /\ out' \in {out, [out EXCEPT ![cur] = m_threadMessages[cur]]}
    /\ UNCHANGED <<m_userMessages, m_buffer, m_threadMessages, m_running,
                   time_to_sleep, cur, asked, removed>>

(* m_protocol->push() throws, before or after the message left: the rest   *)
(* of the iteration is skipped, the catch clause does nothing.             *)
push_throws ==
    /\ pc = "push"
    /\ cur <= ParamCount
    /\ m_threadMessages[cur] # Invalid
    /\ throws < MaxThrow
    /\ throws' = throws + 1
    /\ pc' = "head"
    /\ out' \in {out, [out EXCEPT ![cur] = m_threadMessages[cur]]}
    /\ UNCHANGED <<m_userMessages, m_buffer, m_threadMessages, m_running,
                   time_to_sleep, cur, asked, removed>>

(* Mutant: a period more than twice too long is not treated apart.         *)
next_sleep_unclamped(observed) ==
    IF observed > Duration THEN 2 * Duration - observed ELSE Duration

(* How long the next iteration sleeps, after one that took observed ms.    *)
next_sleep(observed) ==
    IF observed > Duration
    THEN IF observed >= 2 * Duration THEN 0 ELSE 2 * Duration - observed
    ELSE Duration

(* Mutant: the thread's map is not reset after it was forwarded.           *)
clear_messages_keep ==
    /\ pc = "push"
    /\ cur > ParamCount
    /\ pc' = "head"
    /\ m_buffer' = Empty
    /\ \E observed \in time_to_sleep..(2 * Duration + 1) :
         time_to_sleep' = next_sleep(observed)
    /\ UNCHANGED <<m_userMessages, m_threadMessages, m_running, cur, asked,
                   out, throws, removed>>

(* Both maps are reset, and the next sleep is computed.                    *)
clear_messages ==
    /\ pc = "push"
    /\ cur > ParamCount
    /\ pc' = "head"
    /\ m_buffer' = Empty
    /\ m_threadMessages' = Empty
    /\ \E observed \in time_to_sleep..(2 * Duration + 1) :
         time_to_sleep' = next_sleep(observed)
    /\ UNCHANGED <<m_userMessages, m_running, cur, asked, out, throws,
                   removed>>

(* ~rate_limiting_protocol(): the flag is cleared, then the thread joined. *)
destructor_stop ==
    /\ m_running
    /\ m_running' = FALSE
    /\ UNCHANGED <<m_userMessages, m_buffer, m_threadMessages, time_to_sleep,
                   pc, cur, asked, out, throws, removed>>

destructor_join ==
    /\ ~m_running
    /\ pc = "exit"
    /\ pc' = "joined"
    /\ UNCHANGED <<m_userMessages, m_buffer, m_threadMessages, m_running,
                   time_to_sleep, cur, asked, out, throws, removed>>

-----------------------------------------------------------------------------
Init ==
    /\ m_userMessages = Empty
    /\ m_buffer = Empty
    /\ m_threadMessages = Empty
    /\ m_running = TRUE
    /\ time_to_sleep = Duration
    /\ pc = "head"
    /\ cur = 1
    /\ asked = Empty
    /\ out = Empty
    /\ throws = 0
    /\ removed = {}

thread_step ==
    loop_head \/ swap_messages \/ copy_newest \/ push_one \/ push_throws
      \/ clear_messages

Next ==
    \/ \E p \in Params : push(p) \/ parameter_destroyed(p)
    \/ thread_step
    \/ destructor_stop
    \/ destructor_join

(* The thread keeps running, and the destructor blocks until it has joined.*)
Spec == Init /\ [][Next]_vars /\ WF_vars(thread_step) /\ WF_vars(destructor_join)

-----------------------------------------------------------------------------
Ranks == 0..MaxPush
PCs == {"head", "sleep", "copy", "push", "exit", "joined"}

(* Types; the next sleep never exceeds the period and is never negative    *)
(* (rate_limiter computes it as 2 * duration - observed).                  *)
TypeOK ==
    /\ m_userMessages \in [Params -> Ranks]
    /\ m_buffer \in [Params -> Ranks]
    /\ m_threadMessages \in [Params -> Ranks]
    /\ m_running \in BOOLEAN
    /\ time_to_sleep \in 0..Duration
    /\ pc \in PCs
    /\ cur \in 1..(ParamCount + 1)
    /\ asked \in [Params -> Ranks]
    /\ out \in [Params -> Ranks]
    /\ throws \in 0..MaxThrow
    /\ removed \subseteq Params

(* Whatever the thread, the callers of push() and the exceptions do, the   *)
(* newest value pushed to a parameter is never dropped: it sits in one of  *)
(* the three maps of rate_limiting_protocol or has been forwarded.         *)
NewestNotLost ==
    \A p \in Params :
        asked[p] \in {m_userMessages[p], m_buffer[p],
                      m_threadMessages[p], out[p]}

(* The wrapped protocol never receives a value older than one it already   *)
(* received for that parameter, though the maps are swapped back and forth *)
(* and the thread's map survives an exception of m_protocol->push().       *)
NeverOlder == [][\A p \in Params : out'[p] >= out[p]]_vars

(* The maps of rate_limiting_protocol do not keep a destroyed parameter    *)
(* for ever: the window in which the thread may dereference its pointer    *)
(* (the TODO of rate_limiter::operator()) closes by itself.                *)
RemovedIsForgotten ==
    \A p \in Params :
        (p \in removed) ~> \/ ~m_running
                           \/ /\ m_userMessages[p] = Invalid
                              /\ m_buffer[p] = Invalid
                              /\ m_threadMessages[p] = Invalid

(***************************************************************************)
(* The inductive invariant behind NewestNotLost and NeverOlder.            *)
(***************************************************************************)
BufferDrained == pc # "copy" => m_buffer = Empty

NewestWins ==
    \A p \in Params :
        /\ m_userMessages[p] # Invalid => m_userMessages[p] = asked[p]
        /\ m_userMessages[p] = Invalid /\ m_buffer[p] # Invalid
             => m_buffer[p] = asked[p]
        /\ /\ m_userMessages[p] = Invalid
           /\ m_buffer[p] = Invalid
           /\ m_threadMessages[p] # Invalid
           => m_threadMessages[p] = asked[p]
        /\ /\ m_userMessages[p] = Invalid
           /\ m_buffer[p] = Invalid
           /\ m_threadMessages[p] = Invalid
           => out[p] = asked[p]

OutIsOldest ==
    \A p \in Params :
        /\ out[p] <= asked[p]
        /\ m_buffer[p] <= asked[p]
        /\ m_threadMessages[p] <= asked[p]
        /\ m_threadMessages[p] # Invalid => out[p] <= m_threadMessages[p]
        /\ m_buffer[p] # Invalid => out[p] <= m_buffer[p]

ForwardedUpToCur ==
    pc = "push" =>
        \A p \in Params : p < cur /\ m_threadMessages[p] # Invalid
                            => out[p] = m_threadMessages[p]

(* The maps are ordered from the newest to the oldest, the buffer is empty *)
(* outside of the copy, and what the push loop has passed is out.          *)
IInv ==
    /\ TypeOK
    /\ BufferDrained
    /\ NewestWins
    /\ OutIsOldest
    /\ ForwardedUpToCur

(* Each value pushed, or a newer one, reaches the wrapped protocol, unless *)
(* the rate limiter is destroyed first.                                    *)
EventuallyForwarded ==
    \A p \in Params, n \in 1..MaxPush :
        (asked[p] >= n) ~> (out[p] >= n \/ ~m_running)

(* The destructor's join returns: the thread sees the flag wherever it is. *)
DestructorReturns == ~m_running ~> (pc = "joined")

(***************************************************************************)
(* What the decorator promises, whatever its maps and its thread.          *)
(***************************************************************************)
Channel == INSTANCE LatestValue WITH open <- m_running

(* The rate limiter implements the latest-value channel.                   *)
ImplementsChannel == Channel!Spec
=============================================================================
