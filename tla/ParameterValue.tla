--------------------------- MODULE ParameterValue ---------------------------
(***************************************************************************)
(* Values of parameters, their callbacks, and the message queues that are  *)
(* registered as callbacks (generic_parameter, callback_container and      *)
(* message_queue).                                                         *)
(*                                                                         *)
(* A thread is a stack of calls: a callback may push a value to another    *)
(* parameter.  set_value stores under m_valueMutex, which is one step, and *)
(* calls the callbacks under m_mutx, which is many.  Values have the type  *)
(* of the parameter, so nothing is converted.                              *)
(***************************************************************************)
EXTENDS Naturals, Sequences, FiniteSets, SequencesExt

CONSTANTS
    Params,
    Links,      \* <<p, f>>: p has a callback that pushes its value to f
    Direct,     \* the parameters that threads set
    Observed,   \* the parameters that queues register on
    Filtered,   \* the parameters whose repetition_filter is ON
    Muted,      \* the parameters that are muted or disabled
    Values,
    InitValue,
    Queues,     \* message queues
    Threads,
    App,        \* the thread that registers and destroys
    NoThread,
    MaxCalls,   \* bound on the calls that threads make
    MaxRegs     \* bound on repeated registrations

ASSUME AppAssumption == App \in Threads /\ NoThread \notin Threads
ASSUME ValuesAssumption == InitValue \in Values
ASSUME NamesAssumption == Queues \cap Params = {}
ASSUME LinksAssumption == IsFiniteSet(Params) /\ Links \subseteq Params \X Params
ASSUME LinksAcyclic ==
    \E rank \in [Params -> 1..Cardinality(Params)] :
        \A l \in Links : rank[l[1]] < rank[l[2]]

VARIABLES
    alive,            \* parameters that exist
    m_value,
    m_previousValue,
    m_mutx,           \* the thread that holds it
    m_callbacks,      \* queues, and parameters that links push to
    notified,         \* history: the value of the last send
    sends,            \* history: how many sends each parameter began
    sent,             \* the last value that the protocol sent
    stack,            \* calls of each thread, the innermost last
    calls,
    m_reg,            \* for each queue, its parameters and their counts
    life,             \* of each queue
    heard             \* history: the sends each queue heard of

values == <<m_value, m_previousValue>>
history == <<notified, sends>>
vars == <<alive, values, m_mutx, m_callbacks, history, sent, stack, calls,
          m_reg, life, heard>>

(* op: set_value, set_value_quiet, push_value(v) or push_value(); n: the   *)
(* number of the send, once it has begun.                                  *)
frame(op, p, v) ==
    [n |-> 0, op |-> op, p |-> p, v |-> v, todo |-> <<>>,
     at |-> IF op = "repush" THEN "push" ELSE "store"]

idle(t) == /\ stack[t] = <<>>
           /\ t = App => \A q \in Queues : life[q] # "closing"
depth(t) == Len(stack[t])
top(t) == stack[t][depth(t)]
at(t, where) == stack[t] # <<>> /\ top(t).at = where
go(t, where) == stack' = [stack EXCEPT ![t][depth(t)].at = where]
return(t) == stack' = [stack EXCEPT ![t] = Front(@)]

(* The application sets and pushes; the threads of the protocols set, or   *)
(* set quietly, what they receive.                                         *)
operations(t) ==
    IF t = App THEN {"set", "push", "repush"} ELSE {"set", "quiet"}

call(t, op, p, v) ==
    /\ idle(t)
    /\ calls < MaxCalls
    /\ p \in Direct /\ alive[p]
    /\ calls' = calls + 1
    /\ stack' = [stack EXCEPT ![t] = <<frame(op, p, v)>>]
    /\ UNCHANGED <<alive, values, m_mutx, m_callbacks, history, sent, m_reg, life, heard>>

(* Mutant: the value is kept as the previous one after it is replaced.     *)
store_swapped(t) ==
    LET f == top(t)
    IN  /\ at(t, "store")
        /\ m_value' = [m_value EXCEPT ![f.p] = f.v]
        /\ m_previousValue' = [m_previousValue EXCEPT ![f.p] = m_value'[f.p]]
        /\ IF f.op = "quiet" THEN return(t) ELSE go(t, "lock")
        /\ UNCHANGED <<alive, m_mutx, m_callbacks, history, sent, calls, m_reg, life,
                       heard>>

(* The part of set_value and set_value_quiet under m_valueMutex.           *)
store(t) ==
    LET f == top(t)
    IN  /\ at(t, "store")
        /\ m_previousValue' = [m_previousValue EXCEPT ![f.p] = m_value[f.p]]
        /\ m_value' = [m_value EXCEPT ![f.p] = f.v]
        /\ IF f.op = "quiet" THEN return(t) ELSE go(t, "lock")
        /\ UNCHANGED <<alive, m_mutx, m_callbacks, history, sent, calls, m_reg, life,
                       heard>>

begin_send(t) ==
    LET f == top(t)
    IN  /\ notified' = [notified EXCEPT ![f.p] = f.v]
        /\ sends' = [sends EXCEPT ![f.p] = @ + 1]
        /\ stack' = [stack EXCEPT ![t][depth(t)] =
                       [f EXCEPT !.at = "notify", !.n = sends[f.p] + 1,
                                 !.todo = m_callbacks[f.p]]]
        /\ UNCHANGED <<alive, values, m_callbacks, sent, calls, m_reg, life, heard>>

(* Mutant: the callbacks are copied and called without the mutex.          *)
send_unlocked(t) ==
    /\ at(t, "lock")
    /\ m_mutx[top(t).p] = NoThread
    /\ begin_send(t)
    /\ UNCHANGED m_mutx

(* send: it keeps m_mutx until the last callback has returned.             *)
send(t) ==
    /\ at(t, "lock")
    /\ m_mutx[top(t).p] = NoThread
    /\ m_mutx' = [m_mutx EXCEPT ![top(t).p] = t]
    /\ begin_send(t)

(* One callback: a queue takes the value, a link pushes it further.        *)
callback(t) ==
    LET f == top(t)
        c == Head(f.todo)
        rest == [stack[t] EXCEPT ![depth(t)].todo = Tail(@)]
    IN  /\ at(t, "notify")
        /\ f.todo # <<>>
        /\ IF c \in Queues
           THEN /\ heard' = [heard EXCEPT ![c] = Append(@, <<f.p, f.n>>)]
                /\ stack' = [stack EXCEPT ![t] = rest]
           ELSE /\ stack' = [stack EXCEPT ![t] = Append(rest, frame("push", c, f.v))]
                /\ UNCHANGED heard
        /\ UNCHANGED <<alive, values, m_mutx, m_callbacks, history, sent, calls, m_reg,
                       life>>

(* Mutant: the mutex is unlocked by hand, not before a push.               *)
end_send_keeps(t) ==
    LET f == top(t)
    IN  /\ at(t, "notify")
        /\ f.todo = <<>>
        /\ m_mutx' = IF f.op = "push" THEN m_mutx ELSE [m_mutx EXCEPT ![f.p] = NoThread]
        /\ IF f.op = "push" THEN go(t, "push") ELSE return(t)
        /\ UNCHANGED <<alive, values, m_callbacks, history, sent, calls, m_reg, life,
                       heard>>

end_send(t) ==
    LET f == top(t)
    IN  /\ at(t, "notify")
        /\ f.todo = <<>>
        /\ m_mutx' = [m_mutx EXCEPT ![f.p] = NoThread]
        /\ IF f.op = "push" THEN go(t, "push") ELSE return(t)
        /\ UNCHANGED <<alive, values, m_callbacks, history, sent, calls, m_reg, life,
                       heard>>

(* m_disabled || m_muted, or a value that is repeated.                     *)
filter_value(p) ==
    p \in Muted \/ (p \in Filtered /\ m_value[p] = m_previousValue[p])

(* m_protocol.push with the value of that moment, which is read without    *)
(* m_valueMutex.                                                           *)
push(t) ==
    LET p == top(t).p
    IN  /\ at(t, "push")
        /\ sent' = IF filter_value(p) THEN sent ELSE [sent EXCEPT ![p] = m_value[p]]
        /\ return(t)
        /\ UNCHANGED <<alive, values, m_mutx, m_callbacks, history, calls, m_reg, life,
                       heard>>

-----------------------------------------------------------------------------
(* Message queues.  add_callback and remove_callback wait for m_mutx.      *)
others == <<values, m_mutx, history, sent, stack, calls, heard>>

(* A second registration only counts, from 0.                              *)
reg(q, p) ==
    /\ idle(App)
    /\ life[q] = "alive" /\ alive[p] /\ p \in Observed
    /\ IF p \in DOMAIN m_reg[q]
       THEN /\ m_reg[q][p] < MaxRegs
            /\ m_reg' = [m_reg EXCEPT ![q][p] = @ + 1]
            /\ UNCHANGED m_callbacks
       ELSE /\ m_mutx[p] = NoThread
            /\ m_callbacks' = [m_callbacks EXCEPT ![p] = <<q>> \o @]
            /\ m_reg' = [m_reg EXCEPT ![q] =
                           [r \in DOMAIN @ \cup {p} |-> IF r = p THEN 0 ELSE @[r]]]
    /\ UNCHANGED <<alive, life, others>>

forget(q, p) ==
    m_reg' = [m_reg EXCEPT ![q] = [r \in DOMAIN @ \ {p} |-> @[r]]]

remove_callback(q, p) ==
    /\ m_mutx[p] = NoThread
    /\ \E i \in DOMAIN m_callbacks[p] :
         /\ m_callbacks[p][i] = q
         /\ m_callbacks' = [m_callbacks EXCEPT ![p] = RemoveAt(@, i)]

unreg(q, p) ==
    /\ idle(App)
    /\ life[q] = "alive" /\ p \in DOMAIN m_reg[q]
    /\ IF m_reg[q][p] <= 1
       THEN remove_callback(q, p) /\ forget(q, p)
       ELSE /\ m_reg' = [m_reg EXCEPT ![q][p] = @ - 1]
            /\ UNCHANGED m_callbacks
    /\ UNCHANGED <<alive, life, others>>

(* The destructor: one registration after the other.                       *)
destroy(q) ==
    /\ idle(App)
    /\ life[q] = "alive"
    /\ life' = [life EXCEPT ![q] = "closing"]
    /\ UNCHANGED <<alive, m_callbacks, m_reg, others>>

destroy_step(q) ==
    /\ life[q] = "closing"
    /\ IF DOMAIN m_reg[q] = {}
       THEN /\ life' = [life EXCEPT ![q] = "gone"]
            /\ UNCHANGED <<m_callbacks, m_reg>>
       ELSE /\ \E p \in DOMAIN m_reg[q] : remove_callback(q, p) /\ forget(q, p)
            /\ UNCHANGED life
    /\ UNCHANGED <<alive, others>>

(* Mutant: the queues are not told.                                        *)
on_param_removed_ignored(p) == UNCHANGED m_reg

on_param_removed(p) ==
    m_reg' = [q \in Queues |-> [r \in DOMAIN m_reg[q] \ {p} |-> m_reg[q][r]]]

(* on_parameter_removing, and the destructor of the parameter, that nobody *)
(* uses any more.                                                          *)
remove_parameter(p) ==
    /\ idle(App)
    /\ alive[p]
    /\ \A l \in Links : l[2] # p
    /\ \A t \in Threads : \A i \in DOMAIN stack[t] : stack[t][i].p # p
    /\ alive' = [alive EXCEPT ![p] = FALSE]
    /\ on_param_removed(p)
    /\ m_callbacks' = [m_callbacks EXCEPT ![p] = <<>>]
    /\ UNCHANGED <<life, others>>

Init ==
    /\ alive = [p \in Params |-> TRUE]
    /\ m_value = [p \in Params |-> InitValue]
    /\ m_previousValue = [p \in Params |-> InitValue]
    /\ m_mutx = [p \in Params |-> NoThread]
    /\ m_callbacks = [p \in Params |-> SetToSeq({f \in Params : <<p, f>> \in Links})]
    /\ notified = [p \in Params |-> InitValue]
    /\ sends = [p \in Params |-> 0]
    /\ sent = [p \in Params |-> InitValue]
    /\ stack = [t \in Threads |-> <<>>]
    /\ calls = 0
    /\ m_reg = [q \in Queues |-> <<>>]
    /\ life = [q \in Queues |-> "alive"]
    /\ heard = [q \in Queues |-> <<>>]

thread(t) == store(t) \/ send(t) \/ callback(t) \/ end_send(t) \/ push(t)

Next ==
    \/ \E t \in Threads :
         \/ \E op \in operations(t), p \in Params, v \in Values :
              (op = "repush" => v = InitValue) /\ call(t, op, p, v)
         \/ store(t) \/ send(t) \/ callback(t) \/ end_send(t) \/ push(t)
    \/ \E q \in Queues :
         \/ \E p \in Params : reg(q, p) \/ unreg(q, p)
         \/ destroy(q) \/ destroy_step(q)
    \/ \E p \in Params : remove_parameter(p)

(* Threads go on, and get a mutex that is released in the end: the calls   *)
(* that compete for it are bounded.                                        *)
Fairness == /\ \A t \in Threads : WF_vars(thread(t))
            /\ \A q \in Queues : WF_vars(destroy_step(q))

Spec == Init /\ [][Next]_vars /\ Fairness

-----------------------------------------------------------------------------
position(q, k) == CHOOSE i \in DOMAIN heard[q] : heard[q][i] = k

(* Threads that set one parameter notify in any order, not always that in  *)
(* which they stored; but all the listeners of a parameter hear of its     *)
(* sends in the same order.                                                *)
ListenersAgree ==
    \A q, r \in Queues :
        LET both == Range(heard[q]) \cap Range(heard[r])
        IN  \A k, l \in both : k[1] = l[1] /\ position(q, k) < position(q, l)
                                 => position(r, k) < position(r, l)

(* A parameter that only one link pushes to has, whenever no send of the   *)
(* first parameter is under way, the value last notified by it, muted or   *)
(* not; and the protocol sent that value unless it is muted or disabled,   *)
(* whatever other threads did and although values are filtered by what was *)
(* stored, not by what was sent.                                           *)
LinkedFollows ==
    \A l \in Links :
        /\ alive[l[1]] /\ l[2] \notin Direct
        /\ \A k \in Links : k[2] = l[2] => k = l
        /\ \A t \in Threads : \A i \in DOMAIN stack[t] :
             stack[t][i].p = l[1] => stack[t][i].at # "notify"
        => /\ m_value[l[2]] = notified[l[1]]
           /\ l[2] \notin Muted => sent[l[2]] = m_value[l[2]]

(* No call goes to a queue that is gone, and no registration is of a       *)
(* parameter that is: a callback of a queue is in m_reg, and what is in    *)
(* m_reg can be removed by the destructor of the queue.                    *)
RegistrationsMatch ==
    /\ \A q \in Queues, p \in Params :
         /\ p \in DOMAIN m_reg[q] <=>
              Cardinality({i \in DOMAIN m_callbacks[p] : m_callbacks[p][i] = q}) = 1
         /\ p \in DOMAIN m_reg[q] => alive[p] /\ life[q] # "gone"
    /\ \A t \in Threads : \A i \in DOMAIN stack[t] : \A q \in Queues :
         q \in Range(stack[t][i].todo) => life[q] # "gone"

(* Callbacks push to other parameters with the mutex of their own one      *)
(* held.  Where the links have no cycle, every call returns.               *)
AllReturn ==
    \A t \in Threads : stack[t] # <<>> ~> stack[t] = <<>>
=============================================================================
