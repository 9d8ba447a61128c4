---------------------------- MODULE LatestValue ----------------------------
(***************************************************************************)
(* What rate_limiting_protocol promises to its callers and to the protocol *)
(* it wraps: every parameter is a channel that may skip values but never   *)
(* goes back, and that catches up with the newest value while it is open.  *)
(***************************************************************************)
EXTENDS Naturals

CONSTANTS ParamCount, MaxPush

VARIABLES
    asked,   \* rank of the newest value given to the channel
    out,     \* rank of the newest value that came out of it
    open     \* FALSE once the channel is being destroyed

vars == <<asked, out, open>>

Channels == 1..ParamCount

Init ==
    /\ asked = [p \in Channels |-> 0]
    /\ out = [p \in Channels |-> 0]
    /\ open = TRUE

Ask(p) ==
    /\ open
    /\ asked[p] < MaxPush
    /\ asked' = [asked EXCEPT ![p] = @ + 1]
    /\ UNCHANGED <<out, open>>

(* Values between the last one forwarded and the newest may be skipped.    *)
Emit(p) ==
    /\ \E v \in (out[p] + 1)..asked[p] : out' = [out EXCEPT ![p] = v]
    /\ UNCHANGED <<asked, open>>

Close ==
    /\ open
    /\ open' = FALSE
    /\ UNCHANGED <<asked, out>>

Next ==
    \/ \E p \in Channels : Ask(p) \/ Emit(p)
    \/ Close

(* An open channel with a value to forward eventually forwards one.        *)
Fairness == \A p \in Channels : WF_vars(open /\ Emit(p))

Spec == Init /\ [][Next]_vars /\ Fairness
=============================================================================
