----------------------------- MODULE TokenBucket -----------------------------
(***************************************************************************)
(* What the rate limit promises: every address has a bucket that is full   *)
(* at first, refills at a rate, and is never thrown away; a request is let *)
(* through with a token, and turned away only when there is none.  A new   *)
(* server starts with full buckets.                                        *)
(***************************************************************************)
EXTENDS Naturals

CONSTANTS Addresses, Requests, Burst, Rate

VARIABLES
    level,  \* level[a]: tokens of the address
    verdict \* verdict[r]: what was said of the request under way

Least(x, y) == IF x <= y THEN x ELSE y

Full == [a \in Addresses |-> Burst]
Silent == [r \in Requests |-> "none"]

Init == level = Full /\ verdict = Silent

Admit(r, a) ==
    /\ verdict[r] = "none" /\ level[a] > 0
    /\ level' = [level EXCEPT ![a] = @ - 1]
    /\ verdict' = [verdict EXCEPT ![r] = "admitted"]

Refuse(r, a) ==
    /\ verdict[r] = "none" /\ level[a] = 0
    /\ verdict' = [verdict EXCEPT ![r] = "refused"]
    /\ UNCHANGED level

End(r) ==
    /\ verdict' = [verdict EXCEPT ![r] = "none"]
    /\ UNCHANGED level

Refill ==
    /\ level' = [a \in Addresses |-> Least(Burst, level[a] + Rate)]
    /\ UNCHANGED verdict

Restart == level' = Full /\ verdict' = Silent

Next ==
    \/ \E r \in Requests, a \in Addresses : Admit(r, a) \/ Refuse(r, a)
    \/ \E r \in Requests : End(r)
    \/ Refill
    \/ Restart

Spec == Init /\ [][Next]_<<level, verdict>>
=============================================================================
