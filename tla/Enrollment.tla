----------------------------- MODULE Enrollment -----------------------------
(***************************************************************************)
(* What device onboarding promises to a user, with no database, no         *)
(* Headscale and no requests: a ticket (a pair code) admits at most one    *)
(* device, only while it is open, and the credentials of a device reach at *)
(* most one claimer.  DevicePairing implements this.                       *)
(***************************************************************************)
CONSTANTS Users, Codes, Devices, Claimers, None

VARIABLES
    ticket,   \* ticket[c]: "absent", "open", "void" (lapsed) or "used"
    issuer,   \* issuer[c]: the user who issued c, None while absent
    enrolled, \* enrolled[d]: the user d belongs to, None before enrolment
    holder    \* holder[k]: the device whose credentials k received

vars == <<ticket, issuer, enrolled, holder>>

Init ==
    /\ ticket = [c \in Codes |-> "absent"]
    /\ issuer = [c \in Codes |-> None]
    /\ enrolled = [d \in Devices |-> None]
    /\ holder = [k \in Claimers |-> None]

\* A user hands out a ticket.  A time-to-live of zero gives one already void.
Issue(u, c) ==
    /\ ticket[c] = "absent"
    /\ \E s \in {"open", "void"} : ticket' = [ticket EXCEPT ![c] = s]
    /\ issuer' = [issuer EXCEPT ![c] = u]
    /\ UNCHANGED <<enrolled, holder>>

\* Open tickets lapse, several at a time when the clock moves.
Lapse(S) ==
    /\ \A c \in S : ticket[c] = "open"
    /\ ticket' = [c \in Codes |-> IF c \in S THEN "void" ELSE ticket[c]]
    /\ UNCHANGED <<issuer, enrolled, holder>>

\* An open ticket is used up by one new device, which belongs to the issuer.
Redeem(c, d) ==
    /\ ticket[c] = "open"
    /\ enrolled[d] = None
    /\ ticket' = [ticket EXCEPT ![c] = "used"]
    /\ enrolled' = [enrolled EXCEPT ![d] = issuer[c]]
    /\ UNCHANGED <<issuer, holder>>

\* The credentials of an enrolled device reach a claimer, once.
Deliver(k, d) ==
    /\ holder[k] = None
    /\ enrolled[d] # None
    /\ \A j \in Claimers : holder[j] # d
    /\ holder' = [holder EXCEPT ![k] = d]
    /\ UNCHANGED <<ticket, issuer, enrolled>>

Next ==
    \/ \E u \in Users, c \in Codes : Issue(u, c)
    \/ \E S \in SUBSET Codes : Lapse(S)
    \/ \E c \in Codes, d \in Devices : Redeem(c, d)
    \/ \E k \in Claimers, d \in Devices : Deliver(k, d)

Spec == Init /\ [][Next]_vars
=============================================================================
