----------------------------- MODULE EventFeed -----------------------------
(***************************************************************************)
(* What the hub promises to a WebSocket client, with no channels, no       *)
(* goroutines and no sockets: a client that is connected when an event of  *)
(* its account is announced will get it at most once and after the older   *)
(* events of the same publisher; and an event may be lost only to a client *)
(* that has fallen behind or whose feed is broken.  RealtimeHub implements *)
(* this.                                                                   *)
(***************************************************************************)
EXTENDS Naturals, Sequences, Functions

CONSTANTS Accounts, Clients, AccountOf, Publishers, Backlog

VARIABLES
    stage,   \* stage[c]: "new", "member" or "left"
    intact,  \* intact[c]: the feed of c is not broken
    newest,  \* newest[p]: number of the newest event of publisher p
    pending, \* pending[c]: events announced to c, neither delivered nor lost
    feed     \* feed[c]: events delivered to c, in order

vars == <<stage, intact, newest, pending, feed>>

Init ==
    /\ stage = [c \in Clients |-> "new"]
    /\ intact = [c \in Clients |-> TRUE]
    /\ newest = [p \in Publishers |-> 0]
    /\ pending = [c \in Clients |-> {}]
    /\ feed = [c \in Clients |-> <<>>]

Join(c) ==
    /\ stage[c] = "new"
    /\ stage' = [stage EXCEPT ![c] = "member"]
    /\ UNCHANGED <<intact, newest, pending, feed>>

\* A client leaves for good.  What was announced to it may still be delivered.
Leave(c) ==
    /\ stage[c] = "member"
    /\ stage' = [stage EXCEPT ![c] = "left"]
    /\ UNCHANGED <<intact, newest, pending, feed>>

\* An event is announced to the members of its account, and to nobody else.
Announce(p, a) ==
    LET e == [by |-> p, n |-> newest[p] + 1, account |-> a]
        member(c) == stage[c] = "member" /\ AccountOf[c] = a
    IN  /\ newest' = [newest EXCEPT ![p] = @ + 1]
        /\ pending' = [c \in Clients |-> IF member(c) THEN pending[c] \cup {e} ELSE pending[c]]
        /\ UNCHANGED <<stage, intact, feed>>

\* A client gets the oldest pending event of a publisher, and gets it once.
Deliver(c, e) ==
    /\ intact[c]
    /\ e \in pending[c]
    /\ \A f \in pending[c] : f.by = e.by => e.n <= f.n
    /\ pending' = [pending EXCEPT ![c] = @ \ {e}]
    /\ feed' = [feed EXCEPT ![c] = Append(@, e)]
    /\ UNCHANGED <<stage, intact, newest>>

\* A client that keeps Backlog other events waiting, or whose feed is broken,
\* loses an event.
Lose(c, e) ==
    /\ e \in pending[c]
    /\ intact[c] => ExistsInjection(1 .. Backlog, pending[c] \ {e})
    /\ pending' = [pending EXCEPT ![c] = @ \ {e}]
    /\ UNCHANGED <<stage, intact, newest, feed>>

\* The feed of a client breaks, with the event that was being delivered.
Break(c) ==
    /\ intact[c]
    /\ intact' = [intact EXCEPT ![c] = FALSE]
    /\ \E S \in SUBSET pending[c] :
          /\ \A e, f \in S : e = f
          /\ pending' = [pending EXCEPT ![c] = @ \ S]
    /\ UNCHANGED <<stage, newest, feed>>

Next ==
    \/ \E c \in Clients :
          \/ Join(c) \/ Leave(c) \/ Break(c)
          \/ \E e \in pending[c] : Deliver(c, e) \/ Lose(c, e)
    \/ \E p \in Publishers, a \in Accounts : Announce(p, a)

Spec == Init /\ [][Next]_vars
=============================================================================
