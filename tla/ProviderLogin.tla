---------------------------- MODULE ProviderLogin ----------------------------
(***************************************************************************)
(* What login through an identity provider promises, with no requests and  *)
(* no transactions: a redirect logs in at most once and while it is open;  *)
(* an address and an identity, once they have a user, keep it; a new       *)
(* identity joins the user of the address it comes with, or makes one; and *)
(* whoever logs in with an identity does so as the user it is bound to.    *)
(* OAuthLogin implements this.                                             *)
(***************************************************************************)
CONSTANTS Users, Emails, Identities, States, Sessions, None

VARIABLES
    redirect, \* redirect[s]: "absent", "open", "void" (lapsed) or "used"
    address,  \* address[u]: the address of user u, None while there is no u
    bound,    \* bound[i]: the user of identity i, or None
    login     \* login[x]: who logged in how, or None

vars == <<redirect, address, bound, login>>

Init ==
    /\ redirect = [s \in States |-> "absent"]
    /\ address = [u \in Users |-> None]
    /\ bound = [i \in Identities |-> None]
    /\ login = [x \in Sessions |-> None]

Redirect(s) ==
    /\ redirect[s] = "absent"
    /\ redirect' = [redirect EXCEPT ![s] = "open"]
    /\ UNCHANGED <<address, bound, login>>

\* An open redirect lapses, or is used.
Close(s) ==
    /\ redirect[s] = "open"
    /\ \E c \in {"void", "used"} : redirect' = [redirect EXCEPT ![s] = c]
    /\ UNCHANGED <<address, bound, login>>

\* A new user takes an address that nobody has, for good.
Take(u, e) ==
    /\ address[u] = None
    /\ \A v \in Users : address[v] # e
    /\ address' = [address EXCEPT ![u] = e]

\* A new identity is bound to a user, for good.
Bind(i, u) ==
    /\ bound[i] = None
    /\ bound' = [bound EXCEPT ![i] = u]

\* Somebody signs up by password.
SignUp(u, e) == Take(u, e) /\ UNCHANGED <<redirect, bound, login>>

\* A new identity joins the user who has the address it comes with.
Join(i, u) ==
    /\ address[u] # None
    /\ Bind(i, u)
    /\ UNCHANGED <<redirect, address, login>>

\* A new identity with a new address makes a user, which is bound to it at once.
Enrol(i, u, e) ==
    /\ Take(u, e)
    /\ Bind(i, u)
    /\ UNCHANGED <<redirect, login>>

\* A login with an identity is as its user, through a redirect of its own.
LogIn(x, s, i) ==
    /\ login[x] = None
    /\ redirect[s] = "used"
    /\ \A y \in Sessions : login[y] # None => login[y].state # s
    /\ bound[i] # None
    /\ login' = [login EXCEPT ![x] = [user |-> bound[i], identity |-> i, state |-> s]]
    /\ UNCHANGED <<redirect, address, bound>>

Next ==
    \/ \E s \in States : Redirect(s) \/ Close(s)
    \/ \E u \in Users :
          \/ \E e \in Emails : SignUp(u, e) \/ \E i \in Identities : Enrol(i, u, e)
          \/ \E i \in Identities : Join(i, u)
    \/ \E x \in Sessions, s \in States, i \in Identities : LogIn(x, s, i)

Spec == Init /\ [][Next]_vars
=============================================================================
