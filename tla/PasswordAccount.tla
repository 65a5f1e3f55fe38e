-------------------------- MODULE PasswordAccount --------------------------
(***************************************************************************)
(* What accounts promise, with no handlers and no statements: an address   *)
(* has an account for good, verified from the start when a provider vouched *)
(* for it; only a ticket that was mailed, taken in time and is still in    *)
(* hand changes the account, once, in the way it was written for and the   *)
(* account it was written to; a login by password is of an account that    *)
(* was verified, one by a provider of any account; and a login is over     *)
(* once it has ended.  Credentials implements this.                        *)
(***************************************************************************)
CONSTANTS Emails, Passwords, Tokens, Sessions, None

VARIABLES
    account, \* account[e]: password, standing and maker of the account of e, or None
    phase,   \* phase[t]: how far ticket t has come
    about,   \* about[t]: what t is for and to whom it was written, or None
    login,   \* login[s]: whose login s is and by what means, or None
    over     \* logins that have ended

vars == <<account, phase, about, login, over>>

Init ==
    /\ account = [e \in Emails |-> None]
    /\ phase = [t \in Tokens |-> "absent"]
    /\ about = [t \in Tokens |-> None]
    /\ login = [s \in Sessions |-> None]
    /\ over = {}

Enter(e, row) ==
    /\ account[e] = None
    /\ account' = [account EXCEPT ![e] = row]
    /\ UNCHANGED <<phase, about, login, over>>

SignUp(e, p) == Enter(e, [password |-> p, verified |-> FALSE, by |-> "signup"])

\* A provider vouches for the address.
Vouch(e) == Enter(e, [password |-> None, verified |-> TRUE, by |-> "provider"])

\* A ticket is written to somebody who has an account.
Write(t, purpose, e) ==
    /\ phase[t] = "absent"
    /\ account[e] # None
    /\ phase' = [phase EXCEPT ![t] = "written"]
    /\ about' = [about EXCEPT ![t] = [purpose |-> purpose, user |-> e]]
    /\ UNCHANGED <<account, login, over>>

Move(t, from, to) == phase[t] = from /\ phase' = [phase EXCEPT ![t] = to]

\* It is mailed, or not; it lapses; or it is taken, once it was mailed.
Mail(t) == Move(t, "written", "sent") /\ UNCHANGED <<account, about, login, over>>
Lapse(t) ==
    /\ Move(t, "written", "void") \/ Move(t, "sent", "void")
    /\ UNCHANGED <<account, about, login, over>>
Take(t) == Move(t, "sent", "held") /\ UNCHANGED <<account, about, login, over>>

\* Tickets in hand are lost with the handler.
Burn(T) ==
    /\ \A t \in T : phase[t] = "held"
    /\ phase' = [t \in Tokens |-> IF t \in T THEN "spent" ELSE phase[t]]
    /\ UNCHANGED <<account, about, login, over>>

\* A ticket in hand does what it was written for, to the account it was written to.
Verify(t) ==
    /\ Move(t, "held", "spent")
    /\ about[t].purpose = "email_verify"
    /\ account' = [account EXCEPT ![about[t].user].verified = TRUE]
    /\ UNCHANGED <<about, login, over>>
ChangePassword(t, p) ==
    /\ Move(t, "held", "spent")
    /\ about[t].purpose = "password_reset"
    /\ account' = [account EXCEPT ![about[t].user].password = p]
    /\ UNCHANGED <<about, login, over>>

LogIn(s, e, via) ==
    /\ login[s] = None
    /\ account[e] # None
    /\ via = "password" => account[e].verified
    /\ login' = [login EXCEPT ![s] = [user |-> e, via |-> via]]
    /\ UNCHANGED <<account, phase, about, over>>

\* A login ends for good.
EndLogin(s) ==
    /\ login[s] # None /\ s \notin over
    /\ over' = over \cup {s}
    /\ UNCHANGED <<account, phase, about, login>>

Next ==
    \/ \E e \in Emails : Vouch(e) \/ \E p \in Passwords : SignUp(e, p)
    \/ \E t \in Tokens :
          \/ Mail(t) \/ Lapse(t) \/ Take(t) \/ Verify(t)
          \/ \E p \in Passwords : ChangePassword(t, p)
          \/ \E purpose \in {"email_verify", "password_reset"}, e \in Emails :
                Write(t, purpose, e)
    \/ \E T \in SUBSET {t \in Tokens : phase[t] = "held"} : Burn(T)
    \/ \E s \in Sessions :
          \/ EndLogin(s)
          \/ \E e \in Emails, via \in {"password", "provider"} : LogIn(s, e, via)

Spec == Init /\ [][Next]_vars
=============================================================================
