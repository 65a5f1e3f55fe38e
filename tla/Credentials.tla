---------------------------- MODULE Credentials ----------------------------
(***************************************************************************)
(* Accounts and their sessions: signup by password, verification of the    *)
(* email address, login, logout, the reset of a forgotten password, and    *)
(* the login through an identity provider, as far as it writes the same    *)
(* rows.                                                                   *)
(*                                                                         *)
(* A provider's login makes a user whose email counts as verified, with no *)
(* mail and no password, or joins one that exists, verified or not.  The   *)
(* search for that user, and the races of it, are in OAuthLogin; rows      *)
(* stay, so that here only its outcome matters.                            *)
(*                                                                         *)
(* A transaction or a single statement on the database is one step, what   *)
(* lies between two of them is not: requests interleave there, and a       *)
(* request may break off, because a call fails, its client hangs up or the *)
(* process dies.  users.email is unique and rows stay, so a user is named  *)
(* by its email; the transaction that inserts it gives it its one account. *)
(*                                                                         *)
(* The raw verification tokens exist only in the mails: a client has a     *)
(* token when its mail was delivered.  Time is not counted: a token or a   *)
(* session may reach its expires_at at any moment.                         *)
(***************************************************************************)
EXTENDS Naturals, FiniteSets

CONSTANTS
    Emails,
    Passwords,
    Mistyped,   \* a password its owner cannot repeat
    Tokens,     \* ids of verification tokens that may be drawn
    Sessions,   \* session ids that may be drawn
    Requests,   \* handler goroutines
    MaxTrouble, \* bound: faults, lost mails and lapsed tokens
    None        \* no row, no id

VARIABLES
    user,    \* user[e]: row of users, or None
    token,   \* token[t]: row of verification_tokens, or None
    session, \* session[s]: row of auth_sessions, or None
    mailed,  \* tokens whose mail was delivered
    held,    \* sessions whose JWT reached the client
    req,     \* req[r]: local state of a request in the server
    trouble  \* faults, lost mails and lapsed tokens so far

vars == <<user, token, session, mailed, held, req, trouble>>

\* by is no column: it records whose insert made the row.
UserRow == [password : Passwords \cup {None}, verified : BOOLEAN,
            by : {"signup", "provider"}]
Purpose == {"email_verify", "password_reset"}
TokenRow == [purpose : Purpose, user : Emails, consumed : BOOLEAN, lapsed : BOOLEAN]
\* via is no column: it records which login made the session.
Via == {"password", "provider"}
SessionRow == [user : Emails, state : {"active", "revoked", "expired"}, via : Via]
LoginRow == [user : Emails, via : Via]
Stage == {"idle", "createToken", "send", "markVerified", "updateHash", "createSession",
          "providerSession", "reply", "revoke"}
Request == [pc : Stage, user : Emails \cup {None}, token : Tokens \cup {None},
            password : Passwords \cup {None}, session : Sessions \cup {None}]

ASSUME NoneIsNoValue ==
    None \notin Emails \cup Passwords \cup Tokens \cup Sessions
                \cup UserRow \cup TokenRow \cup SessionRow \cup LoginRow
ASSUME TroubleIsBounded == MaxTrouble \in Nat
ASSUME RequestsAreFinite == IsFiniteSet(Requests)

Idle == [pc |-> "idle", user |-> None, token |-> None, password |-> None, session |-> None]
InFlight == {r \in Requests : req[r].pc # "idle"}

\* ids.New() draws an id that neither a row nor a running request has.
FreeTokens == {t \in Tokens : token[t] = None /\ \A r \in Requests : req[r].token # t}
NewToken == CHOOSE t \in FreeTokens : TRUE
FreeSessions == {s \in Sessions : session[s] = None}
NewSession == CHOOSE s \in FreeSessions : TRUE

Init ==
    /\ user = [e \in Emails |-> None]
    /\ token = [t \in Tokens |-> None]
    /\ session = [s \in Sessions |-> None]
    /\ mailed = {}
    /\ held = {}
    /\ req = [r \in Requests |-> Idle]
    /\ trouble = 0

Begin(r, q) == req[r].pc = "idle" /\ req' = [req EXCEPT ![r] = q]
End(r) == req' = [req EXCEPT ![r] = Idle]

----------------------------------------------------------------------------
(* Verification tokens *)

\* The row of a new token.  Broken variant: the user is left out.
AnonymousToken(purpose, e) ==
    [purpose |-> purpose, user |-> None, consumed |-> FALSE, lapsed |-> FALSE]
TokenOf(purpose, e) ==
    [purpose |-> purpose, user |-> e, consumed |-> FALSE, lapsed |-> FALSE]

\* Broken variants of Consumable: a token that was used before, or for another purpose.
ConsumableAgain(t, purpose) ==
    token[t] # None /\ token[t].purpose = purpose /\ ~token[t].lapsed
ConsumableForAll(t, purpose) ==
    token[t] # None /\ ~token[t].consumed /\ ~token[t].lapsed

\* What the transaction of ConsumeVerificationToken accepts.
Consumable(t, purpose) ==
    /\ token[t] # None /\ token[t].purpose = purpose
    /\ ~token[t].consumed /\ ~token[t].lapsed

Consume(t) == token' = [token EXCEPT ![t].consumed = TRUE]

\* The mail with the raw token is delivered and the request answered.  A mail that
\* is not sent changes neither the answer nor the tables: that is Interrupt.
SendMail(r) ==
    /\ req[r].pc = "send"
    /\ mailed' = mailed \cup {req[r].token}
    /\ End(r)
    /\ UNCHANGED <<user, token, session, held, trouble>>

Lapse(t) ==
    /\ token[t] # None /\ ~token[t].consumed /\ ~token[t].lapsed
    /\ trouble < MaxTrouble
    /\ trouble' = trouble + 1
    /\ token' = [token EXCEPT ![t].lapsed = TRUE]
    /\ UNCHANGED <<user, session, mailed, held, req>>

----------------------------------------------------------------------------
(* Signup and verification *)

\* The transaction of Signup: user, account and membership.  An email that has a row
\* fails on the unique column.
Signup(r, e, p) ==
    /\ user[e] = None
    /\ FreeTokens # {}
    /\ user' = [user EXCEPT ![e] = [password |-> p, verified |-> FALSE, by |-> "signup"]]
    /\ Begin(r, [Idle EXCEPT !.pc = "createToken", !.user = e, !.token = NewToken])
    /\ UNCHANGED <<token, session, mailed, held, trouble>>

SignupToken(r) ==
    /\ req[r].pc = "createToken"
    /\ token' = [token EXCEPT ![req[r].token] = TokenOf("email_verify", req[r].user)]
    /\ req' = [req EXCEPT ![r].pc = "send"]
    /\ UNCHANGED <<user, session, mailed, held, trouble>>

VerifyEmail(r, t) ==
    /\ t \in mailed
    /\ Consumable(t, "email_verify")
    /\ Consume(t)
    /\ Begin(r, [Idle EXCEPT !.pc = "markVerified", !.user = token[t].user, !.token = t])
    /\ UNCHANGED <<user, session, mailed, held, trouble>>

\* Broken variant of MarkEmailVerified: an UPDATE that matches no row is no error.
MarkNobody(r) ==
    /\ req[r].pc = "markVerified"
    /\ End(r)
    /\ UNCHANGED <<user, token, session, mailed, held, trouble>>

MarkEmailVerified(r) ==
    /\ req[r].pc = "markVerified"
    /\ user' = [user EXCEPT ![req[r].user].verified = TRUE]
    /\ End(r)
    /\ UNCHANGED <<token, session, mailed, held, trouble>>

----------------------------------------------------------------------------
(* Reset of the password *)

Outstanding(e) ==
    \E t \in Tokens : /\ token[t] # None /\ token[t].user = e
                      /\ token[t].purpose = "password_reset" /\ ~token[t].consumed

\* Broken variant of RequestPasswordReset: no second token while one is outstanding.
RequestResetOnce(r, e) ==
    /\ user[e] # None /\ ~Outstanding(e)
    /\ FreeTokens # {}
    /\ token' = [token EXCEPT ![NewToken] = TokenOf("password_reset", e)]
    /\ Begin(r, [Idle EXCEPT !.pc = "send", !.user = e, !.token = NewToken])
    /\ UNCHANGED <<user, session, mailed, held, trouble>>

\* An unknown email is answered like a known one and changes nothing.
RequestPasswordReset(r, e) ==
    /\ user[e] # None
    /\ FreeTokens # {}
    /\ token' = [token EXCEPT ![NewToken] = TokenOf("password_reset", e)]
    /\ Begin(r, [Idle EXCEPT !.pc = "send", !.user = e, !.token = NewToken])
    /\ UNCHANGED <<user, session, mailed, held, trouble>>

\* The new password is one the owner can repeat.
ResetPassword(r, t, p) ==
    /\ t \in mailed /\ p # Mistyped
    /\ Consumable(t, "password_reset")
    /\ Consume(t)
    /\ Begin(r, [Idle EXCEPT !.pc = "updateHash", !.user = token[t].user, !.token = t,
                             !.password = p])
    /\ UNCHANGED <<user, session, mailed, held, trouble>>

UpdatePasswordHash(r) ==
    /\ req[r].pc = "updateHash"
    /\ user' = [user EXCEPT ![req[r].user].password = req[r].password]
    /\ End(r)
    /\ UNCHANGED <<token, session, mailed, held, trouble>>

----------------------------------------------------------------------------
(* Login and logout *)

\* Broken variant of Accepts: whether the email was verified is not asked.
AcceptsUnverified(e, p) == user[e] # None /\ user[e].password = p

\* The row that Login reads has this password and a verified email.
Accepts(e, p) == user[e] # None /\ user[e].password = p /\ user[e].verified

\* The password is compared with the row read; the row may change before the session
\* is created.
Login(r, e, p) ==
    /\ p # Mistyped
    /\ Accepts(e, p)
    /\ Begin(r, [Idle EXCEPT !.pc = "createSession", !.user = e])
    /\ UNCHANGED <<user, token, session, mailed, held, trouble>>

\* Which login comes to create its session at this stage.
ViaOf(pc) == IF pc = "createSession" THEN "password" ELSE "provider"

\* Called by Login and by FinishLogin; it asks nothing of the user.
CreateSession(r) ==
    /\ req[r].pc \in {"createSession", "providerSession"}
    /\ FreeSessions # {}
    /\ session' = [session EXCEPT ![NewSession] =
                      [user |-> req[r].user, state |-> "active", via |-> ViaOf(req[r].pc)]]
    /\ req' = [req EXCEPT ![r].pc = "reply", ![r].session = NewSession]
    /\ UNCHANGED <<user, token, mailed, held, trouble>>

\* The JWT names the session.
Reply(r) ==
    /\ req[r].pc = "reply"
    /\ held' = held \cup {req[r].session}
    /\ End(r)
    /\ UNCHANGED <<user, token, session, mailed, trouble>>

\* POST /logout, past CheckSessionActive in the middleware.
Logout(r, s) ==
    /\ s \in held
    /\ session[s].state = "active"
    /\ Begin(r, [Idle EXCEPT !.pc = "revoke", !.user = session[s].user, !.session = s])
    /\ UNCHANGED <<user, token, session, mailed, held, trouble>>

\* Two logouts of one session may both come here; the second finds it revoked.
RevokeSession(r) ==
    /\ req[r].pc = "revoke"
    /\ session' = [session EXCEPT ![req[r].session].state = "revoked"]
    /\ End(r)
    /\ UNCHANGED <<user, token, mailed, held, trouble>>

Expire(s) ==
    /\ session[s] # None /\ session[s].state = "active"
    /\ session' = [session EXCEPT ![s].state = "expired"]
    /\ UNCHANGED <<user, token, mailed, held, req, trouble>>

----------------------------------------------------------------------------
(* Login through a provider *)

\* The transaction of upsertIdentity: the user is verified by the provider's word.
ProviderSignup(r, e) ==
    /\ user[e] = None
    /\ user' = [user EXCEPT ![e] = [password |-> None, verified |-> TRUE, by |-> "provider"]]
    /\ Begin(r, [Idle EXCEPT !.pc = "providerSession", !.user = e])
    /\ UNCHANGED <<token, session, mailed, held, trouble>>

\* The identity has this user, or is linked to the one of its email.  Whether the
\* email was verified is neither asked nor changed.
ProviderLogin(r, e) ==
    /\ user[e] # None
    /\ Begin(r, [Idle EXCEPT !.pc = "providerSession", !.user = e])
    /\ UNCHANGED <<user, token, session, mailed, held, trouble>>

----------------------------------------------------------------------------
(* Faults *)

\* A request breaks off: a call fails, its client hangs up, or the answer is lost.  A
\* mail that is not delivered is this, after which the client is answered all the same.
Interrupt(r) ==
    /\ r \in InFlight
    /\ trouble < MaxTrouble
    /\ trouble' = trouble + 1
    /\ End(r)
    /\ UNCHANGED <<user, token, session, mailed, held>>

Crash ==
    /\ InFlight # {}
    /\ trouble + Cardinality(InFlight) <= MaxTrouble
    /\ trouble' = trouble + Cardinality(InFlight)
    /\ req' = [r \in Requests |-> Idle]
    /\ UNCHANGED <<user, token, session, mailed, held>>

----------------------------------------------------------------------------
Step(r) ==
    \/ SignupToken(r) \/ SendMail(r) \/ MarkEmailVerified(r) \/ UpdatePasswordHash(r)
    \/ CreateSession(r) \/ Reply(r) \/ RevokeSession(r)

ResetSomehow(e) ==
    \E r \in Requests, t \in Tokens, p \in Passwords :
        token[t] # None /\ token[t].user = e /\ ResetPassword(r, t, p)

Next ==
    \/ \E r \in Requests :
          \/ Step(r) \/ Interrupt(r)
          \/ \E e \in Emails :
                RequestPasswordReset(r, e) \/ ProviderSignup(r, e) \/ ProviderLogin(r, e)
          \/ \E e \in Emails, p \in Passwords : Signup(r, e, p) \/ Login(r, e, p)
          \/ \E t \in Tokens : VerifyEmail(r, t)
          \/ \E t \in Tokens, p \in Passwords : ResetPassword(r, t, p)
          \/ \E s \in Sessions : Logout(r, s)
    \/ Crash
    \/ \E t \in Tokens : Lapse(t)
    \/ \E s \in Sessions : Expire(s)

Spec == Init /\ [][Next]_vars

\* Handlers run.  A user who wants in asks for a reset again and again, uses the
\* token of each mail, and logs in when the password is one it knows.
Fairness ==
    /\ \A r \in Requests : WF_vars(Step(r))
    /\ \A e \in Emails :
          /\ SF_vars(\E r \in Requests : RequestPasswordReset(r, e))
          /\ SF_vars(ResetSomehow(e))
          /\ SF_vars(\E r \in Requests, p \in Passwords : Login(r, e, p))

FairSpec == Spec /\ Fairness

----------------------------------------------------------------------------
(* Safety *)

\* The type invariant.
TypeOK ==
    /\ user \in [Emails -> UserRow \cup {None}]
    /\ token \in [Tokens -> TokenRow \cup {None}]
    /\ session \in [Sessions -> SessionRow \cup {None}]
    /\ mailed \subseteq Tokens
    /\ held \subseteq Sessions
    /\ req \in [Requests -> Request]
    /\ trouble \in Nat

\* What a request that consumed a token is about to do for it.
Redeeming(r) ==
    \/ req[r].pc = "markVerified" /\ token[req[r].token].purpose = "email_verify"
    \/ req[r].pc = "updateHash" /\ token[req[r].token].purpose = "password_reset"

\* A token works once, for its purpose and for its user: a request that is about to
\* act on one finds it consumed and mailed, nobody else acts on it, and a token that
\* is not yet mailed is unused (ConsumeVerificationToken).
TokensWorkOnce ==
    /\ \A r \in Requests : req[r].pc \in {"markVerified", "updateHash"} =>
          LET t == req[r].token
          IN  /\ t \in mailed /\ token[t] # None /\ token[t].consumed
              /\ Redeeming(r) /\ token[t].user = req[r].user
    /\ \A q, r \in Requests : req[q].token = req[r].token => q = r \/ req[q].token = None

\* The email of an account that a signup made is only verified by a token that was
\* mailed to it: neither a reset nor a provider's login that joins the account does it
\* (Signup, ConsumeVerificationToken, upsertIdentity).
VerifiedByMail ==
    \A e \in Emails : user[e] # None /\ user[e].by = "signup" /\ user[e].verified =>
        \E t \in mailed : /\ token[t] # None /\ token[t].user = e
                          /\ token[t].purpose = "email_verify" /\ token[t].consumed

\* There is still a way for e to be verified: nothing in the program sends a second
\* verification mail.
CanBeVerified(e) ==
    \/ user[e].verified
    \/ \E t \in mailed : Consumable(t, "email_verify") /\ token[t].user = e
    \/ \E r \in Requests :
          /\ req[r].user = e
          /\ \/ req[r].pc \in {"createToken", "markVerified"}
             \/ req[r].pc = "send" /\ Consumable(req[r].token, "email_verify")

Stranded == {e \in Emails : user[e] # None /\ ~CanBeVerified(e)}

\* An address is taken for good by an account that can never log in by password only
\* after a fault at the wrong moment, a lost mail or a token that was left to lapse, one
\* for each such address (Signup, VerifyEmail); a provider's login still gets in, and
\* leaves the account as it is.
StrandedBounded == Cardinality(Stranded) <= trouble

\* Sessions nobody can use: the request that created one did not get to its answer.
Unclaimed == {s \in Sessions : session[s] # None /\ s \notin held
                                /\ \A r \in Requests : req[r].session # s}

\* A session that a password got is of a verified user, whatever happened to the row
\* between the check and the insert, and every session is of a user and known to the
\* client that logged in unless a fault came between (Login, FinishLogin, CreateSession).
SessionsAccounted ==
    /\ \A s \in Sessions : session[s] # None =>
          /\ user[session[s].user] # None
          /\ session[s].via = "password" => user[session[s].user].verified
    /\ \A s \in held : session[s] # None
    /\ Cardinality(Unclaimed) <= trouble

----------------------------------------------------------------------------
(* Liveness, under FairSpec *)

\* A verified user who does not know the password gets in, whatever resets broke off
\* and whatever tokens were lost: a burned token is no obstacle to the next one
\* (RequestPasswordReset, ResetPassword, Login).
OwnerGetsIn ==
    \A e \in Emails :
        (user[e] # None /\ user[e].verified)
            ~> \E s \in held : session[s].user = e

----------------------------------------------------------------------------
(* Refinement *)

\* A request has consumed t and is about to act on it.
InHand(t) ==
    \E r \in Requests : req[r].pc \in {"markVerified", "updateHash"} /\ req[r].token = t

Phase == [t \in Tokens |->
    IF token[t] = None THEN "absent"
    ELSE IF token[t].consumed THEN IF InHand(t) THEN "held" ELSE "spent"
    ELSE IF token[t].lapsed THEN "void"
    ELSE IF t \in mailed THEN "sent" ELSE "written"]

About == [t \in Tokens |->
    IF token[t] = None THEN None
    ELSE [purpose |-> token[t].purpose, user |-> token[t].user]]

Logins == [s \in Sessions |->
    IF session[s] = None THEN None
    ELSE [user |-> session[s].user, via |-> session[s].via]]

Over == {s \in Sessions : session[s] # None /\ session[s].state # "active"}

Promise == INSTANCE PasswordAccount WITH
    account <- user, phase <- Phase, about <- About, login <- Logins, over <- Over

\* Accounts keep the promise: only a token that was mailed to its user and consumed once
\* verifies the email of an existing account or changes a password, whatever breaks off
\* between the two transactions; a session that a password got is of a verified user;
\* and no session is active again after its end (ConsumeVerificationToken,
\* MarkEmailVerified, UpdatePasswordHash, upsertIdentity, CreateSession, RevokeSession).
ActsAsPromised == Promise!Spec
=============================================================================
