----------------------------- MODULE OAuthLogin -----------------------------
(***************************************************************************)
(* Login through an identity provider: the one-shot state of the redirect, *)
(* and the search for the user behind an identity, with a signup by        *)
(* password competing for the same address.                                *)
(*                                                                         *)
(* The callback is one transaction (the state), a call to the provider,    *)
(* and then two lookups and an insert, each on its own: other callbacks    *)
(* come in between, of the same identity too, and a request may break off  *)
(* anywhere.  The uniqueness of users.email and of the identity decides    *)
(* who wins.  A user has the one account made with it, so an account is    *)
(* not told from its user.  A state may reach its expires_at at any        *)
(* moment.  The provider named by the state is not compared with the one   *)
(* of the callback, so states have none here.                              *)
(***************************************************************************)
EXTENDS Naturals

CONSTANTS
    Users,      \* ids of users that may be drawn
    Emails,
    Identities, \* subjects known to a provider
    States,     \* values of state that may be drawn
    Sessions,   \* session ids that may be drawn
    Requests,   \* handler goroutines
    None        \* no row, no id

VARIABLES
    user,     \* user[u]: row of users, or None
    identity, \* identity[i]: row of oauth_identities, or None
    state,    \* state[s]: row of oauth_states, or None
    session,  \* session[x]: row of auth_sessions, or None
    req       \* req[r]: local state of a callback in the server

vars == <<user, identity, state, session, req>>

\* password: the row was made by a signup, and has a hash.
UserRow == [email : Emails, password : BOOLEAN]
IdentityRow == [user : Users, email : Emails]
StateRow == [consumed : BOOLEAN, lapsed : BOOLEAN]
\* identity and state are not columns: they record which login the session came from.
SessionRow == [user : Users, identity : Identities, state : States]
Stage == {"idle", "exchange", "findIdentity", "findUser", "link", "create",
          "createSession", "reply"}
Request == [pc : Stage, state : States \cup {None}, identity : Identities \cup {None},
            email : Emails \cup {None}, user : Users \cup {None}]

ASSUME NoneIsNoValue ==
    None \notin Users \cup Emails \cup Identities \cup States \cup Sessions
                \cup UserRow \cup IdentityRow \cup StateRow \cup SessionRow

Idle == [pc |-> "idle", state |-> None, identity |-> None, email |-> None, user |-> None]

\* Random states and ids.New(): values that no row has.
FreeStates == {s \in States : state[s] = None}
NewState == CHOOSE s \in FreeStates : TRUE
FreeUsers == {u \in Users : user[u] = None}
NewUser == CHOOSE u \in FreeUsers : TRUE
FreeSessions == {x \in Sessions : session[x] = None}
NewSession == CHOOSE x \in FreeSessions : TRUE

UsersOf(e) == {u \in Users : user[u] # None /\ user[u].email = e}

Init ==
    /\ user = [u \in Users |-> None]
    /\ identity = [i \in Identities |-> None]
    /\ state = [s \in States |-> None]
    /\ session = [x \in Sessions |-> None]
    /\ req = [r \in Requests |-> Idle]

Goto(r, pc) == req' = [req EXCEPT ![r].pc = pc]
End(r) == req' = [req EXCEPT ![r] = Idle]

----------------------------------------------------------------------------
(* The state of a redirect *)

\* GET /start: the state is stored and carried by the redirect.
Start ==
    /\ FreeStates # {}
    /\ state' = [state EXCEPT ![NewState] = [consumed |-> FALSE, lapsed |-> FALSE]]
    /\ UNCHANGED <<user, identity, session, req>>

Lapse(s) ==
    /\ state[s] # None /\ ~state[s].lapsed
    /\ state' = [state EXCEPT ![s].lapsed = TRUE]
    /\ UNCHANGED <<user, identity, session, req>>

\* What the transaction of ConsumeOAuthState accepts.
Consumable(s) == state[s] # None /\ ~state[s].consumed /\ ~state[s].lapsed

\* Broken variant of ConsumeState: the row is read and never marked.
ReadState(s) == Consumable(s) /\ UNCHANGED state

ConsumeState(s) ==
    /\ Consumable(s)
    /\ state' = [state EXCEPT ![s].consumed = TRUE]

\* GET /callback: reloads and duplicates of it bring the same state.
Callback(r, s) ==
    /\ req[r].pc = "idle"
    /\ ConsumeState(s)
    /\ req' = [req EXCEPT ![r] = [Idle EXCEPT !.pc = "exchange", !.state = s]]
    /\ UNCHANGED <<user, identity, session>>

----------------------------------------------------------------------------
(* From the provider's answer to the user *)

\* Exchange and fetchUserInfo.  An identity may come with another email than last time.
FetchUserInfo(r, i, e) ==
    /\ req[r].pc = "exchange"
    /\ req' = [req EXCEPT ![r].pc = "findIdentity", ![r].identity = i, ![r].email = e]
    /\ UNCHANGED <<user, identity, state, session>>

\* Broken variant of FindIdentity: the user of the row is not scanned.
FindIdentityOnly(r) ==
    /\ req[r].pc = "findIdentity"
    /\ Goto(r, IF identity[req[r].identity] = None THEN "findUser" ELSE "createSession")
    /\ UNCHANGED <<user, identity, state, session>>

FindIdentity(r) ==
    LET row == identity[req[r].identity]
    IN  /\ req[r].pc = "findIdentity"
        /\ IF row = None
           THEN Goto(r, "findUser")
           ELSE req' = [req EXCEPT ![r].pc = "createSession", ![r].user = row.user]
        /\ UNCHANGED <<user, identity, state, session>>

\* tenancy.GetUserByEmail.
FindUser(r) ==
    /\ req[r].pc = "findUser"
    /\ \/ \E u \in UsersOf(req[r].email) :
             req' = [req EXCEPT ![r].pc = "link", ![r].user = u]
       \/ UsersOf(req[r].email) = {} /\ Goto(r, "create")
    /\ UNCHANGED <<user, identity, state, session>>

\* Broken variant of LinkIdentity: INSERT OR REPLACE.
ReplaceIdentity(r) ==
    /\ req[r].pc = "link"
    /\ identity' = [identity EXCEPT ![req[r].identity] =
                        [user |-> req[r].user, email |-> req[r].email]]
    /\ Goto(r, "createSession")
    /\ UNCHANGED <<user, state, session>>

\* The identity joins the user of its email, unless it got a user meanwhile: the
\* insert then fails on UNIQUE(provider, provider_user_id).
LinkIdentity(r) ==
    /\ req[r].pc = "link"
    /\ IF identity[req[r].identity] = None
       THEN /\ identity' = [identity EXCEPT ![req[r].identity] =
                                [user |-> req[r].user, email |-> req[r].email]]
            /\ Goto(r, "createSession")
       ELSE End(r) /\ UNCHANGED identity
    /\ UNCHANGED <<user, state, session>>

\* The transaction that makes user, account, membership and identity.  It fails as a
\* whole when the email or the identity was taken meanwhile.
CreateUser(r) ==
    /\ req[r].pc = "create"
    /\ IF UsersOf(req[r].email) = {} /\ identity[req[r].identity] = None
       THEN /\ FreeUsers # {}
            /\ user' = [user EXCEPT ![NewUser] =
                            [email |-> req[r].email, password |-> FALSE]]
            /\ identity' = [identity EXCEPT ![req[r].identity] =
                                [user |-> NewUser, email |-> req[r].email]]
            /\ req' = [req EXCEPT ![r].pc = "createSession", ![r].user = NewUser]
       ELSE End(r) /\ UNCHANGED <<user, identity>>
    /\ UNCHANGED <<state, session>>

CreateSession(r) ==
    /\ req[r].pc = "createSession"
    /\ FreeSessions # {}
    /\ session' = [session EXCEPT ![NewSession] =
                      [user |-> req[r].user, identity |-> req[r].identity,
                       state |-> req[r].state]]
    /\ Goto(r, "reply")
    /\ UNCHANGED <<user, identity, state>>

\* The JWT is signed and answered.
Reply(r) ==
    /\ req[r].pc = "reply"
    /\ End(r)
    /\ UNCHANGED <<user, identity, state, session>>

----------------------------------------------------------------------------
(* The environment *)

\* The transaction of Service.Signup, which takes an address by password.
Signup(e) ==
    /\ UsersOf(e) = {}
    /\ FreeUsers # {}
    /\ user' = [user EXCEPT ![NewUser] = [email |-> e, password |-> TRUE]]
    /\ UNCHANGED <<identity, state, session, req>>

\* A call of the request fails, or its client hangs up.
Interrupt(r) ==
    /\ req[r].pc # "idle"
    /\ End(r)
    /\ UNCHANGED <<user, identity, state, session>>

Crash ==
    /\ req' = [r \in Requests |-> Idle]
    /\ UNCHANGED <<user, identity, state, session>>

----------------------------------------------------------------------------
Next ==
    \/ Start
    \/ \E s \in States : Lapse(s)
    \/ \E r \in Requests :
          \/ \E s \in States : Callback(r, s)
          \/ \E i \in Identities, e \in Emails : FetchUserInfo(r, i, e)
          \/ FindIdentity(r) \/ FindUser(r) \/ LinkIdentity(r) \/ CreateUser(r)
          \/ CreateSession(r) \/ Reply(r) \/ Interrupt(r)
    \/ \E e \in Emails : Signup(e)
    \/ Crash

Spec == Init /\ [][Next]_vars

----------------------------------------------------------------------------
(* Safety *)

\* The type invariant.
TypeOK ==
    /\ user \in [Users -> UserRow \cup {None}]
    /\ identity \in [Identities -> IdentityRow \cup {None}]
    /\ state \in [States -> StateRow \cup {None}]
    /\ session \in [Sessions -> SessionRow \cup {None}]
    /\ req \in [Requests -> Request]

\* A redirect logs in once, however often its callback is loaded: one request works
\* with a state, and only if no session came of it before (ConsumeOAuthState).
StateWorksOnce ==
    /\ \A q, r \in Requests : req[q].state = req[r].state => q = r \/ req[q].state = None
    /\ \A r \in Requests, x \in Sessions :
          session[x] # None /\ session[x].state = req[r].state => req[r].pc = "reply"
    /\ \A x, y \in Sessions :
          session[x] # None /\ session[y] # None /\ session[x].state = session[y].state
             => x = y

\* One user per address.
OneUserPerAddress ==
    \A u, v \in Users :
        user[u] # None /\ user[v] # None /\ user[u].email = user[v].email => u = v

\* An identity belongs to the user of the address it first came with.
IdentityOfItsAddress ==
    \A i \in Identities : identity[i] # None =>
        user[identity[i].user] # None /\ user[identity[i].user].email = identity[i].email

\* Every login of an identity is as the same user.
SessionOfItsIdentity ==
    \A x \in Sessions : session[x] # None =>
        LET row == identity[session[x].identity]
        IN  row # None /\ row.user = session[x].user

\* Nobody is left without a way in: a user without a password has an identity.
NobodyHalfCreated ==
    \A u \in Users : user[u] # None /\ ~user[u].password =>
        \E i \in Identities : identity[i] # None /\ identity[i].user = u

\* Callbacks and signups that race for an address, or for an identity, leave the
\* three tables in agreement (upsertIdentity, Signup).
AccountsAgree ==
    OneUserPerAddress /\ IdentityOfItsAddress /\ SessionOfItsIdentity /\ NobodyHalfCreated

----------------------------------------------------------------------------
(* Refinement *)

Redirects == [s \in States |->
    CASE state[s] = None -> "absent"
      [] state[s] # None /\ state[s].consumed -> "used"
      [] state[s] # None /\ ~state[s].consumed /\ state[s].lapsed -> "void"
      [] OTHER -> "open"]

Addresses == [u \in Users |-> IF user[u] = None THEN None ELSE user[u].email]

Bindings == [i \in Identities |-> IF identity[i] = None THEN None ELSE identity[i].user]

Promise == INSTANCE ProviderLogin WITH
    redirect <- Redirects, address <- Addresses, bound <- Bindings, login <- session

\* Logins through a provider keep the promise: one per redirect, as the user of the
\* identity, which it keeps from the moment it is bound, as an address keeps its owner
\* (ConsumeOAuthState, upsertIdentity, FinishLogin, Signup).
LogsInAsPromised == Promise!Spec
=============================================================================
