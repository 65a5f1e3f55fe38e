-------------------------- MODULE OAuthLogin_proof --------------------------
(***************************************************************************)
(* For any number of users, identities, states and concurrent callbacks: a *)
(* redirect logs in once, the tables of users, identities and sessions     *)
(* agree whatever races for an address or an identity, and the login       *)
(* implements the abstract ProviderLogin.                                  *)
(***************************************************************************)
EXTENDS OAuthLogin, TLAPS

\* What a callback remembers agrees with the tables.
Remembers(r) ==
    /\ req[r].pc = "idle" => req[r] = Idle
    /\ req[r].pc # "idle" => /\ req[r].state # None
                             /\ state[req[r].state] # None
                             /\ state[req[r].state].consumed
    /\ req[r].pc \notin {"idle", "exchange"} =>
          req[r].identity # None /\ req[r].email # None
    /\ req[r].pc = "link" => /\ req[r].user # None
                             /\ user[req[r].user] # None
                             /\ user[req[r].user].email = req[r].email
    /\ req[r].pc \in {"createSession", "reply"} =>
          /\ req[r].user # None
          /\ identity[req[r].identity] # None
          /\ identity[req[r].identity].user = req[r].user

RequestsRemember == \A r \in Requests : Remembers(r)

\* The state of a session was consumed.
StatesSpent ==
    \A x \in Sessions : session[x] # None =>
        state[session[x].state] # None /\ state[session[x].state].consumed

\* The inductive invariant.
Inv == TypeOK /\ RequestsRemember /\ StatesSpent /\ StateWorksOnce /\ AccountsAgree

(* A drawn state is in no row.                                               *)
LEMMA NewStateIsFree ==
    ASSUME FreeStates # {} PROVE NewState \in States /\ state[NewState] = None
  <1>1. NewState \in FreeStates
    BY DEF NewState
  <1> QED BY <1>1 DEF FreeStates

(* A drawn user id is in no row.                                             *)
LEMMA NewUserIsFree ==
    ASSUME FreeUsers # {} PROVE NewUser \in Users /\ user[NewUser] = None
  <1>1. NewUser \in FreeUsers
    BY DEF NewUser
  <1> QED BY <1>1 DEF FreeUsers

(* A drawn session id is in no row.                                          *)
LEMMA NewSessionIsFree ==
    ASSUME FreeSessions # {} PROVE NewSession \in Sessions /\ session[NewSession] = None
  <1>1. NewSession \in FreeSessions
    BY DEF NewSession
  <1> QED BY <1>1 DEF FreeSessions

(* The tables are empty and no callback runs at the start (schema).          *)
LEMMA InitEstablishes == Init => Inv
<1> SUFFICES ASSUME Init PROVE Inv
  OBVIOUS
<1> USE NoneIsNoValue DEF Init
<1>1. TypeOK
  BY DEF TypeOK, Idle, Request, Stage
<1>2. RequestsRemember
  BY DEF RequestsRemember, Remembers, Idle
<1>3. StatesSpent /\ StateWorksOnce
  BY DEF StatesSpent, StateWorksOnce, Idle
<1>4. AccountsAgree
  BY DEF AccountsAgree, OneUserPerAddress, IdentityOfItsAddress, SessionOfItsIdentity,
     NobodyHalfCreated
<1> QED BY <1>1, <1>2, <1>3, <1>4 DEF Inv

(* A callback that ended is a request.                                       *)
LEMMA IdleIsRequest == Idle \in Request
  BY DEF Idle, Request, Stage

(* A callback that moves on is a request.                                    *)
LEMMA GotoIsTyped ==
    ASSUME TypeOK, NEW r \in Requests, NEW pc \in Stage, Goto(r, pc)
    PROVE  req' \in [Requests -> Request]
  BY DEF TypeOK, Goto, Request

(* A callback that ends is a request.                                        *)
LEMMA EndIsTyped ==
    ASSUME TypeOK, NEW r \in Requests, End(r)
    PROVE  req' \in [Requests -> Request]
  BY IdleIsRequest DEF TypeOK, End

(* Every step keeps the types.                                               *)
LEMMA NextTypeOK == TypeOK /\ RequestsRemember /\ [Next]_vars => TypeOK'
<1> SUFFICES ASSUME TypeOK, RequestsRemember, [Next]_vars PROVE TypeOK'
  OBVIOUS
<1> USE NoneIsNoValue
<1>1. ASSUME Start PROVE TypeOK'
  <2>1. [consumed |-> FALSE, lapsed |-> FALSE] \in StateRow
    BY DEF StateRow
  <2> QED BY <1>1, <2>1, NewStateIsFree DEF Start, TypeOK
<1>2. ASSUME NEW s \in States, Lapse(s) PROVE TypeOK'
  <2>1. [state[s] EXCEPT !.lapsed = TRUE] \in StateRow
    BY <1>2 DEF Lapse, TypeOK, StateRow
  <2> QED BY <1>2, <2>1 DEF Lapse, TypeOK
<1>3. ASSUME NEW r \in Requests, NEW s \in States, Callback(r, s) PROVE TypeOK'
  <2>1. [state[s] EXCEPT !.consumed = TRUE] \in StateRow
    BY <1>3 DEF Callback, ConsumeState, Consumable, TypeOK, StateRow
  <2>2. [Idle EXCEPT !.pc = "exchange", !.state = s] \in Request
    BY DEF Idle, Request, Stage
  <2> QED BY <1>3, <2>1, <2>2 DEF Callback, ConsumeState, TypeOK
<1>4. ASSUME NEW r \in Requests, NEW i \in Identities, NEW e \in Emails, FetchUserInfo(r, i, e)
      PROVE  TypeOK'
  <2>1. [req[r] EXCEPT !.pc = "findIdentity", !.identity = i, !.email = e] \in Request
    BY ZenonT(40) DEF TypeOK, Request, Stage
  <2>2. req' = [req EXCEPT ![r] =
                  [req[r] EXCEPT !.pc = "findIdentity", !.identity = i, !.email = e]]
    BY <1>4 DEF FetchUserInfo
  <2> QED BY <1>4, <2>1, <2>2 DEF FetchUserInfo, TypeOK
<1>5. ASSUME NEW r \in Requests, FindIdentity(r) PROVE TypeOK'
  <2>1. req[r] \in Request /\ req[r].identity \in Identities
    BY <1>5 DEF FindIdentity, RequestsRemember, Remembers, TypeOK, Request
  <2>2. CASE identity[req[r].identity] = None
    BY <1>5, <2>2, GotoIsTyped DEF FindIdentity, TypeOK, Stage
  <2>3. CASE identity[req[r].identity] # None
    <3> DEFINE u == identity[req[r].identity].user
    <3>1. u \in Users
      BY <2>1, <2>3 DEF TypeOK, IdentityRow
    <3>2. [req[r] EXCEPT !.pc = "createSession", !.user = u] \in Request
      BY <2>1, <3>1 DEF Request, Stage
    <3>3. req' = [req EXCEPT ![r] = [req[r] EXCEPT !.pc = "createSession", !.user = u]]
      BY <1>5, <2>3 DEF FindIdentity
    <3> QED BY <1>5, <3>2, <3>3 DEF FindIdentity, TypeOK
  <2> QED BY <2>2, <2>3
<1>6. ASSUME NEW r \in Requests, FindUser(r) PROVE TypeOK'
  <2>1. CASE Goto(r, "create")
    BY <1>6, <2>1, GotoIsTyped DEF FindUser, TypeOK, Stage
  <2>2. ASSUME NEW u \in UsersOf(req[r].email),
               req' = [req EXCEPT ![r].pc = "link", ![r].user = u]
        PROVE  TypeOK'
    <3>1. [req[r] EXCEPT !.pc = "link", !.user = u] \in Request
      BY ZenonT(40) DEF TypeOK, Request, Stage, UsersOf
    <3>2. req' = [req EXCEPT ![r] = [req[r] EXCEPT !.pc = "link", !.user = u]]
      BY <2>2
    <3> QED BY <1>6, <3>1, <3>2 DEF FindUser, TypeOK
  <2> QED BY <1>6, <2>1, <2>2 DEF FindUser
<1>7. ASSUME NEW r \in Requests, LinkIdentity(r) PROVE TypeOK'
  <2>1. [user |-> req[r].user, email |-> req[r].email] \in IdentityRow
    BY <1>7 DEF LinkIdentity, RequestsRemember, Remembers, TypeOK, Request, IdentityRow
  <2>2. req' \in [Requests -> Request]
    BY <1>7, GotoIsTyped, EndIsTyped DEF LinkIdentity, Stage
  <2>3. CASE identity[req[r].identity] = None
    BY <1>7, <2>1, <2>2, <2>3 DEF LinkIdentity, TypeOK
  <2>4. CASE identity[req[r].identity] # None
    BY <1>7, <2>2, <2>4 DEF LinkIdentity, TypeOK
  <2> QED BY <2>3, <2>4
<1>8. ASSUME NEW r \in Requests, CreateUser(r) PROVE TypeOK'
  <2>1. CASE End(r) /\ UNCHANGED <<user, identity>>
    BY <1>8, <2>1, EndIsTyped DEF CreateUser, TypeOK
  <2>2. CASE UsersOf(req[r].email) = {} /\ identity[req[r].identity] = None
    <3>1. NewUser \in Users /\ req[r].email \in Emails
      BY <1>8, <2>2, NewUserIsFree DEF CreateUser, RequestsRemember, Remembers, TypeOK, Request
    <3>2. /\ [email |-> req[r].email, password |-> FALSE] \in UserRow
          /\ [user |-> NewUser, email |-> req[r].email] \in IdentityRow
      BY <3>1 DEF UserRow, IdentityRow
    <3>3. [req[r] EXCEPT !.pc = "createSession", !.user = NewUser] \in Request
      BY <3>1, ZenonT(40) DEF TypeOK, Request, Stage
    <3>4. req' = [req EXCEPT ![r] = [req[r] EXCEPT !.pc = "createSession", !.user = NewUser]]
      BY <1>8, <2>2 DEF CreateUser
    <3>5. req' \in [Requests -> Request]
      BY <3>3, <3>4 DEF TypeOK
    <3>6. /\ user' = [user EXCEPT ![NewUser] = [email |-> req[r].email, password |-> FALSE]]
          /\ identity' = [identity EXCEPT ![req[r].identity] =
                              [user |-> NewUser, email |-> req[r].email]]
          /\ UNCHANGED <<state, session>>
      BY <1>8, <2>2 DEF CreateUser
    <3> QED BY <3>2, <3>5, <3>6 DEF TypeOK
  <2> QED BY <1>8, <2>1, <2>2 DEF CreateUser
<1>9. ASSUME NEW r \in Requests, CreateSession(r) PROVE TypeOK'
  <2>1. [user |-> req[r].user, identity |-> req[r].identity, state |-> req[r].state]
           \in SessionRow
    BY <1>9 DEF CreateSession, RequestsRemember, Remembers, TypeOK, Request, SessionRow
  <2>2. req' \in [Requests -> Request]
    BY <1>9, GotoIsTyped DEF CreateSession, Stage
  <2> QED BY <1>9, <2>1, <2>2, NewSessionIsFree DEF CreateSession, TypeOK
<1>10. ASSUME NEW r \in Requests, Reply(r) \/ Interrupt(r) PROVE TypeOK'
  BY <1>10, EndIsTyped DEF Reply, Interrupt, TypeOK
<1>11. ASSUME NEW e \in Emails, Signup(e) PROVE TypeOK'
  <2>1. [email |-> e, password |-> TRUE] \in UserRow
    BY DEF UserRow
  <2> QED BY <1>11, <2>1, NewUserIsFree DEF Signup, TypeOK
<1>12. CASE Crash
  BY <1>12, IdleIsRequest DEF Crash, TypeOK
<1>13. CASE UNCHANGED vars
  BY <1>13 DEF vars, TypeOK
<1> QED BY <1>1, <1>2, <1>3, <1>4, <1>5, <1>6, <1>7, <1>8, <1>9, <1>10, <1>11, <1>12, <1>13
        DEF Next
(* Every step keeps what callbacks remember: no row of identities or states  *)
(* goes away, a consumed state stays consumed, and a user keeps its address. *)
LEMMA NextRemembers == TypeOK /\ RequestsRemember /\ [Next]_vars => RequestsRemember'
<1> SUFFICES ASSUME TypeOK, RequestsRemember, [Next]_vars, NEW p \in Requests
             PROVE  Remembers(p)'
  BY DEF RequestsRemember
<1> USE NoneIsNoValue
<1>0. Remembers(p) /\ req[p] \in Request
  BY DEF RequestsRemember, TypeOK
<1>1. CASE Start
  BY <1>0, <1>1, NewStateIsFree DEF Start, Remembers, TypeOK, Request
<1>2. ASSUME NEW s \in States, Lapse(s) PROVE Remembers(p)'
  <2>1. [state[s] EXCEPT !.lapsed = TRUE] \in StateRow
    BY <1>2 DEF Lapse, TypeOK, StateRow
  <2>2. [state[s] EXCEPT !.lapsed = TRUE].consumed = state[s].consumed
    BY <1>2 DEF Lapse, TypeOK, StateRow
  <2>3. state' = [state EXCEPT ![s] = [state[s] EXCEPT !.lapsed = TRUE]]
    BY <1>2 DEF Lapse
  <2> QED BY <1>0, <1>2, <2>1, <2>2, <2>3 DEF Lapse, Remembers, TypeOK, Request
<1>3. ASSUME NEW r \in Requests, NEW s \in States, Callback(r, s) PROVE Remembers(p)'
  <2>1. [state[s] EXCEPT !.consumed = TRUE] \in StateRow
    BY <1>3 DEF Callback, ConsumeState, Consumable, TypeOK, StateRow
  <2>2. [state[s] EXCEPT !.consumed = TRUE].consumed
    BY <1>3 DEF Callback, ConsumeState, Consumable, TypeOK, StateRow
  <2>3. state' = [state EXCEPT ![s] = [state[s] EXCEPT !.consumed = TRUE]]
    BY <1>3 DEF Callback, ConsumeState
  <2>4. CASE p = r
    <3>1. req'[p] = [Idle EXCEPT !.pc = "exchange", !.state = s]
      BY <1>3, <2>4 DEF Callback, TypeOK
    <3>2. req'[p].pc = "exchange" /\ req'[p].state = s
      BY <3>1 DEF Idle
    <3> QED BY <2>1, <2>2, <2>3, <3>2 DEF Remembers, TypeOK
  <2>5. CASE p # r
    <3>1. req'[p] = req[p]
      BY <1>3, <2>5 DEF Callback, TypeOK
    <3> QED BY <1>0, <1>3, <2>1, <2>2, <2>3, <3>1 DEF Callback, Remembers, TypeOK, Request
  <2> QED BY <2>4, <2>5
<1>4. ASSUME NEW r \in Requests, NEW i \in Identities, NEW e \in Emails, FetchUserInfo(r, i, e)
      PROVE  Remembers(p)'
  BY <1>0, <1>4 DEF FetchUserInfo, Remembers, TypeOK, Request
<1>5. ASSUME NEW r \in Requests, FindIdentity(r) PROVE Remembers(p)'
  <2>1. req[r] \in Request /\ req[r].identity \in Identities /\ Remembers(r)
    BY <1>5 DEF FindIdentity, RequestsRemember, Remembers, TypeOK, Request
  <2>2. CASE p # r
    BY <1>0, <1>5, <2>2 DEF FindIdentity, Goto, Remembers, TypeOK
  <2>3. CASE p = r /\ identity[req[r].identity] = None
    BY <1>5, <2>1, <2>3 DEF FindIdentity, Goto, Remembers, TypeOK, Request
  <2>4. CASE p = r /\ identity[req[r].identity] # None
    <3>1. identity[req[r].identity].user \in Users
      BY <2>1, <2>4 DEF TypeOK, IdentityRow
    <3> QED BY <1>5, <2>1, <2>4, <3>1 DEF FindIdentity, Remembers, TypeOK, Request
  <2> QED BY <2>2, <2>3, <2>4
<1>6. ASSUME NEW r \in Requests, FindUser(r) PROVE Remembers(p)'
  BY <1>0, <1>6 DEF FindUser, Goto, UsersOf, Remembers, TypeOK, Request
<1>7. ASSUME NEW r \in Requests, LinkIdentity(r) PROVE Remembers(p)'
  <2> DEFINE row == [user |-> req[r].user, email |-> req[r].email]
  <2>0. Remembers(r) /\ req[r] \in Request
    BY DEF RequestsRemember, TypeOK
  <2>1. row \in IdentityRow /\ req[r].identity \in Identities
    BY <1>7, <2>0 DEF LinkIdentity, Remembers, Request, IdentityRow
  <2>2. row # None
    BY <2>1
  <2>3. CASE identity[req[r].identity] # None
    BY <1>0, <1>7, <2>3 DEF LinkIdentity, End, Idle, Remembers, TypeOK
  <2>4. CASE identity[req[r].identity] = None
    <3>1. identity' = [identity EXCEPT ![req[r].identity] = row]
      BY <1>7, <2>4 DEF LinkIdentity
    <3>2. CASE p = r
      BY <1>7, <2>0, <2>1, <2>2, <2>4, <3>1, <3>2
         DEF LinkIdentity, Goto, Remembers, TypeOK, Request
    <3>3. CASE p # r
      <4>1. req'[p] = req[p]
        BY <1>7, <2>4, <3>3 DEF LinkIdentity, Goto, TypeOK
      <4> QED BY <1>0, <1>7, <2>1, <2>2, <2>4, <3>1, <4>1
              DEF LinkIdentity, Remembers, TypeOK, Request
    <3> QED BY <3>2, <3>3
  <2> QED BY <2>3, <2>4
<1>8. ASSUME NEW r \in Requests, CreateUser(r) PROVE Remembers(p)'
  <2>0. Remembers(r) /\ req[r] \in Request
    BY DEF RequestsRemember, TypeOK
  <2>1. CASE End(r) /\ UNCHANGED <<user, identity>>
    BY <1>0, <1>8, <2>1 DEF CreateUser, End, Idle, Remembers, TypeOK
  <2>2. CASE UsersOf(req[r].email) = {} /\ identity[req[r].identity] = None
    <3> DEFINE row == [user |-> NewUser, email |-> req[r].email]
    <3>1. /\ NewUser \in Users /\ user[NewUser] = None
          /\ req[r].email \in Emails /\ req[r].identity \in Identities
      BY <1>8, <2>0, <2>2, NewUserIsFree DEF CreateUser, Remembers, Request
    <3>2. row \in IdentityRow /\ [email |-> req[r].email, password |-> FALSE] \in UserRow
      BY <3>1 DEF UserRow, IdentityRow
    <3>3. row # None /\ row.user = NewUser
      BY <3>2
    <3>4. /\ identity' = [identity EXCEPT ![req[r].identity] = row]
          /\ user' = [user EXCEPT ![NewUser] = [email |-> req[r].email, password |-> FALSE]]
          /\ req' = [req EXCEPT ![r].pc = "createSession", ![r].user = NewUser]
          /\ state' = state
      BY <1>8, <2>2 DEF CreateUser
    <3>5. CASE p = r
      <4>1. /\ req'[p].pc = "createSession" /\ req'[p].user = NewUser
            /\ req'[p].state = req[p].state /\ req'[p].identity = req[p].identity
            /\ req'[p].email = req[p].email
        BY <3>4, <3>5, <1>0 DEF TypeOK, Request
      <4>2. req[p].pc = "create"
        BY <1>8, <3>5 DEF CreateUser
      <4>3. identity'[req'[p].identity] = row
        BY <3>1, <3>4, <3>5, <4>1 DEF TypeOK
      <4> QED BY <1>0, <3>1, <3>3, <3>4, <4>1, <4>2, <4>3 DEF Remembers
    <3>6. CASE p # r
      <4>1. req'[p] = req[p]
        BY <3>4, <3>6 DEF TypeOK
      <4> QED BY <1>0, <2>2, <3>1, <3>2, <3>3, <3>4, <4>1, ZenonT(40) DEF Remembers, TypeOK, Request
    <3> QED BY <3>5, <3>6
  <2> QED BY <1>8, <2>1, <2>2 DEF CreateUser
<1>9. ASSUME NEW r \in Requests, CreateSession(r) PROVE Remembers(p)'
  BY <1>0, <1>9 DEF CreateSession, Goto, Remembers, TypeOK, Request
<1>10. ASSUME NEW r \in Requests, Reply(r) \/ Interrupt(r) PROVE Remembers(p)'
  BY <1>0, <1>10 DEF Reply, Interrupt, End, Idle, Remembers, TypeOK
<1>11. ASSUME NEW e \in Emails, Signup(e) PROVE Remembers(p)'
  BY <1>0, <1>11, NewUserIsFree DEF Signup, Remembers, TypeOK, Request
<1>12. CASE Crash
  BY <1>12 DEF Crash, Idle, Remembers
<1>13. CASE UNCHANGED vars
  BY <1>0, <1>13 DEF vars, Remembers
<1> QED BY <1>1, <1>2, <1>3, <1>4, <1>5, <1>6, <1>7, <1>8, <1>9, <1>10, <1>11, <1>12, <1>13
        DEF Next
(* A state is taken by one request, and leaves one session: it is consumed   *)
(* before the request goes on, and a consumed state is taken by nobody.      *)
LEMMA NextStates ==
    TypeOK /\ RequestsRemember /\ StatesSpent /\ StateWorksOnce /\ [Next]_vars
      => StatesSpent' /\ StateWorksOnce'
<1> SUFFICES ASSUME TypeOK, RequestsRemember, StatesSpent, StateWorksOnce, [Next]_vars
             PROVE  StatesSpent' /\ StateWorksOnce'
  OBVIOUS
<1> USE NoneIsNoValue
\* The requests and their states are as before, but some requests ended.
<1>a. ASSUME UNCHANGED session,
             \A s \in States : state[s] # None /\ state[s].consumed
                                => state'[s] # None /\ state'[s].consumed,
             \A r \in Requests :
                \/ req'[r] = Idle
                \/ /\ req'[r].state = req[r].state
                   /\ req[r].pc = "reply" => req'[r].pc = "reply"
      PROVE  StatesSpent' /\ StateWorksOnce'
  <2>1. StatesSpent'
    BY <1>a DEF StatesSpent, TypeOK, SessionRow
  <2>2. \A x \in Sessions : session[x] # None => session[x].state # None
    BY DEF TypeOK, SessionRow
  <2> QED BY <1>a, <2>1, <2>2 DEF StateWorksOnce, Idle
<1>1. CASE Start
  BY <1>1, <1>a, NewStateIsFree DEF Start, TypeOK
<1>2. ASSUME NEW s \in States, Lapse(s) PROVE StatesSpent' /\ StateWorksOnce'
  <2>1. [state[s] EXCEPT !.lapsed = TRUE] \in StateRow
    BY <1>2 DEF Lapse, TypeOK, StateRow
  <2>2. [state[s] EXCEPT !.lapsed = TRUE].consumed = state[s].consumed
    BY <1>2 DEF Lapse, TypeOK, StateRow
  <2>3. state' = [state EXCEPT ![s] = [state[s] EXCEPT !.lapsed = TRUE]]
    BY <1>2 DEF Lapse
  <2> QED BY <1>2, <1>a, <2>1, <2>2, <2>3 DEF Lapse, TypeOK
<1>3. ASSUME NEW r \in Requests, NEW s \in States, Callback(r, s)
      PROVE  StatesSpent' /\ StateWorksOnce'
  <2>1. [state[s] EXCEPT !.consumed = TRUE] \in StateRow
    BY <1>3 DEF Callback, ConsumeState, Consumable, TypeOK, StateRow
  <2>2. [state[s] EXCEPT !.consumed = TRUE].consumed
    BY <1>3 DEF Callback, ConsumeState, Consumable, TypeOK, StateRow
  <2>3. state' = [state EXCEPT ![s] = [state[s] EXCEPT !.consumed = TRUE]] /\ session' = session
    BY <1>3 DEF Callback, ConsumeState
  <2>4. \A q \in Requests : req[q].state # s
    BY <1>3 DEF Callback, ConsumeState, Consumable, RequestsRemember, Remembers, Idle
  <2>5. \A x \in Sessions : session[x] # None => session[x].state # s
    BY <1>3 DEF Callback, ConsumeState, Consumable, StatesSpent
  <2>6. req'[r].state = s /\ \A q \in Requests : q # r => req'[q] = req[q]
    BY <1>3 DEF Callback, TypeOK, Idle
  <2>7. StatesSpent'
    BY <2>1, <2>2, <2>3 DEF StatesSpent, TypeOK, SessionRow
  <2> QED BY <2>3, <2>4, <2>5, <2>6, <2>7 DEF StateWorksOnce
<1>4. ASSUME NEW r \in Requests, NEW i \in Identities, NEW e \in Emails, FetchUserInfo(r, i, e)
      PROVE  StatesSpent' /\ StateWorksOnce'
  BY <1>4, <1>a DEF FetchUserInfo, TypeOK, Request
<1>5. ASSUME NEW r \in Requests, FindIdentity(r) PROVE StatesSpent' /\ StateWorksOnce'
  <2>1. \A q \in Requests : req'[q].state = req[q].state /\ (q # r => req'[q] = req[q])
    BY <1>5 DEF FindIdentity, Goto, TypeOK, Request
  <2> QED BY <1>5, <1>a, <2>1 DEF FindIdentity
<1>6. ASSUME NEW r \in Requests, FindUser(r) PROVE StatesSpent' /\ StateWorksOnce'
  BY <1>6, <1>a DEF FindUser, Goto, TypeOK, Request
<1>7. ASSUME NEW r \in Requests, LinkIdentity(r) PROVE StatesSpent' /\ StateWorksOnce'
  <2>1. CASE Goto(r, "createSession")
    BY <1>7, <1>a, <2>1 DEF LinkIdentity, Goto, TypeOK, Request
  <2>2. CASE End(r)
    BY <1>7, <1>a, <2>2 DEF LinkIdentity, End, Idle, TypeOK
  <2> QED BY <1>7, <2>1, <2>2 DEF LinkIdentity
<1>8. ASSUME NEW r \in Requests, CreateUser(r) PROVE StatesSpent' /\ StateWorksOnce'
  BY <1>8, <1>a DEF CreateUser, End, TypeOK, Request
<1>9. ASSUME NEW r \in Requests, CreateSession(r) PROVE StatesSpent' /\ StateWorksOnce'
  <2> DEFINE new == NewSession
             row == [user |-> req[r].user, identity |-> req[r].identity,
                     state |-> req[r].state]
  <2>1. /\ req[r].pc = "createSession" /\ req[r].state # None
        /\ state[req[r].state] # None /\ state[req[r].state].consumed
    BY <1>9 DEF CreateSession, RequestsRemember, Remembers
  <2>2. row \in SessionRow
    BY <1>9 DEF CreateSession, RequestsRemember, Remembers, TypeOK, Request, SessionRow
  <2>3. new \in Sessions /\ session[new] = None
    BY <1>9, NewSessionIsFree DEF CreateSession
  <2>4. /\ session' = [session EXCEPT ![new] = row] /\ state' = state
        /\ req' = [req EXCEPT ![r].pc = "reply"]
    BY <1>9 DEF CreateSession, Goto
  <2>5. row.state = req[r].state /\ row # None
    BY <2>2
  <2>6. \A x \in Sessions : session[x] # None => session[x].state # req[r].state
    BY <2>1 DEF StateWorksOnce
  <2>7. /\ session'[new] = row /\ \A x \in Sessions : x # new => session'[x] = session[x]
        /\ req'[r].pc = "reply" /\ \A q \in Requests : req'[q].state = req[q].state
        /\ \A q \in Requests : q # r => req'[q] = req[q]
    BY <2>3, <2>4 DEF TypeOK, Request
  <2>8. StatesSpent'
    BY <2>1, <2>4, <2>5, <2>7 DEF StatesSpent
  <2>9. \A q, p \in Requests : req'[q].state = req'[p].state => q = p \/ req'[q].state = None
    BY <2>7 DEF StateWorksOnce
  <2>10. \A p \in Requests, x \in Sessions :
           session'[x] # None /\ session'[x].state = req'[p].state => req'[p].pc = "reply"
    BY <2>1, <2>5, <2>7, <2>9 DEF StateWorksOnce
  <2>11. \A x, y \in Sessions :
           session'[x] # None /\ session'[y] # None /\ session'[x].state = session'[y].state
             => x = y
    BY <2>5, <2>6, <2>7 DEF StateWorksOnce
  <2> QED BY <2>8, <2>9, <2>10, <2>11 DEF StateWorksOnce
<1>10. ASSUME NEW r \in Requests, Reply(r) \/ Interrupt(r)
       PROVE  StatesSpent' /\ StateWorksOnce'
  BY <1>10, <1>a DEF Reply, Interrupt, End, Idle, TypeOK
<1>11. ASSUME NEW e \in Emails, Signup(e) PROVE StatesSpent' /\ StateWorksOnce'
  BY <1>11, <1>a DEF Signup
<1>12. CASE Crash
  BY <1>12, <1>a DEF Crash
<1>13. CASE UNCHANGED vars
  BY <1>13, <1>a DEF vars
<1> QED BY <1>1, <1>2, <1>3, <1>4, <1>5, <1>6, <1>7, <1>8, <1>9, <1>10, <1>11, <1>12, <1>13
        DEF Next

(* The tables stay in agreement: an insert that would disturb one of the     *)
(* conjuncts meets a UNIQUE constraint and changes nothing.                  *)
LEMMA NextAgree ==
    TypeOK /\ RequestsRemember /\ AccountsAgree /\ [Next]_vars => AccountsAgree'
<1> SUFFICES ASSUME TypeOK, RequestsRemember, AccountsAgree, [Next]_vars PROVE AccountsAgree'
  OBVIOUS
<1> USE NoneIsNoValue
<1>0. OneUserPerAddress /\ IdentityOfItsAddress /\ SessionOfItsIdentity /\ NobodyHalfCreated
  BY DEF AccountsAgree
<1>1. ASSUME UNCHANGED <<user, identity, session>> PROVE AccountsAgree'
  BY <1>0, <1>1 DEF AccountsAgree, OneUserPerAddress, IdentityOfItsAddress,
     SessionOfItsIdentity, NobodyHalfCreated
<1>2. ASSUME NEW r \in Requests, LinkIdentity(r) PROVE AccountsAgree'
  <2> DEFINE i == req[r].identity
             row == [user |-> req[r].user, email |-> req[r].email]
  <2>1. CASE identity[i] # None
    BY <1>1, <1>2, <2>1 DEF LinkIdentity
  <2>2. CASE identity[i] = None
    <3>1. /\ i \in Identities /\ row \in IdentityRow /\ req[r].user \in Users
          /\ user[req[r].user] # None /\ user[req[r].user].email = req[r].email
      BY <1>2 DEF LinkIdentity, RequestsRemember, Remembers, TypeOK, Request, IdentityRow
    <3>2. /\ identity' = [identity EXCEPT ![i] = row] /\ user' = user /\ session' = session
      BY <1>2, <2>2 DEF LinkIdentity
    <3>3. row # None /\ row.user = req[r].user /\ row.email = req[r].email
      BY <3>1
    <3>4. identity'[i] = row /\ \A j \in Identities : j # i => identity'[j] = identity[j]
      BY <3>1, <3>2 DEF TypeOK
    <3>5. OneUserPerAddress'
      BY <1>0, <3>2 DEF OneUserPerAddress
    <3>6. IdentityOfItsAddress'
      BY <1>0, <3>1, <3>2, <3>3, <3>4 DEF IdentityOfItsAddress
    <3>7. SessionOfItsIdentity'
      <4> SUFFICES ASSUME NEW x \in Sessions, session[x] # None
                   PROVE  /\ identity'[session[x].identity] # None
                          /\ identity'[session[x].identity].user = session[x].user
        BY <3>2 DEF SessionOfItsIdentity
      <4>1. session[x].identity \in Identities
        BY DEF TypeOK, SessionRow
      <4>2. /\ identity[session[x].identity] # None
            /\ identity[session[x].identity].user = session[x].user
        BY <1>0 DEF SessionOfItsIdentity
      <4> QED BY <2>2, <3>4, <4>1, <4>2
    <3>8. NobodyHalfCreated'
      BY <1>0, <2>2, <3>2, <3>4 DEF NobodyHalfCreated
    <3> QED BY <3>5, <3>6, <3>7, <3>8 DEF AccountsAgree
  <2> QED BY <2>1, <2>2
<1>3. ASSUME NEW r \in Requests, CreateUser(r) PROVE AccountsAgree'
  <2> DEFINE i == req[r].identity
             urow == [email |-> req[r].email, password |-> FALSE]
             irow == [user |-> NewUser, email |-> req[r].email]
  <2>1. CASE UNCHANGED <<user, identity>>
    BY <1>1, <1>3, <2>1 DEF CreateUser
  <2>2. CASE UsersOf(req[r].email) = {} /\ identity[i] = None
    <3>1. /\ i \in Identities /\ req[r].email \in Emails
          /\ NewUser \in Users /\ user[NewUser] = None
      BY <1>3, <2>2, NewUserIsFree
         DEF CreateUser, RequestsRemember, Remembers, TypeOK, Request
    <3>2. urow \in UserRow /\ irow \in IdentityRow
      BY <3>1 DEF UserRow, IdentityRow
    <3>3. /\ user' = [user EXCEPT ![NewUser] = urow]
          /\ identity' = [identity EXCEPT ![i] = irow] /\ session' = session
      BY <1>3, <2>2 DEF CreateUser
    <3>4. /\ urow # None /\ irow # None
          /\ irow.user = NewUser /\ irow.email = req[r].email /\ urow.email = req[r].email
      BY <3>2
    <3>5. /\ user'[NewUser] = urow /\ \A u \in Users : u # NewUser => user'[u] = user[u]
          /\ identity'[i] = irow /\ \A j \in Identities : j # i => identity'[j] = identity[j]
      BY <3>1, <3>3 DEF TypeOK
    <3>6. \A u \in Users : user[u] # None => user[u].email # req[r].email
      BY <2>2 DEF UsersOf
    <3>7. OneUserPerAddress'
      BY <1>0, <3>4, <3>5, <3>6 DEF OneUserPerAddress
    <3>8. IdentityOfItsAddress'
      <4> SUFFICES ASSUME NEW j \in Identities, identity'[j] # None
                   PROVE  /\ user'[identity'[j].user] # None
                          /\ user'[identity'[j].user].email = identity'[j].email
        BY DEF IdentityOfItsAddress
      <4>1. CASE j = i
        BY <3>1, <3>4, <3>5, <4>1
      <4>2. CASE j # i
        <5>1. identity'[j] = identity[j] /\ identity[j].user \in Users
          BY <3>5, <4>2 DEF TypeOK, IdentityRow
        <5>2. user[identity[j].user] # None /\ user[identity[j].user].email = identity[j].email
          BY <1>0, <5>1 DEF IdentityOfItsAddress
        <5> QED BY <3>1, <3>5, <5>1, <5>2
      <4> QED BY <4>1, <4>2
    <3>9. SessionOfItsIdentity'
      <4> SUFFICES ASSUME NEW x \in Sessions, session[x] # None
                   PROVE  /\ identity'[session[x].identity] # None
                          /\ identity'[session[x].identity].user = session[x].user
        BY <3>3 DEF SessionOfItsIdentity
      <4>1. session[x].identity \in Identities
        BY DEF TypeOK, SessionRow
      <4>2. /\ identity[session[x].identity] # None
            /\ identity[session[x].identity].user = session[x].user
        BY <1>0 DEF SessionOfItsIdentity
      <4> QED BY <2>2, <3>5, <4>1, <4>2
    <3>10. NobodyHalfCreated'
      BY <1>0, <2>2, <3>1, <3>4, <3>5 DEF NobodyHalfCreated
    <3> QED BY <3>7, <3>8, <3>9, <3>10 DEF AccountsAgree
  <2> QED BY <1>3, <2>1, <2>2 DEF CreateUser
<1>4. ASSUME NEW r \in Requests, CreateSession(r) PROVE AccountsAgree'
  <2> DEFINE row == [user |-> req[r].user, identity |-> req[r].identity,
                     state |-> req[r].state]
  <2>1. /\ identity[req[r].identity] # None
        /\ identity[req[r].identity].user = req[r].user
    BY <1>4 DEF CreateSession, RequestsRemember, Remembers
  <2>2. NewSession \in Sessions /\ row \in SessionRow
    BY <1>4, NewSessionIsFree
       DEF CreateSession, RequestsRemember, Remembers, TypeOK, Request, SessionRow
  <2>3. /\ session' = [session EXCEPT ![NewSession] = row]
        /\ user' = user /\ identity' = identity
    BY <1>4 DEF CreateSession
  <2>4. SessionOfItsIdentity'
    BY <1>0, <2>1, <2>2, <2>3 DEF SessionOfItsIdentity, TypeOK
  <2> QED BY <1>0, <2>3, <2>4 DEF AccountsAgree, OneUserPerAddress, IdentityOfItsAddress,
          NobodyHalfCreated
<1>5. ASSUME NEW e \in Emails, Signup(e) PROVE AccountsAgree'
  <2> DEFINE row == [email |-> e, password |-> TRUE]
  <2>1. NewUser \in Users /\ user[NewUser] = None /\ row \in UserRow
    BY <1>5, NewUserIsFree DEF Signup, UserRow
  <2>2. /\ user' = [user EXCEPT ![NewUser] = row] /\ identity' = identity
        /\ session' = session
    BY <1>5 DEF Signup
  <2>3. /\ row # None /\ row.email = e /\ row.password
        /\ user'[NewUser] = row /\ \A u \in Users : u # NewUser => user'[u] = user[u]
    BY <2>1, <2>2 DEF TypeOK
  <2>4. OneUserPerAddress'
    BY <1>0, <1>5, <2>3 DEF OneUserPerAddress, Signup, UsersOf
  <2>5. IdentityOfItsAddress'
    BY <1>0, <2>1, <2>2, <2>3 DEF IdentityOfItsAddress, TypeOK, IdentityRow
  <2>6. SessionOfItsIdentity'
    BY <1>0, <2>2 DEF SessionOfItsIdentity
  <2>7. NobodyHalfCreated'
    BY <1>0, <2>2, <2>3 DEF NobodyHalfCreated
  <2> QED BY <2>4, <2>5, <2>6, <2>7 DEF AccountsAgree
<1> QED BY <1>1, <1>2, <1>3, <1>4, <1>5
        DEF Next, vars, Start, Lapse, Callback, FetchUserInfo, FindIdentity, FindUser, Reply,
            Interrupt, Crash

(* The invariant of every reachable state.                                   *)
LEMMA Invariance == Spec => []Inv
<1>1. Inv /\ [Next]_vars => Inv'
  BY NextTypeOK, NextRemembers, NextStates, NextAgree DEF Inv
<1> QED BY InitEstablishes, <1>1, PTL DEF Spec

(* Type correctness of the login through a provider.                         *)
THEOREM TypeCorrect == Spec => []TypeOK
<1>1. Inv => TypeOK
  BY DEF Inv
<1> QED BY Invariance, <1>1, PTL

(* ConsumeOAuthState: a redirect logs in once, for any number of concurrent  *)
(* reloads of its callback.                                                  *)
THEOREM RedirectWorksOnce == Spec => []StateWorksOnce
<1>1. Inv => StateWorksOnce
  BY DEF Inv
<1> QED BY Invariance, <1>1, PTL

(* upsertIdentity: users, identities and sessions agree, for any number of   *)
(* callbacks and signups that race for an address or an identity.            *)
THEOREM AccountsStayInAgreement == Spec => []AccountsAgree
<1>1. Inv => AccountsAgree
  BY DEF Inv
<1> QED BY Invariance, <1>1, PTL

----------------------------------------------------------------------------
(***************************************************************************)
(* The promise of ProviderLogin.  The stages of a callback are not seen;   *)
(* what is seen is the consumption of the state and the three inserts.     *)
(* Each of them has the guard of its abstract action because a UNIQUE      *)
(* constraint or the consumed state says so, and the values it inserts are *)
(* the right ones because the callback remembers them.                     *)
(***************************************************************************)

(* A function that differs from another at one place.                        *)
LEMMA DifferAtOnePlace ==
    ASSUME NEW S, NEW f, NEW g, NEW x \in S, f = [y \in S |-> f[y]], g = [y \in S |-> g[y]],
           \A y \in S : y # x => g[y] = f[y]
    PROVE  g = [f EXCEPT ![x] = g[x]]
  OBVIOUS

(* The mapped state is a function of the tables.                             *)
LEMMA PromiseReads ==
    /\ UNCHANGED state => Redirects' = Redirects
    /\ UNCHANGED user => Addresses' = Addresses
    /\ UNCHANGED identity => Bindings' = Bindings
  BY DEF Redirects, Addresses, Bindings

(* The tables are empty at the start.                                        *)
LEMMA InitPromise == Init => Promise!Init
  BY DEF Init, Promise!Init, Redirects, Addresses, Bindings

(* CreateOAuthState opens a redirect.                                        *)
LEMMA StartRedirects ==
    ASSUME TypeOK, Start PROVE \E s \in States : Promise!Redirect(s)
<1> DEFINE row == [consumed |-> FALSE, lapsed |-> FALSE]
<1>1. PICK s \in States : s = NewState /\ state[s] = None
  BY NewStateIsFree DEF Start
<1>2. row \in StateRow /\ row # None
  <2>1. row \in StateRow
    BY DEF StateRow
  <2> QED BY <2>1, NoneIsNoValue
<1>3. state'[s] = row /\ \A t \in States : t # s => state'[t] = state[t]
  BY <1>1 DEF Start, TypeOK
<1>4. Redirects[s] = "absent" /\ Redirects' = [Redirects EXCEPT ![s] = "open"]
  <2>1. Redirects[s] = "absent" /\ Redirects'[s] = "open"
    BY <1>1, <1>2, <1>3 DEF Redirects
  <2>2. \A t \in States : t # s => Redirects'[t] = Redirects[t]
    BY <1>3 DEF Redirects
  <2>3. Redirects = [t \in States |-> Redirects[t]] /\ Redirects' = [t \in States |-> Redirects'[t]]
    BY DEF Redirects
  <2>4. Redirects' = [Redirects EXCEPT ![s] = Redirects'[s]]
    BY <2>2, <2>3, DifferAtOnePlace
  <2> QED BY <2>1, <2>4
<1>5. Addresses' = Addresses /\ Bindings' = Bindings /\ session' = session
  BY PromiseReads DEF Start
<1> QED BY <1>4, <1>5 DEF Promise!Redirect

(* A state that reaches expires_at closes its redirect, unless it was used.  *)
LEMMA LapseCloses ==
    ASSUME TypeOK, NEW s \in States, Lapse(s)
    PROVE  Promise!Close(s) \/ UNCHANGED Promise!vars
<1>1. state[s] \in StateRow /\ ~state[s].lapsed /\ state[s] # None
  BY DEF Lapse, TypeOK
<1> DEFINE row == [state[s] EXCEPT !.lapsed = TRUE]
<1>2. row \in StateRow /\ row.consumed = state[s].consumed /\ row.lapsed
  BY <1>1 DEF StateRow
<1>3. row # None
  BY <1>2, NoneIsNoValue
<1>4. state'[s] = row /\ \A t \in States : t # s => state'[t] = state[t]
  BY DEF Lapse, TypeOK
<1> HIDE DEF row
<1>5. Addresses' = Addresses /\ Bindings' = Bindings /\ session' = session
  BY PromiseReads DEF Lapse
<1>6. CASE state[s].consumed
  <2>1. Redirects' = Redirects
    BY <1>1, <1>2, <1>3, <1>4, <1>6 DEF Redirects
  <2> QED BY <1>5, <2>1 DEF Promise!vars
<1>7. CASE ~state[s].consumed
  <2>1. Redirects[s] = "open" /\ Redirects' = [Redirects EXCEPT ![s] = "void"]
    BY <1>1, <1>2, <1>3, <1>4, <1>7 DEF Redirects
  <2> QED BY <1>5, <2>1 DEF Promise!Close
<1> QED BY <1>6, <1>7

(* A callback uses an open redirect.                                         *)
LEMMA CallbackUses ==
    ASSUME TypeOK, NEW r \in Requests, NEW s \in States, Callback(r, s)
    PROVE  Promise!Close(s)
<1>1. state[s] \in StateRow /\ ~state[s].consumed /\ ~state[s].lapsed /\ state[s] # None
  BY DEF Callback, ConsumeState, Consumable, TypeOK
<1> DEFINE row == [state[s] EXCEPT !.consumed = TRUE]
<1>2. row \in StateRow /\ row.consumed
  BY <1>1 DEF StateRow
<1>3. row # None
  BY <1>2, NoneIsNoValue
<1>4. state'[s] = row /\ \A t \in States : t # s => state'[t] = state[t]
  BY DEF Callback, ConsumeState, TypeOK
<1> HIDE DEF row
<1>5. Redirects[s] = "open" /\ Redirects' = [Redirects EXCEPT ![s] = "used"]
  BY <1>1, <1>2, <1>3, <1>4 DEF Redirects
<1>6. Addresses' = Addresses /\ Bindings' = Bindings /\ session' = session
  BY PromiseReads DEF Callback
<1> QED BY <1>5, <1>6 DEF Promise!Close

(* A row of users whose address nobody has takes the address.                *)
LEMMA NewUserTakes ==
    ASSUME TypeOK, NEW e \in Emails, UsersOf(e) = {}, FreeUsers # {}, NEW row \in UserRow,
           row.email = e, user' = [user EXCEPT ![NewUser] = row]
    PROVE  NewUser \in Users /\ Promise!Take(NewUser, e)
<1>1. NewUser \in Users /\ user[NewUser] = None
  BY NewUserIsFree
<1>2. row # None /\ e # None
  BY NoneIsNoValue
<1>3. user'[NewUser] = row /\ \A u \in Users : u # NewUser => user'[u] = user[u]
  BY <1>1 DEF TypeOK
<1>4. Addresses[NewUser] = None /\ Addresses' = [Addresses EXCEPT ![NewUser] = e]
  <2>1. Addresses[NewUser] = None /\ Addresses'[NewUser] = e
    BY <1>1, <1>2, <1>3 DEF Addresses
  <2>2. \A u \in Users : u # NewUser => Addresses'[u] = Addresses[u]
    BY <1>3 DEF Addresses
  <2>3. Addresses = [u \in Users |-> Addresses[u]] /\ Addresses' = [u \in Users |-> Addresses'[u]]
    BY DEF Addresses
  <2>4. Addresses' = [Addresses EXCEPT ![NewUser] = Addresses'[NewUser]]
    BY <1>1, <2>2, <2>3, DifferAtOnePlace
  <2> QED BY <2>1, <2>4
<1>5. \A v \in Users : Addresses[v] # e
  BY <1>2 DEF Addresses, UsersOf
<1> QED BY <1>1, <1>4, <1>5 DEF Promise!Take

(* A row of oauth_identities where there was none binds the identity.        *)
LEMMA NewRowBinds ==
    ASSUME TypeOK, NEW i \in Identities, identity[i] = None, NEW row \in IdentityRow,
           identity' = [identity EXCEPT ![i] = row]
    PROVE  Promise!Bind(i, row.user)
<1>1. row # None
  BY NoneIsNoValue
<1>2. identity'[i] = row /\ \A j \in Identities : j # i => identity'[j] = identity[j]
  BY DEF TypeOK
<1>3. Bindings[i] = None /\ Bindings' = [Bindings EXCEPT ![i] = row.user]
  <2>1. Bindings[i] = None /\ Bindings'[i] = row.user
    BY <1>1, <1>2 DEF Bindings
  <2>2. \A j \in Identities : j # i => Bindings'[j] = Bindings[j]
    BY <1>2 DEF Bindings
  <2>3. Bindings = [j \in Identities |-> Bindings[j]] /\ Bindings' = [j \in Identities |-> Bindings'[j]]
    BY DEF Bindings
  <2>4. Bindings' = [Bindings EXCEPT ![i] = Bindings'[i]]
    BY <2>2, <2>3, DifferAtOnePlace
  <2> QED BY <2>1, <2>4
<1> QED BY <1>3 DEF Promise!Bind

(* An identity joins a user that has an address.                             *)
LEMMA LinkJoins ==
    ASSUME TypeOK, RequestsRemember, NEW r \in Requests, LinkIdentity(r)
    PROVE  \/ \E i \in Identities, u \in Users : Promise!Join(i, u)
           \/ UNCHANGED Promise!vars
<1> DEFINE row == [user |-> req[r].user, email |-> req[r].email]
<1>1. Redirects' = Redirects /\ Addresses' = Addresses /\ session' = session
  BY PromiseReads DEF LinkIdentity
<1>2. /\ req[r].identity \in Identities /\ row \in IdentityRow /\ req[r].user \in Users
      /\ user[req[r].user] # None
  BY DEF LinkIdentity, RequestsRemember, Remembers, TypeOK, Request, IdentityRow
<1>3. CASE identity[req[r].identity] # None
  BY <1>1, <1>3, PromiseReads DEF LinkIdentity, Promise!vars
<1>4. CASE identity[req[r].identity] = None
  <2>1. identity' = [identity EXCEPT ![req[r].identity] = row] /\ row.user = req[r].user
    BY <1>4 DEF LinkIdentity
  <2>2. Promise!Bind(req[r].identity, req[r].user)
    <3> HIDE DEF row
    <3> QED BY <1>2, <1>4, <2>1, NewRowBinds
  <2>3. user[req[r].user] \in UserRow
    BY <1>2 DEF TypeOK
  <2>4. Addresses[req[r].user] # None
    BY <1>2, <2>3, NoneIsNoValue DEF Addresses, UserRow
  <2>5. Promise!Join(req[r].identity, req[r].user)
    BY <1>1, <2>2, <2>4 DEF Promise!Join
  <2> QED BY <1>2, <2>5
<1> QED BY <1>3, <1>4

(* A user made by a callback is bound to its identity at once.               *)
LEMMA CreateEnrols ==
    ASSUME TypeOK, RequestsRemember, NEW r \in Requests, CreateUser(r)
    PROVE  \/ \E i \in Identities, u \in Users, e \in Emails : Promise!Enrol(i, u, e)
           \/ UNCHANGED Promise!vars
<1> DEFINE urow == [email |-> req[r].email, password |-> FALSE]
           irow == [user |-> NewUser, email |-> req[r].email]
<1>1. Redirects' = Redirects /\ session' = session
  BY PromiseReads DEF CreateUser
<1>2. CASE UNCHANGED <<user, identity>>
  BY <1>1, <1>2, PromiseReads DEF Promise!vars
<1>3. CASE UsersOf(req[r].email) = {} /\ identity[req[r].identity] = None
  <2>1. /\ FreeUsers # {} /\ user' = [user EXCEPT ![NewUser] = urow]
        /\ identity' = [identity EXCEPT ![req[r].identity] = irow]
    BY <1>3 DEF CreateUser
  <2>2. req[r].identity \in Identities /\ req[r].email \in Emails /\ NewUser \in Users
    BY <2>1, NewUserIsFree DEF CreateUser, RequestsRemember, Remembers, TypeOK, Request
  <2>3. urow \in UserRow /\ urow.email = req[r].email /\ irow \in IdentityRow /\ irow.user = NewUser
    BY <2>2 DEF UserRow, IdentityRow
  <2> HIDE DEF urow, irow
  <2>4. Promise!Take(NewUser, req[r].email)
    BY <1>3, <2>1, <2>2, <2>3, NewUserTakes
  <2>5. Promise!Bind(req[r].identity, NewUser)
    BY <1>3, <2>1, <2>2, <2>3, NewRowBinds
  <2>6. Promise!Enrol(req[r].identity, NewUser, req[r].email)
    BY <1>1, <2>4, <2>5 DEF Promise!Enrol
  <2> QED BY <2>2, <2>6
<1> QED BY <1>2, <1>3 DEF CreateUser

(* A session is a login through the used redirect of the callback.           *)
LEMMA SessionLogsIn ==
    ASSUME TypeOK, RequestsRemember, StateWorksOnce, NEW r \in Requests, CreateSession(r)
    PROVE  \E x \in Sessions, s \in States, i \in Identities : Promise!LogIn(x, s, i)
<1>1. PICK x \in Sessions : x = NewSession /\ session[x] = None
  BY NewSessionIsFree DEF CreateSession
<1>2. /\ req[r].pc = "createSession"
      /\ req[r].state \in States /\ req[r].identity \in Identities
      /\ state[req[r].state] # None /\ state[req[r].state].consumed
      /\ req[r].user \in Users /\ identity[req[r].identity] # None
      /\ identity[req[r].identity].user = req[r].user
  BY DEF CreateSession, RequestsRemember, Remembers, TypeOK, Request
<1>3. Redirects[req[r].state] = "used"
  BY <1>2 DEF Redirects
<1>4. Bindings[req[r].identity] = req[r].user /\ req[r].user # None
  BY <1>2, NoneIsNoValue DEF Bindings
<1>5. \A y \in Sessions : session[y] # None => session[y].state # req[r].state
  BY <1>2 DEF StateWorksOnce
<1>6. session' = [session EXCEPT ![x] =
          [user |-> Bindings[req[r].identity], identity |-> req[r].identity,
           state |-> req[r].state]]
  BY <1>1, <1>4 DEF CreateSession
<1>7. Redirects' = Redirects /\ Addresses' = Addresses /\ Bindings' = Bindings
  BY PromiseReads DEF CreateSession
<1>8. Promise!LogIn(x, req[r].state, req[r].identity)
  BY <1>1, <1>3, <1>4, <1>5, <1>6, <1>7 DEF Promise!LogIn
<1> QED BY <1>2, <1>8

(* A signup takes a free address.                                            *)
LEMMA SignupSignsUp ==
    ASSUME TypeOK, NEW e \in Emails, Signup(e)
    PROVE  \E u \in Users : Promise!SignUp(u, e)
<1> DEFINE row == [email |-> e, password |-> TRUE]
<1>1. row \in UserRow /\ row.email = e
  BY DEF UserRow
<1>2. UsersOf(e) = {} /\ FreeUsers # {} /\ user' = [user EXCEPT ![NewUser] = row]
  BY DEF Signup
<1> HIDE DEF row
<1>3. NewUser \in Users /\ Promise!Take(NewUser, e)
  BY <1>1, <1>2, NewUserTakes
<1>4. Redirects' = Redirects /\ Bindings' = Bindings /\ session' = session
  BY PromiseReads DEF Signup
<1> QED BY <1>3, <1>4 DEF Promise!SignUp

(* Every step keeps the promise.                                             *)
LEMMA StepKeepsPromise == Inv /\ [Next]_vars => [Promise!Next]_(Promise!vars)
<1> SUFFICES ASSUME Inv, [Next]_vars PROVE Promise!Next \/ UNCHANGED Promise!vars
  OBVIOUS
<1> USE DEF Inv
<1>1. CASE Start
  BY <1>1, StartRedirects DEF Promise!Next
<1>2. ASSUME NEW s \in States, Lapse(s) PROVE Promise!Next \/ UNCHANGED Promise!vars
  BY <1>2, LapseCloses DEF Promise!Next
<1>3. ASSUME NEW r \in Requests, NEW s \in States, Callback(r, s) PROVE Promise!Next
  BY <1>3, CallbackUses DEF Promise!Next
<1>4. ASSUME NEW r \in Requests, LinkIdentity(r)
      PROVE  Promise!Next \/ UNCHANGED Promise!vars
  BY <1>4, LinkJoins DEF Promise!Next
<1>5. ASSUME NEW r \in Requests, CreateUser(r)
      PROVE  Promise!Next \/ UNCHANGED Promise!vars
  BY <1>5, CreateEnrols DEF Promise!Next
<1>6. ASSUME NEW r \in Requests, CreateSession(r) PROVE Promise!Next
  BY <1>6, SessionLogsIn DEF Promise!Next
<1>7. ASSUME NEW e \in Emails, Signup(e) PROVE Promise!Next
  BY <1>7, SignupSignsUp DEF Promise!Next
<1>8. ASSUME UNCHANGED <<user, identity, state, session>> PROVE UNCHANGED Promise!vars
  BY <1>8, PromiseReads DEF Promise!vars
<1>9. ASSUME NEW r \in Requests,
             \/ \E i \in Identities, e \in Emails : FetchUserInfo(r, i, e)
             \/ FindIdentity(r) \/ FindUser(r) \/ Reply(r) \/ Interrupt(r)
      PROVE  UNCHANGED Promise!vars
  BY <1>8, <1>9 DEF FetchUserInfo, FindIdentity, FindUser, Reply, Interrupt
<1>10. CASE Crash \/ UNCHANGED vars
  BY <1>8, <1>10 DEF Crash, vars
<1> QED BY <1>1, <1>2, <1>3, <1>4, <1>5, <1>6, <1>7, <1>9, <1>10 DEF Next

(* Logins through a provider are as promised: with any number of users,      *)
(* identities, redirects and callbacks, and whatever fails, every behaviour  *)
(* is one of ProviderLogin (ConsumeOAuthState, upsertIdentity, FinishLogin,  *)
(* Signup).                                                                  *)
THEOREM LoginKeepsPromise == Spec => LogsInAsPromised
  BY InitPromise, Invariance, StepKeepsPromise, PTL DEF Spec, LogsInAsPromised, Promise!Spec
=============================================================================
