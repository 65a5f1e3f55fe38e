------------------------- MODULE Credentials_proof -------------------------
(***************************************************************************)
(* For any number of users, tokens, sessions and concurrent requests,      *)
(* providers' logins among them, and with any faults: a token works once,  *)
(* for its purpose and its user; an account that a signup made is verified *)
(* only by mail; a password gets a session only for a verified user; and   *)
(* every account that is stranded and every session that is lost is paid   *)
(* for by a fault of its own.                                              *)
(***************************************************************************)
EXTENDS Credentials, FiniteSetTheorems, TLAPS

TokenStage == {"createToken", "send", "markVerified", "updateHash"}
SessionStage == {"reply", "revoke"}
LoginStage == {"createSession", "providerSession"}

\* What a request remembers agrees with the tables.
Remembers(r) ==
    /\ req[r].pc = "idle" => req[r] = Idle
    /\ req[r].pc # "idle" => req[r].user # None /\ user[req[r].user] # None
    /\ req[r].token # None <=> req[r].pc \in TokenStage
    /\ req[r].session # None <=> req[r].pc \in SessionStage
    /\ req[r].pc = "createToken" => token[req[r].token] = None
    /\ req[r].pc = "send" => /\ req[r].token \notin mailed
                             /\ token[req[r].token] # None
                             /\ token[req[r].token].user = req[r].user
    /\ req[r].pc = "updateHash" => req[r].password # None
    /\ req[r].pc = "createSession" => user[req[r].user].verified
    /\ req[r].pc \in SessionStage => session[req[r].session] # None
    /\ req[r].pc = "reply" => session[req[r].session].user = req[r].user
    /\ req[r].pc = "revoke" => req[r].session \in held

RequestsRemember == \A r \in Requests : Remembers(r)

\* A token is consumed only after its mail, and is of a user that exists.
TokenRowsMeaningful ==
    /\ \A t \in mailed : token[t] # None
    /\ \A t \in Tokens : token[t] # None =>
          /\ user[token[t].user] # None
          /\ token[t].consumed => t \in mailed

SessionsOwned ==
    /\ \A s \in Sessions : session[s] # None =>
          /\ user[session[s].user] # None
          /\ session[s].via = "password" => user[session[s].user].verified
    /\ \A s \in held : session[s] # None

\* The part of the inductive invariant that counts nothing.
Inv ==
    TypeOK /\ RequestsRemember /\ TokenRowsMeaningful /\ TokensWorkOnce /\ VerifiedByMail
           /\ SessionsOwned

\* What counts: the stranded accounts and the lost sessions.
Paid ==
    /\ IsFiniteSet(Stranded) /\ Cardinality(Stranded) <= trouble
    /\ IsFiniteSet(Unclaimed) /\ Cardinality(Unclaimed) <= trouble

(* A drawn token id is in no row and in no request.                           *)
LEMMA NewTokenIsFree ==
    ASSUME FreeTokens # {}
    PROVE  /\ NewToken \in Tokens /\ token[NewToken] = None
           /\ \A r \in Requests : req[r].token # NewToken
  <1>1. NewToken \in FreeTokens
    BY DEF NewToken
  <1> QED BY <1>1 DEF FreeTokens

(* A drawn session id is in no row.                                           *)
LEMMA NewSessionIsFree ==
    ASSUME FreeSessions # {}
    PROVE  NewSession \in Sessions /\ session[NewSession] = None
  <1>1. NewSession \in FreeSessions
    BY DEF NewSession
  <1> QED BY <1>1 DEF FreeSessions

(* No request runs and no row exists at the start (schema).                   *)
LEMMA InitEstablishes == Init => Inv
<1> SUFFICES ASSUME Init PROVE Inv
  OBVIOUS
<1> USE NoneIsNoValue DEF Init
<1>1. TypeOK
  BY DEF TypeOK, Idle, Request, Stage
<1>2. RequestsRemember
  BY DEF RequestsRemember, Remembers, Idle, TokenStage, SessionStage
<1>3. TokenRowsMeaningful /\ SessionsOwned
  BY DEF TokenRowsMeaningful, SessionsOwned
<1>4. TokensWorkOnce /\ VerifiedByMail
  BY DEF TokensWorkOnce, VerifiedByMail, Idle
<1> QED BY <1>1, <1>2, <1>3, <1>4 DEF Inv

(* What a running request refers to are rows and ids.                         *)
LEMMA RequestRefers ==
    ASSUME TypeOK, RequestsRemember, NEW r \in Requests, req[r].pc # "idle"
    PROVE  /\ req[r] \in Request
           /\ req[r].user \in Emails /\ user[req[r].user] \in UserRow
           /\ req[r].pc \in TokenStage => req[r].token \in Tokens
           /\ req[r].pc \in SessionStage =>
                 req[r].session \in Sessions /\ session[req[r].session] \in SessionRow
           /\ req[r].pc = "updateHash" => req[r].password \in Passwords
  BY DEF TypeOK, RequestsRemember, Remembers, Request

(* A request that ended is a request.                                         *)
LEMMA IdleIsRequest == Idle \in Request
  BY DEF Idle, Request, Stage

(* The number of running requests is a number.                                *)
LEMMA InFlightIsCounted == IsFiniteSet(InFlight) /\ Cardinality(InFlight) \in Nat
  BY RequestsAreFinite, FS_Subset, FS_CardinalityType DEF InFlight

(* Every step keeps the types.                                                *)
LEMMA NextTypeOK == TypeOK /\ RequestsRemember /\ SessionsOwned /\ [Next]_vars => TypeOK'
<1> SUFFICES ASSUME TypeOK, RequestsRemember, SessionsOwned, [Next]_vars PROVE TypeOK'
  OBVIOUS
<1> USE NoneIsNoValue, TroubleIsBounded DEF TypeOK
<1>1. ASSUME NEW r \in Requests, NEW e \in Emails, NEW p \in Passwords, Signup(r, e, p)
      PROVE  TypeOK'
  BY NewTokenIsFree, <1>1 DEF Signup, Begin, Idle, Request, Stage, UserRow
<1>2. ASSUME NEW r \in Requests, SignupToken(r)
      PROVE  TypeOK'
  <2>1. req[r].token \in Tokens /\ TokenOf("email_verify", req[r].user) \in TokenRow
    BY <1>2, RequestRefers DEF SignupToken, TokenStage, TokenOf, TokenRow, Purpose
  <2>2. [req[r] EXCEPT !.pc = "send"] \in Request
    BY <1>2, RequestRefers DEF SignupToken, Request, Stage
  <2> QED BY <1>2, <2>1, <2>2 DEF SignupToken
<1>3. ASSUME NEW r \in Requests, SendMail(r)
      PROVE  TypeOK'
  BY <1>3 DEF SendMail, End, Idle, Request, Stage, Remembers, RequestsRemember, TokenStage
<1>4. ASSUME NEW r \in Requests, NEW t \in Tokens, VerifyEmail(r, t)
      PROVE  TypeOK'
  <2>1. token[t].user \in Emails /\ [token[t] EXCEPT !.consumed = TRUE] \in TokenRow
    <3>1. token[t] \in TokenRow
      BY <1>4 DEF VerifyEmail, Consumable
    <3> QED BY <3>1 DEF TokenRow
  <2>2. [Idle EXCEPT !.pc = "markVerified", !.user = token[t].user, !.token = t] \in Request
    BY <2>1 DEF Idle, Request, Stage
  <2> QED BY <1>4, <2>1, <2>2 DEF VerifyEmail, Begin, Consume
<1>5. ASSUME NEW r \in Requests, MarkEmailVerified(r)
      PROVE  TypeOK'
  <2>1. req[r].user \in Emails /\ [user[req[r].user] EXCEPT !.verified = TRUE] \in UserRow
    <3>1. req[r].user \in Emails /\ user[req[r].user] \in UserRow
      BY <1>5, RequestRefers DEF MarkEmailVerified
    <3> QED BY <3>1 DEF UserRow
  <2> QED BY <1>5, <2>1, IdleIsRequest DEF MarkEmailVerified, End
<1>6. ASSUME NEW r \in Requests, NEW e \in Emails, RequestPasswordReset(r, e)
      PROVE  TypeOK'
  BY NewTokenIsFree, <1>6 DEF RequestPasswordReset, Begin, Idle, TokenOf, TokenRow,
     Purpose, Request, Stage
<1>7. ASSUME NEW r \in Requests, NEW t \in Tokens, NEW p \in Passwords, ResetPassword(r, t, p)
      PROVE  TypeOK'
  <2>1. token[t].user \in Emails /\ [token[t] EXCEPT !.consumed = TRUE] \in TokenRow
    <3>1. token[t] \in TokenRow
      BY <1>7 DEF ResetPassword, Consumable
    <3> QED BY <3>1 DEF TokenRow
  <2>2. [Idle EXCEPT !.pc = "updateHash", !.user = token[t].user, !.token = t, !.password = p]
           \in Request
    BY <2>1 DEF Idle, Request, Stage
  <2> QED BY <1>7, <2>1, <2>2 DEF ResetPassword, Begin, Consume
<1>8. ASSUME NEW r \in Requests, UpdatePasswordHash(r)
      PROVE  TypeOK'
  <2>1. /\ req[r].user \in Emails
        /\ [user[req[r].user] EXCEPT !.password = req[r].password] \in UserRow
    BY <1>8, RequestRefers DEF UpdatePasswordHash, UserRow
  <2> QED BY <1>8, <2>1, IdleIsRequest DEF UpdatePasswordHash, End
<1>9. ASSUME NEW r \in Requests, NEW e \in Emails, NEW p \in Passwords, Login(r, e, p)
      PROVE  TypeOK'
  BY <1>9 DEF Login, Begin, Idle, Request, Stage
<1>10. ASSUME NEW r \in Requests, CreateSession(r)
      PROVE  TypeOK'
  <2>1. req[r] \in Request /\ req[r].user \in Emails /\ NewSession \in Sessions
    BY <1>10, RequestRefers, NewSessionIsFree DEF CreateSession
  <2>2. [user |-> req[r].user, state |-> "active", via |-> ViaOf(req[r].pc)] \in SessionRow
    BY <2>1 DEF SessionRow, Via, ViaOf
  <2>3. [req[r] EXCEPT !.pc = "reply", !.session = NewSession] \in Request
    BY <2>1 DEF Request, Stage
  <2>4. req' = [req EXCEPT ![r] = [req[r] EXCEPT !.pc = "reply", !.session = NewSession]]
    BY <1>10 DEF CreateSession
  <2> QED BY <1>10, <2>1, <2>2, <2>3, <2>4 DEF CreateSession
<1>11. ASSUME NEW r \in Requests, Reply(r)
      PROVE  TypeOK'
  BY <1>11 DEF Reply, End, Idle, Request, Stage, Remembers, RequestsRemember, SessionStage
<1>12. ASSUME NEW r \in Requests, NEW s \in Sessions, Logout(r, s)
      PROVE  TypeOK'
  <2>1. session[s].user \in Emails
    BY <1>12 DEF Logout, SessionsOwned, SessionRow
  <2>2. [Idle EXCEPT !.pc = "revoke", !.user = session[s].user, !.session = s] \in Request
    BY <2>1 DEF Idle, Request, Stage
  <2> QED BY <1>12, <2>2 DEF Logout, Begin
<1>13. ASSUME NEW r \in Requests, RevokeSession(r)
      PROVE  TypeOK'
  <2>1. /\ req[r].session \in Sessions
        /\ [session[req[r].session] EXCEPT !.state = "revoked"] \in SessionRow
    BY <1>13, RequestRefers DEF RevokeSession, SessionStage, SessionRow
  <2> QED BY <1>13, <2>1, IdleIsRequest DEF RevokeSession, End
<1>14. ASSUME NEW r \in Requests, Interrupt(r)
      PROVE  TypeOK'
  BY <1>14 DEF Interrupt, End, Idle, Request, Stage
<1>15. ASSUME Crash
      PROVE  TypeOK'
  BY <1>15, IdleIsRequest, InFlightIsCounted DEF Crash
<1>16. ASSUME NEW t \in Tokens, Lapse(t)
      PROVE  TypeOK'
  <2>1. [token[t] EXCEPT !.lapsed = TRUE] \in TokenRow
    BY <1>16 DEF Lapse, TokenRow
  <2> QED BY <1>16, <2>1 DEF Lapse
<1>17. ASSUME NEW s \in Sessions, Expire(s)
      PROVE  TypeOK'
  BY <1>17 DEF Expire, SessionRow
<1>18. ASSUME NEW r \in Requests, NEW e \in Emails, ProviderSignup(r, e)
      PROVE  TypeOK'
  <2>1. [Idle EXCEPT !.pc = "providerSession", !.user = e] \in Request
    BY DEF Idle, Request, Stage
  <2>2. [password |-> None, verified |-> TRUE, by |-> "provider"] \in UserRow
    BY DEF UserRow
  <2> QED BY <1>18, <2>1, <2>2 DEF ProviderSignup, Begin
<1>19. ASSUME NEW r \in Requests, NEW e \in Emails, ProviderLogin(r, e)
      PROVE  TypeOK'
  <2>1. [Idle EXCEPT !.pc = "providerSession", !.user = e] \in Request
    BY DEF Idle, Request, Stage
  <2> QED BY <1>19, <2>1 DEF ProviderLogin, Begin
<1>20. CASE UNCHANGED vars
  BY <1>20 DEF vars
<1> QED
  BY <1>1, <1>2, <1>3, <1>4, <1>5, <1>6, <1>7, <1>8, <1>9, <1>10, <1>11, <1>12, <1>13,
     <1>14, <1>15, <1>16, <1>17, <1>18, <1>19, <1>20 DEF Next, Step

(* Rows stay, keep their owner, and what was verified or consumed stays so.      *)
UsersKept == \A e \in Emails : user[e] # None =>
    user'[e] # None /\ (user[e].verified => user'[e].verified)
TokensKept == \A t \in Tokens :
    /\ token[t] = None => token'[t] = None
    /\ token[t] # None =>
          /\ token'[t] # None /\ token'[t].user = token[t].user
          /\ token'[t].purpose = token[t].purpose
          /\ token[t].consumed => token'[t].consumed
SessionsKept == \A s \in Sessions :
    /\ session[s] = None => session'[s] = None
    /\ session[s] # None =>
          /\ session'[s] # None
          /\ session'[s].user = session[s].user /\ session'[s].via = session[s].via

(* To consume a token changes nothing else of any token.                      *)
LEMMA ConsumeKeepsTokens ==
    ASSUME TypeOK, NEW t \in Tokens, token[t] # None, Consume(t)
    PROVE  TokensKept
<1>1. token[t] \in TokenRow /\ token'[t] = [token[t] EXCEPT !.consumed = TRUE]
  BY DEF Consume, TypeOK
<1>2. /\ token'[t] \in TokenRow /\ token'[t].consumed
      /\ token'[t].user = token[t].user /\ token'[t].purpose = token[t].purpose
  BY <1>1 DEF TokenRow
<1>3. token'[t] # None
  BY <1>2, NoneIsNoValue
<1>4. \A u \in Tokens : u # t => token'[u] = token[u]
  BY DEF Consume, TypeOK
<1> QED BY <1>2, <1>3, <1>4 DEF TokensKept

(* A token that may be consumed is in no request (ConsumeVerificationToken).   *)
LEMMA ConsumableIsFree ==
    ASSUME TypeOK, RequestsRemember, TokensWorkOnce,
           NEW t \in mailed, NEW purpose \in Purpose, Consumable(t, purpose),
           NEW q \in Requests
    PROVE  req[q].token # t
<1> SUFFICES ASSUME req[q].token = t PROVE FALSE
  OBVIOUS
<1>1. t # None
  BY NoneIsNoValue DEF TypeOK
<1>2. req[q].pc \in TokenStage
  BY <1>1 DEF RequestsRemember, Remembers
<1>3. CASE req[q].pc \in {"createToken", "send"}
  BY <1>3 DEF RequestsRemember, Remembers, Consumable
<1>4. CASE req[q].pc \in {"markVerified", "updateHash"}
  BY <1>4 DEF TokensWorkOnce, Consumable
<1> QED BY <1>2, <1>3, <1>4 DEF TokenStage

(* What a signup or a provider's login inserts is a row.                      *)
LEMMA NewRowIsUser ==
    ASSUME NEW p \in Passwords \cup {None}, NEW v \in BOOLEAN, NEW b \in {"signup", "provider"}
    PROVE  [password |-> p, verified |-> v, by |-> b] \in UserRow \ {None}
  <1>1. [password |-> p, verified |-> v, by |-> b] \in UserRow
    BY DEF UserRow
  <1> QED BY <1>1, NoneIsNoValue

(* So is what the verification tables get.                                    *)
LEMMA NewRowIsToken ==
    ASSUME NEW e \in Emails
    PROVE  \A purpose \in Purpose :
              TokenOf(purpose, e) \in TokenRow \ {None} /\ TokenOf(purpose, e).user = e
  <1>1. \A purpose \in Purpose : TokenOf(purpose, e) \in TokenRow /\ TokenOf(purpose, e).user = e
    BY DEF TokenOf, TokenRow
  <1> QED BY <1>1, NoneIsNoValue

Kept ==
    RequestsRemember /\ TokenRowsMeaningful /\ TokensWorkOnce /\ VerifiedByMail /\ SessionsOwned

(* Every step keeps the rest of the invariant.                                *)
LEMMA NextKeeps == Inv /\ TypeOK' /\ [Next]_vars => Kept'
<1> SUFFICES ASSUME TypeOK, RequestsRemember, TokenRowsMeaningful, TokensWorkOnce,
                    VerifiedByMail, SessionsOwned, TypeOK', [Next]_vars
             PROVE  Kept'
  BY DEF Inv
<1> USE NoneIsNoValue
<1>1. ASSUME NEW r \in Requests, NEW e \in Emails, NEW p \in Passwords, Signup(r, e, p)
      PROVE  Kept'
  <2>1. \A q \in Requests : q # r => req'[q] = req[q] /\ req'[q].token # NewToken
    BY <1>1, NewTokenIsFree DEF Signup, Begin
  <2>2. req'[r] = [pc |-> "createToken", user |-> e, token |-> NewToken,
                   password |-> None, session |-> None]
    BY <1>1 DEF Signup, Begin, Idle, TypeOK
  <2>3. RequestsRemember'
    <3>1. Remembers(r)'
      <4>1. NewToken \in Tokens /\ NewToken # None /\ token'[NewToken] = None
        BY <1>1, NewTokenIsFree DEF Signup
      <4>2. e # None /\ user'[e] # None
        BY <1>1, NewRowIsUser DEF Signup, TypeOK
      <4> QED BY <2>2, <4>1, <4>2 DEF Remembers, TokenStage, SessionStage
    <3>2. ASSUME NEW q \in Requests, q # r PROVE Remembers(q)'
      BY <3>2, <1>1, <2>1 DEF Signup, RequestsRemember, Remembers
    <3> QED BY <3>1, <3>2 DEF RequestsRemember
  <2>4. TokenRowsMeaningful'
    BY <1>1 DEF Signup, TokenRowsMeaningful
  <2>5. TokensWorkOnce'
    BY <1>1, NewTokenIsFree DEF Signup, Begin, TokensWorkOnce, Redeeming
  <2>6. VerifiedByMail'
    BY <1>1 DEF Signup, VerifiedByMail
  <2>7. SessionsOwned'
    BY <1>1 DEF Signup, SessionsOwned
  <2> QED BY <2>3, <2>4, <2>5, <2>6, <2>7 DEF Kept
<1>2. ASSUME NEW r \in Requests, SignupToken(r)
      PROVE  Kept'
  <2>1. \A q \in Requests : q # r => req'[q] = req[q] /\ req[q].token # req[r].token
    BY <1>2 DEF SignupToken, TypeOK, TokensWorkOnce
  <2>2. RequestsRemember'
    <3>1. Remembers(r)'
      <4>1. req[r] \in Request /\ req'[r] = [req[r] EXCEPT !.pc = "send"]
        BY <1>2 DEF SignupToken, TypeOK
      <4>2. /\ req[r].token \in Tokens \ mailed /\ req[r].user \in Emails
            /\ user'[req[r].user] # None /\ req[r].session = None
        BY <1>2, RequestRefers DEF SignupToken, RequestsRemember, Remembers,
           TokenStage, SessionStage, TokenRowsMeaningful
      <4>3. token'[req[r].token] # None /\ token'[req[r].token].user = req[r].user
        BY <1>2, <4>2, NewRowIsToken DEF SignupToken, TypeOK, Purpose
      <4> QED BY <1>2, <4>1, <4>2, <4>3 DEF SignupToken, Remembers, TokenStage,
         SessionStage, Request
    <3>2. ASSUME NEW q \in Requests, q # r PROVE Remembers(q)'
      BY <3>2, <1>2, <2>1 DEF SignupToken, RequestsRemember, Remembers,
         TokensWorkOnce
    <3> QED BY <3>1, <3>2 DEF RequestsRemember
  <2>3. TokenRowsMeaningful'
    BY <1>2 DEF SignupToken, TokenOf, TokenRowsMeaningful, RequestsRemember,
       Remembers
  <2>4. TokensWorkOnce'
    BY <1>2 DEF SignupToken, TypeOK, TokensWorkOnce, Redeeming
  <2>5. VerifiedByMail'
    BY <1>2 DEF SignupToken, VerifiedByMail, RequestsRemember, Remembers
  <2>6. SessionsOwned'
    BY <1>2, SessionsOwned DEF SignupToken, SessionsOwned
  <2> QED BY <2>2, <2>3, <2>4, <2>5, <2>6 DEF Kept
<1>3. ASSUME NEW r \in Requests, SendMail(r)
      PROVE  Kept'
  <2>1. RequestsRemember'
    BY <1>3 DEF SendMail, End, Idle, TypeOK, RequestsRemember, Remembers,
       TokenStage, SessionStage, TokensWorkOnce
  <2>2. TokenRowsMeaningful'
    BY <1>3 DEF SendMail, TokenRowsMeaningful, RequestsRemember, Remembers
  <2>3. TokensWorkOnce'
    BY <1>3 DEF SendMail, End, Idle, TokensWorkOnce, Redeeming
  <2>4. VerifiedByMail'
    BY <1>3 DEF SendMail, VerifiedByMail
  <2>5. SessionsOwned'
    BY <1>3, SessionsOwned DEF SendMail, SessionsOwned
  <2> QED BY <2>1, <2>2, <2>3, <2>4, <2>5 DEF Kept
<1>4. ASSUME NEW r \in Requests, NEW t \in Tokens, VerifyEmail(r, t)
      PROVE  Kept'
  <2>1. TokensKept
    BY <1>4, ConsumeKeepsTokens DEF VerifyEmail, Consumable
  <2>2. \A q \in Requests : q # r => req'[q] = req[q] /\ req[q].token # t
    BY <1>4, ConsumableIsFree DEF VerifyEmail, Begin, Purpose
  <2>3. RequestsRemember'
    BY <1>4 DEF VerifyEmail, Begin, Consume, TypeOK, TokenRow, RequestsRemember,
       Remembers, TokenStage, SessionStage, TokenRowsMeaningful, TokensWorkOnce
  <2>4. TokenRowsMeaningful'
    BY <1>4, <2>1 DEF VerifyEmail, Consume, TokensKept, TokenRowsMeaningful
  <2>5. TokensWorkOnce'
    BY <1>4, <2>1, <2>2 DEF VerifyEmail, Begin, Consumable, Consume, TokensKept,
       TypeOK, TokensWorkOnce, Redeeming
  <2>6. VerifiedByMail'
    BY <1>4 DEF VerifyEmail, Consumable, Consume, VerifiedByMail
  <2>7. SessionsOwned'
    BY <1>4, SessionsOwned DEF VerifyEmail, SessionsOwned
  <2> QED BY <2>3, <2>4, <2>5, <2>6, <2>7 DEF Kept
<1>5. ASSUME NEW r \in Requests, MarkEmailVerified(r)
      PROVE  Kept'
  <2>1. UsersKept
    <3> DEFINE row == [user[req[r].user] EXCEPT !.verified = TRUE]
    <3>1. req[r].user \in Emails /\ row \in UserRow /\ row.verified
      BY <1>5, RequestRefers DEF MarkEmailVerified, UserRow
    <3>2. row # None
      BY <3>1, NoneIsNoValue
    <3>3. user' = [user EXCEPT ![req[r].user] = row]
      BY <1>5 DEF MarkEmailVerified
    <3> HIDE DEF row
    <3> QED BY <3>1, <3>2, <3>3 DEF UsersKept, TypeOK
  <2>2. RequestsRemember'
    BY <1>5, <2>1 DEF MarkEmailVerified, End, Idle, UsersKept, TypeOK,
       RequestsRemember, Remembers, TokenStage, SessionStage
  <2>3. TokenRowsMeaningful'
    BY <1>5, <2>1 DEF MarkEmailVerified, UsersKept, TypeOK, TokenRowsMeaningful
  <2>4. TokensWorkOnce'
    BY <1>5 DEF MarkEmailVerified, End, Idle, TokensWorkOnce, Redeeming
  <2>5. VerifiedByMail'
    BY <1>5 DEF MarkEmailVerified, VerifiedByMail, TokensWorkOnce, Redeeming
  <2>6. SessionsOwned'
    BY <1>5, <2>1 DEF MarkEmailVerified, UsersKept, TypeOK, SessionsOwned
  <2> QED BY <2>2, <2>3, <2>4, <2>5, <2>6 DEF Kept
<1>6. ASSUME NEW r \in Requests, NEW e \in Emails, RequestPasswordReset(r, e)
      PROVE  Kept'
  <2>1. \A q \in Requests : q # r => req'[q] = req[q] /\ req'[q].token # NewToken
    BY <1>6, NewTokenIsFree DEF RequestPasswordReset, Begin
  <2>2. req'[r] = [pc |-> "send", user |-> e, token |-> NewToken,
                   password |-> None, session |-> None]
    BY <1>6 DEF RequestPasswordReset, Begin, Idle, TypeOK
  <2>3. \A t \in Tokens :
           token'[t] = IF t = NewToken THEN TokenOf("password_reset", e) ELSE token[t]
    BY <1>6 DEF RequestPasswordReset, TypeOK
  <2>4. RequestsRemember'
    <3>1. Remembers(r)'
      <4>1. NewToken \in Tokens /\ NewToken # None /\ NewToken \notin mailed'
        BY <1>6, NewTokenIsFree DEF RequestPasswordReset, TokenRowsMeaningful
      <4>2. token'[NewToken] # None /\ token'[NewToken].user = e
        BY <2>3, <4>1, NewRowIsToken DEF Purpose
      <4>3. e # None /\ user'[e] # None
        BY <1>6 DEF RequestPasswordReset
      <4> QED BY <2>2, <4>1, <4>2, <4>3 DEF Remembers, TokenStage, SessionStage
    <3>2. ASSUME NEW q \in Requests, q # r PROVE Remembers(q)'
      BY <3>2, <1>6, <2>1 DEF RequestPasswordReset, RequestsRemember, Remembers
    <3> QED BY <3>1, <3>2 DEF RequestsRemember
  <2>5. TokenRowsMeaningful'
    BY <1>6, NewTokenIsFree DEF RequestPasswordReset, Begin, TokenOf,
       TokenRowsMeaningful
  <2>6. TokensWorkOnce'
    BY <1>6, NewTokenIsFree DEF RequestPasswordReset, Begin, TokenOf,
       TokensWorkOnce, Redeeming
  <2>7. VerifiedByMail'
    BY <1>6, NewTokenIsFree DEF RequestPasswordReset, VerifiedByMail
  <2>8. SessionsOwned'
    BY <1>6, SessionsOwned DEF RequestPasswordReset, SessionsOwned
  <2> QED BY <2>4, <2>5, <2>6, <2>7, <2>8 DEF Kept
<1>7. ASSUME NEW r \in Requests, NEW t \in Tokens, NEW p \in Passwords, ResetPassword(r, t, p)
      PROVE  Kept'
  <2>1. TokensKept
    BY <1>7, ConsumeKeepsTokens DEF ResetPassword, Consumable
  <2>2. \A q \in Requests : q # r => req'[q] = req[q] /\ req[q].token # t
    BY <1>7, ConsumableIsFree DEF ResetPassword, Begin, Purpose
  <2>3. RequestsRemember'
    BY <1>7 DEF ResetPassword, Begin, Consume, TypeOK, TokenRow, RequestsRemember,
       Remembers, TokenStage, SessionStage, TokenRowsMeaningful, TokensWorkOnce
  <2>4. TokenRowsMeaningful'
    BY <1>7, <2>1 DEF ResetPassword, Consume, TokensKept, TokenRowsMeaningful
  <2>5. TokensWorkOnce'
    BY <1>7, <2>1, <2>2 DEF ResetPassword, Begin, Consumable, Consume, TokensKept,
       TypeOK, TokensWorkOnce, Redeeming
  <2>6. VerifiedByMail'
    BY <1>7 DEF ResetPassword, Consumable, Consume, VerifiedByMail
  <2>7. SessionsOwned'
    BY <1>7, SessionsOwned DEF ResetPassword, SessionsOwned
  <2> QED BY <2>3, <2>4, <2>5, <2>6, <2>7 DEF Kept
<1>8. ASSUME NEW r \in Requests, UpdatePasswordHash(r)
      PROVE  Kept'
  <2>1. UsersKept
    BY <1>8, RequestRefers DEF UpdatePasswordHash, UsersKept, UserRow
  <2>2. RequestsRemember'
    BY <1>8, <2>1, SMTT(30) DEF UpdatePasswordHash, End, Idle, UsersKept, TypeOK,
       RequestsRemember, Remembers, TokenStage, SessionStage
  <2>3. TokenRowsMeaningful'
    BY <1>8, <2>1 DEF UpdatePasswordHash, UsersKept, TypeOK, TokenRowsMeaningful
  <2>4. TokensWorkOnce'
    BY <1>8 DEF UpdatePasswordHash, End, Idle, TokensWorkOnce, Redeeming
  <2>5. VerifiedByMail'
    BY <1>8, RequestRefers DEF UpdatePasswordHash, VerifiedByMail
  <2>6. SessionsOwned'
    BY <1>8, <2>1 DEF UpdatePasswordHash, UsersKept, TypeOK, SessionsOwned
  <2> QED BY <2>2, <2>3, <2>4, <2>5, <2>6 DEF Kept
<1>9. ASSUME NEW r \in Requests, NEW e \in Emails, NEW p \in Passwords, Login(r, e, p)
      PROVE  Kept'
  <2>1. RequestsRemember'
    BY <1>9 DEF Login, Begin, Accepts, RequestsRemember, Remembers, TokenStage,
       SessionStage
  <2>2. TokensWorkOnce'
    BY <1>9 DEF Login, Begin, Idle, Accepts, TokensWorkOnce, Redeeming
  <2>3. TokenRowsMeaningful' /\ VerifiedByMail' /\ SessionsOwned'
    BY <1>9, TokenRowsMeaningful, VerifiedByMail, SessionsOwned DEF Login,
       TokenRowsMeaningful, VerifiedByMail, SessionsOwned
  <2> QED BY <2>1, <2>2, <2>3 DEF Kept
<1>10. ASSUME NEW r \in Requests, CreateSession(r)
      PROVE  Kept'
  <2>1. RequestsRemember'
    BY <1>10 DEF CreateSession, TypeOK, Request, RequestsRemember, Remembers,
       TokenStage, SessionStage
  <2>2. TokensWorkOnce'
    BY <1>10, SMTT(30) DEF CreateSession, TypeOK, TokensWorkOnce, Redeeming
  <2>3. SessionsOwned'
    <3> DEFINE row == [user |-> req[r].user, state |-> "active", via |-> ViaOf(req[r].pc)]
    <3>1. row.user = req[r].user /\ (row.via = "password" => req[r].pc = "createSession")
      BY DEF ViaOf
    <3>2. /\ NewSession \in Sessions /\ session' = [session EXCEPT ![NewSession] = row]
          /\ UNCHANGED <<user, held>>
      BY <1>10, NewSessionIsFree DEF CreateSession
    <3>3. row # None
      <4>1. row \in SessionRow
        BY <1>10, RequestRefers DEF CreateSession, SessionRow, Via, ViaOf
      <4> QED BY <4>1, NoneIsNoValue
    <3>4. /\ user[req[r].user] # None
          /\ req[r].pc = "createSession" => user[req[r].user].verified
      BY <1>10 DEF CreateSession, RequestsRemember, Remembers
    <3> HIDE DEF row
    <3>5. \A s \in Sessions : session'[s] = IF s = NewSession THEN row ELSE session[s]
      BY <3>2 DEF TypeOK
    <3>6. \A s \in Sessions : session'[s] # None =>
              /\ user[session'[s].user] # None
              /\ session'[s].via = "password" => user[session'[s].user].verified
      BY <3>1, <3>4, <3>5 DEF SessionsOwned
    <3>7. \A s \in held : session'[s] # None
      BY <3>3, <3>5 DEF SessionsOwned, TypeOK
    <3> QED BY <3>2, <3>6, <3>7 DEF SessionsOwned
  <2>4. TokenRowsMeaningful' /\ VerifiedByMail'
    BY <1>10, TokenRowsMeaningful, VerifiedByMail DEF CreateSession,
       TokenRowsMeaningful, VerifiedByMail
  <2> QED BY <2>1, <2>2, <2>3, <2>4 DEF Kept
<1>11. ASSUME NEW r \in Requests, Reply(r)
      PROVE  Kept'
  <2>1. RequestsRemember'
    BY <1>11 DEF Reply, End, Idle, RequestsRemember, Remembers, TokenStage,
       SessionStage
  <2>2. TokensWorkOnce'
    BY <1>11 DEF Reply, End, Idle, TokensWorkOnce, Redeeming
  <2>3. SessionsOwned'
    BY <1>11 DEF Reply, TypeOK, SessionsOwned, RequestsRemember, Remembers
  <2>4. TokenRowsMeaningful' /\ VerifiedByMail'
    BY <1>11, TokenRowsMeaningful, VerifiedByMail DEF Reply, TokenRowsMeaningful,
       VerifiedByMail
  <2> QED BY <2>1, <2>2, <2>3, <2>4 DEF Kept
<1>12. ASSUME NEW r \in Requests, NEW s \in Sessions, Logout(r, s)
      PROVE  Kept'
  <2>1. RequestsRemember'
    BY <1>12 DEF Logout, Begin, TypeOK, UserRow, SessionRow, RequestsRemember,
       Remembers, TokenStage, SessionStage, SessionsOwned
  <2>2. TokensWorkOnce'
    BY <1>12 DEF Logout, Begin, Idle, TokensWorkOnce, Redeeming
  <2>3. TokenRowsMeaningful' /\ VerifiedByMail' /\ SessionsOwned'
    BY <1>12, TokenRowsMeaningful, VerifiedByMail, SessionsOwned DEF Logout,
       TokenRowsMeaningful, VerifiedByMail, SessionsOwned
  <2> QED BY <2>1, <2>2, <2>3 DEF Kept
<1>13. ASSUME NEW r \in Requests, RevokeSession(r)
      PROVE  Kept'
  <2>1. SessionsKept
    BY <1>13, RequestRefers DEF RevokeSession, SessionsKept, SessionRow,
       SessionStage
  <2>2. RequestsRemember'
    BY <1>13, <2>1, SMTT(30) DEF RevokeSession, End, Idle, SessionsKept, TypeOK,
       RequestsRemember, Remembers, TokenStage, SessionStage
  <2>3. TokensWorkOnce'
    BY <1>13 DEF RevokeSession, End, Idle, TokensWorkOnce, Redeeming
  <2>4. SessionsOwned'
    <3>1. held \subseteq Sessions /\ UNCHANGED <<user, held>>
      BY <1>13 DEF RevokeSession, TypeOK
    <3> QED BY <2>1, <3>1 DEF SessionsKept, SessionsOwned
  <2>5. TokenRowsMeaningful' /\ VerifiedByMail'
    BY <1>13, TokenRowsMeaningful, VerifiedByMail DEF RevokeSession,
       TokenRowsMeaningful, VerifiedByMail
  <2> QED BY <2>2, <2>3, <2>4, <2>5 DEF Kept
<1>14. ASSUME NEW r \in Requests, Interrupt(r)
      PROVE  Kept'
  <2>1. RequestsRemember'
    BY <1>14 DEF Interrupt, End, Idle, RequestsRemember, Remembers, TokenStage,
       SessionStage
  <2>2. TokensWorkOnce'
    BY <1>14 DEF Interrupt, End, Idle, TokensWorkOnce, Redeeming
  <2>3. TokenRowsMeaningful' /\ VerifiedByMail' /\ SessionsOwned'
    BY <1>14, TokenRowsMeaningful, VerifiedByMail, SessionsOwned DEF Interrupt,
       TokenRowsMeaningful, VerifiedByMail, SessionsOwned
  <2> QED BY <2>1, <2>2, <2>3 DEF Kept
<1>15. ASSUME Crash
      PROVE  Kept'
  <2>1. RequestsRemember'
    BY <1>15 DEF Crash, Idle, RequestsRemember, Remembers, TokenStage, SessionStage
  <2>2. TokensWorkOnce'
    BY <1>15 DEF Crash, Idle, TokensWorkOnce
  <2>3. TokenRowsMeaningful' /\ VerifiedByMail' /\ SessionsOwned'
    BY <1>15, TokenRowsMeaningful, VerifiedByMail, SessionsOwned DEF Crash,
       TokenRowsMeaningful, VerifiedByMail, SessionsOwned
  <2> QED BY <2>1, <2>2, <2>3 DEF Kept
<1>16. ASSUME NEW t \in Tokens, Lapse(t)
      PROVE  Kept'
  <2>1. token[t] \in TokenRow /\ token'[t] = [token[t] EXCEPT !.lapsed = TRUE]
    BY <1>16 DEF Lapse, TypeOK
  <2>2. /\ token'[t] \in TokenRow /\ token'[t].user = token[t].user
        /\ token'[t].purpose = token[t].purpose /\ token'[t].consumed = token[t].consumed
    BY <2>1 DEF TokenRow
  <2>3. TokensKept
    <3>1. token'[t] # None /\ token[t] # None
      BY <1>16, <2>2, NoneIsNoValue DEF Lapse
    <3>2. \A x \in Tokens : x # t => token'[x] = token[x]
      BY <1>16 DEF Lapse, TypeOK
    <3> QED BY <2>2, <3>1, <3>2 DEF TokensKept
  <2>4. RequestsRemember'
    BY <1>16, <2>3 DEF Lapse, TokensKept, RequestsRemember, Remembers
  <2>5. TokenRowsMeaningful'
    BY <1>16, <2>2 DEF Lapse, TypeOK, TokenRowsMeaningful
  <2>6. TokensWorkOnce'
    BY <1>16 DEF Lapse, TokensWorkOnce, Redeeming
  <2>7. VerifiedByMail'
    BY <1>16 DEF Lapse, VerifiedByMail
  <2>8. SessionsOwned'
    BY <1>16, SessionsOwned DEF Lapse, SessionsOwned
  <2> QED BY <2>4, <2>5, <2>6, <2>7, <2>8 DEF Kept
<1>17. ASSUME NEW s \in Sessions, Expire(s)
      PROVE  Kept'
  <2>1. RequestsRemember'
    BY <1>17 DEF Expire, TypeOK, UserRow, SessionRow, RequestsRemember, Remembers
  <2>2. SessionsOwned'
    BY <1>17 DEF Expire, TypeOK, UserRow, SessionRow, SessionsOwned
  <2>3. TokenRowsMeaningful' /\ TokensWorkOnce' /\ VerifiedByMail'
    BY <1>17, TokenRowsMeaningful, TokensWorkOnce, VerifiedByMail DEF Expire,
       TokenRowsMeaningful, TokensWorkOnce, Redeeming, VerifiedByMail
  <2> QED BY <2>1, <2>2, <2>3 DEF Kept
<1>18. ASSUME NEW r \in Requests, NEW e \in Emails, ProviderSignup(r, e)
      PROVE  Kept'
  <2> DEFINE row == [password |-> None, verified |-> TRUE, by |-> "provider"]
  <2>1. \A q \in Requests : q # r => req'[q] = req[q]
    BY <1>18 DEF ProviderSignup, Begin
  <2>2. req'[r] = [pc |-> "providerSession", user |-> e, token |-> None,
                   password |-> None, session |-> None]
    BY <1>18 DEF ProviderSignup, Begin, Idle, TypeOK
  <2>3. row # None /\ row.by # "signup" /\ user' = [user EXCEPT ![e] = row] /\ user[e] = None
    BY <1>18, NewRowIsUser DEF ProviderSignup
  <2> HIDE DEF row
  <2>4. /\ user'[e] = row /\ \A x \in Emails : x # e => user'[x] = user[x]
        /\ UNCHANGED <<token, session, mailed, held>>
    BY <1>18, <2>3 DEF ProviderSignup, TypeOK
  <2>5. RequestsRemember'
    <3>1. Remembers(r)'
      <4>1. e # None /\ user'[e] # None
        BY <2>3, <2>4
      <4> QED BY <2>2, <4>1 DEF Remembers, TokenStage, SessionStage
    <3>2. ASSUME NEW q \in Requests, q # r PROVE Remembers(q)'
      <4>1. req'[q] = req[q] /\ Remembers(q)
        BY <3>2, <2>1 DEF RequestsRemember
      <4>2. req[q].user = None \/ req[q].user \in Emails
        BY DEF TypeOK, Request
      <4>3. CASE req[q].pc = "idle"
        BY <2>4, <4>1, <4>3 DEF Remembers, Idle, TokenStage, SessionStage
      <4>4. CASE req[q].pc # "idle"
        <5>1. req[q].user # e /\ user'[req[q].user] = user[req[q].user]
          BY <2>3, <2>4, <4>1, <4>2, <4>4 DEF Remembers
        <5> QED BY <2>4, <4>1, <5>1 DEF Remembers
      <4> QED BY <4>3, <4>4
    <3> QED BY <3>1, <3>2 DEF RequestsRemember
  <2>6. TokenRowsMeaningful'
    <3>1. \A t \in Tokens : token[t] # None => user'[token[t].user] # None
      <4>1. \A t \in Tokens : token[t] # None => token[t].user \in Emails
        BY DEF TypeOK, TokenRow
      <4> QED BY <2>3, <2>4, <4>1 DEF TokenRowsMeaningful
    <3> QED BY <2>4, <3>1 DEF TokenRowsMeaningful
  <2>7. TokensWorkOnce'
    BY <2>1, <2>2, <2>4 DEF TokensWorkOnce, Redeeming
  <2>8. VerifiedByMail'
    BY <2>3, <2>4 DEF VerifiedByMail
  <2>9. SessionsOwned'
    <3>1. \A s \in Sessions : session[s] # None =>
              user'[session[s].user] = user[session[s].user]
      <4>1. \A s \in Sessions : session[s] # None => session[s].user \in Emails
        BY DEF TypeOK, SessionRow
      <4> QED BY <2>3, <2>4, <4>1 DEF SessionsOwned
    <3> QED BY <2>4, <3>1 DEF SessionsOwned
  <2> QED BY <2>5, <2>6, <2>7, <2>8, <2>9 DEF Kept
<1>19. ASSUME NEW r \in Requests, NEW e \in Emails, ProviderLogin(r, e)
      PROVE  Kept'
  <2>1. RequestsRemember'
    BY <1>19 DEF ProviderLogin, Begin, Idle, TypeOK, RequestsRemember, Remembers,
       TokenStage, SessionStage
  <2>2. TokensWorkOnce'
    BY <1>19 DEF ProviderLogin, Begin, Idle, TokensWorkOnce, Redeeming
  <2>3. TokenRowsMeaningful' /\ VerifiedByMail' /\ SessionsOwned'
    BY <1>19, TokenRowsMeaningful, VerifiedByMail, SessionsOwned DEF ProviderLogin,
       TokenRowsMeaningful, VerifiedByMail, SessionsOwned
  <2> QED BY <2>1, <2>2, <2>3 DEF Kept
<1>20. CASE UNCHANGED vars
  BY <1>20 DEF vars, Kept, RequestsRemember, Remembers, TokenRowsMeaningful,
     TokensWorkOnce, Redeeming, VerifiedByMail, SessionsOwned
<1> QED BY <1>1, <1>2, <1>3, <1>4, <1>5, <1>6, <1>7, <1>8, <1>9, <1>10, <1>11, <1>12,
   <1>13, <1>14, <1>15, <1>16, <1>17, <1>18, <1>19, <1>20 DEF Next, Step

(* Who could be verified still can, and a session somebody knows stays known.   *)
StillVerifiable == \A e \in Emails :
    (user[e] = None \/ CanBeVerified(e)) /\ user'[e] # None => CanBeVerified(e)'
StillKnown == \A s \in Sessions :
    s \notin Unclaimed /\ session'[s] # None => s \notin Unclaimed'

(* A request whose business is not the verification of e does not take it     *)
(* away, if the tokens stay as they are.                                      *)
LEMMA StaysVerifiable ==
    ASSUME TypeOK, RequestsRemember, NEW e \in Emails, CanBeVerified(e), NEW r \in Requests,
           req[r].user # e \/ req[r].pc \notin {"createToken", "send", "markVerified"},
           \A q \in Requests : q # r => req'[q] = req[q],
           user[e].verified => user'[e].verified,
           \A t \in Tokens : token[t] # None => token'[t] = token[t], mailed' = mailed
    PROVE  CanBeVerified(e)'
<1>1. CASE user[e].verified
  BY <1>1 DEF CanBeVerified
<1>2. ASSUME NEW t \in mailed, Consumable(t, "email_verify"), token[t].user = e
      PROVE  CanBeVerified(e)'
  <2>1. token'[t] = token[t]
    BY <1>2 DEF Consumable, TypeOK
  <2> QED BY <1>2, <2>1 DEF CanBeVerified, Consumable
<1>3. ASSUME NEW q \in Requests, req[q].user = e,
             \/ req[q].pc \in {"createToken", "markVerified"}
             \/ req[q].pc = "send" /\ Consumable(req[q].token, "email_verify")
      PROVE  CanBeVerified(e)'
  <2>1. req'[q] = req[q]
    BY <1>3
  <2>2. req[q].pc = "send" => req[q].token \in Tokens
    BY DEF RequestsRemember, Remembers, TokenStage, TypeOK, Request
  <2>3. CASE req[q].pc = "send"
    <3>1. Consumable(req[q].token, "email_verify")
      BY <1>3, <2>3
    <3>2. token'[req[q].token] = token[req[q].token]
      BY <2>2, <2>3, <3>1 DEF Consumable
    <3> QED BY <1>3, <2>1, <2>3, <3>1, <3>2 DEF CanBeVerified, Consumable
  <2>4. CASE req[q].pc # "send"
    BY <1>3, <2>1, <2>4 DEF CanBeVerified
  <2> QED BY <2>3, <2>4
<1> QED BY <1>1, <1>2, <1>3 DEF CanBeVerified

(* No step but a fault strands an account or loses a session.                 *)
LEMMA NoFaultStrands ==
    Inv /\ TypeOK' /\ [Next]_vars /\ trouble' = trouble => StillVerifiable /\ StillKnown
<1> SUFFICES ASSUME TypeOK, RequestsRemember, TokenRowsMeaningful, TokensWorkOnce,
                    SessionsOwned, TypeOK', [Next]_vars, trouble' = trouble
             PROVE  StillVerifiable /\ StillKnown
  BY DEF Inv
<1> USE NoneIsNoValue
<1>1. ASSUME NEW r \in Requests, NEW e \in Emails, NEW p \in Passwords, Signup(r, e, p)
      PROVE  StillVerifiable /\ StillKnown
  <2>1. StillVerifiable
    BY <1>1, SMTT(30) DEF Signup, Begin, Consumable, StillVerifiable, CanBeVerified,
       TypeOK
  <2>2. StillKnown
    BY <1>1 DEF Signup, Begin, StillKnown, Unclaimed, RequestsRemember, Remembers
  <2> QED BY <2>1, <2>2
<1>2. ASSUME NEW r \in Requests, SignupToken(r)
      PROVE  StillVerifiable /\ StillKnown
  <2>1. StillVerifiable
    <3>1. req[r].token \in Tokens /\ token[req[r].token] = None /\ req[r].user \in Emails
      BY <1>2, RequestRefers DEF SignupToken, RequestsRemember, Remembers,
         TokenStage
    <3>2. /\ Consumable(req[r].token, "email_verify")'
          /\ req'[r].pc = "send" /\ req'[r].user = req[r].user /\ req'[r].token = req[r].token
      <4>1. req'[r] = [req[r] EXCEPT !.pc = "send"] /\ req[r] \in Request
        BY <1>2 DEF SignupToken, TypeOK
      <4>2. token'[req[r].token] = TokenOf("email_verify", req[r].user)
        BY <1>2 DEF SignupToken, TypeOK
      <4>3. token'[req[r].token] # None
        BY <3>1, <4>2, NewRowIsToken DEF Purpose
      <4> QED BY <4>1, <4>2, <4>3 DEF Consumable, TokenOf
    <3>3. CanBeVerified(req[r].user)'
      BY <3>2 DEF CanBeVerified
    <3>4. \A t \in Tokens : token[t] # None => token'[t] = token[t]
      BY <1>2, <3>1 DEF SignupToken
    <3>5. \A q \in Requests : q # r => req'[q] = req[q]
      BY <1>2 DEF SignupToken
    <3>6. ASSUME NEW e \in Emails, e # req[r].user, CanBeVerified(e) PROVE CanBeVerified(e)'
      BY <1>2, <3>4, <3>5, <3>6, StaysVerifiable DEF SignupToken
    <3> QED BY <1>2, <3>3, <3>6 DEF SignupToken, StillVerifiable
  <2>2. StillKnown
    BY <1>2 DEF SignupToken, StillKnown, Unclaimed
  <2> QED BY <2>1, <2>2
<1>3. ASSUME NEW r \in Requests, SendMail(r)
      PROVE  StillVerifiable /\ StillKnown
  <2>1. StillVerifiable
    BY <1>3, SMTT(30) DEF SendMail, End, Consumable, StillVerifiable, CanBeVerified,
       RequestsRemember, Remembers
  <2>2. StillKnown
    BY <1>3 DEF SendMail, End, StillKnown, Unclaimed, RequestsRemember, Remembers,
       SessionStage
  <2> QED BY <2>1, <2>2
<1>4. ASSUME NEW r \in Requests, NEW t \in Tokens, VerifyEmail(r, t)
      PROVE  StillVerifiable /\ StillKnown
  <2>1. StillVerifiable
    <3>1. /\ req[r].pc = "idle" /\ \A q \in Requests : q # r => req'[q] = req[q]
          /\ req'[r].pc = "markVerified" /\ req'[r].user = token[t].user
      <4> DEFINE q == [Idle EXCEPT !.pc = "markVerified", !.user = token[t].user, !.token = t]
      <4>1. q.pc = "markVerified" /\ q.user = token[t].user
        BY DEF Idle
      <4>2. req[r].pc = "idle" /\ req' = [req EXCEPT ![r] = q]
        BY <1>4 DEF VerifyEmail, Begin
      <4> HIDE DEF q
      <4> QED BY <4>1, <4>2 DEF TypeOK
    <3>2. \A e \in Emails : e = token[t].user => CanBeVerified(e)'
      BY <3>1 DEF CanBeVerified
    <3>3. \A u \in Tokens : u # t => token'[u] = token[u]
      BY <1>4 DEF VerifyEmail, Consume, TypeOK
    <3>4. \A q \in Requests : req[q].pc = "send" => req[q].token \in Tokens \ {t}
      BY <1>4 DEF VerifyEmail, RequestsRemember, Remembers, TokenStage, TypeOK, Request
    <3>5. ASSUME NEW e \in Emails, e # token[t].user, CanBeVerified(e) PROVE CanBeVerified(e)'
      <4>1. user' = user /\ mailed' = mailed /\ mailed \subseteq Tokens
        BY <1>4 DEF VerifyEmail, TypeOK
      <4>2. CASE user[e].verified
        BY <4>1, <4>2 DEF CanBeVerified
      <4>3. CASE \E u \in mailed : Consumable(u, "email_verify") /\ token[u].user = e
        BY <3>3, <3>5, <4>1, <4>3 DEF CanBeVerified, Consumable
      <4>4. CASE \E q \in Requests :
                    /\ req[q].user = e
                    /\ \/ req[q].pc \in {"createToken", "markVerified"}
                       \/ req[q].pc = "send" /\ Consumable(req[q].token, "email_verify")
        <5>1. PICK q \in Requests :
                 /\ req[q].user = e
                 /\ \/ req[q].pc \in {"createToken", "markVerified"}
                    \/ req[q].pc = "send" /\ Consumable(req[q].token, "email_verify")
          BY <4>4
        <5>2. req'[q] = req[q]
          BY <3>1, <5>1
        <5>3. req[q].pc = "send" => token'[req[q].token] = token[req[q].token]
          BY <3>3, <3>4
        <5>4. /\ req'[q].user = e
              /\ \/ req'[q].pc \in {"createToken", "markVerified"}
                 \/ req'[q].pc = "send" /\ Consumable(req[q].token, "email_verify")'
          BY <5>1, <5>2, <5>3 DEF Consumable
        <5> QED BY <5>1, <5>2, <5>4 DEF CanBeVerified, Consumable
      <4> QED BY <3>5, <4>2, <4>3, <4>4 DEF CanBeVerified
    <3> QED BY <1>4, <3>2, <3>5 DEF VerifyEmail, StillVerifiable
  <2>2. StillKnown
    BY <1>4 DEF VerifyEmail, Begin, Consume, StillKnown, Unclaimed,
       RequestsRemember, Remembers
  <2> QED BY <2>1, <2>2
<1>5. ASSUME NEW r \in Requests, MarkEmailVerified(r)
      PROVE  StillVerifiable /\ StillKnown
  <2>1. StillVerifiable
    <3>1. req[r].user \in Emails /\ user[req[r].user] \in UserRow
      BY <1>5, RequestRefers DEF MarkEmailVerified
    <3>2. user' = [user EXCEPT ![req[r].user].verified = TRUE] /\ UNCHANGED <<token, mailed>>
      BY <1>5 DEF MarkEmailVerified
    <3>3. user'[req[r].user].verified
      BY <3>1, <3>2 DEF TypeOK, UserRow
    <3>4. \A e \in Emails : e # req[r].user => user'[e] = user[e]
      BY <3>2 DEF TypeOK
    <3>5. \A q \in Requests : q # r => req'[q] = req[q]
      BY <1>5 DEF MarkEmailVerified, End, TypeOK
    <3>6. ASSUME NEW e \in Emails, CanBeVerified(e), e # req[r].user PROVE CanBeVerified(e)'
      BY <3>2, <3>4, <3>5, <3>6, StaysVerifiable
    <3>7. ASSUME NEW e \in Emails, e = req[r].user PROVE CanBeVerified(e)'
      BY <3>3, <3>7 DEF CanBeVerified
    <3> QED BY <3>4, <3>6, <3>7 DEF StillVerifiable
  <2>2. StillKnown
    BY <1>5 DEF MarkEmailVerified, End, StillKnown, Unclaimed, RequestsRemember,
       Remembers, SessionStage
  <2> QED BY <2>1, <2>2
<1>6. ASSUME NEW r \in Requests, NEW e \in Emails, RequestPasswordReset(r, e)
      PROVE  StillVerifiable /\ StillKnown
  <2>1. StillVerifiable
    BY <1>6, NewTokenIsFree, SMTT(30) DEF RequestPasswordReset, Begin, TokenOf,
       Consumable, StillVerifiable, CanBeVerified
  <2>2. StillKnown
    BY <1>6 DEF RequestPasswordReset, Begin, TokenOf, StillKnown, Unclaimed,
       RequestsRemember, Remembers
  <2> QED BY <2>1, <2>2
<1>7. ASSUME NEW r \in Requests, NEW t \in Tokens, NEW p \in Passwords, ResetPassword(r, t, p)
      PROVE  StillVerifiable /\ StillKnown
  <2>1. StillVerifiable
    BY <1>7, SMTT(30) DEF ResetPassword, Begin, Consumable, Consume,
       StillVerifiable, CanBeVerified
  <2>2. StillKnown
    BY <1>7 DEF ResetPassword, Begin, Consume, StillKnown, Unclaimed,
       RequestsRemember, Remembers
  <2> QED BY <2>1, <2>2
<1>8. ASSUME NEW r \in Requests, UpdatePasswordHash(r)
      PROVE  StillVerifiable /\ StillKnown
  <2>1. StillVerifiable
    <3>1. /\ req[r].pc = "updateHash" /\ UNCHANGED <<token, mailed>>
          /\ \A q \in Requests : q # r => req'[q] = req[q]
      BY <1>8 DEF UpdatePasswordHash, End
    <3>2. \A e \in Emails : /\ user'[e] # None => user[e] # None
                            /\ user[e] # None => user'[e].verified = user[e].verified
      <4>1. req[r].user \in Emails /\ user[req[r].user] \in UserRow
        BY <1>8, RequestRefers DEF UpdatePasswordHash
      <4>2. user' = [user EXCEPT ![req[r].user] =
                        [user[req[r].user] EXCEPT !.password = req[r].password]]
        BY <1>8 DEF UpdatePasswordHash
      <4> QED BY <4>1, <4>2 DEF UserRow
    <3>3. ASSUME NEW e \in Emails, user'[e] # None, CanBeVerified(e) PROVE CanBeVerified(e)'
      BY <3>1, <3>2, <3>3, StaysVerifiable
    <3> QED BY <3>2, <3>3 DEF StillVerifiable
  <2>2. StillKnown
    BY <1>8 DEF UpdatePasswordHash, End, StillKnown, Unclaimed, RequestsRemember,
       Remembers, SessionStage
  <2> QED BY <2>1, <2>2
<1>9. ASSUME NEW r \in Requests, NEW e \in Emails, NEW p \in Passwords, Login(r, e, p)
      PROVE  StillVerifiable /\ StillKnown
  <2>1. StillVerifiable
    BY <1>9, SMTT(30) DEF Login, Begin, Accepts, Consumable, StillVerifiable,
       CanBeVerified
  <2>2. StillKnown
    BY <1>9 DEF Login, Begin, Accepts, StillKnown, Unclaimed, RequestsRemember,
       Remembers
  <2> QED BY <2>1, <2>2
<1>10. ASSUME NEW r \in Requests, CreateSession(r)
      PROVE  StillVerifiable /\ StillKnown
  <2>1. StillVerifiable
    <3>1. req[r].pc \in LoginStage /\ \A q \in Requests : q # r => req'[q] = req[q]
      BY <1>10 DEF CreateSession, LoginStage, TypeOK
    <3>2. UNCHANGED <<user, token, mailed>>
      BY <1>10 DEF CreateSession
    <3>3. \A e \in Emails : CanBeVerified(e) => CanBeVerified(e)'
      BY <3>1, <3>2, StaysVerifiable DEF LoginStage
    <3> QED BY <3>2, <3>3 DEF StillVerifiable
  <2>2. StillKnown
    BY <1>10 DEF CreateSession, StillKnown, Unclaimed, TypeOK, RequestsRemember,
       Remembers, SessionStage
  <2> QED BY <2>1, <2>2
<1>11. ASSUME NEW r \in Requests, Reply(r)
      PROVE  StillVerifiable /\ StillKnown
  <2>1. StillVerifiable
    BY <1>11 DEF Reply, End, Consumable, StillVerifiable, CanBeVerified
  <2>2. StillKnown
    BY <1>11 DEF Reply, End, StillKnown, Unclaimed
  <2> QED BY <2>1, <2>2
<1>12. ASSUME NEW r \in Requests, NEW s \in Sessions, Logout(r, s)
      PROVE  StillVerifiable /\ StillKnown
  <2>1. StillVerifiable
    BY <1>12, SMTT(30) DEF Logout, Begin, Consumable, StillVerifiable, CanBeVerified
  <2>2. StillKnown
    BY <1>12 DEF Logout, Begin, StillKnown, Unclaimed, RequestsRemember, Remembers,
       SessionStage
  <2> QED BY <2>1, <2>2
<1>13. ASSUME NEW r \in Requests, RevokeSession(r)
      PROVE  StillVerifiable /\ StillKnown
  <2>1. StillVerifiable
    BY <1>13, SMTT(30) DEF RevokeSession, End, Consumable, StillVerifiable,
       CanBeVerified
  <2>2. StillKnown
    BY <1>13 DEF RevokeSession, End, StillKnown, Unclaimed, RequestsRemember,
       Remembers
  <2> QED BY <2>1, <2>2
<1>14. ~(\E r \in Requests : Interrupt(r))
  BY InFlightIsCounted DEF Interrupt, TypeOK
<1>15. ~Crash
  BY InFlightIsCounted, FS_EmptySet DEF Crash, TypeOK, InFlight
<1>16. ~(\E t \in Tokens : Lapse(t))
  BY InFlightIsCounted DEF Lapse, TypeOK
<1>17. ASSUME NEW s \in Sessions, Expire(s)
      PROVE  StillVerifiable /\ StillKnown
  <2>1. StillVerifiable
    BY <1>17 DEF Expire, Consumable, StillVerifiable, CanBeVerified
  <2>2. StillKnown
    BY <1>17 DEF Expire, StillKnown, Unclaimed
  <2> QED BY <2>1, <2>2
<1>18. ASSUME NEW r \in Requests, NEW e \in Emails, ProviderSignup(r, e)
      PROVE  StillVerifiable /\ StillKnown
  <2>1. StillVerifiable
    <3>1. /\ req[r].pc = "idle" /\ \A q \in Requests : q # r => req'[q] = req[q]
          /\ UNCHANGED <<token, mailed>>
      BY <1>18 DEF ProviderSignup, Begin
    <3>2. user'[e].verified /\ \A x \in Emails : x # e => user'[x] = user[x]
      BY <1>18 DEF ProviderSignup, TypeOK
    <3>3. ASSUME NEW x \in Emails, x # e, CanBeVerified(x) PROVE CanBeVerified(x)'
      BY <3>1, <3>2, <3>3, StaysVerifiable
    <3>4. CanBeVerified(e)'
      BY <3>2 DEF CanBeVerified
    <3> QED BY <3>2, <3>3, <3>4 DEF StillVerifiable
  <2>2. StillKnown
    BY <1>18 DEF ProviderSignup, Begin, StillKnown, Unclaimed, RequestsRemember, Remembers
  <2> QED BY <2>1, <2>2
<1>19. ASSUME NEW r \in Requests, NEW e \in Emails, ProviderLogin(r, e)
      PROVE  StillVerifiable /\ StillKnown
  <2>1. StillVerifiable
    <3>1. /\ req[r].pc = "idle" /\ \A q \in Requests : q # r => req'[q] = req[q]
          /\ UNCHANGED <<user, token, mailed>>
      BY <1>19 DEF ProviderLogin, Begin
    <3>2. ASSUME NEW x \in Emails, CanBeVerified(x) PROVE CanBeVerified(x)'
      BY <3>1, <3>2, StaysVerifiable
    <3> QED BY <3>1, <3>2 DEF StillVerifiable
  <2>2. StillKnown
    BY <1>19 DEF ProviderLogin, Begin, StillKnown, Unclaimed, RequestsRemember, Remembers
  <2> QED BY <2>1, <2>2
<1>20. CASE UNCHANGED vars
  BY <1>20 DEF vars, StillVerifiable, StillKnown, CanBeVerified, Consumable, Unclaimed
<1> QED BY <1>1, <1>2, <1>3, <1>4, <1>5, <1>6, <1>7, <1>8, <1>9, <1>10, <1>11, <1>12,
   <1>13, <1>14, <1>15, <1>16, <1>17, <1>18, <1>19, <1>20 DEF Next, Step

(* Adding at most m members to a set of at most n makes at most n + m.        *)
LEMMA Charge ==
    ASSUME NEW S, NEW T, NEW D, NEW n \in Nat, NEW m \in Nat,
           IsFiniteSet(S), Cardinality(S) <= n, IsFiniteSet(D), Cardinality(D) <= m,
           T \subseteq S \cup D
    PROVE  IsFiniteSet(T) /\ Cardinality(T) <= n + m
<1>1. IsFiniteSet(S \cup D) /\ Cardinality(S \cup D) <= Cardinality(S) + Cardinality(D)
  <2>1. IsFiniteSet(S \cap D)
    BY FS_Intersection
  <2>2. /\ IsFiniteSet(S \cup D)
        /\ Cardinality(S \cup D) = Cardinality(S) + Cardinality(D) - Cardinality(S \cap D)
    BY FS_Union
  <2> QED BY <2>1, <2>2, FS_CardinalityType
<1>2. IsFiniteSet(T) /\ Cardinality(T) <= Cardinality(S \cup D)
  BY <1>1, FS_Subset
<1> QED
  BY <1>1, <1>2, FS_CardinalityType

(* One member more.                                                           *)
LEMMA ChargeOne ==
    ASSUME NEW S, NEW T, NEW x, NEW n \in Nat,
           IsFiniteSet(S), Cardinality(S) <= n, T \subseteq S \cup {x}
    PROVE  IsFiniteSet(T) /\ Cardinality(T) <= n + 1
<1>1. IsFiniteSet(S \cup {x}) /\ Cardinality(S \cup {x}) <= Cardinality(S) + 1
  <2>1. /\ IsFiniteSet(S \cup {x})
        /\ Cardinality(S \cup {x}) = IF x \in S THEN Cardinality(S) ELSE Cardinality(S) + 1
    BY FS_AddElement, Zenon
  <2>2. Cardinality(S) \in Nat
    BY FS_CardinalityType
  <2> QED BY <2>1, <2>2
<1>2. IsFiniteSet(T) /\ Cardinality(T) <= Cardinality(S \cup {x})
  BY <1>1, FS_Subset
<1> QED
  BY <1>1, <1>2, FS_CardinalityType

(* A function takes at most as many values as it has arguments.               *)
LEMMA ImageIsCounted ==
    ASSUME NEW S, IsFiniteSet(S), NEW f
    PROVE  IsFiniteSet({f[x] : x \in S}) /\ Cardinality({f[x] : x \in S}) <= Cardinality(S)
<1> DEFINE g == [x \in S |-> f[x]]
<1>1. g \in Surjection(S, {f[x] : x \in S})
  BY DEF Surjection
<1> QED BY <1>1, FS_Surjection

(* A token that lapses strands at most its user (VerifyEmail).                *)
LEMMA LapseStrandsOne ==
    ASSUME Inv, NEW t \in Tokens, Lapse(t)
    PROVE  Stranded' \subseteq Stranded \cup {token[t].user} /\ Unclaimed' = Unclaimed
<1> USE NoneIsNoValue
<1>1. \A u \in Tokens : u # t => token'[u] = token[u]
  BY DEF Lapse, Inv, TypeOK
<1>2. ASSUME NEW e \in Emails, e # token[t].user, CanBeVerified(e)
      PROVE  CanBeVerified(e)'
  BY <1>1, <1>2, SMTT(30) DEF Lapse, CanBeVerified, Consumable, Inv, TypeOK, Request,
     RequestsRemember, Remembers, TokenStage
<1> QED
  BY <1>2 DEF Lapse, Stranded, Unclaimed

(* A request that breaks off strands at most its user and loses its session   *)
(* (Signup, CreateSession).                                                    *)
LEMMA InterruptStrandsOne ==
    ASSUME Inv, NEW r \in Requests, Interrupt(r)
    PROVE  /\ Stranded' \subseteq Stranded \cup {req[r].user}
           /\ Unclaimed' \subseteq Unclaimed \cup {req[r].session}
<1>1. \A q \in Requests : q # r => req'[q] = req[q]
  BY DEF Interrupt, End, Inv, TypeOK
<1>2. ASSUME NEW e \in Emails, e # req[r].user, CanBeVerified(e)
      PROVE  CanBeVerified(e)'
  BY <1>1, <1>2 DEF Interrupt, CanBeVerified, Consumable
<1> QED
  BY <1>1, <1>2 DEF Interrupt, Stranded, Unclaimed

(* A crash strands at most the users of the requests it ends.                 *)
LEMMA CrashStrandsItsRequests ==
    ASSUME Inv, Crash
    PROVE  /\ Stranded' \subseteq Stranded \cup {req[r].user : r \in InFlight}
           /\ Unclaimed' \subseteq Unclaimed \cup {req[r].session : r \in InFlight}
<1>1. ASSUME NEW e \in Emails, e \notin {req[r].user : r \in InFlight}, CanBeVerified(e)
      PROVE  CanBeVerified(e)'
  BY <1>1 DEF Crash, CanBeVerified, Consumable, InFlight
<1>2. ASSUME NEW s \in Sessions, s \notin {req[r].session : r \in InFlight}, s # None,
             NEW r \in Requests, req[r].session = s
      PROVE  FALSE
  BY <1>2 DEF InFlight, Inv, RequestsRemember, Remembers, SessionStage
<1> QED
  BY <1>1, <1>2, NoneIsNoValue DEF Crash, Stranded, Unclaimed

(* Every step pays for what it strands.                                       *)
LEMMA NextPays == Inv /\ Paid /\ TypeOK' /\ [Next]_vars => Paid'
<1> SUFFICES ASSUME Inv, Paid, TypeOK', [Next]_vars
             PROVE  Paid'
  OBVIOUS
<1> USE DEF Paid
<1>0. trouble \in Nat /\ trouble' \in Nat
  BY DEF Inv, TypeOK
<1>1. CASE trouble' = trouble
  <2>1. Stranded' \subseteq Stranded /\ Unclaimed' \subseteq Unclaimed
    BY <1>1, NoFaultStrands DEF StillVerifiable, StillKnown, Stranded, Unclaimed
  <2> QED BY <1>0, <1>1, <2>1, FS_Subset, FS_CardinalityType
<1>2. ASSUME NEW t \in Tokens, Lapse(t)
      PROVE  Paid'
  <2>1. Stranded' \subseteq Stranded \cup {token[t].user} /\ Unclaimed' = Unclaimed
    BY <1>2, LapseStrandsOne
  <2>2. IsFiniteSet(Stranded') /\ Cardinality(Stranded') <= trouble + 1
    BY <1>0, <2>1, ChargeOne
  <2>3. trouble' = trouble + 1
    BY <1>2 DEF Lapse
  <2>4. IsFiniteSet(Unclaimed') /\ Cardinality(Unclaimed') <= trouble + 1
    BY <1>0, <2>1, FS_CardinalityType
  <2> QED BY <2>2, <2>3, <2>4
<1>3. ASSUME NEW r \in Requests, Interrupt(r)
      PROVE  Paid'
  <2>1. /\ Stranded' \subseteq Stranded \cup {req[r].user}
        /\ Unclaimed' \subseteq Unclaimed \cup {req[r].session}
    BY <1>3, InterruptStrandsOne
  <2>2. IsFiniteSet(Stranded') /\ Cardinality(Stranded') <= trouble + 1
    BY <1>0, <2>1, ChargeOne
  <2>3. IsFiniteSet(Unclaimed') /\ Cardinality(Unclaimed') <= trouble + 1
    BY <1>0, <2>1, ChargeOne
  <2> QED BY <1>3, <2>2, <2>3 DEF Interrupt
<1>4. CASE Crash
  <2> DEFINE n == Cardinality(InFlight)
             userOf == [r \in InFlight |-> req[r].user]
             sessionOf == [r \in InFlight |-> req[r].session]
  <2>1. n \in Nat /\ trouble' = trouble + n
    BY <1>4, InFlightIsCounted DEF Crash
  <2>2. IsFiniteSet(Stranded') /\ Cardinality(Stranded') <= trouble + n
    <3>1. {userOf[r] : r \in InFlight} = {req[r].user : r \in InFlight}
      OBVIOUS
    <3> DEFINE D == {userOf[r] : r \in InFlight}
    <3>2. IsFiniteSet(D) /\ Cardinality(D) <= n
      BY InFlightIsCounted, ImageIsCounted
    <3>3. Stranded' \subseteq Stranded \cup D
      BY <1>4, <3>1, CrashStrandsItsRequests
    <3> HIDE DEF D, n
    <3> QED BY <1>0, <2>1, <3>2, <3>3, Charge
  <2>3. IsFiniteSet(Unclaimed') /\ Cardinality(Unclaimed') <= trouble + n
    <3>1. {sessionOf[r] : r \in InFlight} = {req[r].session : r \in InFlight}
      OBVIOUS
    <3> DEFINE D == {sessionOf[r] : r \in InFlight}
    <3>2. IsFiniteSet(D) /\ Cardinality(D) <= n
      BY InFlightIsCounted, ImageIsCounted
    <3>3. Unclaimed' \subseteq Unclaimed \cup D
      BY <1>4, <3>1, CrashStrandsItsRequests
    <3> HIDE DEF D, n
    <3> QED BY <1>0, <2>1, <3>2, <3>3, Charge
  <2> QED BY <2>1, <2>2, <2>3
<1>5. trouble' # trouble => \/ \E t \in Tokens : Lapse(t)
                            \/ \E r \in Requests : Interrupt(r)
                            \/ Crash
  BY DEF vars, Next, Step, Signup, SignupToken, SendMail, VerifyEmail, MarkEmailVerified,
     RequestPasswordReset, ResetPassword, UpdatePasswordHash, Login, CreateSession,
     Reply, Logout, RevokeSession, Expire, ProviderSignup, ProviderLogin
<1> QED BY <1>1, <1>2, <1>3, <1>4, <1>5

(* Nobody is stranded at the start.                                           *)
LEMMA InitPays == Init => Paid
<1> SUFFICES ASSUME Init PROVE Paid
  OBVIOUS
<1>1. Stranded = {} /\ Unclaimed = {}
  BY DEF Init, Stranded, Unclaimed
<1> QED BY <1>1, FS_EmptySet DEF Init, Paid

(* The inductive invariant holds in every reachable state (auth/service.go).  *)
THEOREM Invariance == Spec => [](Inv /\ Paid)
<1>1. Init => Inv /\ Paid
  BY InitEstablishes, InitPays
<1>2. Inv /\ Paid /\ [Next]_vars => (Inv /\ Paid)'
  BY NextTypeOK, NextKeeps, NextPays DEF Inv, Kept
<1> QED BY <1>1, <1>2, PTL DEF Spec

(* The rows, the mails, and what the requests remember keep their types.      *)
THEOREM TypeCorrect == Spec => []TypeOK
<1>1. Inv => TypeOK
  BY DEF Inv
<1> QED BY <1>1, Invariance, PTL

(* A mailed token works once, for its purpose and for its user, with any      *)
(* number of requests presenting it (ConsumeVerificationToken).               *)
THEOREM TokenWorksOnce == Spec => []TokensWorkOnce
<1>1. Inv => TokensWorkOnce
  BY DEF Inv
<1> QED BY <1>1, Invariance, PTL

(* The email of an account that a signup made is not verified without a token *)
(* that was mailed to it, whoever else joins or resets the account (Signup,   *)
(* VerifyEmail, upsertIdentity).                                              *)
THEOREM VerificationNeedsMail == Spec => []VerifiedByMail
<1>1. Inv => VerifiedByMail
  BY DEF Inv
<1> QED BY <1>1, Invariance, PTL

(* Each account that nobody can verify any more had its own fault: a request  *)
(* that broke off, a lost mail or a lapsed token (Signup, VerifyEmail).       *)
THEOREM StrandingNeedsFaults == Spec => []StrandedBounded
<1>1. Inv /\ Paid => StrandedBounded
  BY DEF Paid, StrandedBounded
<1> QED BY <1>1, Invariance, PTL

(* A session that a password got is of a verified user, and every session     *)
(* reached its client, unless a fault of its own came between (Login,         *)
(* FinishLogin, CreateSession).                                               *)
THEOREM SessionsAreAccountedFor == Spec => []SessionsAccounted
<1>1. Inv /\ Paid => SessionsAccounted
  BY DEF Inv, Paid, SessionsOwned, SessionsAccounted
<1> QED BY <1>1, Invariance, PTL

----------------------------------------------------------------------------
(***************************************************************************)
(* The promise of PasswordAccount.  A token is in hand from the            *)
(* transaction that consumes it to the statement that acts on it; of what  *)
(* is between the two only this is seen.  TokensWorkOnce says that it is   *)
(* in one hand, and what it is about is what that request remembers.       *)
(***************************************************************************)

HandStage == {"markVerified", "updateHash"}

(* A function that differs from another at one place.                         *)
LEMMA DifferAtOnePlace ==
    ASSUME NEW S, NEW f, NEW g, NEW x \in S, f = [y \in S |-> f[y]], g = [y \in S |-> g[y]],
           \A y \in S : y # x => g[y] = f[y]
    PROVE  g = [f EXCEPT ![x] = g[x]]
  OBVIOUS

(* One request moves, the others keep what they have in hand.                 *)
LEMMA HandOfOthers ==
    ASSUME TypeOK, NEW r \in Requests, NEW q, req' = [req EXCEPT ![r] = q], NEW t
    PROVE  InHand(t)' <=> \/ q.pc \in HandStage /\ q.token = t
                          \/ \E o \in Requests : /\ o # r /\ req[o].pc \in HandStage
                                                 /\ req[o].token = t
<1>1. req'[r] = q /\ \A o \in Requests : o # r => req'[o] = req[o]
  BY DEF TypeOK
<1> QED BY <1>1 DEF InHand, HandStage

(* A request that neither had a token in hand nor has one.                    *)
LEMMA HandsKeep ==
    ASSUME TypeOK, NEW r \in Requests, NEW q, req' = [req EXCEPT ![r] = q],
           req[r].pc \notin HandStage, q.pc \notin HandStage
    PROVE  \A t \in Tokens : InHand(t)' <=> InHand(t)
  BY HandOfOthers DEF InHand, HandStage

(* A request that takes a token in hand.                                      *)
LEMMA HandTakes ==
    ASSUME TypeOK, NEW r \in Requests, NEW q, req' = [req EXCEPT ![r] = q],
           req[r].pc \notin HandStage, q.pc \in HandStage
    PROVE  \A t \in Tokens : InHand(t)' <=> InHand(t) \/ t = q.token
<1>1. req'[r] = q /\ \A o \in Requests : o # r => req'[o] = req[o]
  BY DEF TypeOK
<1> QED BY <1>1 DEF InHand, HandStage

(* A request that is done with the token in its hand: nobody else has it.     *)
LEMMA HandOpens ==
    ASSUME TypeOK, TokensWorkOnce, NEW r \in Requests, NEW q, req' = [req EXCEPT ![r] = q],
           req[r].pc \in HandStage, q.pc \notin HandStage
    PROVE  \A t \in Tokens : InHand(t)' <=> InHand(t) /\ t # req[r].token
<1>1. ASSUME NEW t \in Tokens, NEW o \in Requests, o # r, req[o].token = t
      PROVE  req[r].token # t
  <2>1. req[o].token # None
    BY <1>1, NoneIsNoValue
  <2> QED BY <1>1, <2>1 DEF TokensWorkOnce
<1>2. req'[r] = q /\ \A o \in Requests : o # r => req'[o] = req[o]
  BY DEF TypeOK
<1>3. \A t \in Tokens : InHand(t)' <=>
          \E o \in Requests : o # r /\ req[o].pc \in HandStage /\ req[o].token = t
  BY <1>2 DEF InHand, HandStage
<1>4. \A t \in Tokens : InHand(t) <=>
          \E o \in Requests : req[o].pc \in HandStage /\ req[o].token = t
  BY DEF InHand, HandStage
<1> QED BY <1>1, <1>3, <1>4

(* The mapped state is a function of the tables and of the hands.             *)
LEMMA PromiseReads ==
    /\ UNCHANGED <<token, mailed>> /\ (\A t \in Tokens : InHand(t)' <=> InHand(t))
          => Phase' = Phase
    /\ UNCHANGED token => About' = About
    /\ UNCHANGED session => Logins' = Logins /\ Over' = Over
<1>1. ASSUME UNCHANGED <<token, mailed>>, \A t \in Tokens : InHand(t)' <=> InHand(t)
      PROVE  Phase' = Phase
  <2>1. \A t \in Tokens : Phase'[t] = Phase[t]
    BY <1>1 DEF Phase
  <2> QED BY <2>1 DEF Phase
<1> QED BY <1>1 DEF About, Logins, Over

(* A ticket moves when its phase changes and no other does.                   *)
LEMMA PhaseMoves ==
    ASSUME NEW t \in Tokens, NEW from, NEW to, Phase[t] = from, Phase'[t] = to,
           \A u \in Tokens : u # t => Phase'[u] = Phase[u]
    PROVE  Promise!Move(t, from, to)
<1>1. Phase = [u \in Tokens |-> Phase[u]] /\ Phase' = [u \in Tokens |-> Phase'[u]]
  BY DEF Phase
<1>2. Phase' = [Phase EXCEPT ![t] = Phase'[t]]
  BY <1>1, DifferAtOnePlace
<1> QED BY <1>2 DEF Promise!Move

(* The tables are empty at the start.                                         *)
LEMMA InitPromise == Init => Promise!Init
  BY DEF Init, Promise!Init, Phase, About, Logins, Over

(* A new row of verification_tokens is a ticket that is written: no mail of   *)
(* it went out before (CreateVerificationToken).                              *)
LEMMA RowWrites ==
    ASSUME TypeOK, TokenRowsMeaningful, NEW t \in Tokens, token[t] = None,
           NEW purpose \in Purpose, NEW e \in Emails, user[e] # None,
           token' = [token EXCEPT ![t] = TokenOf(purpose, e)],
           \A u \in Tokens : InHand(u)' <=> InHand(u),
           UNCHANGED <<user, session, mailed>>
    PROVE  Promise!Write(t, purpose, e)
<1> DEFINE row == TokenOf(purpose, e)
<1>1. /\ row \in TokenRow /\ ~row.consumed /\ ~row.lapsed
      /\ row.purpose = purpose /\ row.user = e
  BY DEF TokenOf, TokenRow
<1>2. row # None /\ t \notin mailed
  BY <1>1, NoneIsNoValue DEF TokenRowsMeaningful
<1>3. token'[t] = row /\ \A u \in Tokens : u # t => token'[u] = token[u]
  BY DEF TypeOK
<1> HIDE DEF row
<1>4. Phase[t] = "absent" /\ Phase'[t] = "written"
  BY <1>1, <1>2, <1>3 DEF Phase
<1>5. \A u \in Tokens : u # t => Phase'[u] = Phase[u]
  BY <1>3 DEF Phase
<1>6. Promise!Move(t, "absent", "written")
  BY <1>4, <1>5, PhaseMoves
<1>7. About' = [About EXCEPT ![t] = [purpose |-> purpose, user |-> e]]
  <2>1. About'[t] = [purpose |-> purpose, user |-> e]
    BY <1>1, <1>2, <1>3 DEF About
  <2>2. \A u \in Tokens : u # t => About'[u] = About[u]
    BY <1>3 DEF About
  <2>3. About = [u \in Tokens |-> About[u]] /\ About' = [u \in Tokens |-> About'[u]]
    BY DEF About
  <2>4. About' = [About EXCEPT ![t] = About'[t]]
    BY <2>2, <2>3, DifferAtOnePlace
  <2> QED BY <2>1, <2>4
<1> QED BY <1>6, <1>7, PromiseReads DEF Promise!Write, Promise!Move

(* A row that is consumed or lapses is about what it was about.               *)
LEMMA AboutKeeps ==
    ASSUME TypeOK, NEW t \in Tokens, token[t] # None, NEW row \in TokenRow,
           token' = [token EXCEPT ![t] = row],
           row.purpose = token[t].purpose, row.user = token[t].user
    PROVE  About' = About
<1>1. token'[t] = row /\ \A u \in Tokens : u # t => token'[u] = token[u]
  BY DEF TypeOK
<1>2. row # None
  BY NoneIsNoValue
<1>3. \A u \in Tokens : About'[u] = About[u]
  BY <1>1, <1>2 DEF About
<1> QED BY <1>3 DEF About

(* The token of a delivered mail is sent, unless it lapsed before (SendMail). *)
LEMMA MailSends ==
    ASSUME TypeOK, RequestsRemember, TokenRowsMeaningful, NEW r \in Requests, SendMail(r)
    PROVE  \/ \E t \in Tokens : Promise!Mail(t)
           \/ UNCHANGED Promise!vars
<1> DEFINE t == req[r].token
<1>1. t \in Tokens /\ token[t] # None /\ t \notin mailed
  BY DEF SendMail, RequestsRemember, Remembers, TokenStage, TypeOK, Request
<1>2. ~token[t].consumed
  BY <1>1 DEF TokenRowsMeaningful
<1>3. \A u \in Tokens : InHand(u)' <=> InHand(u)
  BY HandsKeep DEF SendMail, End, Idle, HandStage
<1>4. About' = About /\ Logins' = Logins /\ Over' = Over /\ user' = user /\ token' = token
  BY PromiseReads DEF SendMail
<1>5. mailed' = mailed \cup {t}
  BY DEF SendMail
<1> HIDE DEF t
<1>6. \A u \in Tokens : u # t => Phase'[u] = Phase[u]
  BY <1>3, <1>4, <1>5 DEF Phase
<1>7. CASE token[t].lapsed
  <2>1. \A u \in Tokens : Phase'[u] = Phase[u]
    BY <1>1, <1>2, <1>4, <1>6, <1>7 DEF Phase
  <2>2. Phase' = Phase
    BY <2>1 DEF Phase
  <2> QED BY <1>4, <2>2 DEF Promise!vars
<1>8. CASE ~token[t].lapsed
  <2>1. Phase[t] = "written" /\ Phase'[t] = "sent"
    BY <1>1, <1>2, <1>4, <1>5, <1>8 DEF Phase
  <2>2. Promise!Move(t, "written", "sent")
    BY <1>1, <1>6, <2>1, PhaseMoves
  <2> QED BY <1>1, <1>4, <2>2 DEF Promise!Mail
<1> QED BY <1>7, <1>8

(* A token that reaches expires_at is void.                                   *)
LEMMA LapseVoids ==
    ASSUME TypeOK, NEW t \in Tokens, Lapse(t) PROVE Promise!Lapse(t)
<1> DEFINE row == [token[t] EXCEPT !.lapsed = TRUE]
<1>1. token[t] \in TokenRow /\ token[t] # None /\ ~token[t].consumed /\ ~token[t].lapsed
  BY DEF Lapse, TypeOK
<1>2. /\ row \in TokenRow /\ ~row.consumed /\ row.lapsed
      /\ row.purpose = token[t].purpose /\ row.user = token[t].user
  BY <1>1 DEF TokenRow
<1>3. row # None
  BY <1>2, NoneIsNoValue
<1>4. token' = [token EXCEPT ![t] = row]
  BY DEF Lapse
<1> HIDE DEF row
<1>5. token'[t] = row /\ \A u \in Tokens : u # t => token'[u] = token[u]
  BY <1>4 DEF TypeOK
<1>6. \A u \in Tokens : InHand(u)' <=> InHand(u)
  BY DEF Lapse, InHand
<1>7. About' = About /\ Logins' = Logins /\ Over' = Over /\ user' = user /\ mailed' = mailed
  <2>1. About' = About
    BY <1>1, <1>2, <1>4, AboutKeeps
  <2> QED BY <2>1, PromiseReads DEF Lapse
<1>8. Phase[t] \in {"sent", "written"} /\ Phase'[t] = "void"
  BY <1>1, <1>2, <1>3, <1>5 DEF Phase
<1>9. \A u \in Tokens : u # t => Phase'[u] = Phase[u]
  BY <1>5, <1>6, <1>7 DEF Phase
<1>10. Promise!Move(t, "written", "void") \/ Promise!Move(t, "sent", "void")
  BY <1>8, <1>9, PhaseMoves
<1> QED BY <1>7, <1>10 DEF Promise!Lapse

(* A request that consumes a mailed token takes the ticket in hand            *)
(* (ConsumeVerificationToken).                                                *)
LEMMA ConsumeTakes ==
    ASSUME TypeOK, NEW r \in Requests, NEW t \in Tokens, t \in mailed,
           NEW purpose \in Purpose, Consumable(t, purpose), Consume(t),
           NEW q, Begin(r, q), q.pc \in HandStage, q.token = t,
           UNCHANGED <<user, session, mailed>>
    PROVE  Promise!Take(t)
<1> DEFINE row == [token[t] EXCEPT !.consumed = TRUE]
<1>1. token[t] \in TokenRow /\ token[t] # None /\ ~token[t].consumed /\ ~token[t].lapsed
  BY DEF Consumable, TypeOK
<1>2. /\ row \in TokenRow /\ row.consumed
      /\ row.purpose = token[t].purpose /\ row.user = token[t].user
  BY <1>1 DEF TokenRow
<1>3. row # None
  BY <1>2, NoneIsNoValue
<1>4. token' = [token EXCEPT ![t] = row]
  BY DEF Consume
<1> HIDE DEF row
<1>5. token'[t] = row /\ \A u \in Tokens : u # t => token'[u] = token[u]
  BY <1>4 DEF TypeOK
<1>6. \A u \in Tokens : InHand(u)' <=> InHand(u) \/ u = t
  BY HandTakes DEF Begin, HandStage
<1>7. About' = About /\ Logins' = Logins /\ Over' = Over
  <2>1. About' = About
    BY <1>1, <1>2, <1>4, AboutKeeps
  <2> QED BY <2>1, PromiseReads
<1>8. Phase[t] = "sent" /\ Phase'[t] = "held"
  BY <1>1, <1>2, <1>3, <1>5, <1>6 DEF Phase
<1>9. \A u \in Tokens : u # t => Phase'[u] = Phase[u]
  BY <1>5, <1>6 DEF Phase
<1>10. Promise!Move(t, "sent", "held")
  BY <1>8, <1>9, PhaseMoves
<1> QED BY <1>7, <1>10 DEF Promise!Take

(* The request that has a token in hand acts on it: on the account it is      *)
(* about, and nobody has it in hand afterwards.                               *)
LEMMA HandActs ==
    ASSUME TypeOK, TokensWorkOnce, RequestsRemember, NEW r \in Requests,
           req[r].pc \in HandStage, End(r), UNCHANGED <<token, session, mailed>>
    PROVE  /\ req[r].token \in Tokens
           /\ Promise!Move(req[r].token, "held", "spent")
           /\ About[req[r].token].user = req[r].user
           /\ About[req[r].token].purpose = token[req[r].token].purpose
           /\ About' = About /\ Logins' = Logins /\ Over' = Over
<1> DEFINE t == req[r].token
<1>1. t \in Tokens /\ token[t] # None /\ token[t].consumed /\ token[t].user = req[r].user
  BY DEF HandStage, TokenStage, RequestsRemember, Remembers, TypeOK, Request, TokensWorkOnce
<1>2. \A u \in Tokens : InHand(u)' <=> InHand(u) /\ u # t
  BY HandOpens DEF End, Idle, HandStage
<1>3. InHand(t)
  BY DEF InHand, HandStage
<1> HIDE DEF t
<1>4. Phase[t] = "held" /\ Phase'[t] = "spent"
  BY <1>1, <1>2, <1>3 DEF Phase
<1>5. \A u \in Tokens : u # t => Phase'[u] = Phase[u]
  BY <1>2 DEF Phase
<1>6. Promise!Move(t, "held", "spent")
  BY <1>1, <1>4, <1>5, PhaseMoves
<1>7. About[t].user = req[r].user /\ About[t].purpose = token[t].purpose
  BY <1>1 DEF About
<1> QED BY <1>1, <1>6, <1>7, PromiseReads DEF t

(* The update of a consumed token verifies the account it was mailed to.      *)
LEMMA MarkVerifies ==
    ASSUME Inv, NEW r \in Requests, MarkEmailVerified(r)
    PROVE  \E t \in Tokens : Promise!Verify(t)
<1> DEFINE t == req[r].token
<1>1. /\ t \in Tokens /\ Promise!Move(t, "held", "spent")
      /\ About[t].user = req[r].user /\ About[t].purpose = token[t].purpose
      /\ About' = About /\ Logins' = Logins /\ Over' = Over
  BY HandActs DEF MarkEmailVerified, HandStage, Inv
<1>2. token[t].purpose = "email_verify"
  BY DEF MarkEmailVerified, Inv, TokensWorkOnce, Redeeming
<1>3. user' = [user EXCEPT ![req[r].user].verified = TRUE]
  BY DEF MarkEmailVerified
<1> HIDE DEF t
<1> QED BY <1>1, <1>2, <1>3 DEF Promise!Verify

(* The update of a consumed token changes the password of that account.       *)
LEMMA UpdateChanges ==
    ASSUME Inv, NEW r \in Requests, UpdatePasswordHash(r)
    PROVE  \E t \in Tokens, p \in Passwords : Promise!ChangePassword(t, p)
<1> DEFINE t == req[r].token
<1>1. /\ t \in Tokens /\ Promise!Move(t, "held", "spent")
      /\ About[t].user = req[r].user /\ About[t].purpose = token[t].purpose
      /\ About' = About /\ Logins' = Logins /\ Over' = Over
  BY HandActs DEF UpdatePasswordHash, HandStage, Inv
<1>2. token[t].purpose = "password_reset" /\ req[r].password \in Passwords
  BY DEF UpdatePasswordHash, Inv, TokensWorkOnce, Redeeming, RequestsRemember, Remembers,
         TypeOK, Request
<1>3. user' = [user EXCEPT ![req[r].user].password = req[r].password]
  BY DEF UpdatePasswordHash
<1> HIDE DEF t
<1>4. Promise!ChangePassword(t, req[r].password)
  BY <1>1, <1>2, <1>3 DEF Promise!ChangePassword
<1> QED BY <1>1, <1>2, <1>4

(* Whatever ends a request, the tokens in its hand are burned.                *)
LEMMA FaultBurns ==
    ASSUME \A t \in Tokens : InHand(t)' => InHand(t), UNCHANGED <<user, token, session, mailed>>
    PROVE  \E T \in SUBSET {t \in Tokens : Phase[t] = "held"} : Promise!Burn(T)
<1> DEFINE T == {t \in Tokens : Phase[t] = "held" /\ Phase'[t] = "spent"}
<1>1. \A t \in Tokens : Phase'[t] = IF t \in T THEN "spent" ELSE Phase[t]
  BY DEF Phase
<1>2. Phase' = [t \in Tokens |-> Phase'[t]]
  BY DEF Phase
<1>3. Phase' = [t \in Tokens |-> IF t \in T THEN "spent" ELSE Phase[t]]
  <2> HIDE DEF T
  <2> QED BY <1>1, <1>2
<1>4. Promise!Burn(T)
  BY <1>3, PromiseReads DEF Promise!Burn
<1> QED BY <1>4

(* A session is a login; by password, of an account whose email was found     *)
(* verified.                                                                  *)
LEMMA SessionLogsIn ==
    ASSUME TypeOK, RequestsRemember, NEW r \in Requests, CreateSession(r)
    PROVE  \E s \in Sessions, e \in Emails, via \in Via : Promise!LogIn(s, e, via)
<1> DEFINE via == ViaOf(req[r].pc)
           row == [user |-> req[r].user, state |-> "active", via |-> via]
           entry == [user |-> req[r].user, via |-> via]
<1>1. PICK s \in Sessions : s = NewSession /\ session[s] = None
  BY NewSessionIsFree DEF CreateSession
<1>2. /\ req[r].user \in Emails /\ user[req[r].user] # None
      /\ via \in Via /\ (via = "password" => user[req[r].user].verified)
  BY DEF CreateSession, RequestsRemember, Remembers, TypeOK, Request, Via, ViaOf
<1> HIDE DEF via
<1>3. /\ row \in SessionRow /\ row.user = req[r].user /\ row.state = "active"
      /\ row.via = via
  BY <1>2 DEF SessionRow
<1>4. row # None
  BY <1>3, NoneIsNoValue
<1>5. session'[s] = row /\ \A x \in Sessions : x # s => session'[x] = session[x]
  BY <1>1 DEF CreateSession, TypeOK, via
<1> HIDE DEF row
<1>6. Logins[s] = None /\ Logins' = [Logins EXCEPT ![s] = entry]
  <2>1. Logins[s] = None /\ Logins'[s] = entry
    BY <1>1, <1>3, <1>4, <1>5 DEF Logins
  <2>2. \A x \in Sessions : x # s => Logins'[x] = Logins[x]
    BY <1>5 DEF Logins
  <2>3. Logins = [x \in Sessions |-> Logins[x]] /\ Logins' = [x \in Sessions |-> Logins'[x]]
    BY DEF Logins
  <2>4. Logins' = [Logins EXCEPT ![s] = Logins'[s]]
    BY <2>2, <2>3, DifferAtOnePlace
  <2> QED BY <2>1, <2>4
<1>7. \A t \in Tokens : InHand(t)' <=> InHand(t)
  <2>1. req' = [req EXCEPT ![r] = [req[r] EXCEPT !.pc = "reply", !.session = NewSession]]
    BY DEF CreateSession
  <2>2. [req[r] EXCEPT !.pc = "reply", !.session = NewSession].pc \notin HandStage
    BY DEF TypeOK, Request, HandStage
  <2> QED BY <2>1, <2>2, HandsKeep DEF CreateSession, HandStage
<1>8. Phase' = Phase /\ About' = About /\ user' = user
  BY <1>7, PromiseReads DEF CreateSession
<1>9. Over' = Over
  BY <1>1, <1>3, <1>5 DEF Over
<1>10. Promise!LogIn(s, req[r].user, via)
  BY <1>2, <1>6, <1>8, <1>9 DEF Promise!LogIn
<1> QED BY <1>1, <1>2, <1>10

(* A session that is revoked or expires is a login that ends, if it lasted.   *)
LEMMA RowEnds ==
    ASSUME TypeOK, NEW s \in Sessions, session[s] # None, NEW state \in {"revoked", "expired"},
           session' = [session EXCEPT ![s].state = state],
           \A t \in Tokens : InHand(t)' <=> InHand(t), UNCHANGED <<user, token, mailed>>
    PROVE  Promise!EndLogin(s) \/ UNCHANGED Promise!vars
<1> DEFINE row == [session[s] EXCEPT !.state = state]
<1>1. session[s] \in SessionRow
  BY DEF TypeOK
<1>2. /\ row \in SessionRow /\ row.state # "active"
      /\ row.user = session[s].user /\ row.via = session[s].via
  BY <1>1 DEF SessionRow
<1>3. row # None
  BY <1>2, NoneIsNoValue
<1>4. session'[s] = row /\ \A x \in Sessions : x # s => session'[x] = session[x]
  BY DEF TypeOK
<1> HIDE DEF row
<1>5. Phase' = Phase /\ About' = About /\ user' = user
  BY PromiseReads
<1>6. Logins' = Logins
  <2>1. \A x \in Sessions : Logins'[x] = Logins[x]
    BY <1>2, <1>3, <1>4 DEF Logins
  <2> QED BY <2>1 DEF Logins
<1>7. Over' = Over \cup {s}
  BY <1>2, <1>3, <1>4 DEF Over
<1>8. Logins[s] # None
  <2>1. [user |-> session[s].user, via |-> session[s].via] \in LoginRow
    BY <1>1 DEF SessionRow, LoginRow
  <2> QED BY <2>1, NoneIsNoValue DEF Logins
<1> QED BY <1>5, <1>6, <1>7, <1>8 DEF Promise!EndLogin, Promise!vars

(* Every step keeps the promise.                                              *)
LEMMA StepKeepsPromise == Inv /\ [Next]_vars => [Promise!Next]_(Promise!vars)
<1> SUFFICES ASSUME Inv, [Next]_vars PROVE Promise!Next \/ UNCHANGED Promise!vars
  OBVIOUS
<1> USE DEF Inv
<1>1. ASSUME UNCHANGED <<user, token, session, mailed>>, \A t \in Tokens : InHand(t)' <=> InHand(t)
      PROVE  UNCHANGED Promise!vars
  BY <1>1, PromiseReads DEF Promise!vars
<1>2. ASSUME NEW r \in Requests, NEW e \in Emails, NEW p \in Passwords, Signup(r, e, p)
      PROVE  Promise!Next
  <2>1. \A t \in Tokens : InHand(t)' <=> InHand(t)
    BY <1>2, HandsKeep DEF Signup, Begin, Idle, HandStage
  <2>2. Promise!SignUp(e, p)
    BY <1>2, <2>1, PromiseReads DEF Signup, Promise!SignUp, Promise!Enter
  <2> QED BY <2>2 DEF Promise!Next
<1>3. ASSUME NEW r \in Requests, SignupToken(r) PROVE Promise!Next
  <2>1. /\ req[r].token \in Tokens /\ token[req[r].token] = None
        /\ req[r].user \in Emails /\ user[req[r].user] # None /\ "email_verify" \in Purpose
    BY <1>3 DEF SignupToken, RequestsRemember, Remembers, TokenStage, TypeOK, Request, Purpose
  <2>2. \A t \in Tokens : InHand(t)' <=> InHand(t)
    <3>1. [req[r] EXCEPT !.pc = "send"].pc \notin HandStage
      BY DEF TypeOK, Request, HandStage
    <3> QED BY <1>3, <3>1, HandsKeep DEF SignupToken, HandStage
  <2>3. Promise!Write(req[r].token, "email_verify", req[r].user)
    BY <1>3, <2>1, <2>2, RowWrites DEF SignupToken
  <2> QED BY <2>1, <2>3 DEF Promise!Next
<1>4. ASSUME NEW r \in Requests, NEW e \in Emails, RequestPasswordReset(r, e)
      PROVE  Promise!Next
  <2>1. NewToken \in Tokens /\ token[NewToken] = None /\ "password_reset" \in Purpose
    BY <1>4, NewTokenIsFree DEF RequestPasswordReset, Purpose
  <2>2. \A t \in Tokens : InHand(t)' <=> InHand(t)
    BY <1>4, HandsKeep DEF RequestPasswordReset, Begin, Idle, HandStage
  <2>3. Promise!Write(NewToken, "password_reset", e)
    BY <1>4, <2>1, <2>2, RowWrites DEF RequestPasswordReset
  <2> QED BY <2>1, <2>3 DEF Promise!Next
<1>5. ASSUME NEW r \in Requests, SendMail(r) PROVE Promise!Next \/ UNCHANGED Promise!vars
  BY <1>5, MailSends DEF Promise!Next
<1>6. ASSUME NEW t \in Tokens, Lapse(t) PROVE Promise!Next
  BY <1>6, LapseVoids DEF Promise!Next
<1>7. ASSUME NEW r \in Requests, NEW t \in Tokens, VerifyEmail(r, t) PROVE Promise!Next
  <2> DEFINE q == [Idle EXCEPT !.pc = "markVerified", !.user = token[t].user, !.token = t]
  <2>1. q.pc \in HandStage /\ q.token = t /\ "email_verify" \in Purpose
    BY DEF Idle, HandStage, Purpose
  <2>2. /\ t \in mailed /\ Consumable(t, "email_verify") /\ Consume(t) /\ Begin(r, q)
        /\ UNCHANGED <<user, session, mailed>>
    BY <1>7 DEF VerifyEmail
  <2> HIDE DEF q
  <2>3. Promise!Take(t)
    BY <2>1, <2>2, ConsumeTakes
  <2> QED BY <2>3 DEF Promise!Next
<1>8. ASSUME NEW r \in Requests, NEW t \in Tokens, NEW p \in Passwords, ResetPassword(r, t, p)
      PROVE  Promise!Next
  <2> DEFINE q == [Idle EXCEPT !.pc = "updateHash", !.user = token[t].user, !.token = t,
                               !.password = p]
  <2>1. q.pc \in HandStage /\ q.token = t /\ "password_reset" \in Purpose
    BY DEF Idle, HandStage, Purpose
  <2>2. /\ t \in mailed /\ Consumable(t, "password_reset") /\ Consume(t) /\ Begin(r, q)
        /\ UNCHANGED <<user, session, mailed>>
    BY <1>8 DEF ResetPassword
  <2> HIDE DEF q
  <2>3. Promise!Take(t)
    BY <2>1, <2>2, ConsumeTakes
  <2> QED BY <2>3 DEF Promise!Next
<1>9. ASSUME NEW r \in Requests, MarkEmailVerified(r) \/ UpdatePasswordHash(r)
      PROVE  Promise!Next
  BY <1>9, MarkVerifies, UpdateChanges DEF Promise!Next
<1>10. ASSUME NEW r \in Requests, CreateSession(r) PROVE Promise!Next
  BY <1>10, SessionLogsIn DEF Promise!Next, Via
<1>11. ASSUME NEW r \in Requests, RevokeSession(r)
       PROVE  Promise!Next \/ UNCHANGED Promise!vars
  <2>1. req[r].session \in Sessions /\ session[req[r].session] # None
    BY <1>11 DEF RevokeSession, RequestsRemember, Remembers, SessionStage, TypeOK, Request
  <2>2. \A t \in Tokens : InHand(t)' <=> InHand(t)
    BY <1>11, HandsKeep DEF RevokeSession, End, Idle, HandStage
  <2>3. Promise!EndLogin(req[r].session) \/ UNCHANGED Promise!vars
    BY <1>11, <2>1, <2>2, RowEnds DEF RevokeSession
  <2> QED BY <2>1, <2>3 DEF Promise!Next
<1>12. ASSUME NEW s \in Sessions, Expire(s) PROVE Promise!Next \/ UNCHANGED Promise!vars
  <2>1. \A t \in Tokens : InHand(t)' <=> InHand(t)
    BY <1>12 DEF Expire, InHand
  <2>2. Promise!EndLogin(s) \/ UNCHANGED Promise!vars
    BY <1>12, <2>1, RowEnds DEF Expire
  <2> QED BY <2>2 DEF Promise!Next
<1>13. ASSUME NEW r \in Requests, Reply(r) PROVE UNCHANGED Promise!vars
  <2>1. \A t \in Tokens : InHand(t)' <=> InHand(t)
    BY <1>13, HandsKeep DEF Reply, End, Idle, HandStage
  <2> QED BY <1>1, <1>13, <2>1 DEF Reply
<1>14. ASSUME NEW r \in Requests, NEW e \in Emails, NEW p \in Passwords, Login(r, e, p)
       PROVE  UNCHANGED Promise!vars
  <2>1. \A t \in Tokens : InHand(t)' <=> InHand(t)
    BY <1>14, HandsKeep DEF Login, Begin, Idle, HandStage
  <2> QED BY <1>1, <1>14, <2>1 DEF Login
<1>15. ASSUME NEW r \in Requests, NEW s \in Sessions, Logout(r, s)
       PROVE  UNCHANGED Promise!vars
  <2>1. \A t \in Tokens : InHand(t)' <=> InHand(t)
    BY <1>15, HandsKeep DEF Logout, Begin, Idle, HandStage
  <2> QED BY <1>1, <1>15, <2>1 DEF Logout
<1>16. ASSUME NEW r \in Requests, Interrupt(r) PROVE Promise!Next
  <2>1. \A t \in Tokens : InHand(t)' => InHand(t)
    BY <1>16, HandOfOthers DEF Interrupt, End, Idle, HandStage, InHand
  <2> QED BY <1>16, <2>1, FaultBurns DEF Interrupt, Promise!Next
<1>17. CASE Crash
  <2>1. \A t \in Tokens : ~InHand(t)'
    BY <1>17 DEF Crash, InHand, Idle
  <2> QED BY <1>17, <2>1, FaultBurns DEF Crash, Promise!Next
<1>18. ASSUME NEW r \in Requests, NEW e \in Emails, ProviderSignup(r, e)
       PROVE  Promise!Next
  <2>1. \A t \in Tokens : InHand(t)' <=> InHand(t)
    BY <1>18, HandsKeep DEF ProviderSignup, Begin, Idle, HandStage
  <2>2. Promise!Vouch(e)
    BY <1>18, <2>1, PromiseReads DEF ProviderSignup, Promise!Vouch, Promise!Enter
  <2> QED BY <2>2 DEF Promise!Next
<1>19. ASSUME NEW r \in Requests, NEW e \in Emails, ProviderLogin(r, e)
       PROVE  UNCHANGED Promise!vars
  <2>1. \A t \in Tokens : InHand(t)' <=> InHand(t)
    BY <1>19, HandsKeep DEF ProviderLogin, Begin, Idle, HandStage
  <2> QED BY <1>1, <1>19, <2>1 DEF ProviderLogin
<1>20. CASE UNCHANGED vars
  BY <1>1, <1>20 DEF vars, InHand
<1> QED
  BY <1>2, <1>3, <1>4, <1>5, <1>6, <1>7, <1>8, <1>9, <1>10, <1>11, <1>12, <1>13, <1>14,
     <1>15, <1>16, <1>17, <1>18, <1>19, <1>20 DEF Next, Step

(* Accounts act as promised: with any number of users, tokens, sessions and   *)
(* requests, and whatever breaks off, every behaviour is one of               *)
(* PasswordAccount (auth/service.go, auth/tokens.go, auth/sessions.go).       *)
THEOREM AccountKeepsPromise == Spec => ActsAsPromised
  BY InitPromise, Invariance, StepKeepsPromise, PTL DEF Spec, ActsAsPromised, Promise!Spec
=============================================================================
