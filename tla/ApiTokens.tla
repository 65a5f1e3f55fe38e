------------------------------ MODULE ApiTokens ------------------------------
(***************************************************************************)
(* API tokens, and the requests that come in under them.                   *)
(*                                                                         *)
(* Every handler behind RequireAuthOrToken runs in a request that was      *)
(* authenticated once, when it came in; the stages of its handler follow,  *)
(* each one statement on the database or on a file.  A request comes under *)
(* an API token or in a dashboard session (token None), which is taken to  *)
(* stay active.  There is one account.  No code of the server makes a      *)
(* token that expires, so expires_at is left out, and so is last_used_at.  *)
(***************************************************************************)
EXTENDS Naturals

CONSTANTS
    Tokens,   \* ids of API tokens that may be drawn
    Devices,  \* ids of devices that may be drawn
    Requests, \* handler goroutines
    MaxCalls, \* bound on the requests that come in
    None      \* no row, no token, no id

VARIABLES
    token, \* token[t]: row of api_tokens, or None
    req,   \* req[r]: local state of a request
    calls  \* requests that came in so far

\* device: the device the token was made for by a claim, or None.
TokenRow == [device : Devices \cup {None}, revoked : BOOLEAN]

\* id: the {id} of the path.  pos: the part of the body that is copied next.
Idle == [pc |-> "idle", token |-> None, id |-> None, pos |-> 0]

Goto(r, pc) == req' = [req EXCEPT ![r].pc = pc]
Finish(r) == req' = [req EXCEPT ![r] = Idle]

TokensInit ==
    /\ token = [t \in Tokens |-> None]
    /\ req = [r \in Requests |-> Idle]
    /\ calls = 0

----------------------------------------------------------------------------
\* Broken variant of Accepted: revoked_at is read and not looked at.
AcceptedAlways(t) == token[t] # None

\* What LookupAPIToken finds valid.
Accepted(t) == token[t] # None /\ ~token[t].revoked

\* RequireAuthOrToken lets a request through to the first stage of its handler.
Enter(r, t, pc, id) ==
    /\ req[r].pc = "idle"
    /\ calls < MaxCalls
    /\ t # None => Accepted(t)
    /\ req' = [req EXCEPT ![r] = [pc |-> pc, token |-> t, id |-> id, pos |-> 0]]
    /\ calls' = calls + 1
    /\ UNCHANGED token

\* auth.DeviceID(ctx).
DeviceOf(r) == IF req[r].token = None THEN None ELSE token[req[r].token].device

\* q, the local state of a request, is at work under a token.
Under(q, t) == q.pc # "idle" /\ q.token = t

----------------------------------------------------------------------------
(* The handlers of /api/tokens *)

CreateToken(r) ==
    /\ req[r].pc = "createToken"
    /\ \E t \in Tokens :
          /\ token[t] = None
          /\ token' = [token EXCEPT ![t] = [device |-> None, revoked |-> FALSE]]
    /\ Finish(r)
    /\ UNCHANGED calls

\* The UPDATE of RevokeAPIToken meets any row with the id.
RevokeToken(r) ==
    /\ req[r].pc = "revokeToken"
    /\ token' = [t \in Tokens |-> IF t = req[r].id /\ token[t] # None
                                  THEN [token[t] EXCEPT !.revoked = TRUE]
                                  ELSE token[t]]
    /\ Finish(r)
    /\ UNCHANGED calls
=============================================================================
