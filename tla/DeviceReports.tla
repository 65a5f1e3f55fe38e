---------------------------- MODULE DeviceReports ----------------------------
(***************************************************************************)
(* What a device reports of itself: its node in the tailnet, and its agent *)
(* sessions; and its removal by the user.                                  *)
(*                                                                         *)
(* A handler reads a row, judges it, and updates it in a later statement.  *)
(* In between another request may delete the device or end the session.   *)
(* Deleting a device hides its row.  Its token stays valid, its sessions   *)
(* stay, and it may start others: the foreign key finds the hidden row.    *)
(***************************************************************************)
EXTENDS ApiTokens

CONSTANTS AgentSessions \* ids of agent sessions that may be drawn

VARIABLES
    device, \* device[d]: row of devices, or None
    agent   \* agent[s]: row of agent_sessions, or None

\* joined: the row has a tailscale_node_id.
DeviceRow == [deleted : BOOLEAN, joined : BOOLEAN]
\* ended: the request that stamped ended_at, None while running.
\* active: last_activity_at was stamped after the start.
AgentRow == [device : Devices, ended : Requests \cup {None}, active : BOOLEAN]

ReportsInit ==
    /\ device = [d \in Devices |-> None]
    /\ agent = [s \in AgentSessions |-> None]

\* The transaction of ClaimDevice, in full in module DevicePairing.
Claim(d, t) ==
    /\ device[d] = None /\ token[t] = None
    /\ device' = [device EXCEPT ![d] = [deleted |-> FALSE, joined |-> FALSE]]
    /\ token' = [token EXCEPT ![t] = [device |-> d, revoked |-> FALSE]]
    /\ UNCHANGED <<req, calls, agent>>

Present(d) == d \in Devices /\ device[d] # None /\ ~device[d].deleted

----------------------------------------------------------------------------
(* The handlers of /api/devices *)

\* DELETE /{id}: the row is looked up.
DeleteDevice(r) ==
    /\ req[r].pc = "deleteDevice"
    /\ IF Present(req[r].id) THEN Goto(r, "softDelete") ELSE Finish(r)
    /\ UNCHANGED <<token, calls, device, agent>>

SoftDelete(r) ==
    /\ req[r].pc = "softDelete"
    /\ device' = [d \in Devices |-> IF d = req[r].id /\ Present(d)
                                    THEN [device[d] EXCEPT !.deleted = TRUE]
                                    ELSE device[d]]
    /\ Finish(r)
    /\ UNCHANGED <<token, calls, agent>>

\* Broken variant of Reported: WHERE id = ?, of a deleted row too.
ReportedAnyway(d) == device[d] # None

\* The row that UpdateTailscaleInfo meets.
Reported(d) == Present(d)

\* POST /{id}/tailscale-info: of the token's own device only.
TailscaleInfo(r) ==
    /\ req[r].pc = "tailscaleInfo"
    /\ device' = [d \in Devices |-> IF d = req[r].id /\ d = DeviceOf(r) /\ Reported(d)
                                    THEN [device[d] EXCEPT !.joined = TRUE]
                                    ELSE device[d]]
    /\ Finish(r)
    /\ UNCHANGED <<token, calls, agent>>

----------------------------------------------------------------------------
(* The handlers of /api/sessions *)

\* Broken variant of StartSession: of any token.
StartForAnyone(r) ==
    /\ req[r].pc = "startSession"
    /\ \E s \in AgentSessions :
          /\ agent[s] = None
          /\ agent' = [agent EXCEPT ![s] =
                          [device |-> DeviceOf(r), ended |-> None, active |-> FALSE]]
    /\ Finish(r)
    /\ UNCHANGED <<token, calls, device>>

StartSession(r) ==
    /\ req[r].pc = "startSession"
    /\ \/ /\ DeviceOf(r) # None
          /\ \E s \in AgentSessions :
                /\ agent[s] = None
                /\ agent' = [agent EXCEPT ![s] =
                                [device |-> DeviceOf(r), ended |-> None, active |-> FALSE]]
       \/ DeviceOf(r) = None /\ UNCHANGED agent
    /\ Finish(r)
    /\ UNCHANGED <<token, calls, device>>

\* The session of the request is one of its device.
OwnSession(r) ==
    /\ req[r].id \in AgentSessions
    /\ agent[req[r].id] # None
    /\ agent[req[r].id].device = DeviceOf(r)

\* POST /{id}/activity and POST /{id}/end look the session up ...
FindSession(r, pc, update) ==
    /\ req[r].pc = pc
    /\ IF OwnSession(r) THEN Goto(r, update) ELSE Finish(r)
    /\ UNCHANGED <<token, calls, device, agent>>

\* ... and TouchActivity stamps it in any status,
TouchActivity(r) ==
    /\ req[r].pc = "touchActivity"
    /\ agent' = [agent EXCEPT ![req[r].id].active = TRUE]
    /\ Finish(r)
    /\ UNCHANGED <<token, calls, device>>

\* while End stamps a running one only.
StopSession(r) ==
    /\ req[r].pc = "stopSession"
    /\ agent' = IF agent[req[r].id].ended = None
                THEN [agent EXCEPT ![req[r].id].ended = r]
                ELSE agent
    /\ Finish(r)
    /\ UNCHANGED <<token, calls, device>>
=============================================================================
