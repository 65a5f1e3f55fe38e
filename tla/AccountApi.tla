----------------------------- MODULE AccountApi -----------------------------
(***************************************************************************)
(* The API behind RequireAuthOrToken: tokens, devices, agent sessions and  *)
(* objects of one account, served side by side.                            *)
(***************************************************************************)
EXTENDS DeviceReports, BlobUpload

vars == <<token, req, calls, device, agent, file, object, events, told, cut>>

deviceVars == <<device, agent>>

Stage == {"idle", "createToken", "revokeToken", "deleteDevice", "softDelete",
          "tailscaleInfo", "startSession", "touchSession", "touchActivity", "endSession",
          "stopSession", "upload", "copy", "commit", "createObject", "publish", "answer"}
Ids == Tokens \cup Devices \cup AgentSessions \cup Objects
Request == [pc : Stage, token : Tokens \cup {None}, id : Ids \cup {None}, pos : 0 .. Last + 1]

ASSUME NoneIsNoValue ==
    /\ None \notin Ids \cup Requests \cup TokenRow \cup DeviceRow \cup AgentRow
    /\ \A F \in SUBSET Parts : F # None
ASSUME LastAssumption == Last \in Nat \ {0}

Init == TokensInit /\ ReportsInit /\ UploadInit

\* The routes, with the objects that their {id} names.
Routes(r, t) ==
    \/ Enter(r, t, "createToken", None)
    \/ \E u \in Tokens : Enter(r, t, "revokeToken", u)
    \/ \E d \in Devices, pc \in {"deleteDevice", "tailscaleInfo"} : Enter(r, t, pc, d)
    \/ Enter(r, t, "startSession", None)
    \/ \E s \in AgentSessions, pc \in {"touchSession", "endSession"} : Enter(r, t, pc, s)
    \/ \E o \in Objects, pc \in {"upload", "commit"} : Enter(r, t, pc, o)

Receive(r) ==
    /\ \E t \in Tokens \cup {None} : Routes(r, t)
    /\ UNCHANGED deviceVars /\ UNCHANGED blobVars

TokenStep(r) ==
    /\ CreateToken(r) \/ RevokeToken(r)
    /\ UNCHANGED deviceVars /\ UNCHANGED blobVars

DeviceStep(r) ==
    /\ \/ DeleteDevice(r) \/ SoftDelete(r) \/ TailscaleInfo(r) \/ StartSession(r)
       \/ FindSession(r, "touchSession", "touchActivity") \/ TouchActivity(r)
       \/ FindSession(r, "endSession", "stopSession") \/ StopSession(r)
    /\ UNCHANGED blobVars

BlobStep(r) ==
    /\ \/ Truncate(r) \/ CopyPart(r) \/ FinishUpload(r)
       \/ Commit(r) \/ CreateObject(r) \/ Publish(r) \/ Answer(r)
       \/ Interrupt(r)
    /\ UNCHANGED deviceVars

Next ==
    \/ \E d \in Devices, t \in Tokens : Claim(d, t) /\ UNCHANGED blobVars
    \/ \E r \in Requests : Receive(r) \/ TokenStep(r) \/ DeviceStep(r) \/ BlobStep(r)
    \/ Crash /\ UNCHANGED deviceVars

Spec == Init /\ [][Next]_vars

----------------------------------------------------------------------------
(* Safety *)

\* The type invariant.
TypeOK ==
    /\ token \in [Tokens -> TokenRow \cup {None}]
    /\ req \in [Requests -> Request]
    /\ calls \in Nat
    /\ device \in [Devices -> DeviceRow \cup {None}]
    /\ agent \in [AgentSessions -> AgentRow \cup {None}]
    /\ file \in [Objects -> (SUBSET Parts) \cup {None}]
    /\ object \in [Objects -> BOOLEAN]
    /\ events \in [Objects -> Nat]
    /\ told \in [Objects -> BOOLEAN]
    /\ cut \subseteq Objects \X CostlyStage

\* A report that was judged before the device was deleted, or the session ended, and
\* is written after it, changes nothing that was settled: neither the row of the
\* device nor when the session ended (UpdateTailscaleInfo, SoftDeleteDevice, End).
LateReportsHarmless ==
    [][/\ \A d \in Devices : device[d] # None /\ device[d].deleted => device'[d] = device[d]
       /\ \A s \in AgentSessions : agent[s] # None /\ agent[s].ended # None
             => agent'[s] # None /\ agent'[s].ended = agent[s].ended]_vars

\* Under a revoked token requests only end: those that came before the revocation go
\* on, and no other joins them (RevokeAPIToken: "revoked immediately").
RevokedTokensFade ==
    [][\A t \in Tokens : token[t] # None /\ token[t].revoked
          => /\ token'[t] = token[t]
             /\ \A r \in Requests : Under(req'[r], t) => Under(req[r], t)]_vars

Uploading(o) == {r \in Requests : req[r].pc = "copy" /\ req[r].id = o}

\* The bytes of a committed object are all there, unless an upload is still copying or
\* was cut off: uploads that overlap, and commits in the middle of one, do no harm that
\* lasts (FileBlob.Put, commitBlobHandler).
ObjectsWhole ==
    \A o \in Objects : object[o] =>
        file[o] = Parts \/ Uploading(o) # {} \/ <<o, "copy">> \in cut

\* A commit of o is at one of the stages.
Committing(o, S) == \E r \in Requests : req[r].id = o /\ req[r].pc \in S

\* An object is announced once, after its row, and before a client is told; it stays
\* unannounced, or no client is told, only if its commit was cut off at that stage,
\* however often the commit is repeated (commitBlobHandler).
CommitsAnnounced ==
    \A o \in Objects :
        /\ events[o] <= 1
        /\ events[o] = 1 => object[o]
        /\ told[o] => events[o] = 1
        /\ object[o] => \/ events[o] = 1
                        \/ Committing(o, {"publish"})
                        \/ <<o, "publish">> \in cut
        /\ object[o] => \/ told[o]
                        \/ Committing(o, {"publish", "answer"})
                        \/ {<<o, "publish">>, <<o, "answer">>} \cap cut # {}
=============================================================================
