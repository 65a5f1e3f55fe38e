-------------------------- MODULE AccountApi_proof --------------------------
(***************************************************************************)
(* For any number of tokens, devices, sessions, objects and requests: late *)
(* reports are harmless, revocation is final, committed objects are whole  *)
(* and announced unless an upload or a commit was cut off.                 *)
(***************************************************************************)
EXTENDS AccountApi, TLAPS

BlobStage == {"upload", "copy", "commit", "createObject", "publish", "answer"}

\* What a request carries agrees with the tables.
Carries(r) ==
    /\ req[r].pc = "idle" => req[r] = Idle
    /\ req[r].token # None => token[req[r].token] # None
    /\ req[r].pc \in {"touchActivity", "stopSession"} =>
          req[r].id \in AgentSessions /\ agent[req[r].id] # None
    /\ req[r].pc \in BlobStage => req[r].id \in Objects
    /\ req[r].pc \in {"copy", "createObject"} => file[req[r].id] # None
    /\ req[r].pc = "copy" => req[r].pos >= 1

RequestsCarry == \A r \in Requests : Carries(r)

\* What is missing in the file of o will be copied by an upload that runs.
Covered(o) ==
    \E r \in Requests : /\ req[r].pc = "copy" /\ req[r].id = o
                        /\ \A p \in Parts : p \in file[o] \/ p >= req[r].pos

FilesCovered ==
    \A o \in Objects :
        /\ object[o] => file[o] # None
        /\ file[o] # None => file[o] = Parts \/ Covered(o) \/ <<o, "copy">> \in cut

\* The commit that made a row is the only one past the insert.
OneCommit ==
    /\ \A q, r \in Requests :
          /\ req[q].pc \in {"publish", "answer"} /\ req[r].pc \in {"publish", "answer"}
          /\ req[q].id = req[r].id
          => q = r
    /\ \A r \in Requests :
          /\ req[r].pc = "publish" => object[req[r].id] /\ events[req[r].id] = 0
          /\ req[r].pc = "answer" => events[req[r].id] = 1

\* The inductive invariant.
Inv == TypeOK /\ RequestsCarry /\ FilesCovered /\ OneCommit /\ CommitsAnnounced

(* Requests that end, move on and come in keep their type.                   *)
LEMMA IdleIsRequest == Idle \in Request
  BY LastAssumption DEF Idle, Request, Stage

LEMMA FinishIsTyped ==
    ASSUME TypeOK, NEW r \in Requests, Finish(r)
    PROVE  req' \in [Requests -> Request]
  BY IdleIsRequest DEF TypeOK, Finish

LEMMA GotoIsTyped ==
    ASSUME TypeOK, NEW r \in Requests, NEW pc \in Stage, Goto(r, pc)
    PROVE  req' \in [Requests -> Request]
  BY DEF TypeOK, Goto, Request

(* Nothing but the request itself is touched by its end or its next stage.   *)
LEMMA FinishFrame ==
    ASSUME TypeOK, NEW r \in Requests, Finish(r)
    PROVE  req'[r] = Idle /\ \A q \in Requests : q # r => req'[q] = req[q]
  BY DEF TypeOK, Finish

LEMMA GotoFrame ==
    ASSUME TypeOK, NEW r \in Requests, NEW pc, Goto(r, pc)
    PROVE  /\ req'[r].pc = pc /\ req'[r].token = req[r].token
           /\ req'[r].id = req[r].id /\ req'[r].pos = req[r].pos
           /\ \A q \in Requests : q # r => req'[q] = req[q]
  BY DEF TypeOK, Goto, Request

(* A request comes in under a token that exists, to a stage that names what  *)
(* its id is of.                                                             *)
LEMMA ReceiveForm ==
    ASSUME TypeOK, NEW r \in Requests, Receive(r)
    PROVE  \E t \in Tokens \cup {None}, i \in Ids \cup {None},
              pc \in {"createToken", "revokeToken", "deleteDevice", "tailscaleInfo",
                      "startSession", "touchSession", "endSession", "upload", "commit"} :
              /\ req[r].pc = "idle"
              /\ t # None => token[t] # None /\ ~token[t].revoked
              /\ pc \in {"upload", "commit"} => i \in Objects
              /\ req' = [req EXCEPT ![r] = [pc |-> pc, token |-> t, id |-> i, pos |-> 0]]
              /\ calls' = calls + 1
              /\ UNCHANGED <<token, device, agent, file, object, events, told, cut>>
<1>1. PICK t \in Tokens \cup {None} : Routes(r, t)
  BY DEF Receive
<1>2. UNCHANGED <<device, agent, file, object, events, told, cut>>
  BY DEF Receive, deviceVars, blobVars
<1>3. ASSUME NEW i \in Ids \cup {None},
             NEW pc \in {"createToken", "revokeToken", "deleteDevice", "tailscaleInfo",
                         "startSession", "touchSession", "endSession", "upload", "commit"},
             pc \in {"upload", "commit"} => i \in Objects,
             Enter(r, t, pc, i)
      PROVE  /\ req[r].pc = "idle"
             /\ t # None => token[t] # None /\ ~token[t].revoked
             /\ req' = [req EXCEPT ![r] = [pc |-> pc, token |-> t, id |-> i, pos |-> 0]]
             /\ calls' = calls + 1
             /\ UNCHANGED token
  BY <1>3 DEF Enter, Accepted
<1> QED BY <1>1, <1>2, <1>3 DEF Routes, Ids

(* The tables are empty and nothing runs at the start (schema).              *)
LEMMA InitEstablishes == Init => Inv
<1> SUFFICES ASSUME Init PROVE Inv
  OBVIOUS
<1> USE NoneIsNoValue DEF Init, TokensInit, ReportsInit, UploadInit
<1>1. TypeOK
  <2>1. /\ token \in [Tokens -> TokenRow \cup {None}]
        /\ device \in [Devices -> DeviceRow \cup {None}]
        /\ agent \in [AgentSessions -> AgentRow \cup {None}]
        /\ file \in [Objects -> (SUBSET Parts) \cup {None}]
    OBVIOUS
  <2>2. req \in [Requests -> Request]
    BY IdleIsRequest
  <2> QED BY <2>1, <2>2 DEF TypeOK
<1>2. RequestsCarry
  BY DEF RequestsCarry, Carries, Idle, BlobStage
<1>3. FilesCovered
  BY DEF FilesCovered
<1>4. OneCommit
  BY DEF OneCommit, Idle
<1>5. CommitsAnnounced
  BY DEF CommitsAnnounced
<1> QED BY <1>1, <1>2, <1>3, <1>4, <1>5 DEF Inv

(* Every step keeps the types.                                               *)
LEMMA NextTypeOK == TypeOK /\ RequestsCarry /\ [Next]_vars => TypeOK'
<1> SUFFICES ASSUME TypeOK, RequestsCarry, [Next]_vars PROVE TypeOK'
  OBVIOUS
<1> USE NoneIsNoValue, LastAssumption
\* Only the requests change.
<1>0. ASSUME req' \in [Requests -> Request],
             UNCHANGED <<token, calls, device, agent, file, object, events, told, cut>>
      PROVE  TypeOK'
  BY <1>0 DEF TypeOK
<1>1. ASSUME NEW d \in Devices, NEW t \in Tokens, Claim(d, t), UNCHANGED blobVars
      PROVE  TypeOK'
  <2>1. /\ [device |-> d, revoked |-> FALSE] \in TokenRow
        /\ [deleted |-> FALSE, joined |-> FALSE] \in DeviceRow
    BY DEF TokenRow, DeviceRow
  <2> QED BY <1>1, <2>1 DEF Claim, blobVars, TypeOK
<1>2. ASSUME NEW r \in Requests, Receive(r) PROVE TypeOK'
  <2>1. PICK t \in Tokens \cup {None}, i \in Ids \cup {None},
             pc \in {"createToken", "revokeToken", "deleteDevice", "tailscaleInfo",
                     "startSession", "touchSession", "endSession", "upload", "commit"} :
           /\ req' = [req EXCEPT ![r] = [pc |-> pc, token |-> t, id |-> i, pos |-> 0]]
           /\ calls' = calls + 1
           /\ UNCHANGED <<token, device, agent, file, object, events, told, cut>>
    BY <1>2, ReceiveForm
  <2>2. [pc |-> pc, token |-> t, id |-> i, pos |-> 0] \in Request
    BY DEF Request, Stage
  <2>3. req' \in [Requests -> Request] /\ calls' \in Nat
    BY <2>1, <2>2 DEF TypeOK
  <2> QED BY <2>1, <2>3 DEF TypeOK
<1>3. ASSUME NEW r \in Requests, CreateToken(r), UNCHANGED deviceVars, UNCHANGED blobVars
      PROVE  TypeOK'
  <2>1. [device |-> None, revoked |-> FALSE] \in TokenRow
    BY DEF TokenRow
  <2>2. req' \in [Requests -> Request]
    BY <1>3, FinishIsTyped DEF CreateToken
  <2> QED BY <1>3, <2>1, <2>2 DEF CreateToken, deviceVars, blobVars, TypeOK
<1>4. ASSUME NEW r \in Requests, RevokeToken(r), UNCHANGED deviceVars, UNCHANGED blobVars
      PROVE  TypeOK'
  <2>1. ASSUME NEW t \in Tokens, token[t] # None
        PROVE  [token[t] EXCEPT !.revoked = TRUE] \in TokenRow
    <3>1. token[t] \in TokenRow
      BY <2>1 DEF TypeOK
    <3> QED BY <3>1 DEF TokenRow
  <2>2. req' \in [Requests -> Request]
    BY <1>4, FinishIsTyped DEF RevokeToken
  <2> QED BY <1>4, <2>1, <2>2 DEF RevokeToken, deviceVars, blobVars, TypeOK
<1>5. ASSUME NEW r \in Requests, DeleteDevice(r), UNCHANGED blobVars PROVE TypeOK'
  <2>1. req' \in [Requests -> Request]
    BY <1>5, FinishIsTyped, GotoIsTyped DEF DeleteDevice, Stage
  <2> QED BY <1>0, <1>5, <2>1 DEF DeleteDevice, blobVars
<1>6. ASSUME NEW r \in Requests, SoftDelete(r) \/ TailscaleInfo(r), UNCHANGED blobVars
      PROVE  TypeOK'
  <2>1. req' \in [Requests -> Request]
    BY <1>6, FinishIsTyped DEF SoftDelete, TailscaleInfo
  <2>2. \A d \in Devices : device[d] # None =>
           /\ [device[d] EXCEPT !.deleted = TRUE] \in DeviceRow
           /\ [device[d] EXCEPT !.joined = TRUE] \in DeviceRow
    BY DEF TypeOK, DeviceRow
  <2>3. device' \in [Devices -> DeviceRow \cup {None}]
    <3>1. CASE SoftDelete(r)
      BY <2>2, <3>1 DEF SoftDelete, Present, TypeOK
    <3>2. CASE TailscaleInfo(r)
      BY <2>2, <3>2 DEF TailscaleInfo, Reported, Present, TypeOK
    <3> QED BY <1>6, <3>1, <3>2
  <2> QED BY <1>6, <2>1, <2>3 DEF SoftDelete, TailscaleInfo, blobVars, TypeOK
<1>7. ASSUME NEW r \in Requests, StartSession(r), UNCHANGED blobVars PROVE TypeOK'
  <2>1. req' \in [Requests -> Request]
    BY <1>7, FinishIsTyped DEF StartSession
  <2>2. CASE UNCHANGED agent
    BY <1>7, <2>1, <2>2 DEF StartSession, blobVars, TypeOK
  <2>3. CASE DeviceOf(r) # None
    <3>1. DeviceOf(r) \in Devices
      <4>1. req[r].token # None
        BY <2>3 DEF DeviceOf
      <4>2. req[r].token \in Tokens /\ token[req[r].token] # None
        BY <4>1 DEF RequestsCarry, Carries, TypeOK, Request
      <4>3. token[req[r].token] \in TokenRow
        BY <4>2 DEF TypeOK
      <4> QED BY <2>3, <4>1, <4>3 DEF DeviceOf, TokenRow
    <3>2. [device |-> DeviceOf(r), ended |-> None, active |-> FALSE] \in AgentRow
      BY <3>1 DEF AgentRow
    <3>3. PICK s \in AgentSessions :
             agent' = [agent EXCEPT ![s] = [device |-> DeviceOf(r), ended |-> None,
                                            active |-> FALSE]]
      BY <1>7, <2>3 DEF StartSession
    <3>4. agent' \in [AgentSessions -> AgentRow \cup {None}]
      BY <3>2, <3>3 DEF TypeOK
    <3> QED BY <1>7, <2>1, <3>4 DEF StartSession, blobVars, TypeOK
  <2> QED BY <1>7, <2>2, <2>3 DEF StartSession
<1>8. ASSUME NEW r \in Requests, NEW pc \in Stage, NEW up \in Stage,
             FindSession(r, pc, up), UNCHANGED blobVars
      PROVE  TypeOK'
  <2>1. req' \in [Requests -> Request]
    BY <1>8, FinishIsTyped, GotoIsTyped DEF FindSession
  <2> QED BY <1>0, <1>8, <2>1 DEF FindSession, blobVars
<1>9. ASSUME NEW r \in Requests, TouchActivity(r) \/ StopSession(r), UNCHANGED blobVars
      PROVE  TypeOK'
  <2>1. req' \in [Requests -> Request]
    BY <1>9, FinishIsTyped DEF TouchActivity, StopSession
  <2>2. req[r].id \in AgentSessions /\ agent[req[r].id] \in AgentRow
    BY <1>9 DEF TouchActivity, StopSession, RequestsCarry, Carries, TypeOK
  <2>3. /\ [agent[req[r].id] EXCEPT !.active = TRUE] \in AgentRow
        /\ [agent[req[r].id] EXCEPT !.ended = r] \in AgentRow
    BY <2>2 DEF AgentRow
  <2>4. \/ agent' = agent
        \/ agent' = [agent EXCEPT ![req[r].id] = [agent[req[r].id] EXCEPT !.active = TRUE]]
        \/ agent' = [agent EXCEPT ![req[r].id] = [agent[req[r].id] EXCEPT !.ended = r]]
    BY <1>9 DEF TouchActivity, StopSession
  <2>5. agent' \in [AgentSessions -> AgentRow \cup {None}]
    BY <2>3, <2>4 DEF TypeOK
  <2> QED BY <1>9, <2>1, <2>5 DEF TouchActivity, StopSession, blobVars, TypeOK
<1>10. ASSUME NEW r \in Requests, Truncate(r), UNCHANGED deviceVars PROVE TypeOK'
  <2>1. 1 \in 0 .. Last + 1 /\ {} \in SUBSET Parts
    OBVIOUS
  <2>2. [req[r] EXCEPT !.pc = "copy", !.pos = 1] \in Request
    <3>1. req[r] \in Request /\ "copy" \in Stage
      BY DEF TypeOK, Stage
    <3> QED BY <2>1, <3>1 DEF Request
  <2>3. req' \in [Requests -> Request]
    <3>1. req' = [req EXCEPT ![r] = [req[r] EXCEPT !.pc = "copy", !.pos = 1]]
      BY <1>10 DEF Truncate
    <3> QED BY <2>2, <3>1 DEF TypeOK
  <2>4. file' \in [Objects -> (SUBSET Parts) \cup {None}]
    BY <1>10 DEF Truncate, TypeOK
  <2> QED BY <1>10, <2>3, <2>4 DEF Truncate, deviceVars, TypeOK
<1>11. ASSUME NEW r \in Requests, CopyPart(r), UNCHANGED deviceVars PROVE TypeOK'
  <2>1. req[r] \in Request /\ req[r].pos \in 1 .. Last
    BY <1>11 DEF CopyPart, TypeOK, Parts
  <2>2. [req[r] EXCEPT !.pos = req[r].pos + 1] \in Request
    BY <2>1 DEF Request
  <2>3. req' = [req EXCEPT ![r] = [req[r] EXCEPT !.pos = req[r].pos + 1]]
    BY <1>11 DEF CopyPart
  <2>4. req[r].id \in Objects /\ file[req[r].id] # None
    BY <1>11 DEF CopyPart, RequestsCarry, Carries, BlobStage
  <2>5. file[req[r].id] \cup {req[r].pos} \in SUBSET Parts
    BY <1>11, <2>4 DEF CopyPart, TypeOK
  <2>6. file' = [file EXCEPT ![req[r].id] = file[req[r].id] \cup {req[r].pos}]
    BY <1>11 DEF CopyPart
  <2>7. req' \in [Requests -> Request]
    BY <2>2, <2>3 DEF TypeOK
  <2>8. file' \in [Objects -> (SUBSET Parts) \cup {None}]
    BY <2>5, <2>6 DEF TypeOK
  <2> QED BY <1>11, <2>7, <2>8 DEF CopyPart, deviceVars, TypeOK
<1>12. ASSUME NEW r \in Requests, FinishUpload(r) \/ Commit(r), UNCHANGED deviceVars
       PROVE  TypeOK'
  <2>1. req' \in [Requests -> Request]
    BY <1>12, FinishIsTyped, GotoIsTyped DEF FinishUpload, Commit, Stage
  <2> QED BY <1>0, <1>12, <2>1 DEF FinishUpload, Commit, deviceVars
<1>13. ASSUME NEW r \in Requests, CreateObject(r), UNCHANGED deviceVars PROVE TypeOK'
  <2>1. req' \in [Requests -> Request]
    BY <1>13, FinishIsTyped, GotoIsTyped DEF CreateObject, Stage
  <2> QED BY <1>13, <2>1 DEF CreateObject, deviceVars, TypeOK
<1>14. ASSUME NEW r \in Requests, Publish(r), UNCHANGED deviceVars PROVE TypeOK'
  <2>1. req' \in [Requests -> Request]
    BY <1>14, GotoIsTyped DEF Publish, Stage
  <2>2. events[req[r].id] + 1 \in Nat
    BY <1>14 DEF Publish, TypeOK, RequestsCarry, Carries, BlobStage
  <2> QED BY <1>14, <2>1, <2>2 DEF Publish, deviceVars, TypeOK
<1>15. ASSUME NEW r \in Requests, Answer(r), UNCHANGED deviceVars PROVE TypeOK'
  <2>1. req' \in [Requests -> Request]
    BY <1>15, FinishIsTyped DEF Answer
  <2> QED BY <1>15, <2>1 DEF Answer, deviceVars, TypeOK
<1>16. \A R \in SUBSET Requests : Costs(R) \subseteq Objects \X CostlyStage
  BY DEF Costs, CostlyStage, RequestsCarry, Carries, BlobStage
<1>17. ASSUME NEW r \in Requests, Interrupt(r), UNCHANGED deviceVars PROVE TypeOK'
  <2>1. req' \in [Requests -> Request]
    BY <1>17, FinishIsTyped DEF Interrupt
  <2>2. cut' \subseteq Objects \X CostlyStage
    BY <1>16, <1>17 DEF Interrupt, TypeOK
  <2> QED BY <1>17, <2>1, <2>2 DEF Interrupt, deviceVars, TypeOK
<1>18. ASSUME Crash, UNCHANGED deviceVars PROVE TypeOK'
  <2>1. req' \in [Requests -> Request]
    BY <1>18, IdleIsRequest DEF Crash
  <2>2. cut' \subseteq Objects \X CostlyStage
    BY <1>16, <1>18 DEF Crash, TypeOK
  <2> QED BY <1>18, <2>1, <2>2 DEF Crash, deviceVars, TypeOK
<1>19. CASE UNCHANGED vars
  BY <1>19 DEF vars, TypeOK
<1>20. ASSUME NEW r \in Requests, TokenStep(r) PROVE TypeOK'
  BY <1>20, <1>3, <1>4 DEF TokenStep
<1>21. ASSUME NEW r \in Requests, DeviceStep(r) PROVE TypeOK'
  <2>1. {"touchSession", "touchActivity", "endSession", "stopSession"} \subseteq Stage
    BY DEF Stage
  <2> QED BY <1>21, <2>1, <1>5, <1>6, <1>7, <1>8, <1>9 DEF DeviceStep
<1>22. ASSUME NEW r \in Requests, BlobStep(r) PROVE TypeOK'
  BY <1>22, <1>10, <1>11, <1>12, <1>13, <1>14, <1>15, <1>17 DEF BlobStep
<1> QED BY <1>1, <1>2, <1>18, <1>19, <1>20, <1>21, <1>22 DEF Next

(* No row and no file goes away.                                             *)
LEMMA RowsStay ==
    ASSUME TypeOK, RequestsCarry, [Next]_vars
    PROVE  /\ \A t \in Tokens : token[t] # None => token'[t] # None
           /\ \A s \in AgentSessions : agent[s] # None => agent'[s] # None
           /\ \A o \in Objects : file[o] # None => file'[o] # None
<1> USE NoneIsNoValue
<1>t. \A t \in Tokens : token[t] # None => token'[t] # None
  <2> SUFFICES ASSUME NEW t \in Tokens, token[t] # None PROVE token'[t] # None
    OBVIOUS
  <2>1. token[t] \in TokenRow
    BY DEF TypeOK
  <2>2. ASSUME NEW d \in Devices, NEW u \in Tokens, Claim(d, u) PROVE token'[t] # None
    BY <2>2 DEF Claim, TypeOK
  <2>3. ASSUME NEW r \in Requests, CreateToken(r) PROVE token'[t] # None
    BY <2>3 DEF CreateToken, TypeOK
  <2>4. ASSUME NEW r \in Requests, RevokeToken(r) PROVE token'[t] # None
    <3>1. [token[t] EXCEPT !.revoked = TRUE] \in TokenRow
      BY <2>1 DEF TokenRow
    <3> QED BY <2>4, <3>1 DEF RevokeToken
  <2>5. CASE UNCHANGED token
    BY <2>5
  <2> QED BY <2>2, <2>3, <2>4, <2>5, ReceiveForm
          DEF Next, vars, TokenStep, DeviceStep, BlobStep, Crash, DeleteDevice, SoftDelete,
              TailscaleInfo, StartSession, FindSession, TouchActivity, StopSession, Truncate,
              CopyPart, FinishUpload, Commit, CreateObject, Publish, Answer, Interrupt
<1>s. \A s \in AgentSessions : agent[s] # None => agent'[s] # None
  <2> SUFFICES ASSUME NEW s \in AgentSessions, agent[s] # None PROVE agent'[s] # None
    OBVIOUS
  <2>1. ASSUME NEW r \in Requests, StartSession(r) PROVE agent'[s] # None
    BY <2>1 DEF StartSession, TypeOK
  <2>2. ASSUME NEW r \in Requests, TouchActivity(r) \/ StopSession(r) PROVE agent'[s] # None
    <3>1. agent[s] \in AgentRow
      BY DEF TypeOK
    <3>2. /\ [agent[s] EXCEPT !.active = TRUE] \in AgentRow
          /\ [agent[s] EXCEPT !.ended = r] \in AgentRow
      BY <3>1 DEF AgentRow
    <3>3. \/ agent'[s] = agent[s]
          \/ agent'[s] = [agent[s] EXCEPT !.active = TRUE]
          \/ agent'[s] = [agent[s] EXCEPT !.ended = r]
      <4>1. agent \in [AgentSessions -> AgentRow \cup {None}]
        BY DEF TypeOK
      <4>2. CASE TouchActivity(r)
        BY <4>1, <4>2 DEF TouchActivity
      <4>3. CASE StopSession(r)
        BY <4>1, <4>3 DEF StopSession
      <4> QED BY <2>2, <4>2, <4>3
    <3> QED BY <3>1, <3>2, <3>3
  <2>3. CASE UNCHANGED agent
    BY <2>3
  <2> QED BY <2>1, <2>2, <2>3, ReceiveForm
          DEF Next, vars, deviceVars, TokenStep, DeviceStep, BlobStep, Claim, DeleteDevice,
              SoftDelete, TailscaleInfo, FindSession
<1>o. \A o \in Objects : file[o] # None => file'[o] # None
  <2> SUFFICES ASSUME NEW o \in Objects, file[o] # None PROVE file'[o] # None
    OBVIOUS
  <2>1. ASSUME NEW r \in Requests, Truncate(r) PROVE file'[o] # None
    BY <2>1 DEF Truncate, TypeOK
  <2>2. ASSUME NEW r \in Requests, CopyPart(r) PROVE file'[o] # None
    <3>1. file[o] \cup {req[r].pos} \in SUBSET Parts
      BY <2>2 DEF CopyPart, TypeOK
    <3>2. file'[o] = file[o] \/ file'[o] = file[o] \cup {req[r].pos}
      BY <2>2 DEF CopyPart, TypeOK
    <3> QED BY <3>1, <3>2
  <2>3. CASE UNCHANGED file
    BY <2>3
  <2> QED BY <2>1, <2>2, <2>3, ReceiveForm
          DEF Next, vars, blobVars, TokenStep, DeviceStep, BlobStep, Crash,
              FinishUpload, Commit, CreateObject, Publish, Answer, Interrupt
<1> QED BY <1>t, <1>s, <1>o

(* Every step keeps what requests carry.                                     *)
LEMMA NextCarries == TypeOK /\ RequestsCarry /\ [Next]_vars => RequestsCarry'
<1> SUFFICES ASSUME TypeOK, RequestsCarry, [Next]_vars PROVE RequestsCarry'
  OBVIOUS
<1> USE NoneIsNoValue
<1>0. /\ \A t \in Tokens : token[t] # None => token'[t] # None
      /\ \A s \in AgentSessions : agent[s] # None => agent'[s] # None
      /\ \A o \in Objects : file[o] # None => file'[o] # None
  BY RowsStay
<1>a. ASSUME NEW q \in Requests, req'[q] = req[q] PROVE Carries(q)'
  <2>1. req[q] \in Request /\ Carries(q)
    BY DEF TypeOK, RequestsCarry
  <2> QED BY <1>0, <1>a, <2>1 DEF Carries, Request, BlobStage
<1>b. ASSUME NEW q \in Requests, req'[q] = Idle PROVE Carries(q)'
  BY <1>b DEF Carries, Idle, BlobStage
\* A request that goes on.
<1>c. ASSUME NEW r \in Requests, NEW pc \in Stage, Goto(r, pc), req[r].pc # "idle",
             pc \notin {"idle", "copy"},
             pc \in {"touchActivity", "stopSession"} =>
                req[r].id \in AgentSessions /\ agent'[req[r].id] # None,
             pc \in BlobStage => req[r].id \in Objects,
             pc = "createObject" => file'[req[r].id] # None
      PROVE  RequestsCarry'
  <2>1. /\ req'[r].pc = pc /\ req'[r].token = req[r].token /\ req'[r].id = req[r].id
        /\ \A q \in Requests : q # r => req'[q] = req[q]
    BY <1>c, GotoFrame
  <2>2. req[r].token # None => token'[req[r].token] # None
    BY <1>0 DEF RequestsCarry, Carries, TypeOK, Request
  <2>3. Carries(r)'
    BY <1>c, <2>1, <2>2 DEF Carries
  <2> QED BY <1>a, <2>1, <2>3 DEF RequestsCarry
<1>d. ASSUME NEW r \in Requests, Finish(r) PROVE RequestsCarry'
  BY <1>a, <1>b, <1>d, FinishFrame DEF RequestsCarry
<1>e. ASSUME UNCHANGED req PROVE RequestsCarry'
  BY <1>a, <1>e DEF RequestsCarry
<1>1. ASSUME NEW r \in Requests, Receive(r) PROVE RequestsCarry'
  <2>1. PICK t \in Tokens \cup {None}, i \in Ids \cup {None},
             pc \in {"createToken", "revokeToken", "deleteDevice", "tailscaleInfo",
                     "startSession", "touchSession", "endSession", "upload", "commit"} :
           /\ t # None => token[t] # None
           /\ pc \in {"upload", "commit"} => i \in Objects
           /\ req' = [req EXCEPT ![r] = [pc |-> pc, token |-> t, id |-> i, pos |-> 0]]
           /\ UNCHANGED token
    BY <1>1, ReceiveForm
  <2>2. req'[r] = [pc |-> pc, token |-> t, id |-> i, pos |-> 0]
    BY <2>1 DEF TypeOK
  <2>3. \A q \in Requests : q # r => req'[q] = req[q]
    BY <2>1 DEF TypeOK
  <2>4. Carries(r)'
    BY <2>1, <2>2 DEF Carries, BlobStage
  <2> QED BY <1>a, <2>3, <2>4 DEF RequestsCarry
<1>2. ASSUME NEW r \in Requests, TokenStep(r) PROVE RequestsCarry'
  BY <1>2, <1>d DEF TokenStep, CreateToken, RevokeToken
<1>3. ASSUME NEW r \in Requests, DeviceStep(r) PROVE RequestsCarry'
  <2>1. CASE DeleteDevice(r)
    BY <2>1, <1>c, <1>d DEF DeleteDevice, Stage, BlobStage
  <2>2. ASSUME NEW pc \in {"touchSession", "endSession"},
               NEW up \in {"touchActivity", "stopSession"}, FindSession(r, pc, up)
        PROVE  RequestsCarry'
    <3>1. CASE Finish(r)
      BY <1>d, <3>1
    <3>2. CASE OwnSession(r) /\ Goto(r, up)
      <4>1. req[r].id \in AgentSessions /\ agent'[req[r].id] # None /\ req[r].pc # "idle"
        BY <2>2, <3>2 DEF FindSession, OwnSession
      <4>2. up \in Stage /\ up \notin BlobStage
        BY DEF Stage, BlobStage
      <4> QED BY <1>c, <3>2, <4>1, <4>2
    <3> QED BY <2>2, <3>1, <3>2 DEF FindSession
  <2> QED BY <1>3, <1>d, <2>1, <2>2
          DEF DeviceStep, SoftDelete, TailscaleInfo, StartSession, TouchActivity, StopSession
<1>4. ASSUME NEW r \in Requests, Truncate(r) PROVE RequestsCarry'
  <2>1. req[r].id \in Objects /\ Carries(r) /\ req[r] \in Request
    BY <1>4 DEF Truncate, RequestsCarry, Carries, BlobStage, TypeOK
  <2>2. /\ req'[r].pc = "copy" /\ req'[r].pos = 1 /\ req'[r].id = req[r].id
        /\ req'[r].token = req[r].token /\ \A q \in Requests : q # r => req'[q] = req[q]
    BY <1>4 DEF Truncate, TypeOK, Request
  <2>3. file'[req[r].id] = {}
    BY <1>4, <2>1 DEF Truncate, TypeOK
  <2>4. Carries(r)'
    BY <1>0, <2>1, <2>2, <2>3 DEF Carries, Request
  <2> QED BY <1>a, <2>2, <2>4 DEF RequestsCarry
<1>5. ASSUME NEW r \in Requests, CopyPart(r) PROVE RequestsCarry'
  <2>1. /\ req[r].id \in Objects /\ file[req[r].id] # None
        /\ Carries(r) /\ req[r] \in Request /\ req[r].pc = "copy"
    BY <1>5 DEF CopyPart, RequestsCarry, Carries, BlobStage, TypeOK
  <2>2. /\ req'[r].pc = "copy" /\ req'[r].pos = req[r].pos + 1 /\ req'[r].id = req[r].id
        /\ req'[r].token = req[r].token /\ \A q \in Requests : q # r => req'[q] = req[q]
    BY <1>5 DEF CopyPart, TypeOK, Request
  <2>3. req'[r].pos >= 1
    BY <1>5, <2>2, LastAssumption DEF CopyPart, Parts
  <2>4. Carries(r)'
    BY <1>0, <2>1, <2>2, <2>3 DEF Carries, Request
  <2> QED BY <1>a, <2>2, <2>4 DEF RequestsCarry
<1>6. ASSUME NEW r \in Requests, Commit(r) PROVE RequestsCarry'
  BY <1>6, <1>c, <1>d DEF Commit, Stage, BlobStage, RequestsCarry, Carries
<1>7. ASSUME NEW r \in Requests, CreateObject(r) PROVE RequestsCarry'
  BY <1>7, <1>c, <1>d DEF CreateObject, Stage, BlobStage, RequestsCarry, Carries
<1>8. ASSUME NEW r \in Requests, Publish(r) PROVE RequestsCarry'
  BY <1>8, <1>c DEF Publish, Stage, BlobStage, RequestsCarry, Carries
<1>9. ASSUME NEW r \in Requests, FinishUpload(r) \/ Answer(r) \/ Interrupt(r)
      PROVE  RequestsCarry'
  BY <1>9, <1>d DEF FinishUpload, Answer, Interrupt
<1>10. CASE Crash
  BY <1>10, <1>b DEF Crash, RequestsCarry
<1> QED BY <1>e, <1>1, <1>2, <1>3, <1>4, <1>5, <1>6, <1>7, <1>8, <1>9, <1>10
        DEF Next, vars, BlobStep, Claim

(* Steps that leave the files alone, and end no upload unless it is cut off. *)
LEMMA FilesQuiet ==
    ASSUME FilesCovered, UNCHANGED file, cut \subseteq cut',
           \A o \in Objects : object'[o] => file[o] # None,
           \A r \in Requests : req[r].pc = "copy" =>
               req'[r] = req[r] \/ <<req[r].id, "copy">> \in cut'
    PROVE  FilesCovered'
<1> SUFFICES ASSUME NEW o \in Objects, file[o] # None
             PROVE  file'[o] = Parts \/ Covered(o)' \/ <<o, "copy">> \in cut'
  BY DEF FilesCovered, Covered
<1>1. CASE Covered(o)
  <2>1. PICK r \in Requests : /\ req[r].pc = "copy" /\ req[r].id = o
                              /\ \A p \in Parts : p \in file[o] \/ p >= req[r].pos
    BY <1>1 DEF Covered
  <2>2. CASE req'[r] = req[r]
    BY <2>1, <2>2 DEF Covered
  <2> QED BY <2>1, <2>2
<1> QED BY <1>1 DEF FilesCovered

(* Steps that do nothing for a commit, and end none unless it is cut off.    *)
LEMMA CommitsQuiet ==
    ASSUME OneCommit, CommitsAnnounced,
           UNCHANGED <<object, events, told>>, cut \subseteq cut',
           \A r \in Requests :
              \/ req'[r].pc = req[r].pc /\ req'[r].id = req[r].id
              \/ /\ req'[r].pc \notin {"publish", "answer"}
                 /\ req[r].pc \in {"publish", "answer"} => <<req[r].id, req[r].pc>> \in cut'
    PROVE  OneCommit' /\ CommitsAnnounced'
<1>1. \A r \in Requests : req'[r].pc \in {"publish", "answer"} =>
         req'[r].pc = req[r].pc /\ req'[r].id = req[r].id
  OBVIOUS
<1>2. OneCommit'
  <2>1. ASSUME NEW q \in Requests, NEW r \in Requests, req'[q].id = req'[r].id,
               req'[q].pc \in {"publish", "answer"}, req'[r].pc \in {"publish", "answer"}
        PROVE  q = r
    BY <1>1, <2>1 DEF OneCommit
  <2>2. ASSUME NEW r \in Requests
        PROVE  /\ req'[r].pc = "publish" => object'[req'[r].id] /\ events'[req'[r].id] = 0
               /\ req'[r].pc = "answer" => events'[req'[r].id] = 1
    BY <1>1 DEF OneCommit
  <2> QED BY <2>1, <2>2 DEF OneCommit
<1>3. ASSUME NEW o \in Objects, NEW S \in SUBSET {"publish", "answer"}, Committing(o, S)
      PROVE  Committing(o, S)' \/ \E pc \in S : <<o, pc>> \in cut'
  <2>1. PICK r \in Requests : req[r].id = o /\ req[r].pc \in S
    BY <1>3 DEF Committing
  <2>2. CASE req'[r].pc = req[r].pc /\ req'[r].id = req[r].id
    BY <2>1, <2>2 DEF Committing
  <2> QED BY <2>1, <2>2
<1>4. ASSUME NEW o \in Objects, object[o]
      PROVE  /\ events[o] = 1 \/ Committing(o, {"publish"})' \/ <<o, "publish">> \in cut'
             /\ \/ told[o]
                \/ Committing(o, {"publish", "answer"})'
                \/ {<<o, "publish">>, <<o, "answer">>} \cap cut' # {}
  <2>1. Committing(o, {"publish"}) =>
           Committing(o, {"publish"})' \/ <<o, "publish">> \in cut'
    BY <1>3 DEF Committing
  <2>2. Committing(o, {"publish", "answer"}) =>
           \/ Committing(o, {"publish", "answer"})'
           \/ <<o, "publish">> \in cut' \/ <<o, "answer">> \in cut'
    BY <1>3
  <2>3. /\ events[o] = 1 \/ Committing(o, {"publish"}) \/ <<o, "publish">> \in cut
        /\ \/ told[o]
           \/ Committing(o, {"publish", "answer"})
           \/ <<o, "publish">> \in cut \/ <<o, "answer">> \in cut
    BY <1>4 DEF CommitsAnnounced
  <2> QED BY <2>1, <2>2, <2>3
<1>5. CommitsAnnounced'
  BY <1>4 DEF CommitsAnnounced
<1> QED BY <1>2, <1>5

(* A request that is cut off leaves its trace.                               *)
LEMMA CostsOf ==
    ASSUME NEW R, NEW r \in R, req[r].pc \in CostlyStage
    PROVE  <<req[r].id, req[r].pc>> \in Costs(R)
  BY DEF Costs

(* Steps of requests that are not at a stage of an upload or of a commit.    *)
LEMMA Quiet ==
    ASSUME TypeOK, FilesCovered, OneCommit, CommitsAnnounced,
           UNCHANGED <<file, object, events, told>>, cut \subseteq cut',
           \A r \in Requests :
              \/ req'[r] = req[r]
              \/ /\ req'[r].pc \notin CostlyStage
                 /\ req[r].pc \in CostlyStage => <<req[r].id, req[r].pc>> \in cut'
    PROVE  FilesCovered' /\ OneCommit' /\ CommitsAnnounced'
<1>1. FilesCovered'
  <2>1. \A o \in Objects : object'[o] => file[o] # None
    BY DEF FilesCovered
  <2> QED BY <2>1, FilesQuiet DEF CostlyStage
<1>2. OneCommit' /\ CommitsAnnounced'
  BY CommitsQuiet DEF CostlyStage
<1> QED BY <1>1, <1>2

(* Every step keeps the files covered and the commits in their order.        *)
LEMMA NextKeepsObjects == Inv /\ [Next]_vars => FilesCovered' /\ OneCommit' /\ CommitsAnnounced'
<1> SUFFICES ASSUME Inv, [Next]_vars
             PROVE  FilesCovered' /\ OneCommit' /\ CommitsAnnounced'
  OBVIOUS
<1> USE NoneIsNoValue
<1>i. TypeOK /\ RequestsCarry /\ FilesCovered /\ OneCommit /\ CommitsAnnounced
  BY DEF Inv
\* A request that is at no stage of an upload or a commit ends or goes on to such a one.
<1>e. ASSUME NEW r \in Requests, UNCHANGED blobVars, req[r].pc \notin CostlyStage,
             Finish(r) \/ \E pc \in Stage \ CostlyStage : Goto(r, pc)
      PROVE  FilesCovered' /\ OneCommit' /\ CommitsAnnounced'
  <2>1. req'[r].pc \notin CostlyStage /\ \A q \in Requests : q # r => req'[q] = req[q]
    <3>1. CASE Finish(r)
      BY <1>i, <3>1, FinishFrame DEF Idle, CostlyStage
    <3>2. ASSUME NEW pc \in Stage \ CostlyStage, Goto(r, pc)
          PROVE  req'[r].pc \notin CostlyStage /\ \A q \in Requests : q # r => req'[q] = req[q]
      BY <1>i, <3>2, GotoFrame
    <3> QED BY <1>e, <3>1, <3>2
  <2>2. \A q \in Requests :
           \/ req'[q] = req[q]
           \/ req'[q].pc \notin CostlyStage /\ req[q].pc \notin CostlyStage
    BY <1>e, <2>1
  <2> QED BY <1>e, <1>i, <2>2, Quiet DEF blobVars
<1>1. ASSUME NEW d \in Devices, NEW t \in Tokens, Claim(d, t), UNCHANGED blobVars
      PROVE  FilesCovered' /\ OneCommit' /\ CommitsAnnounced'
  BY <1>1, <1>i, Quiet DEF Claim, blobVars
<1>2. ASSUME NEW r \in Requests, Receive(r)
      PROVE  FilesCovered' /\ OneCommit' /\ CommitsAnnounced'
  <2>1. PICK t \in Tokens \cup {None}, i \in Ids \cup {None},
             pc \in {"createToken", "revokeToken", "deleteDevice", "tailscaleInfo",
                     "startSession", "touchSession", "endSession", "upload", "commit"} :
           /\ req[r].pc = "idle"
           /\ req' = [req EXCEPT ![r] = [pc |-> pc, token |-> t, id |-> i, pos |-> 0]]
           /\ UNCHANGED <<file, object, events, told, cut>>
    BY <1>2, <1>i, ReceiveForm
  <2>2. req'[r] = [pc |-> pc, token |-> t, id |-> i, pos |-> 0]
    BY <2>1, <1>i DEF TypeOK
  <2>3. \A q \in Requests :
           \/ req'[q] = req[q]
           \/ req'[q].pc \notin CostlyStage /\ req[q].pc \notin CostlyStage
    BY <2>1, <2>2, <1>i DEF TypeOK, CostlyStage
  <2> QED BY <1>i, <2>1, <2>3, Quiet
<1>3. ASSUME NEW r \in Requests, TokenStep(r)
      PROVE  FilesCovered' /\ OneCommit' /\ CommitsAnnounced'
  BY <1>3, <1>e DEF TokenStep, CreateToken, RevokeToken, CostlyStage
<1>4. ASSUME NEW r \in Requests, DeviceStep(r)
      PROVE  FilesCovered' /\ OneCommit' /\ CommitsAnnounced'
  <2>1. {"softDelete", "touchActivity", "stopSession"} \subseteq Stage \ CostlyStage
    BY DEF Stage, CostlyStage
  <2>2. CASE DeleteDevice(r) \/ SoftDelete(r) \/ TailscaleInfo(r) \/ StartSession(r)
    BY <1>4, <1>e, <2>1, <2>2
       DEF DeviceStep, DeleteDevice, SoftDelete, TailscaleInfo, StartSession, CostlyStage
  <2>3. CASE \/ FindSession(r, "touchSession", "touchActivity") \/ TouchActivity(r)
             \/ FindSession(r, "endSession", "stopSession") \/ StopSession(r)
    BY <1>4, <1>e, <2>1, <2>3
       DEF DeviceStep, FindSession, TouchActivity, StopSession, CostlyStage
  <2> QED BY <1>4, <2>2, <2>3 DEF DeviceStep
<1>5. ASSUME NEW r \in Requests, Commit(r), UNCHANGED deviceVars
      PROVE  FilesCovered' /\ OneCommit' /\ CommitsAnnounced'
  <2>1. "createObject" \in Stage \ CostlyStage
    BY DEF Stage, CostlyStage
  <2> QED BY <1>5, <1>e, <2>1 DEF Commit, blobVars, CostlyStage
<1>6. ASSUME NEW r \in Requests, Interrupt(r)
      PROVE  FilesCovered' /\ OneCommit' /\ CommitsAnnounced'
  <2>1. req'[r].pc \notin CostlyStage /\ \A q \in Requests : q # r => req'[q] = req[q]
    BY <1>6, <1>i, FinishFrame DEF Interrupt, Idle, CostlyStage
  <2>2. req[r].pc \in CostlyStage => <<req[r].id, req[r].pc>> \in cut'
    BY <1>6, CostsOf DEF Interrupt
  <2> QED BY <1>6, <1>i, <2>1, <2>2, Quiet DEF Interrupt
<1>7. ASSUME Crash PROVE FilesCovered' /\ OneCommit' /\ CommitsAnnounced'
  <2>1. \A r \in Requests : req'[r].pc \notin CostlyStage
    BY <1>7 DEF Crash, Idle, CostlyStage
  <2>2. \A r \in Requests : req[r].pc \in CostlyStage => <<req[r].id, req[r].pc>> \in cut'
    BY <1>7, CostsOf DEF Crash
  <2> QED BY <1>7, <1>i, <2>1, <2>2, Quiet DEF Crash
<1>8. CASE UNCHANGED vars
  BY <1>8, <1>i, Quiet DEF vars
<1>9. ASSUME NEW r \in Requests, Truncate(r)
      PROVE  FilesCovered' /\ OneCommit' /\ CommitsAnnounced'
  <2>1. /\ req'[r].pc = "copy" /\ req'[r].pos = 1 /\ req'[r].id = req[r].id
        /\ \A q \in Requests : q # r => req'[q] = req[q]
    BY <1>9, <1>i DEF Truncate, TypeOK, Request
  <2>2. OneCommit' /\ CommitsAnnounced'
    BY <1>9, <1>i, <2>1, CommitsQuiet DEF Truncate
  <2>3. req[r].id \in Objects /\ req[r].pc = "upload"
    BY <1>9, <1>i DEF Truncate, RequestsCarry, Carries, BlobStage
  <2>4. file' = [file EXCEPT ![req[r].id] = {}] /\ UNCHANGED <<object, cut>>
    BY <1>9 DEF Truncate
  <2>5. ASSUME NEW o \in Objects, o # req[r].id
        PROVE  /\ object'[o] => file'[o] # None
               /\ file'[o] # None => file'[o] = Parts \/ Covered(o)' \/ <<o, "copy">> \in cut'
    <3>1. file'[o] = file[o]
      BY <2>4, <2>5, <1>i DEF TypeOK
    <3>2. Covered(o) => Covered(o)'
      BY <2>1, <2>3, <3>1 DEF Covered
    <3> QED BY <1>i, <2>4, <3>1, <3>2 DEF FilesCovered
  <2>6. ASSUME NEW o \in Objects, o = req[r].id PROVE file'[o] # None /\ Covered(o)'
    BY <1>i, <2>1, <2>4, <2>6 DEF Covered, TypeOK, Parts
  <2>7. FilesCovered'
    BY <2>3, <2>5, <2>6 DEF FilesCovered
  <2> QED BY <2>2, <2>7
<1>10. ASSUME NEW r \in Requests, CopyPart(r)
       PROVE  FilesCovered' /\ OneCommit' /\ CommitsAnnounced'
  <2>1. /\ req'[r].pc = "copy" /\ req'[r].pos = req[r].pos + 1 /\ req'[r].id = req[r].id
        /\ req[r].pc = "copy" /\ req[r].pos \in Parts
        /\ \A q \in Requests : q # r => req'[q] = req[q]
    BY <1>10, <1>i DEF CopyPart, TypeOK, Request
  <2>2. OneCommit' /\ CommitsAnnounced'
    BY <1>10, <1>i, <2>1, CommitsQuiet DEF CopyPart
  <2>3. req[r].id \in Objects /\ file[req[r].id] \in SUBSET Parts
    BY <2>1, <1>i DEF RequestsCarry, Carries, BlobStage, TypeOK
  <2>4. /\ file' = [file EXCEPT ![req[r].id] = file[req[r].id] \cup {req[r].pos}]
        /\ UNCHANGED <<object, cut>>
    BY <1>10 DEF CopyPart
  <2>5. ASSUME NEW o \in Objects, o # req[r].id
        PROVE  /\ object'[o] => file'[o] # None
               /\ file'[o] # None => file'[o] = Parts \/ Covered(o)' \/ <<o, "copy">> \in cut'
    <3>1. file'[o] = file[o]
      BY <2>4, <2>5, <1>i DEF TypeOK
    <3>2. Covered(o) => Covered(o)'
      BY <2>1, <2>5, <3>1 DEF Covered
    <3> QED BY <1>i, <2>4, <3>1, <3>2 DEF FilesCovered
  <2>6. file'[req[r].id] = file[req[r].id] \cup {req[r].pos}
    BY <1>i, <2>3, <2>4 DEF TypeOK
  <2>7. file'[req[r].id] # None
    BY <2>1, <2>3, <2>6
  <2>8. ASSUME NEW o \in Objects, o = req[r].id, Covered(o) PROVE Covered(o)'
    <3> SUFFICES ASSUME NEW q \in Requests, req[q].pc = "copy", req[q].id = o,
                        \A p \in Parts : p \in file[o] \/ p >= req[q].pos
                 PROVE  Covered(o)'
      BY <2>8 DEF Covered
    <3>1. CASE q # r
      BY <2>1, <2>6, <2>8, <3>1 DEF Covered
    <3>2. CASE q = r
      <4>1. ASSUME NEW p \in Parts PROVE p \in file'[o] \/ p >= req'[r].pos
        BY <2>1, <2>6, <2>8, <3>2, LastAssumption DEF Parts
      <4> QED BY <2>1, <2>8, <4>1 DEF Covered
    <3> QED BY <3>1, <3>2
  <2>9. file[req[r].id] # None
    BY <2>3
  <2>10. file[req[r].id] = Parts => file'[req[r].id] = Parts
    BY <2>1, <2>6
  <2>11. FilesCovered'
    BY <1>i, <2>3, <2>4, <2>5, <2>7, <2>8, <2>9, <2>10 DEF FilesCovered
  <2> QED BY <2>2, <2>11
<1>11. ASSUME NEW r \in Requests, FinishUpload(r)
       PROVE  FilesCovered' /\ OneCommit' /\ CommitsAnnounced'
  <2>1. /\ req[r].pc = "copy" /\ req[r].pos = Last + 1 /\ req'[r] = Idle
        /\ \A q \in Requests : q # r => req'[q] = req[q]
    BY <1>11, <1>i, FinishFrame DEF FinishUpload, EndOfBody
  <2>2. UNCHANGED <<file, object, events, told, cut>>
    BY <1>11 DEF FinishUpload
  <2>3. OneCommit' /\ CommitsAnnounced'
    BY <1>i, <2>1, <2>2, CommitsQuiet DEF Idle
  <2>4. ASSUME NEW o \in Objects, file[o] # None
        PROVE  file[o] = Parts \/ Covered(o)' \/ <<o, "copy">> \in cut'
    <3>1. CASE Covered(o)
      <4>1. PICK q \in Requests : /\ req[q].pc = "copy" /\ req[q].id = o
                                  /\ \A p \in Parts : p \in file[o] \/ p >= req[q].pos
        BY <3>1 DEF Covered
      <4>2. CASE q # r
        BY <2>1, <2>2, <4>1, <4>2 DEF Covered
      <4>3. CASE q = r
        <5>1. \A p \in Parts : p \in file[o]
          BY <2>1, <4>1, <4>3, LastAssumption DEF Parts
        <5>2. file[o] \in SUBSET Parts
          BY <1>i, <2>4 DEF TypeOK
        <5> QED BY <5>1, <5>2
      <4> QED BY <4>2, <4>3
    <3> QED BY <1>i, <2>2, <2>4, <3>1 DEF FilesCovered
  <2>5. FilesCovered'
    BY <1>i, <2>2, <2>4 DEF FilesCovered, Covered
  <2> QED BY <2>3, <2>5
<1>12. ASSUME NEW r \in Requests, CreateObject(r)
       PROVE  FilesCovered' /\ OneCommit' /\ CommitsAnnounced'
  <2>1. /\ req[r].pc = "createObject" /\ req[r].id \in Objects /\ file[req[r].id] # None
        /\ UNCHANGED <<file, events, told, cut>>
    BY <1>12, <1>i DEF CreateObject, RequestsCarry, Carries, BlobStage
  <2>2. CASE Finish(r) /\ UNCHANGED object
    BY <1>e, <2>1, <2>2 DEF blobVars, CostlyStage
  <2>3. CASE /\ ~object[req[r].id] /\ object' = [object EXCEPT ![req[r].id] = TRUE]
             /\ Goto(r, "publish")
    <3>1. /\ req'[r].pc = "publish" /\ req'[r].id = req[r].id
          /\ \A q \in Requests : q # r => req'[q] = req[q]
      BY <1>i, <2>3, GotoFrame
    <3>2. /\ object'[req[r].id] = TRUE
          /\ \A o \in Objects : o # req[r].id => object'[o] = object[o]
      BY <1>i, <2>1, <2>3 DEF TypeOK
    <3>3. events[req[r].id] = 0
      <4>1. events[req[r].id] \in Nat /\ events[req[r].id] <= 1 /\ events[req[r].id] # 1
        BY <1>i, <2>1, <2>3 DEF TypeOK, CommitsAnnounced
      <4> QED BY <4>1
    <3>4. FilesCovered'
      <4>1. \A o \in Objects : object'[o] => file[o] # None
        BY <1>i, <2>1, <3>2 DEF FilesCovered
      <4>2. \A q \in Requests : req[q].pc = "copy" => req'[q] = req[q]
        BY <2>1, <3>1
      <4> QED BY <1>i, <2>1, <4>1, <4>2, FilesQuiet
    \* No other commit of the object is past the insert.
    <3>5. \A q \in Requests : q # r /\ req[q].pc \in {"publish", "answer"} =>
             req[q].id \in Objects /\ req[q].id # req[r].id
      BY <1>i, <2>1, <2>3, <3>3 DEF OneCommit, RequestsCarry, Carries, BlobStage
    <3>6. OneCommit'
      <4>1. ASSUME NEW p \in Requests, NEW q \in Requests, req'[p].id = req'[q].id,
                   req'[p].pc \in {"publish", "answer"}, req'[q].pc \in {"publish", "answer"}
            PROVE  p = q
        BY <1>i, <3>1, <3>5, <4>1 DEF OneCommit
      <4>2. ASSUME NEW q \in Requests
            PROVE  /\ req'[q].pc = "publish" => object'[req'[q].id] /\ events'[req'[q].id] = 0
                   /\ req'[q].pc = "answer" => events'[req'[q].id] = 1
        BY <1>i, <2>1, <3>1, <3>2, <3>3, <3>5 DEF OneCommit
      <4> QED BY <4>1, <4>2 DEF OneCommit
    <3>7. CommitsAnnounced'
      <4>1. \A o \in Objects, S \in SUBSET {"publish", "answer"} :
               Committing(o, S) => Committing(o, S)'
        BY <2>1, <3>1 DEF Committing
      <4>2. ASSUME NEW o \in Objects, o = req[r].id
            PROVE  Committing(o, {"publish"})' /\ Committing(o, {"publish", "answer"})'
        BY <3>1, <4>2 DEF Committing
      <4>3. ASSUME NEW o \in Objects, o # req[r].id, object[o]
            PROVE  /\ events[o] = 1 \/ Committing(o, {"publish"})' \/ <<o, "publish">> \in cut
                   /\ \/ told[o]
                      \/ Committing(o, {"publish", "answer"})'
                      \/ {<<o, "publish">>, <<o, "answer">>} \cap cut # {}
        <5>1. /\ Committing(o, {"publish"}) => Committing(o, {"publish"})'
              /\ Committing(o, {"publish", "answer"}) => Committing(o, {"publish", "answer"})'
          BY <4>1 DEF Committing
        <5> QED BY <1>i, <4>3, <5>1 DEF CommitsAnnounced
      <4>4. ASSUME NEW o \in Objects
            PROVE  /\ events[o] <= 1
                   /\ events[o] = 1 => object'[o]
                   /\ told[o] => events[o] = 1
        BY <1>i, <3>2 DEF CommitsAnnounced
      <4> QED BY <2>1, <3>2, <4>2, <4>3, <4>4 DEF CommitsAnnounced
    <3> QED BY <3>4, <3>6, <3>7
  <2> QED BY <1>12, <2>2, <2>3 DEF CreateObject
<1>13. ASSUME NEW r \in Requests, Publish(r)
       PROVE  FilesCovered' /\ OneCommit' /\ CommitsAnnounced'
  <2>1. /\ req[r].pc = "publish" /\ req[r].id \in Objects
        /\ UNCHANGED <<file, object, told, cut>> /\ Goto(r, "answer")
    BY <1>13, <1>i DEF Publish, RequestsCarry, Carries, BlobStage
  <2>2. /\ req'[r].pc = "answer" /\ req'[r].id = req[r].id
        /\ \A q \in Requests : q # r => req'[q] = req[q]
    BY <1>i, <2>1, GotoFrame
  <2>3. object[req[r].id] /\ events[req[r].id] = 0
    BY <1>i, <2>1 DEF OneCommit
  <2>4. /\ events'[req[r].id] = 1
        /\ \A o \in Objects : o # req[r].id => events'[o] = events[o]
    BY <1>13, <1>i, <2>1, <2>3 DEF Publish, TypeOK
  <2>5. FilesCovered'
    <3>1. \A o \in Objects : object'[o] => file[o] # None
      BY <1>i, <2>1 DEF FilesCovered
    <3> QED BY <1>i, <2>1, <2>2, <3>1, FilesQuiet
  <2>6. \A q \in Requests : q # r /\ req[q].pc \in {"publish", "answer"} =>
           req[q].id \in Objects /\ req[q].id # req[r].id
    BY <1>i, <2>1 DEF OneCommit, RequestsCarry, Carries, BlobStage
  <2>7. OneCommit'
    <3>1. ASSUME NEW p \in Requests, NEW q \in Requests, req'[p].id = req'[q].id,
                 req'[p].pc \in {"publish", "answer"}, req'[q].pc \in {"publish", "answer"}
          PROVE  p = q
      BY <1>i, <2>2, <2>6, <3>1 DEF OneCommit
    <3>2. ASSUME NEW q \in Requests
          PROVE  /\ req'[q].pc = "publish" => object'[req'[q].id] /\ events'[req'[q].id] = 0
                 /\ req'[q].pc = "answer" => events'[req'[q].id] = 1
      BY <1>i, <2>1, <2>2, <2>4, <2>6 DEF OneCommit
    <3> QED BY <3>1, <3>2 DEF OneCommit
  <2>8. CommitsAnnounced'
    <3>1. ASSUME NEW o \in Objects, o = req[r].id
          PROVE  Committing(o, {"publish", "answer"})'
      BY <2>2, <3>1 DEF Committing
    <3>2. ASSUME NEW o \in Objects, o # req[r].id, object[o]
          PROVE  /\ events[o] = 1 \/ Committing(o, {"publish"})' \/ <<o, "publish">> \in cut
                 /\ \/ told[o]
                    \/ Committing(o, {"publish", "answer"})'
                    \/ {<<o, "publish">>, <<o, "answer">>} \cap cut # {}
      <4>1. /\ Committing(o, {"publish"}) => Committing(o, {"publish"})'
            /\ Committing(o, {"publish", "answer"}) => Committing(o, {"publish", "answer"})'
        BY <2>2, <3>2 DEF Committing
      <4> QED BY <1>i, <3>2, <4>1 DEF CommitsAnnounced
    <3>3. ASSUME NEW o \in Objects
          PROVE  /\ events'[o] <= 1
                 /\ events'[o] = 1 => object[o]
                 /\ told[o] => events'[o] = 1
      <4>1. CASE o = req[r].id
        BY <2>3, <2>4, <4>1
      <4>2. CASE o # req[r].id
        BY <1>i, <2>4, <4>2 DEF CommitsAnnounced
      <4> QED BY <4>1, <4>2
    <3> QED BY <2>1, <2>4, <3>1, <3>2, <3>3 DEF CommitsAnnounced
  <2> QED BY <2>5, <2>7, <2>8
<1>14. ASSUME NEW r \in Requests, Answer(r)
       PROVE  FilesCovered' /\ OneCommit' /\ CommitsAnnounced'
  <2>1. /\ req[r].pc = "answer" /\ req[r].id \in Objects
        /\ UNCHANGED <<file, object, events, cut>> /\ Finish(r)
    BY <1>14, <1>i DEF Answer, RequestsCarry, Carries, BlobStage
  <2>2. req'[r] = Idle /\ \A q \in Requests : q # r => req'[q] = req[q]
    BY <1>i, <2>1, FinishFrame
  <2>3. events[req[r].id] = 1
    BY <1>i, <2>1 DEF OneCommit
  <2>4. /\ told'[req[r].id] = TRUE
        /\ \A o \in Objects : o # req[r].id => told'[o] = told[o]
    BY <1>14, <1>i, <2>1 DEF Answer, TypeOK
  <2>5. FilesCovered'
    <3>1. \A o \in Objects : object'[o] => file[o] # None
      BY <1>i, <2>1 DEF FilesCovered
    <3> QED BY <1>i, <2>1, <2>2, <3>1, FilesQuiet
  <2>6. \A q \in Requests : req'[q] = req[q] \/ req'[q].pc = "idle"
    BY <2>2 DEF Idle
  <2>7. OneCommit'
    <3>1. ASSUME NEW p \in Requests, NEW q \in Requests, req'[p].id = req'[q].id,
                 req'[p].pc \in {"publish", "answer"}, req'[q].pc \in {"publish", "answer"}
          PROVE  p = q
      BY <1>i, <2>6, <3>1 DEF OneCommit
    <3>2. ASSUME NEW q \in Requests
          PROVE  /\ req'[q].pc = "publish" => object'[req'[q].id] /\ events'[req'[q].id] = 0
                 /\ req'[q].pc = "answer" => events'[req'[q].id] = 1
      BY <1>i, <2>1, <2>6 DEF OneCommit
    <3> QED BY <3>1, <3>2 DEF OneCommit
  <2>8. CommitsAnnounced'
    <3>1. ASSUME NEW o \in Objects, o # req[r].id, object[o]
          PROVE  /\ events[o] = 1 \/ Committing(o, {"publish"})' \/ <<o, "publish">> \in cut
                 /\ \/ told[o]
                    \/ Committing(o, {"publish", "answer"})'
                    \/ {<<o, "publish">>, <<o, "answer">>} \cap cut # {}
      <4>1. /\ Committing(o, {"publish"}) => Committing(o, {"publish"})'
            /\ Committing(o, {"publish", "answer"}) => Committing(o, {"publish", "answer"})'
        BY <2>2, <3>1 DEF Committing
      <4> QED BY <1>i, <3>1, <4>1 DEF CommitsAnnounced
    <3>2. ASSUME NEW o \in Objects
          PROVE  /\ events[o] <= 1
                 /\ events[o] = 1 => object[o]
                 /\ told'[o] => events[o] = 1
      BY <1>i, <2>3, <2>4 DEF CommitsAnnounced
    <3> QED BY <2>1, <2>3, <2>4, <3>1, <3>2 DEF CommitsAnnounced
  <2> QED BY <2>5, <2>7, <2>8
<1>15. ASSUME NEW r \in Requests, BlobStep(r)
       PROVE  FilesCovered' /\ OneCommit' /\ CommitsAnnounced'
  BY <1>15, <1>5, <1>6, <1>9, <1>10, <1>11, <1>12, <1>13, <1>14 DEF BlobStep
<1> QED BY <1>1, <1>2, <1>3, <1>4, <1>7, <1>8, <1>15 DEF Next

(* Uploads that overlap and commits in the middle of one leave no hole that  *)
(* no upload is about to fill, unless one was cut off (FileBlob.Put).        *)
LEMMA CoveredIsWhole == FilesCovered => ObjectsWhole
  BY DEF FilesCovered, Covered, ObjectsWhole, Uploading

(* Every reachable state satisfies the invariant (Next).                     *)
LEMMA Invariance == Spec => []Inv
<1>1. Init => Inv
  BY InitEstablishes
<1>2. Inv /\ [Next]_vars => Inv'
  BY NextTypeOK, NextCarries, NextKeepsObjects DEF Inv
<1> QED BY <1>1, <1>2, PTL DEF Spec

(* Tables, files and requests hold what their handlers put there, however    *)
(* many requests overlap: no session is of a device that has no row.         *)
THEOREM TypeCorrect == Spec => []TypeOK
<1>1. Inv => TypeOK
  BY DEF Inv
<1> QED BY <1>1, Invariance, PTL

(* The bytes of a committed object are all there, unless an upload is still  *)
(* copying or was cut off (FileBlob.Put, commitBlobHandler).                 *)
THEOREM ObjectsStayWhole == Spec => []ObjectsWhole
<1>1. Inv => ObjectsWhole
  BY CoveredIsWhole DEF Inv
<1> QED BY <1>1, Invariance, PTL

(* However often commits are repeated, an object is announced once, and left *)
(* unannounced only by a commit that was cut off (commitBlobHandler).        *)
THEOREM CommitsStayAnnounced == Spec => []CommitsAnnounced
<1>1. Inv => CommitsAnnounced
  BY DEF Inv
<1> QED BY <1>1, Invariance, PTL

(* What was settled of a device or a session is not changed by a report that *)
(* was judged before (UpdateTailscaleInfo, SoftDeleteDevice, End).           *)
THEOREM LateReportsAreHarmless == Spec => LateReportsHarmless
<1>1. ASSUME Inv, [Next]_vars
      PROVE  /\ \A d \in Devices : device[d] # None /\ device[d].deleted => device'[d] = device[d]
             /\ \A s \in AgentSessions : agent[s] # None /\ agent[s].ended # None
                   => agent'[s] # None /\ agent'[s].ended = agent[s].ended
  <2> USE NoneIsNoValue
  <2>i. TypeOK /\ RequestsCarry
    BY <1>1 DEF Inv
  <2>1. ASSUME NEW d \in Devices, device[d] # None, device[d].deleted
        PROVE  device'[d] = device[d]
    <3>1. ASSUME NEW e \in Devices, NEW t \in Tokens, Claim(e, t) PROVE device'[d] = device[d]
      BY <2>1, <2>i, <3>1 DEF Claim, TypeOK
    <3>2. ASSUME NEW r \in Requests, SoftDelete(r) \/ TailscaleInfo(r)
          PROVE  device'[d] = device[d]
      BY <2>1, <3>2 DEF SoftDelete, TailscaleInfo, Reported, Present
    <3>3. CASE UNCHANGED device
      BY <3>3
    <3> QED BY <1>1, <2>i, <3>1, <3>2, <3>3, ReceiveForm
            DEF Next, vars, deviceVars, TokenStep, DeviceStep, BlobStep, DeleteDevice,
                StartSession, FindSession, TouchActivity, StopSession
  <2>2. ASSUME NEW s \in AgentSessions, agent[s] # None, agent[s].ended # None
        PROVE  agent'[s] # None /\ agent'[s].ended = agent[s].ended
    <3>1. agent'[s] # None
      BY <1>1, <2>i, <2>2, RowsStay
    <3>2. ASSUME NEW r \in Requests, StartSession(r) PROVE agent'[s] = agent[s]
      BY <2>2, <2>i, <3>2 DEF StartSession, TypeOK
    <3>3. ASSUME NEW r \in Requests, TouchActivity(r) \/ StopSession(r)
          PROVE  agent'[s].ended = agent[s].ended
      <4>1. agent[s] \in AgentRow
        BY <2>2, <2>i DEF TypeOK
      <4>2. agent'[s] = agent[s] \/ agent'[s] = [agent[s] EXCEPT !.active = TRUE]
        BY <2>2, <2>i, <3>3 DEF TouchActivity, StopSession, TypeOK
      <4> QED BY <4>1, <4>2 DEF AgentRow
    <3>4. CASE UNCHANGED agent
      BY <2>2, <3>4
    <3> QED BY <1>1, <2>i, <3>1, <3>2, <3>3, <3>4, ReceiveForm
            DEF Next, vars, deviceVars, TokenStep, DeviceStep, BlobStep, Claim, DeleteDevice,
                SoftDelete, TailscaleInfo, FindSession
  <2> QED BY <2>1, <2>2
<1> QED BY <1>1, Invariance, PTL DEF Spec, LateReportsHarmless

(* Under a revoked token requests only end (RevokeAPIToken, RequireAuthOr-   *)
(* Token).                                                                   *)
THEOREM RevocationIsFinal == Spec => RevokedTokensFade
<1>1. ASSUME Inv, [Next]_vars
      PROVE  \A t \in Tokens : token[t] # None /\ token[t].revoked
                => /\ token'[t] = token[t]
                   /\ \A r \in Requests : Under(req'[r], t) => Under(req[r], t)
  <2> SUFFICES ASSUME NEW t \in Tokens, token[t] # None, token[t].revoked
               PROVE  /\ token'[t] = token[t]
                      /\ \A r \in Requests : Under(req'[r], t) => Under(req[r], t)
    OBVIOUS
  <2> USE NoneIsNoValue
  <2>i. TypeOK /\ RequestsCarry
    BY <1>1 DEF Inv
  <2>1. token'[t] = token[t]
    <3>1. ASSUME NEW d \in Devices, NEW u \in Tokens, Claim(d, u) PROVE token'[t] = token[t]
      BY <2>i, <3>1 DEF Claim, TypeOK
    <3>2. ASSUME NEW r \in Requests, CreateToken(r) PROVE token'[t] = token[t]
      BY <2>i, <3>2 DEF CreateToken, TypeOK
    <3>3. ASSUME NEW r \in Requests, RevokeToken(r) PROVE token'[t] = token[t]
      <4>1. token[t] \in TokenRow
        BY <2>i DEF TypeOK
      <4>2. [token[t] EXCEPT !.revoked = TRUE] = token[t]
        BY <4>1 DEF TokenRow
      <4> QED BY <3>3, <4>2 DEF RevokeToken
    <3>4. CASE UNCHANGED token
      BY <3>4
    <3> QED BY <1>1, <2>i, <3>1, <3>2, <3>3, <3>4, ReceiveForm
            DEF Next, vars, TokenStep, DeviceStep, BlobStep, Crash, DeleteDevice, SoftDelete,
                TailscaleInfo, StartSession, FindSession, TouchActivity, StopSession, Truncate,
                CopyPart, FinishUpload, Commit, CreateObject, Publish, Answer, Interrupt
  \* A request that works under t did so before.
  <2>2. ASSUME NEW q \in Requests, req'[q].pc # "idle", req'[q].token = t
        PROVE  req[q].pc # "idle" /\ req[q].token = t
    <3>1. CASE req'[q] = req[q]
      BY <2>2, <3>1
    <3>2. ASSUME NEW r \in Requests, Finish(r) PROVE req'[q] = req[q]
      BY <2>2, <2>i, <3>2, FinishFrame DEF Idle
    <3>3. ASSUME NEW r \in Requests, NEW pc, Goto(r, pc), req[r].pc # "idle"
          PROVE  req[q].pc # "idle" /\ req[q].token = t
      BY <2>2, <2>i, <3>3, GotoFrame
    <3>4. ASSUME NEW r \in Requests, Receive(r)
          PROVE  req[q].pc # "idle" /\ req[q].token = t
      <4>1. PICK u \in Tokens \cup {None}, i \in Ids \cup {None},
                 pc \in {"createToken", "revokeToken", "deleteDevice", "tailscaleInfo",
                         "startSession", "touchSession", "endSession", "upload", "commit"} :
               /\ u # None => token[u] # None /\ ~token[u].revoked
               /\ req' = [req EXCEPT ![r] = [pc |-> pc, token |-> u, id |-> i, pos |-> 0]]
        BY <2>i, <3>4, ReceiveForm
      <4>2. u # t
        BY <2>2, <4>1 DEF Ids
      <4>3. q # r
        BY <2>2, <2>i, <4>1, <4>2 DEF TypeOK
      <4> QED BY <2>2, <2>i, <4>1, <4>3 DEF TypeOK
    <3>5. ASSUME NEW r \in Requests, Truncate(r) \/ CopyPart(r)
          PROVE  req[q].pc # "idle" /\ req[q].token = t
      <4>1. req[r] \in Request /\ req[r].pc # "idle"
        BY <2>i, <3>5 DEF Truncate, CopyPart, TypeOK
      <4>2. \/ req' = [req EXCEPT ![r] = [req[r] EXCEPT !.pc = "copy", !.pos = 1]]
            \/ req' = [req EXCEPT ![r] = [req[r] EXCEPT !.pos = req[r].pos + 1]]
        BY <3>5 DEF Truncate, CopyPart
      <4>3. \/ req'[r] = [req[r] EXCEPT !.pc = "copy", !.pos = 1]
            \/ req'[r] = [req[r] EXCEPT !.pos = req[r].pos + 1]
        BY <2>i, <4>2 DEF TypeOK
      <4>4. req'[r].token = req[r].token
        BY <4>1, <4>3 DEF Request
      <4>5. q # r => req'[q] = req[q]
        BY <2>i, <4>2 DEF TypeOK
      <4> QED BY <2>2, <4>1, <4>4, <4>5
    <3>6. CASE Crash
      BY <2>2, <3>6 DEF Crash, Idle
    <3>7. CASE UNCHANGED req
      BY <2>2, <3>7
    <3>8. ASSUME NEW r \in Requests, TokenStep(r)
          PROVE  req[q].pc # "idle" /\ req[q].token = t
      BY <3>1, <3>2, <3>8 DEF TokenStep, CreateToken, RevokeToken
    <3>9. ASSUME NEW r \in Requests, DeviceStep(r)
          PROVE  req[q].pc # "idle" /\ req[q].token = t
      BY <3>1, <3>2, <3>3, <3>9
         DEF DeviceStep, DeleteDevice, SoftDelete, TailscaleInfo, StartSession, FindSession,
             TouchActivity, StopSession
    <3>10. ASSUME NEW r \in Requests, BlobStep(r)
           PROVE  req[q].pc # "idle" /\ req[q].token = t
      BY <3>1, <3>2, <3>3, <3>5, <3>10
         DEF BlobStep, FinishUpload, Commit, CreateObject, Publish, Answer, Interrupt
    <3> QED BY <1>1, <3>4, <3>6, <3>7, <3>8, <3>9, <3>10 DEF Next, vars, Claim
  <2> QED BY <2>1, <2>2 DEF Under
<1> QED BY <1>1, Invariance, PTL DEF Spec, RevokedTokensFade
=============================================================================
