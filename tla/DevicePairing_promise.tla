----------------------- MODULE DevicePairing_promise -----------------------
(***************************************************************************)
(* Proof that device onboarding implements the abstract promise of module  *)
(* Enrollment, step by step, for every number of users, codes, devices and *)
(* claimers, with every interleaving and every fault.                      *)
(***************************************************************************)
EXTENDS DevicePairing_proof

(* A step that leaves the tables and the answered claims alone is invisible.  *)
LEMMA InvisibleStep ==
    ASSUME Ticket' = Ticket, Issuer' = Issuer, Enrolled' = Enrolled, Holder' = Holder
    PROVE  UNCHANGED Promise!vars
  BY DEF Promise!vars

(* The mapped state is a function of few variables.                           *)
LEMMA MappingReads ==
    /\ UNCHANGED pairCode => Issuer' = Issuer
    /\ UNCHANGED <<now, pairCode>> => Ticket' = Ticket
    /\ UNCHANGED device => Enrolled' = Enrolled
    /\ (\A k \in Claimers : \/ claim'[k] = claim[k]
                            \/ claim'[k].pc # "done" /\ claim[k].pc # "done")
          => Holder' = Holder
  BY DEF Issuer, Ticket, Enrolled, Holder

(* Nothing is enrolled and nothing is held at the start.                      *)
LEMMA InitPromise == Init => Promise!Init
  BY DEF Init, Promise!Init, Ticket, Issuer, Enrolled, Holder, Idle

(* The passing of time only lets tickets lapse.                               *)
LEMMA TickLapses == TypeOK /\ Tick => \E S \in SUBSET Codes : Promise!Lapse(S)
<1> SUFFICES ASSUME TypeOK, Tick PROVE \E S \in SUBSET Codes : Promise!Lapse(S)
  OBVIOUS
<1> PICK S \in SUBSET Codes : S = {c \in Codes : Ticket[c] = "open" /\ Ticket'[c] # "open"}
  OBVIOUS
<1>1. UNCHANGED <<pairCode, device, claim>> /\ now' = now + 1 /\ now \in Nat
  BY DEF Tick, store, TypeOK
<1>2. Issuer' = Issuer /\ Enrolled' = Enrolled /\ Holder' = Holder
  BY <1>1, MappingReads
<1>3. ASSUME NEW c \in Codes
      PROVE  Ticket'[c] = IF c \in S THEN "void" ELSE Ticket[c]
  <2>1. CASE pairCode[c] = None
    BY <1>1, <2>1 DEF Ticket
  <2>2. CASE pairCode[c] # None
    <3>1. pairCode[c].expires \in Nat
      BY <2>2 DEF TypeOK, CodeRow
    <3> QED BY <1>1, <2>2, <3>1 DEF Ticket
  <2> QED BY <2>1, <2>2
<1>4. Ticket' = [c \in Codes |-> IF c \in S THEN "void" ELSE Ticket[c]]
  BY <1>3 DEF Ticket
<1> QED BY <1>2, <1>4 DEF Promise!Lapse

(* Issuing a pair code issues a ticket.                                       *)
LEMMA IssueIssues ==
    ASSUME TypeOK, NEW u \in Users, IssuePairCode(u)
    PROVE  \E c \in Codes : Promise!Issue(u, c)
<1>1. PICK c \in Codes : c = NewId(pairCode)
  BY NewIdIsUnused DEF IssuePairCode, TypeOK
<1>2. pairCode[c] = None
  BY <1>1, NewIdIsUnused DEF IssuePairCode
<1> DEFINE row == [user |-> u, expires |-> now + CodeTTL, consumedBy |-> None]
<1>3. /\ pairCode' = [pairCode EXCEPT ![c] = row]
      /\ UNCHANGED <<now, device, claim>>
  BY <1>1 DEF IssuePairCode
<1>4. row \in CodeRow
  BY BoundsAreNat DEF CodeRow, TypeOK
<1>5. pairCode'[c] = row /\ row # None /\ \A b \in Codes : b # c => pairCode'[b] = pairCode[b]
  BY <1>3, <1>4, NoneIsNoValue DEF TypeOK
<1>6. Enrolled' = Enrolled /\ Holder' = Holder
  BY <1>3, MappingReads
<1>7. Ticket[c] = "absent"
  BY <1>2 DEF Ticket
<1>8. Issuer' = [Issuer EXCEPT ![c] = u]
  <2>1. Issuer'[c] = u /\ \A b \in Codes : b # c => Issuer'[b] = Issuer[b]
    BY <1>5 DEF Issuer
  <2> QED BY <2>1 DEF Issuer
<1>9. PICK s \in {"open", "void"} : Ticket'[c] = s
  BY <1>5 DEF Ticket
<1>10. \A b \in Codes : b # c => Ticket'[b] = Ticket[b]
  BY <1>3, <1>5 DEF Ticket
<1>11. Ticket' = [Ticket EXCEPT ![c] = s]
  BY <1>9, <1>10 DEF Ticket
<1> QED BY <1>6, <1>7, <1>8, <1>11 DEF Promise!Issue

(* The claim transaction redeems the ticket for the new device.               *)
LEMMA ClaimRedeems ==
    ASSUME TypeOK, NEW k \in Claimers, NEW c \in Codes, ClaimTx(k, c)
    PROVE  \E d \in Devices : Promise!Redeem(c, d)
<1>1. PICK d \in Devices : d = NewId(device)
  BY NewIdIsUnused DEF ClaimTx, TypeOK
<1>2. device[d] = None
  BY <1>1, NewIdIsUnused DEF ClaimTx
<1>3. /\ pairCode[c] \in CodeRow /\ pairCode[c] # None
      /\ pairCode[c].consumedBy = None /\ now <= pairCode[c].expires
  BY DEF ClaimTx, Claimable, TypeOK
<1>4. PICK u \in Users : u = pairCode[c].user
  BY <1>3 DEF CodeRow
<1> DEFINE row == [pairCode[c] EXCEPT !.consumedBy = d]
           dev == [user |-> u, deleted |-> FALSE]
<1>5. /\ pairCode' = [pairCode EXCEPT ![c] = row]
      /\ device' = [device EXCEPT ![d] = dev]
      /\ claim' = [claim EXCEPT ![k] =
                    [Idle EXCEPT !.pc = "getLink", !.device = d, !.user = u]]
      /\ now' = now /\ claim[k].pc = "idle"
  BY <1>1, <1>4 DEF ClaimTx
<1>6. row \in CodeRow /\ dev \in DeviceRow
  BY <1>3 DEF CodeRow, DeviceRow
<1>7. /\ pairCode'[c] # None /\ pairCode'[c].consumedBy = d /\ pairCode'[c].user = u
      /\ \A b \in Codes : b # c => pairCode'[b] = pairCode[b]
  BY <1>3, <1>4, <1>5, <1>6, NoneIsNoValue DEF TypeOK, CodeRow
<1>8. /\ device'[d] # None /\ device'[d].user = u
      /\ \A e \in Devices : e # d => device'[e] = device[e]
  BY <1>5, <1>6, NoneIsNoValue DEF TypeOK
<1>9. Holder' = Holder
  <2>1. claim'[k].pc = "getLink" /\ \A j \in Claimers : j # k => claim'[j] = claim[j]
    BY <1>5 DEF TypeOK, Idle
  <2> QED BY <1>5, <2>1, MappingReads
<1>10. Issuer' = Issuer /\ Issuer[c] = u
  BY <1>3, <1>4, <1>7 DEF Issuer
<1>11. Ticket[c] = "open" /\ Enrolled[d] = None
  BY <1>2, <1>3 DEF Ticket, Enrolled
<1>12. Ticket' = [Ticket EXCEPT ![c] = "used"]
  <2>1. Ticket'[c] = "used"
    BY <1>7, NoneIsNoValue DEF Ticket
  <2>2. \A b \in Codes : b # c => Ticket'[b] = Ticket[b]
    BY <1>5, <1>7 DEF Ticket
  <2> QED BY <2>1, <2>2 DEF Ticket
<1>13. Enrolled' = [Enrolled EXCEPT ![d] = Issuer[c]]
  BY <1>8, <1>10 DEF Enrolled
<1> QED BY <1>9, <1>10, <1>11, <1>12, <1>13 DEF Promise!Redeem

(* The response delivers the credentials, to a claimer that had none, of a    *)
(* device nobody else holds.                                                  *)
LEMMA RespondDelivers ==
    ASSUME TypeOK, ClaimsConsistent, NEW k \in Claimers, Respond(k)
    PROVE  \E d \in Devices : Promise!Deliver(k, d)
<1>0. claim[k].pc = "respond"
  BY DEF Respond
<1>1. /\ claim[k] \in Claim /\ claim[k].device \in Devices
      /\ device[claim[k].device] \in DeviceRow
  BY <1>0, StartedClaim
<1>2. PICK d \in Devices : d = claim[k].device
  BY <1>1
<1>3. /\ claim'[k].pc = "done" /\ claim'[k].device = d
      /\ \A j \in Claimers : j # k => claim'[j] = claim[j]
  BY <1>1, <1>2 DEF Respond, Goto, TypeOK, Claim
<1>4. Ticket' = Ticket /\ Issuer' = Issuer /\ Enrolled' = Enrolled
  BY MappingReads DEF Respond, store
<1>5. Holder[k] = None
  BY <1>0 DEF Holder
<1>6. Enrolled[d] # None
  BY <1>1, <1>2, NoneIsNoValue DEF Enrolled, DeviceRow
<1>7. ASSUME NEW j \in Claimers PROVE Holder[j] # d
  BY <1>0, <1>2, NoneIsNoValue DEF Holder, ClaimsConsistent
<1>8. Holder' = [Holder EXCEPT ![k] = d]
  BY <1>3 DEF Holder
<1> QED BY <1>4, <1>5, <1>6, <1>7, <1>8 DEF Promise!Deliver

(* Every step of onboarding is a step of the promise, or invisible in it.     *)
LEMMA NextPromise ==
    TypeOK /\ ClaimsConsistent /\ [Next]_vars => [Promise!Next]_(Promise!vars)
<1> SUFFICES ASSUME TypeOK, ClaimsConsistent, [Next]_vars
             PROVE  Promise!Next \/ UNCHANGED Promise!vars
  OBVIOUS
<1>1. CASE Tick
  BY <1>1, TickLapses DEF Promise!Next
<1>2. ASSUME NEW u \in Users, IssuePairCode(u) PROVE Promise!Next
  BY <1>2, IssueIssues DEF Promise!Next
<1>3. ASSUME NEW k \in Claimers, NEW c \in Codes, ClaimTx(k, c) PROVE Promise!Next
  BY <1>3, ClaimRedeems DEF Promise!Next
<1>4. ASSUME NEW k \in Claimers, Respond(k) PROVE Promise!Next
  BY <1>4, RespondDelivers DEF Promise!Next
<1>5. ASSUME UNCHANGED <<now, pairCode, device>>,
             \A j \in Claimers : \/ claim'[j] = claim[j]
                                 \/ claim'[j].pc # "done" /\ claim[j].pc # "done"
      PROVE  UNCHANGED Promise!vars
  BY <1>5, MappingReads, InvisibleStep
<1>6. ASSUME NEW k \in Claimers, Step(k), ~Respond(k) PROVE UNCHANGED Promise!vars
  <2>1. UNCHANGED <<now, pairCode, device>> /\ claim[k].pc \notin {"idle", "done"}
    BY <1>6 DEF Step, GetLink, FindUserByName, CreateUser, CreateLink,
                MintPreAuthKey, Publish, store
  <2>2. claim'[k].pc # "done" /\ \A j \in Claimers : j # k => claim'[j] = claim[j]
    BY <1>6, StepMovesOneClaim
  <2> QED BY <1>5, <2>1, <2>2
<1>7. ASSUME NEW k \in Claimers, Interrupt(k) PROVE UNCHANGED Promise!vars
  BY <1>5, <1>7 DEF Interrupt, InFlight, Idle, store, TypeOK
<1>8. CASE Crash
  BY <1>5, <1>8 DEF Crash, InFlight, Idle, store
<1>9. ASSUME NEW d \in Devices, DeleteDevice(d) PROVE UNCHANGED Promise!vars
  <2>1. device[d] \in DeviceRow /\ device[d] # None
    BY <1>9 DEF DeleteDevice, TypeOK
  <2>2. [device[d] EXCEPT !.deleted = TRUE] \in DeviceRow
    BY <2>1 DEF DeviceRow
  <2>3. device' = [device EXCEPT ![d] = [device[d] EXCEPT !.deleted = TRUE]]
    BY <1>9 DEF DeleteDevice
  <2>4. device'[d] # None /\ device'[d].user = device[d].user
    BY <2>1, <2>2, <2>3, NoneIsNoValue DEF TypeOK, DeviceRow
  <2>5. \A e \in Devices : e # d => device'[e] = device[e]
    BY <2>3 DEF TypeOK
  <2>6. Enrolled' = Enrolled
    BY <2>1, <2>4, <2>5 DEF Enrolled
  <2>7. UNCHANGED <<now, pairCode, claim>>
    BY <1>9 DEF DeleteDevice
  <2> QED BY <2>6, <2>7, MappingReads, InvisibleStep
<1>10. CASE UNCHANGED vars
  BY <1>5, <1>10 DEF vars
<1> QED
  BY <1>1, <1>2, <1>3, <1>4, <1>6, <1>7, <1>8, <1>9, <1>10 DEF Next

(* Onboarding implements the promise: a pair code admits at most one device,  *)
(* only before it lapses, for the user who issued it, and the credentials of  *)
(* a device reach at most one claimer.                                        *)
THEOREM PromiseKept == Spec => KeepsPromise
<1>1. IndInv => TypeOK /\ ClaimsConsistent
  BY DEF IndInv
<1> QED BY <1>1, InitPromise, NextPromise, Invariance, PTL
        DEF Spec, KeepsPromise, Promise!Spec
=============================================================================
