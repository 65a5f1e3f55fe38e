------------------------ MODULE DevicePairing_proof ------------------------
(***************************************************************************)
(* Proofs about DevicePairing: the inductive invariant, the safety         *)
(* properties it implies, the length of a claim, and an account of the     *)
(* orphans that claims leave.                                              *)
(***************************************************************************)
EXTENDS DevicePairing, FiniteSetTheorems, TLAPS

(* NewId draws an id that has no row, when there is one. *)
LEMMA NewIdIsUnused ==
    ASSUME NEW table, Unused(table) # {}
    PROVE  NewId(table) \in DOMAIN table /\ table[NewId(table)] = None
  BY DEF Unused, NewId

(* The initial state satisfies the inductive invariant. *)
LEMMA InitIndInv == Init => IndInv
<1> SUFFICES ASSUME Init PROVE IndInv
  OBVIOUS
<1> USE NoneIsNoValue DEF Init
<1>1. TypeOK
  BY DEF TypeOK, Idle, Claim, Stage
<1>2. EnrolledOnce
  BY DEF EnrolledOnce, TablesAgreeOn, Admitted, TokensOf
<1>3. LinkNamesUser
  BY DEF LinkNamesUser, Idle
<1>4. AnnouncedInOrder
  BY DEF AnnouncedInOrder, Idle
<1>5. ClaimsConsistent
  BY DEF ClaimsConsistent, Coherent, Idle
<1> QED BY <1>1, <1>2, <1>3, <1>4, <1>5 DEF IndInv

(* A claim past its transaction has a device with a row, and its owner. *)
LEMMA StartedClaim ==
    ASSUME TypeOK, ClaimsConsistent, NEW k \in Claimers, claim[k].pc # "idle"
    PROVE  /\ claim[k] \in Claim
           /\ claim[k].user \in Users
           /\ claim[k].device \in Devices
           /\ device[claim[k].device] \in DeviceRow
           /\ claim[k].user = device[claim[k].device].user
<1>1. claim[k] \in Claim
  BY DEF TypeOK
<1>2. /\ claim[k].device # None
      /\ device[claim[k].device] # None
      /\ claim[k].user = device[claim[k].device].user
  BY DEF ClaimsConsistent, Coherent
<1>3. claim[k].device \in Devices
  BY <1>1, <1>2 DEF Claim
<1>4. device[claim[k].device] \in DeviceRow
  BY <1>2, <1>3 DEF TypeOK
<1> QED BY <1>1, <1>2, <1>3, <1>4 DEF DeviceRow

(* An interrupted claim is forgotten: the request record is a good one. *)
LEMMA IdleIsClaim == Idle \in Claim
  BY DEF Idle, Claim, Stage

(* Crashes add finitely many interrupted claims. *)
LEMMA InFlightIsCounted == Cardinality(InFlight) \in Nat
<1>1. InFlight \subseteq Claimers
  BY DEF InFlight
<1> QED BY <1>1, ClaimersAreFinite, FS_Subset, FS_CardinalityType

(* Every step keeps the types of the tables and of the requests. *)
LEMMA NextTypeOK == TypeOK /\ ClaimsConsistent /\ [Next]_vars => TypeOK'
<1> SUFFICES ASSUME TypeOK, ClaimsConsistent, [Next]_vars PROVE TypeOK'
  OBVIOUS
<1>1. CASE Tick
  BY <1>1 DEF Tick, store, TypeOK
<1>2. ASSUME NEW u \in Users, IssuePairCode(u) PROVE TypeOK'
  <2>1. NewId(pairCode) \in Codes
    BY <1>2, NewIdIsUnused DEF IssuePairCode, TypeOK
  <2>2. [user |-> u, expires |-> now + CodeTTL, consumedBy |-> None] \in CodeRow
    BY BoundsAreNat DEF TypeOK, CodeRow
  <2> QED BY <1>2, <2>1, <2>2 DEF IssuePairCode, TypeOK
<1>3. ASSUME NEW k \in Claimers, NEW c \in Codes, ClaimTx(k, c) PROVE TypeOK'
  <2> DEFINE d == NewId(device)
             t == NewId(apiToken)
             u == pairCode[c].user
  <2>1. d \in Devices /\ t \in Tokens
    BY <1>3, NewIdIsUnused DEF ClaimTx, TypeOK
  <2>2. pairCode[c] \in CodeRow
    BY <1>3 DEF ClaimTx, Claimable, TypeOK
  <2>3. u \in Users
    BY <2>2 DEF CodeRow
  <2>4. [pairCode[c] EXCEPT !.consumedBy = d] \in CodeRow
    BY <2>1, <2>2 DEF CodeRow
  <2>5. [user |-> u, deleted |-> FALSE] \in DeviceRow
    BY <2>3 DEF DeviceRow
  <2>6. [user |-> u, device |-> d] \in TokenRow
    BY <2>1, <2>3 DEF TokenRow
  <2>7. [Idle EXCEPT !.pc = "getLink", !.device = d, !.user = u] \in Claim
    BY <2>1, <2>3 DEF Idle, Claim, Stage
  <2>8. /\ pairCode' = [pairCode EXCEPT ![c] = [pairCode[c] EXCEPT !.consumedBy = d]]
        /\ device' = [device EXCEPT ![d] = [user |-> u, deleted |-> FALSE]]
        /\ apiToken' = [apiToken EXCEPT ![t] = [user |-> u, device |-> d]]
        /\ claim' = [claim EXCEPT ![k] =
              [Idle EXCEPT !.pc = "getLink", !.device = d, !.user = u]]
        /\ UNCHANGED <<now, link, hsUser, announced, interrupted>>
    BY <1>3 DEF ClaimTx, BoundToken
  <2> HIDE DEF d, t, u
  <2> QED BY <2>1, <2>4, <2>5, <2>6, <2>7, <2>8 DEF TypeOK
<1>4. ASSUME NEW k \in Claimers, Step(k) PROVE TypeOK'
  <2>0. claim[k].pc # "idle"
    BY <1>4 DEF Step, GetLink, FindUserByName, CreateUser, CreateLink,
                MintPreAuthKey, Publish, Respond
  <2>a. /\ claim[k] \in Claim
        /\ claim[k].user \in Users
        /\ claim[k].device \in Devices
    BY <2>0, StartedClaim
  <2>b. ASSUME NEW stage \in Stage PROVE [claim[k] EXCEPT !.pc = stage] \in Claim
    BY <2>a DEF Claim
  <2>1. CASE GetLink(k)
    <3> DEFINE h == link[claim[k].user]
               s == IF h = None THEN "find" ELSE "mint"
    <3>1. h \in HsIds \cup {None} /\ s \in Stage
      BY <2>a DEF TypeOK, Stage
    <3>2. [claim[k] EXCEPT !.hs = h, !.pc = s] \in Claim
      BY <2>a, <3>1 DEF Claim
    <3> QED BY <2>1, <3>2 DEF GetLink, store, TypeOK
  <2>2. CASE FindUserByName(k)
    <3>1. CASE Goto(k, "createUser")
      BY <2>2, <2>b, <3>1 DEF FindUserByName, Goto, Stage, store, TypeOK
    <3>2. ASSUME NEW h \in Named(claim[k].user),
                 claim' = [claim EXCEPT ![k] = [@ EXCEPT !.hs = h, !.pc = "createLink"]]
          PROVE  TypeOK'
      <4>1. [claim[k] EXCEPT !.hs = h, !.pc = "createLink"] \in Claim
        BY <2>a DEF Claim, Named, Stage
      <4> QED BY <2>2, <3>2, <4>1 DEF FindUserByName, store, TypeOK
    <3> QED BY <2>2, <3>1, <3>2 DEF FindUserByName
  <2>3. CASE CreateUser(k)
    <3>1. CASE Named(claim[k].user) # {}
      BY <2>3, <3>1, IdleIsClaim DEF CreateUser, store, TypeOK
    <3>2. CASE Named(claim[k].user) = {}
      <4> DEFINE h == NewId(hsUser)
      <4>1. h \in HsIds
        BY <2>3, <3>2, NewIdIsUnused DEF CreateUser, TypeOK
      <4>2. [claim[k] EXCEPT !.hs = h, !.pc = "createLink"] \in Claim
        BY <2>a, <4>1 DEF Claim, Stage
      <4>3. /\ hsUser' = [hsUser EXCEPT ![h] = claim[k].user]
            /\ claim' = [claim EXCEPT ![k] =
                           [claim[k] EXCEPT !.hs = h, !.pc = "createLink"]]
            /\ UNCHANGED <<now, store, announced, interrupted>>
        BY <2>3, <3>2 DEF CreateUser
      <4> HIDE DEF h
      <4> QED BY <2>a, <4>1, <4>2, <4>3 DEF store, TypeOK
    <3> QED BY <3>1, <3>2
  <2>4. CASE CreateLink(k)
    <3>1. CASE claim' = [claim EXCEPT ![k] = Idle] /\ UNCHANGED link
      BY <2>4, <3>1, IdleIsClaim DEF CreateLink, TypeOK
    <3>2. CASE /\ link' = [link EXCEPT ![claim[k].user] = claim[k].hs]
               /\ Goto(k, "mint")
      <4>1. claim[k].hs \in HsIds \cup {None}
        BY <2>a DEF Claim
      <4> QED BY <2>4, <2>a, <2>b, <3>2, <4>1 DEF CreateLink, Goto, Stage, TypeOK
    <3> QED BY <2>4, <3>1, <3>2 DEF CreateLink
  <2>5. CASE MintPreAuthKey(k)
    <3>1. [claim[k] EXCEPT !.key = claim[k].hs, !.pc = "publish"] \in Claim
      BY <2>a DEF Claim, Stage
    <3> QED BY <2>5, <3>1 DEF MintPreAuthKey, store, TypeOK
  <2>6. CASE Publish(k)
    BY <2>6, <2>a, <2>b DEF Publish, Goto, Stage, store, TypeOK
  <2>7. CASE Respond(k)
    BY <2>7, <2>b DEF Respond, Goto, Stage, store, TypeOK
  <2> QED BY <1>4, <2>1, <2>2, <2>3, <2>4, <2>5, <2>6, <2>7 DEF Step
<1>5. ASSUME NEW k \in Claimers, Interrupt(k) PROVE TypeOK'
  BY <1>5, IdleIsClaim DEF Interrupt, store, TypeOK
<1>6. CASE Crash
  BY <1>6, IdleIsClaim, InFlightIsCounted DEF Crash, store, TypeOK
<1>7. ASSUME NEW d \in Devices, DeleteDevice(d) PROVE TypeOK'
  <2>1. [device[d] EXCEPT !.deleted = TRUE] \in DeviceRow
    BY <1>7 DEF DeleteDevice, DeviceRow, TypeOK
  <2> QED BY <1>7, <2>1 DEF DeleteDevice, TypeOK
<1>8. CASE UNCHANGED vars
  BY <1>8 DEF vars, TypeOK
<1> QED BY <1>1, <1>2, <1>3, <1>4, <1>5, <1>6, <1>7, <1>8 DEF Next

(* A device row, a link and a Headscale user stay what they are.  A claim     *)
(* that read one earlier may therefore rely on it later.                      *)
TablesGrow ==
    /\ \A d \in Devices : device[d] # None =>
          device'[d] # None /\ device'[d].user = device[d].user
    /\ \A u \in Users : link[u] # None => link'[u] = link[u]
    /\ \A h \in HsIds : hsUser[h] # None => hsUser'[h] = hsUser[h]
    /\ announced \subseteq announced'

LEMMA StepsOnlyGrow == TypeOK /\ ClaimsConsistent /\ [Next]_vars => TablesGrow
<1> SUFFICES ASSUME TypeOK, ClaimsConsistent, [Next]_vars PROVE TablesGrow
  OBVIOUS
<1>1. CASE UNCHANGED <<device, link, hsUser, announced>>
  BY <1>1 DEF TablesGrow
<1>2. ASSUME NEW k \in Claimers, NEW c \in Codes, ClaimTx(k, c) PROVE TablesGrow
  <2>1. device[NewId(device)] = None
    BY <1>2, NewIdIsUnused DEF ClaimTx
  <2>2. \A d \in Devices : device[d] # None => device'[d] = device[d]
    BY <1>2, <2>1 DEF ClaimTx, TypeOK
  <2> QED BY <1>2, <2>2 DEF ClaimTx, TablesGrow
<1>3. ASSUME NEW k \in Claimers, CreateUser(k) PROVE TablesGrow
  <2>1. \A h \in HsIds : hsUser[h] # None => hsUser'[h] = hsUser[h]
    <3>1. CASE UNCHANGED hsUser
      BY <3>1
    <3>2. CASE /\ Unused(hsUser) # {}
               /\ hsUser' = [hsUser EXCEPT ![NewId(hsUser)] = claim[k].user]
      BY <3>2, NewIdIsUnused DEF TypeOK
    <3> QED BY <1>3, <3>1, <3>2 DEF CreateUser
  <2> QED BY <1>3, <2>1 DEF CreateUser, store, TablesGrow
<1>4. ASSUME NEW k \in Claimers, CreateLink(k) PROVE TablesGrow
  <2>1. \A u \in Users : link[u] # None => link'[u] = link[u]
    BY <1>4 DEF CreateLink, TypeOK
  <2> QED BY <1>4, <2>1 DEF CreateLink, TablesGrow
<1>5. ASSUME NEW k \in Claimers, Publish(k) PROVE TablesGrow
  BY <1>5 DEF Publish, store, TablesGrow
<1>6. ASSUME NEW d \in Devices, DeleteDevice(d) PROVE TablesGrow
  <2>1. device[d] \in DeviceRow
    BY <1>6 DEF DeleteDevice, TypeOK
  <2>2. [device[d] EXCEPT !.deleted = TRUE] \in DeviceRow
    BY <2>1 DEF DeviceRow
  <2>3. device' = [device EXCEPT ![d] = [device[d] EXCEPT !.deleted = TRUE]]
    BY <1>6 DEF DeleteDevice
  <2>4. device'[d] # None /\ device'[d].user = device[d].user
    BY <2>1, <2>2, <2>3, NoneIsNoValue DEF TypeOK, DeviceRow
  <2>5. \A e \in Devices : e # d => device'[e] = device[e]
    BY <2>3 DEF TypeOK
  <2> QED BY <1>6, <2>4, <2>5 DEF DeleteDevice, TablesGrow
<1>7. ASSUME NEW k \in Claimers, Step(k) PROVE TablesGrow
  BY <1>1, <1>3, <1>4, <1>5, <1>7
     DEF Step, GetLink, FindUserByName, MintPreAuthKey, Respond, store
<1> QED
  BY <1>1, <1>2, <1>6, <1>7
     DEF Next, Tick, IssuePairCode, Interrupt, Crash, store, vars

(* The three tables of the claim transaction stay in agreement.               *)
LEMMA NextEnrolledOnce == TypeOK /\ EnrolledOnce /\ [Next]_vars => EnrolledOnce'
<1> SUFFICES ASSUME TypeOK, EnrolledOnce, [Next]_vars PROVE EnrolledOnce'
  OBVIOUS
<1>1. CASE UNCHANGED <<pairCode, device, apiToken>>
  BY <1>1 DEF EnrolledOnce, TablesAgreeOn, Admitted, TokensOf
<1>2. ASSUME NEW u \in Users, IssuePairCode(u) PROVE EnrolledOnce'
  <2> DEFINE c == NewId(pairCode)
             row == [user |-> u, expires |-> now + CodeTTL, consumedBy |-> None]
  <2>1. c \in Codes /\ pairCode[c] = None
    BY <1>2, NewIdIsUnused DEF IssuePairCode, TypeOK
  <2>2. pairCode' = [pairCode EXCEPT ![c] = row] /\ UNCHANGED <<device, apiToken>>
    BY <1>2 DEF IssuePairCode
  <2> HIDE DEF c
  <2>3. ASSUME NEW d \in Devices PROVE Admitted(d)' = Admitted(d)
    BY <2>1, <2>2, NoneIsNoValue DEF Admitted, TypeOK
  <2>4. ASSUME NEW d \in Devices, NEW b \in Admitted(d)
        PROVE  pairCode'[b] = pairCode[b]
    BY <2>1, <2>2 DEF Admitted, TypeOK
  <2> QED BY <2>2, <2>3, <2>4 DEF EnrolledOnce, TablesAgreeOn, TokensOf
<1>3. ASSUME NEW k \in Claimers, NEW c \in Codes, ClaimTx(k, c) PROVE EnrolledOnce'
  <2>a. PICK d \in Devices, t \in Tokens : d = NewId(device) /\ t = NewId(apiToken)
    BY <1>3, NewIdIsUnused DEF ClaimTx, TypeOK
  <2> DEFINE u == pairCode[c].user
  <2>1. device[d] = None /\ apiToken[t] = None
    BY <1>3, <2>a, NewIdIsUnused DEF ClaimTx
  <2>2. pairCode[c] \in CodeRow /\ pairCode[c] # None /\ pairCode[c].consumedBy = None
    BY <1>3 DEF ClaimTx, Claimable, TypeOK
  <2>3. /\ pairCode' = [pairCode EXCEPT ![c] = [pairCode[c] EXCEPT !.consumedBy = d]]
        /\ device' = [device EXCEPT ![d] = [user |-> u, deleted |-> FALSE]]
        /\ apiToken' = [apiToken EXCEPT ![t] = [user |-> u, device |-> d]]
    BY <1>3, <2>a DEF ClaimTx, BoundToken
  <2>4. /\ [pairCode[c] EXCEPT !.consumedBy = d] \in CodeRow
        /\ [user |-> u, deleted |-> FALSE] \in DeviceRow
        /\ [user |-> u, device |-> d] \in TokenRow
    BY <2>1, <2>2 DEF CodeRow, DeviceRow, TokenRow
  <2>5. /\ pairCode'[c] # None /\ pairCode'[c].user = u /\ pairCode'[c].consumedBy = d
        /\ \A b \in Codes : b # c => pairCode'[b] = pairCode[b]
    BY <2>2, <2>3, <2>4, NoneIsNoValue DEF TypeOK, CodeRow
  <2>6. /\ apiToken'[t] # None /\ apiToken'[t].user = u /\ apiToken'[t].device = d
        /\ \A b \in Tokens : b # t => apiToken'[b] = apiToken[b]
    BY <2>1, <2>3, <2>4, NoneIsNoValue DEF TypeOK
  <2>7. /\ device'[d] # None /\ device'[d].user = u
        /\ \A e \in Devices : e # d => device'[e] = device[e]
    BY <2>1, <2>3, <2>4, NoneIsNoValue DEF TypeOK
  <2>8. Admitted(d) = {} /\ TokensOf(d) = {}
    BY <2>1 DEF EnrolledOnce, TablesAgreeOn
  <2>9. Admitted(d)' = {c} /\ TokensOf(d)' = {t}
    BY <2>1, <2>5, <2>6, <2>8 DEF Admitted, TokensOf
  <2>10. ASSUME NEW e \in Devices, e # d
         PROVE  /\ Admitted(e)' = Admitted(e)
                /\ \A b \in Admitted(e) : pairCode'[b] = pairCode[b]
    <3>1. c \notin Admitted(e) /\ ~(pairCode'[c] # None /\ pairCode'[c].consumedBy = e)
      BY <2>2, <2>5, <2>10, NoneIsNoValue DEF Admitted
    <3> QED BY <2>5, <3>1 DEF Admitted
  <2>11. ASSUME NEW e \in Devices, e # d
         PROVE  /\ TokensOf(e)' = TokensOf(e)
                /\ \A b \in TokensOf(e) : apiToken'[b] = apiToken[b]
    <3>1. t \notin TokensOf(e) /\ ~(apiToken'[t] # None /\ apiToken'[t].device = e)
      BY <2>1, <2>6, <2>11 DEF TokensOf
    <3> QED BY <2>6, <3>1 DEF TokensOf
  <2>12. TablesAgreeOn(d)'
    BY <2>1, <2>5, <2>6, <2>7, <2>9 DEF TablesAgreeOn
  <2>13. ASSUME NEW e \in Devices, e # d PROVE TablesAgreeOn(e)'
    <3>1. TablesAgreeOn(e) /\ device'[e] = device[e]
      BY <2>7, <2>13 DEF EnrolledOnce
    <3> QED BY <2>10, <2>11, <2>13, <3>1 DEF TablesAgreeOn
  <2> QED BY <2>12, <2>13 DEF EnrolledOnce
<1>4. ASSUME NEW d \in Devices, DeleteDevice(d) PROVE EnrolledOnce'
  <2>1. device[d] \in DeviceRow /\ device[d] # None
    BY <1>4 DEF DeleteDevice, TypeOK
  <2>2. [device[d] EXCEPT !.deleted = TRUE] \in DeviceRow
    BY <2>1 DEF DeviceRow
  <2>3. device' = [device EXCEPT ![d] = [device[d] EXCEPT !.deleted = TRUE]]
    BY <1>4 DEF DeleteDevice
  <2>4. /\ device'[d] # None /\ device'[d].user = device[d].user
        /\ \A e \in Devices : e # d => device'[e] = device[e]
    BY <2>1, <2>2, <2>3, NoneIsNoValue DEF TypeOK, DeviceRow
  <2>5. UNCHANGED <<pairCode, apiToken>>
    BY <1>4 DEF DeleteDevice
  <2> QED BY <2>1, <2>4, <2>5 DEF EnrolledOnce, TablesAgreeOn, Admitted, TokensOf
<1>5. ASSUME NEW k \in Claimers, Step(k) PROVE EnrolledOnce'
  BY <1>1, <1>5 DEF Step, GetLink, FindUserByName, CreateUser, CreateLink,
                    MintPreAuthKey, Publish, Respond, store
<1> QED
  BY <1>1, <1>2, <1>3, <1>4, <1>5 DEF Next, Tick, Interrupt, Crash, store, vars

(* A claim that does not move stays coherent while the others work.           *)
LEMMA OthersStayCoherent ==
    ASSUME TypeOK, ClaimsConsistent, TablesGrow,
           NEW j \in Claimers, claim'[j] = claim[j]
    PROVE  Coherent(j)'
<1>1. CASE claim[j].pc = "idle"
  BY <1>1 DEF ClaimsConsistent, Coherent, Idle
<1>2. CASE claim[j].pc # "idle"
  <2>1. claim[j].user \in Users /\ claim[j].device \in Devices
    BY <1>2, StartedClaim
  <2>2. Coherent(j)
    BY DEF ClaimsConsistent
  <2>3. /\ device'[claim[j].device] # None
        /\ device'[claim[j].device].user = device[claim[j].device].user
    BY <1>2, <2>1, <2>2 DEF Coherent, TablesGrow
  <2>4. link[claim[j].user] # None => link'[claim[j].user] = link[claim[j].user]
    BY <2>1 DEF TablesGrow
  <2> QED BY <1>2, <2>2, <2>3, <2>4 DEF Coherent
<1> QED BY <1>1, <1>2

(* A claim that is answered, refused or interrupted is forgotten entirely.    *)
LEMMA IdleIsCoherent ==
    ASSUME NEW k \in Claimers, claim'[k] = Idle PROVE Coherent(k)'
  BY DEF Coherent, Idle

(* Requests stay coherent with the tables, and apart from each other.         *)
LEMMA NextClaimsConsistent ==
    TypeOK /\ ClaimsConsistent /\ [Next]_vars => ClaimsConsistent'
<1> SUFFICES ASSUME TypeOK, ClaimsConsistent, [Next]_vars PROVE ClaimsConsistent'
  OBVIOUS
<1>1. TablesGrow
  BY StepsOnlyGrow
<1>2. CASE UNCHANGED claim
  BY <1>1, <1>2, OthersStayCoherent DEF ClaimsConsistent
<1>3. ASSUME NEW k \in Claimers, NEW c \in Codes, ClaimTx(k, c) PROVE ClaimsConsistent'
  <2>1. PICK d \in Devices : d = NewId(device)
    BY <1>3, NewIdIsUnused DEF ClaimTx, TypeOK
  <2>2. PICK u \in Users : u = pairCode[c].user
    BY <1>3 DEF ClaimTx, Claimable, TypeOK, CodeRow
  <2>3. device[d] = None
    BY <1>3, <2>1, NewIdIsUnused DEF ClaimTx
  <2>4. /\ device' = [device EXCEPT ![d] = [user |-> u, deleted |-> FALSE]]
        /\ claim' = [claim EXCEPT ![k] =
                       [Idle EXCEPT !.pc = "getLink", !.device = d, !.user = u]]
    BY <1>3, <2>1, <2>2 DEF ClaimTx
  <2>5. /\ claim'[k] = [pc |-> "getLink", device |-> d, user |-> u,
                        hs |-> None, key |-> None]
        /\ \A j \in Claimers : j # k => claim'[j] = claim[j]
    BY <2>4 DEF TypeOK, Idle
  <2>6. device'[d] # None /\ device'[d].user = u
    <3>1. [user |-> u, deleted |-> FALSE] \in DeviceRow
      BY DEF DeviceRow
    <3> QED BY <2>4, <3>1, NoneIsNoValue DEF TypeOK
  <2>7. Coherent(k)'
    BY <2>5, <2>6, NoneIsNoValue DEF Coherent, Idle
  <2>8. ASSUME NEW j \in Claimers PROVE claim[j].device # d
    <3>1. CASE claim[j].pc = "idle"
      BY <3>1, NoneIsNoValue DEF ClaimsConsistent, Coherent, Idle
    <3>2. CASE claim[j].pc # "idle"
      BY <2>3, <3>2 DEF ClaimsConsistent, Coherent
    <3> QED BY <3>1, <3>2
  <2>9. ASSUME NEW i \in Claimers, NEW j \in Claimers,
               claim'[i].device = claim'[j].device, claim'[i].device # None
        PROVE  i = j
    BY <2>5, <2>8, <2>9 DEF ClaimsConsistent
  <2> QED BY <1>1, <2>5, <2>7, <2>9, OthersStayCoherent DEF ClaimsConsistent
<1>4. ASSUME NEW k \in Claimers, Step(k) PROVE ClaimsConsistent'
  <2>0. claim[k].pc # "idle"
    BY <1>4 DEF Step, GetLink, FindUserByName, CreateUser, CreateLink,
                MintPreAuthKey, Publish, Respond
  <2>a. /\ claim[k] \in Claim
        /\ claim[k].user \in Users
        /\ claim[k].device \in Devices
    BY <2>0, StartedClaim
  <2>b. Coherent(k)
    BY DEF ClaimsConsistent
  \* It is enough to look at k: its next record, and that it keeps its device.
  <2>c. ASSUME NEW r, claim' = [claim EXCEPT ![k] = r],
               Coherent(k)', r.device = claim[k].device \/ r.device = None
        PROVE  ClaimsConsistent'
    <3>1. claim'[k] = r /\ \A j \in Claimers : j # k => claim'[j] = claim[j]
      BY <2>c DEF TypeOK
    <3> QED BY <1>1, <2>c, <3>1, OthersStayCoherent DEF ClaimsConsistent
  <2>d. ASSUME claim' = [claim EXCEPT ![k] = Idle] PROVE ClaimsConsistent'
    <3>1. claim'[k] = Idle
      BY <2>d DEF TypeOK
    <3>2. Idle.device = None
      BY DEF Idle
    <3> QED BY <2>c, <2>d, <3>1, <3>2, IdleIsCoherent
  <2>e. /\ device'[claim[k].device] # None
        /\ claim[k].user = device'[claim[k].device].user
        /\ link[claim[k].user] # None => link'[claim[k].user] = link[claim[k].user]
    BY <1>1, <2>0, <2>a, <2>b DEF Coherent, TablesGrow
  <2>1. CASE GetLink(k)
    <3> DEFINE h == link[claim[k].user]
               r == [claim[k] EXCEPT !.hs = h, !.pc = IF h = None THEN "find" ELSE "mint"]
    <3>1. claim' = [claim EXCEPT ![k] = r] /\ UNCHANGED <<device, link>>
      BY <2>1 DEF GetLink, store
    <3>2. claim'[k] = r
      BY <3>1 DEF TypeOK
    <3>3. Coherent(k)'
      BY <2>0, <2>a, <2>b, <3>1, <3>2 DEF Coherent, Claim
    <3> QED BY <2>a, <2>c, <3>1, <3>3 DEF Claim
  <2>2. CASE FindUserByName(k)
    <3>1. ASSUME Goto(k, "createUser") PROVE ClaimsConsistent'
      <4> DEFINE r == [claim[k] EXCEPT !.pc = "createUser"]
      <4>1. claim' = [claim EXCEPT ![k] = r] /\ claim'[k] = r
        BY <3>1 DEF Goto, TypeOK
      <4>2. Coherent(k)'
        BY <2>0, <2>a, <2>b, <2>e, <4>1 DEF Coherent, Claim
      <4> QED BY <2>a, <2>c, <4>1, <4>2 DEF Claim
    <3>2. ASSUME NEW h \in Named(claim[k].user),
                 claim' = [claim EXCEPT ![k] = [@ EXCEPT !.hs = h, !.pc = "createLink"]]
          PROVE  ClaimsConsistent'
      <4> DEFINE r == [claim[k] EXCEPT !.hs = h, !.pc = "createLink"]
      <4>1. claim' = [claim EXCEPT ![k] = r] /\ claim'[k] = r
        BY <3>2 DEF TypeOK
      <4>2. h # None
        BY NoneIsNoValue DEF Named
      <4>3. Coherent(k)'
        BY <2>0, <2>a, <2>b, <2>e, <4>1, <4>2 DEF Coherent, Claim
      <4> QED BY <2>a, <2>c, <4>1, <4>3 DEF Claim
    <3> QED BY <2>2, <3>1, <3>2 DEF FindUserByName
  <2>3. CASE CreateUser(k)
    <3>1. CASE Named(claim[k].user) # {}
      BY <2>3, <2>d, <3>1 DEF CreateUser
    <3>2. CASE Named(claim[k].user) = {}
      <4>1. PICK h \in HsIds : h = NewId(hsUser)
        BY <2>3, <3>2, NewIdIsUnused DEF CreateUser, TypeOK
      <4> DEFINE r == [claim[k] EXCEPT !.hs = h, !.pc = "createLink"]
      <4>2. claim' = [claim EXCEPT ![k] = r] /\ claim'[k] = r
        BY <2>3, <3>2, <4>1 DEF CreateUser, TypeOK
      <4>3. Coherent(k)'
        BY <2>0, <2>a, <2>b, <2>e, <4>2, NoneIsNoValue DEF Coherent, Claim
      <4> QED BY <2>a, <2>c, <4>2, <4>3 DEF Claim
    <3> QED BY <3>1, <3>2
  <2>4. CASE CreateLink(k)
    <3>1. CASE claim' = [claim EXCEPT ![k] = Idle]
      BY <2>d, <3>1
    <3>2. ASSUME link' = [link EXCEPT ![claim[k].user] = claim[k].hs],
                 Goto(k, "mint")
          PROVE  ClaimsConsistent'
      <4> DEFINE r == [claim[k] EXCEPT !.pc = "mint"]
      <4>1. claim' = [claim EXCEPT ![k] = r] /\ claim'[k] = r
        BY <3>2 DEF Goto, TypeOK
      <4>2. claim[k].hs # None
        BY <2>4, <2>b DEF CreateLink, Coherent
      <4>3. link'[claim[k].user] = claim[k].hs
        BY <2>a, <3>2 DEF TypeOK
      <4>4. Coherent(k)'
        BY <2>0, <2>a, <2>b, <2>e, <4>1, <4>2, <4>3 DEF Coherent, Claim
      <4> QED BY <2>a, <2>c, <4>1, <4>4 DEF Claim
    <3> QED BY <2>4, <3>1, <3>2 DEF CreateLink
  <2>5. CASE MintPreAuthKey(k)
    <3> DEFINE r == [claim[k] EXCEPT !.key = claim[k].hs, !.pc = "publish"]
    <3>1. claim' = [claim EXCEPT ![k] = r] /\ claim'[k] = r
      BY <2>5 DEF MintPreAuthKey, TypeOK
    <3>2. Coherent(k)'
      BY <2>0, <2>5, <2>a, <2>b, <2>e, <3>1 DEF Coherent, Claim, MintPreAuthKey
    <3> QED BY <2>a, <2>c, <3>1, <3>2 DEF Claim
  <2>6. CASE Publish(k)
    <3> DEFINE r == [claim[k] EXCEPT !.pc = "respond"]
    <3>1. claim' = [claim EXCEPT ![k] = r] /\ claim'[k] = r
      BY <2>6 DEF Publish, Goto, TypeOK
    <3>2. Coherent(k)'
      BY <2>0, <2>6, <2>a, <2>b, <2>e, <3>1 DEF Coherent, Claim, Publish
    <3> QED BY <2>a, <2>c, <3>1, <3>2 DEF Claim
  <2>7. CASE Respond(k)
    <3> DEFINE r == [claim[k] EXCEPT !.pc = "done"]
    <3>1. claim' = [claim EXCEPT ![k] = r] /\ claim'[k] = r
      BY <2>7 DEF Respond, Goto, TypeOK
    <3>2. Coherent(k)'
      BY <2>0, <2>7, <2>a, <2>b, <2>e, <3>1 DEF Coherent, Claim, Respond
    <3> QED BY <2>a, <2>c, <3>1, <3>2 DEF Claim
  <2> QED BY <1>4, <2>1, <2>2, <2>3, <2>4, <2>5, <2>6, <2>7 DEF Step
<1>5. ASSUME NEW S \in SUBSET Claimers,
             claim' = [j \in Claimers |-> IF j \in S THEN Idle ELSE claim[j]]
      PROVE  ClaimsConsistent'
  <2>1. ASSUME NEW j \in Claimers PROVE Coherent(j)'
    BY <1>1, <1>5, OthersStayCoherent, IdleIsCoherent
  <2>2. \A j \in Claimers : claim'[j] = claim[j] \/ claim'[j].device = None
    BY <1>5 DEF Idle
  <2> QED BY <2>1, <2>2 DEF ClaimsConsistent
<1>6. ASSUME NEW k \in Claimers, Interrupt(k) PROVE ClaimsConsistent'
  <2>1. claim' = [j \in Claimers |-> IF j \in {k} THEN Idle ELSE claim[j]]
    BY <1>6 DEF Interrupt, TypeOK
  <2> QED BY <1>5, <2>1
<1>7. CASE Crash
  BY <1>5, <1>7 DEF Crash, InFlight
<1> QED
  BY <1>2, <1>3, <1>4, <1>6, <1>7 DEF Next, Tick, IssuePairCode, DeleteDevice, vars

(* A step of a claim moves that claim only; Publish and Respond are the only  *)
(* ones that reach the stages of the response.                                *)
LEMMA StepMovesOneClaim ==
    ASSUME TypeOK, ClaimsConsistent, NEW k \in Claimers, Step(k)
    PROVE  /\ claim[k].pc \notin {"idle", "done"}
           /\ \A j \in Claimers : j # k => claim'[j] = claim[j]
           /\ \/ claim'[k].pc \notin {"respond", "done"}
              \/ Publish(k) /\ claim'[k].pc = "respond"
              \/ Respond(k)
<1>1. claim[k].pc \notin {"idle", "done"}
  BY DEF Step, GetLink, FindUserByName, CreateUser, CreateLink,
         MintPreAuthKey, Publish, Respond
<1>2. \A j \in Claimers : j # k => claim'[j] = claim[j]
  BY DEF Step, GetLink, FindUserByName, CreateUser, CreateLink,
         MintPreAuthKey, Publish, Respond, Goto, TypeOK
<1>3. claim[k] \in Claim
  BY DEF TypeOK
<1>4. CASE GetLink(k)
  BY <1>1, <1>2, <1>3, <1>4 DEF GetLink, TypeOK, Claim
<1>5. CASE FindUserByName(k)
  BY <1>1, <1>2, <1>3, <1>5 DEF FindUserByName, Goto, TypeOK, Claim
<1>6. CASE CreateUser(k)
  <2> DEFINE r == [claim[k] EXCEPT !.hs = NewId(hsUser), !.pc = "createLink"]
  <2>1. claim' = [claim EXCEPT ![k] = Idle] \/ claim' = [claim EXCEPT ![k] = r]
    BY <1>6 DEF CreateUser
  <2>2. Idle.pc = "idle" /\ r.pc = "createLink"
    BY <1>3 DEF Idle, Claim
  <2> QED BY <1>1, <1>2, <2>1, <2>2 DEF TypeOK
<1>7. CASE CreateLink(k)
  BY <1>1, <1>2, <1>3, <1>7 DEF CreateLink, Goto, Idle, TypeOK, Claim
<1>8. CASE MintPreAuthKey(k)
  BY <1>1, <1>2, <1>3, <1>8 DEF MintPreAuthKey, TypeOK, Claim
<1>9. CASE Publish(k)
  BY <1>1, <1>2, <1>3, <1>9 DEF Publish, Goto, TypeOK, Claim
<1>10. CASE Respond(k)
  BY <1>1, <1>2, <1>10
<1> QED BY <1>4, <1>5, <1>6, <1>7, <1>8, <1>9, <1>10 DEF Step

(* Every Headscale id that a link or a request holds keeps naming its user.   *)
LEMMA NextLinkNamesUser ==
    /\ TypeOK /\ ClaimsConsistent /\ LinkNamesUser /\ [Next]_vars
    /\ ClaimsConsistent' /\ TypeOK'
    => LinkNamesUser'
<1> SUFFICES ASSUME TypeOK, ClaimsConsistent, LinkNamesUser, [Next]_vars,
                    ClaimsConsistent', TypeOK'
             PROVE  LinkNamesUser'
  OBVIOUS
<1> DEFINE LinkOK(u) == link[u] # None => hsUser[link[u]] = u
           HsOK(k) == claim[k].hs # None => hsUser[claim[k].hs] = claim[k].user
<1>1. TablesGrow
  BY StepsOnlyGrow
<1>2. ASSUME NEW u \in Users, link'[u] = link[u] PROVE LinkOK(u)'
  <2>1. link[u] # None => link[u] \in HsIds /\ hsUser[link[u]] = u
    BY DEF LinkNamesUser, TypeOK
  <2> QED BY <1>1, <1>2, <2>1, NoneIsNoValue DEF TablesGrow
<1>3. ASSUME NEW k \in Claimers, NEW r \in Claim, claim'[k] = r,
             r.hs # None => hsUser[r.hs] # None /\ hsUser[r.hs] = r.user
      PROVE  HsOK(k)'
  BY <1>1, <1>3 DEF TablesGrow, Claim
<1>4. ASSUME NEW k \in Claimers
      PROVE  claim[k].hs # None =>
                hsUser[claim[k].hs] # None /\ hsUser[claim[k].hs] = claim[k].user
  <2>1. CASE claim[k].pc = "idle"
    BY <2>1 DEF ClaimsConsistent, Coherent, Idle
  <2>2. CASE claim[k].pc # "idle"
    BY <2>2, StartedClaim, NoneIsNoValue DEF LinkNamesUser
  <2> QED BY <2>1, <2>2
<1>5. ASSUME NEW k \in Claimers, claim'[k] = claim[k] PROVE HsOK(k)'
  BY <1>3, <1>4, <1>5 DEF TypeOK
<1>6. ASSUME NEW k \in Claimers, claim'[k] = Idle PROVE HsOK(k)'
  BY <1>6 DEF Idle
<1>7. ASSUME \A u \in Users : LinkOK(u)', \A k \in Claimers : HsOK(k)'
      PROVE  LinkNamesUser'
  <2>1. ASSUME NEW k \in Claimers, claim'[k].pc \in {"publish", "respond", "done"}
        PROVE  /\ claim'[k].key # None
               /\ hsUser'[claim'[k].key] = device'[claim'[k].device].user
    BY <1>7, <2>1 DEF ClaimsConsistent, Coherent
  <2> QED BY <1>7, <2>1 DEF LinkNamesUser
<1>8. CASE UNCHANGED <<link, claim>>
  BY <1>2, <1>5, <1>7, <1>8
<1>9. ASSUME NEW k \in Claimers, NEW c \in Codes, ClaimTx(k, c) PROVE LinkNamesUser'
  <2>1. claim'[k].hs = None /\ \A j \in Claimers : j # k => claim'[j] = claim[j]
    BY <1>9 DEF ClaimTx, TypeOK, Idle
  <2> QED BY <1>2, <1>5, <1>7, <1>9, <2>1 DEF ClaimTx
<1>10. ASSUME NEW k \in Claimers, Step(k) PROVE LinkNamesUser'
  <2>0. claim[k].pc # "idle"
    BY <1>10 DEF Step, GetLink, FindUserByName, CreateUser, CreateLink,
                 MintPreAuthKey, Publish, Respond
  <2>a. /\ claim[k] \in Claim
        /\ claim[k].user \in Users
    BY <2>0, StartedClaim
  <2>b. \A j \in Claimers : j # k => claim'[j] = claim[j]
    BY <1>10, StepMovesOneClaim
  <2>c. ASSUME UNCHANGED link, HsOK(k)' PROVE LinkNamesUser'
    BY <1>2, <1>5, <1>7, <2>b, <2>c
  <2>1. CASE GetLink(k)
    <3>1. UNCHANGED <<link, hsUser>>
      BY <2>1 DEF GetLink, store
    <3>2. claim'[k].hs = link[claim[k].user] /\ claim'[k].user = claim[k].user
      BY <2>1, <2>a DEF GetLink, TypeOK, Claim
    <3> QED BY <2>a, <2>c, <3>1, <3>2 DEF LinkNamesUser
  <2>2. CASE FindUserByName(k)
    <3>1. UNCHANGED <<link, hsUser>>
      BY <2>2 DEF FindUserByName, store
    <3>2. CASE Goto(k, "createUser")
      <4>1. claim'[k].hs = claim[k].hs /\ claim'[k].user = claim[k].user
        BY <2>a, <3>2 DEF Goto, TypeOK, Claim
      <4> QED BY <1>4, <2>c, <3>1, <4>1
    <3>3. ASSUME NEW h \in Named(claim[k].user),
                 claim' = [claim EXCEPT ![k] = [@ EXCEPT !.hs = h, !.pc = "createLink"]]
          PROVE  LinkNamesUser'
      <4>1. claim'[k].hs = h /\ claim'[k].user = claim[k].user
        BY <2>a, <3>3 DEF TypeOK, Claim
      <4> QED BY <2>c, <3>1, <4>1 DEF Named
    <3> QED BY <2>2, <3>2, <3>3 DEF FindUserByName
  <2>3. CASE CreateUser(k)
    <3>1. CASE Named(claim[k].user) # {}
      <4>1. claim'[k] = Idle
        BY <2>3, <3>1 DEF CreateUser, TypeOK
      <4> QED BY <1>6, <2>3, <2>c, <4>1 DEF CreateUser, store
    <3>2. CASE Named(claim[k].user) = {}
      <4>1. PICK h \in HsIds : h = NewId(hsUser)
        BY <2>3, <3>2, NewIdIsUnused DEF CreateUser, TypeOK
      <4>2. claim'[k].hs = h /\ claim'[k].user = claim[k].user
        <5>1. claim' = [claim EXCEPT ![k] =
                         [claim[k] EXCEPT !.hs = h, !.pc = "createLink"]]
          BY <2>3, <3>2, <4>1 DEF CreateUser
        <5> QED BY <2>a, <5>1 DEF TypeOK, Claim
      <4>3. hsUser'[h] = claim[k].user
        BY <2>3, <3>2, <4>1 DEF CreateUser, TypeOK
      <4> QED BY <2>3, <2>c, <4>2, <4>3 DEF CreateUser, store
    <3> QED BY <3>1, <3>2
  <2>4. CASE CreateLink(k)
    <3>1. CASE claim' = [claim EXCEPT ![k] = Idle] /\ UNCHANGED link
      <4>1. claim'[k] = Idle
        BY <3>1 DEF TypeOK
      <4> QED BY <1>6, <2>c, <3>1, <4>1
    <3>2. CASE /\ link' = [link EXCEPT ![claim[k].user] = claim[k].hs]
               /\ Goto(k, "mint")
      <4>1. claim'[k].hs = claim[k].hs /\ claim'[k].user = claim[k].user
        BY <2>a, <3>2 DEF Goto, TypeOK, Claim
      <4>2. UNCHANGED hsUser
        BY <2>4 DEF CreateLink
      <4>3. HsOK(k)'
        BY <1>4, <4>1, <4>2
      <4>4. ASSUME NEW u \in Users PROVE LinkOK(u)'
        <5>1. CASE u = claim[k].user
          BY <1>4, <2>a, <3>2, <4>2, <5>1 DEF TypeOK
        <5>2. CASE u # claim[k].user
          BY <1>2, <3>2, <5>2 DEF TypeOK
        <5> QED BY <5>1, <5>2
      <4> QED BY <1>5, <1>7, <2>b, <4>3, <4>4
    <3> QED BY <2>4, <3>1, <3>2 DEF CreateLink
  <2>5. CASE MintPreAuthKey(k) \/ Publish(k) \/ Respond(k)
    <3>1. UNCHANGED <<link, hsUser>>
      BY <2>5 DEF MintPreAuthKey, Publish, Respond, store
    <3>2. claim'[k].hs = claim[k].hs /\ claim'[k].user = claim[k].user
      <4>1. CASE MintPreAuthKey(k)
        BY <2>a, <4>1 DEF MintPreAuthKey, TypeOK, Claim
      <4>2. CASE Publish(k)
        BY <2>a, <4>2 DEF Publish, Goto, TypeOK, Claim
      <4>3. CASE Respond(k)
        BY <2>a, <4>3 DEF Respond, Goto, TypeOK, Claim
      <4> QED BY <2>5, <4>1, <4>2, <4>3
    <3> QED BY <1>4, <2>c, <3>1, <3>2
  <2> QED BY <1>10, <2>1, <2>2, <2>3, <2>4, <2>5 DEF Step
<1>11. ASSUME UNCHANGED link,
              \A k \in Claimers : claim'[k] = claim[k] \/ claim'[k] = Idle
       PROVE  LinkNamesUser'
  BY <1>2, <1>5, <1>6, <1>7, <1>11
<1>12. ASSUME NEW k \in Claimers, Interrupt(k) PROVE LinkNamesUser'
  BY <1>11, <1>12 DEF Interrupt, store, TypeOK
<1>13. CASE Crash
  BY <1>11, <1>13 DEF Crash, store
<1> QED
  BY <1>8, <1>9, <1>10, <1>12, <1>13
     DEF Next, Tick, IssuePairCode, DeleteDevice, store, vars

(* Nothing is announced early, nothing is answered before it is announced.    *)
LEMMA NextAnnouncedInOrder ==
    /\ TypeOK /\ ClaimsConsistent /\ AnnouncedInOrder /\ [Next]_vars
    => AnnouncedInOrder'
<1> SUFFICES ASSUME TypeOK, ClaimsConsistent, AnnouncedInOrder, [Next]_vars
             PROVE  AnnouncedInOrder'
  OBVIOUS
<1> DEFINE Joinable(d) == device[d] # None /\ link[device[d].user] # None
           Told(k) == claim[k].pc \in {"respond", "done"} => claim[k].device \in announced
<1>1. TablesGrow
  BY StepsOnlyGrow
<1>2. ASSUME NEW d \in Devices, Joinable(d) PROVE Joinable(d)'
  <2>1. device[d] \in DeviceRow
    BY <1>2 DEF TypeOK
  <2> QED BY <1>1, <1>2, <2>1 DEF TablesGrow, DeviceRow
<1>3. \A d \in announced : Joinable(d)'
  BY <1>2 DEF AnnouncedInOrder, TypeOK
<1>4. ASSUME announced' = announced,
             \A k \in Claimers : claim'[k].pc \in {"respond", "done"} => claim'[k] = claim[k]
      PROVE  AnnouncedInOrder'
  BY <1>3, <1>4 DEF AnnouncedInOrder
<1>5. ASSUME NEW k \in Claimers, NEW c \in Codes, ClaimTx(k, c) PROVE AnnouncedInOrder'
  <2>1. claim'[k].pc = "getLink" /\ \A j \in Claimers : j # k => claim'[j] = claim[j]
    BY <1>5 DEF ClaimTx, TypeOK, Idle
  <2> QED BY <1>4, <1>5, <2>1 DEF ClaimTx
<1>6. ASSUME NEW k \in Claimers, Step(k) PROVE AnnouncedInOrder'
  <2>0. claim[k].pc # "idle"
    BY <1>6 DEF Step, GetLink, FindUserByName, CreateUser, CreateLink,
                MintPreAuthKey, Publish, Respond
  <2>a. /\ claim[k] \in Claim /\ claim[k].device \in Devices
        /\ claim[k].user = device[claim[k].device].user
    BY <2>0, StartedClaim
  <2>b. \A j \in Claimers : j # k => claim'[j] = claim[j]
    BY <1>6, StepMovesOneClaim
  <2>1. CASE \/ GetLink(k) \/ FindUserByName(k) \/ CreateUser(k)
             \/ CreateLink(k) \/ MintPreAuthKey(k)
    <3>1. claim'[k].pc \notin {"respond", "done"}
      BY <2>1, StepMovesOneClaim DEF GetLink, FindUserByName, CreateUser,
                                     CreateLink, MintPreAuthKey, Publish, Respond, Step
    <3> QED BY <1>4, <2>1, <2>b, <3>1
            DEF GetLink, FindUserByName, CreateUser, CreateLink, MintPreAuthKey
  <2>2. CASE Publish(k)
    <3>1. announced' = announced \cup {claim[k].device}
      BY <2>2 DEF Publish
    <3>2. claim'[k].device = claim[k].device
      BY <2>2, <2>a DEF Publish, Goto, TypeOK, Claim
    <3>3. Joinable(claim[k].device)
      BY <2>2, <2>a DEF Publish, ClaimsConsistent, Coherent
    <3>4. \A d \in announced' : Joinable(d)'
      BY <1>2, <1>3, <2>a, <3>1, <3>3
    <3>5. \A j \in Claimers : Told(j)'
      BY <2>b, <3>1, <3>2 DEF AnnouncedInOrder
    <3> QED BY <3>4, <3>5 DEF AnnouncedInOrder
  <2>3. CASE Respond(k)
    <3>1. announced' = announced
      BY <2>3 DEF Respond
    <3>2. claim'[k].device = claim[k].device
      BY <2>3, <2>a DEF Respond, Goto, TypeOK, Claim
    <3>3. \A j \in Claimers : Told(j)'
      BY <2>3, <2>b, <3>1, <3>2 DEF AnnouncedInOrder, Respond
    <3> QED BY <1>3, <3>1, <3>3 DEF AnnouncedInOrder
  <2> QED BY <1>6, <2>1, <2>2, <2>3 DEF Step
<1>7. ASSUME NEW k \in Claimers, Interrupt(k) PROVE AnnouncedInOrder'
  BY <1>4, <1>7 DEF Interrupt, Idle, TypeOK
<1>8. CASE Crash
  BY <1>4, <1>8 DEF Crash, Idle
<1>9. CASE UNCHANGED <<announced, claim>>
  BY <1>4, <1>9
<1> QED
  BY <1>5, <1>6, <1>7, <1>8, <1>9 DEF Next, Tick, IssuePairCode, DeleteDevice, vars

(* The invariant holds throughout.                                            *)
THEOREM Invariance == Spec => []IndInv
<1>1. IndInv /\ [Next]_vars => IndInv'
  BY NextTypeOK, NextEnrolledOnce, NextClaimsConsistent, NextLinkNamesUser,
     NextAnnouncedInOrder DEF IndInv
<1> QED BY <1>1, InitIndInv, PTL DEF Spec

(* Every table and request of a server that runs for ever keeps its type.     *)
THEOREM TypeCorrect == Spec => []TypeOK
<1>1. IndInv => TypeOK
  BY DEF IndInv
<1> QED BY <1>1, Invariance, PTL

(* Codes, devices and tokens stay in agreement, whatever broke off: no code   *)
(* admits two devices and no device is without its code or its token.         *)
THEOREM OneDevicePerCode == Spec => []EnrolledOnce
<1>1. IndInv => EnrolledOnce
  BY DEF IndInv
<1> QED BY <1>1, Invariance, PTL

(* A pre-auth key or a link never belongs to the Headscale user of another.   *)
THEOREM KeysNameTheirUser == Spec => []LinkNamesUser
<1>1. IndInv => LinkNamesUser
  BY DEF IndInv
<1> QED BY <1>1, Invariance, PTL

(* device.created comes after the commit and the link, before the response.   *)
THEOREM EventsInOrder == Spec => []AnnouncedInOrder
<1>1. IndInv => AnnouncedInOrder
  BY DEF IndInv
<1> QED BY <1>1, Invariance, PTL

(* What a request remembers of a claim is what the tables say, at every step. *)
THEOREM ClaimsRemember == Spec => []ClaimsConsistent
<1>1. IndInv => ClaimsConsistent
  BY DEF IndInv
<1> QED BY <1>1, Invariance, PTL

(* A row keeps its owner, a link and a Headscale user stay what they are, and an *)
(* event stays published, in every step: what a claim read earlier still holds   *)
(* when it writes, whatever ran in between.                                      *)
THEOREM RowsStay == Spec => [][TablesGrow]_vars
<1>1. IndInv /\ [Next]_vars => [TablesGrow]_vars
  BY StepsOnlyGrow DEF IndInv
<1> QED BY <1>1, Invariance, PTL DEF Spec

----------------------------------------------------------------------------
(* The length of a claim *)

(* A step of a claim brings it closer to its end.                             *)
LEMMA StepAdvances ==
    ASSUME TypeOK, NEW k \in Claimers, Step(k)
    PROVE  StepsLeft(claim'[k].pc) < StepsLeft(claim[k].pc)
<1>1. claim \in [Claimers -> Claim] /\ claim[k] \in Claim
  BY DEF TypeOK
<1>2. CASE GetLink(k)
  <2>1. claim'[k].pc \in {"find", "mint"}
    BY <1>1, <1>2 DEF GetLink, Claim
  <2>2. claim[k].pc = "getLink"
    BY <1>2 DEF GetLink
  <2> QED BY <2>1, <2>2 DEF StepsLeft
<1>3. CASE FindUserByName(k)
  <2>1. claim'[k].pc \in {"createUser", "createLink"}
    BY <1>1, <1>3 DEF FindUserByName, Goto, Claim
  <2>2. claim[k].pc = "find"
    BY <1>3 DEF FindUserByName
  <2> QED BY <2>1, <2>2 DEF StepsLeft
<1>4. CASE CreateUser(k)
  <2> DEFINE r == [claim[k] EXCEPT !.hs = NewId(hsUser), !.pc = "createLink"]
  <2>1. claim'[k].pc \in {"idle", "createLink"}
    <3>1. claim' = [claim EXCEPT ![k] = Idle] \/ claim' = [claim EXCEPT ![k] = r]
      BY <1>4 DEF CreateUser
    <3>2. Idle.pc = "idle" /\ r.pc = "createLink"
      BY <1>1 DEF Idle, Claim
    <3> QED BY <1>1, <3>1, <3>2
  <2>2. claim[k].pc = "createUser"
    BY <1>4 DEF CreateUser
  <2> QED BY <2>1, <2>2 DEF StepsLeft
<1>5. CASE CreateLink(k)
  <2>1. claim'[k].pc \in {"idle", "mint"}
    BY <1>1, <1>5 DEF CreateLink, Goto, Idle, Claim
  <2>2. claim[k].pc = "createLink"
    BY <1>5 DEF CreateLink
  <2> QED BY <2>1, <2>2 DEF StepsLeft
<1>6. CASE MintPreAuthKey(k)
  BY <1>1, <1>6 DEF MintPreAuthKey, Claim, StepsLeft
<1>7. CASE Publish(k)
  BY <1>1, <1>7 DEF Publish, Goto, Claim, StepsLeft
<1>8. CASE Respond(k)
  BY <1>1, <1>8 DEF Respond, Goto, Claim, StepsLeft
<1> QED BY <1>2, <1>3, <1>4, <1>5, <1>6, <1>7, <1>8 DEF Step

(* A claim that is broken off has reached its end, from wherever it was.      *)
LEMMA BreakingOffAdvances ==
    ASSUME TypeOK, NEW k \in InFlight, claim'[k] = Idle
    PROVE  StepsLeft(claim'[k].pc) < StepsLeft(claim[k].pc)
<1>1. claim[k].pc \in Stage \ {"idle", "done"}
  BY DEF TypeOK, InFlight, Claim
<1> QED BY <1>1 DEF StepsLeft, Stage, Idle

(* The other actions leave a claim in flight alone.                           *)
LEMMA NextAdvances ==
    ASSUME TypeOK, ClaimsConsistent, [Next]_vars, NEW k \in InFlight
    PROVE  claim'[k] = claim[k] \/ StepsLeft(claim'[k].pc) < StepsLeft(claim[k].pc)
<1>1. k \in Claimers /\ claim[k].pc # "idle"
  BY DEF InFlight
<1>2. CASE \E j \in Claimers, c \in Codes : ClaimTx(j, c)
  <2>1. PICK j \in Claimers, c \in Codes : ClaimTx(j, c)
    BY <1>2
  <2> QED BY <1>1, <2>1 DEF ClaimTx, TypeOK
<1>3. CASE \E j \in Claimers : Step(j)
  BY <1>1, <1>3, StepAdvances, StepMovesOneClaim
<1>4. CASE \E j \in Claimers : Interrupt(j)
  BY <1>1, <1>4, BreakingOffAdvances DEF Interrupt, TypeOK
<1>5. CASE Crash
  BY <1>1, <1>5, BreakingOffAdvances DEF Crash
<1>6. CASE UNCHANGED claim
  BY <1>6
<1> QED
  BY <1>2, <1>3, <1>4, <1>5, <1>6 DEF Next, Tick, IssuePairCode, DeleteDevice, vars

(* A claim moves towards its end or not at all, for every number of claims    *)
(* that race with it and whatever broke off before: seven steps are enough.   *)
THEOREM ClaimsAreShort == Spec => ClaimsAdvance
<1>1. IndInv /\ [Next]_vars =>
         [\A k \in InFlight :
            \/ claim'[k] = claim[k]
            \/ StepsLeft(claim'[k].pc) < StepsLeft(claim[k].pc)]_vars
  BY NextAdvances DEF IndInv
<1> QED BY <1>1, Invariance, PTL DEF Spec, ClaimsAdvance

----------------------------------------------------------------------------
(* Orphans, and what may still make one without a fault *)

\* All claimers but one: for each user one claim creates the Headscale user, and
\* one the link, without loss.
Rivals == Claimers \ {CHOOSE k \in Claimers : TRUE}
Stakes == {"user", "link"}
AtCreate(u) == {k \in Claimers : claim[k].pc = "createUser" /\ claim[k].user = u}
AtLink(u) == {k \in Claimers : claim[k].pc \in {"find", "createLink"} /\ claim[k].user = u}

\* Who may lose a race for the Headscale user, or the link, of u: before there is one
\* anybody but the winner, and afterwards those who were under way.
MayLose(u, s) ==
    IF s = "user" THEN IF Named(u) = {} THEN Rivals ELSE AtCreate(u)
                  ELSE IF link[u] = None THEN Rivals ELSE AtLink(u)

Races == (Users \X Stakes) \X Claimers
Losses == {l \in Races : l[2] \in MayLose(l[1][1], l[1][2])}

Bound == 2 * (Cardinality(Claimers) - 1) * Cardinality(Users)

\* A lost race turns one of Losses into an orphan, a fault is counted.
Accounted ==
    /\ IsFiniteSet(Orphans)
    /\ Cardinality(Orphans) + Cardinality(Losses) <= interrupted + Bound

(* Two races are run for each user. *)
LEMMA StakesCounted == IsFiniteSet(Stakes) /\ Cardinality(Stakes) = 2
<1>1. IsFiniteSet({"user"}) /\ Cardinality({"user"}) = 1
  BY FS_Singleton
<1>2. "link" \notin {"user"} /\ Stakes = {"user"} \cup {"link"}
  BY DEF Stakes
<1>3. /\ IsFiniteSet({"user"} \cup {"link"})
      /\ Cardinality({"user"} \cup {"link"}) = Cardinality({"user"}) + 1
  BY <1>1, <1>2, FS_AddElement
<1> QED BY <1>1, <1>2, <1>3

(* There are finitely many races, however they are picked. *)
LEMMA RacesAreFinite ==
    ASSUME NEW L \in SUBSET Races
    PROVE  IsFiniteSet(L) /\ Cardinality(L) \in Nat
<1>2. IsFiniteSet(Users \X Stakes)
  BY StakesCounted, UsersAreFinite, FS_Product
<1>3. IsFiniteSet(Races)
  BY <1>2, ClaimersAreFinite, FS_Product DEF Races
<1> QED BY <1>3, FS_Subset, FS_CardinalityType

(* Whoever wins, as many rivals are left. *)
LEMMA RivalsCounted ==
    /\ IsFiniteSet(Rivals) /\ Cardinality(Claimers) \in Nat
    /\ Cardinality(Rivals) = Cardinality(Claimers) - 1
    /\ \A k \in Claimers : /\ IsFiniteSet(Claimers \ {k})
                           /\ Cardinality(Claimers \ {k}) = Cardinality(Rivals)
<1> DEFINE c == CHOOSE k \in Claimers : TRUE
<1>1. c \in Claimers
  BY ClaimersAreFinite
<1>2. \A k \in Claimers : /\ IsFiniteSet(Claimers \ {k})
                          /\ Cardinality(Claimers \ {k}) = Cardinality(Claimers) - 1
  BY ClaimersAreFinite, FS_RemoveElement
<1>3. Rivals = Claimers \ {c}
  BY DEF Rivals
<1> QED BY <1>1, <1>2, <1>3, ClaimersAreFinite, FS_CardinalityType

(* The bound is a number. *)
LEMMA BoundIsInt == Bound \in Int
<1>1. Cardinality(Users) \in Nat
  BY UsersAreFinite, FS_CardinalityType
<1> QED BY <1>1, RivalsCounted DEF Bound

(* At first every race is open, and there are no devices.                    *)
LEMMA InitAccounted == Init => Accounted
<1> SUFFICES ASSUME Init PROVE Accounted
  OBVIOUS
<1>1. Orphans = {} /\ interrupted = 0
  BY DEF Init, Orphans
<1>2. Losses \subseteq (Users \X Stakes) \X Rivals
  <2> SUFFICES ASSUME NEW u \in Users, NEW s \in Stakes
               PROVE  MayLose(u, s) = Rivals
    BY DEF Losses, Races
  <2>1. Named(u) = {} /\ link[u] = None
    BY NoneIsNoValue DEF Init, Named
  <2> QED BY <2>1 DEF MayLose
<1>4. /\ IsFiniteSet(Users \X Stakes)
      /\ Cardinality(Users \X Stakes) = Cardinality(Users) * 2
  BY StakesCounted, UsersAreFinite, FS_Product
<1>5. /\ IsFiniteSet((Users \X Stakes) \X Rivals)
      /\ Cardinality((Users \X Stakes) \X Rivals)
            = (Cardinality(Users) * 2) * Cardinality(Rivals)
  BY <1>4, RivalsCounted, FS_Product
<1>6. (Cardinality(Users) * 2) * Cardinality(Rivals) = Bound
  <2>1. Cardinality(Users) \in Nat
    BY UsersAreFinite, FS_CardinalityType
  <2> QED BY <2>1, RivalsCounted DEF Bound
<1>7. Cardinality(Losses) <= Bound /\ Cardinality(Losses) \in Nat
  BY <1>2, <1>5, <1>6, FS_Subset, FS_CardinalityType
<1> QED BY <1>1, <1>7, BoundIsInt, FS_EmptySet DEF Accounted

(* What a step costs in orphans must be paid by faults or by lost races.     *)
LEMMA Paid ==
    ASSUME Accounted, TypeOK, NEW D, IsFiniteSet(D), Orphans' \subseteq Orphans \cup D,
           interrupted' \in Nat,
           Cardinality(Losses') + Cardinality(D)
              <= Cardinality(Losses) + (interrupted' - interrupted)
    PROVE  Accounted'
<1>1. IsFiniteSet(Orphans \cup D) /\ IsFiniteSet(Orphans')
      /\ Cardinality(Orphans') <= Cardinality(Orphans \cup D)
  BY FS_Union, FS_Subset DEF Accounted
<1>2. Cardinality(Orphans \cup D)
         = Cardinality(Orphans) + Cardinality(D) - Cardinality(Orphans \cap D)
  BY FS_Union DEF Accounted
<1>3. /\ Cardinality(Orphans \cap D) \in Nat /\ Cardinality(Orphans) \in Nat
      /\ Cardinality(D) \in Nat /\ Cardinality(Orphans') \in Nat
  BY <1>1, FS_Intersection, FS_CardinalityType DEF Accounted
<1>4. Cardinality(Losses) \in Nat /\ Cardinality(Losses') \in Nat
  BY RacesAreFinite DEF Losses
<1>5. interrupted \in Nat /\ Bound \in Int /\ Bound' = Bound
  BY BoundIsInt DEF TypeOK, Bound
<1>6. Cardinality(Orphans) + Cardinality(Losses) <= interrupted + Bound
  BY DEF Accounted
<1>7. Cardinality(Orphans') + Cardinality(Losses') <= interrupted' + Bound
  BY <1>1, <1>2, <1>3, <1>4, <1>5, <1>6
<1> QED BY <1>1, <1>5, <1>7 DEF Accounted

(* Only claims that are forgotten leave orphans.                             *)
LEMMA OrphansOf ==
    ASSUME NEW S \in SUBSET Claimers,
           \A j \in Claimers \ S : claim[j].device \in {None, claim'[j].device},
           \A d \in Devices : device[d] = None /\ device'[d] # None
                                => \E j \in Claimers : claim'[j].device = d
    PROVE  Orphans' \subseteq Orphans \cup {claim[j].device : j \in S}
<1> SUFFICES ASSUME NEW d \in Devices, device'[d] # None,
                    \A j \in Claimers : claim'[j].device # d,
                    d \notin {claim[j].device : j \in S}
             PROVE  d \in Orphans
  BY DEF Orphans
<1>1. device[d] # None
  OBVIOUS
<1>2. d # None
  BY NoneIsNoValue
<1>3. ASSUME NEW j \in Claimers PROVE claim[j].device # d
  BY <1>2
<1> QED BY <1>1, <1>3 DEF Orphans

(* A step that forgets nobody, and opens no race it does not close.           *)
LEMMA NothingLost ==
    ASSUME Accounted, TypeOK, UNCHANGED interrupted,
           Cardinality(Losses') <= Cardinality(Losses),
           \A j \in Claimers : claim[j].device \in {None, claim'[j].device},
           \A d \in Devices : device[d] = None /\ device'[d] # None
                                => \E j \in Claimers : claim'[j].device = d
    PROVE  Accounted'
<1>1. Orphans' \subseteq Orphans \cup {claim[j].device : j \in {}}
  BY OrphansOf, {} \in SUBSET Claimers
<1>2. Orphans' \subseteq Orphans \cup {}
  BY <1>1
<1>3. Cardinality(Losses) \in Nat /\ Cardinality(Losses') \in Nat
  BY RacesAreFinite DEF Losses
<1>4. interrupted' \in Nat /\ interrupted' - interrupted = 0
  BY DEF TypeOK
<1>5. IsFiniteSet({}) /\ Cardinality({}) = 0
  BY FS_EmptySet
<1> QED BY <1>2, <1>3, <1>4, <1>5, Paid

(* A claim that moves on keeps its device, and nobody else's is touched. *)
LEMMA KeptAll ==
    ASSUME Accounted, TypeOK, UNCHANGED <<device, interrupted>>, NEW k \in Claimers,
           Cardinality(Losses') <= Cardinality(Losses),
           \A j \in Claimers : j # k => claim'[j] = claim[j],
           claim'[k].device = claim[k].device
    PROVE  Accounted'
<1>1. \A j \in Claimers : claim[j].device \in {None, claim'[j].device}
  OBVIOUS
<1> QED BY <1>1, NothingLost

(* Races that are closed leave fewer to lose. *)
LEMMA FewerLosses ==
    Losses' \subseteq Losses => Cardinality(Losses') <= Cardinality(Losses)
  BY RacesAreFinite, FS_Subset DEF Losses

(* One claim moves: races stay as they are unless it comes to one.           *)
LEMMA NoNewRaces ==
    ASSUME NEW k \in Claimers, \A j \in Claimers : j # k => claim'[j] = claim[j],
           UNCHANGED <<link, hsUser>>,
           claim'[k].pc = "createUser" => Named(claim'[k].user) = {},
           claim'[k].pc \in {"find", "createLink"} =>
              \/ link[claim'[k].user] = None
              \/ claim[k].pc \in {"find", "createLink"} /\ claim'[k].user = claim[k].user
    PROVE  Losses' \subseteq Losses
<1> SUFFICES ASSUME NEW u \in Users, NEW s \in Stakes, NEW x \in Claimers,
                    x \in MayLose(u, s)'
             PROVE  x \in MayLose(u, s)
  BY DEF Losses, Races
<1>1. Named(u)' = Named(u)
  BY DEF Named
<1>2. CASE x # k
  BY <1>1, <1>2 DEF MayLose, AtCreate, AtLink
<1>3. CASE x = k
  BY <1>1, <1>3 DEF MayLose, AtCreate, AtLink
<1> QED BY <1>2, <1>3

(* One race has as many losers as it has rivals. *)
LEMMA RowCounted ==
    ASSUME NEW p, NEW S, IsFiniteSet(S)
    PROVE  IsFiniteSet({p} \X S) /\ Cardinality({p} \X S) = Cardinality(S)
<1>1. IsFiniteSet({p}) /\ Cardinality({p}) = 1
  BY FS_Singleton
<1>2. IsFiniteSet({p} \X S) /\ Cardinality({p} \X S) = Cardinality({p}) * Cardinality(S)
  BY <1>1, FS_Product
<1>3. Cardinality(S) \in Nat
  BY FS_CardinalityType
<1> QED BY <1>1, <1>2, <1>3

(* A race for the Headscale user or the link of u was won by k: the others   *)
(* that are under way, at most, take the place of the rivals.                *)
LEMMA RaceWon ==
    ASSUME NEW u \in Users, NEW s \in Stakes, NEW k \in Claimers,
           MayLose(u, s) = Rivals,
           Losses' \subseteq (Losses \ ({<<u, s>>} \X Rivals))
                              \cup ({<<u, s>>} \X (Claimers \ {k}))
    PROVE  Cardinality(Losses') <= Cardinality(Losses)
<1> DEFINE B == {<<u, s>>} \X Rivals
           C == {<<u, s>>} \X (Claimers \ {k})
<1>1. B \subseteq Losses
  <2> SUFFICES ASSUME NEW x \in Rivals PROVE <<<<u, s>>, x>> \in Losses
    OBVIOUS
  <2>1. <<<<u, s>>, x>> \in Races
    BY DEF Races, Rivals
  <2> QED BY <2>1 DEF Losses
<1>2. IsFiniteSet(B) /\ Cardinality(B) = Cardinality(Rivals)
  BY RivalsCounted, RowCounted
<1>3. IsFiniteSet(C) /\ Cardinality(C) = Cardinality(Claimers \ {k})
  BY RivalsCounted, RowCounted
<1>4. Cardinality(B) = Cardinality(C) /\ Cardinality(B) \in Nat
  BY <1>2, <1>3, RivalsCounted, FS_CardinalityType
<1> HIDE DEF B, C
<1>5. IsFiniteSet(Losses) /\ Cardinality(Losses) \in Nat
  BY RacesAreFinite DEF Losses
<1>6. Losses \cap B = B
  BY <1>1
<1>7. IsFiniteSet(Losses \ B) /\ Cardinality(Losses \ B) = Cardinality(Losses) - Cardinality(B)
  <2>1. /\ IsFiniteSet(Losses \ B)
        /\ Cardinality(Losses \ B) = Cardinality(Losses) - Cardinality(Losses \cap B)
    BY <1>5, FS_Difference
  <2> QED BY <1>6, <2>1
<1>8. /\ IsFiniteSet((Losses \ B) \cup C)
      /\ Cardinality((Losses \ B) \cup C)
            = Cardinality(Losses \ B) + Cardinality(C) - Cardinality((Losses \ B) \cap C)
  BY <1>3, <1>7, FS_Union
<1>9. Cardinality((Losses \ B) \cap C) \in Nat
  BY <1>7, FS_Intersection, FS_CardinalityType
<1>10. Cardinality(Losses') <= Cardinality((Losses \ B) \cup C) /\ Cardinality(Losses') \in Nat
  <2>1. Losses' \subseteq (Losses \ B) \cup C
    BY DEF B, C
  <2> QED BY <1>8, <2>1, FS_Subset, RacesAreFinite DEF Losses
<1> QED BY <1>4, <1>5, <1>7, <1>8, <1>9, <1>10

(* The same, of a step that wins the race and opens no other. *)
LEMMA RaceTaken ==
    ASSUME NEW u \in Users, NEW s \in Stakes, NEW k \in Claimers,
           MayLose(u, s) = Rivals, k \notin MayLose(u, s)',
           \A v \in Users, t \in Stakes : \A x \in Claimers :
              x \in MayLose(v, t)' /\ <<v, t>> # <<u, s>> => x \in MayLose(v, t)
    PROVE  Cardinality(Losses') <= Cardinality(Losses)
<1> SUFFICES ASSUME NEW v \in Users, NEW t \in Stakes, NEW x \in Claimers,
                    x \in MayLose(v, t)'
             PROVE  <<<<v, t>>, x>> \in (Losses \ ({<<u, s>>} \X Rivals))
                                        \cup ({<<u, s>>} \X (Claimers \ {k}))
  <2>1. ASSUME NEW l \in Losses'
        PROVE  \E v \in Users, t \in Stakes, x \in Claimers :
                  l = <<<<v, t>>, x>> /\ x \in MayLose(v, t)'
    BY <2>1 DEF Losses, Races
  <2> QED BY <2>1, RaceWon
<1>1. CASE <<v, t>> = <<u, s>>
  <2>1. x # k
    BY <1>1
  <2> QED BY <1>1, <2>1
<1>2. CASE <<v, t>> # <<u, s>>
  <2>1. <<<<v, t>>, x>> \in Races
    BY DEF Races
  <2>2. <<<<v, t>>, x>> \in Losses
    BY <1>2, <2>1 DEF Losses
  <2> QED BY <1>2, <2>2
<1> QED BY <1>1, <1>2

(* A claim that is forgotten pays with a fault, or with the race it lost.    *)
LEMMA OneForgotten ==
    ASSUME Accounted, TypeOK, NEW k \in Claimers, claim' = [claim EXCEPT ![k] = Idle],
           UNCHANGED <<device, link, hsUser>>,
           \/ interrupted' = interrupted + 1
           \/ /\ interrupted' = interrupted
              /\ \E l \in Losses : l \notin Losses'
    PROVE  Accounted'
<1>1. claim'[k] = Idle /\ \A j \in Claimers : j # k => claim'[j] = claim[j]
  BY DEF TypeOK
<1>2. Losses' \subseteq Losses
  BY <1>1, NoNewRaces DEF Idle
<1>3. Orphans' \subseteq Orphans \cup {claim[j].device : j \in {k}}
  BY <1>1, OrphansOf, {k} \in SUBSET Claimers
<1>4. Orphans' \subseteq Orphans \cup {claim[k].device}
  BY <1>3
<1>5. IsFiniteSet({claim[k].device}) /\ Cardinality({claim[k].device}) = 1
  BY FS_Singleton
<1>6. /\ IsFiniteSet(Losses) /\ Cardinality(Losses) \in Nat
      /\ Cardinality(Losses') <= Cardinality(Losses) /\ Cardinality(Losses') \in Nat
      /\ Cardinality(Losses) = Cardinality(Losses') => Losses = Losses'
  BY <1>2, RacesAreFinite, FS_Subset DEF Losses
<1>7. interrupted' \in Nat
  BY DEF TypeOK
<1>8. Cardinality(Losses') + 1 <= Cardinality(Losses) + (interrupted' - interrupted)
  BY <1>6 DEF TypeOK
<1> QED BY <1>4, <1>5, <1>7, <1>8, Paid

(* The death of the process forgets the claims in flight, and counts them.   *)
LEMMA CrashAccounted ==
    ASSUME Accounted, TypeOK, Crash
    PROVE  Accounted'
<1> DEFINE D == {claim[k].device : k \in InFlight}
           f == [k \in InFlight |-> claim[k].device]
<1>1. InFlight \subseteq Claimers /\ IsFiniteSet(InFlight)
  BY ClaimersAreFinite, FS_Subset DEF InFlight
<1>2. f \in Surjection(InFlight, D)
  BY DEF Surjection
<1>3. IsFiniteSet(D) /\ Cardinality(D) <= Cardinality(InFlight)
  BY <1>1, <1>2, FS_Surjection
<1>4. /\ \A j \in InFlight : claim'[j] = Idle
      /\ \A j \in Claimers \ InFlight : claim'[j] = claim[j]
  BY <1>1 DEF Crash
<1>5. UNCHANGED <<device, link, hsUser>>
  BY DEF Crash, store
<1>6. Orphans' \subseteq Orphans \cup D
  BY <1>1, <1>4, <1>5, OrphansOf
<1>7. Losses' \subseteq Losses
  <2> SUFFICES ASSUME NEW u \in Users, NEW s \in Stakes, NEW x \in Claimers,
                      x \in MayLose(u, s)'
               PROVE  x \in MayLose(u, s)
    BY DEF Losses, Races
  <2>1. Named(u)' = Named(u)
    BY <1>5 DEF Named
  <2>2. x \in AtCreate(u)' => x \in AtCreate(u)
    BY <1>4 DEF AtCreate, Idle
  <2>3. x \in AtLink(u)' => x \in AtLink(u)
    BY <1>4 DEF AtLink, Idle
  <2> QED BY <1>5, <2>1, <2>2, <2>3 DEF MayLose
<1>8. /\ Cardinality(Losses') <= Cardinality(Losses) /\ Cardinality(Losses') \in Nat
      /\ Cardinality(Losses) \in Nat
  BY <1>7, RacesAreFinite, FS_Subset DEF Losses
<1>9. interrupted' = interrupted + Cardinality(InFlight)
  BY DEF Crash
<1>10. Cardinality(D) \in Nat /\ Cardinality(InFlight) \in Nat /\ interrupted \in Nat
  BY <1>3, InFlightIsCounted, FS_CardinalityType DEF TypeOK
<1> HIDE DEF D
<1> QED BY <1>3, <1>6, <1>8, <1>9, <1>10, Paid

(* The race for the Headscale user: one claim creates it, the others fail.    *)
LEMMA CreateUserAccounted ==
    ASSUME Accounted, TypeOK, ClaimsConsistent, LinkNamesUser,
           NEW k \in Claimers, CreateUser(k)
    PROVE  Accounted'
<1>1. claim[k].pc = "createUser" /\ UNCHANGED <<device, link, interrupted>>
  BY DEF CreateUser, store
<1>2. claim[k] \in Claim /\ claim[k].device # None
  BY <1>1, StartedClaim DEF ClaimsConsistent, Coherent
<1>a. PICK u \in Users : u = claim[k].user
  BY <1>1, StartedClaim
<1>3. CASE Named(u) # {}
  <2>1. claim' = [claim EXCEPT ![k] = Idle] /\ UNCHANGED hsUser
    BY <1>a, <1>3 DEF CreateUser
  <2>2. claim'[k].pc = "idle" /\ Named(u)' # {}
    BY <1>3, <2>1 DEF TypeOK, Idle, Named
  <2>3. k \in AtCreate(u) /\ k \notin AtCreate(u)'
    BY <1>a, <1>1, <2>2 DEF AtCreate
  <2>4. k \in MayLose(u, "user") /\ k \notin MayLose(u, "user")'
    BY <1>3, <2>2, <2>3 DEF MayLose
  <2>5. <<<<u, "user">>, k>> \in Races
    BY <1>2 DEF Races, Stakes
  <2>6. <<<<u, "user">>, k>> \in Losses /\ <<<<u, "user">>, k>> \notin Losses'
    BY <2>4, <2>5 DEF Losses
  <2> QED BY <1>1, <2>1, <2>6, OneForgotten
<1>4. CASE Named(u) = {}
  <2>1. PICK h \in HsIds : h = NewId(hsUser) /\ hsUser[h] = None
    BY <1>a, <1>4, NewIdIsUnused DEF CreateUser, TypeOK
  <2> DEFINE r == [claim[k] EXCEPT !.hs = h, !.pc = "createLink"]
  <2>2. claim' = [claim EXCEPT ![k] = r] /\ hsUser' = [hsUser EXCEPT ![h] = u]
    BY <1>a, <1>4, <2>1 DEF CreateUser
  <2>3. /\ claim'[k].pc = "createLink" /\ claim'[k].user = u
        /\ claim'[k].device = claim[k].device
        /\ \A j \in Claimers : j # k => claim'[j] = claim[j]
    BY <1>a, <1>2, <2>2 DEF TypeOK, Claim
  <2>4. hsUser'[h] = u /\ \A g \in HsIds : g # h => hsUser'[g] = hsUser[g]
    BY <2>2 DEF TypeOK
  <2>5. Named(u)' # {} /\ \A v \in Users : v # u => Named(v)' = Named(v)
    <3>1. h \in Named(u)'
      BY <2>4 DEF Named
    <3>2. ASSUME NEW v \in Users, v # u PROVE Named(v)' = Named(v)
      BY <2>1, <2>4, <3>2, NoneIsNoValue DEF Named
    <3> QED BY <3>1, <3>2
  <2>6. link[u] = None
    BY <1>a, <1>2, <1>4 DEF LinkNamesUser, TypeOK, Named
  <2>7. ASSUME NEW v \in Users, NEW s \in Stakes, NEW x \in Claimers,
               x \in MayLose(v, s)', <<v, s>> # <<u, "user">>
        PROVE  x \in MayLose(v, s)
    <3>1. CASE s = "user"
      <4>1. v # u /\ Named(v)' = Named(v)
        BY <2>5, <2>7, <3>1
      <4>2. x \in AtCreate(v)' => x \in AtCreate(v)
        BY <1>a, <2>3 DEF AtCreate
      <4> QED BY <2>7, <3>1, <4>1, <4>2 DEF MayLose
    <3>2. CASE s = "link"
      <4>1. CASE link[v] = None
        BY <1>1, <2>7, <3>2, <4>1 DEF MayLose
      <4>2. CASE link[v] # None
        <5>1. x \in AtLink(v)' /\ v # u
          BY <1>1, <2>6, <2>7, <3>2, <4>2 DEF MayLose
        <5>2. x \in AtLink(v)
          BY <1>a, <2>3, <5>1 DEF AtLink
        <5> QED BY <3>2, <4>2, <5>2 DEF MayLose
      <4> QED BY <4>1, <4>2
    <3> QED BY <3>1, <3>2 DEF Stakes
  <2>8. k \notin MayLose(u, "user")'
    BY <1>a, <2>3, <2>5 DEF MayLose, AtCreate
  <2>9. MayLose(u, "user") = Rivals /\ "user" \in Stakes
    BY <1>4 DEF MayLose, Stakes
  <2>10. Cardinality(Losses') <= Cardinality(Losses)
    BY <1>2, <2>7, <2>8, <2>9, RaceTaken
  <2> QED BY <1>1, <2>3, <2>10, KeptAll
<1> QED BY <1>3, <1>4

(* The race for the link row: one claim inserts it, the others fail.          *)
LEMMA CreateLinkAccounted ==
    ASSUME Accounted, TypeOK, ClaimsConsistent, LinkNamesUser,
           NEW k \in Claimers, CreateLink(k)
    PROVE  Accounted'
<1>1. claim[k].pc = "createLink" /\ UNCHANGED <<device, hsUser, interrupted>>
  BY DEF CreateLink
<1>a. PICK u \in Users, h \in HsIds : u = claim[k].user /\ h = claim[k].hs
  BY <1>1, StartedClaim DEF ClaimsConsistent, Coherent, Claim
<1>2. claim[k] \in Claim /\ claim[k].device # None /\ h # None
  BY <1>1, <1>a, StartedClaim, NoneIsNoValue DEF ClaimsConsistent, Coherent
<1> DEFINE free == link[u] = None /\ \A v \in Users : link[v] # h
<1>3. \A v \in Users : Named(v)' = Named(v)
  BY <1>1 DEF Named
<1>4. CASE ~free
  <2>1. claim' = [claim EXCEPT ![k] = Idle] /\ UNCHANGED link
    BY <1>a, <1>4 DEF CreateLink
  <2>2. claim'[k].pc = "idle"
    BY <2>1 DEF TypeOK, Idle
  <2>3. link[u] # None
    <3>1. hsUser[h] = u
      BY <1>a, <1>2 DEF LinkNamesUser
    <3>2. ASSUME NEW v \in Users, link[v] = h PROVE v = u
      BY <1>a, <1>2, <3>1, <3>2 DEF LinkNamesUser
    <3> QED BY <1>2, <1>4, <3>2
  <2> HIDE DEF free
  <2>4. k \in AtLink(u) /\ k \notin AtLink(u)'
    BY <1>a, <1>1, <2>2 DEF AtLink
  <2>5. k \in MayLose(u, "link") /\ k \notin MayLose(u, "link")'
    BY <2>1, <2>3, <2>4 DEF MayLose
  <2>6. <<<<u, "link">>, k>> \in Races
    BY <1>2 DEF Races, Stakes
  <2>7. <<<<u, "link">>, k>> \in Losses /\ <<<<u, "link">>, k>> \notin Losses'
    BY <2>5, <2>6 DEF Losses
  <2> QED BY <1>1, <2>1, <2>7, OneForgotten
<1>5. CASE free
  <2>1. link' = [link EXCEPT ![u] = h] /\ claim' = [claim EXCEPT ![k].pc = "mint"]
    BY <1>a, <1>5 DEF CreateLink, Goto
  <2>2. /\ claim'[k].pc = "mint" /\ claim'[k].device = claim[k].device
        /\ \A j \in Claimers : j # k => claim'[j] = claim[j]
    BY <1>a, <1>2, <2>1 DEF TypeOK, Claim
  <2>3. link'[u] # None /\ \A v \in Users : v # u => link'[v] = link[v]
    BY <1>2, <2>1 DEF TypeOK
  <2>4. link[u] = None
    BY <1>5
  <2> HIDE DEF free
  <2>5. ASSUME NEW v \in Users, NEW s \in Stakes, NEW x \in Claimers,
               x \in MayLose(v, s)', <<v, s>> # <<u, "link">>
        PROVE  x \in MayLose(v, s)
    <3>1. x \in AtCreate(v)' => x \in AtCreate(v)
      BY <1>a, <2>2 DEF AtCreate
    <3>2. x \in AtLink(v)' => x \in AtLink(v)
      BY <1>a, <2>2 DEF AtLink
    <3>3. CASE s = "user"
      BY <1>3, <2>5, <3>1, <3>3 DEF MayLose
    <3>4. CASE s = "link"
      <4>1. link'[v] = link[v]
        BY <2>3, <2>5, <3>4
      <4> QED BY <2>5, <3>2, <3>4, <4>1 DEF MayLose
    <3> QED BY <3>3, <3>4 DEF Stakes
  <2>6. k \notin MayLose(u, "link")'
    BY <1>a, <2>2, <2>3 DEF MayLose, AtLink
  <2>7. MayLose(u, "link") = Rivals /\ "link" \in Stakes
    BY <2>4 DEF MayLose, Stakes
  <2>8. Cardinality(Losses') <= Cardinality(Losses)
    BY <1>2, <2>5, <2>6, <2>7, RaceTaken
  <2> QED BY <1>1, <2>2, <2>8, KeptAll
<1> QED BY <1>4, <1>5

(* Every step pays for the orphans it leaves.                                 *)
LEMMA NextAccounted == IndInv /\ Accounted /\ [Next]_vars => Accounted'
<1> SUFFICES ASSUME TypeOK, LinkNamesUser, ClaimsConsistent, Accounted, [Next]_vars
             PROVE  Accounted'
  BY DEF IndInv
<1>1. ASSUME NEW k \in Claimers, UNCHANGED <<device, link, hsUser, interrupted>>,
             \A j \in Claimers : j # k => claim'[j] = claim[j],
             claim'[k].device = claim[k].device,
             claim'[k].pc = "createUser" => Named(claim'[k].user) = {},
             claim'[k].pc \in {"find", "createLink"} =>
                \/ link[claim'[k].user] = None
                \/ claim[k].pc \in {"find", "createLink"}
                   /\ claim'[k].user = claim[k].user
      PROVE  Accounted'
  <2>1. Losses' \subseteq Losses
    BY <1>1, NoNewRaces
  <2> QED BY <1>1, <2>1, FewerLosses, KeptAll
<1>2. ASSUME UNCHANGED <<claim, link, hsUser, interrupted>>,
             \A d \in Devices : device[d] = None => device'[d] = None
      PROVE  Accounted'
  <2>1. Losses' = Losses
    BY <1>2 DEF Losses, Races, MayLose, AtCreate, AtLink, Named
  <2>2. Cardinality(Losses') <= Cardinality(Losses)
    BY <2>1, FewerLosses
  <2> QED BY <1>2, <2>2, NothingLost
<1>3. ASSUME NEW k \in Claimers, NEW c \in Codes, ClaimTx(k, c) PROVE Accounted'
  <2>1. PICK d \in Devices : d = NewId(device)
    BY <1>3, NewIdIsUnused DEF ClaimTx, TypeOK
  <2>2. claim[k] = Idle /\ UNCHANGED <<link, hsUser, interrupted>>
    BY <1>3 DEF ClaimTx, ClaimsConsistent, Coherent
  <2>3. /\ claim'[k].pc = "getLink" /\ claim'[k].device = d
        /\ \A j \in Claimers : j # k => claim'[j] = claim[j]
    BY <1>3, <2>1 DEF ClaimTx, TypeOK, Idle
  <2>4. \A e \in Devices : e # d => device'[e] = device[e]
    BY <1>3, <2>1 DEF ClaimTx, TypeOK
  <2>5. Cardinality(Losses') <= Cardinality(Losses)
    BY <2>2, <2>3, NoNewRaces, FewerLosses
  <2>6. \A j \in Claimers : claim[j].device \in {None, claim'[j].device}
    BY <2>2, <2>3 DEF Idle
  <2> QED BY <2>2, <2>3, <2>4, <2>5, <2>6, NothingLost
<1>4. ASSUME NEW k \in Claimers, Step(k) PROVE Accounted'
  <2>a. \A j \in Claimers : j # k => claim'[j] = claim[j]
    BY <1>4, StepMovesOneClaim
  <2>b. claim[k] \in Claim
    BY DEF TypeOK
  <2>1. CASE GetLink(k)
    <3>1. /\ claim'[k].pc = IF link[claim[k].user] = None THEN "find" ELSE "mint"
          /\ claim'[k].device = claim[k].device /\ claim'[k].user = claim[k].user
      BY <2>1, <2>b DEF GetLink, TypeOK, Claim
    <3>2. UNCHANGED <<device, link, hsUser, interrupted>>
      BY <2>1 DEF GetLink, store
    <3> QED BY <1>1, <2>a, <3>1, <3>2
  <2>2. CASE FindUserByName(k)
    <3>1. claim[k].pc = "find" /\ UNCHANGED <<device, link, hsUser, interrupted>>
      BY <2>2 DEF FindUserByName, store
    <3>2. CASE Named(claim[k].user) = {} /\ Goto(k, "createUser")
      <4>1. /\ claim'[k].pc = "createUser" /\ claim'[k].user = claim[k].user
            /\ claim'[k].device = claim[k].device
        BY <2>b, <3>2 DEF Goto, TypeOK, Claim
      <4> QED BY <1>1, <2>a, <3>1, <3>2, <4>1
    <3>3. ASSUME NEW h \in Named(claim[k].user),
                 claim' = [claim EXCEPT ![k] = [@ EXCEPT !.hs = h, !.pc = "createLink"]]
          PROVE  Accounted'
      <4>1. /\ claim'[k].pc = "createLink" /\ claim'[k].user = claim[k].user
            /\ claim'[k].device = claim[k].device
        BY <2>b, <3>3 DEF TypeOK, Claim
      <4> QED BY <1>1, <2>a, <3>1, <4>1
    <3> QED BY <2>2, <3>2, <3>3 DEF FindUserByName
  <2>3. CASE CreateUser(k)
    BY <2>3, CreateUserAccounted
  <2>4. CASE CreateLink(k)
    BY <2>4, CreateLinkAccounted
  <2>5. CASE MintPreAuthKey(k) \/ Publish(k) \/ Respond(k)
    <3>1. UNCHANGED <<device, link, hsUser, interrupted>>
      BY <2>5 DEF MintPreAuthKey, Publish, Respond, store
    <3>2. /\ claim'[k].device = claim[k].device
          /\ claim'[k].pc \in {"publish", "respond", "done"}
      <4>1. CASE MintPreAuthKey(k)
        BY <2>b, <4>1 DEF MintPreAuthKey, TypeOK, Claim
      <4>2. CASE Publish(k)
        BY <2>b, <4>2 DEF Publish, Goto, TypeOK, Claim
      <4>3. CASE Respond(k)
        BY <2>b, <4>3 DEF Respond, Goto, TypeOK, Claim
      <4> QED BY <2>5, <4>1, <4>2, <4>3
    <3> QED BY <1>1, <2>a, <3>1, <3>2
  <2> QED BY <1>4, <2>1, <2>2, <2>3, <2>4, <2>5 DEF Step
<1>5. ASSUME NEW k \in Claimers, Interrupt(k) PROVE Accounted'
  BY <1>5, OneForgotten DEF Interrupt, store
<1>6. CASE Crash
  BY <1>6, CrashAccounted
<1>7. ASSUME NEW d \in Devices, DeleteDevice(d) PROVE Accounted'
  <2>1. \A e \in Devices : device[e] = None => device'[e] = None
    BY <1>7 DEF DeleteDevice, TypeOK
  <2> QED BY <1>2, <1>7, <2>1 DEF DeleteDevice
<1>8. CASE Tick \/ (\E u \in Users : IssuePairCode(u)) \/ UNCHANGED vars
  BY <1>2, <1>8 DEF Tick, IssuePairCode, store, vars
<1> QED BY <1>3, <1>4, <1>5, <1>6, <1>7, <1>8 DEF Next

(* Without a fault a claim breaks off only when it loses one of the two races *)
(* that first claims of a user run, and few can be lost: orphans stay rare.   *)
THEOREM OrphansAreFew == Spec => []OrphansBounded
<1>1. Accounted /\ TypeOK => OrphansBounded
  <2> SUFFICES ASSUME Accounted, TypeOK PROVE OrphansBounded
    OBVIOUS
  <2>1. /\ Cardinality(Losses) \in Nat /\ Cardinality(Orphans) \in Nat
        /\ interrupted \in Nat /\ Bound \in Int
    BY RacesAreFinite, BoundIsInt, FS_CardinalityType DEF Losses, Accounted, TypeOK
  <2>2. Cardinality(Orphans) <= interrupted + Bound
    BY <2>1 DEF Accounted
  <2> QED BY <2>2 DEF OrphansBounded, Bound
<1>2. IndInv => TypeOK
  BY DEF IndInv
<1> QED BY <1>1, <1>2, Invariance, InitAccounted, NextAccounted, PTL DEF Spec
=============================================================================
