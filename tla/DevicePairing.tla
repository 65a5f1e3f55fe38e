---------------------------- MODULE DevicePairing ----------------------------
(***************************************************************************)
(* Device onboarding: pair codes, the claim of a device, the Headscale     *)
(* user link and pre-auth key, the device.created event and the response.  *)
(*                                                                         *)
(* Three stores are involved.  The SQLite database (pairCode, device,      *)
(* apiToken, link) is opened with a single connection, so a Go transaction *)
(* holds the only connection and runs as one step.  Headscale (hsUser) is  *)
(* another process with its own database, reached by gRPC.  The realtime   *)
(* hub (announced) is in memory.  A claim takes a step per store access,   *)
(* claims interleave, and any step may be the last: the client hangs up    *)
(* (its context is cancelled), a call fails, or the process dies.          *)
(*                                                                         *)
(* Signup gives a user exactly one account, so a user stands for the pair  *)
(* (account_id, user_id) that an authenticated request carries.            *)
(***************************************************************************)
EXTENDS Integers, FiniteSets

CONSTANTS
    Users,          \* signed-in users
    Codes,          \* pair codes that may be drawn
    Devices,        \* device ids that may be drawn
    Tokens,         \* API token ids that may be drawn
    HsIds,          \* ids Headscale may assign to its users
    Claimers,       \* machines being onboarded, one claim each at a time
    CodeTTL,        \* lifetime of a pair code (5 minutes in the code)
    MaxTime,        \* bound: the clock stops there
    MaxInterrupted, \* bound: claims broken off by a fault
    MaxDeleted,     \* bound: devices deleted
    None            \* no row, no id

VARIABLES
    now,         \* the clock
    pairCode,    \* pairCode[c]: row of device_pair_codes, or None
    device,      \* device[d]: row of devices, or None
    apiToken,    \* apiToken[t]: row of api_tokens, or None
    link,        \* link[u]: headscale_user_id of u's headscale_user_links row
    hsUser,      \* hsUser[h]: whose name ("u-" + user id) Headscale user h has
    claim,       \* claim[k]: local state of k's request in the server
    announced,   \* devices whose device.created event was published
    interrupted  \* claims broken off by a fault so far

store == <<pairCode, device, apiToken, link>>
vars == <<now, pairCode, device, apiToken, link, hsUser, claim, announced,
          interrupted>>

CodeRow == [user: Users, expires: Nat, consumedBy: Devices \cup {None}]
DeviceRow == [user: Users, deleted: BOOLEAN]
TokenRow == [user: Users, device: Devices]
Stage == {"idle", "getLink", "find", "createUser", "createLink", "mint",
          "publish", "respond", "done"}
Claim == [pc: Stage, device: Devices \cup {None}, user: Users \cup {None},
          hs: HsIds \cup {None}, key: HsIds \cup {None}]

ASSUME NoneIsNoValue ==
    None \notin Users \cup Devices \cup HsIds \cup CodeRow \cup DeviceRow
                \cup TokenRow
ASSUME BoundsAreNat ==
    CodeTTL \in Nat /\ MaxTime \in Nat /\ MaxInterrupted \in Nat /\ MaxDeleted \in Nat
ASSUME ClaimersAreFinite == IsFiniteSet(Claimers) /\ Claimers # {}
ASSUME UsersAreFinite == IsFiniteSet(Users)

Idle == [pc |-> "idle", device |-> None, user |-> None, hs |-> None, key |-> None]

\* Claims the server is working on: a response was neither sent nor given up.
InFlight == {k \in Claimers : claim[k].pc \notin {"idle", "done"}}

\* ids.New() and randomPairCode draw an id at random; one that no row has.
\* Which of the unused ids it is has no effect.
Unused(table) == {i \in DOMAIN table : table[i] = None}
NewId(table) == CHOOSE i \in DOMAIN table : table[i] = None

Init ==
    /\ now = 0
    /\ pairCode = [c \in Codes |-> None]
    /\ device = [d \in Devices |-> None]
    /\ apiToken = [t \in Tokens |-> None]
    /\ link = [u \in Users |-> None]
    /\ hsUser = [h \in HsIds |-> None]
    /\ claim = [k \in Claimers |-> Idle]
    /\ announced = {}
    /\ interrupted = 0

----------------------------------------------------------------------------
(* Pair codes and the clock *)

Tick ==
    /\ now < MaxTime
    /\ now' = now + 1
    /\ UNCHANGED <<store, hsUser, claim, announced, interrupted>>

\* POST /api/devices/pair-code.  Drawing a code that has a row fails on the
\* primary key and changes nothing.
IssuePairCode(u) ==
    /\ Unused(pairCode) # {}
    /\ pairCode' = [pairCode EXCEPT ![NewId(pairCode)] =
           [user |-> u, expires |-> now + CodeTTL, consumedBy |-> None]]
    /\ UNCHANGED <<now, device, apiToken, link, hsUser, claim, announced, interrupted>>

\* Broken variants of Claimable: a code that was consumed before, or has lapsed.
ClaimableAgain(c) ==
    /\ pairCode[c] # None
    /\ now <= pairCode[c].expires
ClaimableLate(c) ==
    /\ pairCode[c] # None
    /\ pairCode[c].consumedBy = None

\* The row the claim transaction selects: unconsumed, and not past expires_at.
Claimable(c) ==
    /\ pairCode[c] # None
    /\ pairCode[c].consumedBy = None
    /\ now <= pairCode[c].expires

----------------------------------------------------------------------------
(* POST /api/devices/claim, step by step *)

Goto(k, stage) == claim' = [claim EXCEPT ![k].pc = stage]

\* The api_tokens row of a claim.  Broken variant: a token without its device.
UnboundToken(u, d) == [user |-> u, device |-> None]
BoundToken(u, d) == [user |-> u, device |-> d]

\* The transaction of ClaimDevice: consume the code, insert the device and
\* its token, commit.  A code that is not claimable, or a failing statement,
\* rolls back and changes nothing.
ClaimTx(k, c) ==
    /\ claim[k].pc = "idle"
    /\ Claimable(c)
    /\ Unused(device) # {}
    /\ Unused(apiToken) # {}
    /\ LET d == NewId(device)
           u == pairCode[c].user
       IN  /\ pairCode' = [pairCode EXCEPT ![c].consumedBy = d]
           /\ device' = [device EXCEPT ![d] = [user |-> u, deleted |-> FALSE]]
           /\ apiToken' = [apiToken EXCEPT ![NewId(apiToken)] = BoundToken(u, d)]
           /\ claim' = [claim EXCEPT ![k] =
                  [Idle EXCEPT !.pc = "getLink", !.device = d, !.user = u]]
    /\ UNCHANGED <<now, link, hsUser, announced, interrupted>>

\* ensureLink: read the link row.
GetLink(k) ==
    /\ claim[k].pc = "getLink"
    /\ LET h == link[claim[k].user]
       IN  claim' = [claim EXCEPT ![k] =
              [@ EXCEPT !.hs = h, !.pc = IF h = None THEN "find" ELSE "mint"]]
    /\ UNCHANGED <<now, store, hsUser, announced, interrupted>>

\* Broken variant of Named: any user that ListUsers returns, not the exact name.
AnyUser(u) == {h \in HsIds : hsUser[h] # None}

\* Headscale users with the name of u.
Named(u) == {h \in HsIds : hsUser[h] = u}

\* Broken variant of FindUserByName: a user left by an earlier claim is not reused.
FindNobody(k) ==
    /\ claim[k].pc = "find"
    /\ Goto(k, "createUser")
    /\ UNCHANGED <<now, store, hsUser, announced, interrupted>>

\* ensureLink: ask Headscale for a user of that name, left by an earlier claim.
FindUserByName(k) ==
    /\ claim[k].pc = "find"
    /\ \/ /\ Named(claim[k].user) = {}
          /\ Goto(k, "createUser")
       \/ \E h \in Named(claim[k].user) :
             claim' = [claim EXCEPT ![k] = [@ EXCEPT !.hs = h, !.pc = "createLink"]]
    /\ UNCHANGED <<now, store, hsUser, announced, interrupted>>

\* Headscale refuses a second user of one name; the claim then fails.
CreateUser(k) ==
    /\ claim[k].pc = "createUser"
    /\ \/ /\ Named(claim[k].user) # {}
          /\ claim' = [claim EXCEPT ![k] = Idle]
          /\ UNCHANGED hsUser
       \/ /\ Named(claim[k].user) = {}
          /\ Unused(hsUser) # {}
          /\ hsUser' = [hsUser EXCEPT ![NewId(hsUser)] = claim[k].user]
          /\ claim' = [claim EXCEPT ![k] =
                [@ EXCEPT !.hs = NewId(hsUser), !.pc = "createLink"]]
    /\ UNCHANGED <<now, store, announced, interrupted>>

\* Broken variant of CreateLink: a conflicting insert starts over in place.
CreateLinkOrRetry(k) ==
    /\ claim[k].pc = "createLink"
    /\ LET u == claim[k].user
           h == claim[k].hs
           free == link[u] = None /\ \A v \in Users : link[v] # h
       IN  \/ /\ free
              /\ link' = [link EXCEPT ![u] = h]
              /\ Goto(k, "mint")
           \/ /\ ~free
              /\ Goto(k, "find")
              /\ UNCHANGED link
    /\ UNCHANGED <<now, pairCode, device, apiToken, hsUser, announced, interrupted>>

\* Insert the link row.  Its primary key is the user and headscale_user_id is
\* unique: when either has a row the insert, and with it the claim, fails.
CreateLink(k) ==
    /\ claim[k].pc = "createLink"
    /\ LET u == claim[k].user
           h == claim[k].hs
           free == link[u] = None /\ \A v \in Users : link[v] # h
       IN  \/ /\ free
              /\ link' = [link EXCEPT ![u] = h]
              /\ Goto(k, "mint")
           \/ /\ ~free
              /\ claim' = [claim EXCEPT ![k] = Idle]
              /\ UNCHANGED link
    /\ UNCHANGED <<now, pairCode, device, apiToken, hsUser, announced, interrupted>>

\* Broken variant of MintPreAuthKey: the event is left out before the response.
MintThenRespond(k) ==
    /\ claim[k].pc = "mint"
    /\ claim' = [claim EXCEPT ![k] = [@ EXCEPT !.key = claim[k].hs, !.pc = "respond"]]
    /\ UNCHANGED <<now, store, hsUser, announced, interrupted>>

\* CreatePreAuthKey: a one-shot key for the linked Headscale user.
MintPreAuthKey(k) ==
    /\ claim[k].pc = "mint"
    /\ claim' = [claim EXCEPT ![k] = [@ EXCEPT !.key = claim[k].hs, !.pc = "publish"]]
    /\ UNCHANGED <<now, store, hsUser, announced, interrupted>>

\* claimDeviceHandler publishes device.created; Publish takes no context.
Publish(k) ==
    /\ claim[k].pc = "publish"
    /\ announced' = announced \cup {claim[k].device}
    /\ Goto(k, "respond")
    /\ UNCHANGED <<now, store, hsUser, interrupted>>

\* The response carries the token and the key to the claimer.
Respond(k) ==
    /\ claim[k].pc = "respond"
    /\ Goto(k, "done")
    /\ UNCHANGED <<now, store, hsUser, announced, interrupted>>

----------------------------------------------------------------------------
(* Faults, and the owner's clean-up *)

\* One claim breaks off at its next step: a call fails, or the client hung up
\* and the context is cancelled, or the response is lost.  A call that takes
\* effect and then reports an error is that call followed by this action.
\* Publish is not interruptible, it takes no context and returns no error.
Interrupt(k) ==
    /\ k \in InFlight
    /\ claim[k].pc # "publish"
    /\ interrupted < MaxInterrupted
    /\ interrupted' = interrupted + 1
    /\ claim' = [claim EXCEPT ![k] = Idle]
    /\ UNCHANGED <<now, store, hsUser, announced>>

\* The process dies: every claim in flight is gone, the databases remain.
Crash ==
    /\ InFlight # {}
    /\ interrupted + Cardinality(InFlight) <= MaxInterrupted
    /\ interrupted' = interrupted + Cardinality(InFlight)
    /\ claim' = [k \in Claimers |-> IF k \in InFlight THEN Idle ELSE claim[k]]
    /\ UNCHANGED <<now, store, hsUser, announced>>

\* DELETE /api/devices/{id} by a user of the device's account: soft delete of
\* a row that is not deleted.  The device's token row is left as it is.
DeleteDevice(d) ==
    /\ Cardinality({e \in Devices : device[e] # None /\ device[e].deleted}) < MaxDeleted
    /\ device[d] # None
    /\ ~device[d].deleted
    /\ device' = [device EXCEPT ![d].deleted = TRUE]
    /\ UNCHANGED <<now, pairCode, apiToken, link, hsUser, claim, announced, interrupted>>

Step(k) ==
    \/ GetLink(k) \/ FindUserByName(k) \/ CreateUser(k) \/ CreateLink(k)
    \/ MintPreAuthKey(k) \/ Publish(k) \/ Respond(k)

Next ==
    \/ Tick
    \/ \E u \in Users : IssuePairCode(u)
    \/ \E k \in Claimers, c \in Codes : ClaimTx(k, c)
    \/ \E k \in Claimers : Step(k) \/ Interrupt(k)
    \/ Crash
    \/ \E d \in Devices : DeleteDevice(d)

Spec == Init /\ [][Next]_vars

\* A handler goroutine keeps running; users keep issuing codes; a claimer that
\* was turned away tries again with a code that is good.  Nothing is assumed
\* about the clock, the faults or the clean-up.
Fairness ==
    /\ \A u \in Users : WF_vars(IssuePairCode(u))
    /\ \A k \in Claimers : WF_vars(Step(k))
    /\ \A k \in Claimers : SF_vars(\E c \in Codes : ClaimTx(k, c))

FairSpec == Spec /\ Fairness

----------------------------------------------------------------------------
(* Correctness *)

TypeOK ==
    /\ now \in Nat
    /\ pairCode \in [Codes -> CodeRow \cup {None}]
    /\ device \in [Devices -> DeviceRow \cup {None}]
    /\ apiToken \in [Tokens -> TokenRow \cup {None}]
    /\ link \in [Users -> HsIds \cup {None}]
    /\ hsUser \in [HsIds -> Users \cup {None}]
    /\ claim \in [Claimers -> Claim]
    /\ announced \subseteq Devices
    /\ interrupted \in Nat

Admitted(d) == {c \in Codes : pairCode[c] # None /\ pairCode[c].consumedBy = d}
TokensOf(d) == {t \in Tokens : apiToken[t] # None /\ apiToken[t].device = d}

\* The three tables written by the claim transaction agree at all times, also
\* after claims that broke off: a device row exists iff exactly one code was
\* consumed for it and exactly one token is bound to it, all of one user, and
\* a consumed code or a token never names a device that has no row.
TablesAgreeOn(d) ==
    IF device[d] = None
    THEN Admitted(d) = {} /\ TokensOf(d) = {}
    ELSE \E c \in Codes, t \in Tokens :
            /\ Admitted(d) = {c} /\ pairCode[c].user = device[d].user
            /\ TokensOf(d) = {t} /\ apiToken[t].user = device[d].user
EnrolledOnce == \A d \in Devices : TablesAgreeOn(d)

\* The database and Headscale agree on who is who, whatever claims raced or
\* broke off between the two: a link row, the link a claim is about to insert
\* and the pre-auth key it hands out all name the Headscale user that carries
\* the name of the very user who issued the pair code.
LinkNamesUser ==
    /\ \A u \in Users : link[u] # None => hsUser[link[u]] = u
    /\ \A k \in Claimers : claim[k].hs # None => hsUser[claim[k].hs] = claim[k].user
    /\ \A k \in Claimers : claim[k].pc \in {"publish", "respond", "done"} =>
          /\ claim[k].key # None
          /\ hsUser[claim[k].key] = device[claim[k].device].user

\* device.created is fired after the commit and after the device can join:
\* an announced device has its row and its owner a Headscale link, and no
\* claimer has its credentials before the event went out.
AnnouncedInOrder ==
    /\ \A d \in announced : device[d] # None /\ link[device[d].user] # None
    /\ \A k \in Claimers : claim[k].pc \in {"respond", "done"} =>
          claim[k].device \in announced

\* What a request in the server remembers agrees with the tables it was read
\* from, although other claims, deletions and faults ran in between, and no two
\* claims, in flight or answered, carry the same device.
Coherent(k) ==
    /\ claim[k].pc = "idle" => claim[k] = Idle
    /\ claim[k].pc # "idle" =>
          /\ claim[k].device # None
          /\ device[claim[k].device] # None
          /\ claim[k].user = device[claim[k].device].user
    /\ claim[k].pc = "createLink" => claim[k].hs # None
    /\ claim[k].pc \in {"mint", "publish", "respond", "done"} =>
          /\ claim[k].hs # None
          /\ link[claim[k].user] = claim[k].hs
    /\ claim[k].pc \in {"publish", "respond", "done"} => claim[k].key = claim[k].hs
ClaimsConsistent ==
    /\ \A k \in Claimers : Coherent(k)
    /\ \A j, k \in Claimers :
          claim[j].device = claim[k].device => j = k \/ claim[j].device = None

\* The inductive invariant: the parts above imply each other step by step.
IndInv ==
    TypeOK /\ EnrolledOnce /\ LinkNamesUser /\ AnnouncedInOrder /\ ClaimsConsistent

\* Device rows that no claim holds: the claim broke off after its commit, and
\* nobody has the token of the row or a key for it.
Orphans == {d \in Devices : device[d] # None /\ \A k \in Claimers : claim[k].device # d}

\* Claims leave few orphans.  Other than claims broken off by a fault, only
\* first claims of one user that run at the same time get in each other's way,
\* and each of the other claimers can lose at most twice: once creating the
\* Headscale user and once inserting the link.
OrphansBounded ==
    Cardinality(Orphans) <=
        interrupted + 2 * (Cardinality(Claimers) - 1) * Cardinality(Users)

\* The steps a claim in a stage is from its end, at most.
StepsLeft(stage) ==
    CASE stage = "getLink"    -> 7
      [] stage = "find"       -> 6
      [] stage = "createUser" -> 5
      [] stage = "createLink" -> 4
      [] stage = "mint"       -> 3
      [] stage = "publish"    -> 2
      [] stage = "respond"    -> 1
      [] stage \in {"idle", "done"} -> 0

\* A claim in flight never goes back to an earlier stage, whatever it finds in the
\* tables and in Headscale: it stands still, as others move, or it gets closer to its
\* end.  So it ends after at most seven steps of its own, and no race with another
\* claim makes ensureLink start over.
ClaimsAdvance ==
    [][\A k \in InFlight :
          \/ claim'[k] = claim[k]
          \/ StepsLeft(claim'[k].pc) < StepsLeft(claim[k].pc)]_vars

\* The abstract promise, read off the tables and the delivered responses.
Ticket == [c \in Codes |->
    IF pairCode[c] = None THEN "absent"
    ELSE IF pairCode[c].consumedBy # None THEN "used"
    ELSE IF now <= pairCode[c].expires THEN "open" ELSE "void"]
Issuer == [c \in Codes |-> IF pairCode[c] = None THEN None ELSE pairCode[c].user]
Enrolled == [d \in Devices |-> IF device[d] = None THEN None ELSE device[d].user]
Holder == [k \in Claimers |-> IF claim[k].pc = "done" THEN claim[k].device ELSE None]

Promise == INSTANCE Enrollment
    WITH ticket <- Ticket, issuer <- Issuer, enrolled <- Enrolled, holder <- Holder

\* Onboarding keeps its promise: a code admits at most one device, only before
\* it lapses, the device belongs to the code's issuer, and its credentials
\* reach at most one claimer.
KeepsPromise == Promise!Spec

\* A claim the server works on ends: nothing in it waits on another claim.
ClaimsEnd == \A k \in Claimers : k \in InFlight ~> k \notin InFlight

\* Onboarding recovers: whatever the interrupted claims left behind in the
\* database and in Headscale, a claimer that keeps trying with good codes is
\* admitted in the end.
EveryClaimerServed == \A k \in Claimers : <>(claim[k].pc = "done")
=============================================================================
