----------------------------- MODULE ServerFront -----------------------------
(***************************************************************************)
(* Servers that boot and restart, and the requests that pass the rate      *)
(* limit and the idempotency keys of the one that serves.                  *)
(***************************************************************************)
EXTENDS ServerBoot, FrontMiddleware

bootVars == <<proc, appKey, signed>>
frontVars == <<bucket, row, job, runs, replayed>>
vars == <<proc, appKey, signed, bucket, row, job, runs, replayed>>

ASSUME NumbersAssumption ==
    Burst \in Nat /\ Rate \in Nat /\ BucketTTL \in Nat /\ MaxRuns \in Nat
\* An evicted bucket would be full by then.  The defaults satisfy it, 20 <= 5 * 300.
ASSUME BurstRefills == Burst <= Rate * BucketTTL
ASSUME NoneIsNoValue ==
    /\ None \notin SigningKeys \cup Config
    /\ Absent \notin Addresses \cup Keys \cup Bodies \cup Bucket \cup Row
ASSUME SettingsAssumption ==
    \A s \in Settings :
        /\ \A f \in DOMAIN s.yaml : s.yaml[f] \in ValuesOf(f)
        /\ \A f \in DOMAIN s.env :
              /\ f \notin YamlOnly
              /\ s.env[f] \in ValuesOf(f) \cup {""} \/ (f \in EnvNumber /\ s.env[f] = "unparsable")

Init == BootInit /\ MiddlewareInit

Serving == \E p \in Procs : proc[p].pc = "serving"

BootStep(p) ==
    \/ Start(p) \/ OpenDB(p) \/ SelectKey(p) \/ InsertKey(p) \/ BuildHeadscaler(p)
    \/ Listen(p) \/ Die(p)

\* Of the handlers that succeed, some sign a session.
Serve(r) ==
    /\ Succeed(r)
    /\ UNCHANGED bootVars \/ \E p \in Procs : Sign(p)

Handle(r) ==
    \/ \E a \in Addresses : \/ Arrive(r, a, Absent, Absent)
                           \/ \E k \in Keys, b \in Bodies : Arrive(r, a, k, b)
    \/ Refused(r) \/ Replay(r) \/ Miss(r) \/ Fail(r) \/ Store(r) \/ LoseStore(r)

Next ==
    \/ \E p \in Procs : BootStep(p) /\ UNCHANGED frontVars
    \/ \E p \in Procs : Stop(p) /\ Forget
    \/ \E r \in Requests : Serving /\ Serve(r)
    \/ \E r \in Requests : Serving /\ Handle(r) /\ UNCHANGED bootVars
    \/ Tick /\ UNCHANGED bootVars
    \/ \E a \in Addresses, k \in Keys : Expire(a, k) /\ UNCHANGED bootVars

Spec == Init /\ [][Next]_vars

----------------------------------------------------------------------------
(* Safety *)

\* The type invariant.
TypeOK ==
    /\ proc \in [Procs -> [pc : Stage, cfg : Config \cup {None}, key : SigningKeys \cup {None}]]
    /\ appKey \in SigningKeys \cup {None}
    /\ signed \subseteq SigningKeys
    /\ bucket \in [Addresses -> Bucket \cup {Absent}]
    /\ row \in [Addresses -> [Keys -> Row \cup {Absent}]]
    /\ job \in [Requests -> [pc : {"idle", "refused", "lookup", "handle", "store"},
                             address : Addresses \cup {Absent}, key : Keys \cup {Absent},
                             body : Bodies \cup {Absent}, answer : 0 .. MaxRuns]]
    /\ runs \in 0 .. MaxRuns
    /\ replayed \in [Addresses -> [Keys -> SUBSET (Bodies \X (1 .. MaxRuns))]]

Started == {"headscale", "frontend", "serving"}

\* Whatever processes boot together, die and come back: sessions are signed with the
\* one key that is in the database, and stay good (LoadOrCreateJWTKey).
OneSigningKey ==
    /\ \A p \in Procs : proc[p].pc \in Started => proc[p].key = appKey /\ appKey # None
    /\ signed \subseteq {appKey}

\* What the configuration shows by itself and Validate does not check.
NotChecked(c) ==
    \/ c["driver"] = "postgres"
    \/ c["dataDir"] = ""
    \/ c["tls"] = "auto" /\ c["hostname"] = ""
    \/ c["headscale"] = "on" /\ c["grpc"] = ""
    \/ /\ c["headscale"] = "on" /\ c["derp"] = "on"
       /\ \/ c["code"] = ""
          \/ c["regionName"] = ""
          \/ c["derpPort"] = "zero"

\* The fields in use whose value only its reader can judge.
JudgedLater(c) ==
    {"dataDir"}
    \cup (IF c["tls"] = "auto" THEN {"hostname", "email"} ELSE {"port"})
    \cup (IF c["tls"] = "file" THEN {"files"} ELSE {})
    \cup (IF c["headscale"] = "on" THEN {"binary", "hsData"} \cup Rendered(c) ELSE {})

Unfit(c) ==
    \/ \E f \in JudgedLater(c) : c[f] = "unfit"
    \/ c["headscale"] = "on" /\ c["readyTimeout"] = "wrong"

LeftToBoot(c) == NotChecked(c) \/ Unfit(c)

Enters(p, stages) == proc[p].pc \notin stages /\ proc'[p].pc \in stages

\* Between the configuration that Load put together and Validate passed and the server
\* that listens lie just the demands of LeftToBoot: what is refused on the way was one
\* of them, whichever stage refuses it, and what serves met them all; the other demands
\* of the later stages Validate has checked or Load has derived (Load, Validate, openDB,
\* Supervisor.Start, RenderConfig, BuildDERPMap, New, serveFile, serveAuto).
LateRefusalsKnown ==
    [][\A p \in Procs :
          /\ Enters(p, {"refused", "waitChild"}) => LeftToBoot(proc[p].cfg)
          /\ Enters(p, {"serving"}) => ~LeftToBoot(proc[p].cfg)]_vars

\* All that is ever replayed under a key is one answer, to the request it was given to
\* at first; restarts, retries in flight and expiry change nothing of it (NewIdempotency).
OneAnswerPerKey ==
    \A a \in Addresses, k \in Keys :
        \A x, y \in replayed[a][k] : x = y

----------------------------------------------------------------------------
(* Refinement *)

level == [a \in Addresses |-> IF bucket[a] = Absent THEN Burst ELSE Tokens(bucket[a])]

verdict ==
    [r \in Requests |-> CASE job[r].pc = "idle" -> "none"
                          [] job[r].pc = "refused" -> "refused"
                          [] OTHER -> "admitted"]

Promise == INSTANCE TokenBucket

\* Evicting stale buckets is never noticed: the limiter lets through and turns away
\* just what buckets that are kept for ever would (NewRateLimit).
LimiterIsTokenBucket == Promise!Spec
=============================================================================
