-------------------------- MODULE ServerFront_proof --------------------------
(***************************************************************************)
(* For any number of processes, settings, keys, addresses and requests:    *)
(* one key signs, Validate leaves to the boot only what is known, a key    *)
(* has one answer, and the limiter is a token bucket that never forgets.   *)
(*                                                                         *)
(* A step moves the processes, or the requests, or both at once; the two   *)
(* halves of the invariant are kept apart.                                 *)
(***************************************************************************)
EXTENDS ServerFront, TLAPS

BootTyped ==
    /\ proc \in [Procs -> [pc : Stage, cfg : Config \cup {None}, key : SigningKeys \cup {None}]]
    /\ appKey \in SigningKeys \cup {None}
    /\ signed \subseteq SigningKeys

Booting == {"openDB", "selectKey", "insertKey", "headscale", "frontend"}

\* A configuration that Load made and Validate passed.
Checked(c) == c \in Config /\ Valid(c) /\ c["hsData"] # "" /\ c["socket"] # ""

\* Headscale comes up, if it is wanted.
Hosts(c) ==
    c["headscale"] = "off" \/ (SupervisorStarts(c) /\ (c["derp"] = "on" => HasDERPMap(c)))

\* A process that boots has a configuration that was checked and that met the demands
\* of the stages behind it, and one about to insert a key has drawn it.
Prepared(p) ==
    /\ proc[p].pc \in Booting => Checked(proc[p].cfg)
    /\ proc[p].pc \in Booting \ {"openDB"} => OpensDB(proc[p].cfg)
    /\ proc[p].pc = "frontend" => Hosts(proc[p].cfg)
    /\ proc[p].pc = "insertKey" => proc[p].key # None

BootInv ==
    /\ BootTyped
    /\ \A p \in Procs : Prepared(p)
    /\ OneSigningKey

Job == [pc : {"idle", "refused", "lookup", "handle", "store"},
        address : Addresses \cup {Absent}, key : Keys \cup {Absent},
        body : Bodies \cup {Absent}, answer : 0 .. MaxRuns]

FrontTyped ==
    /\ bucket \in [Addresses -> Bucket \cup {Absent}]
    /\ row \in [Addresses -> [Keys -> Row \cup {Absent}]]
    /\ job \in [Requests -> Job]
    /\ runs \in 0 .. MaxRuns
    /\ replayed \in [Addresses -> [Keys -> SUBSET (Bodies \X (1 .. MaxRuns))]]

\* What a request carries.
Carries(j) ==
    /\ j.pc \in {"lookup", "handle", "store"} =>
          j.address # Absent /\ (j.key # Absent => j.body # Absent)
    /\ j.pc \in {"lookup", "store"} => j.key # Absent
    /\ j.pc = "store" => j.answer >= 1

\* What was replayed is what is in the row, live or not.
RowsKept ==
    \A a \in Addresses, k \in Keys : \A x \in replayed[a][k] :
        row[a][k] # Absent /\ x = <<row[a][k].body, row[a][k].answer>>

FrontInv == FrontTyped /\ (\A r \in Requests : Carries(job[r])) /\ RowsKept

\* The inductive invariant.
Inv == BootInv /\ FrontInv

BootMove == UNCHANGED bootVars \/ \E p \in Procs : BootStep(p) \/ Stop(p) \/ Sign(p)
FrontMove ==
    \/ UNCHANGED frontVars
    \/ Forget \/ Tick
    \/ \E r \in Requests : Handle(r) \/ Succeed(r)
    \/ \E a \in Addresses, k \in Keys : Expire(a, k)

(* Every step is a step of the processes and one of the requests.            *)
LEMMA TwoHalves == [Next]_vars => BootMove /\ FrontMove
  BY DEF Next, vars, BootMove, FrontMove, bootVars, frontVars, Serve

----------------------------------------------------------------------------
(* Configurations *)

LEMMA InConfig ==
    ASSUME NEW c, c = [f \in Field |-> c[f]], \A f \in Field : c[f] \in ValuesOf(f)
    PROVE  c \in Config
  BY DEF Config

(* The defaults are values of their fields (Default).                        *)
LEMMA DefaultIsConfig == Default \in Config
<1>1. ASSUME NEW f \in Field PROVE Default[f] \in ValuesOf(f)
  <2>1. CASE f \in {"mode", "driver", "tls", "dataDir", "binary"}
    BY <2>1 DEF Default, ValuesOf, EnvSwitch, EnvNumber
  <2>2. CASE f \in EnvSwitch \cup EnvNumber \cup {"httpPort", "readyTimeout"}
    BY <2>2 DEF Default, ValuesOf, EnvSwitch, EnvNumber, Number
  <2>3. CASE f \notin {"mode", "driver", "tls", "dataDir", "binary"}
                      \cup EnvSwitch \cup EnvNumber \cup {"httpPort", "readyTimeout"}
    BY <2>3 DEF Default, ValuesOf, EnvSwitch, EnvNumber, Text
  <2> QED BY <2>1, <2>2, <2>3
<1>2. Default = [f \in Field |-> Default[f]]
  BY DEF Default
<1> QED BY <1>1, <1>2, InConfig

(* A layer of typed values over a configuration is a configuration.          *)
LEMMA OverIsConfig ==
    ASSUME NEW c \in Config, NEW layer, \A f \in DOMAIN layer : layer[f] \in ValuesOf(f)
    PROVE  Over(layer, c) \in Config
<1>1. \A f \in Field : Over(layer, c)[f] \in ValuesOf(f)
  BY DEF Over, Config
<1> QED BY <1>1, InConfig DEF Over

(* What applyEnv heeds is a value of the field, numbers included.            *)
LEMMA HeardIsTyped ==
    ASSUME NEW s \in Settings, NEW f \in Heard(s.env)
    PROVE  s.env[f] \in ValuesOf(f)
  BY SettingsAssumption DEF Heard

(* Load makes a configuration, and no path of Headscale is left open.        *)
LEMMA LoadIsConfig ==
    ASSUME NEW s \in Settings
    PROVE  /\ Load(s.yaml, s.env) \in Config
           /\ Load(s.yaml, s.env)["hsData"] # "" /\ Load(s.yaml, s.env)["socket"] # ""
<1> DEFINE y == Over(s.yaml, Default)
           o == Over([f \in Heard(s.env) |-> s.env[f]], y)
           e == ApplyEnv(s.env, y)
<1>1. y \in Config
  BY DefaultIsConfig, OverIsConfig, SettingsAssumption
<1>2. o \in Config
  BY <1>1, HeardIsTyped, OverIsConfig
<1>3. e \in Config
  <2>1. o \in [Field -> UNION {ValuesOf(f) : f \in Field}] /\ \A f \in Field : o[f] \in ValuesOf(f)
    BY <1>2 DEF Config
  <2>2. "postgres" \in ValuesOf("driver") /\ "driver" \in Field
    <3>1. "postgres" \in ValuesOf("driver")
      BY DEF ValuesOf, EnvSwitch, EnvNumber
    <3> QED BY <3>1 DEF Field, EnvText
  <2>3. [o EXCEPT !["driver"] = "postgres"] \in Config
    <3> DEFINE d == [o EXCEPT !["driver"] = "postgres"]
    <3>1. d = [f \in Field |-> d[f]] /\ \A f \in Field : d[f] \in ValuesOf(f)
      BY <2>1, <2>2
    <3> HIDE DEF d
    <3>2. d \in Config
      BY <3>1, InConfig
    <3> QED BY <3>2 DEF d
  <2>4. e = o \/ e = [o EXCEPT !["driver"] = "postgres"]
    BY DEF ApplyEnv
  <2> QED BY <1>2, <2>3, <2>4
<1> HIDE DEF e
<1>4. \A f \in Field : e[f] \in ValuesOf(f)
  BY <1>3 DEF Config
<1>5. \A f \in Field : Derive(e)[f] \in ValuesOf(f)
  <2>1. \A f \in {"hsData", "socket", "derpHost", "hostname"} : ValuesOf(f) = Text /\ f \in Field
    BY DEF ValuesOf, Field, EnvText, EnvSwitch, EnvNumber
  <2>2. ASSUME NEW f \in Field PROVE Derive(e)[f] \in ValuesOf(f)
    <3>1. CASE f \in {"hsData", "socket"} /\ e[f] = ""
      BY <2>1, <3>1 DEF Derive, Text
    <3>2. CASE f = "derpHost" /\ e[f] = ""
      BY <1>4, <2>1, <3>2 DEF Derive
    <3>3. CASE ~(f \in {"hsData", "socket", "derpHost"} /\ e[f] = "")
      BY <1>4, <3>3 DEF Derive
    <3> QED BY <3>1, <3>2, <3>3
  <2> QED BY <2>2
<1>6. Derive(e) \in Config
  BY <1>5, InConfig DEF Derive
<1>7. Derive(e)["hsData"] # "" /\ Derive(e)["socket"] # ""
  BY DEF Derive, Field, EnvText
<1>8. Load(s.yaml, s.env) = Derive(e)
  BY DEF Load, e
<1> QED BY <1>6, <1>7, <1>8

(* The values of the fields on which LeftToBoot turns.                       *)
LEMMA FieldValues ==
    ASSUME NEW c \in Config
    PROVE  /\ c["headscale"] \in {"on", "off"} /\ c["derp"] \in {"on", "off"}
           /\ c["hostname"] \in Text /\ c["files"] \in Text
           /\ c["binary"] \in {"", "absent", "present", "unfit"}
<1>1. {"headscale", "derp", "hostname", "files", "binary"} \subseteq Field
  BY DEF Field, EnvText, EnvSwitch, YamlOnly
<1>2. ValuesOf("headscale") = {"on", "off"} /\ ValuesOf("derp") = {"on", "off"}
  BY DEF ValuesOf, EnvSwitch, EnvNumber
<1>3. ValuesOf("hostname") = Text /\ ValuesOf("files") = Text
  BY DEF ValuesOf, EnvSwitch, EnvNumber
<1>4. ValuesOf("binary") = {"", "absent", "present", "unfit"}
  BY DEF ValuesOf, EnvSwitch, EnvNumber
<1>5. \A f \in Field : c[f] \in ValuesOf(f)
  BY DEF Config
<1> QED BY <1>1, <1>2, <1>3, <1>4, <1>5

(* Each stage after Validate refuses only what was left to it.               *)
LEMMA RefusalsAreLeft ==
    ASSUME NEW c, Checked(c)
    PROVE  /\ ~OpensDB(c) => LeftToBoot(c)
           /\ c["headscale"] = "on" /\ ~Hosts(c) => LeftToBoot(c)
           /\ HasFrontend(c)
           /\ ~MayListen(c) => LeftToBoot(c)
           /\ ~LoadsKeys(c) => LeftToBoot(c)
<1>1. ~OpensDB(c) => LeftToBoot(c)
  <2>1. "dataDir" \in JudgedLater(c)
    BY DEF JudgedLater
  <2> QED BY <2>1 DEF Checked, Valid, ServerErrors, OpensDB, LeftToBoot, NotChecked, Unfit
<1>2. ASSUME c["headscale"] = "on", ~SupervisorStarts(c) PROVE LeftToBoot(c)
  <2>1. {"binary", "hsData"} \cup Rendered(c) \subseteq JudgedLater(c)
    BY <1>2 DEF JudgedLater
  <2>2. c["binary"] \in {"present", "unfit"}
    BY <1>2, FieldValues DEF Checked, Valid, HeadscaleErrors
  <2>3. CASE ~Renders(c)
    BY <1>2, <2>3 DEF Checked, Valid, HeadscaleErrors, Renders, LeftToBoot, NotChecked
  <2>4. CASE Renders(c)
    BY <1>2, <2>1, <2>2, <2>4 DEF SupervisorStarts, LeftToBoot, Unfit
  <2> QED BY <2>3, <2>4
<1>3. c["headscale"] = "on" /\ c["derp"] = "on" /\ ~HasDERPMap(c) => LeftToBoot(c)
  BY DEF Checked, Valid, HeadscaleErrors, HasDERPMap, LeftToBoot, NotChecked
<1>4. HasFrontend(c)
  BY DEF Checked, Valid, ServerErrors, HasFrontend
<1>5. ~MayListen(c) => LeftToBoot(c)
  <2>1. c["tls"] = "auto" => {"hostname", "email"} \subseteq JudgedLater(c)
    BY DEF JudgedLater
  <2>2. c["tls"] # "auto" => "port" \in JudgedLater(c)
    BY DEF JudgedLater
  <2>3. c["hostname"] \in {"", "set", "unfit"}
    BY FieldValues DEF Checked, Text
  <2> QED BY <2>1, <2>2, <2>3 DEF MayListen, LeftToBoot, NotChecked, Unfit
<1>6. ~LoadsKeys(c) => LeftToBoot(c)
  <2>1. c["tls"] = "file" => "files" \in JudgedLater(c)
    BY DEF JudgedLater
  <2>2. c["files"] \in {"", "set", "unfit"}
    BY FieldValues DEF Checked, Text
  <2> QED BY <2>1, <2>2 DEF Checked, Valid, ServerErrors, LoadsKeys, LeftToBoot, Unfit
<1>7. c["headscale"] = "on" /\ ~Hosts(c) => LeftToBoot(c)
  BY <1>2, <1>3 DEF Hosts
<1> QED BY <1>1, <1>4, <1>5, <1>6, <1>7

(* What was left to the boot, some stage refuses.                            *)
LEMMA LeftIsRefused ==
    ASSUME NEW c, Checked(c), OpensDB(c), Hosts(c), MayListen(c), LoadsKeys(c)
    PROVE  ~LeftToBoot(c)
<1>1. ~NotChecked(c)
  BY FieldValues DEF Checked, NotChecked, OpensDB, Hosts, SupervisorStarts, Renders,
     HasDERPMap, MayListen
<1>2. c["headscale"] = "on" =>
          /\ \A f \in {"binary", "hsData"} \cup Rendered(c) : c[f] # "unfit"
          /\ c["readyTimeout"] # "wrong"
  BY DEF Hosts, SupervisorStarts
<1>3. c["tls"] = "auto" => c["hostname"] # "unfit" /\ c["email"] # "unfit"
  BY DEF MayListen
<1>4. c["tls"] # "auto" => c["port"] # "unfit"
  BY DEF MayListen
<1>5. c["tls"] = "file" => c["files"] # "unfit"
  BY DEF LoadsKeys
<1>6. c["dataDir"] # "unfit"
  BY DEF OpensDB
<1>7. ASSUME NEW f \in JudgedLater(c) PROVE c[f] # "unfit"
  <2>1. CASE f = "dataDir"
    BY <1>6, <2>1
  <2>2. CASE f \in IF c["tls"] = "auto" THEN {"hostname", "email"} ELSE {"port"}
    BY <1>3, <1>4, <2>2
  <2>3. CASE c["tls"] = "file" /\ f = "files"
    BY <1>5, <2>3
  <2>4. CASE c["headscale"] = "on" /\ f \in {"binary", "hsData"} \cup Rendered(c)
    BY <1>2, <2>4
  <2> QED BY <2>1, <2>2, <2>3, <2>4 DEF JudgedLater
<1> QED BY <1>1, <1>2, <1>7 DEF LeftToBoot, Unfit

----------------------------------------------------------------------------
(* The processes *)

State == [pc : Stage, cfg : Config \cup {None}, key : SigningKeys \cup {None}]

\* What the invariant asks of one process, when the key in the database is k.
Sound(q, k) ==
    /\ q.pc \in Booting => Checked(q.cfg)
    /\ q.pc \in Booting \ {"openDB"} => OpensDB(q.cfg)
    /\ q.pc = "frontend" => Hosts(q.cfg)
    /\ q.pc = "insertKey" => q.key # None
    /\ q.pc \in Started => q.key = k /\ k # None

(* The invariant, one process at a time.                                     *)
LEMMA BootByProcess ==
    BootInv <=> /\ BootTyped
                /\ \A p \in Procs : Sound(proc[p], appKey)
                /\ signed \subseteq {appKey}
  BY DEF BootInv, Prepared, OneSigningKey, Sound

(* A step of one process that leaves the keys alone and itself sound.        *)
LEMMA OneMoves ==
    ASSUME BootInv, NEW p \in Procs, NEW q \in State, proc' = [proc EXCEPT ![p] = q],
           Sound(q, appKey), UNCHANGED <<appKey, signed>>
    PROVE  BootInv'
<1>1. BootTyped /\ signed \subseteq {appKey} /\ \A x \in Procs : Sound(proc[x], appKey)
  BY BootByProcess
<1>2. BootTyped'
  BY <1>1 DEF BootTyped, State
<1>3. ASSUME NEW x \in Procs PROVE Sound(proc'[x], appKey')
  <2>1. proc'[x] = q \/ proc'[x] = proc[x]
    BY <1>1 DEF BootTyped
  <2> QED BY <1>1, <2>1
<1> QED BY <1>1, <1>2, <1>3 DEF BootInv, Prepared, OneSigningKey, Sound

(* Each step of a process keeps the invariant.                               *)
LEMMA BootStepKeeps ==
    ASSUME BootInv, NEW p \in Procs, BootStep(p)
    PROVE  BootInv'
<1>1. BootTyped /\ signed \subseteq {appKey} /\ \A x \in Procs : Sound(proc[x], appKey)
  BY BootByProcess
<1>2. proc[p] \in State /\ proc \in [Procs -> State] /\ Sound(proc[p], appKey)
  BY <1>1 DEF BootTyped, State
<1>3. Down \in State /\ Sound(Down, appKey)
  BY DEF Down, State, Stage, Sound, Started, Booting
<1>4. ASSUME NEW pc \in Stage
      PROVE  /\ [proc[p] EXCEPT !.pc = pc] \in State
             /\ [proc[p] EXCEPT !.pc = pc, !.cfg = None] \in State
  BY <1>2 DEF State
(* A process that has no more use of its configuration is sound.             *)
<1>12. ASSUME NEW pc \in {"refused", "waitChild", "serving"}, Conclude(p, pc),
              UNCHANGED <<appKey, signed>>,
              pc = "serving" => proc[p].key = appKey /\ appKey # None
       PROVE  BootInv'
  <2> DEFINE q == [proc[p] EXCEPT !.pc = pc, !.cfg = None]
  <2>1. q \in State
    BY <1>4 DEF Stage
  <2>2. q.pc = pc /\ q.key = proc[p].key
    BY <1>2 DEF State
  <2>3. proc' = [proc EXCEPT ![p] = q]
    BY <1>2, <1>12 DEF Conclude
  <2> HIDE DEF q
  <2>4. Sound(q, appKey)
    BY <1>12, <2>2 DEF Sound, Started, Booting
  <2> QED BY <1>12, <2>1, <2>3, <2>4, OneMoves
<1>5. CASE Start(p)
  <2>1. PICK c \in Passed :
           proc' = [proc EXCEPT ![p] = [pc |-> "openDB", cfg |-> c, key |-> None]]
    BY <1>5 DEF Start
  <2> DEFINE q == [pc |-> "openDB", cfg |-> c, key |-> None]
  <2>2. Checked(c)
    BY LoadIsConfig DEF Passed, Checked
  <2>3. proc' = [proc EXCEPT ![p] = q]
    BY <2>1
  <2>4. q \in State /\ Sound(q, appKey)
    BY <2>2 DEF State, Stage, Sound, Started, Booting, Checked
  <2> QED BY <1>5, <2>3, <2>4, OneMoves DEF Start
<1>6. CASE OpenDB(p)
  <2> DEFINE q == [proc[p] EXCEPT !.pc = "selectKey"]
  <2>1. CASE OpensDB(proc[p].cfg)
    <3>1. q \in State
      BY <1>4 DEF Stage
    <3>2. Sound(q, appKey)
      BY <1>2, <1>6, <2>1 DEF OpenDB, Sound, Started, State, Booting
    <3>3. proc' = [proc EXCEPT ![p] = q]
      BY <1>2, <1>6, <2>1 DEF OpenDB, Move
    <3> QED BY <1>6, <3>1, <3>2, <3>3, OneMoves DEF OpenDB
  <2>2. CASE ~OpensDB(proc[p].cfg)
    BY <1>6, <1>12, <2>2 DEF OpenDB
  <2> QED BY <2>1, <2>2
<1>7. CASE SelectKey(p)
  <2>1. CASE appKey # None
    <3> DEFINE q == [proc[p] EXCEPT !.pc = "headscale", !.key = appKey]
    <3>1. q \in State /\ Sound(q, appKey)
      BY <1>1, <1>2, <1>7, <2>1 DEF SelectKey, Sound, Started, Booting, State, Stage, BootTyped
    <3>2. proc' = [proc EXCEPT ![p] = q]
      BY <1>2, <1>7, <2>1 DEF SelectKey
    <3> QED BY <1>7, <3>1, <3>2, OneMoves DEF SelectKey
  <2>2. CASE appKey = None
    <3>1. PICK k \in SigningKeys : proc' = [proc EXCEPT ![p].pc = "insertKey", ![p].key = k]
      BY <1>7, <2>2 DEF SelectKey
    <3> DEFINE q == [proc[p] EXCEPT !.pc = "insertKey", !.key = k]
    <3>2. k # None
      BY NoneIsNoValue
    <3>3. q \in State /\ Sound(q, appKey)
      BY <1>2, <1>7, <3>2 DEF SelectKey, Sound, Started, Booting, State, Stage
    <3>4. proc' = [proc EXCEPT ![p] = q]
      BY <1>2, <3>1
    <3> QED BY <1>7, <3>3, <3>4, OneMoves DEF SelectKey
  <2> QED BY <2>1, <2>2
<1>8. CASE InsertKey(p)
  <2>1. CASE appKey = None
    <3> DEFINE q == [proc[p] EXCEPT !.pc = "headscale"]
    <3>1. appKey' = proc[p].key /\ signed' = signed /\ proc' = [proc EXCEPT ![p] = q]
      BY <1>2, <1>8, <2>1 DEF InsertKey, Move
    <3>2. proc[p].key # None /\ proc[p].key \in SigningKeys /\ q \in State
      BY <1>2, <1>4, <1>8 DEF InsertKey, Sound, State, Stage
    <3>3. signed = {}
      BY <1>1, <2>1, NoneIsNoValue DEF BootTyped
    <3>4. ASSUME NEW x \in Procs PROVE Sound(proc'[x], appKey')
      <4>1. CASE x = p
        <5>1. proc'[x] = q
          BY <1>2, <3>1, <4>1
        <5> QED BY <1>2, <1>8, <3>1, <3>2, <5>1 DEF InsertKey, Sound, State, Started, Booting
      <4>2. CASE x # p
        <5>1. proc'[x] = proc[x]
          BY <1>2, <3>1, <4>2
        <5> QED BY <1>1, <2>1, <5>1 DEF Sound
      <4> QED BY <4>1, <4>2
    <3>5. BootTyped'
      BY <1>1, <3>1, <3>2, <3>3 DEF BootTyped, State
    <3> QED BY <3>1, <3>3, <3>4, <3>5 DEF BootInv, Prepared, OneSigningKey, Sound
  <2>2. CASE appKey # None
    BY <1>3, <1>8, <2>2, OneMoves DEF InsertKey
  <2> QED BY <2>1, <2>2
<1>9. CASE BuildHeadscaler(p)
  <2> DEFINE q == [proc[p] EXCEPT !.pc = "frontend"]
  <2>1. CASE Hosts(proc[p].cfg)
    <3>1. q \in State
      BY <1>4 DEF Stage
    <3>2. q.pc = "frontend" /\ q.cfg = proc[p].cfg /\ q.key = proc[p].key
      BY <1>2 DEF State
    <3>3. proc' = [proc EXCEPT ![p] = q]
      BY <1>2, <1>9, <2>1 DEF BuildHeadscaler, Move, Hosts
    <3> HIDE DEF q
    <3>4. Sound(q, appKey)
      BY <1>2, <1>9, <2>1, <3>2 DEF BuildHeadscaler, Sound, Started, Booting
    <3> QED BY <1>9, <3>1, <3>3, <3>4, OneMoves DEF BuildHeadscaler
  <2>2. CASE ~Hosts(proc[p].cfg)
    <3>1. Conclude(p, "refused") \/ Conclude(p, "waitChild")
      BY <1>9, <2>2 DEF BuildHeadscaler, Hosts
    <3> QED BY <1>9, <1>12, <3>1 DEF BuildHeadscaler
  <2> QED BY <2>1, <2>2
<1>10. CASE Listen(p)
  <2>1. UNCHANGED <<appKey, signed>> /\ proc[p].key = appKey /\ appKey # None
    BY <1>2, <1>10 DEF Listen, Sound, Started
  <2>2. \/ proc' = [proc EXCEPT ![p] = Down]
        \/ Conclude(p, "refused") \/ Conclude(p, "serving")
    BY <1>10 DEF Listen
  <2>3. CASE proc' = [proc EXCEPT ![p] = Down]
    BY <1>3, <2>1, <2>3, OneMoves
  <2> QED BY <1>12, <2>1, <2>2, <2>3
<1>11. CASE Die(p)
  BY <1>3, <1>11, OneMoves DEF Die
<1> QED BY <1>5, <1>6, <1>7, <1>8, <1>9, <1>10, <1>11 DEF BootStep

(* The invariant of the processes is kept by everything they do.             *)
LEMMA BootPreserved == BootInv /\ BootMove => BootInv'
<1> SUFFICES ASSUME BootInv, BootMove PROVE BootInv'
  OBVIOUS
<1>1. CASE UNCHANGED bootVars
  BY <1>1 DEF bootVars, BootInv, BootTyped, Prepared, OneSigningKey
<1>2. ASSUME NEW p \in Procs, BootStep(p) PROVE BootInv'
  BY <1>2, BootStepKeeps
<1>3. ASSUME NEW p \in Procs, Stop(p) PROVE BootInv'
  <2>1. Down \in State /\ Sound(Down, appKey)
    BY DEF Down, State, Stage, Sound, Started, Booting
  <2> QED BY <1>3, <2>1, OneMoves DEF Stop
<1>4. ASSUME NEW p \in Procs, Sign(p) PROVE BootInv'
  <2>1. proc[p].key = appKey /\ appKey \in SigningKeys
    BY <1>4 DEF Sign, BootInv, OneSigningKey, BootTyped, Started
  <2>2. signed' \subseteq SigningKeys /\ signed' \subseteq {appKey} /\ UNCHANGED <<proc, appKey>>
    BY <1>4, <2>1 DEF Sign, BootInv, BootTyped, OneSigningKey
  <2> QED BY <2>2 DEF BootInv, BootTyped, Prepared, OneSigningKey
<1> QED BY <1>1, <1>2, <1>3, <1>4 DEF BootMove

(* A process that is turned away, or that serves, is one whose configuration *)
(* had something left to the boot, or had not.                               *)
LEMMA StepsKnown ==
    ASSUME BootInv, BootMove, NEW p \in Procs
    PROVE  /\ Enters(p, {"refused", "waitChild"}) => LeftToBoot(proc[p].cfg)
           /\ Enters(p, {"serving"}) => ~LeftToBoot(proc[p].cfg)
<1> DEFINE Known == /\ Enters(p, {"refused", "waitChild"}) => LeftToBoot(proc[p].cfg)
                    /\ Enters(p, {"serving"}) => ~LeftToBoot(proc[p].cfg)
<1>1. proc \in [Procs -> State] /\ Sound(proc[p], appKey)
  BY BootByProcess DEF BootTyped, State
<1>2. ASSUME proc'[p].pc = proc[p].pc PROVE Known
  BY <1>2 DEF Enters
<1>3. ASSUME NEW pc, pc \notin {"refused", "waitChild", "serving"}, proc'[p].pc = pc
      PROVE  Known
  BY <1>3 DEF Enters
<1>4. CASE UNCHANGED proc
  BY <1>2, <1>4
<1>5. ASSUME NEW x \in Procs, NEW q, proc' = [proc EXCEPT ![x] = q], x # p PROVE Known
  BY <1>1, <1>2, <1>5
<1>6. ASSUME NEW pc \in Stage, Move(p, pc) PROVE proc'[p].pc = pc
  BY <1>1, <1>6 DEF Move, State
<1>7. ASSUME NEW pc \in Stage, Conclude(p, pc) PROVE proc'[p].pc = pc
  BY <1>1, <1>7 DEF Conclude, State
<1>8. ASSUME proc' = [proc EXCEPT ![p] = Down] PROVE Known
  <2>1. proc'[p].pc = "down"
    BY <1>1, <1>8 DEF Down
  <2> QED BY <1>3, <2>1
<1>9. ASSUME NEW x \in Procs, BootStep(x) \/ Stop(x), x # p PROVE proc'[p] = proc[p]
  BY <1>1, <1>9 DEF BootStep, Stop, Start, OpenDB, SelectKey, InsertKey, BuildHeadscaler,
     Listen, Die, Move, Conclude
<1>10. CASE Start(p)
  <2>1. proc'[p].pc = "openDB"
    BY <1>1, <1>10 DEF Start
  <2> QED BY <1>3, <2>1
<1>11. CASE OpenDB(p)
  <2>1. Checked(proc[p].cfg)
    BY <1>1, <1>11 DEF OpenDB, Sound, Booting
  <2>2. CASE OpensDB(proc[p].cfg)
    <3>1. proc'[p].pc = "selectKey"
      BY <1>6, <1>11, <2>2 DEF OpenDB, Stage
    <3> QED BY <1>3, <3>1
  <2>3. CASE ~OpensDB(proc[p].cfg)
    <3>1. proc'[p].pc = "refused" /\ LeftToBoot(proc[p].cfg)
      BY <1>7, <1>11, <2>1, <2>3, RefusalsAreLeft DEF OpenDB, Stage
    <3> QED BY <3>1 DEF Enters
  <2> QED BY <2>2, <2>3
<1>12. CASE SelectKey(p)
  <2>1. proc'[p].pc \in {"headscale", "insertKey"}
    BY <1>1, <1>12 DEF SelectKey, State
  <2> QED BY <1>3, <2>1
<1>13. CASE InsertKey(p)
  <2>1. CASE appKey = None
    <3>1. proc'[p].pc = "headscale"
      BY <1>6, <1>13, <2>1 DEF InsertKey, Stage
    <3> QED BY <1>3, <3>1
  <2>2. CASE appKey # None
    BY <1>8, <1>13, <2>2 DEF InsertKey
  <2> QED BY <2>1, <2>2
<1>14. CASE BuildHeadscaler(p)
  <2>1. Checked(proc[p].cfg)
    BY <1>1, <1>14 DEF BuildHeadscaler, Sound, Booting
  <2>2. CASE Hosts(proc[p].cfg)
    <3>1. proc'[p].pc = "frontend"
      BY <1>6, <1>14, <2>2 DEF BuildHeadscaler, Hosts, Stage
    <3> QED BY <1>3, <3>1
  <2>3. CASE ~Hosts(proc[p].cfg)
    <3>1. proc[p].cfg["headscale"] = "on"
      BY <2>1, <2>3, FieldValues DEF Checked, Hosts
    <3>2. proc'[p].pc \in {"refused", "waitChild"}
      BY <1>7, <1>14, <2>3 DEF BuildHeadscaler, Hosts, Stage
    <3> QED BY <2>1, <2>3, <3>1, <3>2, RefusalsAreLeft DEF Enters
  <2> QED BY <2>2, <2>3
<1>15. CASE Listen(p)
  <2> DEFINE c == proc[p].cfg
  <2>1. Checked(c) /\ OpensDB(c) /\ Hosts(c)
    BY <1>1, <1>15 DEF Listen, Sound, Booting
  <2>2. HasFrontend(c)
    BY <2>1, RefusalsAreLeft
  <2>3. CASE ~MayListen(c)
    <3>1. proc'[p].pc = "refused" /\ LeftToBoot(c)
      BY <1>7, <1>15, <2>1, <2>3, RefusalsAreLeft DEF Listen, Stage
    <3> QED BY <3>1 DEF Enters
  <2>4. CASE MayListen(c) /\ Taken
    BY <1>8, <1>15, <2>2, <2>4 DEF Listen
  <2>5. CASE MayListen(c) /\ ~Taken /\ ~LoadsKeys(c)
    <3>1. proc'[p].pc = "refused" /\ LeftToBoot(c)
      BY <1>7, <1>15, <2>1, <2>2, <2>5, RefusalsAreLeft DEF Listen, Stage
    <3> QED BY <3>1 DEF Enters
  <2>6. CASE MayListen(c) /\ ~Taken /\ LoadsKeys(c)
    <3>1. proc'[p].pc = "serving" /\ ~LeftToBoot(c)
      BY <1>7, <1>15, <2>1, <2>2, <2>6, LeftIsRefused DEF Listen, Stage
    <3> QED BY <3>1 DEF Enters
  <2> QED BY <2>3, <2>4, <2>5, <2>6
<1>16. CASE Die(p) \/ Stop(p)
  BY <1>8, <1>16 DEF Die, Stop
<1>17. ASSUME NEW x \in Procs, BootStep(x) \/ Stop(x) \/ Sign(x) PROVE Known
  <2>1. CASE Sign(x)
    BY <1>4, <2>1 DEF Sign
  <2>2. CASE x # p /\ (BootStep(x) \/ Stop(x))
    BY <1>2, <1>9, <2>2
  <2>3. CASE x = p /\ (BootStep(x) \/ Stop(x))
    BY <1>10, <1>11, <1>12, <1>13, <1>14, <1>15, <1>16, <2>3 DEF BootStep
  <2> QED BY <1>17, <2>1, <2>2, <2>3
<1> QED BY <1>4, <1>17 DEF BootMove, bootVars

----------------------------------------------------------------------------
(* The requests *)

(* The helpers of the limiter stay within a bucket (rate.Limiter).           *)
LEMMA TokensInRange ==
    ASSUME NEW b \in Bucket
    PROVE  Tokens(b) \in 0 .. Burst
<1>1. Rate * b.age \in Nat
  BY NumbersAssumption DEF Bucket
<1> QED BY <1>1, NumbersAssumption DEF Bucket, Tokens, Least

(* A step that moves one request, and neither rows nor answers.              *)
LEMMA OneRequestMoves ==
    ASSUME FrontInv, NEW r \in Requests, NEW j \in Job, Carries(j),
           job' = [job EXCEPT ![r] = j],
           bucket' \in [Addresses -> Bucket \cup {Absent}],
           runs' \in 0 .. MaxRuns, UNCHANGED <<row, replayed>>
    PROVE  FrontInv'
<1>1. job' \in [Requests -> Job] /\ \A q \in Requests : Carries(job'[q])
  <2>1. job \in [Requests -> Job] /\ \A q \in Requests : Carries(job[q])
    BY DEF FrontInv, FrontTyped
  <2>2. \A q \in Requests : job'[q] = j \/ job'[q] = job[q]
    BY <2>1
  <2> QED BY <2>1, <2>2
<1>2. FrontTyped'
  BY <1>1 DEF FrontInv, FrontTyped
<1>3. RowsKept'
  BY DEF FrontInv, RowsKept
<1> QED BY <1>1, <1>2, <1>3 DEF FrontInv

(* A request that is done is idle again.                                     *)
LEMMA IdleIsFine == Idle \in Job /\ Carries(Idle)
  BY NumbersAssumption DEF Idle, Job, Carries

(* Arrive takes a token or turns the request away.                           *)
LEMMA ArriveKeeps ==
    ASSUME FrontInv, NEW r \in Requests, NEW a \in Addresses,
           NEW key \in Keys \cup {Absent}, NEW body \in Bodies \cup {Absent},
           key # Absent => body # Absent, Arrive(r, a, key, body)
    PROVE  FrontInv'
<1> DEFINE kept == [x \in Addresses |-> IF bucket[x] # Absent /\ Stale(bucket[x])
                                         THEN Absent ELSE bucket[x]]
           there == IF kept[a] = Absent THEN Burst ELSE Tokens(kept[a])
           b == [tokens |-> IF there = 0 THEN 0 ELSE there - 1, age |-> 0]
           j == IF there = 0 THEN [Idle EXCEPT !.pc = "refused"]
                ELSE [pc |-> IF key = Absent THEN "handle" ELSE "lookup",
                      address |-> a, key |-> key, body |-> body, answer |-> 0]
<1>1. kept \in [Addresses -> Bucket \cup {Absent}]
  BY DEF FrontInv, FrontTyped
<1>2. there \in 0 .. Burst
  <2>1. CASE kept[a] = Absent
    BY <2>1, NumbersAssumption
  <2>2. CASE kept[a] # Absent
    BY <1>1, <2>2, TokensInRange
  <2> QED BY <2>1, <2>2
<1>3. bucket' = [kept EXCEPT ![a] = b] /\ job' = [job EXCEPT ![r] = j]
  BY DEF Arrive
<1> HIDE DEF kept, there
<1>4. b \in Bucket
  BY <1>2, NumbersAssumption DEF Bucket
<1>5. bucket' \in [Addresses -> Bucket \cup {Absent}]
  BY <1>1, <1>3, <1>4
<1>6. j \in Job /\ Carries(j)
  <2>1. a # Absent
    BY NoneIsNoValue
  <2>2. CASE there = 0
    BY <2>2, IdleIsFine DEF Job, Carries, Idle
  <2>3. CASE there # 0
    BY <2>1, <2>3, NumbersAssumption DEF Job, Carries
  <2> QED BY <2>2, <2>3
<1>7. UNCHANGED <<row, runs, replayed>> /\ runs \in 0 .. MaxRuns
  BY DEF Arrive, FrontInv, FrontTyped
<1> QED BY <1>3, <1>5, <1>6, <1>7, OneRequestMoves

(* A row is replayed as it is, and only the first answer becomes one.        *)
LEMMA ReplayKeeps ==
    ASSUME FrontInv, NEW r \in Requests, Replay(r)
    PROVE  FrontInv'
<1> DEFINE a == job[r].address
           k == job[r].key
           x == <<job[r].body, RowOf(r).answer>>
<1>1. job[r] \in Job /\ Carries(job[r]) /\ job[r].pc = "lookup"
  BY DEF FrontInv, FrontTyped, Replay
<1>2. a \in Addresses /\ k \in Keys
  BY <1>1 DEF Job, Carries
<1>3. RowOf(r) = row[a][k] /\ row[a][k] \in Row /\ row[a][k].body = job[r].body
  <2>1. row[a][k] \in Row \cup {Absent}
    BY <1>2 DEF FrontInv, FrontTyped
  <2> QED BY <2>1 DEF Replay, Matches, RowOf
<1>4. x \in Bodies \X (1 .. MaxRuns) /\ x = <<row[a][k].body, row[a][k].answer>>
  BY <1>3 DEF Row
<1>5. row[a][k] # Absent
  BY <1>3, NoneIsNoValue
<1>6. replayed' = [replayed EXCEPT ![a][k] = @ \cup {x}]
  BY DEF Replay
<1>7. job' = [job EXCEPT ![r] = Idle] /\ UNCHANGED <<bucket, row, runs>>
  BY DEF Replay, Finish
<1> HIDE DEF a, k, x
<1>8. replayed \in [Addresses -> [Keys -> SUBSET (Bodies \X (1 .. MaxRuns))]]
  BY DEF FrontInv, FrontTyped
<1>9. replayed' \in [Addresses -> [Keys -> SUBSET (Bodies \X (1 .. MaxRuns))]]
  BY <1>2, <1>4, <1>6, <1>8
<1>10. job' \in [Requests -> Job] /\ \A q \in Requests : Carries(job'[q])
  <2>1. job \in [Requests -> Job] /\ \A q \in Requests : Carries(job[q])
    BY DEF FrontInv, FrontTyped
  <2>2. \A q \in Requests : job'[q] = Idle \/ job'[q] = job[q]
    BY <1>7, <2>1
  <2> QED BY <1>7, <2>1, <2>2, IdleIsFine
<1>11. RowsKept'
  <2> SUFFICES ASSUME NEW c \in Addresses, NEW l \in Keys, NEW y \in replayed'[c][l]
               PROVE  row'[c][l] # Absent /\ y = <<row'[c][l].body, row'[c][l].answer>>
    BY DEF RowsKept
  <2>1. y \in replayed[c][l] \/ (c = a /\ l = k /\ y = x)
    BY <1>2, <1>6, <1>8
  <2> QED BY <1>4, <1>5, <1>7, <2>1 DEF FrontInv, RowsKept
<1> QED BY <1>7, <1>9, <1>10, <1>11 DEF FrontInv, FrontTyped

(* The first answer to be stored stays; a conflict changes nothing.          *)
LEMMA StoreKeeps ==
    ASSUME FrontInv, NEW r \in Requests, Store(r)
    PROVE  FrontInv'
<1> DEFINE a == job[r].address
           k == job[r].key
           w == [body |-> job[r].body, answer |-> job[r].answer, live |-> TRUE]
<1>1. job[r] \in Job /\ Carries(job[r]) /\ job[r].pc = "store"
  BY DEF FrontInv, FrontTyped, Store
<1>2. a \in Addresses /\ k \in Keys /\ w \in Row
  BY <1>1, NumbersAssumption DEF Job, Carries, Row
<1>3. job' = [job EXCEPT ![r] = Idle] /\ UNCHANGED <<bucket, runs, replayed>>
  BY DEF Store, Finish
<1>4. CASE row[a][k] # Absent
  <2>1. row' = row /\ runs \in 0 .. MaxRuns /\ bucket \in [Addresses -> Bucket \cup {Absent}]
    BY <1>4 DEF Store, RowOf, FrontInv, FrontTyped
  <2> QED BY <1>3, <2>1, IdleIsFine, OneRequestMoves
<1>5. CASE row[a][k] = Absent
  <2>1. row' = [row EXCEPT ![a][k] = w]
    BY <1>5 DEF Store, RowOf
  <2> HIDE DEF a, k, w
  <2>2. row \in [Addresses -> [Keys -> Row \cup {Absent}]]
    BY DEF FrontInv, FrontTyped
  <2>3. row' \in [Addresses -> [Keys -> Row \cup {Absent}]]
    BY <1>2, <2>1, <2>2
  <2>4. job' \in [Requests -> Job] /\ \A q \in Requests : Carries(job'[q])
    <3>1. job \in [Requests -> Job] /\ \A q \in Requests : Carries(job[q])
      BY DEF FrontInv, FrontTyped
    <3>2. \A q \in Requests : job'[q] = Idle \/ job'[q] = job[q]
      BY <1>3, <3>1
    <3> QED BY <1>3, <3>1, <3>2, IdleIsFine
  <2>5. RowsKept'
    <3> SUFFICES ASSUME NEW c \in Addresses, NEW l \in Keys, NEW y \in replayed[c][l]
                 PROVE  row'[c][l] # Absent /\ y = <<row'[c][l].body, row'[c][l].answer>>
      BY <1>3 DEF RowsKept
    <3>1. row[c][l] # Absent /\ y = <<row[c][l].body, row[c][l].answer>>
      BY DEF FrontInv, RowsKept
    <3>2. row'[c][l] = row[c][l]
      BY <1>2, <1>5, <2>1, <2>2, <3>1
    <3> QED BY <3>1, <3>2
  <2> QED BY <1>3, <2>3, <2>4, <2>5 DEF FrontInv, FrontTyped
<1> QED BY <1>4, <1>5

(* Every step of a request keeps the invariant.                              *)
LEMMA HandleKeeps ==
    ASSUME FrontInv, NEW r \in Requests, Handle(r) \/ Succeed(r)
    PROVE  FrontInv'
<1>1. /\ job \in [Requests -> Job] /\ job[r] \in Job /\ Carries(job[r])
      /\ bucket \in [Addresses -> Bucket \cup {Absent}] /\ runs \in 0 .. MaxRuns
  BY DEF FrontInv, FrontTyped
<1>2. ASSUME NEW a \in Addresses, Arrive(r, a, Absent, Absent) PROVE FrontInv'
  BY <1>2, ArriveKeeps
<1>3. ASSUME NEW a \in Addresses, NEW k \in Keys, NEW b \in Bodies, Arrive(r, a, k, b)
      PROVE  FrontInv'
  <2>1. b # Absent
    BY NoneIsNoValue
  <2> QED BY <1>3, <2>1, ArriveKeeps
<1>4. ASSUME Finish(r), UNCHANGED <<bucket, row, runs, replayed>> PROVE FrontInv'
  BY <1>1, <1>4, IdleIsFine, OneRequestMoves DEF Finish
<1>5. CASE Refused(r) \/ Fail(r) \/ LoseStore(r)
  BY <1>4, <1>5 DEF Refused, Fail, LoseStore
<1>6. CASE Miss(r)
  <2> DEFINE j == [job[r] EXCEPT !.pc = "handle"]
  <2>1. j \in Job /\ Carries(j) /\ job' = [job EXCEPT ![r] = j]
    BY <1>1, <1>6 DEF Miss, Job, Carries
  <2> QED BY <1>1, <1>6, <2>1, OneRequestMoves DEF Miss
<1>7. CASE Succeed(r)
  <2>1. runs' = runs + 1 /\ runs' \in 1 .. MaxRuns /\ UNCHANGED <<bucket, row, replayed>>
    BY <1>1, <1>7, NumbersAssumption DEF Succeed
  <2>2. CASE job[r].key = Absent
    BY <1>1, <1>7, <2>1, <2>2, NumbersAssumption, IdleIsFine, OneRequestMoves DEF Succeed, Finish
  <2>3. CASE job[r].key # Absent
    <3> DEFINE j == [job[r] EXCEPT !.pc = "store", !.answer = runs + 1]
    <3>1. j \in Job /\ Carries(j)
      <4>1. runs + 1 \in 0 .. MaxRuns /\ runs + 1 >= 1
        BY <2>1, NumbersAssumption
      <4>2. job[r].pc = "handle"
        BY <1>7 DEF Succeed
      <4> QED BY <1>1, <2>3, <4>1, <4>2 DEF Job, Carries
    <3>2. job' = [job EXCEPT ![r] = j]
      BY <1>1, <1>7, <2>3 DEF Succeed
    <3>3. runs' \in 0 .. MaxRuns
      BY <2>1, NumbersAssumption
    <3> HIDE DEF j
    <3> QED BY <1>1, <2>1, <3>1, <3>2, <3>3, OneRequestMoves
  <2> QED BY <2>2, <2>3
<1> QED BY <1>2, <1>3, <1>5, <1>6, <1>7, ReplayKeeps, StoreKeeps DEF Handle

(* The invariant of the requests is kept by all that happens to them.        *)
LEMMA FrontPreserved == FrontInv /\ FrontMove => FrontInv'
<1> SUFFICES ASSUME FrontInv, FrontMove PROVE FrontInv'
  OBVIOUS
<1>1. CASE UNCHANGED frontVars
  BY <1>1 DEF frontVars, FrontInv, FrontTyped, RowsKept
<1>2. CASE Forget
  <2>1. bucket' \in [Addresses -> Bucket \cup {Absent}]
    BY <1>2 DEF Forget
  <2>2. job' \in [Requests -> Job] /\ \A q \in Requests : Carries(job'[q])
    BY <1>2, IdleIsFine DEF Forget
  <2> QED BY <1>2, <2>1, <2>2 DEF Forget, FrontInv, FrontTyped, RowsKept
<1>3. CASE Tick
  <2>1. ASSUME NEW b \in Bucket
        PROVE  [b EXCEPT !.age = Least(@ + 1, BucketTTL + 1)] \in Bucket
    BY NumbersAssumption DEF Bucket, Least
  <2>2. bucket' \in [Addresses -> Bucket \cup {Absent}]
    BY <1>3, <2>1 DEF Tick, FrontInv, FrontTyped
  <2> QED BY <1>3, <2>2 DEF Tick, FrontInv, FrontTyped, RowsKept
<1>4. ASSUME NEW a \in Addresses, NEW k \in Keys, Expire(a, k) PROVE FrontInv'
  <2> DEFINE w == [row[a][k] EXCEPT !.live = FALSE]
  <2>1. row \in [Addresses -> [Keys -> Row \cup {Absent}]] /\ row[a][k] # Absent
    BY <1>4 DEF FrontInv, FrontTyped, Expire
  <2>2. row[a][k] \in Row
    BY <2>1
  <2>3. w \in Row /\ w.body = row[a][k].body /\ w.answer = row[a][k].answer
    BY <2>2 DEF Row
  <2>4. row' = [row EXCEPT ![a][k] = w] /\ UNCHANGED <<bucket, job, runs, replayed>>
    BY <1>4 DEF Expire
  <2> HIDE DEF w
  <2>5. row' \in [Addresses -> [Keys -> Row \cup {Absent}]]
    BY <2>1, <2>3, <2>4
  <2>6. w # Absent
    BY <2>3, NoneIsNoValue
  <2>7. RowsKept'
    <3> SUFFICES ASSUME NEW c \in Addresses, NEW l \in Keys, NEW y \in replayed[c][l]
                 PROVE  row'[c][l] # Absent /\ y = <<row'[c][l].body, row'[c][l].answer>>
      BY <2>4 DEF RowsKept
    <3>1. row[c][l] # Absent /\ y = <<row[c][l].body, row[c][l].answer>>
      BY DEF FrontInv, RowsKept
    <3>2. row'[c][l] = IF c = a /\ l = k THEN w ELSE row[c][l]
      BY <2>1, <2>4
    <3> QED BY <2>3, <2>6, <3>1, <3>2
  <2> QED BY <2>4, <2>5, <2>7 DEF FrontInv, FrontTyped
<1>5. ASSUME NEW r \in Requests, Handle(r) \/ Succeed(r) PROVE FrontInv'
  BY <1>5, HandleKeeps
<1> QED BY <1>1, <1>2, <1>3, <1>4, <1>5 DEF FrontMove

----------------------------------------------------------------------------
(* The invariant, and what follows from it *)

LEMMA InitInv == Init => Inv
<1> SUFFICES ASSUME Init PROVE Inv
  OBVIOUS
<1>1. BootInv
  <2>1. proc = [p \in Procs |-> Down] /\ appKey = None /\ signed = {}
    BY DEF Init, BootInit
  <2>2. Down \in State /\ Sound(Down, None)
    BY DEF Down, State, Stage, Sound, Started, Booting
  <2>3. BootTyped
    BY <2>1, <2>2 DEF BootTyped, State
  <2>4. \A p \in Procs : Sound(proc[p], appKey)
    BY <2>1, <2>2
  <2> QED BY <2>1, <2>3, <2>4, BootByProcess
<1>2. FrontInv
  BY IdleIsFine, NumbersAssumption DEF Init, MiddlewareInit, FrontInv, FrontTyped, RowsKept
<1> QED BY <1>1, <1>2 DEF Inv

(* Inv holds in every state that can be reached.                             *)
THEOREM Invariance == Spec => []Inv
<1>1. Inv /\ [Next]_vars => Inv'
  BY TwoHalves, BootPreserved, FrontPreserved DEF Inv
<1> QED BY InitInv, <1>1, PTL DEF Spec

(* Every variable keeps its type: the processes, the database's key, the     *)
(* buckets, the rows and the requests (TypeOK).                              *)
THEOREM TypeCorrect == Spec => []TypeOK
<1>1. Inv => TypeOK
  BY DEF Inv, BootInv, BootTyped, FrontInv, FrontTyped, Job, TypeOK
<1> QED BY Invariance, <1>1, PTL

(* However many processes boot, die and come back, one key signs every       *)
(* session (LoadOrCreateJWTKey).                                             *)
THEOREM SessionsKeepTheirKey == Spec => []OneSigningKey
<1>1. Inv => OneSigningKey
  BY DEF Inv, BootInv
<1> QED BY Invariance, <1>1, PTL

(* Whatever the file and the environment say: of what Validate passes, the   *)
(* later stages refuse nothing but what LeftToBoot lists, what was not       *)
(* checked or what only its reader can judge, and nothing that it lists is   *)
(* served (Load, Validate, openDB, Supervisor.Start, RenderConfig,           *)
(* BuildDERPMap, New, serveFile, serveAuto).                                 *)
THEOREM RefusalsAreKnown == Spec => LateRefusalsKnown
<1> DEFINE Known ==
      \A p \in Procs :
          /\ Enters(p, {"refused", "waitChild"}) => LeftToBoot(proc[p].cfg)
          /\ Enters(p, {"serving"}) => ~LeftToBoot(proc[p].cfg)
<1>1. Inv /\ [Next]_vars => Known
  BY TwoHalves, StepsKnown DEF Inv
<1>2. Inv /\ [Next]_vars => [Known]_vars
  BY <1>1
<1> HIDE DEF Known
<1>3. Spec => [][Known]_vars
  BY Invariance, <1>2, PTL DEF Spec
<1> QED BY <1>3 DEF Known, LateRefusalsKnown

(* One answer is replayed under a key, for ever (NewIdempotency).            *)
THEOREM AnswersAreOne == Spec => []OneAnswerPerKey
<1>1. Inv => OneAnswerPerKey
  BY DEF Inv, FrontInv, RowsKept, OneAnswerPerKey
<1> QED BY Invariance, <1>1, PTL

----------------------------------------------------------------------------
(* The limiter as a token bucket *)

\* Tokens of an address whose bucket is b.
Held(b) == IF b = Absent THEN Burst ELSE Tokens(b)

(* A bucket that may be evicted is full: Burst <= Rate * BucketTTL.          *)
LEMMA StaleIsFull ==
    ASSUME NEW b \in Bucket, b.age > BucketTTL
    PROVE  Tokens(b) = Burst
<1>1. b.age \in Nat /\ b.tokens \in Nat /\ b.age >= BucketTTL
  BY NumbersAssumption DEF Bucket
<1>2. Rate * b.age >= Rate * BucketTTL /\ Rate * b.age \in Nat /\ Rate * BucketTTL \in Nat
  BY <1>1, NumbersAssumption
<1> QED BY <1>1, <1>2, BurstRefills, NumbersAssumption DEF Tokens, Least

(* A tick adds Rate, up to Burst, however old the bucket is.                 *)
LEMMA TickRefills ==
    ASSUME NEW b \in Bucket, NEW c, c = [b EXCEPT !.age = Least(@ + 1, BucketTTL + 1)]
    PROVE  Tokens(c) = Least(Burst, Tokens(b) + Rate)
<1>1. b.age \in Nat /\ b.tokens \in Nat /\ b.age <= BucketTTL + 1 /\ Rate * b.age \in Nat
  BY NumbersAssumption DEF Bucket
<1>2. CASE b.age <= BucketTTL
  <2>1. c.age = b.age + 1 /\ c.tokens = b.tokens
    BY <1>1, <1>2, NumbersAssumption DEF Bucket, Least
  <2>2. Rate * c.age = Rate * b.age + Rate
    BY <1>1, <2>1, NumbersAssumption
  <2> QED BY <1>1, <2>1, <2>2, NumbersAssumption DEF Tokens, Least
<1>3. CASE b.age > BucketTTL
  <2>1. c = b
    BY <1>1, <1>3, NumbersAssumption DEF Bucket, Least
  <2> QED BY <1>3, <2>1, StaleIsFull, NumbersAssumption DEF Least
<1> QED BY <1>1, <1>2, <1>3, NumbersAssumption

(* A bucket that was just seen holds what was left in it.                    *)
LEMMA SeenNow ==
    ASSUME NEW n \in 0 .. Burst
    PROVE  Held([tokens |-> n, age |-> 0]) = n
<1>1. [tokens |-> n, age |-> 0] \in Bucket
  BY NumbersAssumption DEF Bucket
<1>2. [tokens |-> n, age |-> 0] # Absent
  BY <1>1, NoneIsNoValue
<1> QED BY <1>2, NumbersAssumption DEF Held, Tokens, Least

LEMMA InitPromised == Init => Promise!Init
  BY DEF Init, MiddlewareInit, Idle, level, verdict, Promise!Init, Promise!Full, Promise!Silent

(* A tick refills every bucket, those that were thrown away included.        *)
LEMMA TickPromised == FrontTyped /\ Tick => Promise!Refill
<1> SUFFICES ASSUME FrontTyped, Tick PROVE Promise!Refill
  OBVIOUS
<1>1. UNCHANGED verdict
  BY DEF Tick, verdict
<1>2. ASSUME NEW a \in Addresses
      PROVE  Held(bucket'[a]) = Promise!Least(Burst, Held(bucket[a]) + Rate)
  <2>1. CASE bucket[a] = Absent
    BY <2>1, NumbersAssumption DEF Tick, Held, Promise!Least
  <2>2. CASE bucket[a] # Absent
    <3>1. bucket[a] \in Bucket
      BY <2>2 DEF FrontTyped
    <3>2. bucket'[a] = [bucket[a] EXCEPT !.age = Least(@ + 1, BucketTTL + 1)]
      BY <2>2 DEF Tick
    <3>3. bucket'[a] \in Bucket
      BY <3>1, <3>2, NumbersAssumption DEF Bucket, Least
    <3>4. bucket'[a] # Absent
      BY <3>3, NoneIsNoValue
    <3>5. Tokens(bucket'[a]) = Least(Burst, Tokens(bucket[a]) + Rate)
      BY <3>1, <3>2, TickRefills
    <3> QED BY <2>2, <3>4, <3>5 DEF Held, Least, Promise!Least
  <2> QED BY <2>1, <2>2
<1>3. level' = [a \in Addresses |-> Promise!Least(Burst, level[a] + Rate)]
  BY <1>2 DEF level, Held
<1> QED BY <1>1, <1>3 DEF Promise!Refill

(* A request is let through with a token and turned away without one.        *)
LEMMA ArrivePromised ==
    ASSUME FrontTyped, NEW r \in Requests, NEW a \in Addresses,
           NEW key, NEW body, Arrive(r, a, key, body)
    PROVE  Promise!Admit(r, a) \/ Promise!Refuse(r, a)
<1> DEFINE kept == [x \in Addresses |-> IF bucket[x] # Absent /\ Stale(bucket[x])
                                         THEN Absent ELSE bucket[x]]
           there == IF kept[a] = Absent THEN Burst ELSE Tokens(kept[a])
           n == IF there = 0 THEN 0 ELSE there - 1
           j == IF there = 0 THEN [Idle EXCEPT !.pc = "refused"]
                ELSE [pc |-> IF key = Absent THEN "handle" ELSE "lookup",
                      address |-> a, key |-> key, body |-> body, answer |-> 0]
<1>1. ASSUME NEW x \in Addresses PROVE Held(kept[x]) = Held(bucket[x])
  <2>1. CASE bucket[x] # Absent /\ Stale(bucket[x])
    <3>1. bucket[x] \in Bucket /\ bucket[x].age > BucketTTL
      BY <2>1 DEF FrontTyped, Stale
    <3> QED BY <2>1, <3>1, StaleIsFull DEF Held
  <2>2. CASE ~(bucket[x] # Absent /\ Stale(bucket[x]))
    BY <2>2
  <2> QED BY <2>1, <2>2
<1>2. there = level[a] /\ there \in 0 .. Burst
  <2>1. there = Held(bucket[a])
    BY <1>1 DEF Held
  <2>2. Held(bucket[a]) \in 0 .. Burst
    BY TokensInRange, NumbersAssumption DEF Held, FrontTyped
  <2>3. level[a] = Held(bucket[a])
    BY DEF level, Held
  <2> QED BY <2>1, <2>2, <2>3
<1>3. bucket' = [kept EXCEPT ![a] = [tokens |-> n, age |-> 0]] /\ job' = [job EXCEPT ![r] = j]
  BY DEF Arrive
<1>4. job \in [Requests -> Job] /\ job[r].pc = "idle"
  BY DEF Arrive, FrontTyped
<1>5. verdict' = [verdict EXCEPT ![r] = IF there = 0 THEN "refused" ELSE "admitted"]
  <2>1. j.pc = IF there = 0 THEN "refused" ELSE IF key = Absent THEN "handle" ELSE "lookup"
    BY DEF Idle
  <2>2. job'[r] = j /\ \A q \in Requests : q # r => job'[q] = job[q]
    BY <1>3, <1>4
  <2> HIDE DEF j, there
  <2> QED BY <2>1, <2>2 DEF verdict
<1>6. verdict[r] = "none"
  BY <1>4 DEF verdict
<1>7. n \in 0 .. Burst
  BY <1>2, NumbersAssumption
<1>8. kept = [x \in Addresses |-> kept[x]]
  OBVIOUS
<1> HIDE DEF kept, there, j, n
<1>9. level' = [level EXCEPT ![a] = n]
  <2>1. Held(bucket'[a]) = n
    BY <1>3, <1>7, <1>8, SeenNow
  <2>2. ASSUME NEW x \in Addresses, x # a PROVE Held(bucket'[x]) = Held(bucket[x])
    BY <1>1, <1>3, <1>8, <2>2
  <2> QED BY <2>1, <2>2 DEF level, Held
<1>10. CASE there = 0
  <2>1. level' = level
    BY <1>2, <1>9, <1>10 DEF n, level
  <2> QED BY <1>2, <1>5, <1>6, <1>10, <2>1 DEF Promise!Refuse
<1>11. CASE there # 0
  BY <1>2, <1>5, <1>6, <1>9, <1>11 DEF n, Promise!Admit
<1> QED BY <1>10, <1>11

(* Past the limiter, a request ends or its verdict stays.                    *)
LEMMA VerdictEnds ==
    ASSUME FrontTyped, NEW r \in Requests, UNCHANGED bucket,
           \/ Refused(r) \/ Replay(r) \/ Miss(r) \/ Fail(r) \/ Store(r) \/ LoseStore(r)
           \/ Succeed(r)
    PROVE  Promise!End(r) \/ UNCHANGED <<level, verdict>>
<1>1. UNCHANGED level
  BY DEF level
<1>2. job \in [Requests -> Job] /\ job[r] \in Job
  BY DEF FrontTyped
<1>3. CASE Finish(r)
  <2>1. verdict' = [verdict EXCEPT ![r] = "none"]
    BY <1>2, <1>3 DEF Finish, Idle, verdict
  <2> QED BY <1>1, <2>1 DEF Promise!End
<1>4. CASE Miss(r)
  <2>1. job'[r].pc = "handle" /\ job[r].pc = "lookup"
    BY <1>2, <1>4 DEF Miss, Job
  <2>2. \A q \in Requests : q # r => job'[q] = job[q]
    BY <1>2, <1>4 DEF Miss
  <2> QED BY <1>1, <2>1, <2>2 DEF verdict
<1>5. CASE Succeed(r) /\ ~Finish(r)
  <2>1. job' = [job EXCEPT ![r].pc = "store", ![r].answer = runs + 1] /\ job[r].pc = "handle"
    BY <1>5 DEF Succeed
  <2>2. job'[r].pc = "store" /\ \A q \in Requests : q # r => job'[q] = job[q]
    BY <1>2, <2>1 DEF Job
  <2> QED BY <1>1, <2>1, <2>2 DEF verdict
<1> QED BY <1>3, <1>4, <1>5 DEF Refused, Replay, Fail, Store, LoseStore

(* Every step of the requests is one of the promise, or none.                *)
LEMMA StepPromised == FrontTyped /\ FrontMove => [Promise!Next]_<<level, verdict>>
<1> SUFFICES ASSUME FrontTyped, FrontMove PROVE [Promise!Next]_<<level, verdict>>
  OBVIOUS
<1>1. CASE UNCHANGED <<bucket, job>>
  BY <1>1 DEF level, verdict
<1>2. CASE Forget
  BY <1>2 DEF Forget, Idle, level, verdict,
         Promise!Next, Promise!Restart, Promise!Full, Promise!Silent
<1>3. CASE Tick
  BY <1>3, TickPromised DEF Promise!Next
<1>4. ASSUME NEW r \in Requests, Handle(r) \/ Succeed(r)
      PROVE  [Promise!Next]_<<level, verdict>>
  <2>1. CASE \E a \in Addresses : \/ Arrive(r, a, Absent, Absent)
                                 \/ \E k \in Keys, b \in Bodies : Arrive(r, a, k, b)
    BY <2>1, ArrivePromised DEF Promise!Next
  <2>2. CASE \/ Refused(r) \/ Replay(r) \/ Miss(r) \/ Fail(r) \/ Store(r) \/ LoseStore(r)
             \/ Succeed(r)
    <3>1. UNCHANGED bucket
      BY <2>2 DEF Refused, Replay, Miss, Fail, Store, LoseStore, Succeed
    <3> QED BY <2>2, <3>1, VerdictEnds DEF Promise!Next
  <2> QED BY <1>4, <2>1, <2>2 DEF Handle
<1> QED BY <1>1, <1>2, <1>3, <1>4 DEF FrontMove, frontVars, Expire

(* The limiter that evicts stale buckets implements one that never does      *)
(* (NewRateLimit, TokenBucket).                                              *)
THEOREM LimiterKeepsItsPromise == Spec => LimiterIsTokenBucket
<1>1. Inv /\ [Next]_vars => [Promise!Next]_<<level, verdict>>
  BY TwoHalves, StepPromised DEF Inv, FrontInv
<1> QED BY InitPromised, Invariance, <1>1, PTL DEF Spec, LimiterIsTokenBucket, Promise!Spec
=============================================================================
