----------------------------- MODULE ServerBoot -----------------------------
(***************************************************************************)
(* From the command line to the listening socket.                          *)
(*                                                                         *)
(* A process loads and validates its configuration, opens the database,    *)
(* gets the key that signs sessions, brings Headscale up and listens.      *)
(* Several processes may be on the way at a time, on one database and for  *)
(* one address: an upgrade or an impatient operator starts the next one    *)
(* early.  Any of them may die anywhere: what fails for no setting (a full *)
(* disk, a lost network) ends a process so.  What happens to Headscale's    *)
(* process and to a server that runs is in module Lifecycle.               *)
(***************************************************************************)
EXTENDS Configuration

CONSTANTS
    Procs,       \* processes
    Settings,    \* layers that config.yaml and the environment may give together
    SigningKeys, \* 32 random bytes
    None         \* no configuration, no key

VARIABLES
    proc,   \* proc[p]: local state of a process
    appKey, \* row jwt_signing_key_v1 of app_meta, or None
    signed  \* keys that sessions were signed with

Stage == {"down", "openDB", "selectKey", "insertKey", "headscale", "frontend", "serving",
          "refused", "waitChild"}

Down == [pc |-> "down", cfg |-> None, key |-> None]

BootInit ==
    /\ proc = [p \in Procs |-> Down]
    /\ appKey = None
    /\ signed = {}

Move(p, pc) == proc' = [proc EXCEPT ![p].pc = pc]

\* The configuration has been used.
Conclude(p, pc) == proc' = [proc EXCEPT ![p].pc = pc, ![p].cfg = None]

\* What Load may make and Validate passes.
Passed == {c \in {Load(s.yaml, s.env) : s \in Settings} : Valid(c)}

\* Load and Validate; an invalid configuration ends the process at once.
Start(p) ==
    /\ proc[p].pc = "down"
    /\ \E c \in Passed :
          proc' = [proc EXCEPT ![p] = [pc |-> "openDB", cfg |-> c, key |-> None]]
    /\ UNCHANGED <<appKey, signed>>

\* openDB and the migrations.
OpenDB(p) ==
    /\ proc[p].pc = "openDB"
    /\ IF OpensDB(proc[p].cfg) THEN Move(p, "selectKey") ELSE Conclude(p, "refused")
    /\ UNCHANGED <<appKey, signed>>

----------------------------------------------------------------------------
(* LoadOrCreateJWTKey *)

SelectKey(p) ==
    /\ proc[p].pc = "selectKey"
    /\ IF appKey # None
       THEN proc' = [proc EXCEPT ![p].pc = "headscale", ![p].key = appKey]
       ELSE \E k \in SigningKeys \ (signed \cup {proc[q].key : q \in Procs}) :
               proc' = [proc EXCEPT ![p].pc = "insertKey", ![p].key = k]
    /\ UNCHANGED <<appKey, signed>>

\* Broken variant of InsertKey: a conflict is taken for success.
InsertOrIgnore(p) ==
    /\ proc[p].pc = "insertKey"
    /\ appKey' = IF appKey = None THEN proc[p].key ELSE appKey
    /\ Move(p, "headscale")
    /\ UNCHANGED signed

\* The one that comes second fails on the primary key, and does not boot.
InsertKey(p) ==
    /\ proc[p].pc = "insertKey"
    /\ IF appKey = None
       THEN appKey' = proc[p].key /\ Move(p, "headscale")
       ELSE proc' = [proc EXCEPT ![p] = Down] /\ UNCHANGED appKey
    /\ UNCHANGED signed

----------------------------------------------------------------------------
(* buildHeadscaler, newFrontend, Start *)

\* A refused DERP map leaves the process waiting for its child, with nothing served.
BuildHeadscaler(p) ==
    /\ proc[p].pc = "headscale"
    /\ LET c == proc[p].cfg
       IN  IF c["headscale"] = "off" THEN Move(p, "frontend")
           ELSE IF ~SupervisorStarts(c) THEN Conclude(p, "refused")
           ELSE IF c["derp"] = "on" /\ ~HasDERPMap(c) THEN Conclude(p, "waitChild")
           ELSE Move(p, "frontend")
    /\ UNCHANGED <<appKey, signed>>

\* The address is taken while another process serves.
Taken == \E q \in Procs : proc[q].pc = "serving"

\* The three ways of serving: what they ask of the configuration they ask in this order.
Listen(p) ==
    /\ proc[p].pc = "frontend"
    /\ LET c == proc[p].cfg
       IN  IF ~HasFrontend(c) \/ ~MayListen(c) THEN Conclude(p, "refused")
           ELSE IF Taken THEN proc' = [proc EXCEPT ![p] = Down]
           ELSE Conclude(p, IF LoadsKeys(c) THEN "serving" ELSE "refused")
    /\ UNCHANGED <<appKey, signed>>

\* A process ends, by itself or not, at any stage but serving.
Die(p) ==
    /\ proc[p].pc \notin {"down", "serving"}
    /\ proc' = [proc EXCEPT ![p] = Down]
    /\ UNCHANGED <<appKey, signed>>

\* The server ends.
Stop(p) ==
    /\ proc[p].pc = "serving"
    /\ proc' = [proc EXCEPT ![p] = Down]
    /\ UNCHANGED <<appKey, signed>>

\* A handler signs a session.
Sign(p) ==
    /\ proc[p].pc = "serving"
    /\ signed' = signed \cup {proc[p].key}
    /\ UNCHANGED <<proc, appKey>>
=============================================================================
