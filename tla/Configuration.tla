---------------------------- MODULE Configuration ----------------------------
(***************************************************************************)
(* The configuration of the server: how it is put together from defaults,  *)
(* a YAML file and the environment, what Validate says of it, and what the *)
(* rest of the boot demands of it afterwards.                              *)
(*                                                                         *)
(* A configuration is a function on the fields that some check reads.  A   *)
(* value is a class of values: "" is the empty string, "zero" a 0, "wrong" *)
(* a number out of range, "good" any other, "set" any other text.  "unfit" *)
(* is a value of the right form that its reader refuses: the file system a *)
(* path that cannot be made or written, the kernel a port or a binary,     *)
(* crypto/tls a certificate or key file, Headscale an address, a URL or a  *)
(* name, the certificate authority a host or a mail address.  A layer is a *)
(* function on the fields that it gives.  YAML may give any field, and the *)
(* empty string too; an empty variable of the environment counts as unset. *)
(* The fields that no check reads (log, mail, OAuth, lifetimes and rate    *)
(* limit) are left out; passwords and secrets are among them.              *)
(***************************************************************************)

\* Texts and numbers of the environment variables, and the fields without one.
EnvText == {"mode", "hostname", "dataDir", "tls", "email", "driver", "url", "binary",
            "hsData", "serverURL", "listen", "socket", "code", "derpHost", "stun", "derpIPs"}
EnvSwitch == {"headscale", "derp"}
EnvNumber == {"port", "regionID", "derpPort"}
YamlOnly == {"httpPort", "files", "grpc", "regionName", "readyTimeout"}
Field == EnvText \cup EnvSwitch \cup EnvNumber \cup YamlOnly

Text == {"", "set", "unfit"}
Number == {"zero", "good", "wrong"}

\* dataDir and binary: what os.Stat finds there; "file" is a file where a directory
\* should be, or what cannot be looked at.  files: cert_file and key_file, "" unless
\* both are given.  derpIPs: derp_ipv4 and derp_ipv6, which may both be left open.
\* readyTimeout: a 0 stands for ten seconds, "wrong" is too short.
ValuesOf(f) ==
    CASE f = "mode" -> {"solo", "hosted", "set", ""}
      [] f = "driver" -> {"sqlite", "postgres", "set", ""}
      [] f = "tls" -> {"auto", "file", "off", "set", ""}
      [] f = "dataDir" -> {"", "absent", "dir", "file", "unfit"}
      [] f = "binary" -> {"", "absent", "present", "unfit"}
      [] f = "port" -> Number \cup {"unfit"}
      [] f \in EnvSwitch -> {"on", "off"}
      [] f \in {"regionID", "derpPort", "httpPort", "readyTimeout"} -> Number
      [] OTHER -> Text

Config == {c \in [Field -> UNION {ValuesOf(f) : f \in Field}] :
              \A f \in Field : c[f] \in ValuesOf(f)}

\* The default host is "localhost", for which no authority has a certificate.
Default == [f \in Field |->
    CASE f = "mode" -> "solo"
      [] f = "driver" -> "sqlite"
      [] f = "tls" -> "auto"
      [] f = "dataDir" -> "dir"
      [] f = "binary" -> "present"
      [] f \in {"headscale", "derp"} -> "off"
      [] f \in EnvNumber \cup {"httpPort", "readyTimeout"} -> "good"
      [] f = "hostname" -> "unfit"
      [] f \in {"serverURL", "listen", "grpc", "code", "regionName", "stun"} -> "set"
      [] OTHER -> ""]

----------------------------------------------------------------------------
(* Load *)

Over(layer, c) == [f \in Field |-> IF f \in DOMAIN layer THEN layer[f] ELSE c[f]]

\* Broken variant of Heard: a number that does not parse is taken as it is.
HeardAll(env) == {f \in DOMAIN env : env[f] # ""}

\* The variables that applyEnv heeds: neither empty nor a number that does not parse.
Heard(env) ==
    {f \in DOMAIN env : env[f] # "" /\ (f \in EnvNumber => env[f] # "unparsable")}

\* AGENTHUB_DB_URL makes the driver postgres when there is none.
ApplyEnv(env, c) ==
    LET d == Over([f \in Heard(env) |-> env[f]], c)
    IN  IF "url" \in Heard(env) /\ d["driver"] = ""
        THEN [d EXCEPT !["driver"] = "postgres"]
        ELSE d

\* The paths of Headscale and the DERP host follow the top-level fields.
Derive(c) ==
    [f \in Field |-> CASE f \in {"hsData", "socket"} /\ c[f] = "" -> "set"
                       [] f = "derpHost" /\ c[f] = "" -> c["hostname"]
                       [] OTHER -> c[f]]

Load(yaml, env) == Derive(ApplyEnv(env, Over(yaml, Default)))

----------------------------------------------------------------------------
(* Validate, and what is refused after it *)

ServerErrors(c) ==
    \/ c["mode"] \notin {"solo", "hosted"}
    \/ c["driver"] \notin {"sqlite", "postgres"}
    \/ c["url"] = "" /\ (c["driver"] = "postgres" \/ c["mode"] = "hosted")
    \/ c["tls"] \notin {"auto", "file", "off"}
    \/ c["tls"] = "auto" /\ c["email"] = ""
    \/ c["tls"] = "file" /\ c["files"] = ""
    \/ c["port"] \in {"zero", "wrong"}
    \/ c["httpPort"] = "wrong"
    \/ c["dataDir"] = "file"

\* Broken variant of HeadscaleErrors: DERP is looked at in its own section only.
HeadscaleErrorsNoSTUN(c) ==
    /\ c["headscale"] = "on"
    /\ \/ c["binary"] \in {"", "absent"}
       \/ c["serverURL"] = "" \/ c["listen"] = ""
       \/ c["derp"] = "on" /\ (c["regionID"] = "zero" \/ c["derpHost"] = "")

HeadscaleErrors(c) ==
    /\ c["headscale"] = "on"
    /\ \/ c["binary"] \in {"", "absent"}
       \/ c["serverURL"] = "" \/ c["listen"] = ""
       \/ c["derp"] = "on" /\ (c["stun"] = "" \/ c["regionID"] = "zero" \/ c["derpHost"] = "")

Valid(c) == ~ServerErrors(c) /\ ~HeadscaleErrors(c)

\* openDB knows one driver, and makes the directory: MkdirAll("") is an error.
OpensDB(c) == c["driver"] = "sqlite" /\ c["dataDir"] \notin {"", "unfit"}

\* RenderConfig, of the subprocess.
Renders(c) ==
    /\ \A f \in {"hsData", "serverURL", "listen", "grpc", "socket"} : c[f] # ""
    /\ c["derp"] = "on" => c["stun"] # ""

\* The texts that RenderConfig hands to Headscale.
Rendered(c) ==
    {"serverURL", "listen", "grpc", "socket"}
        \cup (IF c["derp"] = "on" THEN {"stun", "code", "regionName", "derpIPs"} ELSE {})

\* Supervisor.Start: the directory is made, the file written, the binary executed, and
\* Headscale, which reads the file, answers on its address in time.
SupervisorStarts(c) ==
    /\ c["binary"] = "present" /\ c["hsData"] # "unfit" /\ c["readyTimeout"] # "wrong"
    /\ Renders(c)
    /\ \A f \in Rendered(c) : c[f] # "unfit"

\* BuildDERPMap.
HasDERPMap(c) ==
    /\ c["regionID"] # "zero" /\ c["derpPort"] # "zero"
    /\ \A f \in {"code", "regionName", "derpHost"} : c[f] # ""

\* newFrontend and httpfront.New.
HasFrontend(c) == c["tls"] \in {"off", "file", "auto"} /\ (c["tls"] = "auto" => c["email"] # "")

\* What comes before the address is bound: certmagic gets the certificate of the host,
\* and ports 443 and 80 whatever is configured.
MayListen(c) ==
    IF c["tls"] = "auto" THEN c["hostname"] = "set" /\ c["email"] # "unfit"
    ELSE c["port"] # "unfit"

\* What comes after it: ServeTLS loads the files.
LoadsKeys(c) == c["tls"] = "file" => c["files"] = "set"
=============================================================================
