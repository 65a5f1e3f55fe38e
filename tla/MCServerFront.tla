--------------------------- MODULE MCServerFront ---------------------------
(* A small instance of ServerFront.  The settings: a server alone, one with  *)
(* Headscale and DERP, one with certificate files, a hosted one; each spoilt *)
(* in the file, some of them mended or spoilt again by the environment, and  *)
(* some of them good in themselves and refused by whoever reads a value.     *)
EXTENDS ServerFront, TLC

Plain == [tls |-> "off"]
Derp == [tls |-> "off", headscale |-> "on", derp |-> "on"]
Files == [tls |-> "file", files |-> "set"]
Hosted == [mode |-> "hosted", tls |-> "auto"]
HostedEnv == [url |-> "set", email |-> "set", port |-> "unparsable"]

MCSettings ==
    [yaml : {Plain, Derp, [grpc |-> ""] @@ Derp, [regionName |-> ""] @@ Derp,
             [stun |-> ""] @@ Derp, [hostname |-> ""] @@ Derp, [dataDir |-> ""] @@ Plain,
             [tls |-> "file"], Hosted,
             Files, [files |-> "unfit"] @@ Files, [dataDir |-> "unfit"] @@ Plain,
             [binary |-> "unfit"] @@ Files @@ Derp, [listen |-> "unfit"] @@ Derp},
     env : {<<>>}]
    \cup [yaml : {[stun |-> ""] @@ Derp}, env : {[derp |-> "off", hostname |-> ""]}]
    \cup [yaml : {Hosted}, env : {[hostname |-> "set"] @@ HostedEnv}]
    \cup [yaml : {[hostname |-> ""] @@ Hosted}, env : {HostedEnv}]
    \cup [yaml : {[driver |-> ""] @@ Plain}, env : {[url |-> "set"], [regionID |-> "zero"]}]

Symmetry == Permutations(Procs) \cup Permutations(SigningKeys) \cup Permutations(Requests)
=============================================================================
