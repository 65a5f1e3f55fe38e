----------------------------- MODULE Lifecycle -----------------------------
(***************************************************************************)
(* One life of the server process: boot, with the Headscale subprocess     *)
(* started and polled before anything is served; service, with the HTTP    *)
(* front end and the wait for the subprocess in one errgroup; and the way  *)
(* out, after SIGTERM or after the failure of a service.  Beside main run  *)
(* the goroutine that tells WebSocket clients to reconnect and the one of  *)
(* os/exec that signals and kills the subprocess.  Both die with main.     *)
(*                                                                         *)
(* Time is not counted: a timeout that is armed may fire at any moment.    *)
(* The configuration is chosen where it first matters: whether Headscale   *)
(* is enabled at boot, whether TLS is automatic when the front end stops.  *)
(***************************************************************************)
EXTENDS Naturals

CONSTANTS
    Clients,     \* WebSocket clients
    MaxRequests  \* bound: requests in flight

ASSUME RequestsAreBounded == MaxRequests \in Nat

VARIABLES
    main,      \* where the main goroutine is
    runErr,    \* run() returned an error: the process exits 1
    sig,       \* SIGINT or SIGTERM arrived: the root context is cancelled
    late,      \* ReadyTimeout has passed
    child,     \* the Headscale subprocess
    front,     \* the HTTP front end
    accepting, \* its listener is open
    hs,        \* the service that waits for the subprocess
    groupErr,  \* the first error of the errgroup
    inflight,  \* requests being handled
    drainOver, \* the drain of 30 seconds ran out
    client,    \* client[c]: the WebSocket of c
    bcast      \* progress of BroadcastReconnect

vars == <<main, runErr, sig, late, child, front, accepting, hs, groupErr, inflight, drainOver,
          client, bcast>>
served == <<front, accepting, hs, groupErr, inflight, drainOver, client, bcast>>

ChildState == {"none", "starting", "ready", "stuck", "gone"}
NoChild == [state |-> "none", stubborn |-> FALSE, signalled |-> FALSE, failed |-> FALSE]
HeadscaleEnabled == child.state # "none"
Alive == child.state \in {"starting", "ready", "stuck"}
GroupDone == sig \/ groupErr # "none"
FirstErr(e) == IF groupErr = "none" THEN e ELSE groupErr

Init ==
    /\ main = "boot"
    /\ runErr = FALSE
    /\ sig = FALSE
    /\ late = FALSE
    /\ child = NoChild
    /\ front = "off"
    /\ accepting = FALSE
    /\ hs = "off"
    /\ groupErr = "none"
    /\ inflight = 0
    /\ drainOver = FALSE
    /\ client = [c \in Clients |-> "away"]
    /\ bcast = [pc |-> "armed", todo |-> {}]

Leave(e) == main' = "leaving" /\ runErr' = e

----------------------------------------------------------------------------
(* Boot *)

\* The configuration, the database, a migration or the front end's options fail.
BootFails ==
    /\ main \in {"boot", "starting"}
    /\ Leave(TRUE)
    /\ UNCHANGED <<sig, late, child, served>>

NoHeadscale ==
    /\ main = "boot"
    /\ main' = "starting"
    /\ UNCHANGED <<runErr, sig, late, child, served>>

\* os/exec starts nothing under a cancelled context.  A stubborn child ignores SIGINT.
Spawn ==
    /\ main = "boot" /\ ~sig
    /\ main' = "polling"
    /\ \E s \in BOOLEAN : child' = [NoChild EXCEPT !.state = "starting", !.stubborn = s]
    /\ UNCHANGED <<runErr, sig, late, served>>

ReadyTimeout ==
    /\ main \in {"polling", "asking"} /\ ~late
    /\ late' = TRUE
    /\ UNCHANGED <<main, runErr, sig, child, served>>

\* Top of the loop: give up after the timeout, or when the child is gone.
PollCheck ==
    /\ main = "polling"
    /\ IF late \/ child.state = "gone"
       THEN /\ Leave(TRUE)
            /\ child' = [child EXCEPT !.signalled = @ \/ (late /\ Alive)]
       ELSE main' = "asking" /\ UNCHANGED <<runErr, child>>
    /\ UNCHANGED <<sig, late, served>>

\* GET /health has no timeout: a child that accepts and never answers is waited for.
PollAnswer ==
    /\ main = "asking"
    /\ child.state # "stuck"
    /\ main' = IF child.state = "ready" THEN "dialing" ELSE "polling"
    /\ UNCHANGED <<runErr, sig, late, child, served>>

\* The DERP map is refused: boot waits for the child before it reports the error.
Dial ==
    /\ main = "dialing"
    /\ main' \in {"starting", "waiting"}
    /\ UNCHANGED <<runErr, sig, late, child, served>>

WaitForChild ==
    /\ main = "waiting"
    /\ child.state = "gone" \/ sig
    /\ Leave(TRUE)
    /\ UNCHANGED <<sig, late, child, served>>

----------------------------------------------------------------------------
(* The services of the group *)

StartServices ==
    /\ main = "starting"
    /\ main' = "running"
    /\ hs' = IF HeadscaleEnabled THEN "waiting" ELSE "off"
    /\ \/ front' = "listening" /\ accepting' = TRUE /\ UNCHANGED groupErr
       \/ front' = "failed" /\ groupErr' = "httpfront" /\ UNCHANGED accepting
    /\ UNCHANGED <<runErr, sig, late, child, inflight, drainOver, client, bcast>>

\* Serve returns an error: no drain.  If the group's context has ended too, the select
\* may take that, and the error is discarded.
FrontFails ==
    /\ front = "listening"
    /\ accepting' = FALSE
    /\ \/ front' = "failed" /\ groupErr' = FirstErr("httpfront")
       \/ GroupDone /\ front' \in {"draining", "abandoned"} /\ UNCHANGED groupErr
    /\ UNCHANGED <<main, runErr, sig, late, child, hs, inflight, drainOver, client, bcast>>

\* The group's context ends: Shutdown, or with automatic TLS, which has no such
\* thing, a return that leaves listener and handlers running.
FrontStop ==
    /\ front = "listening"
    /\ GroupDone
    /\ \/ front' = "draining" /\ accepting' = FALSE
       \/ front' = "abandoned" /\ UNCHANGED accepting
    /\ UNCHANGED <<main, runErr, sig, late, child, hs, groupErr, inflight, drainOver, client,
                   bcast>>

\* Broken variant of Drained: Shutdown is not waited for.
NotDrained ==
    /\ front = "draining"
    /\ front' = "ended"
    /\ UNCHANGED <<main, runErr, sig, late, child, accepting, hs, groupErr, inflight, drainOver,
                   client, bcast>>

\* Shutdown returns: every request is answered.  Hijacked connections do not count.
Drained ==
    /\ front = "draining"
    /\ inflight = 0
    /\ front' = "ended"
    /\ UNCHANGED <<main, runErr, sig, late, child, accepting, hs, groupErr, inflight, drainOver,
                   client, bcast>>

DrainTimeout ==
    /\ front = "draining"
    /\ inflight > 0
    /\ front' = "ended"
    /\ drainOver' = TRUE
    /\ UNCHANGED <<main, runErr, sig, late, child, accepting, hs, groupErr, inflight, client,
                   bcast>>

\* Broken variant of HeadscaleExits: the exit of the child is an orderly end.
HeadscaleExitsOk ==
    /\ hs = "waiting"
    /\ child.state = "gone"
    /\ hs' = "ended"
    /\ UNCHANGED <<main, runErr, sig, late, child, front, accepting, groupErr, inflight,
                   drainOver, client, bcast>>

\* Wait returns nil for a child that exited with status 0, an error for any other.
HeadscaleExits ==
    /\ hs = "waiting"
    /\ child.state = "gone"
    /\ hs' = "ended"
    /\ groupErr' = IF child.failed THEN FirstErr("headscale") ELSE groupErr
    /\ UNCHANGED <<main, runErr, sig, late, child, front, accepting, inflight, drainOver, client,
                   bcast>>

\* Wait returns ctx.Err() for a context that ended, and the supervisor wraps it.
HeadscaleCancelled ==
    /\ hs = "waiting"
    /\ GroupDone
    /\ hs' = "ended"
    /\ groupErr' = FirstErr("headscale")
    /\ UNCHANGED <<main, runErr, sig, late, child, front, accepting, inflight, drainOver, client,
                   bcast>>

----------------------------------------------------------------------------
(* Requests and WebSocket clients *)

Request ==
    /\ accepting /\ main # "exited"
    /\ inflight < MaxRequests
    /\ inflight' = inflight + 1
    /\ UNCHANGED <<main, runErr, sig, late, child, front, accepting, hs, groupErr, drainOver,
                   client, bcast>>

\* Broken variant of Answer: a handler that panics is counted out twice.
AnswerTwice ==
    /\ inflight > 0 /\ main # "exited"
    /\ inflight' = inflight - 2
    /\ UNCHANGED <<main, runErr, sig, late, child, front, accepting, hs, groupErr, drainOver,
                   client, bcast>>

Answer ==
    /\ inflight > 0 /\ main # "exited"
    /\ inflight' = inflight - 1
    /\ UNCHANGED <<main, runErr, sig, late, child, front, accepting, hs, groupErr, drainOver,
                   client, bcast>>

Connect(c) ==
    /\ accepting /\ main # "exited"
    /\ client[c] = "away"
    /\ client' = [client EXCEPT ![c] = "connected"]
    /\ UNCHANGED <<main, runErr, sig, late, child, front, accepting, hs, groupErr, inflight,
                   drainOver, bcast>>

Disconnect(c) ==
    /\ client[c] = "connected"
    /\ client' = [client EXCEPT ![c] = "away"]
    /\ UNCHANGED <<main, runErr, sig, late, child, front, accepting, hs, groupErr, inflight,
                   drainOver, bcast>>

BroadcastBegin ==
    /\ bcast.pc = "armed" /\ sig /\ main # "exited"
    /\ bcast' = [pc |-> "telling", todo |-> {c \in Clients : client[c] = "connected"}]
    /\ UNCHANGED <<main, runErr, sig, late, child, front, accepting, hs, groupErr, inflight,
                   drainOver, client>>

BroadcastTell(c) ==
    /\ c \in bcast.todo /\ main # "exited"
    /\ bcast' = [bcast EXCEPT !.todo = @ \ {c}]
    /\ client' = [client EXCEPT ![c] = IF @ = "connected" THEN "told" ELSE @]
    /\ UNCHANGED <<main, runErr, sig, late, child, front, accepting, hs, groupErr, inflight,
                   drainOver>>

----------------------------------------------------------------------------
(* The subprocess, and os/exec *)

\* The child becomes ready, hangs, or exits; after a signal of os/exec any exit is
\* an error of Wait.
ChildRuns ==
    /\ \/ child.state = "starting" /\ child' = [child EXCEPT !.state = "ready"]
       \/ child.state \in {"starting", "ready"} /\ child' = [child EXCEPT !.state = "stuck"]
       \/ Alive /\ \E f \in BOOLEAN :
             child' = [child EXCEPT !.state = "gone", !.failed = f \/ child.signalled]
    /\ UNCHANGED <<main, runErr, sig, late, served>>

\* The root context ends with the signal, or by stop() on the way out of run.
SignalChild ==
    /\ Alive /\ ~child.signalled
    /\ sig \/ main = "leaving"
    /\ main # "exited"
    /\ child' = [child EXCEPT !.signalled = TRUE]
    /\ UNCHANGED <<main, runErr, sig, late, served>>

ChildObeys ==
    /\ Alive /\ child.signalled /\ ~child.stubborn
    /\ child' = [child EXCEPT !.state = "gone", !.failed = TRUE]
    /\ UNCHANGED <<main, runErr, sig, late, served>>

\* Broken variant of KillChild: without WaitDelay there is only the signal.
SignalAgain ==
    /\ Alive /\ child.signalled /\ sig
    /\ main # "exited"
    /\ child' = [child EXCEPT !.signalled = TRUE]
    /\ UNCHANGED <<main, runErr, sig, late, served>>

\* WaitDelay after the context ended the child is killed, if main is still there.
KillChild ==
    /\ Alive /\ child.signalled /\ sig
    /\ main # "exited"
    /\ child' = [child EXCEPT !.state = "gone", !.failed = TRUE]
    /\ UNCHANGED <<main, runErr, sig, late, served>>

----------------------------------------------------------------------------
(* The way out *)

Signal ==
    /\ ~sig /\ main # "exited"
    /\ sig' = TRUE
    /\ UNCHANGED <<main, runErr, late, child, served>>

\* Broken variant of RunReturns: the error of the group is dropped.
RunReturnsNil ==
    /\ main = "running"
    /\ front \in {"ended", "abandoned", "failed"} /\ hs # "waiting"
    /\ Leave(FALSE)
    /\ UNCHANGED <<sig, late, child, served>>

\* Run returns the first error; main compares it with context.Canceled itself,
\* which a wrapped error never equals.
RunReturns ==
    /\ main = "running"
    /\ front \in {"ended", "abandoned", "failed"} /\ hs # "waiting"
    /\ Leave(groupErr # "none")
    /\ UNCHANGED <<sig, late, child, served>>

\* The deferred calls close the hub, the gRPC client and the database, and main exits.
Exit ==
    /\ main = "leaving"
    /\ main' = "exited"
    /\ accepting' = FALSE
    /\ client' = [c \in Clients |-> IF client[c] = "connected" THEN "cut" ELSE client[c]]
    /\ UNCHANGED <<runErr, sig, late, child, front, hs, groupErr, inflight, drainOver, bcast>>

----------------------------------------------------------------------------
Boot == NoHeadscale \/ Spawn \/ PollCheck \/ PollAnswer \/ Dial \/ WaitForChild \/ StartServices
HeadscaleService == HeadscaleExits \/ HeadscaleCancelled
Front == FrontStop \/ Drained \/ DrainTimeout

Next ==
    \/ Boot \/ BootFails \/ ReadyTimeout
    \/ Front \/ FrontFails \/ HeadscaleService
    \/ Request \/ Answer
    \/ \E c \in Clients : Connect(c) \/ Disconnect(c) \/ BroadcastTell(c)
    \/ BroadcastBegin
    \/ ChildRuns \/ SignalChild \/ ChildObeys \/ KillChild
    \/ Signal \/ RunReturns \/ Exit

Spec == Init /\ [][Next]_vars

\* Goroutines run and timeouts fire.  Whether the child becomes ready, hangs or
\* dies, whether a handler answers and whether a signal comes is left open.
Fairness ==
    /\ WF_vars(Boot \/ BootFails)
    /\ WF_vars(ReadyTimeout)
    /\ WF_vars(Front)
    /\ WF_vars(HeadscaleService)
    /\ WF_vars(SignalChild)
    /\ WF_vars(ChildObeys)
    /\ WF_vars(KillChild)
    /\ WF_vars(RunReturns)
    /\ WF_vars(Exit)

FairSpec == Spec /\ Fairness

----------------------------------------------------------------------------
(* Safety *)

\* The type invariant.
TypeOK ==
    /\ main \in {"boot", "polling", "asking", "dialing", "waiting", "starting", "running",
                 "leaving", "exited"}
    /\ runErr \in BOOLEAN /\ sig \in BOOLEAN /\ late \in BOOLEAN
    /\ child \in [state : ChildState, stubborn : BOOLEAN, signalled : BOOLEAN, failed : BOOLEAN]
    /\ front \in {"off", "listening", "draining", "ended", "abandoned", "failed"}
    /\ accepting \in BOOLEAN
    /\ hs \in {"off", "waiting", "ended"}
    /\ groupErr \in {"none", "httpfront", "headscale"}
    /\ inflight \in 0 .. MaxRequests
    /\ drainOver \in BOOLEAN
    /\ client \in [Clients -> {"away", "connected", "told", "cut"}]
    /\ bcast \in [pc : {"armed", "telling"}, todo : SUBSET Clients]

\* The database is not closed under a request: when the process leaves, every request
\* was answered, unless the drain timed out, the listener itself failed, or TLS is
\* automatic, which has no graceful stop (runAndShutdown, serveAuto, run).
DrainedBeforeExit ==
    main \in {"leaving", "exited"} /\ inflight > 0
        => drainOver \/ front \in {"failed", "abandoned"}

\* Exit status 0 is never given to a failure: it takes a signal, a front end whose Serve
\* had not failed before the signal, when its select took notice, and, with Headscale, a
\* child that had ended by itself with status 0 (runAndShutdown, Wait, Run, main).
NoSilentFailure ==
    main = "exited" /\ ~runErr
        => /\ sig /\ front \in {"ended", "abandoned"}
           /\ HeadscaleEnabled => child.state = "gone" /\ ~child.failed

\* Nothing went wrong but that a signal came: the front end drained, no request was
\* cut, and the child was running when its SIGINT came.
CleanCancel ==
    /\ sig /\ front = "ended" /\ ~drainOver
    /\ HeadscaleEnabled => child.signalled

\* "clean external cancel is not an error" (supervisor.go).
CleanCancelExitsZero == main = "exited" /\ CleanCancel => ~runErr

\* "Graceful shutdown sends `reconnect` to all WebSocket clients before closing" (plan 10).
ReconnectToAll ==
    main = "exited" /\ ~runErr /\ front = "ended" => \A c \in Clients : client[c] # "cut"

----------------------------------------------------------------------------
(* Liveness, under FairSpec *)

\* A signal ends the process wherever it arrives, in the middle of a poll that is not
\* answered, of a wait for a child that ignores SIGINT, or of a drain; and so does the
\* failure of any service (Start, Wait, Run, runAndShutdown).
StopsWhenAsked == GroupDone ~> main = "exited"

\* The server does not go on serving without the coordinator it depends on, if that
\* died with an error (Wait, Run).
DeadChildStopsServer ==
    (main = "running" /\ child.state = "gone" /\ child.failed) ~> main = "exited"
=============================================================================
