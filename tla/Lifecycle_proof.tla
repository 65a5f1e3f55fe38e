-------------------------- MODULE Lifecycle_proof --------------------------
(***************************************************************************)
(* No failure of a service is reported as success and no request is cut by *)
(* a drain that did not time out, for any number of clients and requests.  *)
(* Both rest on what is known between the services and main: which service *)
(* has ended, with what the errgroup was left, and that main leaves the    *)
(* group only when every service has ended.                                *)
(***************************************************************************)
EXTENDS Lifecycle, TLAPS

Booting == main \in {"boot", "polling", "asking", "dialing", "waiting", "starting"}

\* Nothing is served before the group starts.
QuietBoot ==
    Booting => front = "off" /\ hs = "off" /\ groupErr = "none" /\ ~accepting /\ inflight = 0

\* How each service ended, and what the errgroup knows of it.
ServicesEnd ==
    /\ front = "failed" => groupErr # "none"
    /\ front \in {"draining", "ended", "abandoned"} => GroupDone
    /\ hs = "ended" /\ groupErr = "none" => child.state = "gone" /\ ~child.failed
    /\ main = "running" => (hs = "off" <=> child.state = "none")

\* What main knows when it leaves without an error.
LeavesClean ==
    main \in {"leaving", "exited"} /\ ~runErr
        => /\ groupErr = "none" /\ front \in {"ended", "abandoned"}
           /\ hs # "waiting" /\ (hs = "off" => child.state = "none")

\* Who may still have requests.
RequestsEnd ==
    /\ accepting => front \in {"listening", "abandoned"}
    /\ front = "off" => inflight = 0
    /\ front = "ended" /\ ~drainOver => inflight = 0
    /\ main \in {"leaving", "exited"} => front \in {"off", "ended", "abandoned", "failed"}
    /\ main = "running" => front # "off"

ChildRecord == [state : ChildState, stubborn : BOOLEAN, signalled : BOOLEAN, failed : BOOLEAN]
BcastRecord == [pc : {"armed", "telling"}, todo : SUBSET Clients]

\* The inductive invariant.
Inv == TypeOK /\ QuietBoot /\ ServicesEnd /\ LeavesClean /\ RequestsEnd

\* It holds when the process starts (run).
LEMMA InitEstablishes == Init => Inv
  <1> SUFFICES ASSUME Init PROVE Inv
    OBVIOUS
  <1>1. child \in ChildRecord /\ inflight \in 0 .. MaxRequests /\ bcast \in BcastRecord
    BY RequestsAreBounded DEF Init, NoChild, ChildState, ChildRecord, BcastRecord
  <1>2. TypeOK
    BY <1>1 DEF Init, TypeOK, ChildRecord, BcastRecord
  <1>3. QuietBoot /\ ServicesEnd /\ LeavesClean /\ RequestsEnd
    BY DEF Init, NoChild, Booting, QuietBoot, ServicesEnd, LeavesClean, RequestsEnd, GroupDone
  <1> QED
    BY <1>2, <1>3 DEF Inv

\* Every step preserves the types.
LEMMA StepTypes == TypeOK /\ [Next]_vars => TypeOK'
  <1> SUFFICES ASSUME TypeOK, [Next]_vars PROVE TypeOK'
    OBVIOUS
  <1> USE RequestsAreBounded DEF served, Leave, FirstErr
  <1>1. CASE NoHeadscale
    BY <1>1 DEF NoHeadscale, TypeOK
  <1>2. CASE Spawn
    <2>1. child' \in ChildRecord
      BY <1>2 DEF Spawn, TypeOK, NoChild, ChildState, ChildRecord
    <2> QED
      BY <1>2, <2>1 DEF Spawn, TypeOK, ChildRecord, BcastRecord
  <1>3. CASE PollCheck
    <2>1. child' \in ChildRecord
      BY <1>3 DEF PollCheck, TypeOK, ChildState, ChildRecord
    <2>2. main' \in {"boot", "polling", "asking", "dialing", "waiting", "starting", "running",
                     "leaving", "exited"} /\ runErr' \in BOOLEAN
      BY <1>3 DEF PollCheck, TypeOK
    <2> QED
      BY <1>3, <2>1, <2>2 DEF PollCheck, TypeOK, ChildRecord, BcastRecord
  <1>4. CASE PollAnswer
    <2>1. main' \in {"boot", "polling", "asking", "dialing", "waiting", "starting", "running",
                     "leaving", "exited"} /\ runErr' \in BOOLEAN
      BY <1>4 DEF PollAnswer, TypeOK
    <2> QED
      BY <1>4, <2>1 DEF PollAnswer, TypeOK, ChildRecord, BcastRecord
  <1>5. CASE Dial
    <2>1. main' \in {"boot", "polling", "asking", "dialing", "waiting", "starting", "running",
                     "leaving", "exited"} /\ runErr' \in BOOLEAN
      BY <1>5 DEF Dial, TypeOK
    <2> QED
      BY <1>5, <2>1 DEF Dial, TypeOK, ChildRecord, BcastRecord
  <1>6. CASE WaitForChild
    BY <1>6 DEF WaitForChild, TypeOK
  <1>7. CASE StartServices
    <2>1. /\ front' \in {"off", "listening", "draining", "ended", "abandoned", "failed"}
          /\ accepting' \in BOOLEAN
      BY <1>7 DEF StartServices, TypeOK
    <2>2. groupErr' \in {"none", "httpfront", "headscale"}
      BY <1>7 DEF StartServices, TypeOK
    <2>3. hs' \in {"off", "waiting", "ended"}
      BY <1>7 DEF StartServices, TypeOK
    <2> QED
      BY <1>7, <2>1, <2>2, <2>3 DEF StartServices, TypeOK, ChildRecord, BcastRecord
  <1>8. CASE BootFails
    BY <1>8 DEF BootFails, TypeOK
  <1>9. CASE ReadyTimeout
    BY <1>9 DEF ReadyTimeout, TypeOK
  <1>10. CASE FrontStop
    <2>1. /\ front' \in {"off", "listening", "draining", "ended", "abandoned", "failed"}
          /\ accepting' \in BOOLEAN
      BY <1>10 DEF FrontStop, TypeOK
    <2> QED
      BY <1>10, <2>1 DEF FrontStop, TypeOK, ChildRecord, BcastRecord
  <1>11. CASE Drained
    BY <1>11 DEF Drained, TypeOK
  <1>12. CASE DrainTimeout
    BY <1>12 DEF DrainTimeout, TypeOK
  <1>13. CASE FrontFails
    <2>1. /\ front' \in {"off", "listening", "draining", "ended", "abandoned", "failed"}
          /\ accepting' \in BOOLEAN
      BY <1>13 DEF FrontFails, TypeOK
    <2>2. groupErr' \in {"none", "httpfront", "headscale"}
      BY <1>13 DEF FrontFails, TypeOK
    <2> QED
      BY <1>13, <2>1, <2>2 DEF FrontFails, TypeOK, ChildRecord, BcastRecord
  <1>14. CASE HeadscaleExits
    <2>1. groupErr' \in {"none", "httpfront", "headscale"}
      BY <1>14 DEF HeadscaleExits, TypeOK
    <2> QED
      BY <1>14, <2>1 DEF HeadscaleExits, TypeOK, ChildRecord, BcastRecord
  <1>15. CASE HeadscaleCancelled
    <2>1. groupErr' \in {"none", "httpfront", "headscale"}
      BY <1>15 DEF HeadscaleCancelled, TypeOK
    <2> QED
      BY <1>15, <2>1 DEF HeadscaleCancelled, TypeOK, ChildRecord, BcastRecord
  <1>16. CASE Request
    BY <1>16 DEF Request, TypeOK
  <1>17. CASE Answer
    BY <1>17 DEF Answer, TypeOK
  <1>18. CASE BroadcastBegin
    <2>1. bcast' \in BcastRecord
      BY <1>18 DEF BroadcastBegin, TypeOK, BcastRecord
    <2> QED
      BY <1>18, <2>1 DEF BroadcastBegin, TypeOK, ChildRecord, BcastRecord
  <1>19. CASE ChildRuns
    <2>1. child' \in ChildRecord
      BY <1>19 DEF ChildRuns, TypeOK, ChildState, ChildRecord
    <2>2. UNCHANGED <<main, runErr, sig, late, served>>
      BY <1>19 DEF ChildRuns
    <2> QED
      BY <2>1, <2>2 DEF TypeOK, ChildRecord
  <1>20. CASE SignalChild
    <2>1. child' \in ChildRecord
      BY <1>20 DEF SignalChild, TypeOK, ChildState, ChildRecord
    <2> QED
      BY <1>20, <2>1 DEF SignalChild, TypeOK, ChildRecord, BcastRecord
  <1>21. CASE ChildObeys
    <2>1. child' \in ChildRecord
      BY <1>21 DEF ChildObeys, TypeOK, ChildState, ChildRecord
    <2> QED
      BY <1>21, <2>1 DEF ChildObeys, TypeOK, ChildRecord, BcastRecord
  <1>22. CASE KillChild
    <2>1. child' \in ChildRecord
      BY <1>22 DEF KillChild, TypeOK, ChildState, ChildRecord
    <2> QED
      BY <1>22, <2>1 DEF KillChild, TypeOK, ChildRecord, BcastRecord
  <1>23. CASE Signal
    BY <1>23 DEF Signal, TypeOK
  <1>24. CASE RunReturns
    BY <1>24 DEF RunReturns, TypeOK
  <1>25. CASE Exit
    <2>1. client' \in [Clients -> {"away", "connected", "told", "cut"}]
      BY <1>25 DEF Exit, TypeOK
    <2>2. main' \in {"boot", "polling", "asking", "dialing", "waiting", "starting", "running",
                     "leaving", "exited"} /\ runErr' \in BOOLEAN
      BY <1>25 DEF Exit, TypeOK
    <2>3. accepting' \in BOOLEAN /\ sig' \in BOOLEAN /\ late' \in BOOLEAN /\ drainOver' \in BOOLEAN
      BY <1>25 DEF Exit, TypeOK
    <2>4. UNCHANGED <<child, front, hs, groupErr, inflight, bcast>>
      BY <1>25 DEF Exit
    <2> QED
      BY <2>1, <2>2, <2>3, <2>4 DEF TypeOK
  <1>26. ASSUME NEW c \in Clients, Connect(c) PROVE TypeOK'
    <2>1. client' \in [Clients -> {"away", "connected", "told", "cut"}]
      BY <1>26 DEF Connect, TypeOK
    <2> QED
      BY <1>26, <2>1 DEF Connect, TypeOK, ChildRecord, BcastRecord
  <1>27. ASSUME NEW c \in Clients, Disconnect(c) PROVE TypeOK'
    <2>1. client' \in [Clients -> {"away", "connected", "told", "cut"}]
      BY <1>27 DEF Disconnect, TypeOK
    <2> QED
      BY <1>27, <2>1 DEF Disconnect, TypeOK, ChildRecord, BcastRecord
  <1>28. ASSUME NEW c \in Clients, BroadcastTell(c) PROVE TypeOK'
    <2>1. bcast' \in BcastRecord
      BY <1>28 DEF BroadcastTell, TypeOK, BcastRecord
    <2>2. client' \in [Clients -> {"away", "connected", "told", "cut"}]
      BY <1>28 DEF BroadcastTell, TypeOK
    <2> QED
      BY <1>28, <2>1, <2>2 DEF BroadcastTell, TypeOK, ChildRecord, BcastRecord
  <1>29. CASE UNCHANGED vars
    BY <1>29 DEF vars, TypeOK
  <1> QED
    BY <1>1, <1>2, <1>3, <1>4, <1>5, <1>6, <1>7, <1>8, <1>9, <1>10, <1>11, <1>12, <1>13, <1>14,
       <1>15, <1>16, <1>17, <1>18, <1>19, <1>20, <1>21, <1>22, <1>23, <1>24, <1>25, <1>26, <1>27,
       <1>28, <1>29
    DEF Next, Boot, Front, HeadscaleService

\* Every step preserves the rest.
LEMMA StepPreserves == Inv /\ [Next]_vars => Inv'
  <1> SUFFICES ASSUME Inv, [Next]_vars PROVE Inv'
    OBVIOUS
  <1> DEFINE Rest == QuietBoot /\ ServicesEnd /\ LeavesClean /\ RequestsEnd
  <1>0. TypeOK'
    BY StepTypes DEF Inv
  <1> USE RequestsAreBounded
      DEF Inv, TypeOK, ChildState, served, Leave, Alive, FirstErr, GroupDone, Booting, QuietBoot,
          ServicesEnd, LeavesClean, RequestsEnd
  <1>1. ASSUME NoHeadscale PROVE Rest'
    BY <1>1 DEF NoHeadscale
  <1>2. ASSUME Spawn PROVE Rest'
    BY <1>2 DEF Spawn, NoChild
  <1>3. ASSUME PollCheck PROVE Rest'
    BY <1>3 DEF PollCheck
  <1>4. ASSUME PollAnswer PROVE Rest'
    BY <1>4 DEF PollAnswer
  <1>5. ASSUME Dial PROVE Rest'
    BY <1>5 DEF Dial
  <1>6. ASSUME WaitForChild PROVE Rest'
    BY <1>6 DEF WaitForChild
  <1>7. ASSUME StartServices PROVE Rest'
    <2>1. /\ main = "starting" /\ main' = "running" /\ hs = "off"
          /\ hs' = IF HeadscaleEnabled THEN "waiting" ELSE "off"
          /\ UNCHANGED <<child, inflight, drainOver, runErr>>
          /\ \/ front' = "listening" /\ accepting' = TRUE /\ groupErr' = groupErr
             \/ front' = "failed" /\ groupErr' = "httpfront" /\ accepting' = accepting
      BY <1>7 DEF StartServices
    <2>2. front = "off" /\ groupErr = "none" /\ ~accepting /\ inflight = 0
      BY <2>1
    <2>3. hs' = "off" <=> child'.state = "none"
      BY <2>1 DEF HeadscaleEnabled
    <2>4. QuietBoot' /\ LeavesClean' /\ RequestsEnd'
      BY <2>1, <2>2
    <2>5. ServicesEnd'
      BY <2>1, <2>2, <2>3
    <2> QED
      BY <2>4, <2>5
  <1>8. ASSUME BootFails PROVE Rest'
    BY <1>8 DEF BootFails
  <1>9. ASSUME ReadyTimeout PROVE Rest'
    BY <1>9 DEF ReadyTimeout
  <1>10. ASSUME FrontStop PROVE Rest'
    BY <1>10 DEF FrontStop
  <1>11. ASSUME Drained PROVE Rest'
    BY <1>11 DEF Drained
  <1>12. ASSUME DrainTimeout PROVE Rest'
    BY <1>12 DEF DrainTimeout
  <1>13. ASSUME FrontFails PROVE Rest'
    BY <1>13 DEF FrontFails
  <1>14. ASSUME HeadscaleExits PROVE Rest'
    BY <1>14 DEF HeadscaleExits
  <1>15. ASSUME HeadscaleCancelled PROVE Rest'
    BY <1>15 DEF HeadscaleCancelled
  <1>16. ASSUME Request PROVE Rest'
    BY <1>16 DEF Request
  <1>17. ASSUME Answer PROVE Rest'
    BY <1>17 DEF Answer
  <1>18. ASSUME BroadcastBegin PROVE Rest'
    BY <1>18 DEF BroadcastBegin
  <1>19. ASSUME ChildRuns PROVE Rest'
    <2>1. child.state \in {"starting", "ready", "stuck"} /\ child'.state # "none"
      BY <1>19 DEF ChildRuns
    <2>2. UNCHANGED <<main, runErr, sig, front, accepting, hs, groupErr, inflight, drainOver>>
      BY <1>19 DEF ChildRuns
    <2> QED
      BY <2>1, <2>2
  <1>20. ASSUME SignalChild PROVE Rest'
    BY <1>20 DEF SignalChild
  <1>21. ASSUME ChildObeys PROVE Rest'
    BY <1>21 DEF ChildObeys
  <1>22. ASSUME KillChild PROVE Rest'
    BY <1>22 DEF KillChild
  <1>23. ASSUME Signal PROVE Rest'
    BY <1>23 DEF Signal
  <1>24. ASSUME RunReturns PROVE Rest'
    BY <1>24 DEF RunReturns
  <1>25. ASSUME Exit PROVE Rest'
    BY <1>25 DEF Exit
  <1>26. ASSUME NEW c \in Clients, Connect(c) PROVE Rest'
    BY <1>26 DEF Connect
  <1>27. ASSUME NEW c \in Clients, Disconnect(c) PROVE Rest'
    BY <1>27 DEF Disconnect
  <1>28. ASSUME NEW c \in Clients, BroadcastTell(c) PROVE Rest'
    BY <1>28 DEF BroadcastTell
  <1>29. ASSUME UNCHANGED vars PROVE Rest'
    BY <1>29 DEF vars
  <1> HIDE DEF TypeOK, QuietBoot, ServicesEnd, LeavesClean, RequestsEnd
  <1> QED
    BY <1>0, <1>1, <1>2, <1>3, <1>4, <1>5, <1>6, <1>7, <1>8, <1>9, <1>10, <1>11, <1>12, <1>13,
       <1>14, <1>15, <1>16, <1>17, <1>18, <1>19, <1>20, <1>21, <1>22, <1>23, <1>24, <1>25, <1>26,
       <1>27, <1>28, <1>29
    DEF Next, Boot, Front, HeadscaleService

\* The invariant of the life of the process (main, Run, runAndShutdown, Wait).
THEOREM Invariance == Spec => []Inv
  BY InitEstablishes, StepPreserves, PTL DEF Spec

\* Process, child, services and clients keep their types (TypeOK).
THEOREM TypeCorrect == Spec => []TypeOK
  <1>1. Inv => TypeOK
    BY DEF Inv
  <1> QED
    BY <1>1, Invariance, PTL

\* No failure is reported as success.
THEOREM FailureReported == Spec => []NoSilentFailure
  <1>1. Inv => NoSilentFailure
    BY DEF Inv, ServicesEnd, LeavesClean, NoSilentFailure, GroupDone, HeadscaleEnabled, TypeOK
  <1> QED
    BY <1>1, Invariance, PTL

\* No request is cut by a drain that did not time out.
THEOREM RequestsDrained == Spec => []DrainedBeforeExit
  <1>1. Inv => DrainedBeforeExit
    BY DEF Inv, RequestsEnd, DrainedBeforeExit, TypeOK
  <1> QED
    BY <1>1, Invariance, PTL
=============================================================================
