-------------------------- MODULE LiveServiceProofs --------------------------
(***************************************************************************)
(* Proofs about LiveService, for any number of sessions, recordings and    *)
(* tuners: the process only takes steps of the live manager, so all that   *)
(* is proved of LiveTv holds in it, and of the sessions it waited for the  *)
(* exit leaves nothing behind.                                             *)
(***************************************************************************)
EXTENDS LiveService, LiveTvProofs

-----------------------------------------------------------------------------
(* The service takes steps of LiveTv or leaves its variables alone. *)

LEMMA ServiceStepIsLive == [ServiceNext]_service => [Next]_vars
<1> SUFFICES ASSUME ServiceNext, ~UNCHANGED vars PROVE Next
  BY DEF service
<1>1. CASE Signal
  BY <1>1 DEF Signal, Next
<1>2. CASE ListenerCloses \/ Waited \/ Exits
  BY <1>2 DEF ListenerCloses, Waited, Exits
<1>3. ASSUME NEW s \in Sessions,
             \/ Live(StartRequest(s)) \/ Live(StartStep(s)) \/ Live(RunStep(s))
             \/ Live(StopRequest(s)) \/ Live(StopReturns(s))
             \/ Live(StopAbandoned(s))
             \/ FfmpegExits(s) /\ UNCHANGED <<main, uncounted>>
      PROVE  Next
  <2>1. \/ StartRequest(s) \/ StartStep(s) \/ RunStep(s) \/ FfmpegExits(s)
        \/ StopRequest(s) \/ StopReturns(s) \/ StopAbandoned(s)
    BY <1>3, Zenon DEF Live
  <2> QED
    BY <2>1, Zenon DEF Next
<1>4. ASSUME NEW r \in Recordings,
             \/ Live(Claims(r)) \/ Live(RecordingStep(r))
             \/ Live(RecordingOver(r)) \/ Live(RecordingDeleted(r))
      PROVE  Next
  <2>1. \/ RecordingDue(r) \/ RecordingStep(r)
        \/ RecordingOver(r) \/ RecordingDeleted(r)
    BY <1>4, Zenon DEF Live, Claims
  <2> QED
    BY <2>1, Zenon DEF Next
<1> QED
  BY <1>1, <1>2, <1>3, <1>4, Zenon DEF ServiceNext

(* main.go around the live manager implements the live manager alone: a    *)
(* signal is a shutdown, and closing the listener and exiting change       *)
(* nothing of it.                                                          *)
THEOREM ServiceImplementsLive == ServiceSpec => Spec
<1>1. ServiceInit => Init
  BY DEF ServiceInit
<1> QED
  BY <1>1, ServiceStepIsLive, PTL DEF ServiceSpec, Spec

-----------------------------------------------------------------------------
(* What is true of the manager is true of the service. *)

(* Every variable keeps its type, and the map of jobs its meaning. *)
THEOREM ServiceTypeCorrect == ServiceSpec => []TypeOK
  BY ServiceImplementsLive, LiveTypeCorrect, PTL

(* Preemption, failing starts and the signal never overdraw the tuners. *)
THEOREM ServiceTunersNotOverdrawn == ServiceSpec => []TunersNotOverdrawn
  BY ServiceImplementsLive, LiveTunersNotOverdrawn, PTL

(* Whoever sees done closed finds the tuner of the session released. *)
THEOREM ServiceDoneMeansReleased == ServiceSpec => []DoneMeansReleased
  BY ServiceImplementsLive, LiveDoneMeansReleased, PTL

(* A DELETE that succeeds finds the tuner of the session free, and its     *)
(* FFmpeg gone or given up on.                                             *)
THEOREM ServiceStoppedMeansReleased == ServiceSpec => []StoppedMeansReleased
  BY ServiceImplementsLive, LiveStoppedMeansReleased, PTL

(* In the whole process the pool keeps its promise, ... *)
THEOREM ServiceImplementsPool == ServiceSpec => ImplementsPool
  BY ServiceImplementsLive, LiveTvImplementsPool, PTL

(* ... and a DELETE, or a recording, that waits for a session waits for    *)
(* one whose run loop will close done; the one recording that does not is  *)
(* that which preempted a session whose FFmpeg could not be started.       *)
THEOREM ServiceAwaitedWillEnd == ServiceSpec => []AwaitedWillEnd
  BY ServiceImplementsLive, LiveAwaitedWillEnd, PTL

(* A session that failed to start or has ended leaves nothing behind but   *)
(* an FFmpeg that outlived its kill or a directory whose removal failed.   *)
THEOREM ServiceEndedLeavesNothing == ServiceSpec => []EndedLeavesNothing
  BY ServiceImplementsLive, LiveEndedLeavesNothing, PTL

-----------------------------------------------------------------------------
(* The exit *)

(* Once Wait has returned, the recorder and every counted session are done *)
(* and stay so, whatever the handlers still do.                            *)
Counted ==
    main \in {"leaving", "exited"} =>
        /\ RecorderDone
        /\ \A s \in Sessions \ uncounted : run[s] = "ended"

(* A goroutine that has ended takes no step. *)
LEMMA EndedStays ==
    ASSUME LiveInv, NEW s \in Sessions, run[s] = "ended", [Next]_vars
    PROVE  run'[s] = "ended"
<1> USE DEF LiveInv, TypeOK, At, Holds
<1>1. ASSUME NEW t \in Sessions, StartRequest(t) \/ StartStep(t)
      PROVE  run'[s] = "ended"
  BY <1>1
  DEF StartRequest, StartStep, StartAcquire, Spawn, SpawnFails, Register,
      Ready, NotReady, NotReadyStopped
<1>2. ASSUME NEW t \in Sessions, RunStep(t) PROVE run'[s] = "ended"
  BY <1>2
  DEF RunStep, SelectExited, SelectCancelled, SelectTimer, StopProcess,
      RunRelease, CloseDone, Forget, RemoveBuffer
<1>3. ASSUME NEW t \in Sessions,
             \/ FfmpegExits(t)
             \/ StopRequest(t) \/ StopReturns(t) \/ StopAbandoned(t)
      PROVE  run'[s] = "ended"
  BY <1>3
  DEF FfmpegExits, StopRequest, StopReturns, StopAbandoned, sessionVars
<1>4. ASSUME NEW r \in Recordings,
             \/ RecordingDue(r) \/ RecordingStep(r)
             \/ RecordingOver(r) \/ RecordingDeleted(r)
      PROVE  run'[s] = "ended"
  BY <1>4
  DEF RecordingDue, RecordingStep, RecordingTurn, Preempt, PreemptedDone,
      RecordingGivesUp, RecordingOver, RecordingDeleted, sessionVars
<1>5. CASE Shutdown \/ UNCHANGED vars
  BY <1>5 DEF Shutdown, vars, sessionVars
<1> QED
  BY <1>1, <1>2, <1>3, <1>4, <1>5 DEF Next

(* A recording that is over, was refused or was never claimed takes no     *)
(* step once the root context is cancelled.                                *)
LEMMA RecorderStays ==
    ASSUME TypeOK, RecorderDone, main # "serving", [ServiceNext]_service
    PROVE  RecorderDone'
<1> USE DEF TypeOK, RecorderDone, At
<1>1. CASE Signal \/ ListenerCloses \/ Waited \/ Exits
  BY <1>1 DEF Signal, ListenerCloses, Waited, Exits, vars, recVars
<1>2. ASSUME NEW s \in Sessions,
             \/ Live(StartRequest(s)) \/ Live(StartStep(s)) \/ Live(RunStep(s))
             \/ Live(StopRequest(s)) \/ Live(StopReturns(s))
             \/ Live(StopAbandoned(s))
             \/ FfmpegExits(s) /\ UNCHANGED <<main, uncounted>>
      PROVE  RecorderDone'
  <2>1. \/ StartRequest(s) \/ StartStep(s) \/ RunStep(s) \/ FfmpegExits(s)
        \/ StopRequest(s) \/ StopReturns(s) \/ StopAbandoned(s)
    BY <1>2, Zenon DEF Live
  <2>2. UNCHANGED rec
    BY <2>1
    DEF StartRequest, StartStep, StartAcquire, Spawn, SpawnFails, Register,
        Ready, NotReady, NotReadyStopped, RunStep, SelectExited,
        SelectCancelled, SelectTimer, StopProcess, RunRelease, CloseDone,
        Forget, RemoveBuffer, FfmpegExits, StopRequest, StopReturns,
        StopAbandoned, recVars
  <2> QED
    BY <2>2
<1>3. ASSUME NEW r \in Recordings,
             \/ Live(Claims(r)) \/ Live(RecordingStep(r))
             \/ Live(RecordingOver(r)) \/ Live(RecordingDeleted(r))
      PROVE  RecorderDone'
  BY <1>3
  DEF Live, Claims, RecordingStep, RecordingTurn, Preempt, PreemptedDone,
      RecordingGivesUp, RecordingOver, RecordingDeleted
<1>4. CASE UNCHANGED service
  BY <1>4 DEF service, vars, recVars
<1> QED
  BY <1>1, <1>2, <1>3, <1>4 DEF ServiceNext

LEMMA CountedStep ==
    ASSUME LiveInv, Counted, [ServiceNext]_service PROVE Counted'
<1>1. CASE Waited
  BY <1>1
  DEF Waited, Counted, RecorderDone, LiveDone, vars, sessionVars, recVars
<1>2. ASSUME main' \in {"leaving", "exited"}, ~Waited PROVE Counted'
  <2>1. main \in {"leaving", "exited"} /\ UNCHANGED uncounted
    BY <1>2 DEF ServiceNext, Live, Signal, ListenerCloses, Exits, service
  <2>2. RecorderDone'
    BY <2>1, RecorderStays DEF Counted, LiveInv
  <2>3. \A s \in Sessions \ uncounted : run'[s] = "ended"
    BY <2>1, ServiceStepIsLive, EndedStays DEF Counted
  <2> QED
    BY <2>1, <2>2, <2>3 DEF Counted
<1> QED
  BY <1>1, <1>2 DEF Counted

(* A session whose handler had called Add(1) by the time live.Wait         *)
(* returned leaves no tuner when the process exits, no FFmpeg that was not *)
(* given up on and no buffer whose removal did not fail, and no recording  *)
(* leaves a tuner.  Of the others nothing is promised.                     *)
THEOREM ServiceExitsClean == ServiceSpec => []ExitIsClean
<1> DEFINE Inv == LiveInv /\ RecordersHold /\ Counted
<1>1. ServiceInit => Inv
  BY LiveInit DEF ServiceInit, Init, RecordersHold, Counted
<1>2. Inv /\ [ServiceNext]_service => Inv'
  BY ServiceStepIsLive, LiveStep, RecordersHoldStep, CountedStep DEF LiveInv
<1>3. Inv => ExitIsClean
  BY DEF LiveInv, TypeOK, Holds, PastStop, Survivors, RecordersHold,
         Counted, RecorderDone, ExitIsClean
<1> QED
  BY <1>1, <1>2, <1>3, PTL DEF ServiceSpec

=============================================================================
