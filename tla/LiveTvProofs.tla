---------------------------- MODULE LiveTvProofs ----------------------------
(***************************************************************************)
(* Proofs about LiveTv, for any number of sessions, recordings and tuners: *)
(* the pool is never overdrawn, done is closed only after the tuner went   *)
(* back, a successful stop means the session gave everything back, a       *)
(* session that is over leaves nothing behind that could be removed, the   *)
(* pool keeps the promise TunerPool states, and whoever waits for a        *)
(* session waits for one that has a goroutine to end it, but for one case  *)
(* (see AwaitedWillEnd).                                                   *)
(***************************************************************************)
EXTENDS LiveTv, FiniteSetTheorems, TLAPS

-----------------------------------------------------------------------------
(* The inductive invariant *)

(* What a session holds is determined by where its two goroutines are: the *)
(* handler of Start up to the registration, the run loop from there on.    *)
(* An FFmpeg that survives its kill outlives the run loop's stop.          *)
Holds(s) ==
    /\ run[s] = "none" =>
           start[s] \in {"new", "acquire", "spawn", "register", "failed"}
    /\ run[s] # "none" =>
           start[s] \in {"ready?", "ready", "stopping", "failed"}
    /\ s \in pool <=> \/ start[s] \in {"spawn", "register"}
                      \/ run[s] \in {"select", "stop", "release"}
    /\ s \in proc =>
           \/ start[s] = "register" \/ run[s] \in {"select", "stop"}
           \/ "kill" \in Faults /\ run[s] \in PastStop
    /\ s \in dirs \ leftover =>
           \/ start[s] \in {"acquire", "spawn", "register"}
           \/ run[s] \notin {"none", "ended"}
    /\ s \in done \/ stop[s] = "ok" => run[s] \in {"forget", "clean", "ended"}

PoolInv ==
    /\ IsFiniteSet(pool) /\ Cardinality(pool) <= Size
    /\ \A r \in Recordings :
        /\ rec[r] = "holding" => r \in pool
        /\ rec[r] = "preempt" => target[r] \in Sessions

LiveInv ==
    /\ TypeOK
    /\ PoolInv
    /\ \A s \in Sessions : Holds(s)

-----------------------------------------------------------------------------
(* The pool's operations *)

LEMMA SizePositive == Size \in Nat /\ Size >= 1
  BY LiveTvAssumption DEF Size

(* A key is entered only below the limit, so the limit holds afterwards.   *)
LEMMA PoolGrows ==
    ASSUME IsFiniteSet(pool), NEW key,
           Cardinality(pool) < Size, pool' = pool \cup {key}
    PROVE  IsFiniteSet(pool') /\ Cardinality(pool') <= Size
<1>1. /\ IsFiniteSet(pool \cup {key})
      /\ Cardinality(pool \cup {key}) = IF key \in pool THEN Cardinality(pool)
                                        ELSE Cardinality(pool) + 1
  BY FS_AddElement
<1>2. Cardinality(pool) \in Nat
  BY FS_CardinalityType
<1> QED
  BY <1>1, <1>2, SizePositive

LEMMA PoolShrinks ==
    ASSUME IsFiniteSet(pool), Cardinality(pool) <= Size, NEW key, Release(key)
    PROVE  IsFiniteSet(pool') /\ Cardinality(pool') <= Size
<1>1. /\ IsFiniteSet(pool \ {key})
      /\ Cardinality(pool \ {key}) = IF key \in pool THEN Cardinality(pool) - 1
                                     ELSE Cardinality(pool)
  BY FS_RemoveElement
<1>2. Cardinality(pool) \in Nat
  BY FS_CardinalityType
<1> QED
  BY <1>1, <1>2, SizePositive DEF Release

-----------------------------------------------------------------------------
(* Induction *)

LEMMA LiveInit == Init => LiveInv
<1> SUFFICES ASSUME Init PROVE LiveInv
  OBVIOUS
<1> USE LiveTvAssumption DEF Init
<1>1. TypeOK
  BY DEF TypeOK, Registered
<1>2. PoolInv
  BY FS_EmptySet, SizePositive DEF PoolInv
<1>3. \A s \in Sessions : Holds(s)
  BY DEF Holds
<1> QED
  BY <1>1, <1>2, <1>3 DEF LiveInv

(* A step that leaves the pool and the recordings' progress alone.         *)
LEMMA PoolUntouched ==
    ASSUME PoolInv, UNCHANGED <<pool, rec, target>> PROVE PoolInv'
  BY DEF PoolInv

(* The handler of Start *)
LEMMA StartKeepsInv ==
    ASSUME LiveInv, NEW s \in Sessions, StartRequest(s) \/ StartStep(s)
    PROVE  LiveInv'
<1> USE LiveTvAssumption DEF LiveInv, PastStop
<1>1. CASE StartRequest(s)
  <2>1. TypeOK'
    BY <1>1
    DEF StartRequest, At, TypeOK, Registered, sessionVars, media, files,
        recVars
  <2>2. PoolInv'
    BY <1>1, PoolUntouched DEF StartRequest, sessionVars, recVars
  <2>3. \A t \in Sessions : Holds(t)'
    BY <1>1
    DEF StartRequest, At, TypeOK, Registered, Holds, sessionVars, media, files,
        recVars
  <2> QED
    BY <2>1, <2>2, <2>3 DEF LiveInv
<1>2. CASE StartAcquire(s)
  <2>1. TypeOK'
    BY <1>2
    DEF StartAcquire, AcquireLive, Cancel, RemoveAll, At, TypeOK, Registered,
        sessionVars, media, files, recVars
  <2>2. PoolInv'
    BY <1>2, PoolGrows DEF StartAcquire, AcquireLive, Cancel, RemoveAll,
                           PoolInv, recVars
  <2>3. \A t \in Sessions : Holds(t)'
    BY <1>2
    DEF StartAcquire, AcquireLive, Cancel, RemoveAll, At, TypeOK, Registered,
        Holds, sessionVars, media, files, recVars
  <2> QED
    BY <2>1, <2>2, <2>3 DEF LiveInv
<1>3. CASE Spawn(s)
  <2>1. TypeOK'
    BY <1>3 DEF Spawn, At, TypeOK, Registered, sessionVars, media, files,
                recVars
  <2>2. PoolInv'
    BY <1>3, PoolUntouched DEF Spawn, sessionVars, recVars
  <2>3. \A t \in Sessions : Holds(t)'
    BY <1>3
    DEF Spawn, At, TypeOK, Registered, Holds, sessionVars, media, files,
        recVars
  <2> QED
    BY <2>1, <2>2, <2>3 DEF LiveInv
<1>4. CASE SpawnFails(s)
  <2>1. TypeOK'
    BY <1>4
    DEF SpawnFails, Release, Cancel, RemoveAll, At, TypeOK, Registered,
        sessionVars, media, files, recVars
  <2>2. PoolInv'
    BY <1>4, PoolShrinks DEF SpawnFails, Release, Cancel, RemoveAll, PoolInv,
                             recVars
  <2>3. \A t \in Sessions : Holds(t)'
    BY <1>4
    DEF SpawnFails, Release, Cancel, RemoveAll, At, TypeOK, Registered, Holds,
        sessionVars, media, files, recVars
  <2> QED
    BY <2>1, <2>2, <2>3 DEF LiveInv
<1>5. CASE Register(s)
  <2>1. TypeOK'
    BY <1>5 DEF Register, At, TypeOK, Registered, sessionVars, media, files,
                recVars
  <2>2. PoolInv'
    BY <1>5, PoolUntouched DEF Register, sessionVars, recVars
  <2>3. \A t \in Sessions : Holds(t)'
    BY <1>5
    DEF Register, At, TypeOK, Registered, Holds, sessionVars, media, files,
        recVars
  <2> QED
    BY <2>1, <2>2, <2>3 DEF LiveInv
<1>6. CASE Ready(s)
  <2>1. TypeOK'
    BY <1>6 DEF Ready, At, TypeOK, Registered, sessionVars, media, files,
                recVars
  <2>2. PoolInv'
    BY <1>6, PoolUntouched DEF Ready, sessionVars, recVars
  <2>3. \A t \in Sessions : Holds(t)'
    BY <1>6
    DEF Ready, At, TypeOK, Registered, Holds, sessionVars, media, files,
        recVars
  <2> QED
    BY <2>1, <2>2, <2>3 DEF LiveInv
<1>7. CASE NotReady(s)
  <2>1. TypeOK'
    BY <1>7
    DEF NotReady, Cancel, At, TypeOK, Registered, sessionVars, media, files,
        recVars
  <2>2. PoolInv'
    BY <1>7, PoolUntouched DEF NotReady, Cancel, sessionVars, recVars
  <2>3. \A t \in Sessions : Holds(t)'
    BY <1>7
    DEF NotReady, Cancel, At, TypeOK, Registered, Holds, sessionVars, media,
        files, recVars
  <2> QED
    BY <2>1, <2>2, <2>3 DEF LiveInv
<1>8. CASE NotReadyStopped(s)
  <2>1. TypeOK'
    BY <1>8
    DEF NotReadyStopped, At, TypeOK, Registered, sessionVars, media, files,
        recVars
  <2>2. PoolInv'
    BY <1>8, PoolUntouched DEF NotReadyStopped, sessionVars, recVars
  <2>3. \A t \in Sessions : Holds(t)'
    BY <1>8
    DEF NotReadyStopped, At, TypeOK, Registered, Holds, sessionVars, media,
        files, recVars
  <2> QED
    BY <2>1, <2>2, <2>3 DEF LiveInv
<1> QED
  BY <1>1, <1>2, <1>3, <1>4, <1>5, <1>6, <1>7, <1>8 DEF StartStep

(* The run loop, its FFmpeg, and the clients that stop the session *)
LEMMA RunKeepsInv ==
    ASSUME LiveInv, NEW s \in Sessions,
           \/ RunStep(s) \/ FfmpegExits(s)
           \/ StopRequest(s) \/ StopReturns(s) \/ StopAbandoned(s)
    PROVE  LiveInv'
<1> USE LiveTvAssumption DEF LiveInv, PastStop
<1>1. CASE SelectExited(s)
  <2>1. TypeOK'
    BY <1>1
    DEF SelectExited, At, TypeOK, Registered, sessionVars, media, files,
        recVars
  <2>2. PoolInv'
    BY <1>1, PoolUntouched DEF SelectExited, sessionVars, recVars
  <2>3. \A t \in Sessions : Holds(t)'
    BY <1>1
    DEF SelectExited, At, TypeOK, Registered, Holds, sessionVars, media, files,
        recVars
  <2> QED
    BY <2>1, <2>2, <2>3 DEF LiveInv
<1>2. CASE SelectCancelled(s)
  <2>1. TypeOK'
    BY <1>2
    DEF SelectCancelled, At, TypeOK, Registered, sessionVars, media, files,
        recVars
  <2>2. PoolInv'
    BY <1>2, PoolUntouched DEF SelectCancelled, sessionVars, recVars
  <2>3. \A t \in Sessions : Holds(t)'
    BY <1>2
    DEF SelectCancelled, At, TypeOK, Registered, Holds, sessionVars, media,
        files, recVars
  <2> QED
    BY <2>1, <2>2, <2>3 DEF LiveInv
<1>3. CASE SelectTimer(s)
  <2>1. TypeOK'
    BY <1>3
    DEF SelectTimer, At, TypeOK, Registered, sessionVars, media, files, recVars
  <2>2. PoolInv'
    BY <1>3, PoolUntouched DEF SelectTimer, sessionVars, recVars
  <2>3. \A t \in Sessions : Holds(t)'
    BY <1>3
    DEF SelectTimer, At, TypeOK, Registered, Holds, sessionVars, media, files,
        recVars
  <2> QED
    BY <2>1, <2>2, <2>3 DEF LiveInv
<1>4. CASE StopProcess(s)
  <2>1. TypeOK'
    BY <1>4
    DEF StopProcess, At, TypeOK, Registered, sessionVars, media, files, recVars
  <2>2. PoolInv'
    BY <1>4, PoolUntouched DEF StopProcess, sessionVars, recVars
  <2>3. \A t \in Sessions : Holds(t)'
    BY <1>4
    DEF StopProcess, At, TypeOK, Registered, Holds, sessionVars, media, files,
        recVars
  <2> QED
    BY <2>1, <2>2, <2>3 DEF LiveInv
<1>5. CASE RunRelease(s)
  <2>1. TypeOK'
    BY <1>5
    DEF RunRelease, Release, At, TypeOK, Registered, sessionVars, media, files,
        recVars
  <2>2. PoolInv'
    BY <1>5, PoolShrinks DEF RunRelease, Release, PoolInv, recVars
  <2>3. \A t \in Sessions : Holds(t)'
    BY <1>5
    DEF RunRelease, Release, At, TypeOK, Registered, Holds, sessionVars,
        media, files, recVars
  <2> QED
    BY <2>1, <2>2, <2>3 DEF LiveInv
<1>6. CASE CloseDone(s)
  <2>1. TypeOK'
    BY <1>6 DEF CloseDone, At, TypeOK, Registered, sessionVars, media, files,
                recVars
  <2>2. PoolInv'
    BY <1>6, PoolUntouched DEF CloseDone, sessionVars, recVars
  <2>3. \A t \in Sessions : Holds(t)'
    BY <1>6
    DEF CloseDone, At, TypeOK, Registered, Holds, sessionVars, media, files,
        recVars
  <2> QED
    BY <2>1, <2>2, <2>3 DEF LiveInv
<1>7. CASE Forget(s)
  <2>1. TypeOK'
    BY <1>7 DEF Forget, At, TypeOK, Registered, sessionVars, media, files,
                recVars
  <2>2. PoolInv'
    BY <1>7, PoolUntouched DEF Forget, sessionVars, recVars
  <2>3. \A t \in Sessions : Holds(t)'
    BY <1>7
    DEF Forget, At, TypeOK, Registered, Holds, sessionVars, media, files,
        recVars
  <2> QED
    BY <2>1, <2>2, <2>3 DEF LiveInv
<1>8. CASE RemoveBuffer(s)
  <2>1. TypeOK'
    BY <1>8
    DEF RemoveBuffer, RemoveAll, At, TypeOK, Registered, sessionVars, media,
        files, recVars
  <2>2. PoolInv'
    BY <1>8, PoolUntouched DEF RemoveBuffer, sessionVars, recVars
  <2>3. \A t \in Sessions : Holds(t)'
    BY <1>8
    DEF RemoveBuffer, RemoveAll, At, TypeOK, Registered, Holds, sessionVars,
        media, files, recVars
  <2> QED
    BY <2>1, <2>2, <2>3 DEF LiveInv
<1>9. CASE FfmpegExits(s)
  <2>1. TypeOK'
    BY <1>9
    DEF FfmpegExits, At, TypeOK, Registered, sessionVars, media, files, recVars
  <2>2. PoolInv'
    BY <1>9, PoolUntouched DEF FfmpegExits, sessionVars, recVars
  <2>3. \A t \in Sessions : Holds(t)'
    BY <1>9
    DEF FfmpegExits, At, TypeOK, Registered, Holds, sessionVars, media, files,
        recVars
  <2> QED
    BY <2>1, <2>2, <2>3 DEF LiveInv
<1>10. CASE StopRequest(s)
  <2>1. TypeOK'
    BY <1>10
    DEF StopRequest, Cancel, At, TypeOK, Registered, sessionVars, media, files,
        recVars
  <2>2. PoolInv'
    BY <1>10, PoolUntouched DEF StopRequest, Cancel, sessionVars, recVars
  <2>3. \A t \in Sessions : Holds(t)'
    BY <1>10
    DEF StopRequest, Cancel, At, TypeOK, Registered, Holds, sessionVars,
        media, files, recVars
  <2> QED
    BY <2>1, <2>2, <2>3 DEF LiveInv
<1>11. CASE StopReturns(s)
  <2>1. TypeOK'
    BY <1>11
    DEF StopReturns, At, TypeOK, Registered, sessionVars, media, files, recVars
  <2>2. PoolInv'
    BY <1>11, PoolUntouched DEF StopReturns, sessionVars, recVars
  <2>3. \A t \in Sessions : Holds(t)'
    BY <1>11
    DEF StopReturns, At, TypeOK, Registered, Holds, sessionVars, media, files,
        recVars
  <2> QED
    BY <2>1, <2>2, <2>3 DEF LiveInv
<1>12. CASE StopAbandoned(s)
  <2>1. TypeOK'
    BY <1>12
    DEF StopAbandoned, At, TypeOK, Registered, sessionVars, media, files,
        recVars
  <2>2. PoolInv'
    BY <1>12, PoolUntouched DEF StopAbandoned, sessionVars, recVars
  <2>3. \A t \in Sessions : Holds(t)'
    BY <1>12
    DEF StopAbandoned, At, TypeOK, Registered, Holds, sessionVars, media,
        files, recVars
  <2> QED
    BY <2>1, <2>2, <2>3 DEF LiveInv
<1> QED
  BY <1>1, <1>2, <1>3, <1>4, <1>5, <1>6, <1>7, <1>8, <1>9, <1>10, <1>11, <1>12
    DEF RunStep

(* Sessions that keep all that Holds speaks of keep Holds.                 *)
LEMMA HoldsUntouched ==
    ASSUME \A s \in Sessions : Holds(s),
           UNCHANGED <<start, run, files, proc, done, stop>>,
           \A s \in Sessions : s \in pool' <=> s \in pool
    PROVE  \A s \in Sessions : Holds(s)'
  BY DEF Holds, files

(* Recordings.  A reservation is never taken from a session: preemption    *)
(* only cancels it, and the run loop gives the tuner back.                 *)
LEMMA RecordingKeepsInv ==
    ASSUME LiveInv, NEW r \in Recordings,
           \/ RecordingDue(r) \/ RecordingStep(r)
           \/ RecordingOver(r) \/ RecordingDeleted(r)
    PROVE  LiveInv'
<1> USE LiveTvAssumption DEF LiveInv, PastStop
<1>1. CASE RecordingTurn(r)
  <2>1. TypeOK'
    BY <1>1 DEF RecordingTurn, At, TypeOK, Registered, sessionVars, media,
                files
  <2>2. PoolInv'
    <3>1. CASE /\ Cardinality(pool) < Size /\ pool' = pool \cup {r}
               /\ UNCHANGED target
               /\ rec' = [rec EXCEPT ![r] = "holding"]
      <4>1. IsFiniteSet(pool') /\ Cardinality(pool') <= Size
        BY <3>1, PoolGrows DEF PoolInv
      <4> QED
        BY <3>1, <4>1 DEF PoolInv, TypeOK
    <3>2. CASE /\ UNCHANGED pool /\ rec'[r] # "holding"
               /\ rec'[r] = "preempt" => target'[r] \in Sessions
      BY <1>1, <3>2 DEF RecordingTurn, At, PoolInv, TypeOK
    <3> QED
      BY <1>1, <3>1, <3>2 DEF RecordingTurn, At, TypeOK
  <2>3. \A s \in Sessions : Holds(s)'
    BY <1>1, HoldsUntouched DEF RecordingTurn, sessionVars, media, files
  <2> QED
    BY <2>1, <2>2, <2>3
<1>2. CASE \/ Preempt(r) \/ PreemptedDone(r) \/ RecordingGivesUp(r)
           \/ RecordingDue(r) \/ RecordingDeleted(r)
  <2> USE <1>2 DEF Preempt, PreemptedDone, RecordingGivesUp, RecordingDue,
                   RecordingDeleted, At, Cancel
  <2>1. TypeOK'
    BY DEF PoolInv, TypeOK, Registered, sessionVars, media, files
  <2>2. PoolInv'
    BY DEF PoolInv, TypeOK
  <2>3. \A s \in Sessions : Holds(s)'
    BY HoldsUntouched DEF sessionVars, media, files
  <2> QED
    BY <2>1, <2>2, <2>3
<1>3. CASE RecordingOver(r)
  <2> USE <1>3 DEF RecordingOver
  <2>1. TypeOK'
    BY DEF At, Release, TypeOK, Registered, sessionVars, media, files
  <2>2. PoolInv'
    <3>1. IsFiniteSet(pool') /\ Cardinality(pool') <= Size
      BY PoolShrinks DEF PoolInv
    <3> QED
      BY <3>1 DEF At, Release, TypeOK, PoolInv
  <2>3. \A s \in Sessions : Holds(s)'
    BY HoldsUntouched DEF Release, sessionVars, media, files
  <2> QED
    BY <2>1, <2>2, <2>3
<1> QED
  BY <1>1, <1>2, <1>3 DEF RecordingStep

LEMMA LiveStep == LiveInv /\ [Next]_vars => LiveInv'
<1> SUFFICES ASSUME LiveInv, [Next]_vars PROVE LiveInv'
  OBVIOUS
<1>1. CASE Shutdown
  <2>1. TypeOK'
    BY <1>1 DEF Shutdown, LiveInv, TypeOK, Registered, sessionVars, media,
                files
  <2>2. PoolInv'
    BY <1>1, PoolUntouched DEF Shutdown, LiveInv
  <2>3. \A s \in Sessions : Holds(s)'
    BY <1>1, HoldsUntouched DEF Shutdown, LiveInv, sessionVars, media, files
  <2> QED
    BY <2>1, <2>2, <2>3 DEF LiveInv
<1>2. CASE UNCHANGED vars
  <2> USE <1>2 DEF vars, sessionVars, media, files, recVars
  <2>1. TypeOK'
    BY DEF LiveInv, TypeOK, Registered
  <2>2. PoolInv'
    BY PoolUntouched DEF LiveInv
  <2>3. \A s \in Sessions : Holds(s)'
    BY HoldsUntouched DEF LiveInv
  <2> QED
    BY <2>1, <2>2, <2>3 DEF LiveInv
<1> QED
  BY <1>1, <1>2, StartKeepsInv, RunKeepsInv, RecordingKeepsInv DEF Next

(* Every reachable state satisfies the inductive invariant.                *)
THEOREM LiveInvariant == Spec => []LiveInv
  BY LiveInit, LiveStep, PTL DEF Spec

-----------------------------------------------------------------------------
(* What follows *)

(* The type invariant: goroutines, channels and the manager's map agree on *)
(* which sessions are registered.                                          *)
THEOREM LiveTypeCorrect == Spec => []TypeOK
<1>1. LiveInv => TypeOK
  BY DEF LiveInv
<1> QED
  BY <1>1, LiveInvariant, PTL

(* Neither preemption nor a failing start ever lets more FFmpegs and       *)
(* recordings run than there are tuners; what the kernel does not kill     *)
(* runs beside them, and costs nobody a tuner of the pool.                 *)
THEOREM LiveTunersNotOverdrawn == Spec => []TunersNotOverdrawn
<1>1. LiveInv => TunersNotOverdrawn
  BY DEF LiveInv, PoolInv, Holds, TypeOK, Survivors, PastStop,
         TunersNotOverdrawn
<1> QED
  BY <1>1, LiveInvariant, PTL

(* A closed done means the tuner is back, even for an FFmpeg that survives *)
(* its kill.                                                               *)
THEOREM LiveDoneMeansReleased == Spec => []DoneMeansReleased
<1>1. LiveInv => DoneMeansReleased
  BY DEF LiveInv, Holds, TypeOK, DoneMeansReleased
<1> QED
  BY <1>1, LiveInvariant, PTL

(* A successful stop means no tuner is held and no FFmpeg runs that was    *)
(* not given up on.                                                        *)
THEOREM LiveStoppedMeansReleased == Spec => []StoppedMeansReleased
<1>1. LiveInv => StoppedMeansReleased
  BY DEF LiveInv, Holds, TypeOK, Survivors, PastStop,
         StoppedMeansReleased
<1> QED
  BY <1>1, LiveInvariant, PTL

(* A session that failed to start or has ended leaves no tuner and no job  *)
(* behind, no FFmpeg that was not given up on and no directory whose       *)
(* removal did not fail.                                                   *)
THEOREM LiveEndedLeavesNothing == Spec => []EndedLeavesNothing
<1>1. LiveInv => EndedLeavesNothing
  BY DEF LiveInv, Holds, TypeOK, Registered, Over, Unstarted, Survivors,
         PastStop, EndedLeavesNothing
<1> QED
  BY <1>1, LiveInvariant, PTL

-----------------------------------------------------------------------------
(* The promise of the pool *)

(* Only a recording that holds a tuner has its key in the pool. *)
RecordersHold == \A r \in Recordings : r \in pool => rec[r] = "holding"

LEMMA RecordersHoldStep ==
    ASSUME TypeOK, RecordersHold, [Next]_vars PROVE RecordersHold'
<1> USE LiveTvAssumption DEF RecordersHold, TypeOK
<1>1. CASE Shutdown
  BY <1>1 DEF Shutdown
<1>2. ASSUME NEW s \in Sessions, StartRequest(s) \/ StartStep(s)
      PROVE  RecordersHold'
  <2>1. UNCHANGED rec /\ pool' \subseteq pool \cup {s}
    BY <1>2
    DEF StartRequest, StartStep, StartAcquire, AcquireLive, Spawn, SpawnFails,
        Release, Register, Ready, NotReady, NotReadyStopped, recVars
  <2> QED
    BY <2>1
<1>3. ASSUME NEW s \in Sessions,
             \/ RunStep(s) \/ FfmpegExits(s)
             \/ StopRequest(s) \/ StopReturns(s) \/ StopAbandoned(s)
      PROVE  RecordersHold'
  <2>1. UNCHANGED rec /\ pool' \subseteq pool
    BY <1>3
    DEF RunStep, SelectExited, SelectCancelled, SelectTimer, StopProcess,
        RunRelease, Release, CloseDone, Forget, RemoveBuffer, FfmpegExits,
        StopRequest, StopReturns, StopAbandoned, recVars
  <2> QED
    BY <2>1
<1>4. ASSUME NEW r \in Recordings, RecordingDue(r) PROVE RecordersHold'
  BY <1>4 DEF RecordingDue, At
<1>5. ASSUME NEW r \in Recordings, RecordingStep(r) PROVE RecordersHold'
  BY <1>5
  DEF RecordingStep, RecordingTurn, Preempt, PreemptedDone, RecordingGivesUp,
      At
<1>6. ASSUME NEW r \in Recordings, RecordingOver(r) \/ RecordingDeleted(r)
      PROVE  RecordersHold'
  BY <1>6 DEF RecordingOver, Release, RecordingDeleted, At
<1>7. CASE UNCHANGED vars
  BY <1>7 DEF vars, recVars
<1> QED
  BY <1>1, <1>2, <1>3, <1>4, <1>5, <1>6, <1>7 DEF Next

(* A recording has a target exactly while it preempts and waits.           *)
Targeted ==
    \A r \in Recordings :
        target[r] # NoSession <=> rec[r] \in {"preempt", "wait"}

LEMMA TargetedStep ==
    ASSUME TypeOK, Targeted, [Next]_vars PROVE Targeted'
<1> USE LiveTvAssumption DEF Targeted, TypeOK
<1>1. ASSUME NEW r \in Recordings, RecordingStep(r) PROVE Targeted'
  BY <1>1
  DEF RecordingStep, RecordingTurn, Preempt, PreemptedDone, RecordingGivesUp,
      At
<1>2. ASSUME NEW r \in Recordings,
             RecordingDue(r) \/ RecordingOver(r) \/ RecordingDeleted(r)
      PROVE  Targeted'
  BY <1>2 DEF RecordingDue, RecordingOver, RecordingDeleted, At
<1>3. ASSUME UNCHANGED <<rec, target>> PROVE Targeted'
  BY <1>3
<1>4. ASSUME NEW s \in Sessions, StartRequest(s) \/ StartStep(s)
      PROVE  UNCHANGED <<rec, target>>
  BY <1>4
  DEF StartRequest, StartStep, StartAcquire, Spawn, SpawnFails, Register,
      Ready, NotReady, NotReadyStopped, recVars
<1>5. ASSUME NEW s \in Sessions,
             \/ RunStep(s) \/ FfmpegExits(s)
             \/ StopRequest(s) \/ StopReturns(s) \/ StopAbandoned(s)
      PROVE  UNCHANGED <<rec, target>>
  BY <1>5
  DEF RunStep, SelectExited, SelectCancelled, SelectTimer, StopProcess,
      RunRelease, CloseDone, Forget, RemoveBuffer, FfmpegExits, StopRequest,
      StopReturns, StopAbandoned, recVars
<1>6. Shutdown \/ UNCHANGED vars => UNCHANGED <<rec, target>>
  BY DEF Shutdown, vars, recVars
<1> QED
  BY <1>1, <1>2, <1>3, <1>4, <1>5, <1>6 DEF Next

(* TunerPool counts as FiniteSets does. *)
LEMMA PoolCounts == ASSUME NEW S PROVE Pool!Cardinality(S) = Cardinality(S)
  BY DEF Pool!Cardinality, Cardinality

(* The keys of the pool are those of recordings and those of sessions.     *)
LEMMA PoolSplits ==
    ASSUME TypeOK, PoolInv
    PROVE  /\ Pool!Full <=> Cardinality(pool) >= Size
           /\ ~Pool!Full <=> Cardinality(pool) < Size
<1> DEFINE R == pool \cap Recordings
           S == pool \cap Sessions
<1>1. pool = R \cup S /\ R \cap S = {}
  BY LiveTvAssumption DEF TypeOK
<1>2. IsFiniteSet(R) /\ IsFiniteSet(S)
  BY FS_Subset DEF PoolInv
<1>3. Cardinality(R \cup S) =
          Cardinality(R) + Cardinality(S) - Cardinality(R \cap S)
  BY <1>2, FS_Union
<1>4. Cardinality(R \cap S) = 0
  BY <1>1, FS_EmptySet
<1>5. Cardinality(R) \in Nat /\ Cardinality(S) \in Nat
  BY <1>2, FS_CardinalityType
<1>6. Cardinality(R) + Cardinality(S) = Cardinality(pool)
  <2> HIDE DEF R, S
  <2> QED
    BY <1>1, <1>3, <1>4, <1>5
<1> QED
  BY <1>5, <1>6, PoolCounts, SizePositive DEF Pool!InUse, Pool!Full

(* The pool does not see what leaves these variables alone.                *)
LEMMA PoolUnseen ==
    ASSUME UNCHANGED <<pool, rec, target, done, recDone>>
    PROVE  UNCHANGED Pool!vars
  BY DEF Pool!vars, Pool!holders

LEMMA SessionImplementsPool ==
    ASSUME LiveInv, NEW s \in Sessions,
           \/ StartRequest(s) \/ StartStep(s) \/ RunStep(s) \/ FfmpegExits(s)
           \/ StopRequest(s) \/ StopReturns(s) \/ StopAbandoned(s)
    PROVE  \/ Pool!View(s) \/ Pool!EndView(s) \/ Pool!Tell(s)
           \/ UNCHANGED Pool!vars
<1> USE DEF LiveInv
<1>0. s \notin Recordings /\ Holds(s)
  BY LiveTvAssumption
<1>1. CASE StartAcquire(s)
  <2>1. CASE start[s] = "acquire" /\ AcquireLive(s)
    <3>1. s \notin pool \cup done
      BY <1>0, <2>1 DEF Holds
    <3> QED
      BY <1>0, <1>1, <2>1, <3>1, PoolSplits
      DEF StartAcquire, AcquireLive, recVars, Pool!View, Pool!holders
  <2>2. CASE UNCHANGED pool
    BY <1>1, <2>2, PoolUnseen DEF StartAcquire, recVars
  <2> QED
    BY <1>1, <2>1, <2>2 DEF StartAcquire, At
<1>2. CASE SpawnFails(s) \/ RunRelease(s)
  <2>1. s \in pool
    BY <1>0, <1>2 DEF Holds, SpawnFails, RunRelease, At
  <2> QED
    BY <1>0, <1>2, <2>1
    DEF SpawnFails, RunRelease, Release, recVars, Pool!EndView
<1>3. CASE CloseDone(s)
  <2>1. s \notin pool
    BY <1>0, <1>3 DEF Holds, CloseDone, At, TypeOK
  <2> QED
    BY <1>3, <2>1 DEF CloseDone, recVars, Pool!Tell, Pool!holders
<1>4. CASE \/ StartRequest(s) \/ Spawn(s) \/ Register(s) \/ Ready(s)
           \/ NotReady(s) \/ NotReadyStopped(s)
  BY <1>4, PoolUnseen
  DEF StartRequest, Spawn, Register, Ready, NotReady, NotReadyStopped, recVars
<1>5. CASE \/ SelectExited(s) \/ SelectCancelled(s) \/ SelectTimer(s)
           \/ StopProcess(s) \/ Forget(s) \/ RemoveBuffer(s)
           \/ FfmpegExits(s)
           \/ StopRequest(s) \/ StopReturns(s) \/ StopAbandoned(s)
  BY <1>5, PoolUnseen
  DEF SelectExited, SelectCancelled, SelectTimer, StopProcess, Forget,
      RemoveBuffer, FfmpegExits, StopRequest, StopReturns, StopAbandoned,
      recVars
<1> QED
  BY <1>1, <1>2, <1>3, <1>4, <1>5 DEF StartStep, RunStep

LEMMA RecordingImplementsPool ==
    ASSUME LiveInv, RecordersHold, Targeted, NEW r \in Recordings,
           \/ RecordingDue(r) \/ RecordingStep(r)
           \/ RecordingOver(r) \/ RecordingDeleted(r)
    PROVE  \/ Pool!Ask(r) \/ Pool!Take(r) \/ Pool!Preempt(r)
           \/ Pool!TurnAway(r) \/ Pool!Retry(r) \/ Pool!GiveUp(r)
           \/ Pool!GiveBack(r) \/ Pool!CancelSome
           \/ UNCHANGED Pool!vars
<1> USE LiveTvAssumption DEF LiveInv, TypeOK, At, Pool!holders, Pool!Waits
<1>1. CASE RecordingDue(r)
  <2>1. Pool!Ask(r)
    BY <1>1 DEF RecordingDue, RecordersHold, Targeted, Pool!Ask
  <2> QED
    BY <2>1
<1>2. CASE RecordingTurn(r)
  <2>1. CASE Cardinality(pool) < Size /\ pool' = pool \cup {r}
    <3>1. Pool!Take(r)
      BY <1>2, <2>1, PoolSplits, SizePositive DEF RecordingTurn, Pool!Take
    <3> QED
      BY <3>1
  <2>2. CASE rec'[r] = "preempt"
    <3>1. Pool!Preempt(r)
      BY <1>2, <2>2, PoolSplits DEF RecordingTurn, Pool!Preempt
    <3> QED
      BY <3>1
  <2>3. CASE rec'[r] = "refused"
    <3>1. Pool!TurnAway(r)
      BY <1>2, <2>3, PoolSplits DEF RecordingTurn, Pool!TurnAway
    <3> QED
      BY <3>1
  <2> QED
    BY <1>2, <2>1, <2>2, <2>3 DEF RecordingTurn
<1>3. CASE Preempt(r)
  BY <1>3 DEF Preempt, Pool!vars
<1>4. CASE PreemptedDone(r)
  <2>1. Pool!Retry(r)
    BY <1>4 DEF PreemptedDone, Pool!Retry
  <2> QED
    BY <2>1
<1>5. CASE RecordingGivesUp(r)
  <2>1. Pool!GiveUp(r)
    BY <1>5 DEF RecordingGivesUp, Targeted, Pool!GiveUp
  <2> QED
    BY <2>1
<1>6. CASE RecordingOver(r)
  <2>1. Pool!GiveBack(r)
    BY <1>6 DEF RecordingOver, Release, PoolInv, Pool!GiveBack
  <2> QED
    BY <2>1
<1>7. CASE RecordingDeleted(r)
  <2>1. Pool!CancelSome
    BY <1>7 DEF RecordingDeleted, Pool!CancelSome
  <2> QED
    BY <2>1
<1> QED
  BY <1>1, <1>2, <1>3, <1>4, <1>5, <1>6, <1>7 DEF RecordingStep

(* The live manager, the pool and the captures that preempt its sessions   *)
(* do together what the pool promises, failing starts included.            *)
THEOREM LiveTvImplementsPool == Spec => ImplementsPool
<1> DEFINE Inv == LiveInv /\ RecordersHold /\ Targeted
<1>1. Spec => []Inv
  <2>1. Init => RecordersHold /\ Targeted
    BY DEF Init, RecordersHold, Targeted
  <2>2. Inv /\ [Next]_vars => Inv'
    BY LiveStep, RecordersHoldStep, TargetedStep DEF LiveInv
  <2> QED
    BY <2>1, <2>2, LiveInit, PTL DEF Spec
<1>2. Init => Pool!Init
  BY DEF Init, Pool!Init
<1>3. Inv /\ [Next]_vars => [Pool!Next]_(Pool!vars)
  <2> SUFFICES ASSUME Inv, [Next]_vars PROVE Pool!Next \/ UNCHANGED Pool!vars
    OBVIOUS
  <2>1. ASSUME NEW s \in Sessions,
               \/ StartRequest(s) \/ StartStep(s) \/ RunStep(s)
               \/ FfmpegExits(s)
               \/ StopRequest(s) \/ StopReturns(s) \/ StopAbandoned(s)
        PROVE  Pool!Next \/ UNCHANGED Pool!vars
    BY <2>1, SessionImplementsPool, Zenon DEF Pool!Next
  <2>2. ASSUME NEW r \in Recordings,
               \/ RecordingDue(r) \/ RecordingStep(r)
               \/ RecordingOver(r) \/ RecordingDeleted(r)
        PROVE  Pool!Next \/ UNCHANGED Pool!vars
    BY <2>2, RecordingImplementsPool, Zenon DEF Pool!Next
  <2>3. CASE Shutdown
    <3>1. Pool!CancelSome
      BY <2>3
      DEF Shutdown, LiveInv, TypeOK, Pool!CancelSome, Pool!holders
    <3> QED
      BY <3>1 DEF Pool!Next
  <2>4. CASE UNCHANGED vars
    BY <2>4, PoolUnseen DEF vars, recVars
  <2> QED
    BY <2>1, <2>2, <2>3, <2>4 DEF Next
<1> QED
  BY <1>1, <1>2, <1>3, PTL DEF Spec, ImplementsPool, Pool!Spec

-----------------------------------------------------------------------------
(* Who waits *)

(* done is closed by the time the manager forgets a session; a DELETE      *)
(* waits for a registered session it has cancelled; and a recording picks  *)
(* a session whose handler has passed AcquireLive, and cancels it.         *)
Awaited(s) ==
    /\ run[s] \in {"forget", "clean", "ended"} => s \in done
    /\ stop[s] = "wait" => s \in cancelled /\ run[s] # "none"

Picked(r) ==
    /\ rec[r] \in {"preempt", "wait"} =>
           /\ target[r] \in Sessions
           /\ start[target[r]] \notin {"new", "acquire"}
    /\ rec[r] = "wait" => target[r] \in cancelled

WaitInv ==
    /\ \A s \in Sessions : Awaited(s)
    /\ \A r \in Recordings : Picked(r)

LEMMA StartKeepsWaits ==
    ASSUME LiveInv, WaitInv, NEW s \in Sessions, StartRequest(s) \/ StartStep(s)
    PROVE  WaitInv'
<1> USE DEF LiveInv, TypeOK, At, Cancel, recVars
<1>1. UNCHANGED <<rec, target, stop, done>> /\ cancelled \subseteq cancelled'
  BY DEF StartRequest, StartStep, StartAcquire, Spawn, SpawnFails, Register,
         Ready, NotReady, NotReadyStopped
<1>2. ASSUME NEW t \in Sessions
      PROVE  /\ start'[t] \in {"new", "acquire"} =>
                    start[t] \in {"new", "acquire"}
             /\ run'[t] # run[t] => run[t] = "none" /\ run'[t] = "select"
  <2>1. CASE StartRequest(s) \/ StartAcquire(s)
    BY <2>1 DEF StartRequest, StartAcquire
  <2>2. CASE \/ Spawn(s) \/ SpawnFails(s) \/ Ready(s) \/ NotReady(s)
             \/ NotReadyStopped(s)
    BY <2>2 DEF Spawn, SpawnFails, Ready, NotReady, NotReadyStopped
  <2>3. CASE Register(s)
    <3>1. run[s] = "none"
      BY <2>3 DEF Register, Holds
    <3> QED
      BY <2>3, <3>1 DEF Register
  <2> QED
    BY <2>1, <2>2, <2>3 DEF StartStep
<1>3. \A t \in Sessions : Awaited(t)'
  BY <1>1, <1>2 DEF WaitInv, Awaited
<1>4. \A r \in Recordings : Picked(r)'
  BY <1>1, <1>2 DEF WaitInv, Picked
<1> QED
  BY <1>3, <1>4 DEF WaitInv

LEMMA RunKeepsWaits ==
    ASSUME LiveInv, WaitInv, NEW s \in Sessions,
           \/ RunStep(s) \/ FfmpegExits(s)
           \/ StopRequest(s) \/ StopReturns(s) \/ StopAbandoned(s)
    PROVE  WaitInv'
<1> USE DEF LiveInv, TypeOK, At, Cancel, recVars, sessionVars, WaitInv
<1>1. /\ UNCHANGED <<rec, target, start>>
      /\ cancelled \subseteq cancelled' /\ done \subseteq done'
  BY DEF RunStep, SelectExited, SelectCancelled, SelectTimer, StopProcess,
         RunRelease, CloseDone, Forget, RemoveBuffer, FfmpegExits,
         StopRequest, StopReturns, StopAbandoned
<1>2. \A r \in Recordings : Picked(r)'
  BY <1>1 DEF Picked
<1>3. ASSUME NEW t \in Sessions PROVE Awaited(t)'
  <2>1. CASE RunStep(s)
    BY <2>1
    DEF RunStep, SelectExited, SelectCancelled, SelectTimer, StopProcess,
        RunRelease, CloseDone, Forget, RemoveBuffer, Awaited
  <2>2. CASE FfmpegExits(s) \/ StopReturns(s) \/ StopAbandoned(s)
    BY <2>2 DEF FfmpegExits, StopReturns, StopAbandoned, Awaited
  <2>3. CASE StopRequest(s)
    <3>1. s \in jobs => run[s] # "none"
      BY DEF Registered
    <3> QED
      BY <2>3, <3>1 DEF StopRequest, Awaited
  <2> QED
    BY <2>1, <2>2, <2>3
<1> QED
  BY <1>2, <1>3

LEMMA RecordingKeepsWaits ==
    ASSUME LiveInv, WaitInv, NEW r \in Recordings,
           \/ RecordingDue(r) \/ RecordingStep(r)
           \/ RecordingOver(r) \/ RecordingDeleted(r)
    PROVE  WaitInv'
<1> USE DEF LiveInv, TypeOK, At, Cancel, sessionVars, WaitInv
<1>1. /\ UNCHANGED <<start, run, done, stop>>
      /\ cancelled \subseteq cancelled'
  BY DEF RecordingDue, RecordingStep, RecordingTurn, Preempt, PreemptedDone,
         RecordingGivesUp, RecordingOver, RecordingDeleted
<1>2. \A t \in Sessions : Awaited(t)'
  BY <1>1 DEF Awaited
<1>3. ASSUME NEW q \in Recordings PROVE Picked(q)'
  <2>1. CASE RecordingTurn(r)
    <3>1. \A s \in pool \cap Sessions : start[s] \notin {"new", "acquire"}
      BY DEF Holds
    <3> QED
      BY <1>1, <2>1, <3>1 DEF RecordingTurn, Picked
  <2>2. CASE Preempt(r)
    BY <2>2 DEF Preempt, Picked
  <2>3. CASE \/ PreemptedDone(r) \/ RecordingGivesUp(r) \/ RecordingDue(r)
             \/ RecordingOver(r) \/ RecordingDeleted(r)
    BY <2>3
    DEF PreemptedDone, RecordingGivesUp, RecordingDue, RecordingOver,
        RecordingDeleted, Picked
  <2> QED
    BY <2>1, <2>2, <2>3 DEF RecordingStep
<1> QED
  BY <1>2, <1>3

LEMMA WaitStep == LiveInv /\ WaitInv /\ [Next]_vars => WaitInv'
<1> SUFFICES ASSUME LiveInv, WaitInv, [Next]_vars PROVE WaitInv'
  OBVIOUS
<1>1. CASE Shutdown
  BY <1>1
  DEF Shutdown, sessionVars, WaitInv, Awaited, Picked
<1>2. CASE UNCHANGED vars
  BY <1>2 DEF vars, sessionVars, recVars, WaitInv, Awaited, Picked
<1> QED
  BY <1>1, <1>2, StartKeepsWaits, RunKeepsWaits, RecordingKeepsWaits DEF Next

(* Whoever waits for a session's done, a DELETE or a recording, waits for  *)
(* one that has closed it or for one that is cancelled and has a goroutine *)
(* left to close it.  It does not hold of a recording that preempted a     *)
(* session whose FFmpeg then could not be started: nobody will close that  *)
(* done, and the formula excepts exactly this (Unstarted).                 *)
THEOREM LiveAwaitedWillEnd == Spec => []AwaitedWillEnd
<1>1. Init => WaitInv
  BY DEF Init, WaitInv, Awaited, Picked
<1>2. LiveInv /\ WaitInv => AwaitedWillEnd
  BY DEF LiveInv, TypeOK, Holds, WaitInv, Awaited, Picked, Ending, Unstarted,
         AwaitedWillEnd
<1> QED
  BY <1>1, <1>2, LiveInvariant, WaitStep, PTL DEF Spec

=============================================================================
