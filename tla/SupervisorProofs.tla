-------------------------- MODULE SupervisorProofs --------------------------
(***************************************************************************)
(* Proofs about Supervisor, for any number of jobs, tuners, live sessions  *)
(* and restarts, and any assignment of folders: the type invariant, that   *)
(* tuners are not overdrawn, that a deleted job leaves nothing behind,     *)
(* that a completed job is playable, and that the whole service, not only  *)
(* its table, keeps jobs on the life cycle.  Then what its steps never do: *)
(* lose the media of an active recording, or refuse a tuner to a recording *)
(* when none overran.  Last, that a row that says recording has an owner,  *)
(* that nobody waits for somebody who was not told, and that the captures  *)
(* and the live sessions beside them implement TunerPool.                  *)
(***************************************************************************)
EXTENDS Supervisor, RecordingStoreProofs

-----------------------------------------------------------------------------
(* The inductive invariant *)

Running == {"persist", "reap", "watch", "stopAtEnd", "stopOnCancel"}
Using == Running \cup {"prepare"}
Ending == {"complete", "finish", "requeue", "release"}

(* A row that exists names an airing, and goroutines, processes, recovery  *)
(* and DELETE handlers exist for such rows only.  A DELETE that has        *)
(* cancelled its row holds a settled one, and past the wait there is no    *)
(* goroutine any more.                                                     *)
Owned(j) ==
    /\ rows[j].status # "new" => rows[j].program \in Programs
    /\ capture[j] # "idle" => svc = "up" /\ rows[j].status # "new"
    /\ proc[j] => rows[j].status # "new"
    /\ pending[j] # "none" => svc = "recover" /\ rows[j].status # "new"
    /\ del[j] # "idle" => rows[j].status \in Settled
    /\ del[j] \in {"remove", "drop"} \/ rows[j].status = "deleted" =>
           capture[j] = "idle"
    /\ rows[j].status = "completed" =>
           capture[j] \in {"idle", "finish", "release", "deregister"}
    /\ capture[j] = "finish" <=> verdict[j] # NoVerdict

(* A job waits again while its goroutine is still there only on the way to *)
(* a shutdown, when nothing is claimed any more.                           *)
Requeued(j) ==
    /\ cause[j] = "shutdown" => stopping
    /\ capture[j] = "requeue" => cause[j] = "shutdown"
    /\ capture[j] = "stopOnCancel" => cause[j] # "none"
    /\ capture[j] # "idle" /\ rows[j].status = "scheduled" => stopping

(* A capture holds its tuner while its FFmpeg may run.                     *)
Tuned(j) ==
    /\ capture[j] \in Using => j \in pool
    /\ j \in pool => capture[j] \in Using \cup Ending
    /\ proc[j] /\ j \notin survivors => capture[j] \in Running

(* What is known of the files of a job that shares its folder with none.   *)
Erased(j) ==
    del[j] = "drop" \/ rows[j].status = "deleted" =>
        disk[Folder(j)] = "absent" \/ Shares(j)

Finished(j) ==
    \/ rows[j].status = "completed"
    \/ verdict[j] = Completed
    \/ pending[j] = "completed"

Kept(j) ==
    Finished(j) =>
        \/ disk[Folder(j)] = "ended"
        \/ j \in erased \cup survivors \/ Shares(j)

PoolInv == IsFiniteSet(Held) /\ InUse <= Capacity

SupInv ==
    /\ TypeOK
    /\ PoolInv
    /\ \A j \in Jobs :
           Owned(j) /\ Requeued(j) /\ Tuned(j) /\ Erased(j) /\ Kept(j)

-----------------------------------------------------------------------------
(* What the service does to the table *)

Paused(j) == capture[j] = "requeue" \/ pending[j] = "requeue"

(* Every operation of the store but the removal of a row; completion and   *)
(* requeue only as decided before by the goroutine or by recovery.         *)
StoreWrites ==
    \/ UNCHANGED storeVars \/ ClaimNothing \/ Tick
    \/ \E p \in Programs, pre, post \in Paddings : Schedule(p, pre, post)
    \/ \E j \in Jobs :
        \/ ClaimDueRecording(j) \/ SetRecordingProcess(j)
        \/ Finished(j) /\ FinishRecording(j, "completed", "none")
        \/ \E e \in Failures : FinishRecording(j, "failed", e)
        \/ Paused(j)
           /\ \E e \in {"resuming", "paused"} : RequeueRecording(j, e)
        \/ CancelRecording(j)

(* What none of them does to a row: forget its airing, touch it once it is *)
(* settled, remove it, complete or requeue it out of turn.                 *)
Quiet(j) ==
    /\ rows[j].status # "new" =>
           rows'[j].status # "new" /\ rows'[j].program = rows[j].program
    /\ rows[j].status = "new" =>
           rows'[j].status = "new" \/ rows'[j].program \in Programs
    /\ rows[j].status \in Settled \cup {"deleted"} =>
           rows'[j].status = rows[j].status
    /\ rows'[j].status = "deleted" => rows[j].status = "deleted"
    /\ rows'[j].status = "completed" => Finished(j)
    /\ rows'[j].status = "scheduled" =>
           rows[j].status \in {"new", "scheduled"} \/ Paused(j)

LEMMA WritesAreQuiet ==
    ASSUME StoreTypeOK, StoreWrites, NEW k \in Jobs PROVE Quiet(k)
<1> USE DEF StoreTypeOK, Row, Accepted, Settled, Quiet
<1>1. CASE UNCHANGED storeVars \/ Tick
  BY <1>1 DEF storeVars, Tick, Finished
<1>2. CASE ClaimNothing
  BY <1>2 DEF ClaimNothing, WithElapsedClosed, Elapsed, Statuses, Finished
<1>3. ASSUME NEW p \in Programs, NEW pre, NEW post, Schedule(p, pre, post)
      PROVE  Quiet(k)
  BY <1>3 DEF Schedule, Insert, Finished
<1>4. ASSUME NEW j \in Jobs, ClaimDueRecording(j) PROVE Quiet(k)
  BY <1>4
  DEF ClaimDueRecording, FirstDue, Due, WithElapsedClosed, Elapsed, Statuses,
      Finished
<1>5. ASSUME NEW j \in Jobs, SetRecordingProcess(j) PROVE Quiet(k)
  BY <1>5 DEF SetRecordingProcess, storeVars, Finished
<1>6. ASSUME NEW j \in Jobs, Finished(j),
             FinishRecording(j, "completed", "none")
      PROVE  Quiet(k)
  BY <1>6 DEF FinishRecording, Finished
<1>7. ASSUME NEW j \in Jobs, NEW e, FinishRecording(j, "failed", e)
      PROVE  Quiet(k)
  BY <1>7 DEF FinishRecording, Finished
<1>8. ASSUME NEW j \in Jobs, NEW e, Paused(j), RequeueRecording(j, e)
      PROVE  Quiet(k)
  BY <1>8 DEF RequeueRecording, Finished, Paused
<1>9. ASSUME NEW j \in Jobs, CancelRecording(j) PROVE Quiet(k)
  BY <1>9 DEF CancelRecording, Cancelled, Finished
<1> QED
  BY <1>1, <1>2, <1>3, <1>4, <1>5, <1>6, <1>7, <1>8, <1>9 DEF StoreWrites

LEMMA WritesAreSteps == StoreWrites => [StoreNext]_storeVars
  BY DEF StoreWrites, StoreNext

(* A goroutine stores only verdicts the table knows. *)
LEMMA VerdictsAreKnown ==
    ASSUME TypeOK, NEW j \in Jobs, verdict[j] # NoVerdict
    PROVE  \/ verdict[j] = Completed
           \/ \E e \in Failures : verdict[j] = Failed(e)
  BY DEF TypeOK, Verdicts

LEMMA CaptureWrites ==
    ASSUME TypeOK, NEW j \in Jobs, Owned(j), CaptureStep(j)
    PROVE  StoreWrites
<1>1. CASE Acquire(j)
  BY <1>1 DEF Acquire, StoreWrites
<1>2. CASE AwaitPreempted(j)
  BY <1>2 DEF AwaitPreempted, StoreWrites
<1>3. CASE StartProcess(j) \/ StartFails(j)
  BY <1>3 DEF StartProcess, StartFails, StoreWrites
<1>4. CASE Persist(j)
  BY <1>4 DEF Persist, StoreWrites
<1>5. CASE PersistFails(j) \/ Reap(j) \/ Watch(j)
  BY <1>5 DEF PersistFails, Reap, Watch, StoreWrites
<1>6. CASE ProcessStopped(j) \/ Complete(j)
  BY <1>6 DEF ProcessStopped, Complete, StoreWrites
<1>7. CASE StoreOutcome(j)
  <2>1. CASE capture[j] = "finish"
    <3>1. FinishRecording(j, verdict[j].status, verdict[j].error)
      BY <1>7, <2>1 DEF StoreOutcome
    <3>2. \/ verdict[j] = Completed
          \/ \E e \in Failures : verdict[j] = Failed(e)
      BY <2>1, VerdictsAreKnown DEF Owned
    <3>3. CASE verdict[j] = Completed
      <4>1. verdict[j].status = "completed" /\ verdict[j].error = "none"
        BY <3>3 DEF Completed
      <4> QED
        BY <3>1, <3>3, <4>1 DEF StoreWrites, Finished
    <3>4. ASSUME NEW e \in Failures, verdict[j] = Failed(e)
          PROVE  StoreWrites
      <4>1. verdict[j].status = "failed" /\ verdict[j].error = e
        BY <3>4 DEF Failed
      <4> QED
        BY <3>1, <4>1 DEF StoreWrites
    <3> QED
      BY <3>2, <3>3, <3>4
  <2>2. CASE capture[j] = "requeue"
    BY <1>7, <2>2 DEF StoreOutcome, StoreWrites, Paused
  <2> QED
    BY <1>7, <2>1, <2>2 DEF StoreOutcome
<1>8. CASE StoreOutcomeFails(j) \/ Release(j) \/ Deregister(j)
  BY <1>8 DEF StoreOutcomeFails, Release, Deregister, StoreWrites
<1> QED
  BY <1>1, <1>2, <1>3, <1>4, <1>5, <1>6, <1>7, <1>8 DEF CaptureStep

LEMMA RunWrites == RunStep => StoreWrites
<1> SUFFICES ASSUME RunStep PROVE StoreWrites
  OBVIOUS
<1>1. CASE Boot \/ FindInterrupted \/ FindInterruptedFails \/ RecoveryDone
  BY <1>1
  DEF Boot, FindInterrupted, FindInterruptedFails, RecoveryDone, StoreWrites
<1>2. CASE Exit
  BY <1>2 DEF Exit, LoseMemory, StoreWrites
<1>3. CASE PollNothing
  BY <1>3 DEF PollNothing, StoreWrites
<1>4. ASSUME NEW j \in Jobs, RecoverFinalize(j) \/ RecoverStoreFails(j)
      PROVE  StoreWrites
  BY <1>4 DEF RecoverFinalize, RecoverStoreFails, StoreWrites
<1>5. ASSUME NEW j \in Jobs, RecoverStore(j) PROVE StoreWrites
  BY <1>5, SupervisorAssumption
  DEF RecoverStore, StoreWrites, Finished, Paused
<1>6. ASSUME NEW j \in Jobs, StartDue(j) PROVE StoreWrites
  BY <1>6 DEF StartDue, StoreWrites
<1> QED
  BY <1>1, <1>2, <1>3, <1>4, <1>5, <1>6 DEF RunStep

(* The whole service changes the table by the store's operations only, and *)
(* removes a row only at the end of a DELETE.                              *)
LEMMA NextWrites ==
    ASSUME TypeOK, \A j \in Jobs : Owned(j), [Next]_vars
    PROVE  StoreWrites \/ \E j \in Jobs : DropRow(j)
<1>1. CASE Shutdown \/ Crash \/ ClockTick
  BY <1>1 DEF Shutdown, Crash, LoseMemory, ClockTick, StoreWrites
<1>2. CASE CreateRecording
  BY <1>2 DEF CreateRecording, StoreWrites
<1>3. ASSUME NEW j \in Jobs, DeleteRequest(j) PROVE StoreWrites
  BY <1>3 DEF DeleteRequest, StoreWrites
<1>4. ASSUME NEW j \in Jobs, DeleteStep(j) \/ DeleteAbandoned(j), ~DropRow(j)
      PROVE  StoreWrites
  BY <1>4 DEF DeleteStep, DeleteCancels, DeleteAwaited, RemoveFiles, RemoveFilesFails,
              DropRowFails, DeleteAbandoned, StoreWrites
<1>5. ASSUME NEW j \in Jobs, FfmpegWrites(j) \/ FfmpegExits(j)
      PROVE  StoreWrites
  BY <1>5 DEF FfmpegWrites, FfmpegExits, StoreWrites
<1>6. ASSUME NEW s \in Sessions, LiveStep(s)
      PROVE  StoreWrites
  BY <1>6 DEF LiveStep, LiveStart, LiveEnd, LiveStartFails, StoreWrites
<1>7. CASE UNCHANGED vars
  BY <1>7 DEF vars, StoreWrites
<1> QED
  BY <1>1, <1>2, <1>3, <1>4, <1>5, <1>6, <1>7, RunWrites, CaptureWrites
  DEF Next

-----------------------------------------------------------------------------
(* What the invariant needs to know of a step *)

LEMMA JobsFinite == ASSUME NEW S, S \subseteq Jobs PROVE IsFiniteSet(S)
<1>1. IsFiniteSet(Jobs)
  BY StoreAssumption, FS_Interval DEF Jobs
<1> QED
  BY <1>1, FS_Subset

LEMMA PoolUntouched == ASSUME PoolInv, UNCHANGED <<pool, live>> PROVE PoolInv'
  BY DEF PoolInv, InUse, Held, Capacity

(* A tuner is taken only while one is free. *)
LEMMA TunerTaken ==
    ASSUME TypeOK, PoolInv, NEW j, InUse < Capacity,
           pool' = pool \cup {j}, UNCHANGED live
    PROVE  PoolInv'
<1>1. IsFiniteSet(pool)
  BY JobsFinite DEF TypeOK
<1>2. /\ Cardinality(pool) \in Nat
      /\ Cardinality(pool \cup {j}) = IF j \in pool THEN Cardinality(pool)
                                      ELSE Cardinality(pool) + 1
  BY <1>1, FS_AddElement, FS_CardinalityType
<1>3. Cardinality(Held) \in Nat
  BY FS_CardinalityType DEF PoolInv
<1>4. Held' = Held
  BY DEF Held
<1> QED
  BY <1>2, <1>3, <1>4, CapacityPositive DEF PoolInv, InUse, Capacity

LEMMA TunerReturned ==
    ASSUME TypeOK, PoolInv, NEW j, pool' = pool \ {j}, UNCHANGED live
    PROVE  PoolInv'
<1>1. IsFiniteSet(pool)
  BY JobsFinite DEF TypeOK
<1>2. /\ Cardinality(pool) \in Nat
      /\ Cardinality(pool \ {j}) = IF j \in pool THEN Cardinality(pool) - 1
                                   ELSE Cardinality(pool)
  BY <1>1, FS_RemoveElement, FS_CardinalityType
<1>3. Cardinality(Held) \in Nat
  BY FS_CardinalityType DEF PoolInv
<1>4. Held' = Held
  BY DEF Held
<1> QED
  BY <1>2, <1>3, <1>4, CapacityPositive DEF PoolInv, InUse, Capacity

(* Rows keep their airing, so folders once shared stay shared.             *)
LEMMA SharesStable ==
    ASSUME \A k \in Jobs : Quiet(k), NEW j \in Jobs, rows[j].status # "new"
    PROVE  Folder(j)' = Folder(j) /\ (Shares(j) => Shares(j)')
  BY DEF Quiet, Folder, Shares, Jobs

LEMMA OwnFolder ==
    ASSUME NEW j \in Jobs, Owned(j), rows[j].status # "new"
    PROVE  Folder(j) \in Folders
  BY SupervisorAssumption DEF Owned, Folder

LEMMA FinishedExists ==
    ASSUME SupInv, NEW j \in Jobs, Finished(j) PROVE rows[j].status # "new"
  BY DEF SupInv, Owned, Finished, Completed, NoVerdict

LEMMA FilesUntouched ==
    ASSUME SupInv, \A k \in Jobs : Quiet(k), UNCHANGED disk,
           erased \subseteq erased', survivors \subseteq survivors',
           \A k \in Jobs : /\ del'[k] = "drop" => del[k] = "drop"
                           /\ Finished(k)' => Finished(k)
    PROVE  \A k \in Jobs : Erased(k)' /\ Kept(k)'
<1> SUFFICES ASSUME NEW k \in Jobs PROVE Erased(k)' /\ Kept(k)'
  BY DEF Jobs
<1>1. Erased(k)'
  <2> SUFFICES ASSUME del'[k] = "drop" \/ rows'[k].status = "deleted"
               PROVE  disk'[Folder(k)'] = "absent" \/ Shares(k)'
    BY DEF Erased
  <2>1. del[k] = "drop" \/ rows[k].status = "deleted"
    BY DEF Quiet
  <2>2. rows[k].status # "new"
    BY <2>1 DEF SupInv, Owned, Settled
  <2> QED
    BY <2>1, <2>2, SharesStable DEF SupInv, Erased
<1>2. Kept(k)'
  <2> SUFFICES ASSUME Finished(k)'
               PROVE  \/ disk'[Folder(k)'] = "ended"
                      \/ k \in (erased \cup survivors)' \/ Shares(k)'
    BY DEF Kept
  <2>1. Finished(k)
    OBVIOUS
  <2> QED
    BY <2>1, FinishedExists, SharesStable DEF SupInv, Kept
<1> QED
  BY <1>1, <1>2

(* Only one folder changes, and a job it belongs to is looked at on its    *)
(* own: to every other job either the folder is another, or it is shared.  *)
LEMMA FilesOfOneJob ==
    ASSUME SupInv, \A k \in Jobs : Quiet(k), erased \subseteq erased',
           NEW j \in Jobs, rows[j].status # "new",
           \A f \in Folders \ {Folder(j)} : disk'[f] = disk[f],
           survivors \ {j} \subseteq survivors',
           \A k \in Jobs \ {j} : /\ del'[k] = "drop" => del[k] = "drop"
                                 /\ Finished(k)' => Finished(k),
           Erased(j)', Kept(j)'
    PROVE  \A k \in Jobs : Erased(k)' /\ Kept(k)'
<1> SUFFICES ASSUME NEW k \in Jobs, k # j PROVE Erased(k)' /\ Kept(k)'
  BY DEF Jobs
<1>0. rows'[j].status # "new" /\ Folder(j)' = Folder(j)
  BY SharesStable DEF Quiet
<1>1. ASSUME rows[k].status # "new"
      PROVE  /\ Folder(k)' = Folder(k) /\ (Shares(k) => Shares(k)')
             /\ Shares(k)' \/ disk'[Folder(k)] = disk[Folder(k)]
  <2>1. /\ Folder(k)' = Folder(k) /\ (Shares(k) => Shares(k)')
    BY <1>1, SharesStable
  <2>2. Folder(k) \in Folders
    BY <1>1, OwnFolder DEF SupInv
  <2>3. CASE Folder(k) = Folder(j)
    BY <1>0, <2>1, <2>3 DEF Shares, Jobs
  <2>4. CASE Folder(k) # Folder(j)
    BY <2>1, <2>2, <2>4
  <2> QED
    BY <2>1, <2>3, <2>4
<1>2. Erased(k)'
  <2> SUFFICES ASSUME del'[k] = "drop" \/ rows'[k].status = "deleted"
               PROVE  disk'[Folder(k)'] = "absent" \/ Shares(k)'
    BY DEF Erased
  <2>1. del[k] = "drop" \/ rows[k].status = "deleted"
    BY DEF Quiet
  <2>2. rows[k].status # "new"
    BY <2>1 DEF SupInv, Owned, Settled
  <2> QED
    BY <1>1, <2>1, <2>2 DEF SupInv, Erased
<1>3. Kept(k)'
  <2> SUFFICES ASSUME Finished(k)'
               PROVE  \/ disk'[Folder(k)'] = "ended"
                      \/ k \in (erased \cup survivors)' \/ Shares(k)'
    BY DEF Kept
  <2>1. Finished(k)
    OBVIOUS
  <2> QED
    BY <1>1, <2>1, FinishedExists DEF SupInv, Kept
<1> QED
  BY <1>2, <1>3

-----------------------------------------------------------------------------
(* Every step keeps the invariant *)

(* AcquireRecording turned the goroutine away. *)
LEMMA RefusedKeeps ==
    ASSUME SupInv, StoreTypeOK', \A k \in Jobs : Quiet(k),
           NEW j \in Jobs, capture[j] \in {"acquire", "await"}, Refused(j),
           waits' \in [Jobs -> Sessions \cup {NoSession}],
           UNCHANGED <<storeVars, volatile, cause, host, rest>>
    PROVE  SupInv'
<1> USE DEF SupInv, TypeOK, Steps, storeVars, volatile, jobVars, host,
            rest, history, Unsaved, Goto, GotoFinish, Failed, NoVerdict
<1>1. CASE GotoFinish(j, Failed("no tuner"))
  <2>1. TypeOK'
    BY <1>1, SupervisorAssumption DEF Verdicts, Held
  <2>2. PoolInv'
    BY <1>1, PoolUntouched
  <2>3. ASSUME NEW k \in Jobs PROVE Owned(k)'
    <3>1. /\ UNCHANGED <<rows, svc, pending, proc, del>>
          /\ capture'[k] = IF k = j THEN "finish" ELSE capture[k]
          /\ verdict'[k] = IF k = j THEN Failed("no tuner") ELSE verdict[k]
      BY <1>1
    <3>2. Owned(k) /\ Failed("no tuner") # NoVerdict
      OBVIOUS
    <3> HIDE DEF SupInv, TypeOK, Failed, NoVerdict
    <3> QED
      BY <3>1, <3>2 DEF Owned
  <2>4. ASSUME NEW k \in Jobs PROVE Requeued(k)' /\ Tuned(k)'
    <3>1. Requeued(k)'
      <4>1. /\ UNCHANGED <<rows, cause, stopping>>
            /\ capture'[k] = IF k = j THEN "finish" ELSE capture[k]
        BY <1>1
      <4>2. capture[j] # "idle" /\ Requeued(k)
        OBVIOUS
      <4> QED
        BY <4>1, <4>2 DEF Requeued
    <3>2. Tuned(k)'
      BY <1>1 DEF Tuned, Using, Running, Ending
    <3> QED
      BY <3>1, <3>2
  <2>5. \A k \in Jobs : Erased(k)' /\ Kept(k)'
    BY <1>1, FilesUntouched DEF Finished, Quiet, Completed
  <2> QED
    BY <2>1, <2>2, <2>3, <2>4, <2>5
<1>2. CASE Goto(j, "deregister") /\ UNCHANGED verdict
  <2>1. TypeOK'
    BY <1>2, SupervisorAssumption DEF Verdicts, Held
  <2>2. PoolInv'
    BY <1>2, PoolUntouched
  <2>3. ASSUME NEW k \in Jobs PROVE Owned(k)' /\ Requeued(k)' /\ Tuned(k)'
    BY <1>2 DEF Owned, Requeued, Tuned, Using, Running, Ending, Quiet, Paused
  <2>4. \A k \in Jobs : Erased(k)' /\ Kept(k)'
    BY <1>2, FilesUntouched DEF Finished, Quiet, Completed
  <2> QED
    BY <2>1, <2>2, <2>3, <2>4
<1>3. CASE cause[j] = "shutdown" /\ Goto(j, "requeue") /\ UNCHANGED verdict
  <2>1. TypeOK'
    BY <1>3, SupervisorAssumption DEF Verdicts, Held
  <2>2. PoolInv'
    BY <1>3, PoolUntouched
  <2>3. ASSUME NEW k \in Jobs PROVE Owned(k)' /\ Requeued(k)' /\ Tuned(k)'
    BY <1>3 DEF Owned, Requeued, Tuned, Using, Running, Ending, Quiet, Paused
  <2>4. \A k \in Jobs : Erased(k)' /\ Kept(k)'
    BY <1>3, FilesUntouched DEF Finished, Quiet, Completed
  <2> QED
    BY <2>1, <2>2, <2>3, <2>4
<1> QED
  BY <1>1, <1>2, <1>3 DEF Refused

(* One turn of AcquireRecording, and the wait it may lead to. *)
LEMMA AcquireKeeps ==
    ASSUME SupInv, StoreTypeOK', \A k \in Jobs : Quiet(k),
           NEW j \in Jobs, Acquire(j) \/ AwaitPreempted(j)
    PROVE  SupInv'
<1> USE DEF SupInv, TypeOK, Steps, storeVars, volatile, jobVars, host,
            rest, history, Unsaved, Goto, GotoFinish, Failed, NoVerdict
<1>1. CASE /\ capture[j] = "acquire" /\ Goto(j, "prepare") /\ UNCHANGED verdict
           /\ InUse < Capacity /\ pool' = pool \cup {j}
           /\ UNCHANGED <<storeVars, volatile, cause, waits, proc, live, disk,
                          rest>>
  <2>1. TypeOK'
    BY <1>1, SupervisorAssumption DEF Verdicts, Held
  <2>2. PoolInv'
    BY <1>1, TunerTaken
  <2>3. ASSUME NEW k \in Jobs PROVE Owned(k)' /\ Requeued(k)' /\ Tuned(k)'
    BY <1>1 DEF Owned, Requeued, Tuned, Using, Running, Ending, Quiet, Paused
  <2>4. \A k \in Jobs : Erased(k)' /\ Kept(k)'
    BY <1>1, FilesUntouched DEF Finished, Quiet, Completed
  <2> QED
    BY <2>1, <2>2, <2>3, <2>4
<1>2. CASE /\ capture[j] = "acquire" /\ Goto(j, "await") /\ UNCHANGED verdict
           /\ \E s \in Held : waits' = [waits EXCEPT ![j] = s]
           /\ UNCHANGED <<storeVars, volatile, cause, host, rest>>
  <2>1. TypeOK'
    BY <1>2, SupervisorAssumption DEF Verdicts, Held
  <2>2. PoolInv'
    BY <1>2, PoolUntouched
  <2>3. ASSUME NEW k \in Jobs PROVE Owned(k)' /\ Requeued(k)' /\ Tuned(k)'
    BY <1>2 DEF Owned, Requeued, Tuned, Using, Running, Ending, Quiet, Paused
  <2>4. \A k \in Jobs : Erased(k)' /\ Kept(k)'
    BY <1>2, FilesUntouched DEF Finished, Quiet, Completed
  <2> QED
    BY <2>1, <2>2, <2>3, <2>4
<1>3. CASE /\ capture[j] = "await" /\ Goto(j, "acquire") /\ UNCHANGED verdict
           /\ waits' = [waits EXCEPT ![j] = NoSession]
           /\ UNCHANGED <<storeVars, volatile, cause, host, rest>>
  <2>1. TypeOK'
    BY <1>3, SupervisorAssumption DEF Verdicts, Held
  <2>2. PoolInv'
    BY <1>3, PoolUntouched
  <2>3. ASSUME NEW k \in Jobs PROVE Owned(k)' /\ Requeued(k)' /\ Tuned(k)'
    BY <1>3 DEF Owned, Requeued, Tuned, Using, Running, Ending, Quiet, Paused
  <2>4. \A k \in Jobs : Erased(k)' /\ Kept(k)'
    BY <1>3, FilesUntouched DEF Finished, Quiet, Completed
  <2> QED
    BY <2>1, <2>2, <2>3, <2>4
<1>4. CASE /\ capture[j] \in {"acquire", "await"} /\ Refused(j)
           /\ waits' \in {waits, [waits EXCEPT ![j] = NoSession]}
           /\ UNCHANGED <<storeVars, volatile, cause, host, rest>>
  <2>1. waits' \in [Jobs -> Sessions \cup {NoSession}]
    BY <1>4 DEF TypeOK
  <2> QED
    BY <1>4, <2>1, RefusedKeeps
<1> QED
  BY <1>1, <1>2, <1>3, <1>4 DEF Acquire, AwaitPreempted

(* The playlist is made finite, or there is none. *)
LEMMA CompleteKeeps ==
    ASSUME SupInv, StoreTypeOK', \A k \in Jobs : Quiet(k),
           NEW j \in Jobs, Complete(j)
    PROVE  SupInv'
<1> USE DEF SupInv, TypeOK, Steps, storeVars, volatile, jobVars, host,
            rest, history, Unsaved, Goto, GotoFinish, Failed, NoVerdict
<1>1. CASE /\ capture[j] = "complete" /\ GotoFinish(j, Completed)
           /\ disk' = [disk EXCEPT ![Folder(j)] = "ended"]
           /\ UNCHANGED <<storeVars, volatile, cause, waits, proc, pool, live,
                          rest>>
  <2>1. TypeOK'
    BY <1>1, SupervisorAssumption DEF Verdicts, Held
  <2>2. PoolInv'
    BY <1>1, PoolUntouched
  <2>3. ASSUME NEW k \in Jobs PROVE Owned(k)' /\ Requeued(k)' /\ Tuned(k)'
    BY <1>1
    DEF Owned, Requeued, Tuned, Using, Running, Ending, Quiet, Paused,
        Completed
  <2>4. \A k \in Jobs : Erased(k)' /\ Kept(k)'
    <3>1. rows[j].status # "new" /\ Folder(j) \in Folders
      BY <1>1, OwnFolder DEF Owned, Settled
    <3>2. Folder(j)' = Folder(j) /\ (Shares(j) => Shares(j)')
      BY <3>1, SharesStable
    <3>3. Erased(j)'
      BY <1>1, <3>1, <3>2 DEF Erased, Quiet, Owned
    <3>4. Kept(j)'
      BY <1>1, <3>1, <3>2 DEF Kept, Finished, Quiet, Owned, Completed
    <3> QED
      BY <1>1, <3>1, <3>2, <3>3, <3>4, FilesOfOneJob DEF Finished, Completed
  <2> QED
    BY <2>1, <2>2, <2>3, <2>4
<1>2. CASE /\ capture[j] = "complete" /\ GotoFinish(j, Failed("capture"))
           /\ UNCHANGED <<storeVars, volatile, cause, waits, host, rest>>
  <2>1. TypeOK'
    BY <1>2, SupervisorAssumption DEF Verdicts, Held
  <2>2. PoolInv'
    BY <1>2, PoolUntouched
  <2>3. ASSUME NEW k \in Jobs PROVE Owned(k)'
    <3>1. /\ UNCHANGED <<rows, svc, pending, proc, del>>
          /\ capture'[k] = IF k = j THEN "finish" ELSE capture[k]
          /\ verdict'[k] = IF k = j THEN Failed("capture") ELSE verdict[k]
      BY <1>2
    <3>2. Owned(k) /\ capture[j] = "complete"
          /\ Failed("capture") # NoVerdict
      BY <1>2
    <3> HIDE DEF SupInv, TypeOK, Failed, NoVerdict
    <3> QED
      BY <3>1, <3>2 DEF Owned
  <2>4. ASSUME NEW k \in Jobs PROVE Requeued(k)' /\ Tuned(k)'
    <3>1. Requeued(k)'
      <4>1. /\ UNCHANGED <<rows, cause, stopping>>
            /\ capture'[k] = IF k = j THEN "finish" ELSE capture[k]
        BY <1>2
      <4>2. capture[j] # "idle" /\ Requeued(k)
        BY <1>2
      <4> QED
        BY <4>1, <4>2 DEF Requeued
    <3>2. Tuned(k)'
      BY <1>2 DEF Tuned, Using, Running, Ending
    <3> QED
      BY <3>1, <3>2
  <2>5. \A k \in Jobs : Erased(k)' /\ Kept(k)'
    BY <1>2, FilesUntouched DEF Finished, Quiet, Completed
  <2> QED
    BY <2>1, <2>2, <2>3, <2>4, <2>5
<1> QED
  BY <1>1, <1>2 DEF Complete, Finalize, FinalizeFails, Playable

(* The goroutine of a capture *)
LEMMA CaptureKeeps ==
    ASSUME SupInv, StoreTypeOK', \A k \in Jobs : Quiet(k),
           NEW j \in Jobs, CaptureStep(j)
    PROVE  SupInv'
<1> USE DEF SupInv, TypeOK, Steps, storeVars, volatile, jobVars, host,
            rest, history, Unsaved, Goto, GotoFinish, Failed, NoVerdict
<1>1. CASE Acquire(j) \/ AwaitPreempted(j)
  BY <1>1, AcquireKeeps
<1>2. CASE StartProcess(j)
  <2>1. TypeOK'
    BY <1>2, SupervisorAssumption DEF StartProcess, MkdirAll, Verdicts, Held
  <2>2. PoolInv'
    BY <1>2, PoolUntouched DEF StartProcess, MkdirAll
  <2>3. ASSUME NEW k \in Jobs PROVE Owned(k)' /\ Requeued(k)' /\ Tuned(k)'
    BY <1>2
    DEF StartProcess, MkdirAll, Owned, Requeued, Tuned, Using, Running,
        Ending, Quiet, Paused
  <2>4. \A k \in Jobs : Erased(k)' /\ Kept(k)'
    <3>1. rows[j].status # "new" /\ Folder(j) \in Folders
      BY <1>2, OwnFolder DEF StartProcess, MkdirAll, Owned, Settled
    <3>2. Folder(j)' = Folder(j) /\ (Shares(j) => Shares(j)')
      BY <3>1, SharesStable
    <3>3. Erased(j)'
      BY <1>2, <3>1, <3>2 DEF StartProcess, MkdirAll, Erased, Quiet, Owned
    <3>4. Kept(j)'
      BY <1>2, <3>1, <3>2
      DEF StartProcess, MkdirAll, Kept, Finished, Quiet, Owned, Completed
    <3> QED
      BY <1>2, <3>1, <3>2, <3>3, <3>4, FilesOfOneJob
      DEF StartProcess, MkdirAll, Finished, Completed
  <2> QED
    BY <2>1, <2>2, <2>3, <2>4
<1>3. CASE StartFails(j)
  <2>1. TypeOK'
    <3>1. disk' \in [Folders -> {"absent", "empty", "open", "ended"}]
      BY <1>3 DEF StartFails, MkdirAll, TypeOK
    <3>2. verdict' \in [Jobs -> Verdicts]
      <4>1. Failed("capture") \in Verdicts
        BY SupervisorAssumption DEF Verdicts
      <4> HIDE DEF Failed
      <4> QED
        BY <1>3, <4>1 DEF StartFails, GotoFinish, TypeOK
    <3> QED
      BY <1>3, <3>1, <3>2 DEF StartFails, TypeOK, Steps, storeVars, volatile,
                              host, rest, history, Goto, GotoFinish
  <2>2. PoolInv'
    BY <1>3, PoolUntouched DEF StartFails, MkdirAll
  <2>3. ASSUME NEW k \in Jobs PROVE Owned(k)' /\ Requeued(k)' /\ Tuned(k)'
    BY <1>3
    DEF StartFails, MkdirAll, Owned, Requeued, Tuned, Using, Running, Ending,
        Quiet, Paused
  <2>4. \A k \in Jobs : Erased(k)' /\ Kept(k)'
    <3>1. rows[j].status # "new" /\ Folder(j) \in Folders
      BY <1>3, OwnFolder DEF StartFails, MkdirAll, Owned, Settled
    <3>2. Folder(j)' = Folder(j) /\ (Shares(j) => Shares(j)')
      BY <3>1, SharesStable
    <3>3. Erased(j)'
      BY <1>3, <3>1, <3>2 DEF StartFails, MkdirAll, Erased, Quiet, Owned
    <3>4. Kept(j)'
      BY <1>3, <3>1, <3>2
      DEF StartFails, MkdirAll, Kept, Finished, Quiet, Owned, Completed
    <3> QED
      BY <1>3, <3>1, <3>2, <3>3, <3>4, FilesOfOneJob
      DEF StartFails, MkdirAll, Finished, Completed
  <2> QED
    BY <2>1, <2>2, <2>3, <2>4
<1>4. CASE Persist(j)
  <2>1. TypeOK'
    BY <1>4, SupervisorAssumption DEF Persist, Verdicts, Held
  <2>2. PoolInv'
    BY <1>4, PoolUntouched DEF Persist
  <2>3. ASSUME NEW k \in Jobs PROVE Owned(k)' /\ Requeued(k)' /\ Tuned(k)'
    BY <1>4
    DEF Persist, Owned, Requeued, Tuned, Using, Running, Ending, Quiet,
        Paused, Finished, Completed
  <2>4. \A k \in Jobs : Erased(k)' /\ Kept(k)'
    BY <1>4, FilesUntouched DEF Persist, Finished, Quiet, Completed
  <2> QED
    BY <2>1, <2>2, <2>3, <2>4
<1>5. CASE PersistFails(j)
  <2>1. TypeOK'
    BY <1>5, SupervisorAssumption DEF PersistFails, Verdicts, Held
  <2>2. PoolInv'
    BY <1>5, PoolUntouched DEF PersistFails
  <2>3. ASSUME NEW k \in Jobs PROVE Owned(k)' /\ Requeued(k)' /\ Tuned(k)'
    BY <1>5
    DEF PersistFails, Owned, Requeued, Tuned, Using, Running, Ending, Quiet,
        Paused
  <2>4. \A k \in Jobs : Erased(k)' /\ Kept(k)'
    BY <1>5, FilesUntouched DEF PersistFails, Finished, Quiet, Completed
  <2> QED
    BY <2>1, <2>2, <2>3, <2>4
<1>6. CASE Reap(j)
  <2>1. TypeOK'
    <3>1. Failed("capture") \in Verdicts
      BY SupervisorAssumption DEF Verdicts
    <3>2. capture' \in [Jobs -> Steps] /\ verdict' \in [Jobs -> Verdicts]
      BY <1>6, <3>1 DEF Reap
    <3> QED
      BY <1>6, <3>2 DEF Reap
  <2>2. PoolInv'
    BY <1>6, PoolUntouched DEF Reap
  <2>3. ASSUME NEW k \in Jobs PROVE Owned(k)' /\ Requeued(k)' /\ Tuned(k)'
    BY <1>6
    DEF Reap, Owned, Requeued, Tuned, Using, Running, Ending, Quiet, Paused
  <2>4. \A k \in Jobs : Erased(k)' /\ Kept(k)'
    BY <1>6, FilesUntouched DEF Reap, Finished, Quiet, Completed
  <2> QED
    BY <2>1, <2>2, <2>3, <2>4
<1>7. CASE Watch(j)
  <2>1. TypeOK'
    <3>1. Failed("capture") \in Verdicts
      BY SupervisorAssumption DEF Verdicts
    <3> QED
      BY <1>7, <3>1 DEF Watch, Held
  <2>2. PoolInv'
    BY <1>7, PoolUntouched DEF Watch
  <2>3. ASSUME NEW k \in Jobs PROVE Owned(k)' /\ Requeued(k)' /\ Tuned(k)'
    BY <1>7
    DEF Watch, Owned, Requeued, Tuned, Using, Running, Ending, Quiet, Paused
  <2>4. \A k \in Jobs : Erased(k)' /\ Kept(k)'
    BY <1>7, FilesUntouched DEF Watch, Finished, Quiet, Completed
  <2> QED
    BY <2>1, <2>2, <2>3, <2>4
<1>8. CASE ProcessStopped(j)
  <2>1. TypeOK'
    BY <1>8, SupervisorAssumption
    DEF ProcessStopped, StopProcess, Verdicts, Held
  <2>2. PoolInv'
    BY <1>8, PoolUntouched DEF ProcessStopped, StopProcess
  <2>3. ASSUME NEW k \in Jobs PROVE Owned(k)' /\ Requeued(k)' /\ Tuned(k)'
    BY <1>8
    DEF ProcessStopped, StopProcess, Owned, Requeued, Tuned, Using, Running,
        Ending, Quiet, Paused
  <2>4. \A k \in Jobs : Erased(k)' /\ Kept(k)'
    BY <1>8, FilesUntouched
    DEF ProcessStopped, StopProcess, Finished, Quiet, Completed
  <2> QED
    BY <2>1, <2>2, <2>3, <2>4
<1>9. CASE Complete(j)
  BY <1>9, CompleteKeeps
<1>10. CASE StoreOutcome(j)
  <2>1. TypeOK'
    BY <1>10, SupervisorAssumption DEF StoreOutcome, Verdicts, Held
  <2>2. PoolInv'
    BY <1>10, PoolUntouched DEF StoreOutcome
  <2>3. ASSUME NEW k \in Jobs PROVE Owned(k)' /\ Requeued(k)' /\ Tuned(k)'
    BY <1>10
    DEF StoreOutcome, Owned, Requeued, Tuned, Using, Running, Ending, Quiet,
        Paused, Finished, Completed
  <2>4. \A k \in Jobs : Erased(k)' /\ Kept(k)'
    BY <1>10, FilesUntouched DEF StoreOutcome, Finished, Quiet, Completed
  <2> QED
    BY <2>1, <2>2, <2>3, <2>4
<1>11. CASE StoreOutcomeFails(j)
  <2>1. TypeOK'
    BY <1>11, SupervisorAssumption DEF StoreOutcomeFails, Verdicts, Held
  <2>2. PoolInv'
    BY <1>11, PoolUntouched DEF StoreOutcomeFails
  <2>3. ASSUME NEW k \in Jobs PROVE Owned(k)' /\ Requeued(k)' /\ Tuned(k)'
    BY <1>11
    DEF StoreOutcomeFails, Owned, Requeued, Tuned, Using, Running, Ending,
        Quiet, Paused
  <2>4. \A k \in Jobs : Erased(k)' /\ Kept(k)'
    BY <1>11, FilesUntouched DEF StoreOutcomeFails, Finished, Quiet, Completed
  <2> QED
    BY <2>1, <2>2, <2>3, <2>4
<1>12. CASE Release(j)
  <2>1. TypeOK'
    BY <1>12, SupervisorAssumption DEF Release, Verdicts, Held
  <2>2. PoolInv'
    BY <1>12, TunerReturned DEF Release
  <2>3. ASSUME NEW k \in Jobs PROVE Owned(k)' /\ Requeued(k)' /\ Tuned(k)'
    BY <1>12
    DEF Release, Owned, Requeued, Tuned, Using, Running, Ending, Quiet, Paused
  <2>4. \A k \in Jobs : Erased(k)' /\ Kept(k)'
    BY <1>12, FilesUntouched DEF Release, Finished, Quiet, Completed
  <2> QED
    BY <2>1, <2>2, <2>3, <2>4
<1>13. CASE Deregister(j)
  <2>1. TypeOK'
    BY <1>13, SupervisorAssumption DEF Deregister, Verdicts, Held
  <2>2. PoolInv'
    BY <1>13, PoolUntouched DEF Deregister
  <2>3. ASSUME NEW k \in Jobs PROVE Owned(k)' /\ Requeued(k)' /\ Tuned(k)'
    BY <1>13
    DEF Deregister, Owned, Requeued, Tuned, Using, Running, Ending, Quiet,
        Paused
  <2>4. \A k \in Jobs : Erased(k)' /\ Kept(k)'
    BY <1>13, FilesUntouched DEF Deregister, Finished, Quiet, Completed
  <2> QED
    BY <2>1, <2>2, <2>3, <2>4
<1> QED
  BY <1>1, <1>2, <1>3, <1>4, <1>5, <1>6, <1>7, <1>8, <1>9, <1>10, <1>11,
     <1>12, <1>13
  DEF CaptureStep

LEMMA BoundIsNat == MaxRestarts \in Nat
  BY SupervisorAssumption

LEMMA PoolEmptied ==
    ASSUME pool' = {}, \A s \in Sessions : live'[s] # "on" PROVE PoolInv'
<1>1. Held' = {}
  BY DEF Held
<1> QED
  BY <1>1, FS_EmptySet, CapacityPositive DEF PoolInv, InUse, Capacity

LEMMA SessionOpened ==
    ASSUME TypeOK, PoolInv, NEW s \in Sessions, InUse < Capacity,
           live' = [live EXCEPT ![s] = "on"], UNCHANGED pool
    PROVE  PoolInv'
<1>1. Held' = Held \cup {s}
  BY DEF TypeOK, Held
<1>2. /\ IsFiniteSet(Held \cup {s}) /\ Cardinality(Held) \in Nat
      /\ Cardinality(Held \cup {s}) = IF s \in Held THEN Cardinality(Held)
                                      ELSE Cardinality(Held) + 1
  BY FS_AddElement, FS_CardinalityType DEF PoolInv
<1>3. IsFiniteSet(pool)
  BY JobsFinite DEF TypeOK
<1>4. Cardinality(pool) \in Nat
  BY <1>3, FS_CardinalityType
<1> QED
  BY <1>1, <1>2, <1>4, CapacityPositive DEF PoolInv, InUse, Capacity

LEMMA SessionClosed ==
    ASSUME TypeOK, PoolInv, NEW s \in Sessions,
           NEW e \in {"gone", "lost"},
           live' = [live EXCEPT ![s] = e], UNCHANGED pool
    PROVE  PoolInv'
<1>1. Held' = Held \ {s}
  BY DEF TypeOK, Held
<1>2. /\ IsFiniteSet(Held \ {s}) /\ Cardinality(Held) \in Nat
      /\ Cardinality(Held \ {s}) = IF s \in Held THEN Cardinality(Held) - 1
                                   ELSE Cardinality(Held)
  BY FS_RemoveElement, FS_CardinalityType DEF PoolInv
<1>3. IsFiniteSet(pool)
  BY JobsFinite DEF TypeOK
<1>4. Cardinality(pool) \in Nat
  BY <1>3, FS_CardinalityType
<1> QED
  BY <1>1, <1>2, <1>4, CapacityPositive DEF PoolInv, InUse, Capacity

(* Recovery closes the playlist of one row, or finds none. *)
LEMMA RecoverKeeps ==
    ASSUME SupInv, StoreTypeOK', \A k \in Jobs : Quiet(k),
           NEW j \in Jobs, RecoverFinalize(j)
    PROVE  SupInv'
<1> USE DEF SupInv, TypeOK, Steps, storeVars, volatile, jobVars, host,
            rest, history, Unsaved, Goto, GotoFinish, Failed, NoVerdict
<1>1. CASE /\ svc = "recover" /\ pending[j] # "none"
           /\ pending' = [pending EXCEPT ![j] = "completed"]
           /\ disk[Folder(j)] \in {"open", "ended"}
           /\ disk' = [disk EXCEPT ![Folder(j)] = "ended"]
           /\ UNCHANGED <<storeVars, svc, stopping, restarts, jobVars, proc,
                          pool, live, rest>>
  <2>1. TypeOK'
    BY <1>1, SupervisorAssumption DEF Verdicts, Held
  <2>2. PoolInv'
    BY <1>1, PoolUntouched
  <2>3. ASSUME NEW k \in Jobs PROVE Owned(k)' /\ Requeued(k)' /\ Tuned(k)'
    BY <1>1 DEF Owned, Requeued, Tuned, Using, Running, Ending, Quiet, Paused
  <2>4. \A k \in Jobs : Erased(k)' /\ Kept(k)'
    <3>1. rows[j].status # "new" /\ Folder(j) \in Folders
      BY <1>1, OwnFolder DEF Owned, Settled
    <3>2. Folder(j)' = Folder(j) /\ (Shares(j) => Shares(j)')
      BY <3>1, SharesStable
    <3>3. Erased(j)'
      BY <1>1, <3>1, <3>2 DEF Erased, Quiet, Owned
    <3>4. Kept(j)'
      BY <1>1, <3>1, <3>2 DEF Kept, Finished, Quiet, Owned, Completed
    <3> QED
      BY <1>1, <3>1, <3>2, <3>3, <3>4, FilesOfOneJob DEF Finished, Completed
  <2> QED
    BY <2>1, <2>2, <2>3, <2>4
<1>2. CASE /\ svc = "recover" /\ pending[j] # "none"
           /\ pending' = [pending EXCEPT ![j] = "failed"]
           /\ UNCHANGED <<storeVars, svc, stopping, restarts, jobVars, host,
                          rest>>
  <2>1. TypeOK'
    BY <1>2, SupervisorAssumption DEF Verdicts, Held
  <2>2. PoolInv'
    BY <1>2, PoolUntouched
  <2>3. ASSUME NEW k \in Jobs PROVE Owned(k)' /\ Requeued(k)' /\ Tuned(k)'
    BY <1>2 DEF Owned, Requeued, Tuned, Using, Running, Ending, Quiet, Paused
  <2>4. \A k \in Jobs : Erased(k)' /\ Kept(k)'
    BY <1>2, FilesUntouched DEF Finished, Quiet, Completed
  <2> QED
    BY <2>1, <2>2, <2>3, <2>4
<1> QED
  BY <1>1, <1>2 DEF RecoverFinalize, NextPending, Finalize, FinalizeFails, Playable

(* The process and the loop, apart from what they do to one job *)
LEMMA ServiceKeeps ==
    ASSUME SupInv, StoreTypeOK', \A k \in Jobs : Quiet(k),
           \/ Boot \/ Exit \/ Crash \/ Shutdown \/ PollNothing
           \/ FindInterrupted \/ FindInterruptedFails \/ RecoveryDone
    PROVE  SupInv'
<1> USE DEF SupInv, TypeOK, Steps, storeVars, volatile, jobVars, host,
            rest, history, Unsaved, Goto, GotoFinish, Failed, NoVerdict
<1>1. CASE Boot
  <2>1. TypeOK'
    BY <1>1, SupervisorAssumption DEF Boot, Verdicts, Held
  <2>2. PoolInv'
    BY <1>1, PoolUntouched DEF Boot
  <2>3. ASSUME NEW k \in Jobs PROVE Owned(k)' /\ Requeued(k)' /\ Tuned(k)'
    BY <1>1
    DEF Boot, Owned, Requeued, Tuned, Using, Running, Ending, Quiet, Paused
  <2>4. \A k \in Jobs : Erased(k)' /\ Kept(k)'
    BY <1>1, FilesUntouched DEF Boot, Finished, Quiet, Completed
  <2> QED
    BY <2>1, <2>2, <2>3, <2>4
<1>2. CASE Exit
  <2>1. TypeOK'
    <3>1. restarts' \in 0 .. MaxRestarts /\ ~stopping'
      BY <1>2, BoundIsNat DEF Exit, LoseMemory, TypeOK
    <3> QED
      BY <1>2, <3>1 DEF Exit, LoseMemory, TypeOK, Steps, storeVars, Verdicts
  <2>2. PoolInv'
    BY <1>2, PoolEmptied DEF Exit, LoseMemory
  <2>3. ASSUME NEW k \in Jobs PROVE Owned(k)' /\ Requeued(k)' /\ Tuned(k)'
    BY <1>2
    DEF Exit, LoseMemory, Owned, Requeued, Tuned, Using, Running, Ending,
        Quiet, Paused
  <2>4. \A k \in Jobs : Erased(k)' /\ Kept(k)'
    BY <1>2, FilesUntouched DEF Exit, LoseMemory, Finished, Quiet, Completed
  <2> QED
    BY <2>1, <2>2, <2>3, <2>4
<1>3. CASE Crash
  <2>1. TypeOK'
    <3>1. restarts' \in 0 .. MaxRestarts /\ ~stopping'
      BY <1>3, BoundIsNat DEF Crash, LoseMemory, TypeOK
    <3> QED
      BY <1>3, <3>1 DEF Crash, LoseMemory, TypeOK, Steps, storeVars, Verdicts
  <2>2. PoolInv'
    BY <1>3, PoolEmptied DEF Crash, LoseMemory
  <2>3. ASSUME NEW k \in Jobs PROVE Owned(k)' /\ Requeued(k)' /\ Tuned(k)'
    BY <1>3
    DEF Crash, LoseMemory, Owned, Requeued, Tuned, Using, Running, Ending,
        Quiet, Paused
  <2>4. \A k \in Jobs : Erased(k)' /\ Kept(k)'
    BY <1>3, FilesUntouched DEF Crash, LoseMemory, Finished, Quiet, Completed
  <2> QED
    BY <2>1, <2>2, <2>3, <2>4
<1>4. CASE FindInterrupted
  <2>1. TypeOK'
    BY <1>4, SupervisorAssumption
    DEF FindInterrupted, Interrupted, Statuses, Verdicts, Held
  <2>2. PoolInv'
    BY <1>4, PoolUntouched DEF FindInterrupted, Interrupted, Statuses
  <2>3. ASSUME NEW k \in Jobs PROVE Owned(k)' /\ Requeued(k)' /\ Tuned(k)'
    BY <1>4
    DEF FindInterrupted, Interrupted, Statuses, Owned, Requeued, Tuned, Using,
        Running, Ending, Quiet, Paused
  <2>4. \A k \in Jobs : Erased(k)' /\ Kept(k)'
    BY <1>4, FilesUntouched
    DEF FindInterrupted, Interrupted, Statuses, Finished, Quiet, Completed
  <2> QED
    BY <2>1, <2>2, <2>3, <2>4
<1>5. CASE FindInterruptedFails
  <2>1. TypeOK'
    <3>1. unsaved' \subseteq Jobs
      BY <1>5 DEF FindInterruptedFails, Interrupted, Statuses
    <3> QED
      BY <1>5, <3>1 DEF FindInterruptedFails
  <2>2. PoolInv'
    BY <1>5, PoolUntouched DEF FindInterruptedFails
  <2>3. ASSUME NEW k \in Jobs PROVE Owned(k)' /\ Requeued(k)' /\ Tuned(k)'
    BY <1>5
    DEF FindInterruptedFails, Owned, Requeued, Tuned, Using, Running, Ending,
        Quiet, Paused
  <2>4. \A k \in Jobs : Erased(k)' /\ Kept(k)'
    BY <1>5, FilesUntouched
    DEF FindInterruptedFails, Finished, Quiet, Completed
  <2> QED
    BY <2>1, <2>2, <2>3, <2>4
<1>6. CASE RecoveryDone
  <2>1. TypeOK'
    BY <1>6, SupervisorAssumption DEF RecoveryDone, Verdicts, Held
  <2>2. PoolInv'
    BY <1>6, PoolUntouched DEF RecoveryDone
  <2>3. ASSUME NEW k \in Jobs PROVE Owned(k)' /\ Requeued(k)' /\ Tuned(k)'
    BY <1>6
    DEF RecoveryDone, Owned, Requeued, Tuned, Using, Running, Ending, Quiet,
        Paused
  <2>4. \A k \in Jobs : Erased(k)' /\ Kept(k)'
    BY <1>6, FilesUntouched DEF RecoveryDone, Finished, Quiet, Completed
  <2> QED
    BY <2>1, <2>2, <2>3, <2>4
<1>7. CASE PollNothing
  <2>1. TypeOK'
    BY <1>7, SupervisorAssumption DEF PollNothing, Verdicts, Held
  <2>2. PoolInv'
    BY <1>7, PoolUntouched DEF PollNothing
  <2>3. ASSUME NEW k \in Jobs PROVE Owned(k)' /\ Requeued(k)' /\ Tuned(k)'
    BY <1>7
    DEF PollNothing, Owned, Requeued, Tuned, Using, Running, Ending, Quiet,
        Paused, Finished, Completed
  <2>4. \A k \in Jobs : Erased(k)' /\ Kept(k)'
    BY <1>7, FilesUntouched DEF PollNothing, Finished, Quiet, Completed
  <2> QED
    BY <2>1, <2>2, <2>3, <2>4
<1>8. CASE Shutdown
  <2>1. TypeOK'
    BY <1>8, SupervisorAssumption DEF Shutdown, Active, Verdicts, Held
  <2>2. PoolInv'
    BY <1>8, PoolUntouched DEF Shutdown, Active
  <2>3. ASSUME NEW k \in Jobs PROVE Owned(k)' /\ Requeued(k)' /\ Tuned(k)'
    BY <1>8
    DEF Shutdown, Active, Owned, Requeued, Tuned, Using, Running, Ending,
        Quiet, Paused
  <2>4. \A k \in Jobs : Erased(k)' /\ Kept(k)'
    BY <1>8, FilesUntouched DEF Shutdown, Active, Finished, Quiet, Completed
  <2> QED
    BY <2>1, <2>2, <2>3, <2>4
<1> QED
  BY <1>1, <1>2, <1>3, <1>4, <1>5, <1>6, <1>7, <1>8

(* What the loop does to one job *)
LEMMA LoopKeeps ==
    ASSUME SupInv, StoreTypeOK', \A k \in Jobs : Quiet(k),
           NEW j \in Jobs,
           \/ RecoverFinalize(j) \/ RecoverStore(j) \/ RecoverStoreFails(j)
           \/ StartDue(j)
    PROVE  SupInv'
<1> USE DEF SupInv, TypeOK, Steps, storeVars, volatile, jobVars, host,
            rest, history, Unsaved, Goto, GotoFinish, Failed, NoVerdict
<1>1. CASE RecoverFinalize(j)
  BY <1>1, RecoverKeeps
<1>2. CASE RecoverStore(j)
  <2>1. TypeOK'
    <3>1. pending' = [pending EXCEPT ![j] = "none"]
          /\ UNCHANGED <<svc, stopping, restarts, jobVars, host, rest>>
      BY <1>2 DEF RecoverStore, Handled
    <3> QED
      BY <3>1
  <2>2. PoolInv'
    BY <1>2, PoolUntouched DEF RecoverStore, NextPending, Handled
  <2>3. ASSUME NEW k \in Jobs PROVE Owned(k)'
    <3>1. /\ UNCHANGED <<svc, stopping, capture, verdict, proc, del>>
          /\ pending' = [pending EXCEPT ![j] = "none"]
      BY <1>2 DEF RecoverStore, Handled
    <3>2. rows'[k].status = "completed" =>
              rows[k].status = "completed" \/ capture[k] = "idle"
                \/ verdict[k] = Completed
      BY <1>2 DEF Quiet, Finished, Owned, RecoverStore, NextPending
    <3>3. Owned(k) /\ Quiet(k)
      BY DEF Owned
    <3>4. verdict[k] = Completed => capture[k] = "finish"
      BY <3>3 DEF Owned, Completed
    <3> QED
      BY <3>1, <3>2, <3>3, <3>4 DEF Owned, Quiet
  <2>4. ASSUME NEW k \in Jobs PROVE Requeued(k)' /\ Tuned(k)'
    BY <1>2
    DEF RecoverStore, NextPending, Handled, Owned, Requeued, Tuned, Using,
        Running, Ending, Quiet, Paused, Finished, Completed
  <2>5. \A k \in Jobs : Erased(k)' /\ Kept(k)'
    <3>1. UNCHANGED <<disk, erased, survivors, del, verdict>>
      BY <1>2 DEF RecoverStore
    <3>2. pending' = [pending EXCEPT ![j] = "none"]
      BY <1>2 DEF RecoverStore, Handled
    <3>3. ASSUME NEW k \in Jobs, Finished(k)' PROVE Finished(k)
      <4>1. pending'[k] = "completed" => pending[k] = "completed"
        BY <3>2
      <4>2. Quiet(k)
        OBVIOUS
      <4> QED
        BY <3>1, <3>3, <4>1, <4>2 DEF Finished, Quiet
    <3> QED
      BY <3>1, <3>3, FilesUntouched
  <2> QED
    BY <2>1, <2>2, <2>3, <2>4, <2>5
<1>3. CASE RecoverStoreFails(j)
  <2>1. TypeOK'
    BY <1>3, SupervisorAssumption
    DEF RecoverStoreFails, NextPending, Handled, Verdicts, Held
  <2>2. PoolInv'
    BY <1>3, PoolUntouched DEF RecoverStoreFails, NextPending, Handled
  <2>3. ASSUME NEW k \in Jobs PROVE Owned(k)' /\ Requeued(k)' /\ Tuned(k)'
    <3>1. /\ pending' = [pending EXCEPT ![j] = "none"]
          /\ UNCHANGED <<storeVars, svc, stopping, jobVars, host, del,
                         survivors>>
      BY <1>3 DEF RecoverStoreFails, Handled
    <3>2. pending'[k] # "none" => pending[k] # "none"
      BY <3>1
    <3>3. Owned(k) /\ Requeued(k) /\ Tuned(k)
      OBVIOUS
    <3> QED
      BY <3>1, <3>2, <3>3 DEF Owned, Requeued, Tuned
  <2>4. \A k \in Jobs : Erased(k)' /\ Kept(k)'
    <3>1. /\ pending' = [pending EXCEPT ![j] = "none"]
          /\ UNCHANGED <<rows, disk, erased, survivors, del, verdict>>
      BY <1>3 DEF RecoverStoreFails, Handled
    <3>2. ASSUME NEW k \in Jobs, Finished(k)' PROVE Finished(k)
      <4>1. pending'[k] = "completed" => pending[k] = "completed"
        BY <3>1
      <4> QED
        BY <3>1, <3>2, <4>1 DEF Finished
    <3> QED
      BY <3>1, <3>2, FilesUntouched
  <2> QED
    BY <2>1, <2>2, <2>3, <2>4
<1>4. CASE StartDue(j)
  <2>1. TypeOK'
    BY <1>4, SupervisorAssumption
    DEF StartDue, ClaimDueRecording, FirstDue, Due, Statuses, Verdicts, Held
  <2>2. PoolInv'
    BY <1>4, PoolUntouched
    DEF StartDue, ClaimDueRecording, FirstDue, Due, Statuses
  <2>3. ASSUME NEW k \in Jobs PROVE Owned(k)' /\ Requeued(k)' /\ Tuned(k)'
    BY <1>4
    DEF StartDue, ClaimDueRecording, FirstDue, Due, Statuses, Owned, Requeued,
        Tuned, Using, Running, Ending, Quiet, Paused, Finished, Completed,
        Settled
  <2>4. \A k \in Jobs : Erased(k)' /\ Kept(k)'
    BY <1>4, FilesUntouched
    DEF StartDue, ClaimDueRecording, FirstDue, Due, Statuses, Finished, Quiet,
        Completed
  <2> QED
    BY <2>1, <2>2, <2>3, <2>4
<1> QED
  BY <1>1, <1>2, <1>3, <1>4

LEMMA OwnedUntouched ==
    ASSUME SupInv, NEW j \in Jobs, Quiet(j),
           UNCHANGED <<volatile, jobVars, host, rest>>
    PROVE  Owned(j)'
  BY DEF SupInv, TypeOK, volatile, jobVars, host, rest, history, Owned, Quiet,
         NoVerdict, Completed, Finished

(* A job is accepted; time passes. *)
LEMMA CreateKeeps ==
    ASSUME SupInv, StoreTypeOK', \A k \in Jobs : Quiet(k),
           CreateRecording \/ ClockTick
    PROVE  SupInv'
<1> USE DEF SupInv, TypeOK, Steps, storeVars, volatile, jobVars, host,
            rest, history, Unsaved, Goto, GotoFinish, Failed, NoVerdict
<1>1. CASE UNCHANGED <<volatile, jobVars, host, rest>>
  <2>1. TypeOK'
    BY <1>1, SupervisorAssumption DEF Verdicts, Held
  <2>2. PoolInv'
    BY <1>1, PoolUntouched
  <2>3. ASSUME NEW k \in Jobs PROVE Owned(k)'
    BY <1>1, OwnedUntouched
  <2>4. ASSUME NEW k \in Jobs PROVE Requeued(k)' /\ Tuned(k)'
    BY <1>1
    DEF Owned, Requeued, Tuned, Using, Running, Ending, Quiet, Paused,
        Finished, Completed
  <2>5. \A k \in Jobs : Erased(k)' /\ Kept(k)'
    BY <1>1, FilesUntouched DEF Finished, Quiet, Completed
  <2> QED
    BY <2>1, <2>2, <2>3, <2>4, <2>5
<1> QED
  BY <1>1 DEF CreateRecording, ClockTick

LEMMA CancelSettles ==
    ASSUME StoreTypeOK, NEW j \in Jobs, CancelRecording(j)
    PROVE  /\ rows'[j].status \in Settled
           /\ rows'[j].status = "completed" => rows[j].status = "completed"
  BY DEF CancelRecording, Cancelled, Accepted, Settled, Status, StoreTypeOK,
         Row

(* The handler of DELETE, up to the removal of the row *)
LEMMA DeleteKeeps ==
    ASSUME SupInv, StoreTypeOK', \A k \in Jobs : Quiet(k),
           NEW j \in Jobs,
           \/ DeleteRequest(j) \/ DeleteCancels(j)
           \/ DeleteAwaited(j) \/ DeleteAbandoned(j)
           \/ RemoveFiles(j) \/ RemoveFilesFails(j) \/ DropRowFails(j)
    PROVE  SupInv'
<1> USE DEF SupInv, TypeOK, Steps, storeVars, volatile, jobVars, host,
            rest, history, Unsaved, Goto, GotoFinish, Failed, NoVerdict
<1>1. CASE DeleteRequest(j)
  <2>1. TypeOK'
    <3>1. del' \in [Jobs -> {"idle", "cancel", "await", "remove", "drop"}]
      BY <1>1 DEF DeleteRequest
    <3> QED
      BY <1>1, <3>1 DEF DeleteRequest
  <2>2. PoolInv'
    BY <1>1, PoolUntouched DEF DeleteRequest, CancelRecording, Active
  <2>3. ASSUME NEW k \in Jobs PROVE Owned(k)'
    <3>1. CASE k = j
      <4>1. /\ rows'[j].status \in Settled
            /\ rows'[j].status = "completed" => rows[j].status = "completed"
        BY <1>1, CancelSettles DEF DeleteRequest
      <4> QED
        BY <1>1, <3>1, <4>1 DEF DeleteRequest, Active, Owned, Quiet
    <3>2. CASE k # j
      BY <1>1, <3>2 DEF DeleteRequest, CancelRecording, Active, Owned
    <3> QED
      BY <3>1, <3>2
  <2>4. ASSUME NEW k \in Jobs PROVE Requeued(k)' /\ Tuned(k)'
    BY <1>1
    DEF DeleteRequest, CancelRecording, Active, Owned, Requeued, Tuned, Using,
        Running, Ending, Quiet, Paused, Finished, Completed, Cancelled,
        Accepted, Settled
  <2>5. \A k \in Jobs : Erased(k)' /\ Kept(k)'
    BY <1>1, FilesUntouched
    DEF DeleteRequest, CancelRecording, Active, Finished, Quiet, Completed
  <2> QED
    BY <2>1, <2>2, <2>3, <2>4, <2>5
<1>2. CASE DeleteAwaited(j)
  <2>1. TypeOK'
    BY <1>2, SupervisorAssumption DEF DeleteAwaited, Verdicts, Held
  <2>2. PoolInv'
    BY <1>2, PoolUntouched DEF DeleteAwaited
  <2>3. ASSUME NEW k \in Jobs PROVE Owned(k)' /\ Requeued(k)' /\ Tuned(k)'
    BY <1>2
    DEF DeleteAwaited, Owned, Requeued, Tuned, Using, Running, Ending, Quiet,
        Paused
  <2>4. \A k \in Jobs : Erased(k)' /\ Kept(k)'
    BY <1>2, FilesUntouched DEF DeleteAwaited, Finished, Quiet, Completed
  <2> QED
    BY <2>1, <2>2, <2>3, <2>4
<1>3. CASE DeleteAbandoned(j)
  <2>1. TypeOK'
    BY <1>3, SupervisorAssumption DEF DeleteAbandoned, Verdicts, Held
  <2>2. PoolInv'
    BY <1>3, PoolUntouched DEF DeleteAbandoned
  <2>3. ASSUME NEW k \in Jobs PROVE Owned(k)' /\ Requeued(k)' /\ Tuned(k)'
    BY <1>3
    DEF DeleteAbandoned, Owned, Requeued, Tuned, Using, Running, Ending,
        Quiet, Paused
  <2>4. \A k \in Jobs : Erased(k)' /\ Kept(k)'
    BY <1>3, FilesUntouched DEF DeleteAbandoned, Finished, Quiet, Completed
  <2> QED
    BY <2>1, <2>2, <2>3, <2>4
<1>4. CASE RemoveFiles(j)
  <2>1. TypeOK'
    BY <1>4, SupervisorAssumption DEF RemoveFiles, Verdicts, Held
  <2>2. PoolInv'
    BY <1>4, PoolUntouched DEF RemoveFiles
  <2>3. ASSUME NEW k \in Jobs PROVE Owned(k)' /\ Requeued(k)' /\ Tuned(k)'
    BY <1>4
    DEF RemoveFiles, Owned, Requeued, Tuned, Using, Running, Ending, Quiet,
        Paused
  <2>4. \A k \in Jobs : Erased(k)' /\ Kept(k)'
    <3>1. rows[j].status # "new" /\ Folder(j) \in Folders
      BY <1>4, OwnFolder DEF RemoveFiles, Owned, Settled
    <3>2. Folder(j)' = Folder(j) /\ (Shares(j) => Shares(j)')
      BY <3>1, SharesStable
    <3>3. Erased(j)'
      BY <1>4, <3>1, <3>2 DEF RemoveFiles, Erased, Quiet, Owned
    <3>4. Kept(j)'
      BY <1>4, <3>1, <3>2
      DEF RemoveFiles, Kept, Finished, Quiet, Owned, Completed
    <3> QED
      BY <1>4, <3>1, <3>2, <3>3, <3>4, FilesOfOneJob
      DEF RemoveFiles, Finished, Completed
  <2> QED
    BY <2>1, <2>2, <2>3, <2>4
<1>5. CASE RemoveFilesFails(j)
  <2>1. TypeOK'
    BY <1>5, SupervisorAssumption DEF RemoveFilesFails, Verdicts, Held
  <2>2. PoolInv'
    BY <1>5, PoolUntouched DEF RemoveFilesFails
  <2>3. ASSUME NEW k \in Jobs PROVE Owned(k)' /\ Requeued(k)' /\ Tuned(k)'
    BY <1>5
    DEF RemoveFilesFails, Owned, Requeued, Tuned, Using, Running, Ending,
        Quiet, Paused
  <2>4. \A k \in Jobs : Erased(k)' /\ Kept(k)'
    BY <1>5, FilesUntouched DEF RemoveFilesFails, Finished, Quiet, Completed
  <2> QED
    BY <2>1, <2>2, <2>3, <2>4
<1>6. CASE DropRowFails(j)
  <2>1. TypeOK'
    BY <1>6, SupervisorAssumption DEF DropRowFails, Verdicts, Held
  <2>2. PoolInv'
    BY <1>6, PoolUntouched DEF DropRowFails
  <2>3. ASSUME NEW k \in Jobs PROVE Owned(k)' /\ Requeued(k)' /\ Tuned(k)'
    BY <1>6
    DEF DropRowFails, Owned, Requeued, Tuned, Using, Running, Ending, Quiet,
        Paused
  <2>4. \A k \in Jobs : Erased(k)' /\ Kept(k)'
    BY <1>6, FilesUntouched DEF DropRowFails, Finished, Quiet, Completed
  <2> QED
    BY <2>1, <2>2, <2>3, <2>4
<1>7. CASE DeleteCancels(j)
  <2>1. TypeOK'
    <3>1. cause' \in [Jobs -> {"none", "deleted", "shutdown"}]
      BY <1>7 DEF DeleteCancels
    <3> QED
      BY <1>7, <3>1 DEF DeleteCancels
  <2>2. PoolInv'
    BY <1>7, PoolUntouched DEF DeleteCancels
  <2>3. ASSUME NEW k \in Jobs PROVE Owned(k)' /\ Requeued(k)' /\ Tuned(k)'
    BY <1>7
    DEF DeleteCancels, Owned, Requeued, Tuned, Using, Running, Ending, Quiet,
        Paused
  <2>4. \A k \in Jobs : Erased(k)' /\ Kept(k)'
    BY <1>7, FilesUntouched DEF DeleteCancels, Finished, Quiet, Completed
  <2> QED
    BY <2>1, <2>2, <2>3, <2>4
<1> QED
  BY <1>1, <1>2, <1>3, <1>4, <1>5, <1>6, <1>7

(* FFmpeg *)
LEMMA FfmpegKeeps ==
    ASSUME SupInv, StoreTypeOK', \A k \in Jobs : Quiet(k),
           NEW j \in Jobs, FfmpegWrites(j) \/ FfmpegExits(j)
    PROVE  SupInv'
<1> USE DEF SupInv, TypeOK, Steps, storeVars, volatile, jobVars, host,
            rest, history, Unsaved, Goto, GotoFinish, Failed, NoVerdict
<1>1. CASE FfmpegWrites(j)
  <2>1. TypeOK'
    BY <1>1, SupervisorAssumption DEF FfmpegWrites, Verdicts, Held
  <2>2. PoolInv'
    BY <1>1, PoolUntouched DEF FfmpegWrites
  <2>3. ASSUME NEW k \in Jobs PROVE Owned(k)' /\ Requeued(k)' /\ Tuned(k)'
    BY <1>1
    DEF FfmpegWrites, Owned, Requeued, Tuned, Using, Running, Ending, Quiet,
        Paused
  <2>4. \A k \in Jobs : Erased(k)' /\ Kept(k)'
    <3>1. rows[j].status # "new" /\ Folder(j) \in Folders
      BY <1>1, OwnFolder DEF FfmpegWrites, Owned, Settled
    <3>2. Folder(j)' = Folder(j) /\ (Shares(j) => Shares(j)')
      BY <3>1, SharesStable
    <3>3. Erased(j)'
      BY <1>1, <3>1, <3>2 DEF FfmpegWrites, Erased, Quiet, Owned
    <3>4. Kept(j)'
      BY <1>1, <3>1, <3>2
      DEF FfmpegWrites, Kept, Finished, Quiet, Owned, Tuned, Running,
          Completed
    <3> QED
      BY <1>1, <3>1, <3>2, <3>3, <3>4, FilesOfOneJob
      DEF FfmpegWrites, Finished, Completed
  <2> QED
    BY <2>1, <2>2, <2>3, <2>4
<1>2. CASE FfmpegExits(j)
  <2>1. TypeOK'
    <3>1. disk' \in [Folders -> {"absent", "empty", "open", "ended"}]
      BY <1>2 DEF FfmpegExits, TypeOK
    <3> QED
      BY <1>2, <3>1 DEF FfmpegExits, TypeOK, storeVars, volatile, jobVars,
                        rest, history
  <2>2. PoolInv'
    BY <1>2, PoolUntouched DEF FfmpegExits
  <2>3. ASSUME NEW k \in Jobs PROVE Owned(k)' /\ Requeued(k)' /\ Tuned(k)'
    BY <1>2
    DEF FfmpegExits, Owned, Requeued, Tuned, Using, Running, Ending, Quiet,
        Paused
  <2>4. \A k \in Jobs : Erased(k)' /\ Kept(k)'
    <3>1. rows[j].status # "new" /\ Folder(j) \in Folders
      BY <1>2, OwnFolder DEF FfmpegExits, Owned, Settled
    <3>2. Folder(j)' = Folder(j) /\ (Shares(j) => Shares(j)')
      BY <3>1, SharesStable
    <3>3. Erased(j)'
      BY <1>2, <3>1, <3>2 DEF FfmpegExits, Erased, Quiet, Owned
    <3>4. Kept(j)'
      BY <1>2, <3>1, <3>2
      DEF FfmpegExits, Kept, Finished, Quiet, Owned, Tuned, Running, Completed
    <3> QED
      BY <1>2, <3>1, <3>2, <3>3, <3>4, FilesOfOneJob
      DEF FfmpegExits, Finished, Completed
  <2> QED
    BY <2>1, <2>2, <2>3, <2>4
<1> QED
  BY <1>1, <1>2

(* Live sessions *)
LEMMA SessionKeeps ==
    ASSUME SupInv, StoreTypeOK', \A k \in Jobs : Quiet(k),
           NEW s \in Sessions, LiveStep(s)
    PROVE  SupInv'
<1> USE DEF SupInv, TypeOK, Steps, storeVars, volatile, jobVars, host,
            rest, history, Unsaved, Goto, GotoFinish, Failed, NoVerdict
<1>1. CASE LiveStart(s)
  <2>1. TypeOK'
    BY <1>1, SupervisorAssumption DEF LiveStart, Verdicts, Held
  <2>2. PoolInv'
    BY <1>1, SessionOpened DEF LiveStart
  <2>3. ASSUME NEW k \in Jobs PROVE Owned(k)' /\ Requeued(k)' /\ Tuned(k)'
    BY <1>1
    DEF LiveStart, Owned, Requeued, Tuned, Using, Running, Ending, Quiet,
        Paused
  <2>4. \A k \in Jobs : Erased(k)' /\ Kept(k)'
    BY <1>1, FilesUntouched DEF LiveStart, Finished, Quiet, Completed
  <2> QED
    BY <2>1, <2>2, <2>3, <2>4
<1>2. CASE LiveEnd(s)
  <2>1. TypeOK'
    BY <1>2, SupervisorAssumption DEF LiveEnd, Verdicts, Held
  <2>2. PoolInv'
    <3>1. "gone" \in {"gone", "lost"}
      OBVIOUS
    <3> QED
      BY <1>2, <3>1, SessionClosed DEF LiveEnd
  <2>3. ASSUME NEW k \in Jobs PROVE Owned(k)' /\ Requeued(k)' /\ Tuned(k)'
    BY <1>2
    DEF LiveEnd, Owned, Requeued, Tuned, Using, Running, Ending, Quiet, Paused
  <2>4. \A k \in Jobs : Erased(k)' /\ Kept(k)'
    BY <1>2, FilesUntouched DEF LiveEnd, Finished, Quiet, Completed
  <2> QED
    BY <2>1, <2>2, <2>3, <2>4
<1>3. CASE LiveStartFails(s)
  <2>1. TypeOK'
    BY <1>3, SupervisorAssumption DEF LiveStartFails, Verdicts, Held
  <2>2. PoolInv'
    <3>1. "lost" \in {"gone", "lost"}
      OBVIOUS
    <3> QED
      BY <1>3, <3>1, SessionClosed DEF LiveStartFails
  <2>3. ASSUME NEW k \in Jobs PROVE Owned(k)' /\ Requeued(k)' /\ Tuned(k)'
    BY <1>3
    DEF LiveStartFails, Owned, Requeued, Tuned, Using, Running, Ending, Quiet,
        Paused
  <2>4. \A k \in Jobs : Erased(k)' /\ Kept(k)'
    BY <1>3, FilesUntouched DEF LiveStartFails, Finished, Quiet, Completed
  <2> QED
    BY <2>1, <2>2, <2>3, <2>4
<1> QED
  BY <1>1, <1>2, <1>3 DEF LiveStep

(* The row is removed: its job has neither goroutine nor files left. *)
LEMMA DropRowKeeps ==
    ASSUME SupInv, StoreTypeOK', NEW j \in Jobs, DropRow(j)
    PROVE  SupInv'
<1> USE DEF SupInv
<1>1. /\ rows[j].status \in Settled /\ capture[j] = "idle" /\ del[j] = "drop"
      /\ rows' = [rows EXCEPT ![j].status = "deleted",
                                ![j].error = "none"]
      /\ del' = [del EXCEPT ![j] = "idle"]
      /\ UNCHANGED <<volatile, jobVars, host, history>>
  BY DEF DropRow, DeleteRecording, Owned
<1>2. /\ rows'[j].status = "deleted" /\ rows'[j].program = rows[j].program
      /\ \A k \in Jobs \ {j} : rows'[k] = rows[k]
  BY <1>1 DEF TypeOK, StoreTypeOK, Row
<1>3. TypeOK'
  BY <1>1 DEF TypeOK, volatile, jobVars, host, history
<1>4. PoolInv'
  BY <1>1, PoolUntouched DEF host
<1>5. ASSUME NEW k \in Jobs PROVE Owned(k)' /\ Requeued(k)' /\ Tuned(k)'
  <2>1. CASE k = j
    BY <1>1, <1>2, <2>1
    DEF TypeOK, volatile, jobVars, host, history, Owned, Requeued, Tuned,
        Settled
  <2>2. CASE k # j
    <3>1. rows'[k] = rows[k] /\ del'[k] = del[k]
      BY <1>1, <1>2, <2>2 DEF TypeOK
    <3>2. UNCHANGED <<volatile, jobVars, host, history>>
      BY <1>1
    <3>3. Owned(k)'
      BY <3>1, <3>2 DEF volatile, jobVars, host, Owned
    <3>4. Requeued(k)' /\ Tuned(k)'
      BY <3>1, <3>2 DEF volatile, jobVars, host, history, Requeued, Tuned
    <3> QED
      BY <3>3, <3>4
  <2> QED
    BY <2>1, <2>2
<1>6. ASSUME NEW k \in Jobs PROVE Erased(k)' /\ Kept(k)'
  <2>1. Folder(k)' = Folder(k) /\ (Shares(k) => Shares(k)')
    BY <1>1, <1>2 DEF Folder, Shares, Settled, Jobs
  <2>2. CASE k = j
    <3>1. Erased(j)'
      BY <1>1, <1>2, <2>1, <2>2 DEF Erased, host
    <3>2. Finished(j)' => Finished(j)
      BY <1>1, <1>2 DEF Finished, volatile, jobVars
    <3> QED
      BY <1>1, <2>1, <2>2, <3>1, <3>2 DEF Kept, host, history
  <2>3. CASE k # j
    BY <1>1, <1>2, <2>1, <2>3
    DEF TypeOK, volatile, jobVars, host, history, Erased, Kept, Finished
  <2> QED
    BY <2>2, <2>3
<1> QED
  BY <1>3, <1>4, <1>5, <1>6

LEMMA StutterKeeps == ASSUME SupInv, UNCHANGED vars PROVE SupInv'
<1>1. TypeOK'
  BY DEF SupInv, TypeOK, StoreTypeOK, vars, storeVars, volatile, jobVars,
         host, rest, history
<1>2. PoolInv'
  BY PoolUntouched DEF SupInv, vars, host
<1>3. ASSUME NEW j \in Jobs
      PROVE  Owned(j)' /\ Requeued(j)' /\ Tuned(j)' /\ Erased(j)' /\ Kept(j)'
  BY DEF SupInv, vars, storeVars, volatile, jobVars, host, rest, history, Owned,
         Requeued, Tuned, Erased, Kept, Finished, Shares, Folder
<1> QED
  BY <1>1, <1>2, <1>3 DEF SupInv

LEMMA SupInit == Init => SupInv
<1> SUFFICES ASSUME Init PROVE SupInv
  OBVIOUS
<1>1. TypeOK
  <2>1. StoreTypeOK
    BY StoreTypeInit DEF Init
  <2>2. restarts \in 0 .. MaxRestarts /\ ~stopping
    BY BoundIsNat DEF Init
  <2> QED
    BY <2>1, <2>2 DEF Init, TypeOK, Steps, Verdicts
<1>2. PoolInv
  <2>1. pool = {} /\ Held = {}
    BY DEF Init, Held
  <2> QED
    BY <2>1, FS_EmptySet, CapacityPositive DEF PoolInv, InUse, Capacity
<1>3. ASSUME NEW j \in Jobs
      PROVE  Owned(j) /\ Requeued(j) /\ Tuned(j) /\ Erased(j) /\ Kept(j)
  BY DEF Init, StoreInit, NoRow, Owned, Requeued, Tuned, Using, Running,
         Ending, Erased, Kept, Finished, Completed, NoVerdict
<1> QED
  BY <1>1, <1>2, <1>3 DEF SupInv

LEMMA SupStep == SupInv /\ [Next]_vars => SupInv'
<1> SUFFICES ASSUME SupInv, [Next]_vars PROVE SupInv'
  OBVIOUS
<1>1. StoreTypeOK'
  <2>1. StoreTypeOK
    BY DEF SupInv, TypeOK
  <2>2. [StoreNext]_storeVars
    BY NextWrites, WritesAreSteps DEF SupInv, DropRow, StoreNext
  <2> QED
    BY <2>1, <2>2, StoreTypeStep
<1>2. CASE \E j \in Jobs : DropRow(j)
  BY <1>1, <1>2, DropRowKeeps
<1>3. CASE UNCHANGED vars
  BY <1>3, StutterKeeps
<1>4. CASE Next /\ ~ \E j \in Jobs : DropRow(j)
  <2>1. \A k \in Jobs : Quiet(k)
    <3>1. StoreWrites
      BY <1>4, NextWrites DEF SupInv
    <3> QED
      BY <3>1, WritesAreQuiet DEF SupInv, TypeOK
  <2>2. CASE \/ RunStep \/ Shutdown \/ Crash \/ ClockTick \/ CreateRecording
    BY <1>1, <2>1, <2>2, ServiceKeeps, LoopKeeps, CreateKeeps DEF RunStep
  <2>3. ASSUME NEW j \in Jobs,
               CaptureStep(j) \/ FfmpegWrites(j) \/ FfmpegExits(j)
        PROVE  SupInv'
    BY <1>1, <2>1, <2>3, CaptureKeeps, FfmpegKeeps
  <2>4. ASSUME NEW j \in Jobs,
               DeleteRequest(j) \/ DeleteStep(j) \/ DeleteAbandoned(j)
        PROVE  SupInv'
    BY <1>1, <1>4, <2>1, <2>4, DeleteKeeps DEF DeleteStep
  <2>5. ASSUME NEW s \in Sessions, LiveStep(s) PROVE SupInv'
    BY <1>1, <2>1, <2>5, SessionKeeps
  <2> QED
    BY <1>4, <2>2, <2>3, <2>4, <2>5 DEF Next
<1> QED
  BY <1>2, <1>3, <1>4

-----------------------------------------------------------------------------
(* What holds of the service *)

(* The inductive invariant holds in every reachable state.                 *)
THEOREM SupInvariant == Spec => []SupInv
  BY SupInit, SupStep, PTL DEF Spec

(* Every variable of the supervisor keeps its type; at most MaxRestarts    *)
(* shutdowns and crashes are counted.                                      *)
THEOREM SupervisorTypeCorrect == Spec => []TypeOK
  BY SupInvariant, PTL DEF SupInv

(* Recordings and live sessions together never hold more tuners than there *)
(* are, a tuner a recording holds has a goroutine that will release it,    *)
(* and an FFmpeg without a tuner outlived its stop: through preemption,    *)
(* deletion, shutdown, crash and recovery, whatever fails.                 *)
THEOREM SupervisorTunersNotOverdrawn == Spec => []TunersNotOverdrawn
<1>1. SupInv => TunersNotOverdrawn
  BY DEF SupInv, TypeOK, PoolInv, Tuned, Using, Running, Ending,
         TunersNotOverdrawn
<1> QED
  BY <1>1, SupInvariant, PTL

(* Whatever moment of a capture a DELETE meets, when the row is gone there *)
(* is no goroutine, tuner or file left of the job, even if its FFmpeg      *)
(* outlived its stop, and no FFmpeg if it did not.                         *)
THEOREM DeletionLeavesNothing == Spec => []DeletedLeavesNothing
<1>1. SupInv => DeletedLeavesNothing
  <2> SUFFICES ASSUME SupInv, NEW j \in Jobs, rows[j].status = "deleted"
               PROVE  /\ capture[j] = "idle" /\ j \notin pool
                      /\ ~proc[j] \/ j \in survivors
                      /\ disk[Folder(j)] = "absent" \/ Shares(j)
    BY DEF DeletedLeavesNothing, Statuses
  <2>1. capture[j] = "idle"
    BY DEF SupInv, Owned
  <2> QED
    BY <2>1 DEF SupInv, Erased, Tuned, Using, Running, Ending
<1> QED
  BY <1>1, SupInvariant, PTL

(* A job reported completed, by its goroutine or by recovery, has a finite *)
(* playlist until its files are removed, unless its FFmpeg outlived its    *)
(* stop.                                                                   *)
THEOREM CompletionIsPlayable == Spec => []CompletedIsPlayable
<1>1. SupInv => CompletedIsPlayable
  BY DEF SupInv, Kept, Finished, CompletedIsPlayable, Statuses
<1> QED
  BY <1>1, SupInvariant, PTL

LEMMA ServiceSteps == SupInv /\ [Next]_vars => [StoreNext]_storeVars
  BY NextWrites, WritesAreSteps DEF SupInv, DropRow, StoreNext

(* Inside the running service too, with its goroutines, recovery and HTTP  *)
(* handlers writing concurrently, no instant is ever promised more tuners  *)
(* than there are.                                                         *)
THEOREM ServiceNeverOvercommits == Spec => []NoOvercommit
<1>1. Spec => []NeverCrowded
  <2>1. Init => NeverCrowded
    BY NeverCrowdedInit DEF Init
  <2>2. SupInv /\ NeverCrowded /\ [Next]_vars => NeverCrowded'
    BY ServiceSteps, NeverCrowdedStep DEF SupInv, TypeOK
  <2> QED
    BY <2>1, <2>2, SupInvariant, PTL DEF Spec
<1>2. SupInv /\ NeverCrowded => NoOvercommit
  BY StartsNotCrowded DEF SupInv, TypeOK
<1> QED
  BY <1>1, <1>2, SupInvariant, PTL

LEMMA ServiceLifecycleStep ==
    SupInv /\ SupInv' /\ [Next]_vars => Lifecycle!Next
<1> SUFFICES ASSUME SupInv, SupInv', [Next]_vars PROVE Lifecycle!Next
  OBVIOUS
<1>1. \A k \in Jobs : rows'[k].status \in Lifecycle!Phases
  BY DEF SupInv, TypeOK, StoreTypeOK, Row, Status, Accepted, Settled,
         Lifecycle!Phases, Lifecycle!Terminal
<1>2. ASSUME NEW k \in Jobs, rows'[k].status # rows[k].status
      PROVE  <<rows[k].status, rows'[k].status>> \in Lifecycle!Moves
  <2>1. <<rows[k].status, rows'[k].status>> \in StoreLifecycle!Moves
    BY <1>2, ServiceSteps, EachJobMoves DEF SupInv, TypeOK
  <2>2. rows'[k].status = "deleted" => rows[k].status \in Settled
    <3>1. CASE \E j \in Jobs : DropRow(j)
      <4>1. PICK j \in Jobs : DropRow(j)
        BY <3>1
      <4>2. /\ rows[j].status \in Settled
            /\ rows' = [rows EXCEPT ![j].status = "deleted",
                                ![j].error = "none"]
        BY <4>1 DEF DropRow, DeleteRecording, SupInv, Owned
      <4> QED
        BY <1>2, <4>2 DEF SupInv, TypeOK, StoreTypeOK
    <3>2. CASE StoreWrites
      BY <1>2, <3>2, WritesAreQuiet DEF SupInv, TypeOK, Quiet
    <3> QED
      BY <3>1, <3>2, NextWrites DEF SupInv
  <2> QED
    BY <2>1, <2>2 DEF StoreLifecycle!Moves, Lifecycle!Moves
<1> QED
  BY <1>1, <1>2 DEF Lifecycle!Next

(* The service as a whole implements the life cycle, and is stricter than  *)
(* its table: a row is removed only when its job is settled, however       *)
(* deletion, capture, recovery and the clock interleave.                   *)
THEOREM ServiceKeepsLifecycle == Spec => KeepsLifecycle
<1>1. Init => Lifecycle!Init
  BY DEF Init, StoreInit, NoRow, Lifecycle!Init
<1> QED
  BY <1>1, SupInvariant, ServiceLifecycleStep, PTL
  DEF Spec, KeepsLifecycle, Lifecycle!Spec

-----------------------------------------------------------------------------
(* Media are removed by a DELETE only. *)

LEMMA OnlyRemoval ==
    ASSUME TypeOK, [Next]_vars, NEW f \in Folders,
           disk[f] \in Playable, disk'[f] \notin Playable
    PROVE  \E k \in Jobs : RemoveFiles(k) /\ f = Folder(k)
<1> USE DEF TypeOK, host, Playable
<1>1. CASE RunStep
  <2>1. ASSUME NEW j \in Jobs, RecoverFinalize(j) PROVE FALSE
    BY <2>1 DEF RecoverFinalize, Finalize, FinalizeFails
  <2> QED
    BY <1>1, <2>1
    DEF RunStep, Boot, Exit, LoseMemory, FindInterrupted,
        FindInterruptedFails, RecoveryDone, PollNothing, RecoverStore,
        RecoverStoreFails, StartDue
<1>2. CASE Shutdown \/ Crash \/ ClockTick \/ CreateRecording \/ UNCHANGED vars
  BY <1>2 DEF Shutdown, Crash, LoseMemory, ClockTick, CreateRecording, vars
<1>3. ASSUME NEW j \in Jobs, CaptureStep(j) PROVE FALSE
  <2>1. CASE StartProcess(j) \/ StartFails(j)
    BY <2>1 DEF StartProcess, StartFails, MkdirAll
  <2>2. CASE Complete(j)
    BY <2>2 DEF Complete, Finalize, FinalizeFails
  <2> QED
    BY <1>3, <2>1, <2>2
    DEF CaptureStep, Acquire, AwaitPreempted, Persist, PersistFails, Reap,
        Watch, ProcessStopped, StopProcess, StoreOutcome, StoreOutcomeFails,
        Release, Deregister
<1>4. ASSUME NEW j \in Jobs,
             \/ DeleteRequest(j) \/ DeleteStep(j) \/ DeleteAbandoned(j)
             \/ FfmpegWrites(j) \/ FfmpegExits(j)
      PROVE  RemoveFiles(j) /\ f = Folder(j)
  BY <1>4
  DEF DeleteRequest, DeleteStep, DeleteCancels, DeleteAwaited, DeleteAbandoned, RemoveFiles,
      RemoveFilesFails, DropRow, DropRowFails, FfmpegWrites, FfmpegExits
<1>5. ASSUME NEW s \in Sessions, LiveStep(s) PROVE FALSE
  BY <1>5 DEF LiveStep, LiveStart, LiveEnd, LiveStartFails
<1> QED
  BY <1>1, <1>2, <1>3, <1>4, <1>5 DEF Next

(* Deletion, recovery, resumption and the start of other captures leave    *)
(* the media of an active recording alone, if its folder is its own.       *)
THEOREM ActiveMediaKept == Spec => OwnMediaKept
<1>1. ASSUME SupInv, [Next]_vars, NEW j \in Jobs,
             rows[j].status = "recording", rows'[j].status = "recording",
             disk[Folder(j)] \in Playable, ~Shares(j)
      PROVE  disk'[Folder(j)] \in Playable
  <2>1. Folder(j) \in Folders
    BY <1>1, OwnFolder DEF SupInv
  <2>2. ASSUME disk'[Folder(j)] \notin Playable PROVE FALSE
    <3>1. PICK k \in Jobs : RemoveFiles(k) /\ Folder(j) = Folder(k)
      BY <1>1, <2>1, <2>2, OnlyRemoval DEF SupInv
    <3>2. rows[k].status \in Settled
      BY <1>1, <3>1 DEF RemoveFiles, SupInv, Owned
    <3> QED
      BY <1>1, <3>1, <3>2 DEF Settled, Shares
  <2> QED
    BY <2>2
<1>2. SupInv /\ [Next]_vars =>
        [\A j \in Jobs :
            (/\ rows[j].status = "recording" /\ rows'[j].status = "recording"
             /\ disk[Folder(j)] \in Playable /\ ~Shares(j))
                => disk'[Folder(j)] \in Playable]_vars
  BY <1>1
<1> QED
  BY <1>2, SupInvariant, PTL DEF Spec, OwnMediaKept

-----------------------------------------------------------------------------
(* A refusal needs an overrun. *)

(* A job is recorded only once its window has begun. *)
Started == \A j \in Jobs : rows[j].status = "recording" => rows[j].from <= now

LEMMA StartedStep ==
    StoreTypeOK /\ Started /\ [StoreNext]_storeVars => Started'
<1> SUFFICES ASSUME StoreTypeOK, Started, [StoreNext]_storeVars,
                    NEW k \in Jobs, rows'[k].status = "recording"
             PROVE  rows'[k].from <= now'
  BY DEF Started, Jobs
<1> USE DEF StoreTypeOK, Row, Started
<1>1. ASSUME NEW p \in Programs, NEW pre, NEW post, Schedule(p, pre, post)
      PROVE  rows'[k].from <= now'
  BY <1>1 DEF Schedule, Insert
<1>2. CASE ClaimNothing
  BY <1>2 DEF ClaimNothing, WithElapsedClosed, Elapsed, Statuses
<1>3. ASSUME NEW j \in Jobs, ClaimDueRecording(j)
      PROVE  rows'[k].from <= now'
  BY <1>3
  DEF ClaimDueRecording, FirstDue, Due, WithElapsedClosed, Elapsed, Statuses
<1>4. ASSUME NEW j \in Jobs, SetRecordingProcess(j)
      PROVE  rows'[k].from <= now'
  BY <1>4 DEF SetRecordingProcess, storeVars
<1>5. ASSUME NEW j \in Jobs, NEW s, NEW e, FinishRecording(j, s, e),
             s # "recording"
      PROVE  rows'[k].from <= now'
  BY <1>5 DEF FinishRecording
<1>6. ASSUME NEW j \in Jobs, NEW e, RequeueRecording(j, e)
      PROVE  rows'[k].from <= now'
  BY <1>6 DEF RequeueRecording
<1>7. ASSUME NEW j \in Jobs, CancelRecording(j) \/ DeleteRecording(j)
      PROVE  rows'[k].from <= now'
  BY <1>7 DEF CancelRecording, Cancelled, DeleteRecording
<1>8. CASE Tick \/ UNCHANGED storeVars
  <2>1. rows'[k].from \in Int /\ now \in Int
    BY <1>8 DEF Tick, storeVars
  <2> QED
    BY <1>8, <2>1 DEF Tick, storeVars
<1> QED
  BY <1>1, <1>2, <1>3, <1>4, <1>5, <1>6, <1>7, <1>8 DEF StoreNext

LEMMA Messages ==
    NoVerdict.error = "none" /\ Failed("no tuner").error = "no tuner"
  BY DEF NoVerdict, Failed

(* The only steps that decide "no tuner": the pool is full, of recordings. *)
LEMMA RefusalFindsPoolFull ==
    ASSUME TypeOK, [Next]_vars, NEW j \in Jobs,
           verdict[j].error = "none", verdict'[j].error = "no tuner"
    PROVE  capture[j] = "acquire" /\ InUse >= Capacity /\ Held = {}
<1> USE DEF TypeOK, jobVars, NoVerdict, Failed
<1>1. CASE RunStep \/ Shutdown \/ Crash \/ ClockTick \/ CreateRecording
  <2>1. CASE Exit \/ Crash
    <3>1. verdict' = [k \in Jobs |-> NoVerdict]
      BY <2>1, Zenon DEF Exit, Crash, LoseMemory
    <3> QED
      BY <3>1
  <2>2. ASSUME NEW k \in Jobs,
               \/ RecoverFinalize(k) \/ RecoverStore(k)
               \/ RecoverStoreFails(k) \/ StartDue(k)
        PROVE  FALSE
    BY <2>2 DEF RecoverFinalize, RecoverStore, RecoverStoreFails, StartDue
  <2>3. CASE Shutdown \/ ClockTick \/ CreateRecording
    BY <2>3 DEF Shutdown, ClockTick, CreateRecording
  <2>4. CASE \/ Boot \/ FindInterrupted \/ FindInterruptedFails
             \/ RecoveryDone \/ PollNothing
    BY <2>4 DEF Boot, FindInterrupted, FindInterruptedFails, RecoveryDone,
                PollNothing
  <2> QED
    BY <1>1, <2>1, <2>2, <2>3, <2>4 DEF RunStep
<1>2. ASSUME NEW k \in Jobs, CaptureStep(k)
      PROVE  capture[j] = "acquire" /\ InUse >= Capacity /\ Held = {}
  <2>1. CASE Acquire(k)
    BY <2>1 DEF Acquire, Refused, Goto, GotoFinish
  <2>2. CASE AwaitPreempted(k)
    BY <2>2 DEF AwaitPreempted, Refused
  <2>3. CASE \/ StartProcess(k) \/ Persist(k) \/ PersistFails(k)
             \/ ProcessStopped(k) \/ Release(k) \/ Deregister(k)
    <3>1. UNCHANGED verdict
      BY <2>3, Zenon DEF StartProcess, Persist, PersistFails, ProcessStopped,
                         Release, Deregister
    <3> QED
      BY <3>1
  <2>4. CASE Reap(k) \/ Watch(k)
    <3>1. CASE UNCHANGED verdict
      BY <3>1
    <3>2. ASSUME NEW e, e # "no tuner", GotoFinish(k, Failed(e)) PROVE FALSE
      BY <3>2 DEF GotoFinish
    <3>3. "capture" # "no tuner"
      OBVIOUS
    <3> QED
      BY <2>4, <3>1, <3>2, <3>3, Zenon DEF Reap, Watch
  <2>5. CASE StartFails(k)
    BY <2>5 DEF StartFails, MkdirAll, Goto, GotoFinish
  <2>6. CASE Complete(k)
    <3>1. ASSUME NEW e, e # "no tuner", GotoFinish(k, Failed(e)) PROVE FALSE
      BY <3>1 DEF GotoFinish
    <3>2. ASSUME GotoFinish(k, Completed) PROVE FALSE
      BY <3>2 DEF GotoFinish, Completed
    <3>3. "capture" # "no tuner"
      OBVIOUS
    <3> QED
      BY <2>6, <3>1, <3>2, <3>3, Zenon DEF Complete
  <2>7. CASE StoreOutcome(k) \/ StoreOutcomeFails(k)
    <3>1. verdict' = [verdict EXCEPT ![k] = NoVerdict]
      BY <2>7, Zenon DEF StoreOutcome, StoreOutcomeFails
    <3> QED
      BY <3>1
  <2> QED
    BY <1>2, <2>1, <2>2, <2>3, <2>4, <2>5, <2>6, <2>7 DEF CaptureStep
<1>3. ASSUME NEW k \in Jobs,
             \/ DeleteRequest(k) \/ DeleteStep(k) \/ DeleteAbandoned(k)
             \/ FfmpegWrites(k) \/ FfmpegExits(k)
      PROVE  FALSE
  BY <1>3
  DEF DeleteRequest, DeleteStep, DeleteCancels, DeleteAwaited, DeleteAbandoned, RemoveFiles,
      RemoveFilesFails, DropRow, DropRowFails, FfmpegWrites, FfmpegExits
<1>4. ASSUME NEW s \in Sessions, LiveStep(s) PROVE FALSE
  BY <1>4 DEF LiveStep, LiveStart, LiveEnd, LiveStartFails
<1>5. CASE UNCHANGED vars
  BY <1>5 DEF vars
<1> QED
  BY <1>1, <1>2, <1>3, <1>4, <1>5 DEF Next

(* If every job that holds a tuner were inside its window, they and the    *)
(* refused one would cover one instant with more windows than tuners.      *)
LEMMA FullPoolOverruns ==
    ASSUME SupInv, Started, NeverCrowded, NEW j \in Jobs,
           capture[j] = "acquire", InUse >= Capacity, Held = {},
           rows[j].status = "recording", now < rows[j].to
    PROVE  \E k \in pool : now >= rows[k].to \/ rows[k].status # "recording"
<1> SUFFICES ASSUME \A k \in pool : /\ ~(now >= rows[k].to)
                                    /\ rows[k].status = "recording"
             PROVE  FALSE
  OBVIOUS
<1>1. j \notin pool /\ pool \subseteq Jobs
  BY DEF SupInv, TypeOK, Tuned, Using, Running, Ending
<1>2. IsFiniteSet(pool)
  BY <1>1, JobsFinite
<1>3. now \in Int /\ \A k \in Jobs : rows[k].to \in Int
  BY DEF SupInv, TypeOK, StoreTypeOK, Row
<1>4. pool \cup {j} \subseteq Covering(now)
  BY <1>1, <1>3 DEF Started, Covering, Statuses, Accepted
<1>5. Cardinality(pool \cup {j}) = Cardinality(pool) + 1
  BY <1>1, <1>2, FS_AddElement
<1>6. Cardinality(pool) \in Nat /\ Cardinality(pool) >= Capacity
  BY <1>2, FS_CardinalityType, FS_EmptySet DEF InUse
<1>7. Cardinality(pool \cup {j}) <= Cardinality(Covering(now))
  BY <1>4, CoveringFinite, FS_Subset
<1>8. Cardinality(Covering(now)) <= Capacity
  BY <1>3 DEF NeverCrowded
<1> QED
  BY <1>5, <1>6, <1>7, <1>8, CoveringFinite, CapacityPositive

(* The scheduling check is enough: a recording that is refused a tuner     *)
(* meets another one past its window or its row, or is late itself.        *)
THEOREM RefusalNeedsOverrun == Spec => RefusedOnlyOnOverrun
<1>1. Spec => [](SupInv /\ Started /\ NeverCrowded)
  <2>1. Init => Started /\ NeverCrowded
    BY NeverCrowdedInit DEF Init, StoreInit, NoRow, Started
  <2>2. SupInv /\ Started /\ NeverCrowded /\ [Next]_vars
            => Started' /\ NeverCrowded'
    BY ServiceSteps, StartedStep, NeverCrowdedStep DEF SupInv, TypeOK
  <2> QED
    BY <2>1, <2>2, SupInvariant, PTL DEF Spec
<1>2. ASSUME SupInv, Started, NeverCrowded, [Next]_vars, NEW j \in Jobs,
             verdict[j] = NoVerdict, verdict'[j] = Failed("no tuner")
      PROVE  \/ now >= rows[j].to
             \/ rows[j].status # "recording"
             \/ \E k \in pool :
                    now >= rows[k].to \/ rows[k].status # "recording"
  <2>0. verdict[j].error = "none" /\ verdict'[j].error = "no tuner"
    BY <1>2, Messages, Zenon
  <2>1. capture[j] = "acquire" /\ InUse >= Capacity /\ Held = {}
    BY <1>2, <2>0, RefusalFindsPoolFull DEF SupInv
  <2>2. now \in Int /\ rows[j].to \in Int
    <3>1. StoreTypeOK
      BY <1>2 DEF SupInv, TypeOK
    <3> QED
      BY <3>1 DEF StoreTypeOK, Row
  <2>3. CASE rows[j].status = "recording" /\ now < rows[j].to
    BY <1>2, <2>1, <2>3, FullPoolOverruns
  <2> QED
    BY <2>2, <2>3
<1>3. SupInv /\ Started /\ NeverCrowded /\ [Next]_vars =>
        [\A j \in Jobs :
            (verdict[j] = NoVerdict /\ verdict'[j] = Failed("no tuner")) =>
                \/ now >= rows[j].to
                \/ rows[j].status # "recording"
                \/ \E k \in pool :
                       now >= rows[k].to \/ rows[k].status # "recording"
          ]_vars
  BY <1>2
<1> QED
  BY <1>1, <1>3, PTL DEF Spec, RefusedOnlyOnOverrun

-----------------------------------------------------------------------------
(* A row that says recording has somebody to settle it. *)

Recorded(j) ==
    rows[j].status = "recording" =>
        \/ capture[j] \notin {"idle", "release", "deregister"}
        \/ pending[j] # "none"
        \/ svc \in {"down", "boot"}
        \/ stopping
        \/ j \in unsaved

(* A capture is cancelled as deleted in the step that settles its row. *)
Disowned(j) ==
    cause[j] = "deleted" => rows[j].status \in Settled \cup {"deleted"}

LEMMA OutcomeStored ==
    ASSUME StoreTypeOK, NEW j \in Jobs, NEW s, NEW e, FinishRecording(j, s, e)
    PROVE  rows'[j].status = s /\ \A k \in Jobs \ {j} : rows'[k] = rows[k]
  BY DEF FinishRecording, StoreTypeOK, Row

LEMMA RecoverySettles ==
    ASSUME StoreTypeOK, NEW j \in Jobs, RecoverStore(j)
    PROVE  /\ rows'[j].status \in {"completed", "failed", "scheduled"}
           /\ \A k \in Jobs \ {j} : rows'[k] = rows[k]
<1>1. ASSUME FinishRecording(j, "completed", "none")
      PROVE  rows'[j].status = "completed"
             /\ \A k \in Jobs \ {j} : rows'[k] = rows[k]
  BY <1>1, OutcomeStored
<1>2. ASSUME NEW e, FinishRecording(j, "failed", e)
      PROVE  rows'[j].status = "failed"
             /\ \A k \in Jobs \ {j} : rows'[k] = rows[k]
  BY <1>2, OutcomeStored
<1>3. ASSUME RequeueRecording(j, "resuming")
      PROVE  rows'[j].status = "scheduled"
             /\ \A k \in Jobs \ {j} : rows'[k] = rows[k]
  BY <1>3 DEF RequeueRecording, StoreTypeOK, Row
<1> QED
  BY <1>1, <1>2, <1>3, Zenon DEF RecoverStore

(* Only the loop's claim makes a row recording, and it adds a goroutine. *)
LEMMA RecordingBegins ==
    ASSUME TypeOK, [Next]_vars, NEW k \in Jobs,
           rows'[k].status = "recording", rows[k].status # "recording"
    PROVE  capture'[k] = "acquire"
<1>0. StoreTypeOK /\ capture \in [Jobs -> Steps]
  BY DEF TypeOK
<1> USE <1>0 DEF StoreTypeOK, Row, storeVars
<1>1. CASE RunStep
  <2>1. ASSUME NEW j \in Jobs, StartDue(j) PROVE capture'[k] = "acquire"
    <3>1. k = j
      BY <2>1 DEF StartDue, ClaimDueRecording, WithElapsedClosed
    <3> QED
      BY <2>1, <3>1 DEF StartDue, Goto
  <2>2. ASSUME NEW j \in Jobs, RecoverStore(j) PROVE FALSE
    BY <2>2, RecoverySettles
  <2>3. ASSUME PollNothing PROVE FALSE
    BY <2>3 DEF PollNothing, ClaimNothing, WithElapsedClosed
  <2> QED
    BY <1>1, <2>1, <2>2, <2>3
    DEF RunStep, Boot, Exit, LoseMemory, FindInterrupted, FindInterruptedFails,
        RecoveryDone, RecoverFinalize, RecoverStoreFails
<1>2. ASSUME NEW j \in Jobs, CaptureStep(j) PROVE FALSE
  <2>1. ASSUME Persist(j) PROVE FALSE
    BY <2>1 DEF Persist, SetRecordingProcess, storeVars
  <2>2. ASSUME StoreOutcome(j) PROVE FALSE
    BY <2>2 DEF StoreOutcome, FinishRecording, RequeueRecording
  <2> QED
    BY <1>2, <2>1, <2>2
    DEF CaptureStep, Acquire, AwaitPreempted, StartProcess, StartFails,
        PersistFails, Reap, Watch, ProcessStopped, Complete,
        StoreOutcomeFails, Release, Deregister
<1>3. ASSUME NEW j \in Jobs,
             DeleteRequest(j) \/ DeleteStep(j) \/ DeleteAbandoned(j)
      PROVE  FALSE
  BY <1>3
  DEF DeleteRequest, CancelRecording, Cancelled, DeleteStep, DeleteCancels, DeleteAwaited,
      RemoveFiles, RemoveFilesFails, DropRow, DeleteRecording, DropRowFails,
      DeleteAbandoned
<1>4. CASE CreateRecording
  BY <1>4 DEF CreateRecording, Schedule, Insert
<1>5. ASSUME Shutdown \/ Crash \/ ClockTick PROVE FALSE
  BY <1>5 DEF Shutdown, Crash, LoseMemory, ClockTick, Tick
<1>6. ASSUME NEW j \in Jobs, FfmpegWrites(j) \/ FfmpegExits(j) PROVE FALSE
  BY <1>6 DEF FfmpegWrites, FfmpegExits
<1>7. ASSUME NEW s \in Sessions, LiveStep(s) PROVE FALSE
  BY <1>7 DEF LiveStep, LiveStart, LiveEnd, LiveStartFails
<1>8. ASSUME UNCHANGED vars PROVE FALSE
  BY <1>8 DEF vars
<1> QED
  BY <1>1, <1>2, <1>3, <1>4, <1>5, <1>6, <1>7, <1>8 DEF Next

LEMMA SettledStays ==
    ASSUME SupInv, [Next]_vars, NEW k \in Jobs,
           rows[k].status \in Settled \cup {"deleted"}
    PROVE  rows'[k].status \in Settled \cup {"deleted"}
<1>1. CASE StoreWrites
  BY <1>1, WritesAreQuiet DEF SupInv, TypeOK, Quiet
<1>2. ASSUME NEW j \in Jobs, DropRow(j)
      PROVE  rows'[k].status \in Settled \cup {"deleted"}
  BY <1>2 DEF DropRow, DeleteRecording, SupInv, TypeOK, StoreTypeOK, Row
<1> QED
  BY <1>1, <1>2, NextWrites DEF SupInv

LEMMA DisownedKept ==
    ASSUME SupInv, [Next]_vars, NEW k \in Jobs, Disowned(k)
    PROVE  Disowned(k)'
<1> SUFFICES ASSUME cause'[k] = "deleted", cause[k] # "deleted"
             PROVE  rows'[k].status \in Settled \cup {"deleted"}
  BY SettledStays DEF Disowned
<1> USE DEF SupInv, TypeOK, jobVars
<1>1. ASSUME RunStep PROVE FALSE
  BY <1>1
  DEF RunStep, Boot, Exit, LoseMemory, FindInterrupted, FindInterruptedFails,
      RecoveryDone, PollNothing, RecoverFinalize, RecoverStore,
      RecoverStoreFails, StartDue
<1>2. ASSUME NEW j \in Jobs, CaptureStep(j) PROVE FALSE
  BY <1>2
  DEF CaptureStep, Acquire, AwaitPreempted, StartProcess, StartFails, Persist,
      PersistFails, Reap, Watch, ProcessStopped, Complete, StoreOutcome,
      StoreOutcomeFails, Release, Deregister
<1>3. ASSUME NEW j \in Jobs, DeleteRequest(j)
      PROVE  FALSE
  BY <1>3 DEF DeleteRequest
<1>9. ASSUME NEW j \in Jobs, DeleteCancels(j)
      PROVE  rows'[k].status \in Settled \cup {"deleted"}
  <2>1. j = k
    BY <1>9 DEF DeleteCancels
  <2> QED
    BY <1>9, <2>1 DEF DeleteCancels, Owned, storeVars
<1>4. ASSUME NEW j \in Jobs, DeleteStep(j) \/ DeleteAbandoned(j),
             ~DeleteCancels(j)
      PROVE  FALSE
  BY <1>4
  DEF DeleteStep, DeleteAwaited, RemoveFiles, RemoveFilesFails, DropRow,
      DropRowFails, DeleteAbandoned
<1>5. ASSUME Shutdown \/ Crash \/ ClockTick \/ CreateRecording PROVE FALSE
  BY <1>5 DEF Shutdown, Crash, LoseMemory, ClockTick, CreateRecording
<1>6. ASSUME NEW j \in Jobs, FfmpegWrites(j) \/ FfmpegExits(j) PROVE FALSE
  BY <1>6 DEF FfmpegWrites, FfmpegExits
<1>7. ASSUME NEW s \in Sessions, LiveStep(s) PROVE FALSE
  BY <1>7 DEF LiveStep, LiveStart, LiveEnd, LiveStartFails
<1>8. ASSUME UNCHANGED vars PROVE FALSE
  BY <1>8 DEF vars
<1> QED
  BY <1>1, <1>2, <1>3, <1>4, <1>5, <1>6, <1>7, <1>8, <1>9 DEF Next

LEMMA RecordedKept ==
    ASSUME SupInv, [Next]_vars, NEW k \in Jobs,
           Recorded(k), Disowned(k)
    PROVE  Recorded(k)'
<1> SUFFICES ASSUME rows'[k].status = "recording",
                    rows[k].status = "recording"
             PROVE  Recorded(k)'
  BY RecordingBegins DEF Recorded, SupInv
<1> USE DEF SupInv, TypeOK, Recorded, volatile, jobVars, host, rest, history,
            Unsaved, Statuses
<1>0. cause[k] # "deleted"
  BY DEF Disowned, Settled
<1>1. CASE RunStep
  <2>1. CASE Boot \/ Exit \/ FindInterruptedFails \/ RecoveryDone
    BY <1>1, <2>1
    DEF Boot, Exit, LoseMemory, FindInterruptedFails, Interrupted, RecoveryDone
  <2>2. CASE FindInterrupted
    BY <2>2 DEF FindInterrupted, Interrupted, Statuses
  <2>3. ASSUME NEW j \in Jobs, RecoverFinalize(j) PROVE Recorded(k)'
    BY <2>3 DEF RecoverFinalize
  <2>4. ASSUME NEW j \in Jobs, RecoverStore(j) PROVE Recorded(k)'
    <3>1. j # k
      BY <2>4, RecoverySettles
    <3> QED
      BY <2>4, <3>1 DEF RecoverStore, Handled
  <2>5. ASSUME NEW j \in Jobs, RecoverStoreFails(j) PROVE Recorded(k)'
    BY <2>5 DEF RecoverStoreFails, Handled
  <2>6. ASSUME NEW j \in Jobs, StartDue(j) PROVE Recorded(k)'
    BY <2>6 DEF StartDue, Goto
  <2>7. CASE PollNothing
    BY <2>7 DEF PollNothing
  <2> QED
    BY <1>1, <2>1, <2>2, <2>3, <2>4, <2>5, <2>6, <2>7 DEF RunStep
<1>2. ASSUME NEW j \in Jobs, CaptureStep(j) PROVE Recorded(k)'
  <2>1. UNCHANGED <<svc, stopping, pending>>
    BY <1>2
    DEF CaptureStep, Acquire, AwaitPreempted, StartProcess, StartFails,
        Persist, PersistFails, Reap, Watch, ProcessStopped, Complete,
        StoreOutcome, StoreOutcomeFails, Release, Deregister
  <2>2. CASE j # k
    <3>1. capture'[k] = capture[k]
      <4>0. CASE Acquire(j)
        <5>1. Refused(j) => capture'[k] = capture[k]
          BY <2>2 DEF Refused, GotoFinish, Goto
        <5> QED
          BY <2>2, <4>0, <5>1 DEF Acquire, Goto
      <4>1. CASE AwaitPreempted(j)
        <5>1. Refused(j) => capture'[k] = capture[k]
          BY <2>2 DEF Refused, GotoFinish, Goto
        <5> QED
          BY <2>2, <4>1, <5>1 DEF AwaitPreempted, Goto
      <4>2. CASE \/ StartProcess(j) \/ StartFails(j) \/ Persist(j)
                 \/ PersistFails(j) \/ Reap(j) \/ Watch(j)
        BY <2>2, <4>2
        DEF StartProcess, StartFails, Persist, PersistFails, Reap, Watch,
            GotoFinish, Goto
      <4>3. CASE \/ ProcessStopped(j) \/ Complete(j) \/ StoreOutcome(j)
                 \/ StoreOutcomeFails(j) \/ Release(j) \/ Deregister(j)
        BY <2>2, <4>3
        DEF ProcessStopped, Complete, StoreOutcome, StoreOutcomeFails,
            Release, Deregister, GotoFinish, Goto
      <4> QED
        BY <1>2, <4>0, <4>1, <4>2, <4>3 DEF CaptureStep
    <3>2. unsaved \subseteq unsaved'
      BY <1>2
      DEF CaptureStep, Acquire, AwaitPreempted, StartProcess, StartFails,
          Persist, PersistFails, Reap, Watch, ProcessStopped, Complete,
          StoreOutcome, StoreOutcomeFails, Release, Deregister
    <3> QED
      BY <2>1, <3>1, <3>2
  <2>3. CASE j = k
    <3>1. ~StoreOutcome(k)
      <4>1. ~RequeueRecording(k, "paused")
        BY DEF RequeueRecording, Owned, StoreTypeOK, Row
      <4>2. verdict[k].status # "recording"
        BY VerdictsAreKnown DEF NoVerdict, Completed, Failed
      <4>3. ~FinishRecording(k, verdict[k].status, verdict[k].error)
        BY <4>2 DEF FinishRecording, Owned, StoreTypeOK, Row
      <4> QED
        BY <4>1, <4>3 DEF StoreOutcome
    <3>6. CASE StoreOutcomeFails(k)
      <4>1. k \in Statuses({"recording"})
        OBVIOUS
      <4>2. Unsaved({k})
        BY <3>6 DEF StoreOutcomeFails
      <4>3. k \in unsaved'
        BY <4>1, <4>2
      <4> QED
        BY <4>3
    <3>2. CASE Release(k) \/ Deregister(k)
      BY <2>1, <3>2 DEF Release, Deregister
    <3>3. CASE Acquire(k) \/ AwaitPreempted(k)
      <4>1. Refused(k) => Goto(k, "requeue") \/ Goto(k, "finish")
        BY <1>0 DEF Refused, GotoFinish
      <4> QED
        BY <2>1, <3>3, <4>1 DEF Acquire, AwaitPreempted, Goto
    <3>4. CASE Complete(k)
      <4>1. Goto(k, "finish")
        BY <3>4 DEF Complete, GotoFinish
      <4> QED
        BY <2>1, <4>1 DEF Goto
    <3>5. CASE \/ StartProcess(k) \/ StartFails(k) \/ Persist(k)
              \/ PersistFails(k) \/ Reap(k) \/ Watch(k) \/ ProcessStopped(k)
      BY <1>0, <2>1, <3>5
      DEF StartProcess, StartFails, Persist, PersistFails, Reap, Watch,
          ProcessStopped, GotoFinish, Goto
    <3> QED
      BY <1>2, <2>3, <3>1, <3>2, <3>3, <3>4, <3>5, <3>6 DEF CaptureStep
  <2> QED
    BY <2>2, <2>3
<1>3. ASSUME NEW j \in Jobs,
             DeleteRequest(j) \/ DeleteStep(j) \/ DeleteAbandoned(j)
      PROVE  Recorded(k)'
  <2>1. CASE DeleteRequest(j)
    <3>1. j # k
      BY <2>1
      DEF DeleteRequest, CancelRecording, Cancelled, StoreTypeOK, Row, Status,
          Accepted
    <3> QED
      BY <2>1, <3>1 DEF DeleteRequest
  <2> QED
    BY <1>3, <2>1
    DEF DeleteStep, DeleteCancels, DeleteAwaited, RemoveFiles, RemoveFilesFails,
        DropRow, DropRowFails, DeleteAbandoned
<1>4. CASE Shutdown \/ Crash \/ ClockTick \/ CreateRecording
  <2>1. CASE Crash
    BY <2>1 DEF Crash, LoseMemory
  <2> QED
    BY <1>4, <2>1 DEF Shutdown, ClockTick, CreateRecording
<1>5. ASSUME NEW j \in Jobs, FfmpegWrites(j) \/ FfmpegExits(j)
      PROVE  Recorded(k)'
  BY <1>5 DEF FfmpegWrites, FfmpegExits
<1>6. ASSUME NEW s \in Sessions, LiveStep(s)
      PROVE  Recorded(k)'
  BY <1>6 DEF LiveStep, LiveStart, LiveEnd, LiveStartFails
<1>7. CASE UNCHANGED vars
  BY <1>7 DEF vars
<1> QED
  BY <1>1, <1>2, <1>3, <1>4, <1>5, <1>6, <1>7 DEF Next

(* Nobody leaves a row that says recording behind, neither a capture that  *)
(* ends, nor recovery, nor a DELETE that meets either of them, unless the  *)
(* write of the outcome failed; and that lasts until the next start only.  *)
THEOREM EveryRecordingHasOwner == Spec => []RecordingHasOwner
<1>1. Spec => [](SupInv /\ \A j \in Jobs : Recorded(j) /\ Disowned(j))
  <2>1. Init => \A j \in Jobs : Recorded(j) /\ Disowned(j)
    BY DEF Init, StoreInit, NoRow, Recorded, Disowned
  <2>2. SupInv /\ (\A j \in Jobs : Recorded(j) /\ Disowned(j)) /\ [Next]_vars
            => (\A j \in Jobs : Recorded(j) /\ Disowned(j))'
    BY RecordedKept, DisownedKept
  <2> QED
    BY <2>1, <2>2, SupInvariant, PTL DEF Spec
<1>2. (\A j \in Jobs : Recorded(j) /\ Disowned(j)) => RecordingHasOwner
  BY DEF Recorded, RecordingHasOwner, Statuses
<1> QED
  BY <1>1, <1>2, PTL

-----------------------------------------------------------------------------
(* The promise of the pool, and who waits *)

(* A job has a session to wait for exactly while it waits, and one that    *)
(* was opened.                                                             *)
Waiting(j) ==
    /\ waits[j] # NoSession <=> capture[j] = "await"
    /\ capture[j] = "await" => live[waits[j]] # "new"

LEMMA LiveGoesOn ==
    ASSUME TypeOK, [Next]_vars, NEW s \in Sessions, live[s] # "new"
    PROVE  live'[s] # "new"
<1> USE DEF TypeOK, host
<1>1. ASSUME NEW t \in Sessions, LiveStep(t)
      PROVE  live'[s] # "new"
  BY <1>1 DEF LiveStep, LiveStart, LiveEnd, LiveStartFails
<1>2. CASE Exit \/ Crash
  BY <1>2 DEF Exit, Crash, LoseMemory
<1>3. ASSUME UNCHANGED live PROVE live'[s] # "new"
  BY <1>3
<1>4. RunStep /\ ~Exit => UNCHANGED live
  BY DEF RunStep, Boot, FindInterrupted, FindInterruptedFails, RecoveryDone,
         PollNothing, RecoverFinalize, RecoverStore, RecoverStoreFails, StartDue
<1>5. ASSUME NEW j \in Jobs, CaptureStep(j) PROVE UNCHANGED live
  BY <1>5
  DEF CaptureStep, Acquire, AwaitPreempted, StartProcess, StartFails, Persist,
      PersistFails, Reap, Watch, ProcessStopped, Complete, StoreOutcome,
      StoreOutcomeFails, Release, Deregister
<1>6. ASSUME NEW j \in Jobs,
             \/ DeleteRequest(j) \/ DeleteStep(j) \/ DeleteAbandoned(j)
             \/ FfmpegWrites(j) \/ FfmpegExits(j)
      PROVE  UNCHANGED live
  BY <1>6
  DEF DeleteRequest, DeleteStep, DeleteCancels, DeleteAwaited, RemoveFiles, RemoveFilesFails,
      DropRow, DropRowFails, DeleteAbandoned, FfmpegWrites, FfmpegExits
<1>7. Shutdown \/ ClockTick \/ CreateRecording \/ UNCHANGED vars
          => UNCHANGED live
  BY DEF Shutdown, ClockTick, CreateRecording, vars
<1> QED
  BY <1>1, <1>2, <1>3, <1>4, <1>5, <1>6, <1>7, Zenon DEF Next

LEMMA NobodyIsNoSession == NoSession \notin Sessions
  BY SupervisorAssumption, Zenon

LEMMA WaitingKept ==
    ASSUME SupInv, [Next]_vars, NEW k \in Jobs, Waiting(k)
    PROVE  Waiting(k)'
<1> USE NobodyIsNoSession DEF SupInv, TypeOK, jobVars, Goto, GotoFinish
<1> DEFINE Linked == /\ waits'[k] # NoSession <=> capture'[k] = "await"
                     /\ waits'[k] \in {waits[k], NoSession} \cup Held
<1>0. Linked
  <2>1. ASSUME NEW j \in Jobs, Acquire(j) \/ AwaitPreempted(j)
        PROVE  Linked
    <3>1. Refused(j) => \E step \in {"finish", "requeue", "deregister"} :
                            Goto(j, step)
      BY DEF Refused
    <3>2. CASE Acquire(j)
      BY <3>1, <3>2 DEF Waiting, Acquire, Held
    <3>3. CASE AwaitPreempted(j)
      BY <3>1, <3>3 DEF Waiting, AwaitPreempted
    <3> QED
      BY <2>1, <3>2, <3>3
  <2>2. ASSUME NEW j \in Jobs,
               \/ StartProcess(j) \/ StartFails(j) \/ Persist(j)
               \/ PersistFails(j) \/ Reap(j) \/ Watch(j) \/ ProcessStopped(j)
        PROVE  Linked
    BY <2>2
    DEF Waiting, StartProcess, StartFails, Persist, PersistFails, Reap, Watch,
        ProcessStopped
  <2>3. ASSUME NEW j \in Jobs,
               \/ Complete(j) \/ StoreOutcome(j) \/ StoreOutcomeFails(j)
               \/ Release(j) \/ Deregister(j)
        PROVE  Linked
    <3>1. UNCHANGED waits /\ capture[j] # "await"
      BY <2>3
      DEF Complete, StoreOutcome, StoreOutcomeFails, Release, Deregister
    <3>2. \E step \in Steps \ {"await"} : Goto(j, step)
      BY <2>3
      DEF Complete, StoreOutcome, StoreOutcomeFails, Release, Deregister, Steps
    <3> QED
      BY <3>1, <3>2 DEF Waiting
  <2>4. ASSUME NEW j \in Jobs, StartDue(j) PROVE Linked
    <3>1. capture[j] = "idle"
      BY <2>4
      DEF StartDue, ClaimDueRecording, FirstDue, Due, Statuses, Requeued
    <3> QED
      BY <2>4, <3>1 DEF Waiting, StartDue
  <2>5. CASE Exit \/ Crash
    BY <2>5 DEF Exit, Crash, LoseMemory
  <2>6. ASSUME UNCHANGED <<capture, waits>> PROVE Linked
    BY <2>6 DEF Waiting
  <2>7. ASSUME NEW j \in Jobs,
               RecoverFinalize(j) \/ RecoverStore(j) \/ RecoverStoreFails(j)
        PROVE  Linked
    BY <2>6, <2>7 DEF RecoverFinalize, RecoverStore, RecoverStoreFails
  <2>8. CASE \/ Boot \/ FindInterrupted \/ FindInterruptedFails
             \/ RecoveryDone \/ PollNothing \/ Shutdown \/ ClockTick
             \/ CreateRecording \/ UNCHANGED vars
    BY <2>6, <2>8
    DEF Boot, FindInterrupted, FindInterruptedFails, RecoveryDone,
        PollNothing, Shutdown, ClockTick, CreateRecording, vars
  <2>9. ASSUME NEW j \in Jobs,
               \/ DeleteRequest(j) \/ DeleteStep(j) \/ DeleteAbandoned(j)
               \/ FfmpegWrites(j) \/ FfmpegExits(j)
        PROVE  Linked
    BY <2>6, <2>9
    DEF DeleteRequest, DeleteStep, DeleteCancels, DeleteAwaited, RemoveFiles,
        RemoveFilesFails, DropRow, DropRowFails, DeleteAbandoned,
        FfmpegWrites, FfmpegExits
  <2>10. ASSUME NEW s \in Sessions, LiveStep(s)
         PROVE  Linked
    BY <2>6, <2>10 DEF LiveStep, LiveStart, LiveEnd, LiveStartFails
  <2> HIDE DEF Linked, SupInv, TypeOK, jobVars
  <2>11. CASE RunStep
    BY <2>4, <2>5, <2>7, <2>8, <2>11, Zenon DEF RunStep
  <2>12. ASSUME NEW j \in Jobs, CaptureStep(j) PROVE Linked
    BY <2>1, <2>2, <2>3, <2>12, Zenon DEF CaptureStep
  <2> QED
    BY <2>5, <2>8, <2>9, <2>10, <2>11, <2>12, Zenon DEF Next
<1>1. capture'[k] = "await" => live'[waits'[k]] # "new"
  <2> SUFFICES ASSUME capture'[k] = "await" PROVE live'[waits'[k]] # "new"
    OBVIOUS
  <2>1. waits'[k] \in Sessions /\ live[waits'[k]] # "new"
    BY <1>0 DEF Waiting, Held
  <2> QED
    BY <2>1, LiveGoesOn
<1> QED
  BY <1>0, <1>1 DEF Waiting


(* A goroutine that is waited for, or whose job is cancelled, is told, or  *)
(* the handler that cancels it is about to.                                *)
Told(j) ==
    /\ capture[j] # "idle"
    /\ \/ stopping \/ del[j] = "await"
       \/ (rows[j].status = "cancelled" /\ del[j] # "cancel")
    => cause[j] # "none"

(* Only a DELETE cancels a row, and it starts with that. *)
LEMMA OnlyDeleteCancels ==
    ASSUME SupInv, [Next]_vars, NEW k \in Jobs,
           rows'[k].status = "cancelled", rows[k].status # "cancelled"
    PROVE  DeleteRequest(k)
<1>0. StoreTypeOK
  BY DEF SupInv, TypeOK
<1> USE <1>0 DEF StoreTypeOK, Row, storeVars
<1>1. ASSUME RunStep PROVE FALSE
  <2>1. ASSUME NEW j \in Jobs, StartDue(j) PROVE FALSE
    BY <2>1 DEF StartDue, ClaimDueRecording, WithElapsedClosed
  <2>2. ASSUME NEW j \in Jobs, RecoverStore(j) PROVE FALSE
    BY <2>2, RecoverySettles
  <2>3. ASSUME PollNothing PROVE FALSE
    BY <2>3 DEF PollNothing, ClaimNothing, WithElapsedClosed
  <2> QED
    BY <1>1, <2>1, <2>2, <2>3
    DEF RunStep, Boot, Exit, LoseMemory, FindInterrupted, FindInterruptedFails,
        RecoveryDone, RecoverFinalize, RecoverStoreFails
<1>2. ASSUME NEW j \in Jobs, CaptureStep(j) PROVE FALSE
  <2>1. ASSUME Persist(j) PROVE FALSE
    BY <2>1 DEF Persist, SetRecordingProcess, storeVars
  <2>2. ASSUME StoreOutcome(j) PROVE FALSE
    <3>1. TypeOK
      BY DEF SupInv
    <3>2. /\ NoVerdict.status # "cancelled" /\ Completed.status # "cancelled"
          /\ \A e : Failed(e).status # "cancelled"
      BY DEF NoVerdict, Completed, Failed
    <3>3. verdict[j].status # "cancelled"
      BY <3>1, <3>2, VerdictsAreKnown, Zenon
    <3> QED
      BY <2>2, <3>3 DEF StoreOutcome, FinishRecording, RequeueRecording
  <2> QED
    BY <1>2, <2>1, <2>2
    DEF CaptureStep, Acquire, AwaitPreempted, StartProcess, StartFails,
        PersistFails, Reap, Watch, ProcessStopped, Complete,
        StoreOutcomeFails, Release, Deregister
<1>3. ASSUME NEW j \in Jobs, DeleteRequest(j) PROVE DeleteRequest(k)
  <2>1. j = k
    BY <1>3 DEF DeleteRequest, CancelRecording
  <2> QED
    BY <1>3, <2>1
<1>4. ASSUME NEW j \in Jobs, DeleteStep(j) \/ DeleteAbandoned(j) PROVE FALSE
  BY <1>4
  DEF DeleteStep, DeleteCancels, DeleteAwaited, RemoveFiles, RemoveFilesFails, DropRow,
      DeleteRecording, DropRowFails, DeleteAbandoned
<1>5. ASSUME CreateRecording PROVE FALSE
  BY <1>5 DEF CreateRecording, Schedule, Insert
<1>6. ASSUME Shutdown \/ Crash \/ ClockTick PROVE FALSE
  BY <1>6 DEF Shutdown, Crash, LoseMemory, ClockTick, Tick
<1>7. ASSUME NEW j \in Jobs, FfmpegWrites(j) \/ FfmpegExits(j) PROVE FALSE
  BY <1>7 DEF FfmpegWrites, FfmpegExits
<1>8. ASSUME NEW s \in Sessions, LiveStep(s) PROVE FALSE
  BY <1>8 DEF LiveStep, LiveStart, LiveEnd, LiveStartFails
<1>9. ASSUME UNCHANGED vars PROVE FALSE
  BY <1>9 DEF vars
<1> QED
  BY <1>1, <1>2, <1>3, <1>4, <1>5, <1>6, <1>7, <1>8, <1>9 DEF Next

(* A claimed job is registered when a DELETE or a shutdown looks for it,   *)
(* so no goroutine starts on a cancelled row or unseen at a shutdown; and  *)
(* a handler that found a job active cancels it before it does anything    *)
(* else.                                                                   *)
LEMMA ToldKept ==
    ASSUME SupInv, [Next]_vars, NEW k \in Jobs, Told(k)
    PROVE  Told(k)'
<1> USE DEF SupInv, TypeOK, volatile, jobVars, rest, Told
<1>1. CASE DeleteRequest(k)
  BY <1>1 DEF DeleteRequest, Active
<1>2. ASSUME ~DeleteRequest(k) PROVE Told(k)'
  <2>0. rows'[k].status = "cancelled" => rows[k].status = "cancelled"
    BY <1>2, OnlyDeleteCancels
  <2>1. CASE Boot \/ FindInterrupted \/ FindInterruptedFails \/ RecoveryDone
    BY <2>0, <2>1
    DEF Boot, FindInterrupted, FindInterruptedFails, RecoveryDone
  <2>2. CASE Exit \/ Crash
    BY <2>2 DEF Exit, Crash, LoseMemory
  <2>3. CASE PollNothing \/ ClockTick \/ CreateRecording
    BY <2>0, <2>3 DEF PollNothing, ClockTick, CreateRecording
  <2>4. ASSUME NEW j \in Jobs,
               RecoverFinalize(j) \/ RecoverStore(j) \/ RecoverStoreFails(j)
        PROVE  Told(k)'
    BY <2>0, <2>4 DEF RecoverFinalize, RecoverStore, RecoverStoreFails
  <2>5. ASSUME NEW j \in Jobs, StartDue(j) PROVE Told(k)'
    <3>1. CASE j # k
      BY <2>0, <2>5, <3>1 DEF StartDue, Goto
    <3>2. CASE j = k
      <4>1. rows[k].status = "scheduled" /\ ~stopping
        BY <2>5, <3>2
        DEF StartDue, ClaimDueRecording, FirstDue, Due, Statuses
      <4>2. del[k] = "idle" /\ rows[k].status # "cancelled"
        BY <4>1 DEF Owned, Settled
      <4> QED
        BY <2>0, <2>5, <4>1, <4>2 DEF StartDue
    <3> QED
      BY <3>1, <3>2
  <2>6. CASE Shutdown
    BY <2>0, <2>6 DEF Shutdown, Active
  <2>7. ASSUME NEW j \in Jobs, CaptureStep(j) PROVE Told(k)'
    <3>1. CASE Deregister(j)
      BY <2>0, <2>7, <3>1 DEF Deregister, Goto
    <3>2. CASE ~Deregister(j)
      <4>1. /\ UNCHANGED <<stopping, cause, del>>
            /\ capture[j] # "idle"
            /\ \A i \in Jobs \ {j} : capture'[i] = capture[i]
        <5>1. Refused(j) => \A i \in Jobs \ {j} : capture'[i] = capture[i]
          BY DEF Refused, GotoFinish, Goto
        <5>2. CASE Acquire(j) \/ AwaitPreempted(j)
          BY <5>1, <5>2 DEF Acquire, AwaitPreempted, Goto
        <5>3. CASE \/ StartProcess(j) \/ StartFails(j) \/ Persist(j)
                   \/ PersistFails(j) \/ Reap(j) \/ Watch(j)
                   \/ ProcessStopped(j)
          BY <5>3
          DEF StartProcess, StartFails, Persist, PersistFails, Reap, Watch,
              ProcessStopped, GotoFinish, Goto
        <5>4. CASE \/ Complete(j) \/ StoreOutcome(j) \/ StoreOutcomeFails(j)
                   \/ Release(j)
          BY <5>4
          DEF Complete, StoreOutcome, StoreOutcomeFails, Release, GotoFinish,
              Goto
        <5> QED
          BY <2>7, <3>2, <5>2, <5>3, <5>4 DEF CaptureStep
      <4> QED
        BY <2>0, <4>1
    <3> QED
      BY <3>1, <3>2
  <2>8. ASSUME NEW j \in Jobs, DeleteRequest(j) PROVE Told(k)'
    <3>1. j # k
      BY <1>2, <2>8
    <3> QED
      BY <2>0, <2>8, <3>1 DEF DeleteRequest
  <2>9. ASSUME NEW j \in Jobs,
               \/ (DeleteStep(j) /\ ~DeleteCancels(j)) \/ DeleteAbandoned(j)
               \/ FfmpegWrites(j) \/ FfmpegExits(j)
        PROVE  Told(k)'
    <3>1. /\ UNCHANGED <<stopping, capture, cause>>
          /\ del'[k] = "await" => del[k] = "await"
          /\ del'[k] # "cancel" => del[k] # "cancel"
      <4>1. CASE DeleteStep(j) /\ ~DeleteCancels(j)
        BY <2>9, <4>1
        DEF DeleteStep, DeleteAwaited, RemoveFiles, RemoveFilesFails, DropRow,
            DropRowFails
      <4>2. CASE DeleteAbandoned(j) \/ FfmpegWrites(j) \/ FfmpegExits(j)
        BY <4>2 DEF DeleteAbandoned, FfmpegWrites, FfmpegExits
      <4> QED
        BY <2>9, <4>1, <4>2
    <3> QED
      BY <2>0, <3>1
  <2>13. ASSUME NEW j \in Jobs, DeleteCancels(j) PROVE Told(k)'
    <3>1. CASE j = k
      BY <2>13, <3>1 DEF DeleteCancels
    <3>2. CASE j # k
      BY <2>0, <2>13, <3>2 DEF DeleteCancels
    <3> QED
      BY <3>1, <3>2
  <2>10. ASSUME NEW s \in Sessions, LiveStep(s)
         PROVE  Told(k)'
    BY <2>0, <2>10 DEF LiveStep, LiveStart, LiveEnd, LiveStartFails
  <2>11. CASE UNCHANGED vars
    BY <2>0, <2>11 DEF vars
  <2> HIDE DEF SupInv, TypeOK, Told
  <2>12. CASE RunStep
    BY <2>1, <2>2, <2>3, <2>4, <2>5, <2>12, Zenon DEF RunStep
  <2> QED
    BY <2>2, <2>3, <2>6, <2>7, <2>8, <2>9, <2>10, <2>11, <2>12, <2>13, Zenon
    DEF Next
<1> QED
  BY <1>1, <1>2

LEMMA WaitingInvariant ==
    Spec => [](SupInv /\ \A j \in Jobs : Waiting(j) /\ Told(j))
<1>1. Init => \A j \in Jobs : Waiting(j) /\ Told(j)
  BY DEF Init, Waiting, Told
<1>2. SupInv /\ (\A j \in Jobs : Waiting(j) /\ Told(j)) /\ [Next]_vars
          => (\A j \in Jobs : Waiting(j) /\ Told(j))'
  BY WaitingKept, ToldKept
<1> QED
  BY <1>1, <1>2, SupInvariant, PTL DEF Spec

(* The capture a DELETE or the exit waits for, and every capture whose row *)
(* is cancelled, has its context cancelled too, in every interleaving of   *)
(* claims, DELETEs, captures and shutdowns, but in the moment in which the *)
(* handler that cancelled the row still holds activeMu.                    *)
THEOREM AwaitedJobsAreTold == Spec => []AwaitedIsTold
<1>1. SupInv /\ (\A j \in Jobs : Waiting(j) /\ Told(j)) => AwaitedIsTold
  BY DEF SupInv, TypeOK, Told, Active, AwaitedIsTold
<1> QED
  BY <1>1, WaitingInvariant, PTL

-----------------------------------------------------------------------------
(* The pool module's promise *)

(* Tuners counts as FiniteSets does. *)
LEMMA TunersCount == ASSUME NEW S PROVE Tuners!Cardinality(S) = Cardinality(S)
  BY DEF Tuners!Cardinality, Cardinality

LEMMA TunersFull ==
    ASSUME TypeOK, PoolInv PROVE Tuners!Full <=> ~(InUse < Capacity)
<1>1. IsFiniteSet(pool) /\ IsFiniteSet(Held)
  BY JobsFinite, FS_Subset DEF TypeOK, PoolInv
<1>2. Cardinality(pool) \in Nat /\ Cardinality(Held) \in Nat
  BY <1>1, FS_CardinalityType
<1> QED
  BY <1>2, TunersCount, CapacityPositive
  DEF InUse, Tuners!InUse, Tuners!Full

(* The pool sees who asks, who waits and who is cancelled, and no more.    *)
LEMMA TunersUnseen ==
    ASSUME UNCHANGED <<pool, live, waits, cause>>,
           \A k \in Jobs : capture'[k] = "acquire" <=> capture[k] = "acquire"
    PROVE  UNCHANGED Tuners!vars
  BY DEF Held, Tuners!vars, Tuners!holders

LEMMA CaptureImplementsPool ==
    ASSUME SupInv, NEW j \in Jobs, Waiting(j), CaptureStep(j)
    PROVE  \/ Tuners!Take(j) \/ Tuners!Preempt(j) \/ Tuners!TurnAway(j)
           \/ Tuners!Retry(j) \/ Tuners!GiveUp(j) \/ Tuners!GiveBack(j)
           \/ Tuners!CancelSome \/ UNCHANGED Tuners!vars
<1> USE NobodyIsNoSession
    DEF SupInv, TypeOK, Goto, GotoFinish, Held, host, Tuners!holders,
        Tuners!Waits
<1>1. Refused(j) => \E step \in {"finish", "requeue", "deregister"} :
                        Goto(j, step)
  BY DEF Refused
<1>2. CASE Acquire(j)
  <2>1. CASE InUse < Capacity /\ pool' = pool \cup {j} /\ Goto(j, "prepare")
    <3>1. Tuners!Take(j)
      BY <1>2, <2>1, TunersFull DEF Acquire, Tuners!Take
    <3> QED
      BY <3>1
  <2>2. CASE /\ ~(InUse < Capacity) /\ Goto(j, "await") /\ UNCHANGED pool
             /\ \E s \in Held : waits' = [waits EXCEPT ![j] = s]
    <3>1. Tuners!Preempt(j)
      BY <1>2, <2>2, TunersFull DEF Acquire, Tuners!Preempt
    <3> QED
      BY <3>1
  <2>3. CASE /\ ~(InUse < Capacity) /\ Held = {} /\ Refused(j)
             /\ UNCHANGED <<waits, pool>>
    <3>1. Tuners!TurnAway(j)
      BY <1>1, <1>2, <2>3, TunersFull DEF Acquire, Tuners!TurnAway
    <3> QED
      BY <3>1
  <2>4. InUse >= Capacity => ~(InUse < Capacity)
    <3>1. InUse \in Nat
      BY JobsFinite, FS_Subset, FS_CardinalityType DEF PoolInv, InUse
    <3> QED
      BY <3>1, CapacityPositive
  <2> QED
    BY <1>2, <2>1, <2>2, <2>3, <2>4 DEF Acquire
<1>3. CASE AwaitPreempted(j)
  <2>1. waits[j] \in Sessions
    BY <1>3 DEF Waiting, AwaitPreempted
  <2>2. CASE live[waits[j]] = "gone" /\ Goto(j, "acquire")
    <3>1. Tuners!Retry(j)
      BY <1>3, <2>1, <2>2 DEF AwaitPreempted, Tuners!Retry
    <3> QED
      BY <3>1
  <2>3. CASE cause[j] # "none" /\ Refused(j)
    <3>1. Tuners!GiveUp(j)
      BY <1>1, <1>3, <2>1, <2>3 DEF AwaitPreempted, Tuners!GiveUp
    <3> QED
      BY <3>1
  <2> QED
    BY <1>3, <2>2, <2>3 DEF AwaitPreempted
<1>4. CASE Release(j)
  <2>1. CASE j \in pool
    <3>1. Tuners!GiveBack(j)
      BY <1>4, <2>1 DEF Release, Tuners!GiveBack
    <3> QED
      BY <3>1
  <2>2. CASE j \notin pool
    BY <1>4, <2>2, TunersUnseen DEF Release
  <2> QED
    BY <2>1, <2>2
<1>5. CASE Deregister(j)
  <2>1. j \notin pool /\ capture[j] = "deregister" /\ waits[j] = NoSession
    BY <1>5 DEF Deregister, Waiting, Tuned, Using, Running, Ending
  <2>2. Tuners!CancelSome
    BY <1>5, <2>1 DEF Deregister, Tuners!CancelSome
  <2> QED
    BY <2>2
<1>6. CASE StartProcess(j) \/ StartFails(j) \/ Persist(j) \/ PersistFails(j)
  BY <1>6, TunersUnseen
  DEF StartProcess, StartFails, Persist, PersistFails
<1>7. CASE Reap(j) \/ Watch(j) \/ ProcessStopped(j)
  BY <1>7, TunersUnseen DEF Reap, Watch, ProcessStopped
<1>8. CASE Complete(j)
  BY <1>8, TunersUnseen DEF Complete
<1>9. CASE StoreOutcome(j)
  BY <1>9, TunersUnseen DEF StoreOutcome
<1>10. CASE StoreOutcomeFails(j)
  BY <1>10, TunersUnseen DEF StoreOutcomeFails
<1> QED
  BY <1>2, <1>3, <1>4, <1>5, <1>6, <1>7, <1>8, <1>9, <1>10 DEF CaptureStep

LEMMA ServiceImplementsPool ==
    ASSUME SupInv, \A k \in Jobs : Waiting(k), [Next]_vars
    PROVE  Tuners!Next \/ UNCHANGED Tuners!vars
<1> USE NobodyIsNoSession DEF SupInv, TypeOK
<1>1. ASSUME NEW j \in Jobs, CaptureStep(j)
      PROVE  Tuners!Next \/ UNCHANGED Tuners!vars
  BY <1>1, CaptureImplementsPool, Zenon DEF Tuners!Next
<1>2. ASSUME NEW j \in Jobs, StartDue(j)
      PROVE  Tuners!Next
  <2>1. capture[j] = "idle"
    BY <1>2 DEF StartDue, ClaimDueRecording, FirstDue, Due, Statuses, Requeued
  <2>2. j \notin pool /\ waits[j] = NoSession
    BY <2>1 DEF Waiting, Tuned, Using, Running, Ending
  <2>3. Tuners!Ask(j)
    BY <1>2, <2>1, <2>2
    DEF StartDue, Goto, host, Held, Tuners!Ask, Tuners!Waits, Tuners!holders
  <2> QED
    BY <2>3 DEF Tuners!Next
<1>3. ASSUME NEW s \in Sessions, LiveStep(s)
      PROVE  Tuners!Next
  <2>1. CASE LiveStart(s)
    <3>1. Tuners!View(s)
      BY <2>1, TunersFull DEF LiveStart, jobVars, Held, Tuners!View
    <3> QED
      BY <3>1 DEF Tuners!Next
  <2>2. CASE LiveEnd(s)
    <3>1. Tuners!EndView(s)
      BY <2>2 DEF LiveEnd, jobVars, Held, Tuners!EndView
    <3> QED
      BY <3>1 DEF Tuners!Next
  <2>3. CASE LiveStartFails(s)
    <3>1. Tuners!EndView(s)
      BY <2>3 DEF LiveStartFails, jobVars, Held, Tuners!EndView
    <3> QED
      BY <3>1 DEF Tuners!Next
  <2> QED
    BY <1>3, <2>1, <2>2, <2>3 DEF LiveStep
<1>4. CASE Exit \/ Crash
  <2>1. Tuners!Reset
    BY <1>4 DEF Exit, Crash, LoseMemory, Held, Tuners!Reset
  <2> QED
    BY <2>1 DEF Tuners!Next
<1>5. CASE Shutdown
  <2>1. Tuners!CancelSome
    BY <1>5 DEF Shutdown, host, Held, Tuners!CancelSome, Tuners!holders
  <2> QED
    BY <2>1 DEF Tuners!Next
<1>6. ASSUME NEW j \in Jobs, DeleteCancels(j) PROVE Tuners!Next
  <2>1. Tuners!CancelSome
    BY <1>6 DEF DeleteCancels, host, Held, Tuners!CancelSome, Tuners!holders
  <2> QED
    BY <2>1 DEF Tuners!Next
<1>7. ASSUME UNCHANGED <<jobVars, pool, live>> PROVE UNCHANGED Tuners!vars
  BY <1>7, TunersUnseen DEF jobVars
<1>8. ASSUME NEW j \in Jobs,
             RecoverFinalize(j) \/ RecoverStore(j) \/ RecoverStoreFails(j)
      PROVE  UNCHANGED Tuners!vars
  BY <1>7, <1>8 DEF RecoverFinalize, RecoverStore, RecoverStoreFails, host
<1>9. CASE \/ Boot \/ FindInterrupted \/ FindInterruptedFails
           \/ RecoveryDone \/ PollNothing \/ ClockTick \/ CreateRecording
           \/ UNCHANGED vars
  BY <1>7, <1>9
  DEF Boot, FindInterrupted, FindInterruptedFails, RecoveryDone, PollNothing,
      ClockTick, CreateRecording, vars, host
<1>10. ASSUME NEW j \in Jobs,
              \/ DeleteRequest(j) \/ (DeleteStep(j) /\ ~DeleteCancels(j))
              \/ DeleteAbandoned(j) \/ FfmpegWrites(j) \/ FfmpegExits(j)
       PROVE  UNCHANGED Tuners!vars
  BY <1>7, <1>10
  DEF DeleteRequest, DeleteStep, DeleteAwaited, RemoveFiles, RemoveFilesFails, DropRow,
      DropRowFails, DeleteAbandoned, FfmpegWrites, FfmpegExits, host
<1> HIDE DEF SupInv, TypeOK
<1>11. CASE RunStep
  BY <1>2, <1>4, <1>8, <1>9, <1>11, Zenon DEF RunStep
<1> QED
  BY <1>1, <1>3, <1>4, <1>5, <1>6, <1>9, <1>10, <1>11, Zenon DEF Next

(* Captures, deletions, shutdowns and crashes keep the promise of the pool *)
(* that the live manager keeps on its side (LiveTvImplementsPool).         *)
THEOREM SupervisorImplementsPool == Spec => ImplementsPool
<1>1. Init => Tuners!Init
  BY DEF Init, Held, Tuners!Init
<1>2. SupInv /\ (\A j \in Jobs : Waiting(j) /\ Told(j)) /\ [Next]_vars
          => [Tuners!Next]_(Tuners!vars)
  BY ServiceImplementsPool
<1> QED
  BY <1>1, <1>2, WaitingInvariant, PTL DEF Spec, ImplementsPool, Tuners!Spec

=============================================================================
