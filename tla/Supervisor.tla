----------------------------- MODULE Supervisor -----------------------------
(***************************************************************************)
(* internal/recording/supervisor.go: the loop that claims due jobs, one    *)
(* capture goroutine per claimed job, deletion of a job by an HTTP         *)
(* handler, and recovery at start.  Around it, coarser: the tuner pool and *)
(* the live sessions it preempts (module LiveTv has both in detail), the   *)
(* FFmpeg processes, the recordings directory, and the service's own       *)
(* start, shutdown and crash (cmd/catchupd/main.go).                       *)
(*                                                                         *)
(* Atomicity.  What a goroutine does is split wherever it touches shared   *)
(* state: the pool, a process, a file, the store.  A DELETE holds activeMu *)
(* between cancelling the row and the job's context, and captures, which   *)
(* take no lock, run on meanwhile.  The claim of a row and the             *)
(* registration of its job are one action: they are under activeMu, too,   *)
(* and nobody without the lock can tell the moment between them, in which  *)
(* the row says "recording" and no capture runs yet.  A crash of the       *)
(* service takes its FFmpeg children along, as in the container the        *)
(* project deploys.                                                        *)
(***************************************************************************)
EXTENDS RecordingStore

CONSTANTS
    Folders,      \* directories under the recordings directory
    FolderOf,     \* [Programs -> Folders]: title and local start, no id
    Sessions,     \* bound: the live sessions ever opened
    NoSession,
    MaxRestarts,  \* bound: shutdowns and crashes together
    Faults        \* what may go wrong, of AllFaults

AllFaults == {"store",  \* a store write fails or times out
              "disk",   \* removing files or ending a playlist fails
              "start",  \* the capture cannot be started
              "spawn",  \* a live session's FFmpeg cannot be started
              "kill",   \* a killed FFmpeg does not exit within a second
              "client"} \* the client of a DELETE goes away

ASSUME SupervisorAssumption ==
    /\ FolderOf \in [Programs -> Folders]
    /\ NoSession \notin Sessions
    /\ MaxRestarts \in Nat
    /\ Faults \subseteq AllFaults
    /\ Failures = {"no tuner", "capture"}

VARIABLES
    svc,       \* the service: down, at boot, recovering, or in its loop
    stopping,  \* the root context is cancelled
    restarts,
    pending,   \* recoverInterrupted's verdict on each row still to handle
    capture,   \* where each job's goroutine is; "idle" when not in s.active
    cause,     \* context.Cause of each job's context
    verdict,   \* the status and message a goroutine is about to store
    proc,      \* whether each job's FFmpeg is running
    pool,      \* jobs that hold a tuner
    live,      \* each live session: not opened, holding a tuner, gone, or
               \* lost: its tuner is back and its end is never told
    waits,     \* the live session each job has preempted and waits for
    disk,      \* each folder: absent, empty, or its playlist open or ended
    del,       \* where the DELETE handler of each job is
    erased,    \* history: the jobs whose output was removed
    survivors, \* history: the jobs whose last FFmpeg outlived its stop
    unsaved    \* history: the jobs whose row this process failed to update

volatile == <<svc, stopping, restarts, pending>>
jobVars == <<capture, cause, verdict, waits>>
host == <<proc, pool, live, disk>>
history == <<erased, survivors, unsaved>>
rest == <<del, history>>
vars == <<storeVars, volatile, jobVars, host, rest>>

Steps == {"idle", "acquire", "await", "prepare", "persist", "reap", "watch",
          "stopAtEnd", "stopOnCancel", "complete", "finish", "requeue",
          "release", "deregister"}

NoVerdict == [status |-> "none", error |-> "none"]
Completed == [status |-> "completed", error |-> "none"]
\* Messages are told apart by one thing: there was no tuner, or the capture
\* failed, at whichever of its steps.
Failed(error) == [status |-> "failed", error |-> error]

Verdicts == {NoVerdict, Completed} \cup {Failed(e) : e \in Failures}

Folder(j) == FolderOf[rows[j].program]
Playable == {"open", "ended"}

(* A DELETE has activeMu beyond its first step. *)
Locked == \E j \in Jobs : del[j] = "cancel"

Active == {j \in Jobs : capture[j] # "idle"}
Held == {s \in Sessions : live[s] = "on"}
InUse == Cardinality(pool) + Cardinality(Held)

Goto(j, step) == capture' = [capture EXCEPT ![j] = step]

(* s.finish with this status and message is the goroutine's next call. *)
GotoFinish(j, v) ==
    /\ Goto(j, "finish")
    /\ verdict' = [verdict EXCEPT ![j] = v]

Init ==
    /\ StoreInit
    /\ svc = "down" /\ stopping = FALSE /\ restarts = 0
    /\ pending = [j \in Jobs |-> "none"]
    /\ capture = [j \in Jobs |-> "idle"]
    /\ cause = [j \in Jobs |-> "none"]
    /\ verdict = [j \in Jobs |-> NoVerdict]
    /\ proc = [j \in Jobs |-> FALSE]
    /\ pool = {}
    /\ live = [s \in Sessions |-> "new"]
    /\ waits = [j \in Jobs |-> NoSession]
    /\ disk = [f \in Folders |-> "absent"]
    /\ del = [j \in Jobs |-> "idle"]
    /\ erased = {} /\ survivors = {} /\ unsaved = {}

-----------------------------------------------------------------------------
(* The service process *)

Boot ==
    /\ svc = "down"
    /\ svc' = "boot"
    /\ UNCHANGED <<storeVars, stopping, restarts, pending, jobVars, host,
                   rest>>

(* SIGTERM cancels the root context and with it the context of every job;  *)
(* a cause that is already set stays.                                      *)
Shutdown ==
    /\ svc # "down" /\ ~stopping /\ restarts < MaxRestarts
    /\ stopping' = TRUE
    /\ cause' = [j \in Jobs |->
            IF j \in Active /\ cause[j] = "none" THEN "shutdown" ELSE cause[j]]
    /\ UNCHANGED <<storeVars, svc, restarts, pending, capture, verdict, waits,
                   host, rest>>

(* What does not survive the process: goroutines, the pool, FFmpeg, live   *)
(* buffers and the HTTP handlers.                                          *)
LoseMemory ==
    /\ svc' = "down" /\ stopping' = FALSE /\ restarts' = restarts + 1
    /\ pending' = [j \in Jobs |-> "none"]
    /\ capture' = [j \in Jobs |-> "idle"]
    /\ cause' = [j \in Jobs |-> "none"]
    /\ verdict' = [j \in Jobs |-> NoVerdict]
    /\ waits' = [j \in Jobs |-> NoSession]
    /\ proc' = [j \in Jobs |-> FALSE]
    /\ pool' = {}
    /\ live' = [s \in Sessions |-> IF live[s] = "on" THEN "gone" ELSE live[s]]
    /\ del' = [j \in Jobs |-> "idle"]
    /\ unsaved' = {}
    /\ UNCHANGED <<storeVars, disk, erased, survivors>>

(* Run returns once the wait group is empty; main then waits for the live  *)
(* sessions but not for the HTTP handlers.                                 *)
Exit ==
    /\ svc = "up" /\ stopping
    /\ Active = {} /\ Held = {}
    /\ LoseMemory

Crash ==
    /\ svc # "down" /\ restarts < MaxRestarts
    /\ LoseMemory

-----------------------------------------------------------------------------
(* recoverInterrupted: the rows and the time are read once, then each row  *)
(* is handled in id order.  HTTP handlers run meanwhile.                   *)

(* Mutant: only rows whose window is over are recovered. *)
InterruptedOver == {j \in Statuses({"recording"}) : rows[j].to <= now}

Interrupted == Statuses({"recording"})

(* History: what the log says of these jobs and the table does not. *)
Unsaved(js) ==
    /\ unsaved' = unsaved \cup (js \cap Statuses({"recording"}))
    /\ UNCHANGED <<erased, survivors>>

FindInterrupted ==
    /\ svc = "boot"
    /\ ~stopping
    /\ svc' = "recover"
    /\ pending' = [j \in Jobs |->
            IF j \notin Interrupted THEN "none"
            ELSE IF rows[j].to > now THEN "requeue" ELSE "close"]
    /\ UNCHANGED <<storeVars, stopping, restarts, jobVars, host, rest>>

FindInterruptedFails ==
    /\ svc = "boot"
    /\ stopping \/ "store" \in Faults
    /\ svc' = "up"
    /\ Unsaved(Interrupted)
    /\ UNCHANGED <<storeVars, stopping, restarts, pending, jobVars, host, del>>

NextPending(j) ==
    /\ svc = "recover"
    /\ pending[j] # "none"
    /\ \A k \in 1 .. j - 1 : pending[k] = "none"

Handled(j) == pending' = [pending EXCEPT ![j] = "none"]

(* Mutant: the end marker is not appended. *)
FinalizeNothing(f) == disk[f] \in Playable /\ UNCHANGED disk

(* FinalizePlaylist on one folder, whoever calls it: there is media, and   *)
(* the end marker is there or is appended.                                 *)
Finalize(f) ==
    disk[f] \in Playable /\ disk' = [disk EXCEPT ![f] = "ended"]

(* No playlist, no segment in it, or the marker cannot be appended. *)
FinalizeFails(f) ==
    /\ disk[f] \notin Playable \/ (disk[f] = "open" /\ "disk" \in Faults)
    /\ UNCHANGED disk

RecoverFinalize(j) ==
    /\ NextPending(j) /\ pending[j] = "close"
    /\ \/ /\ Finalize(Folder(j))
          /\ pending' = [pending EXCEPT ![j] = "completed"]
       \/ /\ FinalizeFails(Folder(j))
          /\ pending' = [pending EXCEPT ![j] = "failed"]
    /\ UNCHANGED <<storeVars, svc, stopping, restarts, jobVars, proc, pool,
                   live, rest>>

RecoverStore(j) ==
    /\ NextPending(j) /\ ~stopping
    /\ \/ pending[j] = "completed" /\ FinishRecording(j, "completed", "none")
       \/ pending[j] = "failed" /\ FinishRecording(j, "failed", "capture")
       \/ pending[j] = "requeue" /\ RequeueRecording(j, "resuming")
    /\ Handled(j)
    /\ UNCHANGED <<svc, stopping, restarts, jobVars, host, rest>>

(* The write fails, finds the row cancelled meanwhile, or has no context   *)
(* left: logged, and the row stays as it is.                               *)
RecoverStoreFails(j) ==
    /\ NextPending(j) /\ pending[j] # "close"
    /\ stopping \/ "store" \in Faults \/ rows[j].status # "recording"
    /\ Handled(j)
    /\ Unsaved({j})
    /\ UNCHANGED <<storeVars, svc, stopping, restarts, jobVars, host, del>>

RecoveryDone ==
    /\ svc = "recover"
    /\ \A j \in Jobs : pending[j] = "none"
    /\ svc' = "up"
    /\ UNCHANGED <<storeVars, stopping, restarts, pending, jobVars, host,
                   rest>>

-----------------------------------------------------------------------------
(* startDue.  A failed claim changes nothing and the next poll tries again. *)

StartDue(j) ==
    /\ svc = "up" /\ ~stopping /\ ~Locked
    /\ ClaimDueRecording(j)
    /\ Goto(j, "acquire")
    /\ UNCHANGED <<volatile, cause, verdict, waits, host, rest>>

PollNothing ==
    /\ svc = "up" /\ ~stopping /\ ~Locked
    /\ ClaimNothing
    /\ UNCHANGED <<volatile, jobVars, host, rest>>

-----------------------------------------------------------------------------
(* capture, one job's goroutine *)

(* AcquireRecording returned false. *)
Refused(j) ==
    \/ cause[j] = "deleted" /\ Goto(j, "deregister") /\ UNCHANGED verdict
    \/ cause[j] = "shutdown" /\ Goto(j, "requeue") /\ UNCHANGED verdict
    \/ cause[j] = "none" /\ GotoFinish(j, Failed("no tuner"))

Acquire(j) ==
    /\ capture[j] = "acquire"
    /\ \/ /\ InUse < Capacity
          /\ pool' = pool \cup {j}
          /\ Goto(j, "prepare")
          /\ UNCHANGED <<verdict, waits>>
       \/ /\ InUse >= Capacity
          /\ \E s \in Held : waits' = [waits EXCEPT ![j] = s]
          /\ Goto(j, "await")
          /\ UNCHANGED <<verdict, pool>>
       \/ /\ InUse >= Capacity /\ Held = {}
          /\ Refused(j)
          /\ UNCHANGED <<waits, pool>>
    /\ UNCHANGED <<storeVars, volatile, cause, proc, live, disk, rest>>

(* The preempted session is done, or the job is cancelled; when both hold  *)
(* the select takes either.                                                *)
AwaitPreempted(j) ==
    /\ capture[j] = "await"
    /\ \/ live[waits[j]] = "gone" /\ Goto(j, "acquire") /\ UNCHANGED verdict
       \/ cause[j] # "none" /\ Refused(j)
    /\ waits' = [waits EXCEPT ![j] = NoSession]
    /\ UNCHANGED <<storeVars, volatile, cause, host, rest>>

(* Mutant: a capture starts from a clean directory. *)
MkdirClean(f) == disk' = [disk EXCEPT ![f] = "empty"]

MkdirAll(f) ==
    disk' = [disk EXCEPT ![f] = IF @ = "absent" THEN "empty" ELSE @]

StartProcess(j) ==
    /\ capture[j] = "prepare"
    /\ MkdirAll(Folder(j))
    /\ proc' = [proc EXCEPT ![j] = TRUE]
    /\ Goto(j, "persist")
    /\ survivors' = survivors \ {j}
    /\ UNCHANGED <<storeVars, volatile, cause, verdict, waits, pool, live, del,
                   erased, unsaved>>

(* No tuner address, no directory, or no FFmpeg to start. *)
StartFails(j) ==
    /\ capture[j] = "prepare"
    /\ "start" \in Faults
    /\ MkdirAll(Folder(j)) \/ UNCHANGED disk
    /\ GotoFinish(j, Failed("capture"))
    /\ UNCHANGED <<storeVars, volatile, cause, waits, proc, pool, live,
                   rest>>

Persist(j) ==
    /\ capture[j] = "persist"
    /\ SetRecordingProcess(j)
    /\ Goto(j, "watch")
    /\ UNCHANGED <<volatile, cause, verdict, waits, host, rest>>

PersistFails(j) ==
    /\ capture[j] = "persist"
    /\ rows[j].status # "recording" \/ "store" \in Faults
    /\ Goto(j, "reap")
    /\ UNCHANGED <<storeVars, volatile, cause, verdict, waits, host, rest>>

(* Mutant: the killed FFmpeg is not waited for. *)
ReapNotAwaited(j) ==
    /\ capture[j] = "reap"
    /\ IF cause[j] = "deleted"
         THEN Goto(j, "release") /\ UNCHANGED verdict
         ELSE GotoFinish(j, Failed("capture"))
    /\ UNCHANGED <<storeVars, volatile, cause, waits, host, rest>>

(* Kill, then Wait without a time limit. *)
Reap(j) ==
    /\ capture[j] = "reap"
    /\ ~proc[j]
    /\ IF cause[j] = "deleted"
         THEN Goto(j, "release") /\ UNCHANGED verdict
         ELSE GotoFinish(j, Failed("capture"))
    /\ UNCHANGED <<storeVars, volatile, cause, waits, host, rest>>

(* The select: FFmpeg exited, the window is over, or the job is cancelled. *)
Watch(j) ==
    /\ capture[j] = "watch"
    /\ \/ ~proc[j] /\ GotoFinish(j, Failed("capture"))
       \/ now >= rows[j].to /\ Goto(j, "stopAtEnd") /\ UNCHANGED verdict
       \/ cause[j] # "none" /\ Goto(j, "stopOnCancel") /\ UNCHANGED verdict
    /\ UNCHANGED <<storeVars, volatile, cause, waits, host, rest>>

(* stopProcess returns when FFmpeg has exited, or gives up on it a second  *)
(* after the kill.                                                         *)
StopProcess(j) == ~proc[j] \/ "kill" \in Faults

ProcessStopped(j) ==
    /\ capture[j] \in {"stopAtEnd", "stopOnCancel"}
    /\ StopProcess(j)
    /\ Goto(j, IF capture[j] = "stopAtEnd" THEN "complete"
               ELSE IF cause[j] = "deleted" THEN "release" ELSE "requeue")
    /\ survivors' = IF proc[j] THEN survivors \cup {j} ELSE survivors
    /\ UNCHANGED <<storeVars, volatile, cause, verdict, waits, host, del, erased,
                   unsaved>>

Complete(j) ==
    /\ capture[j] = "complete"
    /\ \/ Finalize(Folder(j)) /\ GotoFinish(j, Completed)
       \/ FinalizeFails(Folder(j)) /\ GotoFinish(j, Failed("capture"))
    /\ UNCHANGED <<storeVars, volatile, cause, waits, proc, pool, live,
                   rest>>

(* finish, and the two requeues at shutdown *)
StoreOutcome(j) ==
    /\ \/ capture[j] = "finish"
          /\ FinishRecording(j, verdict[j].status, verdict[j].error)
       \/ capture[j] = "requeue" /\ RequeueRecording(j, "paused")
    /\ Goto(j, "release")
    /\ verdict' = [verdict EXCEPT ![j] = NoVerdict]
    /\ UNCHANGED <<volatile, cause, waits, host, rest>>

(* The row keeps its status.  Logged, except for the requeue of a capture  *)
(* that got no tuner (supervisor.go:209), whose error is discarded.        *)
StoreOutcomeFails(j) ==
    /\ capture[j] \in {"finish", "requeue"}
    /\ rows[j].status # "recording" \/ "store" \in Faults
    /\ Goto(j, "release")
    /\ verdict' = [verdict EXCEPT ![j] = NoVerdict]
    /\ Unsaved({j})
    /\ UNCHANGED <<storeVars, volatile, cause, waits, host, del>>

(* The deferred Release; a no-op for a job that got no tuner. *)
Release(j) ==
    /\ capture[j] = "release"
    /\ pool' = pool \ {j}
    /\ Goto(j, "deregister")
    /\ UNCHANGED <<storeVars, volatile, cause, verdict, waits, proc, live,
                   disk, rest>>

(* Mutant: a deleted job returns without closing done. *)
DeregisterUnlessDeleted(j) ==
    /\ capture[j] = "deregister" /\ ~Locked /\ cause[j] # "deleted"
    /\ Goto(j, "idle")
    /\ cause' = [cause EXCEPT ![j] = "none"]
    /\ UNCHANGED <<storeVars, volatile, verdict, waits, host, rest>>

(* delete(s.active, id) and close(job.done), under activeMu. *)
Deregister(j) ==
    /\ capture[j] = "deregister" /\ ~Locked
    /\ Goto(j, "idle")
    /\ cause' = [cause EXCEPT ![j] = "none"]
    /\ UNCHANGED <<storeVars, volatile, verdict, waits, host, rest>>

CaptureStep(j) ==
    \/ Acquire(j) \/ AwaitPreempted(j)
    \/ StartProcess(j) \/ StartFails(j)
    \/ Persist(j) \/ PersistFails(j) \/ Reap(j)
    \/ Watch(j) \/ ProcessStopped(j) \/ Complete(j)
    \/ StoreOutcome(j) \/ StoreOutcomeFails(j)
    \/ Release(j) \/ Deregister(j)

-----------------------------------------------------------------------------
(* HTTP handlers *)

(* POST /api/recordings *)
CreateRecording ==
    /\ svc # "down"
    /\ \E p \in Programs, pre, post \in Paddings : Schedule(p, pre, post)
    /\ UNCHANGED <<volatile, jobVars, host, rest>>

(* Supervisor.Delete takes activeMu and cancels the row; when a job is     *)
(* active it keeps the lock.  One DELETE per job at a time.                *)
DeleteRequest(j) ==
    /\ svc # "down" /\ ~Locked
    /\ del[j] = "idle"
    /\ CancelRecording(j)
    /\ del' = [del EXCEPT ![j] = IF j \in Active THEN "cancel" ELSE "remove"]
    /\ unsaved' = unsaved \ {j}
    /\ UNCHANGED <<volatile, jobVars, host, erased, survivors>>

(* job.cancel, then the unlock; a cause that is already set stays. *)
DeleteCancels(j) ==
    /\ del[j] = "cancel"
    /\ cause' = [cause EXCEPT ![j] = IF @ = "none" THEN "deleted" ELSE @]
    /\ del' = [del EXCEPT ![j] = "await"]
    /\ UNCHANGED <<storeVars, volatile, capture, verdict, waits, host, history>>

(* Mutant: the files are removed without waiting for the capture. *)
DeleteNotAwaited(j) ==
    /\ del[j] = "await"
    /\ del' = [del EXCEPT ![j] = "remove"]
    /\ UNCHANGED <<storeVars, volatile, jobVars, host, history>>

DeleteAwaited(j) ==
    /\ del[j] = "await" /\ capture[j] = "idle"
    /\ del' = [del EXCEPT ![j] = "remove"]
    /\ UNCHANGED <<storeVars, volatile, jobVars, host, history>>

(* ctx.Done() of the request *)
DeleteAbandoned(j) ==
    /\ del[j] = "await" /\ "client" \in Faults
    /\ del' = [del EXCEPT ![j] = "idle"]
    /\ UNCHANGED <<storeVars, volatile, jobVars, host, history>>

RemoveFiles(j) ==
    /\ del[j] = "remove"
    /\ disk' = [disk EXCEPT ![Folder(j)] = "absent"]
    /\ del' = [del EXCEPT ![j] = "drop"]
    /\ erased' = erased \cup {j}
    /\ UNCHANGED <<storeVars, volatile, jobVars, proc, pool, live, survivors,
                   unsaved>>

RemoveFilesFails(j) ==
    /\ del[j] = "remove" /\ "disk" \in Faults
    /\ del' = [del EXCEPT ![j] = "idle"]
    /\ UNCHANGED <<storeVars, volatile, jobVars, host, history>>

DropRow(j) ==
    /\ del[j] = "drop"
    /\ DeleteRecording(j)
    /\ del' = [del EXCEPT ![j] = "idle"]
    /\ UNCHANGED <<volatile, jobVars, host, history>>

DropRowFails(j) ==
    /\ del[j] = "drop" /\ "store" \in Faults
    /\ del' = [del EXCEPT ![j] = "idle"]
    /\ UNCHANGED <<storeVars, volatile, jobVars, host, history>>

(* What the handler does without its client's help. *)
DeleteStep(j) ==
    \/ DeleteCancels(j) \/ DeleteAwaited(j)
    \/ RemoveFiles(j) \/ RemoveFilesFails(j)
    \/ DropRow(j) \/ DropRowFails(j)

-----------------------------------------------------------------------------
(* Surroundings: live sessions, FFmpeg, the clock *)

(* AcquireLive; sessions are told apart, so one is opened after another. *)
LiveStart(s) ==
    /\ svc # "down" /\ live[s] = "new"
    /\ InUse < Capacity
    /\ live' = [live EXCEPT ![s] = "on"]
    /\ UNCHANGED <<storeVars, volatile, jobVars, proc, pool, disk, rest>>

(* Preempted, stopped, idle or over: its tuner is released, its done is    *)
(* closed.                                                                 *)
LiveEnd(s) ==
    /\ live[s] = "on"
    /\ live' = [live EXCEPT ![s] = "gone"]
    /\ UNCHANGED <<storeVars, volatile, jobVars, proc, pool, disk, rest>>

(* Its FFmpeg does not start: Start releases the tuner, and nobody closes  *)
(* done.                                                                   *)
LiveStartFails(s) ==
    /\ live[s] = "on" /\ "spawn" \in Faults
    /\ live' = [live EXCEPT ![s] = "lost"]
    /\ UNCHANGED <<storeVars, volatile, jobVars, proc, pool, disk, rest>>

LiveStep(s) == LiveStart(s) \/ LiveEnd(s) \/ LiveStartFails(s)

(* FFmpeg appends a segment; a removed directory is not made again. *)
FfmpegWrites(j) ==
    /\ proc[j] /\ disk[Folder(j)] \in {"empty", "ended"}
    /\ disk' = [disk EXCEPT ![Folder(j)] = "open"]
    /\ UNCHANGED <<storeVars, volatile, jobVars, proc, pool, live, rest>>

(* It ends the playlist when it exits in good order, not when killed. *)
FfmpegExits(j) ==
    /\ proc[j]
    /\ proc' = [proc EXCEPT ![j] = FALSE]
    /\ \/ UNCHANGED disk
       \/ /\ disk[Folder(j)] = "open"
          /\ disk' = [disk EXCEPT ![Folder(j)] = "ended"]
    /\ UNCHANGED <<storeVars, volatile, jobVars, pool, live, rest>>

ClockTick ==
    /\ Tick
    /\ UNCHANGED <<volatile, jobVars, host, rest>>

-----------------------------------------------------------------------------

(* What main and the goroutine of Supervisor.Run do, one step at a time. *)
RunStep ==
    \/ Boot \/ Exit
    \/ FindInterrupted \/ FindInterruptedFails \/ RecoveryDone
    \/ PollNothing
    \/ \E j \in Jobs :
        \/ RecoverFinalize(j) \/ RecoverStore(j) \/ RecoverStoreFails(j)
        \/ StartDue(j)

Next ==
    \/ RunStep
    \/ Shutdown \/ Crash \/ ClockTick \/ CreateRecording
    \/ \E j \in Jobs :
        \/ CaptureStep(j)
        \/ DeleteRequest(j) \/ DeleteStep(j) \/ DeleteAbandoned(j)
        \/ FfmpegWrites(j) \/ FfmpegExits(j)
    \/ \E s \in Sessions : LiveStep(s)

Spec == Init /\ [][Next]_vars

(* The process is restarted, goroutines and handlers run, an FFmpeg that   *)
(* is stopped exits, a live session ends (six hours at the latest) or does *)
(* not start, time passes.  Whoever waits for activeMu gets it, however    *)
(* many DELETEs compete for it: a sync.Mutex is handed to the one that has *)
(* waited longest.                                                         *)
Fairness ==
    /\ WF_vars(RunStep) /\ WF_vars(ClockTick)
    /\ SF_vars(PollNothing \/ \E j \in Jobs : StartDue(j))
    /\ \A j \in Jobs :
        /\ WF_vars(CaptureStep(j)) /\ WF_vars(DeleteStep(j))
        /\ SF_vars(Deregister(j))
        /\ WF_vars(capture[j] \in {"reap", "stopAtEnd", "stopOnCancel"}
                       /\ FfmpegExits(j))
    /\ \A s \in Sessions : WF_vars(LiveEnd(s) \/ LiveStartFails(s))

FairSpec == Spec /\ Fairness

-----------------------------------------------------------------------------
(* Properties *)

TypeOK ==
    /\ StoreTypeOK
    /\ svc \in {"down", "boot", "recover", "up"}
    /\ stopping \in BOOLEAN
    /\ restarts \in 0 .. MaxRestarts /\ (stopping => restarts < MaxRestarts)
    /\ pending \in [Jobs -> {"none", "requeue", "close",
                             "completed", "failed"}]
    /\ capture \in [Jobs -> Steps]
    /\ cause \in [Jobs -> {"none", "deleted", "shutdown"}]
    /\ verdict \in [Jobs -> Verdicts]
    /\ proc \in [Jobs -> BOOLEAN]
    /\ pool \subseteq Jobs
    /\ live \in [Sessions -> {"new", "on", "gone", "lost"}]
    /\ waits \in [Jobs -> Sessions \cup {NoSession}]
    /\ disk \in [Folders -> {"absent", "empty", "open", "ended"}]
    /\ del \in [Jobs -> {"idle", "cancel", "await", "remove", "drop"}]
    /\ erased \subseteq Jobs /\ unsaved \subseteq Jobs
    /\ survivors \subseteq Jobs /\ ("kill" \notin Faults => survivors = {})

Shares(j) ==
    \E k \in Jobs \ {j} : rows[k].status # "new" /\ Folder(k) = Folder(j)

(* A row says "recording" only while a goroutine of this process records   *)
(* it or recovery has yet to handle it.  The exception is what the log     *)
(* reports: a write of the outcome that failed; such a row waits for the   *)
(* next start, which finds it.  (A shutdown in the middle of recovery      *)
(* leaves the remaining rows to the next start too.)                       *)
RecordingHasOwner ==
    \A j \in Statuses({"recording"}) :
        \/ capture[j] \notin {"idle", "release", "deregister"}
        \/ pending[j] # "none"
        \/ svc \in {"down", "boot"}
        \/ stopping
        \/ j \in unsaved

(* Recordings and live sessions together never hold more tuners than there *)
(* are; a tuner a recording holds has a goroutine that will give it back;  *)
(* and an FFmpeg runs without a tuner only when it outlived its stop.      *)
TunersNotOverdrawn ==
    /\ InUse <= Capacity
    /\ \A j \in pool : capture[j] \notin {"idle", "deregister"}
    /\ \A j \in Jobs : proc[j] => j \in pool \/ j \in survivors

(* Whoever waits for a goroutine, the exit or a DELETE, waits for one that *)
(* was told to stop; and no goroutine goes on with a cancelled job without *)
(* being told but in the moment between the two, in which the handler that *)
(* cancelled the row holds activeMu; however claims, cancellations and     *)
(* captures meet.                                                          *)
AwaitedIsTold ==
    \A j \in Active :
        (\/ stopping \/ del[j] = "await"
         \/ (rows[j].status = "cancelled" /\ del[j] # "cancel"))
            => cause[j] # "none"

(* Once a deleted row is gone nothing of the job is left, whatever moment  *)
(* of the capture the DELETE met: no goroutine, tuner or file, not even    *)
(* when its FFmpeg outlived its stop, and otherwise no FFmpeg.             *)
DeletedLeavesNothing ==
    \A j \in Statuses({"deleted"}) :
        /\ capture[j] = "idle" /\ j \notin pool
        /\ ~proc[j] \/ j \in survivors
        /\ disk[Folder(j)] = "absent" \/ Shares(j)

(* A job reported completed has a finite, playable playlist, whether the   *)
(* goroutine or recovery completed it, until its output is removed, unless *)
(* its FFmpeg outlived its stop and may have written on.                   *)
CompletedIsPlayable ==
    \A j \in Statuses({"completed"}) :
        \/ disk[Folder(j)] = "ended"
        \/ j \in erased \cup survivors \/ Shares(j)

(* An active recording whose folder is its own never loses the media it    *)
(* already wrote, across deletions, recovery and resumption.               *)
OwnMediaKept ==
    [][\A j \in Jobs :
        (/\ rows[j].status = "recording" /\ rows'[j].status = "recording"
         /\ disk[Folder(j)] \in Playable /\ ~Shares(j))
            => disk'[Folder(j)] \in Playable]_vars

(* A recording is turned away for want of a tuner only when one of the     *)
(* jobs holding them has outlived its window or its row (it is still       *)
(* shutting its FFmpeg down), or when it comes too late itself.  Within    *)
(* the accepted windows, a tuner is always there.                          *)
RefusedOnlyOnOverrun ==
    [][\A j \in Jobs :
        (verdict[j] = NoVerdict /\ verdict'[j] = Failed("no tuner")) =>
            \/ now >= rows[j].to
            \/ rows[j].status # "recording"
            \/ \E k \in pool :
                   now >= rows[k].to \/ rows[k].status # "recording"
      ]_vars

(* The service moves jobs along the life cycle only, and removes a row     *)
(* only after it is settled.                                               *)
Lifecycle ==
    INSTANCE JobLifecycle WITH
        Removable <- Settled,
        phase <- [j \in Jobs |-> rows[j].status]

KeepsLifecycle == Lifecycle!Spec

(* The captures and the coarse live sessions beside them keep the promise  *)
(* of the tuner pool, as the detailed live manager of LiveTv does, also    *)
(* when a capture is deleted while it asks or waits, across restarts.      *)
Tuners ==
    INSTANCE TunerPool WITH
        Recordings <- Jobs,
        Size <- Capacity,
        recorders <- pool,
        viewers <- Held,
        asking <- {j \in Jobs : capture[j] = "acquire"},
        victim <- waits,
        over <- {s \in Sessions : live[s] = "gone"},
        cancelled <- {j \in Jobs : cause[j] # "none"}

ImplementsPool == Tuners!Spec

(* The capture waits for a session that was preempted before its FFmpeg    *)
(* failed to start, and nobody cancels it: live_spawn shows how.           *)
Stranded(j) ==
    capture[j] = "await" /\ live[waits[j]] = "lost" /\ cause[j] = "none"

(* Every accepted job settles, through preemption, shutdowns, crashes and  *)
(* failing writes, but one that is stranded, or whose row this process     *)
(* failed to write: those wait for a DELETE, a shutdown or the next start, *)
(* and settle after it.                                                    *)
EveryJobSettles ==
    \A j \in Jobs :
        rows[j].status \in Accepted
            ~> \/ rows[j].status \in Settled \cup {"deleted"}
               \/ Stranded(j) \/ j \in unsaved

(* A DELETE that waits for the capture to stop gets its answer.            *)
DeleteReturns == \A j \in Jobs : del[j] # "idle" ~> del[j] = "idle"

-----------------------------------------------------------------------------
(* What the project's texts say and the code does not do *)

(* internal/recording/tuners.go:13-14: "Recordings may preempt live        *)
(* buffers so a scheduled recording is never missed."                      *)
NeverMissed == \A j \in Jobs : rows[j].error # "no tuner"

(* docs/ARCHITECTURE.md:29: "Old segments remain addressable for the       *)
(* lifetime of an active recording."                                       *)
SegmentsStayAddressable ==
    [][\A j \in Jobs :
        (/\ rows[j].status = "recording" /\ rows'[j].status = "recording"
         /\ disk[Folder(j)] \in Playable)
            => disk'[Folder(j)] \in Playable]_vars

(* docs/ARCHITECTURE.md:32: "crash recovery must either resume safely or   *)
(* finalize the playable prefix."                                          *)
ResumedOrFinalized ==
    \A j \in Statuses({"failed"}) :
        rows[j].error = "elapsed" /\ ~Shares(j) => disk[Folder(j)] # "open"

=============================================================================
