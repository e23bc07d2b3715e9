------------------------------- MODULE LiveTv -------------------------------
(***************************************************************************)
(* internal/recording/live.go and tuners.go: temporary live-TV sessions    *)
(* and the tuner pool they share with recordings.  A session has two       *)
(* goroutines, the HTTP handler inside LiveManager.Start and the run loop  *)
(* it starts; clients stop sessions; recordings take a tuner with          *)
(* AcquireRecording and preempt sessions for it.                           *)
(*                                                                         *)
(* The pool's and the manager's mutexes each cover one short critical      *)
(* section, so each section is one action.  Timers and reads of the stream *)
(* are not timed: a session's idle or maximum-duration timer may fire at   *)
(* any moment of its select.                                               *)
(***************************************************************************)
EXTENDS Integers, FiniteSets

CONSTANTS
    Sessions,    \* bound: the sessions ever started, ids are never reused
    Recordings,  \* bound: the captures that ask for a tuner, each once
    NoSession,
    Total,       \* tuners, as configured
    Faults       \* what may go wrong, of AllFaults

AllFaults == {"spawn",  \* FFmpeg cannot be started
              "kill",   \* a killed FFmpeg does not exit within a second
              "disk",   \* a buffer directory cannot be removed
              "client"} \* an HTTP client goes away while it waits

ASSUME LiveTvAssumption ==
    /\ NoSession \notin Sessions
    /\ Sessions \cap Recordings = {}
    /\ Total \in Int
    /\ Faults \subseteq AllFaults

VARIABLES
    pool,       \* keys of TunerPool.active
    start,      \* where the Start handler of each session is
    run,        \* where its run goroutine is
    cancelled,  \* sessions whose context is cancelled
    done,       \* sessions whose done channel is closed
    jobs,       \* LiveManager.jobs
    dirs,       \* buffer directories on disk
    leftover,   \* history: the sessions whose directory was not removed
    proc,       \* sessions whose FFmpeg is running
    stop,       \* where the DELETE handler of each session is
    rec,        \* where each recording is in AcquireRecording
    target,     \* the session a recording preempts
    recDone     \* recordings whose context is cancelled

files == <<dirs, leftover>>
media == <<jobs, files, proc>>
sessionVars == <<start, run, media>>
recVars == <<rec, target, recDone>>
vars == <<pool, sessionVars, cancelled, done, stop, recVars>>

Size == IF Total < 1 THEN 1 ELSE Total

At(pc, x, from, to) == pc[x] = from /\ pc' = [pc EXCEPT ![x] = to]

Cancel(s) == cancelled' = cancelled \cup {s}

Init ==
    /\ pool = {} /\ cancelled = {} /\ done = {}
    /\ jobs = {} /\ dirs = {} /\ leftover = {} /\ proc = {} /\ recDone = {}
    /\ start = [s \in Sessions |-> "new"]
    /\ run = [s \in Sessions |-> "none"]
    /\ stop = [s \in Sessions |-> "idle"]
    /\ rec = [r \in Recordings |-> "idle"]
    /\ target = [r \in Recordings |-> NoSession]

-----------------------------------------------------------------------------
(* TunerPool *)

(* Mutant: one tuner too many. *)
AcquireLiveAtLimit(s) ==
    /\ Cardinality(pool) <= Size
    /\ pool' = pool \cup {s}

AcquireLive(s) ==
    /\ Cardinality(pool) < Size
    /\ pool' = pool \cup {s}

Release(key) == pool' = pool \ {key}

(* One turn of AcquireRecording under the lock: take a free tuner, pick    *)
(* some live reservation, or report that recordings hold every tuner.      *)
RecordingTurn(r) ==
    /\ \/ /\ Cardinality(pool) < Size
          /\ At(rec, r, "turn", "holding")
          /\ pool' = pool \cup {r}
          /\ UNCHANGED target
       \/ /\ Cardinality(pool) >= Size
          /\ At(rec, r, "turn", "preempt")
          /\ \E s \in pool \cap Sessions : target' = [target EXCEPT ![r] = s]
          /\ UNCHANGED pool
       \/ /\ Cardinality(pool) >= Size /\ pool \cap Sessions = {}
          /\ At(rec, r, "turn", "refused")
          /\ UNCHANGED <<pool, target>>
    /\ UNCHANGED <<sessionVars, cancelled, done, stop, recDone>>

(* preempt() is the session's cancel function, called outside the lock. *)
Preempt(r) ==
    /\ At(rec, r, "preempt", "wait")
    /\ Cancel(target[r])
    /\ UNCHANGED <<pool, sessionVars, done, stop, target, recDone>>

PreemptedDone(r) ==
    /\ target[r] \in done
    /\ At(rec, r, "wait", "turn")
    /\ target' = [target EXCEPT ![r] = NoSession]
    /\ UNCHANGED <<pool, sessionVars, cancelled, done, stop, recDone>>

RecordingGivesUp(r) ==
    /\ r \in recDone
    /\ At(rec, r, "wait", "refused")
    /\ target' = [target EXCEPT ![r] = NoSession]
    /\ UNCHANGED <<pool, sessionVars, cancelled, done, stop, recDone>>

RecordingStep(r) ==
    RecordingTurn(r) \/ Preempt(r) \/ PreemptedDone(r) \/ RecordingGivesUp(r)

(* Around it, the supervisor: a claim, the end of the capture, a DELETE. *)
RecordingDue(r) ==
    /\ At(rec, r, "idle", "turn")
    /\ UNCHANGED <<pool, sessionVars, cancelled, done, stop, target, recDone>>

RecordingOver(r) ==
    /\ At(rec, r, "holding", "over")
    /\ Release(r)
    /\ UNCHANGED <<sessionVars, cancelled, done, stop, target, recDone>>

RecordingDeleted(r) ==
    /\ rec[r] \in {"turn", "preempt", "wait", "holding"}
    /\ recDone' = recDone \cup {r}
    /\ UNCHANGED <<pool, sessionVars, cancelled, done, stop, rec, target>>

-----------------------------------------------------------------------------
(* LiveManager.Start, the handler of POST /api/live *)

(* os.RemoveAll on the buffer of a session, whose error is ignored or      *)
(* logged.                                                                 *)
RemoveAll(s) ==
    \/ dirs' = dirs \ {s} /\ UNCHANGED leftover
    \/ /\ "disk" \in Faults
       /\ leftover' = leftover \cup {s}
       /\ UNCHANGED dirs

StartRequest(s) ==
    /\ At(start, s, "new", "acquire")
    /\ dirs' = dirs \cup {s}
    /\ UNCHANGED <<pool, run, jobs, leftover, proc, cancelled, done, stop, recVars>>

StartAcquire(s) ==
    /\ \/ At(start, s, "acquire", "spawn") /\ AcquireLive(s)
          /\ UNCHANGED <<files, cancelled>>
       \/ /\ At(start, s, "acquire", "failed")
          /\ Cardinality(pool) >= Size
          /\ Cancel(s)
          /\ RemoveAll(s)
          /\ UNCHANGED pool
    /\ UNCHANGED <<run, jobs, proc, done, stop, recVars>>

Spawn(s) ==
    /\ At(start, s, "spawn", "register")
    /\ proc' = proc \cup {s}
    /\ UNCHANGED <<pool, run, jobs, files, cancelled, done, stop, recVars>>

(* Mutant: the tuner is kept. *)
SpawnFailsHolding(s) ==
    /\ "spawn" \in Faults
    /\ At(start, s, "spawn", "failed")
    /\ Cancel(s)
    /\ RemoveAll(s)
    /\ UNCHANGED <<pool, run, jobs, proc, done, stop, recVars>>

(* The tuner goes back, the context is cancelled, the directory is to be   *)
(* removed; nobody closes done.                                            *)
SpawnFails(s) ==
    /\ "spawn" \in Faults
    /\ At(start, s, "spawn", "failed")
    /\ Release(s)
    /\ Cancel(s)
    /\ RemoveAll(s)
    /\ UNCHANGED <<run, jobs, proc, done, stop, recVars>>

(* Mutant: the job is not entered in the map. *)
RegisterNowhere(s) ==
    /\ At(start, s, "register", "ready?")
    /\ run' = [run EXCEPT ![s] = "select"]
    /\ UNCHANGED <<pool, media, cancelled, done, stop, recVars>>

Register(s) ==
    /\ At(start, s, "register", "ready?")
    /\ jobs' = jobs \cup {s}
    /\ run' = [run EXCEPT ![s] = "select"]
    /\ UNCHANGED <<pool, files, proc, cancelled, done, stop, recVars>>

(* waitUntilReady read a playlist with enough segments. *)
Ready(s) ==
    /\ s \in dirs
    /\ At(start, s, "ready?", "ready")
    /\ UNCHANGED <<pool, run, media, cancelled, done, stop, recVars>>

(* The client left, the capture ended, or the timeout passed: Start calls  *)
(* Stop, which finds the job or finds it already forgotten.                *)
NotReady(s) ==
    /\ IF s \in jobs THEN At(start, s, "ready?", "stopping") /\ Cancel(s)
                     ELSE /\ At(start, s, "ready?", "failed")
                          /\ UNCHANGED cancelled
    /\ UNCHANGED <<pool, run, media, done, stop, recVars>>

(* done, or ten seconds passed *)
NotReadyStopped(s) ==
    /\ s \in done \/ "kill" \in Faults
    /\ At(start, s, "stopping", "failed")
    /\ UNCHANGED <<pool, run, media, cancelled, done, stop, recVars>>

StartStep(s) ==
    \/ StartAcquire(s) \/ Spawn(s) \/ SpawnFails(s) \/ Register(s)
    \/ Ready(s) \/ NotReady(s) \/ NotReadyStopped(s)

-----------------------------------------------------------------------------
(* LiveManager.run *)

(* Mutant: the manager forgets the session before its tuner is released. *)
SelectExitedForgets(s) ==
    /\ s \notin proc
    /\ At(run, s, "select", "release")
    /\ jobs' = jobs \ {s}
    /\ UNCHANGED <<pool, start, files, proc, cancelled, done, stop, recVars>>

(* The select: FFmpeg exited, the context is cancelled, a timer fired. *)
SelectExited(s) ==
    /\ s \notin proc
    /\ At(run, s, "select", "release")
    /\ UNCHANGED <<pool, start, media, cancelled, done, stop, recVars>>

SelectCancelled(s) ==
    /\ s \in cancelled
    /\ At(run, s, "select", "stop")
    /\ UNCHANGED <<pool, start, media, cancelled, done, stop, recVars>>

SelectTimer(s) ==
    /\ At(run, s, "select", "stop")
    /\ UNCHANGED <<pool, start, media, cancelled, done, stop, recVars>>

(* stopProcess: FFmpeg exited, or it was killed and given up on. *)
StopProcess(s) ==
    /\ s \notin proc \/ "kill" \in Faults
    /\ At(run, s, "stop", "release")
    /\ UNCHANGED <<pool, start, media, cancelled, done, stop, recVars>>

(* Mutant: done is closed before the tuner is released. *)
RunReleaseLate(s) ==
    /\ At(run, s, "release", "close")
    /\ done' = done \cup {s}
    /\ UNCHANGED <<pool, start, media, cancelled, stop, recVars>>

(* The deferred calls, last one first. *)
RunRelease(s) ==
    /\ At(run, s, "release", "close")
    /\ Release(s)
    /\ UNCHANGED <<start, media, cancelled, done, stop, recVars>>

(* Mutant: done is never closed. *)
CloseNothing(s) ==
    /\ At(run, s, "close", "forget")
    /\ UNCHANGED <<pool, start, media, cancelled, done, stop, recVars>>

CloseDone(s) ==
    /\ At(run, s, "close", "forget")
    /\ done' = done \cup {s}
    /\ UNCHANGED <<pool, start, media, cancelled, stop, recVars>>

Forget(s) ==
    /\ At(run, s, "forget", "clean")
    /\ jobs' = jobs \ {s}
    /\ UNCHANGED <<pool, start, files, proc, cancelled, done, stop, recVars>>

RemoveBuffer(s) ==
    /\ At(run, s, "clean", "ended")
    /\ RemoveAll(s)
    /\ UNCHANGED <<pool, start, jobs, proc, cancelled, done, stop, recVars>>

RunStep(s) ==
    \/ SelectExited(s) \/ SelectCancelled(s) \/ SelectTimer(s)
    \/ StopProcess(s)
    \/ RunRelease(s) \/ CloseDone(s) \/ Forget(s) \/ RemoveBuffer(s)

FfmpegExits(s) ==
    /\ s \in proc
    /\ proc' = proc \ {s}
    /\ UNCHANGED <<pool, start, run, jobs, files, cancelled, done, stop,
                   recVars>>

-----------------------------------------------------------------------------
(* LiveManager.Stop, the handler of DELETE /api/live/{id}; the client has  *)
(* the id once Start returned it.                                          *)

StopRequest(s) ==
    /\ start[s] = "ready"
    /\ IF s \in jobs THEN At(stop, s, "idle", "wait") /\ Cancel(s)
                     ELSE At(stop, s, "idle", "ok") /\ UNCHANGED cancelled
    /\ UNCHANGED <<pool, sessionVars, done, recVars>>

StopReturns(s) ==
    /\ s \in done
    /\ At(stop, s, "wait", "ok")
    /\ UNCHANGED <<pool, sessionVars, cancelled, done, recVars>>

StopAbandoned(s) ==
    /\ "client" \in Faults
    /\ At(stop, s, "wait", "idle")
    /\ UNCHANGED <<pool, sessionVars, cancelled, done, recVars>>

(* SIGTERM cancels the root context. *)
Shutdown ==
    /\ cancelled' = Sessions
    /\ recDone' = Recordings
    /\ UNCHANGED <<pool, sessionVars, done, stop, rec, target>>

-----------------------------------------------------------------------------

Next ==
    \/ Shutdown
    \/ \E s \in Sessions :
        \/ StartRequest(s) \/ StartStep(s) \/ RunStep(s) \/ FfmpegExits(s)
        \/ StopRequest(s) \/ StopReturns(s) \/ StopAbandoned(s)
    \/ \E r \in Recordings :
        \/ RecordingDue(r) \/ RecordingStep(r)
        \/ RecordingOver(r) \/ RecordingDeleted(r)

Spec == Init /\ [][Next]_vars

(* Goroutines are scheduled, the select takes a ready case (the timers     *)
(* bound its wait to six hours), a killed FFmpeg exits.                    *)
Fairness ==
    /\ \A s \in Sessions :
        /\ WF_vars(StartStep(s)) /\ WF_vars(RunStep(s))
        /\ WF_vars(StopReturns(s))
        /\ WF_vars(run[s] = "stop" /\ FfmpegExits(s))
    /\ \A r \in Recordings : WF_vars(RecordingStep(r))

FairSpec == Spec /\ Fairness

-----------------------------------------------------------------------------
(* Properties *)

Registered == {"select", "stop", "release", "close", "forget"}

TypeOK ==
    /\ pool \subseteq Sessions \cup Recordings
    /\ start \in [Sessions -> {"new", "acquire", "spawn", "register", "ready?",
                               "ready", "stopping", "failed"}]
    /\ run \in [Sessions -> {"none", "select", "stop", "release", "close",
                             "forget", "clean", "ended"}]
    /\ cancelled \subseteq Sessions /\ done \subseteq Sessions
    /\ jobs \subseteq Sessions /\ dirs \subseteq Sessions
    /\ leftover \subseteq Sessions /\ ("disk" \notin Faults => leftover = {})
    /\ proc \subseteq Sessions
    /\ stop \in [Sessions -> {"idle", "wait", "ok"}]
    /\ rec \in [Recordings -> {"idle", "turn", "preempt", "wait", "holding",
                               "refused", "over"}]
    /\ target \in [Recordings -> Sessions \cup {NoSession}]
    /\ recDone \subseteq Recordings
    /\ \A s \in Sessions : s \in jobs <=> run[s] \in Registered

PastStop == {"release", "close", "forget", "clean", "ended"}

(* The FFmpegs stopProcess killed and gave up on. *)
Survivors == {s \in proc : "kill" \in Faults /\ run[s] \in PastStop}

(* Every live FFmpeg that was not given up on and every recording past     *)
(* AcquireRecording has a tuner of its own, however preemption and start   *)
(* interleave, and the pool never hands out one too many.                  *)
TunersNotOverdrawn ==
    /\ Cardinality(pool) <= Size
    /\ proc \subseteq pool \cup Survivors
    /\ \A r \in Recordings : rec[r] = "holding" => r \in pool

(* A waiter woken by a session's done finds its tuner already given back.  *)
DoneMeansReleased == done \cap pool = {}

(* A successful DELETE of a session means its tuner is free and its FFmpeg *)
(* gone or given up on, also when the session ended by itself at the same  *)
(* moment: the manager forgets a session only after it gave all back.      *)
StoppedMeansReleased ==
    \A s \in Sessions : stop[s] = "ok" => s \notin pool \cup (proc \ Survivors)

(* Whoever waits for done, a recording or a DELETE, waits for a session    *)
(* that has closed it, or that is cancelled and has a goroutine that will. *)
(* The exception is the recording that preempted a session whose FFmpeg    *)
(* could then not be started: it waits for nobody (see PreemptionEnds).    *)
Unstarted(s) == start[s] = "failed" /\ run[s] = "none"

Ending(s) ==
    /\ s \in cancelled
    /\ \/ start[s] \in {"spawn", "register"}
       \/ run[s] \in {"select", "stop", "release", "close"}

AwaitedWillEnd ==
    /\ \A r \in Recordings :
        rec[r] = "wait" =>
            \/ target[r] \in done
            \/ target[r] \in Sessions
               /\ (Ending(target[r]) \/ Unstarted(target[r]))
    /\ \A s \in Sessions : stop[s] = "wait" => s \in done \/ Ending(s)

(* A session that is over leaves no tuner and no entry, no FFmpeg but one  *)
(* that outlived its kill, and no directory but one that could not be      *)
(* removed.                                                                *)
Over(s) ==
    \/ Unstarted(s)
    \/ run[s] = "ended" /\ start[s] \in {"ready", "failed"}

EndedLeavesNothing ==
    \A s \in Sessions :
        Over(s) => s \notin pool \cup jobs \cup (proc \ Survivors)
                                \cup (dirs \ leftover)

(* The manager and the pool, with all their goroutines, keep the promise   *)
(* of the pool: a recording preempts only when the pool is full, waits for *)
(* a session that held a tuner, is turned away only when none does or when *)
(* it is cancelled, and done is closed only after the tuner went back.     *)
Pool ==
    INSTANCE TunerPool WITH
        recorders <- pool \cap Recordings,
        viewers <- pool \cap Sessions,
        asking <- {r \in Recordings : rec[r] = "turn"},
        victim <- target,
        over <- done,
        cancelled <- recDone

ImplementsPool == Pool!Spec

(* A recording that preempts a session gets its answer: the tuner, or that *)
(* recordings hold them all.  internal/recording/tuners.go:13-14:          *)
(* "Recordings may preempt live buffers so a scheduled recording is never  *)
(* missed."                                                                *)
PreemptionEnds ==
    \A r \in Recordings :
        rec[r] = "wait" ~> rec[r] \in {"holding", "refused", "over"}

=============================================================================
