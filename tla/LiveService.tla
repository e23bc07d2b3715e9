----------------------------- MODULE LiveService -----------------------------
(***************************************************************************)
(* cmd/catchupd/main.go around the live manager: a signal cancels the root *)
(* context, the HTTP listener closes, and main waits for the recorder and  *)
(* for LiveManager.Wait before the process exits.  It waits for no         *)
(* handler: what a handler of POST /api/live does until waitGroup.Add(1)   *)
(* counts for nothing, and handlers run on, past Add(1) too, until the     *)
(* process is gone.                                                        *)
(***************************************************************************)
EXTENDS LiveTv

VARIABLES
    main,      \* where main is
    uncounted  \* history: the sessions without a run loop when Wait returned

service == <<vars, main, uncounted>>

ServiceInit == Init /\ main = "serving" /\ uncounted = {}

-----------------------------------------------------------------------------

(* Mutant: the contexts are not derived from the one a signal cancels. *)
SignalListenerOnly ==
    /\ main = "serving" /\ main' = "closing"
    /\ UNCHANGED <<vars, uncounted>>

(* SIGTERM; every context derived from the root is cancelled with it. *)
Signal ==
    /\ main = "serving" /\ main' = "closing"
    /\ Shutdown
    /\ UNCHANGED uncounted

(* server.Shutdown closes the listener and ListenAndServe returns. *)
ListenerCloses ==
    /\ main = "closing" /\ main' = "waiting"
    /\ UNCHANGED <<vars, uncounted>>

(* Mutant: main does not call live.Wait. *)
NoLiveWait == TRUE

(* Recorder.Run waits for its captures, LiveManager.Wait for the sessions  *)
(* that were counted.                                                      *)
RecorderDone == \A r \in Recordings : rec[r] \in {"idle", "refused", "over"}
LiveDone == \A s \in Sessions : run[s] \in {"none", "ended"}

Waited ==
    /\ main = "waiting" /\ main' = "leaving"
    /\ RecorderDone /\ LiveDone
    /\ uncounted' = {s \in Sessions : run[s] = "none"}
    /\ UNCHANGED vars

(* The deferred calls of main are done and the process ends. *)
Exits ==
    /\ main = "leaving" /\ main' = "exited"
    /\ UNCHANGED <<vars, uncounted>>

(* A goroutine of the process takes a step. *)
Live(A) == main # "exited" /\ A /\ UNCHANGED <<main, uncounted>>

(* The recorder claims while the root context lives.  A request may come   *)
(* until the end: the closed listener has connections that were accepted   *)
(* and have not sent one yet.                                              *)
Claims(r) == main = "serving" /\ RecordingDue(r)

ServiceNext ==
    \/ Signal \/ ListenerCloses \/ Waited \/ Exits
    \/ \E s \in Sessions :
        \/ Live(StartRequest(s)) \/ Live(StartStep(s)) \/ Live(RunStep(s))
        \/ Live(StopRequest(s)) \/ Live(StopReturns(s))
        \/ Live(StopAbandoned(s))
        \/ FfmpegExits(s) /\ UNCHANGED <<main, uncounted>>
    \/ \E r \in Recordings :
        \/ Live(Claims(r)) \/ Live(RecordingStep(r))
        \/ Live(RecordingOver(r)) \/ Live(RecordingDeleted(r))

(* As in LiveTv; a recording whose context is cancelled comes to its end.  *)
ServiceFairness ==
    /\ WF_service(ListenerCloses) /\ WF_service(Waited) /\ WF_service(Exits)
    /\ \A s \in Sessions :
        /\ WF_service(Live(StartStep(s))) /\ WF_service(Live(RunStep(s)))
        /\ WF_service(Live(StopReturns(s)))
        /\ WF_service(/\ run[s] = "stop" /\ FfmpegExits(s)
                      /\ UNCHANGED <<main, uncounted>>)
    /\ \A r \in Recordings :
        /\ WF_service(Live(RecordingStep(r)))
        /\ WF_service(r \in recDone /\ Live(RecordingOver(r)))

ServiceSpec == ServiceInit /\ [][ServiceNext]_service /\ ServiceFairness

-----------------------------------------------------------------------------
(* Properties *)

(* What the exit of the process leaves behind, a tuner, an FFmpeg that was *)
(* not given up on, or a buffer that could be removed, belongs to a Start  *)
(* handler that had not counted its session when LiveManager.Wait          *)
(* returned, wherever that session has come since.                         *)
ExitIsClean ==
    main = "exited" =>
        pool \cup (proc \ Survivors) \cup (dirs \ leftover) \subseteq uncounted

(* A signal ends the process: no session, preemption or recording keeps    *)
(* main waiting.                                                           *)
ShutdownEnds == main = "closing" ~> main = "exited"

(* A recording that preempts a session gets its answer before the process  *)
(* exits, unless the FFmpeg of that session could not be started.          *)
PreemptionAnswered ==
    \A r \in Recordings :
        rec[r] = "wait" ~>
            \/ rec[r] \in {"holding", "refused", "over"}
            \/ target[r] # NoSession /\ Unstarted(target[r])
            \/ main = "exited"

(* A DELETE of a live session is answered, or dies with the process.       *)
StopSettled ==
    \A s \in Sessions : stop[s] = "wait" ~> stop[s] # "wait" \/ main = "exited"

=============================================================================
