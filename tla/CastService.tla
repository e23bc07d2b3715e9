----------------------------- MODULE CastService -----------------------------
(***************************************************************************)
(* internal/httpapi/cast.go and its handlers in server.go, with the timers *)
(* of the live sessions they keep and stop (recording/live.go): a cast     *)
(* link is renewed by every read of its media and lapses when nobody       *)
(* reads; a lapsed link stops the live session it was issued for.  A       *)
(* session also ends by its idle timer, by DELETE, or by itself.           *)
(*                                                                         *)
(* Time is the countdowns: Tick lowers those that run.  Nothing is urgent: *)
(* a timer that is due may fire, and a goroutine may get the lock,         *)
(* arbitrarily late.  The start of a session and what its end gives back   *)
(* are LiveTv's.                                                           *)
(***************************************************************************)
EXTENDS Integers, FiniteSets

CONSTANTS
    Links,        \* bound: the tokens ever issued
    Sessions,     \* bound: the live sessions there ever are
    Recording,    \* what a link to a recording is for, no live session
    Timeout,      \* castIdleTimeout, in ticks
    IdleTimeout   \* LiveConfig.IdleTimeout, in ticks

ASSUME CastAssumption ==
    /\ Recording \notin Sessions
    /\ Timeout \in Nat \ {0} /\ IdleTimeout \in Nat \ {0}

Off == -1

VARIABLES
    link,       \* the life of each token, "open" while in castService.sessions
    target,     \* the session it was issued for, or Recording
    left,       \* time.Until(deadline), zero once it has passed
    timer,      \* what is left on its timer, or Off
    firing,     \* links with a call of expire under way, not yet under the lock
    tv,         \* where the receiver's GET /cast/... handler is
    ordered,    \* sessions some lapsed link is about to Stop
    delete,     \* where the DELETE /api/live/{id} handler is
    session,    \* the life of each live session
    cancelled,  \* sessions whose context is cancelled
    outside,    \* history: those cancelled by neither DELETE nor link
    activity,   \* sessions with a value in their activity channel
    idle,       \* what is left on the idle timer
    unread,     \* history: ticks since the link was issued or last read
    untouched   \* history: ticks since the session started or was last read

linkVars == <<link, target, left, timer, firing, unread>>
contexts == <<cancelled, outside>>
liveVars == <<session, contexts, activity, idle, untouched>>
vars == <<linkVars, liveVars, tv, ordered, delete>>

Init ==
    /\ link = [t \in Links |-> "new"]
    /\ target = [t \in Links |-> Recording]
    /\ left = [t \in Links |-> 0] /\ unread = [t \in Links |-> 0]
    /\ timer = [t \in Links |-> Off]
    /\ tv = [t \in Links |-> "idle"]
    /\ firing = {} /\ ordered = {} /\ cancelled = {} /\ outside = {}
    /\ activity = {}
    /\ delete = [s \in Sessions |-> "idle"]
    /\ session = [s \in Sessions |-> "new"]
    /\ idle = [s \in Sessions |-> 0] /\ untouched = [s \in Sessions |-> 0]

-----------------------------------------------------------------------------
(* castService *)

(* createCastMedia: the playlist must exist. *)
CheckPlaylist(t) ==
    /\ link[t] = "new"
    /\ \E s \in Sessions \cup {Recording} :
        /\ s \in Sessions => session[s] \in {"live", "stopping"}
        /\ target' = [target EXCEPT ![t] = s]
    /\ link' = [link EXCEPT ![t] = "checked"]
    /\ UNCHANGED <<left, timer, firing, unread, liveVars, tv, ordered, delete>>

(* issue: the link exists and its timer runs. *)
Issue(t) ==
    /\ link[t] = "checked"
    /\ link' = [link EXCEPT ![t] = "open"]
    /\ left' = [left EXCEPT ![t] = Timeout]
    /\ timer' = [timer EXCEPT ![t] = Timeout]
    /\ unread' = [unread EXCEPT ![t] = 0]
    /\ UNCHANGED <<target, firing, liveVars, tv, ordered, delete>>

(* Mutant: the timer is stopped, not started again. *)
AuthorizeStopsTimer(t) ==
    /\ link[t] = "open" /\ tv[t] = "idle"
    /\ tv' = [tv EXCEPT ![t] = "touch"]
    /\ left' = [left EXCEPT ![t] = Timeout]
    /\ timer' = [timer EXCEPT ![t] = Off]
    /\ unread' = [unread EXCEPT ![t] = 0]
    /\ UNCHANGED <<link, target, firing, liveVars, ordered, delete>>

(* The receiver reads the playlist or a segment. *)
Authorize(t) ==
    /\ link[t] = "open" /\ tv[t] = "idle"
    /\ tv' = [tv EXCEPT ![t] = "touch"]
    /\ left' = [left EXCEPT ![t] = Timeout]
    /\ timer' = [timer EXCEPT ![t] = Timeout]
    /\ unread' = [unread EXCEPT ![t] = 0]
    /\ UNCHANGED <<link, target, firing, liveVars, ordered, delete>>

(* The runtime starts a goroutine for expire.  A second one would find     *)
(* what the first one finds: it starts when the first has run.             *)
TimerFires(t) ==
    /\ timer[t] = 0
    /\ t \notin firing
    /\ firing' = firing \cup {t}
    /\ timer' = [timer EXCEPT ![t] = Off]
    /\ UNCHANGED <<link, target, left, unread, liveVars, tv, ordered, delete>>

(* Mutant: what the timer says is believed. *)
ExpireAtOnce(t) ==
    /\ t \in firing
    /\ firing' = firing \ {t}
    /\ link' = [link EXCEPT ![t] = IF @ = "open" THEN "gone" ELSE @]
    /\ ordered' = IF link[t] = "open"
                  THEN ordered \cup ({target[t]} \cap Sessions) ELSE ordered
    /\ UNCHANGED <<target, left, timer, unread, liveVars, tv, delete>>

(* Mutant: a link read meanwhile gets the timeout once more. *)
ExpireAddsTimeout(t) ==
    /\ t \in firing
    /\ firing' = firing \ {t}
    /\ link[t] = "open" /\ left[t] > 0
    /\ timer' = [timer EXCEPT ![t] = left[t] + Timeout]
    /\ UNCHANGED <<link, ordered, target, left, unread, liveVars, tv, delete>>

(* expire under the lock: the link is gone already, was read meanwhile,    *)
(* or lapses.                                                              *)
Expire(t) ==
    /\ t \in firing
    /\ firing' = firing \ {t}
    /\ \/ /\ link[t] # "open"
          /\ UNCHANGED <<link, timer, ordered>>
       \/ /\ link[t] = "open" /\ left[t] > 0
          /\ timer' = [timer EXCEPT ![t] = left[t]]
          /\ UNCHANGED <<link, ordered>>
       \/ /\ link[t] = "open" /\ left[t] = 0
          /\ link' = [link EXCEPT ![t] = "gone"]
          /\ ordered' = ordered \cup ({target[t]} \cap Sessions)
          /\ UNCHANGED timer
    /\ UNCHANGED <<target, left, unread, liveVars, tv, delete>>

(* revokeLive, first in stopLive. *)
RevokeLive(s) ==
    /\ session[s] # "new"
    /\ delete[s] = "idle"
    /\ delete' = [delete EXCEPT ![s] = "stop"]
    /\ LET revoked == {t \in Links : link[t] = "open" /\ target[t] = s} IN
        /\ link' = [t \in Links |-> IF t \in revoked THEN "gone" ELSE link[t]]
        /\ timer' = [t \in Links |-> IF t \in revoked THEN Off ELSE timer[t]]
        /\ left' = [t \in Links |-> IF t \in revoked THEN 0 ELSE left[t]]
        /\ unread' = [t \in Links |-> IF t \in revoked THEN 0 ELSE unread[t]]
    /\ UNCHANGED <<target, firing, liveVars, tv, ordered>>

-----------------------------------------------------------------------------
(* LiveManager *)

Starts(s) ==
    /\ session[s] = "new"
    /\ session' = [session EXCEPT ![s] = "live"]
    /\ idle' = [idle EXCEPT ![s] = IdleTimeout]
    /\ untouched' = [untouched EXCEPT ![s] = 0]
    /\ UNCHANGED <<linkVars, contexts, activity, tv, ordered, delete>>

(* Touch: a value in the channel, if there is none yet. *)
Touched(s) ==
    /\ activity' = IF session[s] \in {"live", "stopping"}
                   THEN activity \cup {s} ELSE activity
    /\ untouched' = [untouched EXCEPT ![s] = 0]

(* serveRecording, for the receiver and for a browser. *)
TvTouches(t) ==
    /\ tv[t] = "touch"
    /\ tv' = [tv EXCEPT ![t] = "idle"]
    /\ IF target[t] \in Sessions THEN Touched(target[t])
                                 ELSE UNCHANGED <<activity, untouched>>
    /\ UNCHANGED <<linkVars, session, contexts, idle, ordered, delete>>

BrowserReads(s) ==
    /\ session[s] \in {"live", "stopping"}
    /\ Touched(s)
    /\ UNCHANGED <<linkVars, session, contexts, idle, tv, ordered, delete>>

(* Stop cancels a session the manager still has. *)
Stop(s) == cancelled' = IF session[s] \in {"live", "stopping"}
                        THEN cancelled \cup {s} ELSE cancelled

LapsedStops(s) ==
    /\ s \in ordered
    /\ ordered' = ordered \ {s}
    /\ Stop(s)
    /\ UNCHANGED <<linkVars, session, outside, activity, idle, untouched, tv,
                   delete>>

StopLive(s) ==
    /\ delete[s] = "stop"
    /\ delete' = [delete EXCEPT ![s] = "done"]
    /\ Stop(s)
    /\ UNCHANGED <<linkVars, session, outside, activity, idle, untouched, tv,
                   ordered>>

(* The same context is cancelled by a recording that preempts the session, *)
(* by a signal, and by Start when the session is not ready in time or its  *)
(* client leaves; that may happen before the run loop starts.              *)
CancelOutside(s) ==
    /\ session[s] # "over"
    /\ cancelled' = cancelled \cup {s}
    /\ outside' = outside \cup {s}
    /\ UNCHANGED <<linkVars, session, activity, idle, untouched, tv, ordered,
                   delete>>

(* The select of run: of several ready cases it takes any. *)
SelectCancelled(s) ==
    /\ session[s] = "live" /\ s \in cancelled
    /\ session' = [session EXCEPT ![s] = "stopping"]
    /\ UNCHANGED <<linkVars, contexts, activity, idle, untouched, tv, ordered,
                   delete>>

SelectIdle(s) ==
    /\ session[s] = "live" /\ idle[s] = 0
    /\ session' = [session EXCEPT ![s] = "stopping"]
    /\ UNCHANGED <<linkVars, contexts, activity, idle, untouched, tv, ordered,
                   delete>>

(* Mutant: the idle timer is stopped and not reset. *)
SelectActivityStops(s) ==
    /\ session[s] = "live" /\ s \in activity
    /\ activity' = activity \ {s}
    /\ idle' = [idle EXCEPT ![s] = Off]
    /\ UNCHANGED <<linkVars, session, contexts, untouched, tv, ordered,
                   delete>>

(* Mutant: the activity is taken and the timer runs on. *)
SelectActivityOnly(s) ==
    /\ session[s] = "live" /\ s \in activity
    /\ activity' = activity \ {s}
    /\ UNCHANGED <<linkVars, session, contexts, idle, untouched, tv, ordered,
                   delete>>

SelectActivity(s) ==
    /\ session[s] = "live" /\ s \in activity
    /\ activity' = activity \ {s}
    /\ idle' = [idle EXCEPT ![s] = IdleTimeout]
    /\ UNCHANGED <<linkVars, session, contexts, untouched, tv, ordered,
                   delete>>

(* FFmpeg exits, or six hours are over. *)
EndsByItself(s) ==
    /\ session[s] = "live"
    /\ session' = [session EXCEPT ![s] = "over"]
    /\ UNCHANGED <<linkVars, contexts, activity, idle, untouched, tv, ordered,
                   delete>>

(* stopProcess and the deferred calls. *)
Ends(s) ==
    /\ session[s] = "stopping"
    /\ session' = [session EXCEPT ![s] = "over"]
    /\ UNCHANGED <<linkVars, contexts, activity, idle, untouched, tv, ordered,
                   delete>>

RunStep(s) ==
    SelectCancelled(s) \/ SelectIdle(s) \/ SelectActivity(s) \/ Ends(s)

-----------------------------------------------------------------------------

Less(n) == IF n > 0 THEN n - 1 ELSE n
More(n, bound) == IF n < bound THEN n + 1 ELSE n

Tick ==
    /\ left' = [t \in Links |-> Less(left[t])]
    /\ timer' = [t \in Links |-> Less(timer[t])]
    /\ idle' = [s \in Sessions |-> IF session[s] = "live" THEN Less(idle[s])
                                                          ELSE idle[s]]
    /\ unread' = [t \in Links |-> IF link[t] = "open"
                                  THEN More(unread[t], Timeout) ELSE unread[t]]
    /\ untouched' = [s \in Sessions |-> IF session[s] = "live"
                                        THEN More(untouched[s], IdleTimeout)
                                        ELSE untouched[s]]
    /\ UNCHANGED <<link, target, firing, session, contexts, activity, tv,
                   ordered, delete>>

Next ==
    \/ Tick
    \/ \E t \in Links :
        \/ CheckPlaylist(t) \/ Issue(t) \/ Authorize(t) \/ TvTouches(t)
        \/ TimerFires(t) \/ Expire(t)
    \/ \E s \in Sessions :
        \/ Starts(s) \/ BrowserReads(s) \/ EndsByItself(s) \/ RunStep(s)
        \/ RevokeLive(s) \/ StopLive(s) \/ LapsedStops(s)
        \/ CancelOutside(s)

(* Time passes, timers fire, goroutines get the lock and run. *)
Fairness ==
    /\ WF_vars(Tick)
    /\ \A t \in Links : WF_vars(TimerFires(t)) /\ WF_vars(Expire(t))
    /\ \A s \in Sessions : WF_vars(RunStep(s)) /\ WF_vars(LapsedStops(s))

Spec == Init /\ [][Next]_vars /\ Fairness

-----------------------------------------------------------------------------
(* Properties *)

CastTypeOK ==
    /\ link \in [Links -> {"new", "checked", "open", "gone"}]
    /\ target \in [Links -> Sessions \cup {Recording}]
    /\ left \in [Links -> 0 .. Timeout]
    /\ timer \in [Links -> {Off} \cup 0 .. Timeout]
    /\ tv \in [Links -> {"idle", "touch"}]
    /\ firing \subseteq Links
    /\ ordered \subseteq Sessions /\ cancelled \subseteq Sessions
    /\ outside \subseteq cancelled
    /\ delete \in [Sessions -> {"idle", "stop", "done"}]
    /\ session \in [Sessions -> {"new", "live", "stopping", "over"}]
    /\ activity \subseteq {s \in Sessions : session[s] # "new"}
    /\ idle \in [Sessions -> 0 .. IdleTimeout]
    /\ unread \in [Links -> 0 .. Timeout]
    /\ untouched \in [Sessions -> 0 .. IdleTimeout]

(* No open link is forgotten: its timer runs, or a call of expire is under *)
(* way, whichever of expire and a read comes first when the timer fires.   *)
OpenLinkIsWatched ==
    \A t \in Links : link[t] = "open" => timer[t] # Off \/ t \in firing

(* A link is taken away only by the DELETE of its session or after nobody  *)
(* read through it for the whole timeout, also when its timer had fired    *)
(* just before a read.                                                     *)
Lapsed(t) == link[t] = "gone" /\ unread[t] = Timeout

LinkKeptWhileRead ==
    [][\A t \in Links :
        link[t] = "open" /\ link'[t] = "gone" =>
            \/ unread[t] = Timeout
            \/ \E s \in Sessions : s = target[t] /\ delete'[s] # delete[s]]_vars

(* A session that nothing outside cancelled is made to stop only by its    *)
(* DELETE, by a link of it that nobody read for the whole timeout (another *)
(* reader may still be there), or by its idle timer: and by that only when *)
(* no read reached it for the idle timeout, or beside a read that the      *)
(* select had not taken notice of.                                         *)
EveryStopHasACause ==
    [][\A s \in Sessions :
        session[s] = "live" /\ session'[s] = "stopping" =>
            \/ s \in outside
            \/ delete[s] # "idle"
            \/ \E t \in Links : target[t] = s /\ Lapsed(t)
            \/ untouched[s] = IdleTimeout
            \/ s \in activity]_vars

(* A session nobody reads gives its tuner back: recording/live.go:170-172. *)
UnreadSessionEnds ==
    \A s \in Sessions :
        session[s] = "live" ~> session[s] = "over" \/ s \in activity

=============================================================================
