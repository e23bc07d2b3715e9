-------------------------- MODULE CastServiceProofs --------------------------
(***************************************************************************)
(* Proofs about CastService, for any number of links and sessions and any  *)
(* two timeouts: no open link is without a timer, a link lapses only when  *)
(* it went unread for the whole timeout, and a session that nothing        *)
(* outside cancelled is stopped only by its DELETE, a lapsed link or its   *)
(* idle timer.                                                             *)
(***************************************************************************)
EXTENDS CastService, TLAPS

-----------------------------------------------------------------------------
(* The inductive invariant *)

(* The deadline of an open link is the timeout after its last read. *)
Counted == \A t \in Links : link[t] = "open" => left[t] + unread[t] = Timeout

(* The idle timer of a session has run since its last read, unless the     *)
(* read is still in the activity channel.                                  *)
Noticed ==
    \A s \in Sessions :
        session[s] = "live" =>
            s \in activity \/ idle[s] + untouched[s] >= IdleTimeout

(* Whoever cancels a session, or is about to, comes from its DELETE or     *)
(* from a link of it that lapsed, or from outside.                         *)
Caused ==
    \A s \in ordered \cup cancelled :
        \/ s \in outside
        \/ delete[s] # "idle"
        \/ \E t \in Links : target[t] = s /\ Lapsed(t)

CastInv == CastTypeOK /\ OpenLinkIsWatched /\ Counted /\ Noticed /\ Caused

LEMMA CastInitial == Init => CastInv
<1> USE CastAssumption DEF Init
<1>1. Init => CastTypeOK
  BY DEF CastTypeOK, Off
<1>2. Init => OpenLinkIsWatched /\ Counted
  BY DEF OpenLinkIsWatched, Counted
<1>3. Init => Noticed /\ Caused
  BY DEF Noticed, Caused
<1> QED
  BY <1>1, <1>2, <1>3 DEF CastInv

-----------------------------------------------------------------------------
(* Types *)

LEMMA LinkTypes ==
    ASSUME CastTypeOK, NEW t \in Links,
           \/ CheckPlaylist(t) \/ Issue(t) \/ Authorize(t) \/ TvTouches(t)
           \/ TimerFires(t) \/ Expire(t)
    PROVE  CastTypeOK'
<1> USE CastAssumption DEF CastTypeOK, Off, linkVars, liveVars, contexts
<1>1. CASE CheckPlaylist(t)
  BY <1>1 DEF CheckPlaylist
<1>2. CASE Issue(t)
  BY <1>2 DEF Issue
<1>3. CASE Authorize(t)
  BY <1>3 DEF Authorize
<1>4. CASE TvTouches(t)
  BY <1>4 DEF TvTouches, Touched
<1>5. CASE TimerFires(t)
  BY <1>5 DEF TimerFires
<1>6. CASE Expire(t)
  BY <1>6 DEF Expire
<1> QED
  BY <1>1, <1>2, <1>3, <1>4, <1>5, <1>6

LEMMA SessionTypes ==
    ASSUME CastTypeOK, NEW s \in Sessions,
           \/ Starts(s) \/ BrowserReads(s) \/ EndsByItself(s) \/ RunStep(s)
           \/ RevokeLive(s) \/ StopLive(s) \/ LapsedStops(s)
           \/ CancelOutside(s)
    PROVE  CastTypeOK'
<1> USE CastAssumption DEF CastTypeOK, Off, linkVars, liveVars, contexts
<1>1. CASE Starts(s)
  BY <1>1 DEF Starts
<1>2. CASE BrowserReads(s)
  BY <1>2 DEF BrowserReads, Touched
<1>3. CASE EndsByItself(s)
  BY <1>3 DEF EndsByItself
<1>4. CASE RunStep(s)
  BY <1>4 DEF RunStep, SelectCancelled, SelectIdle, SelectActivity, Ends
<1>5. CASE RevokeLive(s)
  BY <1>5 DEF RevokeLive
<1>6. CASE StopLive(s) \/ LapsedStops(s) \/ CancelOutside(s)
  BY <1>6 DEF StopLive, LapsedStops, CancelOutside, Stop
<1> QED
  BY <1>1, <1>2, <1>3, <1>4, <1>5, <1>6

LEMMA TickTypes ==
    ASSUME CastTypeOK, Tick PROVE CastTypeOK'
<1> USE CastAssumption
<1>1. /\ left' \in [Links -> 0 .. Timeout]
      /\ timer' \in [Links -> {Off} \cup 0 .. Timeout]
  BY DEF Tick, Less, CastTypeOK, Off
<1>2. idle' \in [Sessions -> 0 .. IdleTimeout]
  BY DEF Tick, Less, CastTypeOK
<1>3. /\ unread' \in [Links -> 0 .. Timeout]
      /\ untouched' \in [Sessions -> 0 .. IdleTimeout]
  BY DEF Tick, More, CastTypeOK
<1>4. UNCHANGED <<link, target, firing, session, contexts, activity, tv,
                  ordered, delete>>
  BY DEF Tick
<1> QED
  BY <1>1, <1>2, <1>3, <1>4 DEF CastTypeOK, contexts

LEMMA TypesKept == CastTypeOK /\ [Next]_vars => CastTypeOK'
<1>1. ASSUME CastTypeOK, UNCHANGED vars PROVE CastTypeOK'
  BY <1>1 DEF CastTypeOK, vars, linkVars, liveVars, contexts
<1> QED
  BY <1>1, LinkTypes, SessionTypes, TickTypes DEF Next

-----------------------------------------------------------------------------
(* Links *)

LEMMA WatchedKept ==
    ASSUME CastTypeOK, OpenLinkIsWatched, [Next]_vars
    PROVE  OpenLinkIsWatched'
<1> USE CastAssumption
    DEF CastTypeOK, OpenLinkIsWatched, Off, linkVars, liveVars, contexts
<1>1. CASE Tick
  BY <1>1 DEF Tick, Less
<1>2. ASSUME NEW t \in Links,
             CheckPlaylist(t) \/ Issue(t) \/ Authorize(t) \/ TvTouches(t)
      PROVE  OpenLinkIsWatched'
  BY <1>2 DEF CheckPlaylist, Issue, Authorize, TvTouches
<1>3. ASSUME NEW t \in Links, TimerFires(t) \/ Expire(t)
      PROVE  OpenLinkIsWatched'
  BY <1>3 DEF TimerFires, Expire
<1>4. ASSUME NEW s \in Sessions, RevokeLive(s) PROVE OpenLinkIsWatched'
  BY <1>4 DEF RevokeLive
<1>5. ASSUME NEW s \in Sessions,
             \/ Starts(s) \/ BrowserReads(s) \/ EndsByItself(s) \/ RunStep(s)
             \/ StopLive(s) \/ LapsedStops(s) \/ CancelOutside(s)
      PROVE  OpenLinkIsWatched'
  BY <1>5
  DEF Starts, BrowserReads, EndsByItself, RunStep, SelectCancelled, SelectIdle,
      SelectActivity, Ends, StopLive, LapsedStops, CancelOutside
<1>6. CASE UNCHANGED vars
  BY <1>6 DEF vars
<1> QED
  BY <1>1, <1>2, <1>3, <1>4, <1>5, <1>6 DEF Next

LEMMA CountedKept ==
    ASSUME CastTypeOK, Counted, [Next]_vars
    PROVE  Counted'
<1> USE CastAssumption DEF CastTypeOK, Counted, linkVars, liveVars, contexts
<1>1. CASE Tick
  BY <1>1 DEF Tick, Less, More
<1>2. ASSUME NEW t \in Links,
             CheckPlaylist(t) \/ Issue(t) \/ Authorize(t) \/ TvTouches(t)
      PROVE  Counted'
  BY <1>2 DEF CheckPlaylist, Issue, Authorize, TvTouches
<1>3. ASSUME NEW t \in Links, TimerFires(t) \/ Expire(t)
      PROVE  Counted'
  BY <1>3 DEF TimerFires, Expire
<1>4. ASSUME NEW s \in Sessions, RevokeLive(s) PROVE Counted'
  BY <1>4 DEF RevokeLive
<1>5. ASSUME NEW s \in Sessions,
             \/ Starts(s) \/ BrowserReads(s) \/ EndsByItself(s) \/ RunStep(s)
             \/ StopLive(s) \/ LapsedStops(s) \/ CancelOutside(s)
      PROVE  Counted'
  BY <1>5
  DEF Starts, BrowserReads, EndsByItself, RunStep, SelectCancelled, SelectIdle,
      SelectActivity, Ends, StopLive, LapsedStops, CancelOutside
<1>6. CASE UNCHANGED vars
  BY <1>6 DEF vars
<1> QED
  BY <1>1, <1>2, <1>3, <1>4, <1>5, <1>6 DEF Next

-----------------------------------------------------------------------------
(* Sessions *)

LEMMA NoticedKept ==
    ASSUME CastTypeOK, Noticed, [Next]_vars
    PROVE  Noticed'
<1> USE CastAssumption DEF CastTypeOK, Noticed, linkVars, liveVars, contexts
<1>1. CASE Tick
  BY <1>1 DEF Tick, Less, More
<1>2. ASSUME NEW t \in Links, TvTouches(t) PROVE Noticed'
  BY <1>2 DEF TvTouches, Touched
<1>3. ASSUME NEW t \in Links,
             \/ CheckPlaylist(t) \/ Issue(t) \/ Authorize(t)
             \/ TimerFires(t) \/ Expire(t)
      PROVE  Noticed'
  BY <1>3 DEF CheckPlaylist, Issue, Authorize, TimerFires, Expire
<1>4. ASSUME NEW s \in Sessions, Starts(s) \/ BrowserReads(s) PROVE Noticed'
  BY <1>4 DEF Starts, BrowserReads, Touched
<1>5. ASSUME NEW s \in Sessions, EndsByItself(s) \/ RunStep(s) PROVE Noticed'
  BY <1>5
  DEF EndsByItself, RunStep, SelectCancelled, SelectIdle, SelectActivity, Ends
<1>6. ASSUME NEW s \in Sessions,
             RevokeLive(s) \/ StopLive(s) \/ LapsedStops(s) \/ CancelOutside(s)
      PROVE  Noticed'
  BY <1>6 DEF RevokeLive, StopLive, LapsedStops, CancelOutside
<1>7. CASE UNCHANGED vars
  BY <1>7 DEF vars
<1> QED
  BY <1>1, <1>2, <1>3, <1>4, <1>5, <1>6, <1>7 DEF Next

(* A lapsed link stays what it is. *)
LEMMA LapsedStays ==
    ASSUME CastTypeOK, [Next]_vars, NEW k \in Links, Lapsed(k)
    PROVE  Lapsed(k)' /\ target'[k] = target[k]
<1> USE DEF CastTypeOK, Lapsed, linkVars
<1>1. CASE Tick
  BY <1>1 DEF Tick
<1>2. ASSUME NEW t \in Links,
             \/ CheckPlaylist(t) \/ Issue(t) \/ Authorize(t) \/ TvTouches(t)
             \/ TimerFires(t) \/ Expire(t)
      PROVE  Lapsed(k)' /\ target'[k] = target[k]
  BY <1>2 DEF CheckPlaylist, Issue, Authorize, TvTouches, TimerFires, Expire
<1>3. ASSUME NEW s \in Sessions, RevokeLive(s)
      PROVE  Lapsed(k)' /\ target'[k] = target[k]
  BY <1>3 DEF RevokeLive
<1>4. ASSUME NEW s \in Sessions,
             \/ Starts(s) \/ BrowserReads(s) \/ EndsByItself(s) \/ RunStep(s)
             \/ StopLive(s) \/ LapsedStops(s) \/ CancelOutside(s)
      PROVE  Lapsed(k)' /\ target'[k] = target[k]
  BY <1>4
  DEF Starts, BrowserReads, EndsByItself, RunStep, SelectCancelled, SelectIdle,
      SelectActivity, Ends, StopLive, LapsedStops, CancelOutside
<1>5. CASE UNCHANGED vars
  BY <1>5 DEF vars
<1> QED
  BY <1>1, <1>2, <1>3, <1>4, <1>5 DEF Next

(* A handler of DELETE does not go back. *)
LEMMA DeleteStays ==
    ASSUME CastTypeOK, [Next]_vars, NEW s \in Sessions, delete[s] # "idle"
    PROVE  delete'[s] # "idle"
<1> USE DEF CastTypeOK, linkVars
<1>1. CASE Tick \/ UNCHANGED vars
  BY <1>1 DEF Tick, vars
<1>2. ASSUME NEW t \in Links,
             \/ CheckPlaylist(t) \/ Issue(t) \/ Authorize(t) \/ TvTouches(t)
             \/ TimerFires(t) \/ Expire(t)
      PROVE  delete' = delete
  BY <1>2 DEF CheckPlaylist, Issue, Authorize, TvTouches, TimerFires, Expire
<1>3. ASSUME NEW q \in Sessions, RevokeLive(q) \/ StopLive(q)
      PROVE  delete'[s] # "idle"
  BY <1>3 DEF RevokeLive, StopLive
<1>4. ASSUME NEW q \in Sessions,
             \/ Starts(q) \/ BrowserReads(q) \/ EndsByItself(q) \/ RunStep(q)
             \/ LapsedStops(q) \/ CancelOutside(q)
      PROVE  delete' = delete
  BY <1>4
  DEF Starts, BrowserReads, EndsByItself, RunStep, SelectCancelled, SelectIdle,
      SelectActivity, Ends, LapsedStops, CancelOutside
<1> QED
  BY <1>1, <1>2, <1>3, <1>4 DEF Next

(* A session is newly stopped, or about to be, for a reason. *)
LEMMA NewlyCaused ==
    ASSUME CastInv, [Next]_vars, NEW s \in ordered' \cup cancelled',
           s \notin ordered \cup cancelled
    PROVE  \/ s \in outside'
           \/ delete'[s] # "idle"
           \/ \E t \in Links : target'[t] = s /\ Lapsed(t)'
<1> USE DEF CastInv, linkVars, liveVars, contexts
<1>1. CASE Tick \/ UNCHANGED vars
  BY <1>1 DEF Tick, vars
<1>2. ASSUME NEW t \in Links, Expire(t)
      PROVE  \E k \in Links : target'[k] = s /\ Lapsed(k)'
  BY <1>2 DEF Expire, Counted, Lapsed, CastTypeOK
<1>3. ASSUME NEW t \in Links,
             \/ CheckPlaylist(t) \/ Issue(t) \/ Authorize(t) \/ TvTouches(t)
             \/ TimerFires(t)
      PROVE  FALSE
  BY <1>3 DEF CheckPlaylist, Issue, Authorize, TvTouches, TimerFires
<1>4. ASSUME NEW q \in Sessions, StopLive(q) PROVE delete'[s] # "idle"
  BY <1>4 DEF StopLive, Stop, CastTypeOK
<1>5. ASSUME NEW q \in Sessions,
             \/ Starts(q) \/ BrowserReads(q) \/ EndsByItself(q) \/ RunStep(q)
             \/ RevokeLive(q) \/ LapsedStops(q)
      PROVE  FALSE
  BY <1>5
  DEF Starts, BrowserReads, EndsByItself, RunStep, SelectCancelled, SelectIdle,
      SelectActivity, Ends, RevokeLive, LapsedStops, Stop
<1>6. ASSUME NEW q \in Sessions, CancelOutside(q) PROVE s \in outside'
  BY <1>6 DEF CancelOutside
<1> QED
  BY <1>1, <1>2, <1>3, <1>4, <1>5, <1>6 DEF Next

(* What was cancelled from outside is remembered. *)
LEMMA OutsideStays == [Next]_vars => outside \subseteq outside'
<1> SUFFICES ASSUME [Next]_vars PROVE outside \subseteq outside'
  OBVIOUS
<1> USE DEF linkVars, liveVars, contexts
<1>1. CASE Tick \/ UNCHANGED vars
  BY <1>1 DEF Tick, vars
<1>2. ASSUME NEW t \in Links,
             \/ CheckPlaylist(t) \/ Issue(t) \/ Authorize(t) \/ TvTouches(t)
             \/ TimerFires(t) \/ Expire(t)
      PROVE  outside \subseteq outside'
  BY <1>2 DEF CheckPlaylist, Issue, Authorize, TvTouches, TimerFires, Expire
<1>3. ASSUME NEW q \in Sessions,
             \/ Starts(q) \/ BrowserReads(q) \/ EndsByItself(q) \/ RunStep(q)
             \/ RevokeLive(q) \/ StopLive(q) \/ LapsedStops(q)
             \/ CancelOutside(q)
      PROVE  outside \subseteq outside'
  BY <1>3
  DEF Starts, BrowserReads, EndsByItself, RunStep, SelectCancelled, SelectIdle,
      SelectActivity, Ends, RevokeLive, StopLive, LapsedStops, CancelOutside
<1> QED
  BY <1>1, <1>2, <1>3 DEF Next

LEMMA CausedKept == CastInv /\ [Next]_vars => Caused'
<1> SUFFICES ASSUME CastInv, [Next]_vars, NEW s \in ordered' \cup cancelled'
             PROVE  \/ s \in outside'
                    \/ delete'[s] # "idle"
                    \/ \E t \in Links : target'[t] = s /\ Lapsed(t)'
  BY DEF Caused
<1>1. CASE s \notin ordered \cup cancelled
  BY <1>1, NewlyCaused
<1>2. CASE s \in ordered \cup cancelled
  <2>1. s \in Sessions
    BY <1>2 DEF CastInv, CastTypeOK
  <2>2. CASE delete[s] # "idle"
    BY <2>1, <2>2, DeleteStays DEF CastInv
  <2>3. CASE \E t \in Links : target[t] = s /\ Lapsed(t)
    BY <2>3, LapsedStays DEF CastInv
  <2>4. CASE s \in outside
    BY <2>4, OutsideStays DEF CastInv
  <2> QED
    BY <1>2, <2>2, <2>3, <2>4 DEF CastInv, Caused
<1> QED
  BY <1>1, <1>2

-----------------------------------------------------------------------------
(* Theorems *)

LEMMA CastStep == CastInv /\ [Next]_vars => CastInv'
  BY TypesKept, WatchedKept, CountedKept, NoticedKept, CausedKept DEF CastInv

THEOREM CastInvariant == Spec => []CastInv
  BY CastInitial, CastStep, PTL DEF Spec

(* Countdowns, timers and channels stay in their range: a read that meets  *)
(* an expiry never makes a timer run longer than the timeout.              *)
THEOREM CastTypeCorrect == Spec => []CastTypeOK
<1>1. CastInv => CastTypeOK
  BY DEF CastInv
<1> QED
  BY <1>1, CastInvariant, PTL

(* No open link is forgotten, whichever of expire and a read comes first. *)
THEOREM OpenLinksAreWatched == Spec => []OpenLinkIsWatched
<1>1. CastInv => OpenLinkIsWatched
  BY DEF CastInv
<1> QED
  BY <1>1, CastInvariant, PTL

(* A link goes by the DELETE of its session or unread for the timeout. *)
THEOREM LinksKeptWhileRead == Spec => LinkKeptWhileRead
<1> DEFINE Kept(t) ==
        link[t] = "open" /\ link'[t] = "gone" =>
            \/ unread[t] = Timeout
            \/ \E s \in Sessions : s = target[t] /\ delete'[s] # delete[s]
<1>1. ASSUME CastInv, [Next]_vars, NEW k \in Links PROVE Kept(k)
  <2> USE <1>1 DEF CastInv, CastTypeOK, linkVars
  <2>1. CASE Tick \/ UNCHANGED vars
    BY <2>1 DEF Tick, vars
  <2>2. ASSUME NEW t \in Links, Expire(t) PROVE Kept(k)
    BY <2>2 DEF Expire, Counted
  <2>3. ASSUME NEW t \in Links,
               \/ CheckPlaylist(t) \/ Issue(t) \/ Authorize(t)
               \/ TvTouches(t) \/ TimerFires(t)
        PROVE  Kept(k)
    BY <2>3 DEF CheckPlaylist, Issue, Authorize, TvTouches, TimerFires
  <2>4. ASSUME NEW s \in Sessions, RevokeLive(s) PROVE Kept(k)
    BY <2>4 DEF RevokeLive
  <2>5. ASSUME NEW s \in Sessions,
               \/ Starts(s) \/ BrowserReads(s) \/ EndsByItself(s) \/ RunStep(s)
               \/ StopLive(s) \/ LapsedStops(s) \/ CancelOutside(s)
        PROVE  Kept(k)
    BY <2>5
    DEF Starts, BrowserReads, EndsByItself, RunStep, SelectCancelled,
        SelectIdle, SelectActivity, Ends, StopLive, LapsedStops, CancelOutside
  <2> QED
    BY <2>1, <2>2, <2>3, <2>4, <2>5 DEF Next
<1>2. CastInv /\ [Next]_vars =>
        [\A t \in Links :
            link[t] = "open" /\ link'[t] = "gone" =>
                \/ unread[t] = Timeout
                \/ \E s \in Sessions : s = target[t] /\ delete'[s] # delete[s]]_vars
  BY <1>1
<1> QED
  BY <1>2, CastInvariant, PTL DEF Spec, LinkKeptWhileRead

(* A session that no preempting recording, no signal and no failed start   *)
(* cancelled is made to stop by its DELETE, by a link that went unread for *)
(* the whole timeout, or by its idle timer, and by that only after the     *)
(* idle timeout without a read or beside a read still in the channel.      *)
THEOREM StopsHaveACause == Spec => EveryStopHasACause
<1> DEFINE Stopped(s) ==
        session[s] = "live" /\ session'[s] = "stopping" =>
            \/ s \in outside
            \/ delete[s] # "idle"
            \/ \E t \in Links : target[t] = s /\ Lapsed(t)
            \/ untouched[s] = IdleTimeout
            \/ s \in activity
<1>1. ASSUME CastInv, [Next]_vars, NEW s \in Sessions PROVE Stopped(s)
  <2> USE <1>1, CastAssumption DEF CastInv, CastTypeOK, liveVars
  <2>1. CASE Tick \/ UNCHANGED vars
    BY <2>1 DEF Tick, vars
  <2>2. ASSUME NEW q \in Sessions, SelectCancelled(q) PROVE Stopped(s)
    BY <2>2 DEF SelectCancelled, Caused
  <2>3. ASSUME NEW q \in Sessions, SelectIdle(q) PROVE Stopped(s)
    BY <2>3 DEF SelectIdle, Noticed
  <2>4. ASSUME NEW q \in Sessions,
               \/ SelectActivity(q) \/ Ends(q) \/ Starts(q)
               \/ BrowserReads(q) \/ EndsByItself(q)
               \/ RevokeLive(q) \/ StopLive(q) \/ LapsedStops(q)
               \/ CancelOutside(q)
        PROVE  Stopped(s)
    BY <2>4
    DEF SelectActivity, Ends, Starts, BrowserReads, EndsByItself, RevokeLive,
        StopLive, LapsedStops, CancelOutside
  <2>5. ASSUME NEW t \in Links,
               \/ CheckPlaylist(t) \/ Issue(t) \/ Authorize(t)
               \/ TvTouches(t) \/ TimerFires(t) \/ Expire(t)
        PROVE  Stopped(s)
    BY <2>5
    DEF CheckPlaylist, Issue, Authorize, TvTouches, TimerFires, Expire
  <2> QED
    BY <2>1, <2>2, <2>3, <2>4, <2>5 DEF Next, RunStep
<1>2. CastInv /\ [Next]_vars =>
        [\A s \in Sessions :
            session[s] = "live" /\ session'[s] = "stopping" =>
                \/ s \in outside
                \/ delete[s] # "idle"
                \/ \E t \in Links : target[t] = s /\ Lapsed(t)
                \/ untouched[s] = IdleTimeout
                \/ s \in activity]_vars
  BY <1>1
<1> QED
  BY <1>2, CastInvariant, PTL DEF Spec, EveryStopHasACause

=============================================================================
