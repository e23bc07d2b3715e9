------------------------------ MODULE TunerPool ------------------------------
(***************************************************************************)
(* What internal/recording/tuners.go promises the recordings and the live  *)
(* sessions that share the tuners, whoever they are and however they come  *)
(* to their end.  A recording waits only for the end of a session that     *)
(* held a tuner, it is turned away only when no session holds one or when  *)
(* it is cancelled itself, and a session tells its end only after its      *)
(* tuner is back.  Modules LiveTv, with the live manager in detail, and    *)
(* Supervisor, with the recordings in detail, both implement this.         *)
(***************************************************************************)
EXTENDS Integers, FiniteSets

CONSTANTS
    Recordings,
    Sessions,
    NoSession,
    Size         \* tuners there are

VARIABLES
    recorders,  \* recordings that hold a tuner
    viewers,    \* live sessions that hold one
    asking,     \* recordings about to look for one
    victim,     \* the session each recording has preempted and waits for
    over,       \* sessions that have told their end
    cancelled   \* recordings that need no tuner any more

holders == <<recorders, viewers>>
vars == <<holders, asking, victim, over, cancelled>>

InUse == Cardinality(recorders) + Cardinality(viewers)
Full == InUse >= Size

Waits(r) == victim[r] # NoSession

Init ==
    /\ recorders = {} /\ viewers = {} /\ asking = {}
    /\ victim = [r \in Recordings |-> NoSession]
    /\ over = {} /\ cancelled = {}

-----------------------------------------------------------------------------
(* A recording *)

Ask(r) ==
    /\ r \notin asking \cup recorders /\ ~Waits(r)
    /\ asking' = asking \cup {r}
    /\ UNCHANGED <<holders, victim, over, cancelled>>

Take(r) ==
    /\ r \in asking /\ ~Full
    /\ recorders' = recorders \cup {r}
    /\ asking' = asking \ {r}
    /\ UNCHANGED <<viewers, victim, over, cancelled>>

Preempt(r) ==
    /\ r \in asking /\ Full
    /\ \E s \in viewers : victim' = [victim EXCEPT ![r] = s]
    /\ asking' = asking \ {r}
    /\ UNCHANGED <<holders, over, cancelled>>

TurnAway(r) ==
    /\ r \in asking /\ Full /\ viewers = {}
    /\ asking' = asking \ {r}
    /\ UNCHANGED <<holders, victim, over, cancelled>>

Retry(r) ==
    /\ victim[r] \in over
    /\ victim' = [victim EXCEPT ![r] = NoSession]
    /\ asking' = asking \cup {r}
    /\ UNCHANGED <<holders, over, cancelled>>

GiveUp(r) ==
    /\ Waits(r) /\ r \in cancelled
    /\ victim' = [victim EXCEPT ![r] = NoSession]
    /\ UNCHANGED <<holders, asking, over, cancelled>>

GiveBack(r) ==
    /\ r \in recorders
    /\ recorders' = recorders \ {r}
    /\ UNCHANGED <<viewers, asking, victim, over, cancelled>>

(* What is cancelled stays so while the pool has to do with it. *)
CancelSome ==
    /\ cancelled' \subseteq Recordings
    /\ \A r \in cancelled \ cancelled' :
           r \notin asking \cup recorders /\ ~Waits(r)
    /\ UNCHANGED <<holders, asking, victim, over>>

-----------------------------------------------------------------------------
(* A live session *)

View(s) ==
    /\ s \notin viewers \cup over /\ ~Full
    /\ viewers' = viewers \cup {s}
    /\ UNCHANGED <<recorders, asking, victim, over, cancelled>>

(* Its end may be told at once, later, or never. *)
EndView(s) ==
    /\ s \in viewers
    /\ viewers' = viewers \ {s}
    /\ over' \in {over, over \cup {s}}
    /\ UNCHANGED <<recorders, asking, victim, cancelled>>

Tell(s) ==
    /\ s \notin viewers
    /\ over' = over \cup {s}
    /\ UNCHANGED <<holders, asking, victim, cancelled>>

-----------------------------------------------------------------------------
(* The process ends and with it all that waits or holds. *)

Reset ==
    /\ recorders' = {} /\ viewers' = {} /\ asking' = {} /\ cancelled' = {}
    /\ victim' = [r \in Recordings |-> NoSession]
    /\ over' = over \cup viewers

Next ==
    \/ \E r \in Recordings :
        \/ Ask(r) \/ Take(r) \/ Preempt(r) \/ TurnAway(r)
        \/ Retry(r) \/ GiveUp(r) \/ GiveBack(r)
    \/ \E s \in Sessions : View(s) \/ EndView(s) \/ Tell(s)
    \/ CancelSome \/ Reset

Spec == Init /\ [][Next]_vars

=============================================================================
