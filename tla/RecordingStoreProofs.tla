------------------------ MODULE RecordingStoreProofs ------------------------
(***************************************************************************)
(* Proofs about RecordingStore, for every number of jobs and tuners, every *)
(* guide and every padding: the type invariant, that messages match the    *)
(* status, that accepted windows never ask for more tuners than there are, *)
(* and that the table implements the job life cycle.                       *)
(***************************************************************************)
EXTENDS RecordingStore, FiniteSetTheorems, TLAPS

-----------------------------------------------------------------------------
(* Type correctness *)

LEMMA StoreTypeInit == StoreInit => StoreTypeOK
  BY StoreAssumption
  DEF StoreInit, StoreTypeOK, NoRow, Row, Jobs, Status, Errors

(* Replacing one row by a well-typed one that is not new keeps the types. *)
LEMMA RowUpdateTyped ==
    ASSUME StoreTypeOK, NEW j \in Jobs, NEW row \in Row,
           rows[j].status # "new", row.status # "new",
           rows' = [rows EXCEPT ![j] = row], UNCHANGED <<nextID, now>>
    PROVE  StoreTypeOK'
  BY DEF StoreTypeOK, Jobs

LEMMA StoreTypeStep == StoreTypeOK /\ [StoreNext]_storeVars => StoreTypeOK'
<1> SUFFICES ASSUME StoreTypeOK, [StoreNext]_storeVars PROVE StoreTypeOK'
  OBVIOUS
<1> USE StoreAssumption
<1>1. ASSUME NEW p \in Programs, NEW pre \in Paddings, NEW post \in Paddings,
             Schedule(p, pre, post)
      PROVE  StoreTypeOK'
  <2> DEFINE from == ProgramStart[p] - pre
             to == ProgramEnd[p] + post
             row == [status |-> "scheduled", program |-> p, from |-> from,
                     to |-> to, error |-> "none"]
  <2>1. from \in Int /\ to \in Int
    OBVIOUS
  <2>2. row \in Row
    BY <2>1 DEF Row, Status, Accepted, Errors
  <2>3. nextID \in Jobs /\ rows' = [rows EXCEPT ![nextID] = row]
        /\ nextID' = nextID + 1 /\ now' = now
    BY <1>1 DEF Schedule, Insert
  <2> HIDE DEF row
  <2>4. row.status = "scheduled"
    BY DEF row
  <2> QED
    BY <2>2, <2>3, <2>4 DEF StoreTypeOK, Jobs
<1>2. \A k \in Jobs : WithElapsedClosed(k) \in Row
  <2> SUFFICES ASSUME NEW k \in Jobs PROVE WithElapsedClosed(k) \in Row
    OBVIOUS
  <2>1. rows[k] \in Row
    BY DEF StoreTypeOK
  <2>2. [rows[k] EXCEPT !.status = "failed", !.error = "elapsed"] \in Row
    BY <2>1 DEF Row, Status, Settled, Errors
  <2> QED
    BY <2>1, <2>2 DEF WithElapsedClosed
<1>3. \A k \in Jobs : WithElapsedClosed(k).status = "new"
                        <=> rows[k].status = "new"
  BY DEF WithElapsedClosed, Elapsed, Statuses, StoreTypeOK, Row
<1>4. CASE ClaimNothing
  BY <1>2, <1>3, <1>4 DEF ClaimNothing, StoreTypeOK
<1>5. ASSUME NEW j \in Jobs, ClaimDueRecording(j) PROVE StoreTypeOK'
  <2> DEFINE claimed ==
                 [rows[j] EXCEPT !.status = "recording", !.error = "none"]
  <2>1. claimed \in Row /\ claimed.status = "recording"
    BY DEF StoreTypeOK, Row, Status, Accepted, Errors
  <2>2. rows[j].status = "scheduled"
    BY <1>5 DEF ClaimDueRecording, FirstDue, Due, Statuses
  <2>3. rows' = [k \in Jobs |->
                    IF k = j THEN claimed ELSE WithElapsedClosed(k)]
        /\ UNCHANGED <<nextID, now>>
    BY <1>5 DEF ClaimDueRecording
  <2> HIDE DEF claimed
  <2> QED
    BY <1>2, <1>3, <2>1, <2>2, <2>3 DEF StoreTypeOK
<1>6. ASSUME NEW j \in Jobs, SetRecordingProcess(j) PROVE StoreTypeOK'
  BY <1>6 DEF SetRecordingProcess, StoreTypeOK, storeVars
<1>7. ASSUME NEW j \in Jobs, NEW s \in {"completed", "failed"},
             NEW e \in Failures \cup {"none"}, FinishRecording(j, s, e)
      PROVE  StoreTypeOK'
  <2> DEFINE row == [rows[j] EXCEPT !.status = s, !.error = e]
  <2>1. row \in Row /\ row.status = s
    BY DEF StoreTypeOK, Row, Status, Settled, Errors
  <2>2. rows' = [rows EXCEPT ![j] = row] /\ UNCHANGED <<nextID, now>>
        /\ rows[j].status = "recording"
    BY <1>7 DEF FinishRecording, StoreTypeOK
  <2> HIDE DEF row
  <2> QED
    BY <2>1, <2>2, RowUpdateTyped
<1>8. ASSUME NEW j \in Jobs, NEW e \in {"resuming", "paused"},
             RequeueRecording(j, e)
      PROVE  StoreTypeOK'
  <2> DEFINE row == [rows[j] EXCEPT !.status = "scheduled", !.error = e]
  <2>1. row \in Row /\ row.status = "scheduled"
    BY DEF StoreTypeOK, Row, Status, Accepted, Errors
  <2>2. rows' = [rows EXCEPT ![j] = row] /\ UNCHANGED <<nextID, now>>
        /\ rows[j].status = "recording"
    BY <1>8 DEF RequeueRecording, StoreTypeOK
  <2> HIDE DEF row
  <2> QED
    BY <2>1, <2>2, RowUpdateTyped
<1>9. ASSUME NEW j \in Jobs, CancelRecording(j) PROVE StoreTypeOK'
  <2>1. Cancelled(rows[j]) \in Row /\ Cancelled(rows[j]).status = "cancelled"
    BY DEF Cancelled, StoreTypeOK, Row, Status, Settled, Errors
  <2>2. CASE rows[j].status \in Accepted
    BY <1>9, <2>1, <2>2, RowUpdateTyped DEF CancelRecording
  <2>3. CASE rows[j].status \notin Accepted
    BY <1>9, <2>3 DEF CancelRecording, StoreTypeOK
  <2> QED
    BY <2>2, <2>3
<1>10. ASSUME NEW j \in Jobs, DeleteRecording(j) PROVE StoreTypeOK'
  <2> DEFINE row == [rows[j] EXCEPT !.status = "deleted", !.error = "none"]
  <2>1. row \in Row /\ row.status = "deleted"
    BY DEF StoreTypeOK, Row, Status, Errors
  <2>2. rows' = [rows EXCEPT ![j] = row] /\ UNCHANGED <<nextID, now>>
        /\ rows[j].status # "new"
    BY <1>10 DEF DeleteRecording, StoreTypeOK
  <2> HIDE DEF row
  <2> QED
    BY <2>1, <2>2, RowUpdateTyped
<1>11. CASE Tick
  BY <1>11 DEF Tick, StoreTypeOK
<1>12. CASE UNCHANGED storeVars
  BY <1>12 DEF storeVars, StoreTypeOK
<1> QED
  BY <1>1, <1>4, <1>5, <1>6, <1>7, <1>8, <1>9, <1>10, <1>11, <1>12
  DEF StoreNext

(* Every row stays well formed and identifiers are handed out in order,    *)
(* whichever callers interleave on the table.                              *)
THEOREM StoreTypeCorrect == StoreSpec => []StoreTypeOK
  BY StoreTypeInit, StoreTypeStep, PTL DEF StoreSpec

-----------------------------------------------------------------------------
(* Messages *)

LEMMA MessageStep ==
    StoreTypeOK /\ MessageMatchesStatus /\ [StoreNext]_storeVars
        => MessageMatchesStatus'
<1> SUFFICES ASSUME StoreTypeOK, MessageMatchesStatus, [StoreNext]_storeVars
             PROVE  MessageMatchesStatus'
  OBVIOUS
<1>0. ASSUME NEW k \in Jobs
      PROVE  LET row == WithElapsedClosed(k) IN
             \/ row = rows[k]
             \/ row.status = "failed" /\ row.error = "elapsed"
  <2>1. [rows[k] EXCEPT !.status = "failed", !.error = "elapsed"].status
            = "failed"
    BY DEF StoreTypeOK, Row
  <2>2. [rows[k] EXCEPT !.status = "failed", !.error = "elapsed"].error
            = "elapsed"
    BY DEF StoreTypeOK, Row
  <2> QED
    BY <2>1, <2>2 DEF WithElapsedClosed
<1> USE StoreAssumption DEF StoreTypeOK, Row, MessageMatchesStatus
<1>1. ASSUME NEW p \in Programs, NEW pre \in Paddings, NEW post \in Paddings,
             Schedule(p, pre, post)
      PROVE  MessageMatchesStatus'
  BY <1>1 DEF Schedule, Insert
<1>2. CASE ClaimNothing
  <2>1. \A k \in Jobs : rows'[k] = WithElapsedClosed(k)
    BY <1>2 DEF ClaimNothing
  <2> QED
    BY <1>0, <2>1
<1>3. ASSUME NEW j \in Jobs, ClaimDueRecording(j) PROVE MessageMatchesStatus'
  <2>1. rows'[j].status = "recording" /\ rows'[j].error = "none"
    BY <1>3 DEF ClaimDueRecording
  <2>2. \A k \in Jobs \ {j} : rows'[k] = WithElapsedClosed(k)
    BY <1>3 DEF ClaimDueRecording
  <2> QED
    BY <1>0, <2>1, <2>2
<1>4. ASSUME NEW j \in Jobs, SetRecordingProcess(j) PROVE MessageMatchesStatus'
  BY <1>4 DEF SetRecordingProcess, storeVars
<1>5. ASSUME NEW j \in Jobs, FinishRecording(j, "completed", "none")
      PROVE  MessageMatchesStatus'
  BY <1>5 DEF FinishRecording
<1>6. ASSUME NEW j \in Jobs, NEW e \in Failures,
             FinishRecording(j, "failed", e)
      PROVE  MessageMatchesStatus'
  BY <1>6 DEF FinishRecording
<1>7. ASSUME NEW j \in Jobs, NEW e \in {"resuming", "paused"},
             RequeueRecording(j, e)
      PROVE  MessageMatchesStatus'
  BY <1>7 DEF RequeueRecording
<1>8. ASSUME NEW j \in Jobs, CancelRecording(j) PROVE MessageMatchesStatus'
  BY <1>8 DEF CancelRecording, Cancelled
<1>9. ASSUME NEW j \in Jobs, DeleteRecording(j) PROVE MessageMatchesStatus'
  BY <1>9 DEF DeleteRecording
<1>10. CASE UNCHANGED rows
  BY <1>10
<1> QED
  BY <1>1, <1>2, <1>3, <1>4, <1>5, <1>6, <1>7, <1>8, <1>9, <1>10
  DEF StoreNext, Tick, storeVars

(* No message of an earlier attempt is ever shown beside a status it does  *)
(* not describe, however often a job is requeued, claimed or cancelled.    *)
THEOREM StoreMessagesMatch == StoreSpec => []MessageMatchesStatus
<1>1. StoreInit => MessageMatchesStatus
  BY DEF StoreInit, NoRow, MessageMatchesStatus
<1> QED
  BY <1>1, MessageStep, StoreTypeCorrect, PTL DEF StoreSpec

-----------------------------------------------------------------------------
(* No overcommitment.  NoOvercommit looks at the starts of windows only;   *)
(* the inductive form is about every instant, so that it does not matter   *)
(* which rows are accepted before and after a step.                        *)

NeverCrowded == \A t \in Int : Cardinality(Covering(t)) <= Capacity

LEMMA CoveringFinite ==
    ASSUME NEW t
    PROVE  IsFiniteSet(Covering(t)) /\ Cardinality(Covering(t)) \in Nat
<1>1. IsFiniteSet(Jobs)
  BY StoreAssumption, FS_Interval DEF Jobs
<1>2. Covering(t) \subseteq Jobs
  BY DEF Covering, Statuses
<1> QED
  BY <1>1, <1>2, FS_Subset, FS_CardinalityType

LEMMA CapacityPositive == Capacity \in Nat /\ Capacity >= 1
  BY StoreAssumption DEF Capacity

(* The jobs whose window covers an instant of a requested window all       *)
(* overlap the request, so Schedule's count bounds them.                   *)
LEMMA CoveringOverlaps ==
    ASSUME StoreTypeOK, NEW from \in Int, NEW to \in Int,
           NEW t \in Int, from <= t, t < to
    PROVE  Cardinality(Covering(t)) <= Cardinality(Overlapping(from, to))
<1>1. Covering(t) \subseteq Overlapping(from, to)
  BY DEF Covering, Overlapping, Statuses, StoreTypeOK, Row
<1>2. IsFiniteSet(Overlapping(from, to))
  <2>1. IsFiniteSet(Jobs)
    BY StoreAssumption, FS_Interval DEF Jobs
  <2>2. Overlapping(from, to) \subseteq Jobs
    BY DEF Overlapping, Statuses
  <2> QED
    BY <2>1, <2>2, FS_Subset
<1> QED
  BY <1>1, <1>2, FS_Subset

(* A step that moves no window and accepts no job again covers no more.    *)
LEMMA CoveringShrinks ==
    ASSUME NEW t \in Int,
           \A j \in Jobs : rows'[j].status \in Accepted =>
               /\ rows[j].status \in Accepted
               /\ rows'[j].from = rows[j].from /\ rows'[j].to = rows[j].to,
           Cardinality(Covering(t)) <= Capacity
    PROVE  Cardinality(Covering(t)') <= Capacity
<1>1. Covering(t)' \subseteq Covering(t)
  BY DEF Covering, Statuses, Jobs
<1>2. /\ Cardinality(Covering(t)') \in Nat
      /\ Cardinality(Covering(t)') <= Cardinality(Covering(t))
  BY <1>1, CoveringFinite, FS_Subset, FS_CardinalityType
<1> QED
  BY <1>2, CoveringFinite, CapacityPositive

LEMMA ScheduleNeverCrowds ==
    ASSUME StoreTypeOK, NeverCrowded, NEW p \in Programs,
           NEW pre \in Paddings, NEW post \in Paddings, Schedule(p, pre, post),
           NEW t \in Int
    PROVE  Cardinality(Covering(t)') <= Capacity
<1> DEFINE from == ProgramStart[p] - pre
           to == ProgramEnd[p] + post
<1>1. from \in Int /\ to \in Int
  BY StoreAssumption
<1>2. nextID \in Jobs /\ Cardinality(Overlapping(from, to)) < Capacity
  BY DEF Schedule
<1>3. rows'[nextID].from = from /\ rows'[nextID].to = to
  BY <1>2 DEF Schedule, Insert, StoreTypeOK
<1>4. \A j \in Jobs \ {nextID} : rows'[j] = rows[j]
  BY DEF Schedule, Insert, StoreTypeOK
<1> HIDE DEF from, to
<1>5. CASE from <= t /\ t < to
  <2>1. Cardinality(Covering(t)) < Capacity
    <3>1. Cardinality(Covering(t)) <= Cardinality(Overlapping(from, to))
      BY <1>1, <1>5, CoveringOverlaps
    <3>2. Cardinality(Overlapping(from, to)) \in Nat
      <4>1. IsFiniteSet(Jobs) /\ Overlapping(from, to) \subseteq Jobs
        BY StoreAssumption, FS_Interval DEF Jobs, Overlapping, Statuses
      <4> QED
        BY <4>1, FS_Subset, FS_CardinalityType
    <3> QED
      BY <1>2, <3>1, <3>2, CoveringFinite, CapacityPositive
  <2>2. Covering(t)' \subseteq Covering(t) \cup {nextID}
    BY <1>4 DEF Covering, Statuses, Jobs
  <2>3. /\ IsFiniteSet(Covering(t) \cup {nextID})
        /\ Cardinality(Covering(t) \cup {nextID})
               <= Cardinality(Covering(t)) + 1
    <3>1. IsFiniteSet(Covering(t)) /\ Cardinality(Covering(t)) \in Nat
      BY CoveringFinite
    <3>2. /\ IsFiniteSet(Covering(t) \cup {nextID})
          /\ Cardinality(Covering(t) \cup {nextID}) =
                IF nextID \in Covering(t) THEN Cardinality(Covering(t))
                                          ELSE Cardinality(Covering(t)) + 1
      BY <3>1, FS_AddElement
    <3> QED
      BY <3>1, <3>2
  <2>4. Cardinality(Covering(t)') <= Cardinality(Covering(t) \cup {nextID})
    BY <2>2, <2>3, FS_Subset
  <2>5. Cardinality(Covering(t)') \in Nat
        /\ Cardinality(Covering(t) \cup {nextID}) \in Nat
    BY <2>2, <2>3, FS_Subset, FS_CardinalityType
  <2> QED
    BY <2>1, <2>3, <2>4, <2>5, CoveringFinite, CapacityPositive
<1>6. CASE ~(from <= t /\ t < to)
  <2>1. Covering(t)' \subseteq Covering(t)
    BY <1>1, <1>3, <1>4, <1>6 DEF Covering, Statuses, Jobs
  <2>2. /\ Cardinality(Covering(t)') \in Nat
        /\ Cardinality(Covering(t)') <= Cardinality(Covering(t))
    BY <2>1, CoveringFinite, FS_Subset, FS_CardinalityType
  <2> QED
    BY <2>2, CoveringFinite, CapacityPositive DEF NeverCrowded
<1> QED
  BY <1>5, <1>6

(* Every operation but Schedule leaves the windows alone and accepts       *)
(* nothing that was not accepted before.                                   *)
LEMMA OthersAcceptNothing ==
    ASSUME StoreTypeOK, [StoreNext]_storeVars,
           ~ \E p \in Programs, pre, post \in Paddings :
                 Schedule(p, pre, post),
           NEW k \in Jobs, rows'[k].status \in Accepted
    PROVE  /\ rows[k].status \in Accepted
           /\ rows'[k].from = rows[k].from /\ rows'[k].to = rows[k].to
<1> USE DEF StoreTypeOK, Row, Accepted
<1>0. WithElapsedClosed(k) = rows[k] \/ WithElapsedClosed(k).status = "failed"
  BY DEF WithElapsedClosed
<1>1. CASE ClaimNothing
  BY <1>0, <1>1 DEF ClaimNothing
<1>2. ASSUME NEW j \in Jobs, ClaimDueRecording(j)
      PROVE  /\ rows[k].status \in Accepted
             /\ rows'[k].from = rows[k].from /\ rows'[k].to = rows[k].to
  <2>1. CASE k = j
    BY <1>2, <2>1 DEF ClaimDueRecording, FirstDue, Due, Statuses
  <2>2. CASE k # j
    BY <1>0, <1>2, <2>2 DEF ClaimDueRecording
  <2> QED
    BY <2>1, <2>2
<1>3. ASSUME NEW j \in Jobs, SetRecordingProcess(j)
      PROVE  /\ rows[k].status \in Accepted
             /\ rows'[k].from = rows[k].from /\ rows'[k].to = rows[k].to
  BY <1>3 DEF SetRecordingProcess, storeVars
<1>4. ASSUME NEW j \in Jobs, NEW s, NEW e, FinishRecording(j, s, e)
      PROVE  /\ rows[k].status \in Accepted
             /\ rows'[k].from = rows[k].from /\ rows'[k].to = rows[k].to
  BY <1>4 DEF FinishRecording
<1>5. ASSUME NEW j \in Jobs, NEW e, RequeueRecording(j, e)
      PROVE  /\ rows[k].status \in Accepted
             /\ rows'[k].from = rows[k].from /\ rows'[k].to = rows[k].to
  BY <1>5 DEF RequeueRecording
<1>6. ASSUME NEW j \in Jobs, CancelRecording(j)
      PROVE  /\ rows[k].status \in Accepted
             /\ rows'[k].from = rows[k].from /\ rows'[k].to = rows[k].to
  BY <1>6 DEF CancelRecording, Cancelled
<1>7. ASSUME NEW j \in Jobs, DeleteRecording(j)
      PROVE  /\ rows[k].status \in Accepted
             /\ rows'[k].from = rows[k].from /\ rows'[k].to = rows[k].to
  BY <1>7 DEF DeleteRecording
<1>8. CASE Tick \/ UNCHANGED storeVars
  BY <1>8 DEF Tick, storeVars
<1> QED
  BY <1>1, <1>2, <1>3, <1>4, <1>5, <1>6, <1>7, <1>8 DEF StoreNext

LEMMA NeverCrowdedStep ==
    StoreTypeOK /\ NeverCrowded /\ [StoreNext]_storeVars => NeverCrowded'
<1> SUFFICES ASSUME StoreTypeOK, NeverCrowded, [StoreNext]_storeVars,
                    NEW t \in Int
             PROVE  Cardinality(Covering(t)') <= Capacity
  BY DEF NeverCrowded, Capacity
<1>1. CASE \E p \in Programs, pre, post \in Paddings : Schedule(p, pre, post)
  BY <1>1, ScheduleNeverCrowds
<1>2. CASE ~ \E p \in Programs, pre, post \in Paddings : Schedule(p, pre, post)
  <2>1. Cardinality(Covering(t)) <= Capacity
    BY DEF NeverCrowded
  <2> QED
    BY <1>2, <2>1, OthersAcceptNothing, CoveringShrinks
<1> QED
  BY <1>1, <1>2

LEMMA NeverCrowdedInit == StoreInit => NeverCrowded
<1> SUFFICES ASSUME StoreInit, NEW t \in Int
             PROVE  Cardinality(Covering(t)) <= Capacity
  BY DEF NeverCrowded
<1>1. Covering(t) = {}
  BY DEF StoreInit, Covering, Statuses, NoRow, Accepted
<1> QED
  BY <1>1, FS_EmptySet, CapacityPositive

LEMMA StartsNotCrowded == StoreTypeOK /\ NeverCrowded => NoOvercommit
  BY DEF NeverCrowded, NoOvercommit, StoreTypeOK, Row

(* At no instant do accepted jobs ask for more tuners than there are, for  *)
(* any number of tuners (the clamp to one included), any padding, and any  *)
(* order of claims, requeues, cancellations and removals.                  *)
THEOREM StoreNeverOvercommits == StoreSpec => []NoOvercommit
<1>1. StoreSpec => [](StoreTypeOK /\ NeverCrowded)
  BY StoreTypeInit, StoreTypeStep, NeverCrowdedInit, NeverCrowdedStep, PTL
  DEF StoreSpec
<1> QED
  BY <1>1, StartsNotCrowded, PTL

-----------------------------------------------------------------------------
(* Refinement: the table implements the life cycle. *)

(* Each operation moves each job along an arrow of the life cycle or not   *)
(* at all.                                                                 *)
LEMMA EachJobMoves ==
    ASSUME StoreTypeOK, [StoreNext]_storeVars, NEW k \in Jobs,
           rows'[k].status # rows[k].status
    PROVE  <<rows[k].status, rows'[k].status>> \in StoreLifecycle!Moves
<1> USE DEF StoreTypeOK, Row
<1>1. ASSUME NEW p \in Programs, NEW pre, NEW post, Schedule(p, pre, post)
      PROVE  rows[k].status = "new" /\ rows'[k].status = "scheduled"
  BY <1>1 DEF Schedule, Insert
<1>2. CASE ClaimNothing
  <2>1. rows[k].status = "scheduled" /\ rows'[k].status = "failed"
    BY <1>2 DEF ClaimNothing, WithElapsedClosed, Elapsed, Statuses
  <2> QED
    BY <2>1 DEF StoreLifecycle!Moves
<1>3. ASSUME NEW j \in Jobs, ClaimDueRecording(j)
      PROVE  /\ rows[k].status = "scheduled"
             /\ rows'[k].status \in {"recording", "failed"}
  BY <1>3
  DEF ClaimDueRecording, FirstDue, Due, WithElapsedClosed, Elapsed, Statuses
<1>4. ASSUME NEW j \in Jobs, SetRecordingProcess(j) PROVE FALSE
  BY <1>4 DEF SetRecordingProcess, storeVars
<1>5. ASSUME NEW j \in Jobs, NEW s \in {"completed", "failed"}, NEW e,
             FinishRecording(j, s, e)
      PROVE  rows[k].status = "recording" /\ rows'[k].status = s
  BY <1>5 DEF FinishRecording
<1>6. ASSUME NEW j \in Jobs, NEW e, RequeueRecording(j, e)
      PROVE  rows[k].status = "recording" /\ rows'[k].status = "scheduled"
  BY <1>6 DEF RequeueRecording
<1>7. ASSUME NEW j \in Jobs, CancelRecording(j)
      PROVE  rows[k].status \in Accepted /\ rows'[k].status = "cancelled"
  BY <1>7 DEF CancelRecording, Cancelled
<1>8. ASSUME NEW j \in Jobs, DeleteRecording(j)
      PROVE  /\ rows[k].status \in Settled \cup {"scheduled"}
             /\ rows'[k].status = "deleted"
  BY <1>8 DEF DeleteRecording, Status, Accepted
<1>9. CASE Tick \/ UNCHANGED storeVars
  BY <1>9 DEF Tick, storeVars
<1> QED
  BY <1>1, <1>2, <1>3, <1>4, <1>5, <1>6, <1>7, <1>8, <1>9
  DEF StoreNext, StoreLifecycle!Moves, Accepted

LEMMA LifecycleInit == StoreInit => StoreLifecycle!Init
  BY DEF StoreInit, NoRow, StoreLifecycle!Init

LEMMA LifecycleStep ==
    StoreTypeOK /\ StoreTypeOK' /\ [StoreNext]_storeVars
        => StoreLifecycle!Next
<1> SUFFICES ASSUME StoreTypeOK, StoreTypeOK', [StoreNext]_storeVars
             PROVE  StoreLifecycle!Next
  OBVIOUS
<1>1. \A k \in Jobs : rows'[k].status \in StoreLifecycle!Phases
  BY DEF StoreTypeOK, Row, Status, Accepted, Settled,
         StoreLifecycle!Phases, StoreLifecycle!Terminal
<1> QED
  BY <1>1, EachJobMoves DEF StoreLifecycle!Next

(* The table never shows a job move outside the life cycle, whichever      *)
(* callers interleave on it: nothing that is settled runs again, and a row *)
(* that is being recorded is not removed.                                  *)
THEOREM StoreImplementsLifecycle == StoreSpec => ImplementsLifecycle
  BY StoreTypeInit, StoreTypeStep, LifecycleInit, LifecycleStep, PTL
  DEF StoreSpec, ImplementsLifecycle, StoreLifecycle!Spec

=============================================================================
