--------------------------- MODULE RecordingStore ---------------------------
(***************************************************************************)
(* The `recordings' table of internal/store/store.go and the operations    *)
(* that change it.  The store opens SQLite with one connection and every   *)
(* operation is one statement or one transaction, so an operation is one   *)
(* atomic action.                                                          *)
(*                                                                         *)
(* rows is total: a job not inserted yet has status "new" and a removed    *)
(* row has status "deleted".  A removed row keeps its program and window,  *)
(* which stand for the copy of the row a caller still holds.  The error    *)
(* message is abstracted to its kind.  The bookkeeping columns (process,   *)
(* started, finished, heartbeat) are left out, no code path reads them     *)
(* back to decide anything; and so is the playlist path, which leads to    *)
(* the folder the title and the start give without it.                     *)
(***************************************************************************)
EXTENDS Integers, FiniteSets

CONSTANTS
    MaxJobs,       \* bound: how many rows are ever inserted
    MaxTime,       \* bound: the clock stops here
    Programs,      \* airings listed in the guide
    NoProgram,
    ProgramStart,  \* [Programs -> Int]
    ProgramEnd,    \* [Programs -> Int]
    Paddings,      \* minutes of padding a client asks for; may be negative
    TunerCount,    \* as configured, before the store's clamp
    Failures       \* kinds of error message callers finish a failed row with

ASSUME StoreAssumption ==
    /\ MaxJobs \in Nat
    /\ MaxTime \in Nat
    /\ NoProgram \notin Programs
    /\ ProgramStart \in [Programs -> Int]
    /\ ProgramEnd \in [Programs -> Int]
    /\ Paddings \subseteq Int
    /\ TunerCount \in Int
    /\ {"none", "elapsed", "resuming", "paused"} \cap Failures = {}

VARIABLES
    rows,    \* the table
    nextID,  \* the AUTOINCREMENT counter
    now      \* the wall clock, in minutes

storeVars == <<rows, nextID, now>>

-----------------------------------------------------------------------------
(* Types *)

Jobs == 1 .. MaxJobs

Capacity == IF TunerCount < 1 THEN 1 ELSE TunerCount

Accepted == {"scheduled", "recording"}
Settled == {"completed", "failed", "cancelled"}
Status == {"new", "deleted"} \cup Accepted \cup Settled

\* Kinds of error_message: none, ClaimDueRecording's own, the two a requeue
\* leaves, and those the caller finishes a row with.
Errors == {"none", "elapsed", "resuming", "paused"} \cup Failures

Row == [status   : Status,
        program  : Programs \cup {NoProgram},
        from     : Int,
        to       : Int,
        error    : Errors]

NoRow == [status |-> "new", program |-> NoProgram, from |-> 0, to |-> 0,
          error |-> "none"]

Statuses(S) == {j \in Jobs : rows[j].status \in S}

-----------------------------------------------------------------------------
(* Operations *)

StoreInit ==
    /\ rows = [j \in Jobs |-> NoRow]
    /\ nextID = 1
    /\ now = 0

(* Mutant: running captures are not counted. *)
OverlappingScheduled(from, to) ==
    {j \in Statuses({"scheduled"}) : rows[j].from < to /\ rows[j].to > from}

Overlapping(from, to) ==
    {j \in Statuses(Accepted) : rows[j].from < to /\ rows[j].to > from}

(* Mutant: the identifier is not used up. *)
InsertAgain(row) ==
    /\ rows' = [rows EXCEPT ![nextID] = row]
    /\ UNCHANGED nextID

Insert(row) ==
    /\ rows' = [rows EXCEPT ![nextID] = row]
    /\ nextID' = nextID + 1

(* A conflicting or unknown program changes nothing.  The padding is added *)
(* unchecked, so a negative one can give an empty or inverted window.      *)
Schedule(p, pre, post) ==
    LET from == ProgramStart[p] - pre
        to == ProgramEnd[p] + post
    IN  /\ nextID \in Jobs
        /\ Cardinality(Overlapping(from, to)) < Capacity
        /\ Insert([status |-> "scheduled", program |-> p, from |-> from,
                   to |-> to, error |-> "none"])
        /\ UNCHANGED now

Elapsed == {j \in Statuses({"scheduled"}) : rows[j].to <= now}

Due ==
    {j \in Statuses({"scheduled"}) : rows[j].from <= now /\ rows[j].to > now}

FirstDue(j) ==
    /\ j \in Due
    /\ \A k \in Due \ {j} : \/ rows[j].from < rows[k].from
                            \/ rows[j].from = rows[k].from /\ j < k

(* Mutant: elapsed rows stay scheduled. *)
WithElapsedKept(j) == rows[j]

WithElapsedClosed(j) ==
    IF j \in Elapsed
      THEN [rows[j] EXCEPT !.status = "failed", !.error = "elapsed"]
      ELSE rows[j]

(* One transaction: the elapsed rows are closed and row j is claimed. *)
ClaimDueRecording(j) ==
    /\ FirstDue(j)
    /\ rows' = [k \in Jobs |->
            IF k = j
              THEN [rows[j] EXCEPT !.status = "recording", !.error = "none"]
              ELSE WithElapsedClosed(k)]
    /\ UNCHANGED <<nextID, now>>

(* The same transaction when no row is due: it returns nil. *)
ClaimNothing ==
    /\ Due = {}
    /\ rows' = [k \in Jobs |-> WithElapsedClosed(k)]
    /\ UNCHANGED <<nextID, now>>

(* The columns it writes are left out; that it needs an active row is not. *)
SetRecordingProcess(j) ==
    /\ rows[j].status = "recording"
    /\ UNCHANGED storeVars

FinishRecording(j, status, error) ==
    /\ rows[j].status = "recording"
    /\ rows' = [rows EXCEPT ![j].status = status, ![j].error = error]
    /\ UNCHANGED <<nextID, now>>

(* Mutant: WHERE id only, without the status. *)
RequeueAnyRecording(j, error) ==
    /\ rows' = [rows EXCEPT ![j].status = "scheduled", ![j].error = error]
    /\ UNCHANGED <<nextID, now>>

RequeueRecording(j, error) ==
    /\ rows[j].status = "recording"
    /\ rows' = [rows EXCEPT ![j].status = "scheduled", ![j].error = error]
    /\ UNCHANGED <<nextID, now>>

(* Mutant: the message is not cleared. *)
CancelledWithMessage(row) == [row EXCEPT !.status = "cancelled"]

Cancelled(row) == [row EXCEPT !.status = "cancelled", !.error = "none"]

(* An already settled row is returned as it is. *)
CancelRecording(j) ==
    /\ rows[j].status \notin {"new", "deleted"}
    /\ rows' = IF rows[j].status \in Accepted
                 THEN [rows EXCEPT ![j] = Cancelled(rows[j])]
                 ELSE rows
    /\ UNCHANGED <<nextID, now>>

DeleteRecording(j) ==
    /\ rows[j].status \notin {"new", "deleted", "recording"}
    /\ rows' = [rows EXCEPT ![j].status = "deleted", ![j].error = "none"]
    /\ UNCHANGED <<nextID, now>>

Tick ==
    /\ now < MaxTime
    /\ now' = now + 1
    /\ UNCHANGED <<rows, nextID>>

StoreNext ==
    \/ \E p \in Programs, pre, post \in Paddings : Schedule(p, pre, post)
    \/ ClaimNothing
    \/ Tick
    \/ \E j \in Jobs :
        \/ ClaimDueRecording(j)
        \/ SetRecordingProcess(j)
        \/ FinishRecording(j, "completed", "none")
        \/ \E e \in Failures : FinishRecording(j, "failed", e)
        \/ \E e \in {"resuming", "paused"} : RequeueRecording(j, e)
        \/ CancelRecording(j)
        \/ DeleteRecording(j)

StoreSpec == StoreInit /\ [][StoreNext]_storeVars

-----------------------------------------------------------------------------
(* Properties *)

(* Type invariant; identifiers are handed out in order, each once. *)
StoreTypeOK ==
    /\ rows \in [Jobs -> Row]
    /\ nextID \in 1 .. MaxJobs + 1
    /\ now \in 0 .. MaxTime
    /\ \A j \in Jobs : rows[j].status = "new" <=> j >= nextID

Covering(t) == {j \in Statuses(Accepted) : rows[j].from <= t /\ t < rows[j].to}

(* At no instant do the accepted jobs ask for more tuners than there are,  *)
(* whatever cancellations, requeues and clamped counts happen in between.  *)
(* The number of windows covering an instant is largest where a window     *)
(* starts, so those are the instants looked at.                            *)
NoOvercommit ==
    \A j \in Jobs : Cardinality(Covering(rows[j].from)) <= Capacity

(* A message left by an earlier attempt never survives into a state it     *)
(* does not describe: a live or successful job shows none, a failed one    *)
(* always shows why, and a waiting one only shows why it waits again.      *)
MessageMatchesStatus ==
    \A j \in Jobs :
        /\ rows[j].status \in {"recording", "completed", "cancelled"} =>
               rows[j].error = "none"
        /\ rows[j].status = "failed" =>
               rows[j].error \notin {"none", "resuming", "paused"}
        /\ rows[j].status = "scheduled" =>
               rows[j].error \in {"none", "resuming", "paused"}

(* The table implements the life cycle; its own guard on removal only      *)
(* protects rows that are being recorded.                                  *)
StoreLifecycle ==
    INSTANCE JobLifecycle WITH
        Removable <- Settled \cup {"scheduled"},
        phase <- [j \in Jobs |-> rows[j].status]

ImplementsLifecycle == StoreLifecycle!Spec

=============================================================================
