---------------------------- MODULE JobLifecycle ----------------------------
(***************************************************************************)
(* What the recordings table promises a reader that polls it (the list the *)
(* web client shows): each job only moves along the arrows of the state    *)
(* model.  One transaction may move several jobs at once, because a claim  *)
(* also closes every job whose window elapsed.                             *)
(***************************************************************************)

CONSTANTS
    Jobs,       \* identifiers the table hands out, never reused
    Removable   \* phases in which the row may be removed from the table

VARIABLE phase

Terminal == {"completed", "failed", "cancelled"}

Phases == {"new", "scheduled", "recording", "deleted"} \cup Terminal

Moves ==
    { <<"new", "scheduled">>,
      <<"scheduled", "recording">>, <<"scheduled", "failed">>,
      <<"scheduled", "cancelled">>,
      <<"recording", "completed">>, <<"recording", "failed">>,
      <<"recording", "scheduled">>, <<"recording", "cancelled">> }
    \cup { <<p, "deleted">> : p \in Removable }

Init == phase = [j \in Jobs |-> "new"]

Next ==
    /\ phase' \in [Jobs -> Phases]
    /\ \A j \in Jobs :
           phase'[j] # phase[j] => <<phase[j], phase'[j]>> \in Moves

Spec == Init /\ [][Next]_phase

=============================================================================
