---------------------------- MODULE MCSupervisor ----------------------------
(* Airings and folders for the supervisor's runs. *)
EXTENDS Supervisor, TLC

CONSTANTS news, movie, folderA, folderB, s1

MCFailures == {"no tuner", "capture"}

\* Back to back: each window ends when the next one starts.
MCPrograms == {news, movie}
MCStart == news :> 1 @@ movie :> 2
MCEnd == news :> 2 @@ movie :> 3
MCPaddings == {0}

MCFolders == {folderA, folderB}
MCOwnFolders == news :> folderA @@ movie :> folderB

=============================================================================
