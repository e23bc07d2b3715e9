-------------------------- MODULE MCRecordingStore --------------------------
(* One airing, listed from 1 to 3.  The paddings give it four windows: the *)
(* widest, one that is empty, and two that only touch it.                  *)
EXTENDS RecordingStore, TLC

CONSTANT news

MCPrograms == {news}
MCStart == news :> 1
MCEnd == news :> 3
MCPaddings == {-1, 1}

=============================================================================
