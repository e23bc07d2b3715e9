------------------------------ MODULE MCLiveTv ------------------------------
(* Sessions and recordings are interchangeable. *)
EXTENDS LiveTv, TLC

Symmetry == Permutations(Sessions) \cup Permutations(Recordings)

=============================================================================
