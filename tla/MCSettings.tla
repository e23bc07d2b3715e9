------------------------------ MODULE MCSettings ------------------------------
(* Requests are interchangeable until they ask for something. *)
EXTENDS Settings, TLC

Symmetry == Permutations(Requests)

=============================================================================
