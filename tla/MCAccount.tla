------------------------------- MODULE MCAccount -------------------------------
(* Account with the deletions and the recordings interchangeable. *)
EXTENDS Account, TLC

Symmetry == Permutations(Recordings) \cup Permutations(Deletions)
=============================================================================
