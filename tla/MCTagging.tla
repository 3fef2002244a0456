------------------------------- MODULE MCTagging -------------------------------
(* Tagging with interchangeable tags, names, events, workers and requests. *)
EXTENDS Tagging, TLC

Symmetry ==
  Permutations(Tags) \cup Permutations(Names) \cup Permutations(Events)
  \cup Permutations(Workers) \cup Permutations(Requests)
=============================================================================
