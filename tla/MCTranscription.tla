--------------------------- MODULE MCTranscription ---------------------------
(* Small instances of Transcription for TLC. *)
EXTENDS Transcription, TLC

Symmetry == Permutations(Recordings) \cup Permutations(Deliveries) \cup Permutations(Collectors)
==============================================================================
