----------------------------- MODULE MCAudioStore -----------------------------
(* AudioStore with objects that are nobody's recording: one of a bare suffix   *)
(* beside a user's audio, and one below a recording's key.                     *)
EXTENDS AudioStore, TLC

MCForeign ==
  { <<Version, Plain("ann"), File("")>>,
    <<Version, Plain("bob"), File("rec"), Plain("part")>> }

\* A key without an owner: the departure in README.md.
MCOwnerless == {<<Version, Empty, File("rec")>>}
=============================================================================
