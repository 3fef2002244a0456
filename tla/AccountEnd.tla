------------------------------ MODULE AccountEnd ------------------------------
(***************************************************************************)
(* What the deletion of an account promises, whatever requests, notices    *)
(* and services do meanwhile: the audio goes before the identity and the   *)
(* identity before the rows, the rows all at once, and what is stored for  *)
(* them later belongs to recordings that are gone.  Account implements it. *)
(***************************************************************************)
CONSTANTS Recordings

VARIABLES
  identity,  \* the person can sign in
  user,      \* the account has its row
  live,      \* recordings with a row
  gone,      \* recordings whose row went with the account
  kept       \* recordings with an object in the bucket

vars == <<identity, user, live, gone, kept>>

Init == identity = TRUE /\ user = FALSE /\ live = {} /\ gone = {} /\ kept = {}

Enter == ~user /\ user' = TRUE /\ UNCHANGED <<identity, live, gone, kept>>

Record(r) ==
  /\ user /\ r \notin live \cup gone
  /\ live' = live \cup {r}
  /\ UNCHANGED <<identity, user, gone, kept>>

Store(r) ==
  /\ r \in live \cup gone
  /\ kept' = kept \cup {r}
  /\ UNCHANGED <<identity, user, live, gone>>

\* By a deletion, which has the account's row, or by the notice of an orphan.
Remove(r) ==
  /\ user \/ r \in gone
  /\ kept' = kept \ {r}
  /\ UNCHANGED <<identity, user, live, gone>>

Forget ==
  /\ identity /\ user /\ kept = {}
  /\ identity' = FALSE
  /\ UNCHANGED <<user, live, gone, kept>>

End ==
  /\ user /\ ~identity /\ kept = {}
  /\ user' = FALSE /\ live' = {} /\ gone' = gone \cup live
  /\ UNCHANGED <<identity, kept>>

Next ==
  \/ Enter \/ Forget \/ End
  \/ \E r \in Recordings : Record(r) \/ Store(r) \/ Remove(r)

Spec == Init /\ [][Next]_vars
=============================================================================
