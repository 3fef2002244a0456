-------------------------- MODULE RecordingLifecycle --------------------------
(***************************************************************************)
(* What a recording promises its user (src/app/models/recording.py:        *)
(* "pending -> transcribing -> done / failed"), with nothing of queues,    *)
(* requests and the box: a row is claimed before it is decided, its text   *)
(* appears in the step that makes it done, and done is the end of it.      *)
(***************************************************************************)
CONSTANT Recordings

VARIABLES state, description

Set(r, s) == state' = [state EXCEPT ![r] = s]

Init ==
  /\ state = [r \in Recordings |-> "pending"]
  /\ description = [r \in Recordings |-> "null"]

Claim(r) ==
  /\ state[r] \in {"pending", "failed"} /\ Set(r, "transcribing")
  /\ UNCHANGED description

GiveBack(r) ==
  /\ state[r] = "transcribing" /\ Set(r, "pending")
  /\ UNCHANGED description

Transcribe(r) ==
  /\ state[r] = "transcribing" /\ description[r] # "deleted"
  /\ Set(r, "done")
  /\ description' = [description EXCEPT ![r] = "transcript"]

\* Without an event there is nothing to keep, and done may turn into failed.
Fail(r) ==
  /\ state[r] = "transcribing" \/ (state[r] = "done" /\ description[r] = "deleted")
  /\ Set(r, "failed")
  /\ UNCHANGED description

Edit(r) ==
  /\ description[r] # "deleted"
  /\ description' = [description EXCEPT ![r] = "edited"]
  /\ UNCHANGED state

DeleteEvent(r) ==
  /\ description' = [description EXCEPT ![r] = "deleted"]
  /\ UNCHANGED state

Delete(r) ==
  /\ Set(r, "absent")
  /\ description' = [description EXCEPT ![r] = "deleted"]

Next ==
  \E r \in Recordings :
    \/ Claim(r) \/ GiveBack(r) \/ Transcribe(r) \/ Fail(r)
    \/ Edit(r) \/ DeleteEvent(r) \/ Delete(r)

Spec == Init /\ [][Next]_<<state, description>>
===============================================================================
