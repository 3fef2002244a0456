------------------------------- MODULE Recovery -------------------------------
(***************************************************************************)
(* Who is recovered and when: the batches of sweep                         *)
(* (src/app/services/transcription.py), which are the oldest rows by       *)
(* updated_at up to a limit.  Transcription lets a sweep pick any rows;    *)
(* here the order of updated_at is kept and everything else is one step    *)
(* each: a worker's request, the collection of what is ready, and a row of *)
(* a batch.  Sweeps do not overlap.                                        *)
(***************************************************************************)
EXTENDS Naturals, Sequences

CONSTANTS
  Recordings,  \* recordings.id
  Unfit,       \* those whose transcript is longer than events.description
  BatchLimit,  \* transcriber_recovery_batch_limit
  Faults,      \* kinds of failure the environment may cause
  MaxFaults    \* of these in one behaviour (bounds the model)

FaultKinds ==
  { "lost",        \* a task's attempts are spent, or its notice never came
    "refused",     \* the box takes nothing
    "crash",       \* the process serving a task dies behind its claim
    "queue_down",  \* Cloud Tasks refuses a task
    "unanswered",  \* the box does not answer get_job
    "db_error",    \* a result is not stored this time
    "expiry" }     \* the box forgets a job

ASSUME RecoveryAssumption ==
  /\ Unfit \subseteq Recordings
  /\ BatchLimit \in Nat \ {0} /\ MaxFaults \in Nat /\ Faults \subseteq FaultKinds

VARIABLES
  row,    \* recordings.state, "decided" for done and failed
  order,  \* the rows not decided, oldest updated_at first
  stale,  \* those older than the threshold of their state
  job,    \* the box's job of each
  task,   \* those with a transcription task
  sweep,  \* the sweep: where it is, its batch and whom it has enqueued
  faults

vars == <<row, order, stale, job, task, sweep, faults>>

NoSweep == [pc |-> "idle", batch |-> <<>>, sent |-> <<>>]

Init ==
  /\ row = [r \in Recordings |-> "none"]
  /\ order = <<>> /\ stale = {}
  /\ job = [r \in Recordings |-> "none"]
  /\ task = {}
  /\ sweep = NoSweep
  /\ faults = 0

NoFault == UNCHANGED faults
Fault(kind) == kind \in Faults /\ faults < MaxFaults /\ faults' = faults + 1

\* The elements of a sequence that are in a set, in their order.
Filter(s, S) ==
  LET kept[n \in 0..Len(s)] ==
        IF n = 0 THEN <<>>
        ELSE IF s[n] \in S THEN Append(kept[n - 1], s[n]) ELSE kept[n - 1]
  IN  kept[Len(s)]

Without(r) == Filter(order, Recordings \ {r})
\* A row is written with updated_at = now: it is the newest, and not stale.
Stamp(r, state) ==
  /\ row' = [row EXCEPT ![r] = state]
  /\ order' = Append(Without(r), r)
  /\ stale' = stale \ {r}

-----------------------------------------------------------------------------
(* Recordings, tasks and the box *)

\* create_event, the upload and its notice.
Record(r) ==
  /\ row[r] = "none"
  /\ Stamp(r, "pending")
  /\ \/ task' = task \cup {r} /\ NoFault
     \/ Fault("lost") /\ UNCHANGED task
  /\ UNCHANGED <<job, sweep>>

\* run_transcription takes the row: the box has the job ...
Submit(r) ==
  /\ r \in task /\ row[r] = "pending"
  /\ Stamp(r, "transcribing")
  /\ job' = [job EXCEPT ![r] = "queued"]
  /\ task' = task \ {r}
  /\ NoFault /\ UNCHANGED sweep

\* ... or refuses it and the row is pending again, with attempts left or not ...
SubmitRefused(r) ==
  /\ r \in task /\ row[r] = "pending" /\ Fault("refused")
  /\ Stamp(r, "pending")
  /\ task' \in {task, task \ {r}}
  /\ UNCHANGED <<job, sweep>>

\* ... or nobody has it.
SubmitDies(r) ==
  /\ r \in task /\ row[r] = "pending" /\ Fault("crash")
  /\ Stamp(r, "transcribing")
  /\ task' = task \ {r}
  /\ UNCHANGED <<job, sweep>>

\* claim_lost, already_done
TaskNoop(r) ==
  /\ r \in task /\ row[r] # "pending"
  /\ task' = task \ {r}
  /\ NoFault /\ UNCHANGED <<row, order, stale, job, sweep>>

BoxFinishes(r) ==
  /\ job[r] = "queued"
  /\ job' = [job EXCEPT ![r] = "ready"]
  /\ NoFault /\ UNCHANGED <<row, order, stale, task, sweep>>

BoxForgets(r) ==
  /\ job[r] # "none" /\ Fault("expiry")
  /\ job' = [job EXCEPT ![r] = "none"]
  /\ UNCHANGED <<row, order, stale, task, sweep>>

\* One threshold to a state: a row is not stale before an older one of its state.  The
\* cutoffs are taken once in a sweep; what passes them later is for the next one.
Age(r) ==
  /\ sweep.pc = "idle"
  /\ \E i \in DOMAIN order :
       /\ order[i] = r
       /\ \A j \in 1..(i - 1) : row[order[j]] = row[r] => order[j] \in stale
  /\ r \notin stale
  /\ stale' = stale \cup {r}
  /\ NoFault /\ UNCHANGED <<row, order, job, task, sweep>>

-----------------------------------------------------------------------------
(* sweep *)

\* collect_transcripts: everything ready that fits is stored and acknowledged, but
\* for what the database refuses.
Collect ==
  /\ sweep.pc = "idle"
  /\ \E kept \in SUBSET {r \in Recordings : job[r] = "ready" /\ r \notin Unfit} :
       /\ IF kept = {} THEN NoFault ELSE Fault("db_error")
       /\ LET stored == {r \in Recordings \ (Unfit \cup kept) : job[r] = "ready"}
          IN  /\ row' = [r \in Recordings |-> IF r \in stored THEN "decided" ELSE row[r]]
              /\ job' = [r \in Recordings |-> IF r \in stored THEN "none" ELSE job[r]]
              /\ order' = Filter(order, Recordings \ stored)
              /\ stale' = stale \ stored
              /\ sweep' = [NoSweep EXCEPT !.pc = "stuck"]
  /\ UNCHANGED task

\* A query's rows, oldest first: of the state, older than the cutoff, up to the limit.
Found(state) == Filter(order, {r \in stale : row[r] = state})
\* Mutant of Oldest: no limit.
OldestUnlimited(state) == Found(state)
Oldest(state) ==
  SubSeq(Found(state), 1, IF Len(Found(state)) < BatchLimit THEN Len(Found(state)) ELSE BatchLimit)

SelectStuck ==
  /\ sweep.pc = "stuck"
  /\ sweep' = [sweep EXCEPT !.pc = "check", !.batch = Oldest("transcribing")]
  /\ NoFault /\ UNCHANGED <<row, order, stale, job, task>>

\* Mutant of HasJob: `break` for `continue`.
HasJobEndsScan ==
  /\ sweep.pc = "check" /\ sweep.batch # <<>>
  /\ \/ job[Head(sweep.batch)] # "none" /\ NoFault
     \/ Fault("unanswered")
  /\ sweep' = [sweep EXCEPT !.batch = <<>>]
  /\ UNCHANGED <<row, order, stale, job, task>>

\* The box still has it, or does not say.
HasJob ==
  /\ sweep.pc = "check" /\ sweep.batch # <<>>
  /\ \/ job[Head(sweep.batch)] # "none" /\ NoFault
     \/ Fault("unanswered")
  /\ sweep' = [sweep EXCEPT !.batch = Tail(@)]
  /\ UNCHANGED <<row, order, stale, job, task>>

\* _enqueue; the row's name stays a task's until a worker takes it.
Enqueues(r) ==
  \/ task' = task \cup {r} /\ NoFault
  \/ Fault("queue_down") /\ UNCHANGED task

\* Mutant of Requeue: _revert_pending does not set updated_at.
RequeueUnstamped ==
  /\ sweep.pc = "check" /\ sweep.batch # <<>>
  /\ LET r == Head(sweep.batch)
     IN  /\ job[r] = "none"
         /\ row' = [row EXCEPT ![r] = "pending"]
         /\ Enqueues(r)
         /\ sweep' = [sweep EXCEPT !.batch = Tail(@), !.sent = Append(@, r)]
  /\ UNCHANGED <<order, stale, job>>

\* The box has no job: the row is reverted, and enqueued.
Requeue ==
  /\ sweep.pc = "check" /\ sweep.batch # <<>>
  /\ LET r == Head(sweep.batch)
     IN  /\ job[r] = "none"
         /\ Stamp(r, "pending")
         /\ Enqueues(r)
         /\ sweep' = [sweep EXCEPT !.batch = Tail(@), !.sent = Append(@, r)]
  /\ UNCHANGED job

SelectPending ==
  /\ sweep.pc = "check" /\ sweep.batch = <<>>
  /\ sweep' = [sweep EXCEPT !.pc = "redrive", !.batch = Oldest("pending")]
  /\ NoFault /\ UNCHANGED <<row, order, stale, job, task>>

\* A stale pending row is enqueued as it is.
Redrive ==
  /\ sweep.pc = "redrive" /\ sweep.batch # <<>>
  /\ Enqueues(Head(sweep.batch))
  /\ sweep' = [sweep EXCEPT !.batch = Tail(@), !.sent = Append(@, Head(sweep.batch))]
  /\ UNCHANGED <<row, order, stale, job>>

Swept ==
  /\ sweep.pc = "redrive" /\ sweep.batch = <<>>
  /\ sweep' = NoSweep
  /\ NoFault /\ UNCHANGED <<row, order, stale, job, task>>

Sweep == Collect \/ SelectStuck \/ HasJob \/ Requeue \/ SelectPending \/ Redrive \/ Swept
Worker(r) == Submit(r) \/ TaskNoop(r)

Next ==
  \/ Sweep
  \/ \E r \in Recordings :
       \/ Record(r) \/ Worker(r) \/ SubmitRefused(r) \/ SubmitDies(r)
       \/ BoxFinishes(r) \/ BoxForgets(r) \/ Age(r)

Spec == Init /\ [][Next]_vars

\* Sweeps keep coming, Cloud Tasks runs what it holds, the box works, and time passes,
\* strongly, as it is seen between sweeps only.
LiveSpec ==
  /\ Spec /\ WF_vars(Sweep)
  /\ WF_vars(\E r \in Recordings : Worker(r))
  /\ WF_vars(\E r \in Recordings : BoxFinishes(r))
  /\ SF_vars(\E r \in Recordings : Age(r))

-----------------------------------------------------------------------------
(* Properties *)

\* Every variable keeps its type; the order has each undecided row once, and no
\* batch is larger than the limit.
RecoveryTypes ==
  /\ row \in [Recordings -> {"none", "pending", "transcribing", "decided"}]
  /\ \A r \in Recordings :
       (row[r] \in {"pending", "transcribing"}) <=> \E i \in DOMAIN order : order[i] = r
  /\ \A i, j \in DOMAIN order : order[i] = order[j] => i = j
  /\ stale \subseteq {order[i] : i \in DOMAIN order}
  /\ job \in [Recordings -> {"none", "queued", "ready"}]
  /\ task \subseteq Recordings
  /\ sweep.pc \in {"idle", "stuck", "check", "redrive"} /\ Len(sweep.batch) <= BatchLimit
  /\ faults \in 0..MaxFaults

\* Waiting for nothing: neither a task nor a job.
Stranded(r) == row[r] \in {"pending", "transcribing"} /\ r \notin task /\ job[r] = "none"

\* "Whatever is left over is picked up by the next callback": every stranded row is
\* driven again, whatever stays in front of it, as long as sweeps keep coming.
Recovered == \A r \in Recordings : Stranded(r) ~> ~Stranded(r)

\* A sweep enqueues no row twice: what its first half puts back, its second half
\* does not find.
OncePerSweep == \A i, j \in DOMAIN sweep.sent : sweep.sent[i] = sweep.sent[j] => i = j
=============================================================================
