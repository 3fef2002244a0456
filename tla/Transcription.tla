---------------------------- MODULE Transcription ----------------------------
(***************************************************************************)
(* The transcription pipeline (src/app/services/transcription.py): the     *)
(* Cloud Tasks worker that claims a recording and submits its audio to the *)
(* transcriber box, the collector that drains, persists and acknowledges   *)
(* results, and the recovery sweep.  A step is one committed transaction,  *)
(* one call to a service, or one failure of either.                        *)
(***************************************************************************)
EXTENDS Naturals, FiniteSets

CONSTANTS
  Recordings,     \* recordings.id; also the job id on the box
  None,           \* no recording
  Deliveries,     \* Cloud Tasks that can be queued or running at one time
  Collectors,     \* sweeps that can be running at one time
  MaxUploads,     \* uploads of one recording's object (bounds the model)
  MaxAttempts,    \* attempts the queue gives a task (3 in production)
  PageLimit,      \* jobs in one page of a drain (200)
  MaxDrainPages,  \* MAX_DRAIN_PAGES (10)
  BatchLimit,     \* transcriber_recovery_batch_limit (25)
  TooLong,        \* recordings whose duration_sec is over the limit
  LongAudio,      \* uploads whose transcript does not fit events.description
  Faults,         \* kinds of failure the environment may cause
  MaxFaults       \* failures in one behaviour (bounds the model)

FaultKinds ==
  { "crash",        \* the process serving a request dies
    "storage",      \* GCS answers a download with an unexpected error
    "unconfigured", \* no bucket is configured
    "rejected",     \* the box refuses the audio (400, 413), or a DELETE (409 too)
    "refused",      \* the box refuses a submission (503, 401, unreachable)
    "no_answer",    \* the box acts on a submission, the answer is lost
    "box_down",     \* the box fails a drain, an ack or a lookup
    "job_failed",   \* the box fails a job
    "expiry",       \* the box forgets a job (JOB_TTL_DAYS)
    "db_error",     \* persisting one job raises
    "redelivery",   \* Pub/Sub delivers a notification again
    "queue_down" }  \* Cloud Tasks refuses a task

ASSUME RecordingsAssumption == Recordings # {} /\ None \notin Recordings
ASSUME BoundsAssumption ==
  /\ MaxUploads \in Nat \ {0} /\ MaxAttempts \in Nat \ {0}
  /\ PageLimit \in Nat \ {0}  /\ MaxDrainPages \in Nat \ {0}
  /\ BatchLimit \in Nat \ {0} /\ MaxFaults \in Nat
ASSUME DataAssumption ==
  /\ TooLong \subseteq Recordings
  /\ LongAudio \subseteq 1..MaxUploads
  /\ Faults \subseteq FaultKinds

VARIABLES
  state,        \* recordings.state, "absent" once the row is deleted
  stale,        \* rows whose updated_at is past the threshold of their state
  description,  \* events.description of the linked event
  audio,        \* the upload the bucket holds, 0 for none
  notices,      \* object-finalize notifications not yet acknowledged
  box,          \* the transcriber box's job of each recording
  task,         \* Cloud Tasks and the worker requests serving them
  run,          \* sweep requests
  faults        \* failures so far

vars == <<state, stale, description, audio, notices, box, task, run, faults>>
rows == <<state, stale, description>>
world == <<audio, notices>>

Audio == 0..MaxUploads
RowState == {"pending", "transcribing", "done", "failed", "absent"}
Text == {"null", "transcript", "edited", "deleted"}   \* deleted: no event row
Ready == {"done", "failed", "audio_missing"}          \* terminal job statuses

NoJob == [status |-> "none", audio |-> 0]
Job == [status : Ready \cup {"none", "queued"}, audio : Audio]

\* A delivery's progress through run_transcription, after its claim.
Working == {"claimed", "checked", "loaded", "conflict", "discarded", "revert", "fail"}
IdleTask == [pc |-> "free", rec |-> None, audio |-> 0, attempt |-> 0]
Task == {IdleTask} \cup [pc : Working \cup {"queued"}, rec : Recordings,
                         audio : Audio, attempt : 1..MaxAttempts]

\* A sweep's progress: the page it is persisting (`seen` is what it drained),
\* the ids it may acknowledge, the rows it selected, and the row in hand.
SweepPc == {"idle", "error", "drain", "persist", "write", "stuck", "check", "requeue", "enqueue",
           "redrive"}
IdleRun == [pc |-> "idle", pages |-> 0, page |-> {}, more |-> FALSE,
            acks |-> {}, sel |-> {}, cur |-> None]
PageJob == [rec : Recordings, status : Ready, audio : Audio]
Run == [pc : SweepPc, pages : 0..MaxDrainPages, page : SUBSET PageJob, more : BOOLEAN,
        acks : SUBSET Recordings, sel : SUBSET Recordings, cur : Recordings \cup {None}]

\* Every recording starts as create_event leaves it: a pending row, its event
\* with a null description, no audio yet.
Init ==
  /\ state = [r \in Recordings |-> "pending"]
  /\ stale = {}
  /\ description = [r \in Recordings |-> "null"]
  /\ audio = [r \in Recordings |-> 0]
  /\ notices = {}
  /\ box = [r \in Recordings |-> NoJob]
  /\ task = [d \in Deliveries |-> IdleTask]
  /\ run = [c \in Collectors |-> IdleRun]
  /\ faults = 0

-----------------------------------------------------------------------------
(* Helpers *)

NoFault == UNCHANGED faults
Fault(kind) == kind \in Faults /\ faults < MaxFaults /\ faults' = faults + 1

\* UPDATE recordings SET state = s, updated_at = now WHERE id = r
Write(r, s) ==
  /\ state' = [state EXCEPT ![r] = IF @ = "absent" THEN @ ELSE s]
  /\ stale' = stale \ {r}

Queued(r) == [pc |-> "queued", rec |-> r, audio |-> 0, attempt |-> 1]

\* A new Cloud Task; the model has a slot for it or refuses it like the queue.
Enqueue(r) ==
  \E d \in Deliveries : task[d].pc = "free" /\ task' = [task EXCEPT ![d] = Queued(r)]
SlotsTaken == \A d \in Deliveries : task[d].pc # "free"

\* _enqueue: a TaskQueueError is logged and swallowed.
TryEnqueue(r) ==
  \/ Enqueue(r) /\ NoFault
  \/ SlotsTaken /\ UNCHANGED task /\ NoFault
  \/ Fault("queue_down") /\ UNCHANGED task

At(d, pc) == task[d].pc = pc
Go(d, pc) == task' = [task EXCEPT ![d].pc = pc]
Finish(d) == task' = [task EXCEPT ![d] = IdleTask]          \* 2xx: task removed
Again(d) ==                                                 \* 5xx or no answer
  task' = [task EXCEPT ![d] =
             IF @.attempt < MaxAttempts
               THEN [Queued(@.rec) EXCEPT !.attempt = task[d].attempt + 1]
               ELSE IdleTask]

Owns(d, r) == task[d].rec = r /\ task[d].pc \in Working
Owned(r) == \E d \in Deliveries : Owns(d, r)

-----------------------------------------------------------------------------
(* run_transcription: submission *)

\* Mutants of Claim: the UPDATE without its condition, and with done added to it.
ClaimUnconditional(d) ==
  /\ At(d, "queued")
  /\ state[task[d].rec] # "absent"
  /\ Write(task[d].rec, "transcribing")
  /\ Go(d, "claimed")
  /\ NoFault /\ UNCHANGED <<description, world, box, run>>
ClaimDone(d) ==
  /\ At(d, "queued")
  /\ state[task[d].rec] \in {"pending", "failed", "done"}
  /\ Write(task[d].rec, "transcribing")
  /\ Go(d, "claimed")
  /\ NoFault /\ UNCHANGED <<description, world, box, run>>

\* The conditional UPDATE that claims the row, and its commit.
Claim(d) ==
  /\ At(d, "queued")
  /\ state[task[d].rec] \in {"pending", "failed"}
  /\ Write(task[d].rec, "transcribing")
  /\ Go(d, "claimed")
  /\ NoFault /\ UNCHANGED <<description, world, box, run>>

\* no_recording, already_done, claim_lost
ClaimLost(d) ==
  /\ At(d, "queued")
  /\ state[task[d].rec] \in {"absent", "done", "transcribing"}
  /\ Finish(d)
  /\ NoFault /\ UNCHANGED <<rows, world, box, run>>

CheckEvent(d) ==
  /\ At(d, "claimed")
  /\ LET r == task[d].rec
     IN  Go(d, IF description[r] = "deleted" \/ r \in TooLong THEN "fail" ELSE "checked")
  /\ NoFault /\ UNCHANGED <<rows, world, box, run>>

Download(d) ==
  /\ At(d, "checked")
  /\ LET bytes == audio[task[d].rec]
     IN  IF bytes = 0
           THEN Go(d, "fail")
           ELSE task' = [task EXCEPT ![d].pc = "loaded", ![d].audio = bytes]
  /\ NoFault /\ UNCHANGED <<rows, world, box, run>>

DownloadUnconfigured(d) ==
  /\ At(d, "checked") /\ Fault("unconfigured")
  /\ Go(d, "revert")
  /\ UNCHANGED <<rows, world, box, run>>

\* Any other storage exception leaves run_transcription: a 500, row untouched.
DownloadRaises(d) ==
  /\ At(d, "checked") /\ Fault("storage")
  /\ Again(d)
  /\ UNCHANGED <<rows, world, box, run>>

\* The box under a POST /jobs: a new job, or the one it has of the same bytes.
Takes(r, bytes) ==
  \/ box[r] = NoJob /\ box' = [box EXCEPT ![r] = [status |-> "queued", audio |-> bytes]]
  \/ box[r] # NoJob /\ box[r].audio = bytes /\ UNCHANGED box

Submitting(d) == task[d].pc \in {"loaded", "discarded"}

Submit(d) ==
  /\ Submitting(d)
  /\ Takes(task[d].rec, task[d].audio)
  /\ Finish(d)
  /\ NoFault /\ UNCHANGED <<rows, world, run>>

\* The box took the audio, the worker sees EndpointUnavailableError.
SubmitNoAnswer(d) ==
  /\ Submitting(d) /\ Fault("no_answer")
  /\ Takes(task[d].rec, task[d].audio)
  /\ Go(d, "revert")
  /\ UNCHANGED <<rows, world, run>>

\* Mutant of SubmitRefused: the handler answers without reverting the row.
SubmitRefusedKeepsRow(d) ==
  /\ Submitting(d) /\ Fault("refused")
  /\ Again(d)
  /\ UNCHANGED <<rows, world, box, run>>

SubmitRefused(d) ==
  /\ Submitting(d) /\ Fault("refused")
  /\ Go(d, "revert")
  /\ UNCHANGED <<rows, world, box, run>>

SubmitRejected(d) ==
  /\ Submitting(d) /\ Fault("rejected")
  /\ Go(d, "fail")
  /\ UNCHANGED <<rows, world, box, run>>

\* 409: different audio under this id.  The second one is permanent.
SubmitConflict(d) ==
  /\ Submitting(d)
  /\ box[task[d].rec] # NoJob /\ box[task[d].rec].audio # task[d].audio
  /\ Go(d, IF At(d, "loaded") THEN "conflict" ELSE "fail")
  /\ NoFault /\ UNCHANGED <<rows, world, box, run>>

Discard(d) ==
  /\ At(d, "conflict")
  /\ box' = [box EXCEPT ![task[d].rec] = NoJob]
  /\ \/ NoFault /\ Go(d, "discarded")
     \/ Fault("no_answer") /\ Go(d, "revert")
  /\ UNCHANGED <<rows, world, run>>

\* The errors of a submission, of the DELETE: soft, or permanent (400, 409, 413).
DiscardRefused(d) ==
  /\ At(d, "conflict")
  /\ \/ Fault("refused") /\ Go(d, "revert")
     \/ Fault("rejected") /\ Go(d, "fail")
  /\ UNCHANGED <<rows, world, box, run>>

\* _revert_pending, then 503: the queue retries.
RevertPending(d) ==
  /\ At(d, "revert")
  /\ Write(task[d].rec, "pending")
  /\ Again(d)
  /\ NoFault /\ UNCHANGED <<description, world, box, run>>

\* _mark_failed, then 200.
MarkFailed(d) ==
  /\ At(d, "fail")
  /\ Write(task[d].rec, "failed")
  /\ Finish(d)
  /\ NoFault /\ UNCHANGED <<description, world, box, run>>

WorkerDies(d) ==
  /\ task[d].pc \in Working /\ Fault("crash")
  /\ Again(d)
  /\ UNCHANGED <<rows, world, box, run>>

Worker(d) ==
  \/ Claim(d) \/ ClaimLost(d) \/ CheckEvent(d) \/ Download(d) \/ Submit(d)
  \/ SubmitConflict(d) \/ Discard(d) \/ RevertPending(d) \/ MarkFailed(d)
WorkerFault(d) ==
  \/ DownloadUnconfigured(d) \/ DownloadRaises(d) \/ SubmitNoAnswer(d) \/ SubmitRefused(d)
  \/ SubmitRejected(d) \/ DiscardRefused(d) \/ WorkerDies(d)

-----------------------------------------------------------------------------
(* collect_transcripts: drain, persist, acknowledge *)

InPc(c, pc) == run[c].pc = pc
Step(c, change) == run' = [run EXCEPT ![c] = change]
\* A subset of S as large as a LIMIT n lets it be.
Limited(S, n) == {T \in SUBSET S : Cardinality(T) <= n /\ (T = S \/ Cardinality(T) = n)}

\* Mutant of Finished: the drain does not ask for done and failed jobs only.
FinishedUnfiltered == {r \in Recordings : box[r] # NoJob}

Finished == {r \in Recordings : box[r].status \in Ready}
Page(ids) == {[rec |-> r, status |-> box[r].status, audio |-> box[r].audio] : r \in ids}
HasMore(ids) == ids # Finished

\* The callback, or the manual route, starts a sweep.
Wake(c) ==
  /\ run[c].pc \in {"idle", "error"}
  /\ Step(c, [IdleRun EXCEPT !.pc = "drain"])
  /\ NoFault /\ UNCHANGED <<rows, world, box, task>>

Drain(c) ==
  /\ InPc(c, "drain") /\ run[c].pages < MaxDrainPages
  /\ \E ids \in Limited(Finished, PageLimit) :
       Step(c, IF ids = {}
                 THEN [IdleRun EXCEPT !.pc = "stuck"]
                 ELSE [IdleRun EXCEPT !.pc = "persist", !.pages = run[c].pages + 1,
                                      !.page = Page(ids), !.more = HasMore(ids)])
  /\ NoFault /\ UNCHANGED <<rows, world, box, task>>

\* Mutant of Decided: every job of the page is acknowledged.
DecidedAckAll(c, j, ok) ==
  Step(c, [run[c] EXCEPT !.pc = "persist", !.page = @ \ {j}, !.cur = None,
                         !.acks = @ \cup {j.rec}])

\* One job of the page is decided; it may be acknowledged or not.
Decided(c, j, ok) ==
  Step(c, [run[c] EXCEPT !.pc = "persist", !.page = @ \ {j}, !.cur = None,
                         !.acks = IF ok THEN @ \cup {j.rec} ELSE @])

PersistUnknown(c) ==
  /\ InPc(c, "persist")
  /\ \E j \in run[c].page : state[j.rec] = "absent" /\ Decided(c, j, TRUE)
  /\ NoFault /\ UNCHANGED <<rows, world, box, task>>

\* _persist_failure: unconditional, whatever the row has become.
PersistFailure(c) ==
  /\ InPc(c, "persist")
  /\ \E j \in run[c].page :
       /\ j.status # "done" /\ state[j.rec] # "absent"
       /\ Write(j.rec, IF j.status = "audio_missing" THEN "pending" ELSE "failed")
       /\ Decided(c, j, TRUE)
  /\ NoFault /\ UNCHANGED <<description, world, box, task>>

\* _persist_transcript, no event: _mark_failed, unconditional.
PersistNoEvent(c) ==
  /\ InPc(c, "persist")
  /\ \E j \in run[c].page :
       /\ j.status = "done" /\ state[j.rec] # "absent" /\ description[j.rec] = "deleted"
       /\ Write(j.rec, "failed")
       /\ Decided(c, j, TRUE)
  /\ NoFault /\ UNCHANGED <<description, world, box, task>>

\* _persist_transcript: the event is read in one statement ...
PersistSelect(c) ==
  /\ InPc(c, "persist")
  /\ \E j \in run[c].page :
       /\ j.status = "done" /\ state[j.rec] # "absent" /\ description[j.rec] # "deleted"
       /\ Step(c, [run[c] EXCEPT !.pc = "write", !.cur = j.rec])
  /\ NoFault /\ UNCHANGED <<rows, world, box, task>>

\* Mutant of Skips: the write without WHERE state != 'done'.
SkipsNoRow(r) == state[r] = "absent"

Skips(r) == state[r] \in {"done", "absent"}
Fits(j) == description[j.rec] # "deleted" /\ j.audio \notin LongAudio

\* Mutant of PersistWrite: the row committed before the text.
PersistRowFirst(c) ==
  /\ InPc(c, "write")
  /\ \E j \in run[c].page :
       /\ j.rec = run[c].cur /\ ~Skips(j.rec) /\ Fits(j)
       /\ Write(j.rec, "done")
       /\ \/ /\ NoFault /\ Decided(c, j, TRUE)
             /\ description' = [description EXCEPT ![j.rec] = "transcript"]
          \/ Fault("db_error") /\ Decided(c, j, FALSE) /\ UNCHANGED description
  /\ UNCHANGED <<world, box, task>>

\* ... and its row claimed and both written in a later transaction.  Failing to
\* dispatch tagging raises after the commit and keeps the job from the ack.
PersistWrite(c) ==
  /\ InPc(c, "write")
  /\ \E j \in run[c].page :
       /\ j.rec = run[c].cur /\ ~Skips(j.rec) /\ Fits(j)
       /\ Write(j.rec, "done")
       /\ description' = [description EXCEPT ![j.rec] = "transcript"]
       /\ \/ NoFault /\ Decided(c, j, TRUE)
          \/ Fault("db_error") /\ Decided(c, j, FALSE)
  /\ UNCHANGED <<world, box, task>>

\* rowcount 0: another collector wrote it.
PersistSkip(c) ==
  /\ InPc(c, "write")
  /\ \E j \in run[c].page : j.rec = run[c].cur /\ Skips(j.rec) /\ Decided(c, j, TRUE)
  /\ NoFault /\ UNCHANGED <<rows, world, box, task>>

\* The write raises (row gone, value too long) and is rolled back.
PersistRollback(c) ==
  /\ InPc(c, "write")
  /\ \E j \in run[c].page :
       j.rec = run[c].cur /\ ~Skips(j.rec) /\ ~Fits(j) /\ Decided(c, j, FALSE)
  /\ NoFault /\ UNCHANGED <<rows, world, box, task>>

PersistRaises(c) ==
  /\ InPc(c, "persist") /\ Fault("db_error")
  /\ \E j \in run[c].page : Decided(c, j, FALSE)
  /\ UNCHANGED <<rows, world, box, task>>

PageDone(c) == InPc(c, "persist") /\ run[c].page = {}

\* The box deletes by id: whatever terminal job it now holds under it.
Acked(ids) == [r \in Recordings |-> IF r \in ids /\ box[r].status \in Ready THEN NoJob ELSE box[r]]

Ack(c) ==
  /\ PageDone(c) /\ run[c].acks # {}
  /\ box' = Acked(run[c].acks)
  /\ Step(c, [run[c] EXCEPT !.acks = {}, !.more = FALSE,
                !.pc = IF run[c].more /\ run[c].pages < MaxDrainPages THEN "drain" ELSE "stuck"])
  /\ NoFault /\ UNCHANGED <<rows, world, task>>

Stalled(c) ==
  /\ PageDone(c) /\ run[c].acks = {}
  /\ Step(c, [IdleRun EXCEPT !.pc = "stuck"])
  /\ NoFault /\ UNCHANGED <<rows, world, box, task>>

\* A failed drain or ack leaves the sweep: the callback is answered 500.
BoxFails(c) ==
  /\ InPc(c, "drain") \/ (PageDone(c) /\ run[c].acks # {})
  /\ Fault("box_down")
  /\ Step(c, [IdleRun EXCEPT !.pc = "error"])
  /\ box' \in {box, Acked(run[c].acks)}
  /\ UNCHANGED <<rows, world, task>>

-----------------------------------------------------------------------------
(* sweep: recovery *)

SelectStuck(c) ==
  /\ InPc(c, "stuck")
  /\ \E sel \in Limited({r \in stale : state[r] = "transcribing"}, BatchLimit) :
       Step(c, [IdleRun EXCEPT !.pc = "check", !.sel = sel])
  /\ NoFault /\ UNCHANGED <<rows, world, box, task>>

\* Mutant of CheckJob: a job still on the box is put back too.
CheckNothing(c) ==
  /\ InPc(c, "check")
  /\ \E r \in run[c].sel : Step(c, [run[c] EXCEPT !.pc = "requeue", !.cur = r])
  /\ NoFault /\ UNCHANGED <<rows, world, box, task>>

\* GET /jobs/{id}: still there, or a 404.
CheckJob(c) ==
  /\ InPc(c, "check")
  /\ \E r \in run[c].sel :
       Step(c, IF box[r] = NoJob
                 THEN [run[c] EXCEPT !.pc = "requeue", !.cur = r]
                 ELSE [run[c] EXCEPT !.sel = @ \ {r}])
  /\ NoFault /\ UNCHANGED <<rows, world, box, task>>

CheckFails(c) ==
  /\ InPc(c, "check") /\ Fault("box_down")
  /\ \E r \in run[c].sel : Step(c, [run[c] EXCEPT !.sel = @ \ {r}])
  /\ UNCHANGED <<rows, world, box, task>>

\* No job: _revert_pending commits first ...
Requeue(c) ==
  /\ InPc(c, "requeue")
  /\ Write(run[c].cur, "pending")
  /\ Step(c, [run[c] EXCEPT !.pc = "enqueue", !.sel = @ \ {run[c].cur}])
  /\ NoFault /\ UNCHANGED <<description, world, box, task>>

\* ... and the task is created after it.
RequeueTask(c) ==
  /\ InPc(c, "enqueue")
  /\ TryEnqueue(run[c].cur)
  /\ Step(c, [run[c] EXCEPT !.pc = "check", !.cur = None])
  /\ UNCHANGED <<rows, world, box>>

\* Mutant of SelectPending: "the hole the old design left open".
SelectNoPending(c) ==
  /\ InPc(c, "check") /\ run[c].sel = {}
  /\ Step(c, [IdleRun EXCEPT !.pc = "redrive"])
  /\ NoFault /\ UNCHANGED <<rows, world, box, task>>

SelectPending(c) ==
  /\ InPc(c, "check") /\ run[c].sel = {}
  /\ \E sel \in Limited({r \in stale : state[r] = "pending"}, BatchLimit) :
       Step(c, [IdleRun EXCEPT !.pc = "redrive", !.sel = sel])
  /\ NoFault /\ UNCHANGED <<rows, world, box, task>>

Redrive(c) ==
  /\ InPc(c, "redrive")
  /\ \E r \in run[c].sel : TryEnqueue(r) /\ Step(c, [run[c] EXCEPT !.sel = @ \ {r}])
  /\ UNCHANGED <<rows, world, box>>

Swept(c) ==
  /\ InPc(c, "redrive") /\ run[c].sel = {}
  /\ Step(c, IdleRun)
  /\ NoFault /\ UNCHANGED <<rows, world, box, task>>

SweepDies(c) ==
  /\ run[c].pc \notin {"idle", "error"} /\ Fault("crash")
  /\ Step(c, IdleRun)
  /\ UNCHANGED <<rows, world, box, task>>

Collect(c) ==
  \/ Drain(c) \/ PersistUnknown(c) \/ PersistFailure(c) \/ PersistNoEvent(c)
  \/ PersistSelect(c) \/ PersistWrite(c) \/ PersistSkip(c) \/ PersistRollback(c)
  \/ Ack(c) \/ Stalled(c)
Recover(c) ==
  \/ SelectStuck(c) \/ CheckJob(c) \/ Requeue(c) \/ RequeueTask(c)
  \/ SelectPending(c) \/ Redrive(c) \/ Swept(c)
SweepFault(c) == PersistRaises(c) \/ BoxFails(c) \/ CheckFails(c) \/ SweepDies(c)

-----------------------------------------------------------------------------
(* The services around it, the users and time *)

\* A PUT to the signed URL replaces the object and publishes a notification.
Upload(r) ==
  /\ state[r] # "absent" /\ audio[r] < MaxUploads
  /\ audio' = [audio EXCEPT ![r] = @ + 1]
  /\ notices' = notices \cup {r}
  /\ NoFault /\ UNCHANGED <<rows, box, task, run>>

\* POST /internal/uploaded.  A refused task is a 5xx, so the notice stays.
Uploaded(r) ==
  /\ r \in notices /\ state[r] # "absent"
  /\ Enqueue(r)
  /\ \/ NoFault /\ notices' = notices \ {r}
     \/ Fault("redelivery") /\ UNCHANGED notices
  /\ UNCHANGED <<rows, audio, box, run>>

\* No row: delete_orphan_audio_object.
UploadedOrphan(r) ==
  /\ r \in notices /\ state[r] = "absent"
  /\ audio' = [audio EXCEPT ![r] = 0]
  /\ notices' = notices \ {r}
  /\ NoFault /\ UNCHANGED <<rows, box, task, run>>

BoxFinishes(r) ==
  /\ box[r].status = "queued"
  /\ \/ NoFault /\ box' = [box EXCEPT ![r].status = "done"]
     \/ /\ Fault("job_failed")
        /\ \E s \in {"failed", "audio_missing"} : box' = [box EXCEPT ![r].status = s]
  /\ UNCHANGED <<rows, world, task, run>>

\* 30 days: longer than any request, so no request still holds the job.
BoxForgets(r) ==
  /\ box[r] # NoJob /\ Fault("expiry")
  /\ ~Owned(r) /\ \A c \in Collectors : run[c].pc \in {"idle", "error"}
  /\ box' = [box EXCEPT ![r] = NoJob]
  /\ UNCHANGED <<rows, world, task, run>>

\* updated_at passes its threshold: 30 minutes pending, 6 hours transcribing.
\* A worker request is over (60 minutes at most) before the 6 hours are.
Age(r) ==
  /\ r \notin stale /\ state[r] \in {"pending", "transcribing"}
  /\ state[r] = "transcribing" => ~Owned(r)
  /\ stale' = stale \cup {r}
  /\ NoFault /\ UNCHANGED <<state, description, world, box, task, run>>

EditEvent(r) ==
  /\ description[r] # "deleted"
  /\ description' = [description EXCEPT ![r] = "edited"]
  /\ NoFault /\ UNCHANGED <<state, stale, world, box, task, run>>

\* delete_event leaves the recording row.
DeleteEvent(r) ==
  /\ description[r] # "deleted"
  /\ description' = [description EXCEPT ![r] = "deleted"]
  /\ NoFault /\ UNCHANGED <<state, stale, world, box, task, run>>

\* delete_account, as this pipeline sees it: queued tasks, audio and rows go.
DeleteAccount(r) ==
  /\ state[r] # "absent"
  /\ state' = [state EXCEPT ![r] = "absent"]
  /\ stale' = stale \ {r}
  /\ description' = [description EXCEPT ![r] = "deleted"]
  /\ audio' = [audio EXCEPT ![r] = 0]
  /\ task' = [d \in Deliveries |-> IF At(d, "queued") /\ task[d].rec = r
                                     THEN IdleTask ELSE task[d]]
  /\ NoFault /\ UNCHANGED <<notices, box, run>>

Environment(r) ==
  \/ Upload(r) \/ Uploaded(r) \/ UploadedOrphan(r) \/ BoxFinishes(r) \/ BoxForgets(r)
  \/ Age(r) \/ EditEvent(r) \/ DeleteEvent(r) \/ DeleteAccount(r)

Next ==
  \/ \E d \in Deliveries : Worker(d) \/ WorkerFault(d)
  \/ \E c \in Collectors : Wake(c) \/ Collect(c) \/ Recover(c) \/ SweepFault(c)
  \/ \E r \in Recordings : Environment(r)

Spec == Init /\ [][Next]_vars

\* Cloud Tasks runs what it holds, Pub/Sub delivers, the box works through its
\* queue, requests run to their end, time passes, and a sweep starts again and
\* again (the callbacks of other recordings, or the manual route).  Nothing is
\* assumed of users or failures; MaxFaults makes the failures finitely many.
Fairness ==
  /\ \A d \in Deliveries : WF_vars(Worker(d))
  /\ \A c \in Collectors : WF_vars(Wake(c)) /\ WF_vars(Collect(c) \/ Recover(c))
  /\ \A r \in Recordings : WF_vars(Uploaded(r)) /\ WF_vars(BoxFinishes(r)) /\ WF_vars(Age(r))

LiveSpec == Spec /\ Fairness

-----------------------------------------------------------------------------
(* Properties *)

\* Every variable keeps its type (the columns' and the box's vocabularies).
TypeOK ==
  /\ state \in [Recordings -> RowState]
  /\ stale \subseteq Recordings
  /\ description \in [Recordings -> Text]
  /\ audio \in [Recordings -> Audio]
  /\ notices \subseteq Recordings
  /\ box \in [Recordings -> Job]
  /\ task \in [Deliveries -> Task]
  /\ run \in [Collectors -> Run]
  /\ \A c \in Collectors : run[c].pc \in {"requeue", "enqueue"} => run[c].cur \in Recordings
  /\ faults \in 0..MaxFaults

\* A done row's event has its text, whatever interleaves with the two statements
\* of _persist_transcript: "description going non-null is the client's completion
\* signal", and nothing collects a done row again.
DoneHasText == \A r \in Recordings : state[r] = "done" => description[r] # "null"

\* The claim makes a duplicate delivery a no-op: two worker requests are never
\* both past it for one recording.
ClaimExclusive ==
  \A d, e \in Deliveries : \A r \in Recordings : Owns(d, r) /\ Owns(e, r) => d = e

\* A row whose transcript is stored never falls back into the pipeline ("Already
\* done -> no-op.  A retry after success must never resubmit or double-write").
DoneIsFinal ==
  [][\A r \in Recordings : state[r] = "done" /\ description[r] # "deleted"
       => state'[r] \in {"done", "absent"}]_vars

\* Persist, then acknowledge: an ack never deletes a finished transcript that its
\* recording, whose event shows no text, is still waiting for.
PersistThenAck ==
  [][\A c \in Collectors : Ack(c) =>
       \A r \in Recordings : box[r].status = "done" /\ box'[r] = NoJob
         => state[r] = "done" \/ description[r] # "null"]_vars

\* A row waiting for its transcript is waiting for something: a worker request
\* that will submit it, or a job on the box.
NothingStranded ==
  \A r \in Recordings : state[r] = "transcribing" => Owned(r) \/ box[r] # NoJob

\* "The new audio wins in every sub-case": a 409 never discards a job of newer
\* audio than the worker is holding.
NewAudioWins ==
  \A d \in Deliveries : At(d, "conflict") => box[task[d].rec].audio <= task[d].audio

\* One sweep at a time, and no request or call dies halfway: the environment in
\* which the claim and the conditional update alone keep a recording in order.
OneSweep ==
  /\ \A c, e \in Collectors : c = e
  /\ Faults \cap {"no_answer", "box_down", "crash"} = {}

Gone(r) == state[r] = "absent"
Waits(r) == state[r] = "transcribing" /\ ~Owned(r)
ToAck(r) == \E c \in Collectors : r \in run[c].acks

OwnersClaimed ==
  \A d \in Deliveries : \A r \in Recordings :
    Owns(d, r) => Gone(r) \/ state[r] = "transcribing"
StaleUnowned == \A r \in stale : state[r] = "transcribing" => ~Owned(r)
QueuedAwaited == \A r \in Recordings : box[r].status = "queued" => Gone(r) \/ Waits(r)
ReadyAwaited ==
  \A r \in Recordings : box[r].status \in Ready /\ ~ToAck(r)
    => Gone(r) \/ Waits(r) \/ (state[r] = "done" /\ box[r].status = "done")
PageCurrent ==
  \A c \in Collectors : \A j \in run[c].page :
    /\ j.rec \notin run[c].acks
    /\ Gone(j.rec) \/ box[j.rec].status = j.status
    /\ \A k \in run[c].page : k.rec = j.rec => k = j
    /\ InPc(c, "write") /\ j.rec = run[c].cur => j.status = "done"
PersistingOnly ==
  \A c \in Collectors : run[c].pc \notin {"persist", "write"}
    => run[c].page = {} /\ run[c].acks = {}
SelectedStuck ==
  \A c \in Collectors : run[c].pc \in {"check", "requeue", "enqueue"} =>
    /\ \A r \in run[c].sel : Gone(r) \/ (state[r] = "transcribing" /\ r \in stale)
    /\ InPc(c, "requeue") =>
         run[c].cur \in run[c].sel /\ (Gone(run[c].cur) \/ box[run[c].cur] = NoJob)

\* The inductive invariant behind DoneIsFinal and ClaimExclusive: who may still
\* change a row, and why every job on the box and in a page is awaited by its row.
SweepInv ==
  /\ ClaimExclusive /\ OwnersClaimed /\ StaleUnowned /\ QueuedAwaited /\ ReadyAwaited
  /\ PageCurrent /\ PersistingOnly /\ SelectedStuck

\* Every uploaded recording is decided in the end: it gets its transcript or its
\* failure, whichever requests and calls fail on the way.
EventuallyDecided ==
  \A r \in Recordings :
    (audio[r] # 0 /\ state[r] \in {"pending", "transcribing"})
      ~> (state[r] \in {"done", "failed", "absent"} \/ description[r] = "deleted")

\* The pipeline implements the life of a recording its models promise.
Lifecycle == INSTANCE RecordingLifecycle
LifecycleSpec == Lifecycle!Spec
=============================================================================
