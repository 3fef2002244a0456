---------------------- MODULE TranscriptionResults_proofs ----------------------
(***************************************************************************)
(* What becomes of audio and results on their way over the box, for every  *)
(* number of recordings, deliveries, uploads and failures.                 *)
(***************************************************************************)
EXTENDS TranscriptionSafety_proofs

-----------------------------------------------------------------------------
(* Persist, then acknowledge: any number of sweeps, any failure but a failed job *)

JobsDone ==
  /\ \A r \in Recordings : box[r].status \in {"none", "queued", "done"}
  /\ \A c \in Collectors : \A j \in run[c].page : j.status = "done"
GoneDeleted == \A r \in Recordings : Gone(r) => description[r] = "deleted"
AckedHasText == \A c \in Collectors : \A r \in run[c].acks : description[r] # "null"

\* What a sweep may acknowledge has been read by its event, or has no event.
AckInv == GoneDeleted /\ AckedHasText

\* A step of a worker request leaves the events and the sweeps alone.
LEMMA WorkerTouches ==
  ASSUME TypeOK, NEW d \in Deliveries, Worker(d) \/ WorkerFault(d)
  PROVE  /\ UNCHANGED <<description, run>>
         /\ \A r \in Recordings : Gone(r)' => Gone(r)
         /\ \A r \in Recordings : box'[r].status \in {box[r].status, "none", "queued"}
<1> USE DEF rows, world
<1>1. UNCHANGED <<description, run>>
  BY DEF Worker, WorkerFault, Claim, ClaimLost, CheckEvent, Download, Submit, SubmitConflict,
         Discard, RevertPending, MarkFailed, DownloadUnconfigured, DownloadRaises,
         SubmitNoAnswer, SubmitRefused, SubmitRejected, DiscardRefused, WorkerDies
<1>2. \A r \in Recordings : Gone(r)' => Gone(r)
  BY DEF TypeOK, Gone, Write, Worker, WorkerFault, Claim, ClaimLost, CheckEvent, Download, Submit,
         SubmitConflict, Discard, RevertPending, MarkFailed, DownloadUnconfigured,
         DownloadRaises, SubmitNoAnswer, SubmitRefused, SubmitRejected, DiscardRefused, WorkerDies
<1>3. \A r \in Recordings : box'[r].status \in {box[r].status, "none", "queued"}
  <2>1. CASE Takes(task[d].rec, task[d].audio)
    BY <2>1 DEF TypeOK, Takes
  <2>2. CASE Discard(d)
    BY <2>2 DEF TypeOK, Discard, NoJob
  <2>3. CASE UNCHANGED box
    BY <2>3
  <2>4. QED
    BY <2>1, <2>2, <2>3
    DEF Worker, WorkerFault, Claim, ClaimLost, CheckEvent, Download, Submit, SubmitConflict,
        RevertPending, MarkFailed, DownloadUnconfigured, DownloadRaises,
        SubmitNoAnswer, SubmitRefused, SubmitRejected, DiscardRefused, WorkerDies
<1>4. QED
  BY <1>1, <1>2, <1>3

\* Deciding a job of the page shortens the page and may add the job to the acks.
LEMMA DecidedMoves ==
  ASSUME TypeOK, NEW c \in Collectors, NEW j \in run[c].page, NEW ok, Decided(c, j, ok)
  PROVE  /\ \A e \in Collectors : run'[e].page \subseteq run[e].page
         /\ \A e \in Collectors : run'[e].acks \subseteq run[e].acks \cup {j.rec}
         /\ ~ok => \A e \in Collectors : run'[e].acks = run[e].acks
<1>1. /\ run'[c].page = run[c].page \ {j}
      /\ run'[c].acks = IF ok THEN run[c].acks \cup {j.rec} ELSE run[c].acks
  BY DEF Decided, Step, TypeOK, Run
<1>2. \A e \in Collectors \ {c} : run'[e] = run[e]
  BY DEF Decided, Step, TypeOK
<1>3. QED
  BY <1>1, <1>2

\* Every other step of a sweep acknowledges nothing new; a drain reads the box.
LEMMA OthersMove ==
  ASSUME TypeOK, NEW c \in Collectors,
         \/ Wake(c) \/ Drain(c) \/ PersistSelect(c) \/ Ack(c) \/ Stalled(c) \/ Recover(c)
         \/ BoxFails(c) \/ CheckFails(c) \/ SweepDies(c)
  PROVE  /\ \A e \in Collectors : run'[e].acks \subseteq run[e].acks
         /\ \A e \in Collectors : \A j \in run'[e].page :
              \/ j \in run[e].page
              \/ \E r \in Finished : j.status = box[r].status
<1> USE DEF rows, world
<1>0. run \in [Collectors -> Run] /\ run[c] \in Run
  BY DEF TypeOK
<1>1. \A e \in Collectors \ {c} : run'[e] = run[e]
  BY DEF TypeOK, Step, Wake, Drain, PersistSelect, Ack, Stalled, Recover, SelectStuck, CheckJob,
         Requeue, RequeueTask, SelectPending, Redrive, Swept, BoxFails, CheckFails, SweepDies
<1>2. IdleRun.page = {} /\ IdleRun.acks = {}
  BY DEF IdleRun
<1>3. CASE Drain(c)
  <2>1. PICK ids \in SUBSET Finished :
          Step(c, IF ids = {}
                    THEN [IdleRun EXCEPT !.pc = "stuck"]
                    ELSE [IdleRun EXCEPT !.pc = "persist", !.pages = run[c].pages + 1,
                                         !.page = Page(ids), !.more = HasMore(ids)])
    BY <1>3 DEF Drain, Limited
  <2>2. run'[c].acks = {} /\ run'[c].page \subseteq Page(ids)
    BY <2>1 DEF Step, TypeOK, IdleRun
  <2>3. \A j \in Page(ids) : \E r \in Finished : j.status = box[r].status
    BY DEF Page
  <2>4. QED
    BY <1>1, <2>2, <2>3
<1>4. CASE PersistSelect(c) \/ RequeueTask(c) \/ Requeue(c)
  <2>1. PICK r : \/ Step(c, [run[c] EXCEPT !.pc = "write", !.cur = r])
                 \/ Step(c, [run[c] EXCEPT !.pc = "check", !.cur = r])
                 \/ Step(c, [run[c] EXCEPT !.pc = "enqueue", !.sel = @ \ {r}])
    BY <1>4 DEF PersistSelect, RequeueTask, Requeue
  <2>2. run'[c].page = run[c].page /\ run'[c].acks = run[c].acks
    BY <1>0, <2>1 DEF Step, Run
  <2>3. QED
    BY <1>1, <2>2
<1>5. CASE CheckJob(c) \/ CheckFails(c) \/ Redrive(c)
  <2>1. \E r : \/ Step(c, [run[c] EXCEPT !.pc = "requeue", !.cur = r])
              \/ Step(c, [run[c] EXCEPT !.sel = @ \ {r}])
    <3>1. CASE CheckJob(c)
      BY <3>1 DEF CheckJob, Step
    <3>2. CASE CheckFails(c) \/ Redrive(c)
      BY <3>2 DEF CheckFails, Redrive
    <3>3. QED
      BY <1>5, <3>1, <3>2
  <2>2. run'[c].page = run[c].page /\ run'[c].acks = run[c].acks
    BY <1>0, <2>1 DEF Step, Run
  <2>3. QED
    BY <1>1, <2>2
<1>6. CASE Ack(c)
  <2>1. run'[c].page = run[c].page /\ run'[c].acks = {}
    BY <1>6 DEF Ack, Step, TypeOK, Run
  <2>2. QED
    BY <1>1, <2>1
<1>7. CASE \/ Wake(c) \/ Stalled(c) \/ SelectStuck(c) \/ SelectPending(c) \/ Swept(c)
           \/ BoxFails(c) \/ SweepDies(c)
  <2>1. run'[c].page = {} /\ run'[c].acks = {}
    BY <1>7, <1>2
    DEF Wake, Stalled, SelectStuck, SelectPending, Swept, BoxFails, SweepDies, Step, TypeOK, IdleRun
  <2>2. QED
    BY <1>1, <2>1
<1>8. QED
  BY <1>3, <1>4, <1>5, <1>6, <1>7 DEF Recover

LEMMA SweepTouches ==
  ASSUME TypeOK, NEW c \in Collectors, Wake(c) \/ Collect(c) \/ Recover(c) \/ SweepFault(c)
  PROVE  /\ \A r \in Recordings : Gone(r)' => Gone(r) /\ description'[r] = description[r]
         /\ \A r \in Recordings : description[r] # "null" => description'[r] # "null"
         /\ \A r \in Recordings : box'[r].status \in {box[r].status, "none"}
<1> USE DEF rows, world
<1>1. \A r \in Recordings : Gone(r)' => Gone(r)
  BY DEF TypeOK, Gone, Write, Collect, Recover, SweepFault, Wake, Drain, PersistUnknown,
         PersistFailure, PersistNoEvent, PersistSelect, PersistWrite, PersistSkip,
         PersistRollback, Ack, Stalled, SelectStuck, CheckJob, Requeue, RequeueTask,
         SelectPending, Redrive, Swept, PersistRaises, BoxFails, CheckFails, SweepDies
<1>2. \A r \in Recordings : \/ description'[r] = description[r]
                            \/ description'[r] = "transcript" /\ ~Gone(r)
  <2>1. CASE PersistWrite(c)
    BY <2>1 DEF PersistWrite, TypeOK, Skips, Gone
  <2>2. CASE ~PersistWrite(c)
    BY <2>2
    DEF TypeOK, Collect, Recover, SweepFault, Wake, Drain, PersistUnknown,
        PersistFailure, PersistNoEvent, PersistSelect, PersistSkip,
        PersistRollback, Ack, Stalled, SelectStuck, CheckJob, Requeue, RequeueTask,
        SelectPending, Redrive, Swept, PersistRaises, BoxFails, CheckFails, SweepDies
  <2>3. QED
    BY <2>1, <2>2
<1>3. \A r \in Recordings : box'[r].status \in {box[r].status, "none"}
  <2>1. CASE UNCHANGED box
    BY <2>1
  <2>2. ASSUME NEW ids, box' = Acked(ids)
        PROVE  \A r \in Recordings : box'[r].status \in {box[r].status, "none"}
    BY <2>2 DEF Acked, NoJob
  <2>3. UNCHANGED box \/ \E ids : box' = Acked(ids)
    BY DEF Collect, Recover, SweepFault, Wake, Drain, PersistUnknown,
           PersistFailure, PersistNoEvent, PersistSelect, PersistWrite, PersistSkip,
           PersistRollback, Ack, Stalled, SelectStuck, CheckJob, Requeue, RequeueTask,
           SelectPending, Redrive, Swept, PersistRaises, BoxFails, CheckFails, SweepDies
  <2>4. QED
    BY <2>1, <2>2, <2>3
<1>4. QED
  BY <1>1, <1>2, <1>3
\* No job fails on the box unless the environment makes one fail.
LEMMA JobsStayDone ==
  ASSUME "job_failed" \notin Faults, TypeOK, JobsDone, [Next]_vars
  PROVE  JobsDone'
<1>1. CASE UNCHANGED vars
  BY <1>1 DEF vars, JobsDone
<1>2. ASSUME NEW d \in Deliveries, Worker(d) \/ WorkerFault(d)
      PROVE  JobsDone'
  BY <1>2, WorkerTouches DEF JobsDone
<1>3. ASSUME NEW c \in Collectors, Wake(c) \/ Collect(c) \/ Recover(c) \/ SweepFault(c)
      PROVE  JobsDone'
  <2>1. \A r \in Recordings : box'[r].status \in {"none", "queued", "done"}
    BY <1>3, SweepTouches DEF JobsDone
  <2>2. \A r \in Finished : box[r].status = "done"
    BY DEF Finished, JobsDone, Ready
  <2>3. \A e \in Collectors : \A j \in run'[e].page : j \in run[e].page \/ j.status = "done"
    <3>1. CASE \/ PersistUnknown(c) \/ PersistFailure(c) \/ PersistNoEvent(c) \/ PersistWrite(c)
               \/ PersistSkip(c) \/ PersistRollback(c) \/ PersistRaises(c)
      <4>1. \E j \in run[c].page, ok \in BOOLEAN : Decided(c, j, ok)
        BY <3>1
        DEF PersistUnknown, PersistFailure, PersistNoEvent, PersistWrite, PersistSkip,
            PersistRollback, PersistRaises
      <4>2. QED
        BY <4>1, DecidedMoves
    <3>2. QED
      BY <1>3, <2>2, <3>1, OthersMove DEF Collect, SweepFault
  <2>4. QED
    BY <2>1, <2>3 DEF JobsDone
<1>4. ASSUME NEW r \in Recordings, Environment(r)
      PROVE  JobsDone'
  <2>1. run' = run
    BY <1>4
    DEF Environment, Upload, Uploaded, UploadedOrphan, BoxFinishes, BoxForgets, Age, EditEvent,
        DeleteEvent, DeleteAccount
  <2>2. \A q \in Recordings : box'[q].status \in {"none", "queued", "done"}
    <3>1. CASE BoxFinishes(r)
      <4>1. box' = [box EXCEPT ![r].status = "done"]
        BY <3>1 DEF BoxFinishes, Fault
      <4>2. QED
        BY <4>1 DEF JobsDone, TypeOK, Job
    <3>2. CASE ~BoxFinishes(r)
      BY <1>4, <3>2
      DEF JobsDone, TypeOK, NoJob, Environment, Upload, Uploaded, UploadedOrphan, BoxForgets, Age,
          EditEvent, DeleteEvent, DeleteAccount
    <3>3. QED
      BY <3>1, <3>2
  <2>3. QED
    BY <2>1, <2>2 DEF JobsDone
<1>5. QED
  BY <1>1, <1>2, <1>3, <1>4 DEF Next

\* What a sweep adds to its acks has its text, or has no event to take one.
LEMMA AckOnlyRead ==
  ASSUME TypeOK, DoneHasText, JobsDone, GoneDeleted, NEW c \in Collectors,
         Wake(c) \/ Collect(c) \/ Recover(c) \/ SweepFault(c),
         NEW e \in Collectors, NEW r \in run'[e].acks
  PROVE  r \in run[e].acks \/ (r \in Recordings /\ description'[r] # "null")
<1> USE DEF rows, world
<1>1. \A j \in run[c].page : j.rec \in Recordings
  BY DEF TypeOK, Run, PageJob
<1>2. \A q \in Recordings : state[q] \in {"done", "absent"} => description[q] # "null"
  BY DEF DoneHasText, GoneDeleted, Gone
<1>3. CASE PersistFailure(c)
  BY <1>3 DEF PersistFailure, JobsDone
<1>4. CASE PersistUnknown(c) \/ PersistNoEvent(c) \/ PersistSkip(c)
  <2>1. PICK j \in run[c].page : /\ Decided(c, j, TRUE) /\ description[j.rec] # "null"
    BY <1>1, <1>2, <1>4 DEF PersistUnknown, PersistNoEvent, PersistSkip, Skips
  <2>2. description' = description
    BY <1>4 DEF PersistUnknown, PersistNoEvent, PersistSkip
  <2>3. QED
    BY <1>1, <2>1, <2>2, DecidedMoves
<1>5. CASE PersistWrite(c)
  <2>1. PICK j \in run[c].page : /\ description' = [description EXCEPT ![j.rec] = "transcript"]
                                 /\ Decided(c, j, TRUE) \/ Decided(c, j, FALSE)
    BY <1>5 DEF PersistWrite
  <2>2. description'[j.rec] # "null"
    BY <1>1, <2>1 DEF TypeOK
  <2>3. QED
    BY <1>1, <2>1, <2>2, DecidedMoves
<1>6. CASE PersistRollback(c) \/ PersistRaises(c)
  <2>1. PICK j \in run[c].page : Decided(c, j, FALSE)
    BY <1>6 DEF PersistRollback, PersistRaises
  <2>2. QED
    BY <2>1, DecidedMoves
<1>7. QED
  BY <1>3, <1>4, <1>5, <1>6, OthersMove DEF Collect, SweepFault

LEMMA AckInvInductive ==
  ASSUME TypeOK, DoneHasText, JobsDone, AckInv, [Next]_vars
  PROVE  AckInv'
<1>1. CASE UNCHANGED vars
  BY <1>1 DEF vars, AckInv, GoneDeleted, AckedHasText, Gone
<1>2. ASSUME NEW d \in Deliveries, Worker(d) \/ WorkerFault(d)
      PROVE  AckInv'
  BY <1>2, WorkerTouches DEF AckInv, GoneDeleted, AckedHasText
<1>3. ASSUME NEW c \in Collectors, Wake(c) \/ Collect(c) \/ Recover(c) \/ SweepFault(c)
      PROVE  AckInv'
  <2>1. GoneDeleted'
    BY <1>3, SweepTouches DEF AckInv, GoneDeleted
  <2>2. AckedHasText'
    <3>1. \A e \in Collectors : run[e].acks \subseteq Recordings
      BY DEF TypeOK, Run
    <3>2. QED
      BY <1>3, <3>1, AckOnlyRead, SweepTouches DEF AckInv, AckedHasText
  <2>3. QED
    BY <2>1, <2>2 DEF AckInv
<1>4. ASSUME NEW r \in Recordings, Environment(r)
      PROVE  AckInv'
  <2>1. run' = run /\ \A e \in Collectors : run[e].acks \subseteq Recordings
    BY <1>4
    DEF TypeOK, Run, Environment, Upload, Uploaded, UploadedOrphan, BoxFinishes, BoxForgets, Age,
        EditEvent, DeleteEvent, DeleteAccount
  <2>2. /\ \A q \in Recordings : Gone(q)' => Gone(q) \/ description'[q] = "deleted"
        /\ \A q \in Recordings : description[q] # "null" => description'[q] # "null"
        /\ \A q \in Recordings : description[q] = "deleted" => description'[q] = "deleted"
    BY <1>4
    DEF TypeOK, Gone, rows, Environment, Upload, Uploaded, UploadedOrphan, BoxFinishes, BoxForgets,
        Age, EditEvent, DeleteEvent, DeleteAccount
  <2>3. QED
    BY <2>1, <2>2 DEF AckInv, GoneDeleted, AckedHasText
<1>5. QED
  BY <1>1, <1>2, <1>3, <1>4 DEF Next

\* Persist, then acknowledge: unless a job fails on the box, an ack never deletes
\* a finished transcript that the recording and its event are still waiting for,
\* however many sweeps run and whichever requests and calls die.
THEOREM TranscriptPersisted ==
  ASSUME "job_failed" \notin Faults
  PROVE  Spec => PersistThenAck
<1>1. Init => JobsDone /\ AckInv
  BY DEF Init, JobsDone, AckInv, GoneDeleted, AckedHasText, Gone, NoJob, IdleRun
<1>2. TypeOK /\ JobsDone /\ [Next]_vars => JobsDone'
  BY JobsStayDone
<1>3. TypeOK /\ DoneHasText /\ JobsDone /\ AckInv /\ [Next]_vars => AckInv'
  BY AckInvInductive
<1>4. ASSUME TypeOK, AckInv, NEW c \in Collectors, Ack(c), NEW r \in Recordings,
             box[r].status = "done", box'[r] = NoJob
      PROVE  description[r] # "null"
  <2>1. r \in run[c].acks
    BY <1>4 DEF Ack, Acked, NoJob
  <2>2. QED
    BY <1>4, <2>1 DEF AckInv, AckedHasText
<1>5. TypeOK /\ AckInv =>
        \A c \in Collectors : Ack(c) =>
          \A r \in Recordings : box[r].status = "done" /\ box'[r] = NoJob
            => state[r] = "done" \/ description[r] # "null"
  BY <1>4
<1>6. QED
  BY <1>1, <1>2, <1>3, <1>5, TypeCorrect, TextOfDone, PTL DEF Spec, PersistThenAck
-----------------------------------------------------------------------------
(* The new audio wins *)

Holding == {"loaded", "conflict", "discarded"}

\* The box never holds audio newer than the bucket's, and a deleted recording's
\* audio is gone from the bucket.
BoxBehind ==
  \A r \in Recordings : IF Gone(r) THEN audio[r] = 0 ELSE box[r].audio <= audio[r]

\* The bytes a worker request is holding are no older than the box's.
HeldIsNewest ==
  \A d \in Deliveries : \A r \in Recordings : Owns(d, r) /\ task[d].pc \in Holding =>
    /\ box[r].audio <= task[d].audio
    /\ Gone(r) \/ task[d].audio <= audio[r]

AudioInv == BoxBehind /\ HeldIsNewest

\* No job's audio moves but to nothing.
JobsShrink == \A r \in Recordings : box'[r].audio \in {box[r].audio, 0}

LEMMA AudioNumbers ==
  ASSUME TypeOK
  PROVE  /\ \A r \in Recordings : audio[r] \in Nat /\ box[r].audio \in Nat
         /\ \A d \in Deliveries : task[d].audio \in Nat
<1>1. Audio \subseteq Nat
  BY BoundsAssumption DEF Audio
<1>2. IdleTask.audio = 0
  BY DEF IdleTask
<1>3. ASSUME NEW d \in Deliveries
      PROVE  task[d].audio \in Nat
  <2>1. \A t \in Task \ {IdleTask} : t.audio \in Audio
    BY DEF Task
  <2>2. task[d] \in Task
    BY DEF TypeOK
  <2>3. CASE task[d] = IdleTask
    BY <1>2, <2>3
  <2>4. CASE task[d] # IdleTask
    BY <1>1, <2>1, <2>2, <2>4
  <2>5. QED
    BY <2>3, <2>4
<1>4. QED
  BY <1>1, <1>3 DEF TypeOK, Job

\* Steps that hand the box nothing and pick nothing up from the bucket.
LEMMA AudioKeeps ==
  ASSUME TypeOK, AudioInv, JobsShrink,
         \A r \in Recordings : Gone(r)' <=> Gone(r),
         \A r \in Recordings : audio[r] <= audio'[r] /\ audio'[r] \in Nat,
         \A r \in Recordings : Gone(r) => audio'[r] = 0,
         \A d \in Deliveries : \A r \in Recordings :
           Owns(d, r)' /\ task'[d].pc \in Holding =>
             Owns(d, r) /\ task[d].pc \in Holding /\ task'[d].audio = task[d].audio
  PROVE  AudioInv'
<1>1. /\ \A r \in Recordings : audio[r] \in Nat /\ box[r].audio \in Nat /\ box'[r].audio \in Nat
      /\ \A d \in Deliveries : task[d].audio \in Nat
  BY AudioNumbers DEF JobsShrink
<1>2. BoxBehind'
  <2> SUFFICES ASSUME NEW r \in Recordings
               PROVE  IF Gone(r)' THEN audio'[r] = 0 ELSE box'[r].audio <= audio'[r]
    BY DEF BoxBehind
  <2>1. CASE Gone(r)
    BY <2>1
  <2>2. CASE ~Gone(r)
    <3>1. box[r].audio <= audio[r] /\ box'[r].audio \in {box[r].audio, 0}
      BY <2>2 DEF AudioInv, BoxBehind, JobsShrink
    <3>2. QED
      BY <1>1, <2>2, <3>1
  <2>3. QED
    BY <2>1, <2>2
<1>3. HeldIsNewest'
  <2> SUFFICES ASSUME NEW d \in Deliveries, NEW r \in Recordings,
                      Owns(d, r)', task'[d].pc \in Holding
               PROVE  /\ box'[r].audio <= task'[d].audio
                      /\ Gone(r)' \/ task'[d].audio <= audio'[r]
    BY DEF HeldIsNewest
  <2>1. /\ box[r].audio <= task[d].audio /\ task'[d].audio = task[d].audio
        /\ Gone(r) \/ task[d].audio <= audio[r]
    BY DEF AudioInv, HeldIsNewest
  <2>2. box'[r].audio \in {box[r].audio, 0}
    BY DEF JobsShrink
  <2>3. QED
    BY <1>1, <2>1, <2>2
<1>4. QED
  BY <1>2, <1>3 DEF AudioInv

\* A worker request that moves on holds what it held.
LEMMA HoldersAfter ==
  ASSUME TypeOK, OneSweep, NEW d \in Deliveries, Worker(d) \/ WorkerFault(d), ~Download(d),
         NEW e \in Deliveries, NEW r \in Recordings, Owns(e, r)', task'[e].pc \in Holding
  PROVE  Owns(e, r) /\ task[e].pc \in Holding /\ task'[e].audio = task[e].audio
<1> USE DEF At, Submitting
<1>1. CASE e # d
  BY <1>1, WorkerFootprint DEF Owns
<1>2. CASE e = d
  <2>0. task[d].pc # "free"
    BY DEF Worker, WorkerFault, Claim, ClaimLost, CheckEvent, Download, Submit, SubmitConflict,
           Discard, RevertPending, MarkFailed, DownloadUnconfigured, DownloadRaises,
           SubmitNoAnswer, SubmitRefused, SubmitRejected, DiscardRefused, WorkerDies, Working
  <2>1. task[d] \in [pc : Working \cup {"queued"}, rec : Recordings,
                     audio : Audio, attempt : 1..MaxAttempts]
    BY <2>0 DEF TypeOK, Task, IdleTask
  <2>2. Finish(d) \/ Again(d) => ~Stays(d)
    BY <2>0, TaskMoves
  <2>3. \A pc : Go(d, pc) => /\ task'[d].pc = pc
                             /\ task'[d].audio = task[d].audio /\ task'[d].rec = task[d].rec
    BY <2>1 DEF Go, TypeOK
  <2>4. PICK pc : Go(d, pc) /\ (pc \in Holding => task[d].pc \in Holding)
    <3>1. Stays(d)
      BY <1>2 DEF Stays, Owns
    <3>2. QED
      BY <2>2, <3>1
      DEF Worker, WorkerFault, Claim, ClaimLost, CheckEvent, Submit, SubmitConflict,
          Discard, RevertPending, MarkFailed, DownloadUnconfigured, DownloadRaises,
          SubmitNoAnswer, SubmitRefused, SubmitRejected, DiscardRefused, WorkerDies, Holding
  <2>5. /\ task'[d].pc = pc /\ task'[d].audio = task[d].audio /\ task'[d].rec = task[d].rec
    BY <2>3, <2>4
  <2>6. task[d].pc \in Holding /\ Holding \subseteq Working
    BY <1>2, <2>4, <2>5 DEF Holding, Working
  <2>7. QED
    BY <1>2, <2>5, <2>6 DEF Owns
<1>3. QED
  BY <1>1, <1>2

LEMMA WorkerAudio ==
  ASSUME TypeOK, OneSweep, SweepInv, AudioInv, NEW d \in Deliveries, Worker(d) \/ WorkerFault(d)
  PROVE  AudioInv'
<1> USE DEF rows, world
<1>1. /\ audio' = audio
      /\ \A r \in Recordings : Gone(r)' <=> Gone(r)
  <2>1. \A r, s : Write(r, s) /\ s # "absent" => \A q \in Recordings : Gone(q)' <=> Gone(q)
    BY DEF Write, Gone, TypeOK
  <2>2. UNCHANGED state \/ \E r, s : Write(r, s) /\ s # "absent"
    BY DEF Worker, WorkerFault, Claim, ClaimLost, CheckEvent, Download, Submit, SubmitConflict,
           Discard, RevertPending, MarkFailed, DownloadUnconfigured, DownloadRaises,
           SubmitNoAnswer, SubmitRefused, SubmitRejected, DiscardRefused, WorkerDies
  <2>3. audio' = audio
    BY DEF Worker, WorkerFault, Claim, ClaimLost, CheckEvent, Download, Submit, SubmitConflict,
           Discard, RevertPending, MarkFailed, DownloadUnconfigured, DownloadRaises,
           SubmitNoAnswer, SubmitRefused, SubmitRejected, DiscardRefused, WorkerDies
  <2>4. QED
    BY <2>1, <2>2, <2>3 DEF Gone
<1>2. PICK r \in Recordings : r = task[d].rec
  BY WorkerFootprint
<1>3. CASE Download(d)
  <2>1. box' = box /\ state' = state /\ task[d].pc = "checked"
    BY <1>3 DEF Download, At
  <2>2. task[d] \in [pc : Working \cup {"queued"}, rec : Recordings,
                     audio : Audio, attempt : 1..MaxAttempts]
    BY <2>1 DEF TypeOK, Task, IdleTask
  <2>3. CASE audio[r] = 0
    <3>1. Go(d, "fail") /\ task'[d].pc = "fail"
      BY <1>2, <1>3, <2>2, <2>3 DEF Download, Go, TypeOK
    <3>2. \A e \in Deliveries \ {d} : task'[e] = task[e]
      BY WorkerFootprint
    <3>3. \A e \in Deliveries : \A q \in Recordings :
            Owns(e, q)' /\ task'[e].pc \in Holding =>
              Owns(e, q) /\ task[e].pc \in Holding /\ task'[e].audio = task[e].audio
      BY <3>1, <3>2 DEF Owns, Holding
    <3>4. QED
      BY <1>1, <2>1, <3>3, AudioKeeps, AudioNumbers DEF JobsShrink, AudioInv, BoxBehind
  <2>4. CASE audio[r] # 0
    <3>1. task'[d].audio = audio[r] /\ task'[d].rec = r
      BY <1>2, <1>3, <2>2, <2>4 DEF Download, TypeOK
    <3>2. \A e \in Deliveries \ {d} : task'[e] = task[e]
      BY WorkerFootprint
    <3>3. ~Gone(r) /\ box[r].audio <= audio[r]
      BY <2>4 DEF AudioInv, BoxBehind
    <3>4. HeldIsNewest'
      <4> SUFFICES ASSUME NEW e \in Deliveries, NEW q \in Recordings,
                          Owns(e, q)', task'[e].pc \in Holding
                   PROVE  box'[q].audio <= task'[e].audio /\ (Gone(q)' \/ task'[e].audio <= audio'[q])
        BY DEF HeldIsNewest
      <4>1. CASE e = d
        <5>1. q = r /\ audio[r] \in Nat
          BY <3>1, <4>1, AudioNumbers DEF Owns
        <5>2. QED
          BY <1>1, <2>1, <3>1, <3>3, <4>1, <5>1
      <4>2. CASE e # d
        BY <1>1, <2>1, <3>2, <4>2 DEF AudioInv, HeldIsNewest, Owns
      <4>3. QED
        BY <4>1, <4>2
    <3>5. BoxBehind'
      BY <1>1, <2>1 DEF AudioInv, BoxBehind
    <3>6. QED
      BY <3>4, <3>5 DEF AudioInv
  <2>5. QED
    BY <2>3, <2>4
<1>4. CASE ~Download(d) /\ JobsShrink
  BY <1>1, <1>4, HoldersAfter, AudioKeeps, AudioNumbers DEF AudioInv, BoxBehind
<1>5. CASE ~JobsShrink
  <2>1. Submit(d) /\ box' = [box EXCEPT ![r] = [status |-> "queued", audio |-> task[d].audio]]
    <3>1. Submit(d) \/ SubmitNoAnswer(d) \/ Discard(d) \/ UNCHANGED box
      BY DEF Worker, WorkerFault, Claim, ClaimLost, CheckEvent, Download, SubmitConflict,
             RevertPending, MarkFailed, DownloadUnconfigured, DownloadRaises,
             SubmitRefused, SubmitRejected, DiscardRefused, WorkerDies
    <3>2. ~SubmitNoAnswer(d)
      BY DEF OneSweep, SubmitNoAnswer, Fault
    <3>3. box' # box
      BY <1>5 DEF JobsShrink
    <3>4. ~Discard(d)
      BY <1>5 DEF Discard, JobsShrink, TypeOK, NoJob
    <3>5. QED
      BY <1>2, <3>1, <3>2, <3>3, <3>4 DEF Submit, Takes
  <2>2. /\ box'[r].audio = task[d].audio
        /\ \A q \in Recordings \ {r} : box'[q] = box[q]
    BY <2>1 DEF TypeOK
  <2>3. Owns(d, r) /\ task[d].pc \in Holding /\ ~Stays(d)
    <3>1. task[d].pc \in Holding /\ Holding \subseteq Working /\ Finish(d) /\ task[d].pc # "free"
      BY <2>1 DEF Submit, Submitting, Holding, Working
    <3>2. QED
      BY <1>2, <3>1, TaskMoves DEF Owns
  <2>4. \A e \in Deliveries : ~Owns(e, r)'
    <3> SUFFICES ASSUME NEW e \in Deliveries, Owns(e, r)', task'[e].pc \in Working
                 PROVE  FALSE
      BY DEF Owns
    <3>1. CASE e = d
      BY <2>3, <3>1 DEF Stays
    <3>2. CASE e # d
      <4>1. Owns(e, r)
        BY <3>2, WorkerFootprint DEF Owns
      <4>2. QED
        BY <2>3, <3>2, <4>1 DEF SweepInv, ClaimExclusive
    <3>3. QED
      BY <3>1, <3>2
  <2>5. BoxBehind'
    <3>1. Gone(r) \/ task[d].audio <= audio[r]
      BY <2>3 DEF AudioInv, HeldIsNewest
    <3>2. QED
      BY <1>1, <2>2, <3>1 DEF AudioInv, BoxBehind
  <2>6. HeldIsNewest'
    <3> SUFFICES ASSUME NEW e \in Deliveries, NEW q \in Recordings \ {r},
                        Owns(e, q)', task'[e].pc \in Holding
                 PROVE  box'[q].audio <= task'[e].audio /\ (Gone(q)' \/ task'[e].audio <= audio'[q])
      BY <2>4 DEF HeldIsNewest
    <3>1. ~Download(d)
      BY <2>3 DEF Download, At, Holding
    <3>2. Owns(e, q) /\ task[e].pc \in Holding /\ task'[e].audio = task[e].audio
      BY <3>1, HoldersAfter
    <3>3. QED
      BY <1>1, <2>2, <3>2 DEF AudioInv, HeldIsNewest
  <2>7. QED
    BY <2>5, <2>6 DEF AudioInv
<1>6. QED
  BY <1>3, <1>4, <1>5
\* A task that is queued holds nothing.
LEMMA EnqueueHolds ==
  ASSUME TypeOK, NEW r, Enqueue(r) \/ UNCHANGED task,
         NEW e \in Deliveries, NEW q, Owns(e, q)'
  PROVE  Owns(e, q) /\ task'[e] = task[e]
<1>1. Queued(r).pc \notin Working
  BY DEF Queued, Working
<1>2. CASE UNCHANGED task
  BY <1>2 DEF Owns
<1>3. CASE Enqueue(r)
  <2>1. PICK d \in Deliveries : task' = [task EXCEPT ![d] = Queued(r)]
    BY <1>3 DEF Enqueue
  <2>2. e # d /\ task'[e] = task[e]
    BY <1>1, <2>1 DEF Owns, TypeOK
  <2>3. QED
    BY <2>2 DEF Owns
<1>4. QED
  BY <1>2, <1>3

LEMMA SweepAudio ==
  ASSUME TypeOK, AudioInv, NEW c \in Collectors,
         Wake(c) \/ Collect(c) \/ Recover(c) \/ SweepFault(c)
  PROVE  AudioInv'
<1> USE DEF rows, world
<1>1. audio' = audio /\ \E r : Enqueue(r) \/ UNCHANGED task
  BY DEF TryEnqueue, Collect, Recover, SweepFault, Wake, Drain, PersistUnknown,
         PersistFailure, PersistNoEvent, PersistSelect, PersistWrite, PersistSkip,
         PersistRollback, Ack, Stalled, SelectStuck, CheckJob, Requeue, RequeueTask,
         SelectPending, Redrive, Swept, PersistRaises, BoxFails, CheckFails, SweepDies
<1>2. \A r \in Recordings : Gone(r)' <=> Gone(r)
  BY DEF TypeOK, Gone, Write, Collect, Recover, SweepFault, Wake, Drain, PersistUnknown,
         PersistFailure, PersistNoEvent, PersistSelect, PersistWrite, PersistSkip,
         PersistRollback, Ack, Stalled, SelectStuck, CheckJob, Requeue, RequeueTask,
         SelectPending, Redrive, Swept, PersistRaises, BoxFails, CheckFails, SweepDies
<1>3. JobsShrink
  <2>1. UNCHANGED box \/ \E ids : box' = Acked(ids)
    BY DEF Collect, Recover, SweepFault, Wake, Drain, PersistUnknown,
           PersistFailure, PersistNoEvent, PersistSelect, PersistWrite, PersistSkip,
           PersistRollback, Ack, Stalled, SelectStuck, CheckJob, Requeue, RequeueTask,
           SelectPending, Redrive, Swept, PersistRaises, BoxFails, CheckFails, SweepDies
  <2>2. QED
    BY <2>1 DEF JobsShrink, Acked, NoJob
<1>4. QED
  BY <1>1, <1>2, <1>3, EnqueueHolds, AudioKeeps, AudioNumbers DEF AudioInv, BoxBehind

LEMMA EnvironmentAudio ==
  ASSUME TypeOK, AudioInv, NEW r \in Recordings, Environment(r)
  PROVE  AudioInv'
<1> USE DEF rows, world
<1>1. CASE \/ Upload(r) \/ Uploaded(r) \/ UploadedOrphan(r) \/ BoxFinishes(r) \/ BoxForgets(r)
           \/ Age(r) \/ EditEvent(r) \/ DeleteEvent(r)
  <2>1. state' = state
    BY <1>1
    DEF Upload, Uploaded, UploadedOrphan, BoxFinishes, BoxForgets, Age, EditEvent, DeleteEvent
  <2>2. \E q : Enqueue(q) \/ UNCHANGED task
    BY <1>1
    DEF Upload, Uploaded, UploadedOrphan, BoxFinishes, BoxForgets, Age, EditEvent, DeleteEvent
  <2>3. \A q \in Recordings : /\ audio[q] <= audio'[q] /\ audio'[q] \in Nat
                              /\ Gone(q) => audio'[q] = 0
    <3>1. CASE Upload(r)
      BY <3>1, AudioNumbers DEF Upload, TypeOK, Gone, AudioInv, BoxBehind
    <3>2. CASE UploadedOrphan(r)
      BY <3>2, AudioNumbers DEF UploadedOrphan, TypeOK, Gone, AudioInv, BoxBehind
    <3>3. CASE audio' = audio
      BY <3>3, AudioNumbers DEF AudioInv, BoxBehind
    <3>4. QED
      BY <1>1, <3>1, <3>2, <3>3
      DEF Uploaded, BoxFinishes, BoxForgets, Age, EditEvent, DeleteEvent
  <2>4. JobsShrink
    <3>1. CASE BoxFinishes(r)
      <4>1. PICK s : box' = [box EXCEPT ![r].status = s]
        BY <3>1 DEF BoxFinishes
      <4>2. QED
        BY <4>1 DEF JobsShrink, TypeOK, Job
    <3>2. CASE BoxForgets(r)
      BY <3>2 DEF BoxForgets, JobsShrink, TypeOK, NoJob
    <3>3. CASE box' = box
      BY <3>3 DEF JobsShrink
    <3>4. QED
      BY <1>1, <3>1, <3>2, <3>3
      DEF Upload, Uploaded, UploadedOrphan, Age, EditEvent, DeleteEvent
  <2>5. QED
    BY <2>1, <2>2, <2>3, <2>4, EnqueueHolds, AudioKeeps DEF Gone
<1>2. CASE DeleteAccount(r)
  <2>1. /\ box' = box /\ Gone(r)' /\ audio'[r] = 0
        /\ \A q \in Recordings \ {r} : state'[q] = state[q] /\ audio'[q] = audio[q]
    BY <1>2 DEF DeleteAccount, TypeOK, Gone
  <2>2. BoxBehind'
    BY <2>1 DEF AudioInv, BoxBehind, Gone
  <2>3. \A d \in Deliveries : task'[d].pc \in Working => task'[d] = task[d]
    BY <1>2 DEF DeleteAccount, IdleTask, Working
  <2>4. HeldIsNewest'
    BY <2>1, <2>3 DEF AudioInv, HeldIsNewest, Owns, Gone
  <2>5. QED
    BY <2>2, <2>4 DEF AudioInv
<1>3. QED
  BY <1>1, <1>2 DEF Environment

\* "The new audio wins in every sub-case": with one sweep at a time and nothing
\* dying halfway, the job a 409 makes a worker discard is never of newer audio
\* than the worker is holding.
THEOREM NewAudioWinsOver ==
  ASSUME OneSweep
  PROVE  Spec => []NewAudioWins
<1>1. Init => AudioInv
  BY DEF Init, AudioInv, BoxBehind, HeldIsNewest, Owns, IdleTask, Working, NoJob
<1>2. TypeOK /\ SweepInv /\ AudioInv /\ [Next]_vars => AudioInv'
  <2> SUFFICES ASSUME TypeOK, SweepInv, AudioInv, [Next]_vars
               PROVE  AudioInv'
    OBVIOUS
  <2>1. CASE UNCHANGED vars
    BY <2>1 DEF vars, AudioInv, BoxBehind, HeldIsNewest, Owns, Gone
  <2>2. QED
    BY <2>1, WorkerAudio, SweepAudio, EnvironmentAudio DEF Next
<1>3. TypeOK /\ AudioInv => NewAudioWins
  <2> SUFFICES ASSUME TypeOK, AudioInv, NEW d \in Deliveries, At(d, "conflict")
               PROVE  box[task[d].rec].audio <= task[d].audio
    BY DEF NewAudioWins
  <2>1. task[d].rec \in Recordings /\ Owns(d, task[d].rec) /\ task[d].pc \in Holding
    BY TaskShape DEF At, Owns, Holding, Working
  <2>2. QED
    BY <2>1 DEF AudioInv, HeldIsNewest
<1>4. QED
  BY <1>1, <1>2, <1>3, SweepCorrect, TypeCorrect, PTL DEF Spec
-----------------------------------------------------------------------------
(* Nothing stranded *)

\* Downloads do not raise, the box forgets no job and fails none.
NothingLost == Faults \cap {"storage", "expiry", "job_failed"} = {}

\* A recording whose job may be acknowledged does not wait for that job: it is
\* done, or its event is gone and whoever claims it again will fail it.
Settled(r) ==
  \/ state[r] \in {"absent", "done"}
  \/ /\ description[r] = "deleted"
     /\ state[r] = "failed" \/ (state[r] = "transcribing" /\ Owned(r))
     /\ \A d \in Deliveries : Owns(d, r) => task[d].pc \in {"claimed", "fail"}
AckedSettled == \A r \in Recordings : ToAck(r) => Settled(r)

Strand(r) == state[r] = "transcribing" => Owned(r) \/ box[r] # NoJob

StrandInv == NothingStranded /\ AckedSettled

LEMMA StrandByRecording == NothingStranded <=> \A r \in Recordings : Strand(r)
BY DEF NothingStranded, Strand

\* A recording that nobody touches stays as settled, and as awaited, as it was.
LEMMA Untouched ==
  ASSUME StrandInv, NEW r \in Recordings, state'[r] = state[r],
         description[r] = "deleted" => description'[r] = "deleted",
         box[r] # NoJob => box'[r] # NoJob,
         \A d \in Deliveries : Owns(d, r)' <=> Owns(d, r),
         \A d \in Deliveries : Owns(d, r) => task'[d].pc = task[d].pc
  PROVE  Strand(r)' /\ (ToAck(r) => Settled(r)')
<1>1. Owned(r)' <=> Owned(r)
  BY DEF Owned
<1>2. Strand(r)'
  BY <1>1, StrandByRecording DEF StrandInv, Strand
<1>3. ASSUME ToAck(r)
      PROVE  Settled(r)'
  <2>1. Settled(r)
    BY <1>3 DEF StrandInv, AckedSettled
  <2>2. QED
    BY <1>1, <2>1 DEF Settled
<1>4. QED
  BY <1>2, <1>3

\* What a worker request does to its recording when no request dies halfway.
LEMMA WorkerOutcome ==
  ASSUME TypeOK, OneSweep, NothingLost, NEW d \in Deliveries, Worker(d) \/ WorkerFault(d),
         NEW r \in Recordings, r = task[d].rec
  PROVE  /\ \A q \in Recordings \ {r} : state'[q] = state[q] /\ box'[q] = box[q]
         /\ \/ Claim(d)
            \/ ClaimLost(d)
            \/ /\ task[d].pc \in Working \ {"fail"} /\ state' = state
               /\ Stays(d) \/ (task[d].pc \in Holding /\ ~Stays(d) /\ box'[r] # NoJob)
               /\ task[d].pc = "claimed" /\ description[r] = "deleted" => task'[d].pc = "fail"
            \/ task[d].pc = "revert" /\ ~Stays(d) /\ Write(r, "pending")
            \/ task[d].pc = "fail" /\ ~Stays(d) /\ Write(r, "failed")
<1> USE DEF rows, world, At
<1>0. task[d].pc # "free"
  BY DEF Worker, WorkerFault, Claim, ClaimLost, CheckEvent, Download, Submit, SubmitConflict,
         Discard, RevertPending, MarkFailed, DownloadUnconfigured, DownloadRaises,
         SubmitNoAnswer, SubmitRefused, SubmitRejected, DiscardRefused, WorkerDies, Working,
         Submitting
<1>1. /\ ~DownloadRaises(d) /\ ~SubmitNoAnswer(d) /\ ~WorkerDies(d)
      /\ \A k : Fault(k) => k # "no_answer"
  BY DEF OneSweep, NothingLost, Fault, DownloadRaises, SubmitNoAnswer, WorkerDies
<1>2. \A q \in Recordings \ {r} : state'[q] = state[q] /\ box'[q] = box[q]
  BY DEF TypeOK, Write, Takes, Worker, WorkerFault, Claim, ClaimLost, CheckEvent, Download, Submit,
         SubmitConflict, Discard, RevertPending, MarkFailed, DownloadUnconfigured, DownloadRaises,
         SubmitNoAnswer, SubmitRefused, SubmitRejected, DiscardRefused, WorkerDies
<1>3. task[d] \in [pc : Working \cup {"queued"}, rec : Recordings,
                   audio : Audio, attempt : 1..MaxAttempts]
  BY <1>0 DEF TypeOK, Task, IdleTask
<1>4. \A pc \in Working : Go(d, pc) => Stays(d) /\ task'[d].pc = pc
  BY <1>3 DEF Go, TypeOK, Stays
<1>5. Finish(d) \/ Again(d) => ~Stays(d)
  BY <1>0, TaskMoves
<1>6. CASE CheckEvent(d)
  <2>1. /\ task[d].pc = "claimed" /\ state' = state
        /\ Go(d, IF description[r] = "deleted" \/ r \in TooLong THEN "fail" ELSE "checked")
    BY <1>6 DEF CheckEvent
  <2>2. {"fail", "checked", "claimed"} \subseteq Working
    BY DEF Working
  <2>3. QED
    BY <1>2, <1>4, <2>1, <2>2
<1>7. CASE Download(d)
  <2>1. task[d].pc = "checked" /\ state' = state /\ Stays(d)
    BY <1>3, <1>4, <1>7 DEF Download, Stays, TypeOK, Working
  <2>2. QED
    BY <1>2, <2>1 DEF Working
<1>8. CASE Submit(d)
  <2>1. /\ task[d].pc \in Holding /\ task[d].pc \in Working \ {"fail", "claimed"}
        /\ state' = state /\ ~Stays(d)
    BY <1>5, <1>8 DEF Submit, Submitting, Holding, Working
  <2>2. box'[r] # NoJob
    BY <1>8 DEF Submit, Takes, NoJob, TypeOK
  <2>3. QED
    BY <1>2, <2>1, <2>2
<1>9. CASE \/ SubmitConflict(d) \/ DownloadUnconfigured(d) \/ SubmitRefused(d)
           \/ SubmitRejected(d) \/ DiscardRefused(d) \/ Discard(d)
  <2>1. /\ task[d].pc \in {"checked", "loaded", "discarded", "conflict"} /\ state' = state
        /\ \E pc \in {"revert", "conflict", "fail", "discarded"} : Go(d, pc)
    BY <1>9
    DEF SubmitConflict, DownloadUnconfigured, SubmitRefused, SubmitRejected, DiscardRefused, Discard,
        Submitting
  <2>2. QED
    BY <1>2, <1>4, <2>1 DEF Working
<1>10. CASE RevertPending(d) \/ MarkFailed(d)
  BY <1>2, <1>5, <1>10 DEF RevertPending, MarkFailed
<1>11. QED
  BY <1>1, <1>2, <1>6, <1>7, <1>8, <1>9, <1>10 DEF Worker, WorkerFault

LEMMA WorkerStrands ==
  ASSUME TypeOK, OneSweep, NothingLost, SweepInv, StrandInv,
         NEW d \in Deliveries, Worker(d) \/ WorkerFault(d)
  PROVE  StrandInv'
<1>1. PICK r \in Recordings : r = task[d].rec
  BY WorkerFootprint
<1>2. /\ \A e \in Deliveries \ {d} : task'[e] = task[e]
      /\ Stays(d) => task'[d].rec = r
      /\ UNCHANGED <<description, run>>
  BY <1>1, WorkerFootprint, WorkerTouches
<1>3. ASSUME NEW q \in Recordings \ {r}
      PROVE  Strand(q)' /\ (ToAck(q) => Settled(q)')
  <2>1. \A e \in Deliveries : /\ Owns(e, q)' <=> Owns(e, q)
                              /\ Owns(e, q) => task'[e].pc = task[e].pc
    BY <1>1, <1>2, <1>3 DEF Owns, Stays
  <2>2. state'[q] = state[q] /\ box'[q] = box[q]
    BY <1>1, <1>3, WorkerOutcome
  <2>3. QED
    BY <1>2, <2>1, <2>2, Untouched
<1>4. \A e \in Deliveries \ {d} : Owns(e, r)' <=> Owns(e, r)
  BY <1>2 DEF Owns
<1>5. Owns(d, r)' <=> Stays(d)
  BY <1>2 DEF Owns, Stays
<1>6. ToAck(r) => Settled(r)
  BY DEF StrandInv, AckedSettled
<1>7. Strand(r)' /\ (ToAck(r) => Settled(r)')
  <2>1. CASE Claim(d)
    <3>1. state'[r] = "transcribing" /\ task'[d].pc = "claimed" /\ state[r] \in {"pending", "failed"}
      <4>1. task[d] \in [pc : Working \cup {"queued"}, rec : Recordings,
                         audio : Audio, attempt : 1..MaxAttempts]
        BY <2>1 DEF Claim, At, TypeOK, Task, IdleTask
      <4>2. QED
        BY <1>1, <2>1, <4>1 DEF Claim, Go, Write, TypeOK
    <3>2. Owned(r)'
      BY <1>5, <3>1 DEF Owned, Stays, Working
    <3>3. ToAck(r) => Settled(r)'
      BY <1>2, <1>4, <1>6, <3>1, <3>2 DEF Settled
    <3>4. QED
      BY <3>2, <3>3 DEF Strand
  <2>2. CASE ClaimLost(d)
    <3>1. /\ UNCHANGED <<state, box>> /\ task[d].pc \notin Working /\ Finish(d) /\ task[d].pc # "free"
      BY <2>2 DEF ClaimLost, rows, At, Working
    <3>2. ~Stays(d)
      BY <3>1, TaskMoves
    <3>3. \A e \in Deliveries : /\ Owns(e, r)' <=> Owns(e, r)
                                /\ Owns(e, r) => task'[e].pc = task[e].pc
      BY <1>2, <1>4, <1>5, <3>1, <3>2 DEF Owns
    <3>4. QED
      BY <1>2, <3>1, <3>3, Untouched
  <2>3. CASE /\ task[d].pc \in Working \ {"fail"} /\ state' = state
             /\ Stays(d) \/ (task[d].pc \in Holding /\ ~Stays(d) /\ box'[r] # NoJob)
             /\ task[d].pc = "claimed" /\ description[r] = "deleted" => task'[d].pc = "fail"
    <3>1. Owns(d, r)
      BY <1>1, <2>3 DEF Owns
    <3>2. Strand(r)'
      BY <1>5, <2>3 DEF Strand, Owned
    <3>3. ASSUME ToAck(r), state[r] \notin {"absent", "done"}
          PROVE  Settled(r)'
      <4>1. description[r] = "deleted" /\ task[d].pc = "claimed"
        BY <1>6, <2>3, <3>1, <3>3 DEF Settled
      <4>2. Stays(d) /\ task'[d].pc = "fail"
        BY <2>3, <4>1 DEF Holding
      <4>3. \A e \in Deliveries \ {d} : Owns(e, r)' => task'[e].pc \in {"claimed", "fail"}
        BY <1>2, <1>4, <1>6, <3>3 DEF Settled
      <4>4. Owned(r)'
        BY <1>5, <4>2 DEF Owned
      <4>5. QED
        BY <1>2, <1>6, <2>3, <3>3, <4>1, <4>2, <4>3, <4>4 DEF Settled
    <3>4. ASSUME ToAck(r), state[r] \in {"absent", "done"}
          PROVE  Settled(r)'
      BY <2>3, <3>4 DEF Settled
    <3>5. QED
      BY <3>2, <3>3, <3>4
  <2>4. ASSUME NEW s \in {"pending", "failed"}, Write(r, s), ~Stays(d),
               task[d].pc \in Working, task[d].pc = "fail" => s = "failed",
               task[d].pc \in {"fail", "revert"}
        PROVE  Strand(r)' /\ (ToAck(r) => Settled(r)')
    <3>1. Owns(d, r)
      BY <1>1, <2>4 DEF Owns
    <3>2. state'[r] = IF state[r] = "absent" THEN "absent" ELSE s
      BY <2>4 DEF Write, TypeOK
    <3>3. Strand(r)'
      BY <2>4, <3>2 DEF Strand
    <3>4. ASSUME ToAck(r), state[r] # "absent"
          PROVE  Settled(r)'
      <4>1. state[r] # "done"
        BY <3>1, <3>4 DEF SweepInv, OwnersClaimed, Gone
      <4>2. description[r] = "deleted" /\ s = "failed"
        BY <1>6, <2>4, <3>1, <3>4, <4>1 DEF Settled
      <4>3. \A e \in Deliveries : ~Owns(e, r)'
        BY <1>4, <1>5, <2>4, <3>1 DEF SweepInv, ClaimExclusive
      <4>4. QED
        BY <1>2, <3>2, <3>4, <4>2, <4>3 DEF Settled
    <3>5. ASSUME ToAck(r), state[r] = "absent"
          PROVE  Settled(r)'
      BY <3>2, <3>5 DEF Settled
    <3>6. QED
      BY <3>3, <3>4, <3>5
  <2>5. {"fail", "revert"} \subseteq Working
    BY DEF Working
  <2>6. QED
    BY <1>1, <2>1, <2>2, <2>3, <2>4, <2>5, WorkerOutcome
<1>8. \A q \in Recordings : Strand(q)' /\ (ToAck(q)' => Settled(q)')
  <2>1. \A q \in Recordings : ToAck(q)' <=> ToAck(q)
    BY <1>2 DEF ToAck
  <2>2. QED
    BY <1>3, <1>7, <2>1
<1>9. QED
  BY <1>8 DEF StrandInv, AckedSettled, NothingStranded, Strand
\* A sweep adds to its acks only what it has settled, and touches no row whose
\* job it may already acknowledge.
LEMMA SweepStrands ==
  ASSUME TypeOK, OneSweep, NothingLost, SweepInv, JobsDone, GoneDeleted, StrandInv,
         NEW c \in Collectors, Wake(c) \/ Collect(c) \/ Recover(c) \/ SweepFault(c)
  PROVE  StrandInv'
<1> USE DEF rows, world
<1>0. ~BoxFails(c)
  BY DEF OneSweep, BoxFails, Fault
<1>1. \E r : Enqueue(r) \/ UNCHANGED task
  BY DEF TryEnqueue, Collect, Recover, SweepFault, Wake, Drain, PersistUnknown,
         PersistFailure, PersistNoEvent, PersistSelect, PersistWrite, PersistSkip,
         PersistRollback, Ack, Stalled, SelectStuck, CheckJob, Requeue, RequeueTask,
         SelectPending, Redrive, Swept, PersistRaises, BoxFails, CheckFails, SweepDies
<1>2. \A q : \A d \in Deliveries : /\ Owns(d, q)' <=> Owns(d, q)
                                   /\ Owns(d, q) => task'[d].pc = task[d].pc
  BY <1>1, EnqueueOwners, EnqueueHolds
<1>3. ASSUME NEW q \in Recordings, state'[q] = state[q],
             description[q] = "deleted" => description'[q] = "deleted",
             box[q] # NoJob => box'[q] # NoJob
      PROVE  Strand(q)' /\ (ToAck(q) => Settled(q)')
  BY <1>2, <1>3, Untouched
<1>4. CASE PersistFailure(c)
  BY <1>4 DEF PersistFailure, JobsDone
<1>5. CASE \/ PersistUnknown(c) \/ PersistNoEvent(c) \/ PersistWrite(c)
           \/ PersistSkip(c) \/ PersistRollback(c) \/ PersistRaises(c)
  <2>1. PICK j \in run[c].page, ok \in BOOLEAN :
          /\ Decided(c, j, ok) /\ box' = box
          /\ \A q \in Recordings \ {j.rec} : state'[q] = state[q] /\ description'[q] = description[q]
          /\ \/ state' = state /\ description' = description
                /\ (ok => state[j.rec] \in {"absent", "done"})
             \/ state'[j.rec] = "failed" /\ description'[j.rec] = "deleted" /\ ~Gone(j.rec)
             \/ state'[j.rec] = "done"
    <3>0. \A j \in run[c].page : j.rec \in Recordings
      BY DEF TypeOK, Run, PageJob
    <3>1. CASE PersistUnknown(c)
      BY <3>0, <3>1 DEF PersistUnknown
    <3>2. CASE PersistSkip(c)
      BY <3>0, <3>2 DEF PersistSkip, Skips
    <3>3. CASE PersistRollback(c) \/ PersistRaises(c)
      BY <3>0, <3>3 DEF PersistRollback, PersistRaises
    <3>4. CASE PersistNoEvent(c)
      BY <3>0, <3>4 DEF PersistNoEvent, Write, TypeOK, Gone
    <3>5. CASE PersistWrite(c)
      <4>1. PICK j \in run[c].page :
              /\ ~Skips(j.rec) /\ Write(j.rec, "done")
              /\ description' = [description EXCEPT ![j.rec] = "transcript"]
              /\ Decided(c, j, TRUE) \/ Decided(c, j, FALSE)
        BY <3>5 DEF PersistWrite
      <4>2. /\ state'[j.rec] = "done" /\ box' = box
            /\ \A q \in Recordings \ {j.rec} : state'[q] = state[q] /\ description'[q] = description[q]
        BY <3>0, <3>5, <4>1 DEF PersistWrite, Write, Skips, TypeOK
      <4>3. QED
        BY <4>1, <4>2
    <3>6. QED
      BY <1>5, <3>1, <3>2, <3>3, <3>4, <3>5
  <2>2. /\ j.rec \in Recordings /\ ~ToAck(j.rec) /\ (~Gone(j.rec) => ~Owned(j.rec))
    BY PageEntry
  <2>3. \A q \in Recordings : ToAck(q)' => ToAck(q) \/ (q = j.rec /\ ok)
    BY <2>1, DecidedMoves DEF ToAck
  <2>4. \A q \in Recordings \ {j.rec} : Strand(q)' /\ (ToAck(q) => Settled(q)')
    BY <1>3, <2>1
  <2>5. Strand(j.rec)' /\ (ok => Settled(j.rec)')
    <3>1. CASE state' = state /\ description' = description /\ (ok => state[j.rec] \in {"absent", "done"})
      BY <1>3, <2>1, <2>2, <3>1 DEF Settled
    <3>2. CASE state'[j.rec] = "failed" /\ description'[j.rec] = "deleted" /\ ~Gone(j.rec)
      BY <1>2, <2>2, <3>2 DEF Settled, Strand, Owned
    <3>3. CASE state'[j.rec] = "done"
      BY <3>3 DEF Settled, Strand
    <3>4. QED
      BY <2>1, <3>1, <3>2, <3>3
  <2>6. QED
    BY <2>2, <2>3, <2>4, <2>5 DEF StrandInv, AckedSettled, NothingStranded, Strand
<1>6. CASE Ack(c)
  <2>1. UNCHANGED <<state, description>> /\ box' = Acked(run[c].acks) /\ ~(\E q \in Recordings : ToAck(q)')
    <3>1. run'[c].acks = {}
      BY <1>6 DEF Ack, Step, TypeOK, Run
    <3>2. QED
      BY <1>6, <3>1, OneCollector DEF Ack, ToAck
  <2>2. ASSUME NEW q \in Recordings
        PROVE  Strand(q)'
    <3>1. CASE ToAck(q)
      <4>1. Settled(q)
        BY <3>1 DEF StrandInv, AckedSettled
      <4>2. QED
        BY <1>2, <2>1, <4>1 DEF Settled, Strand, Owned
    <3>2. CASE ~ToAck(q)
      <4>1. box'[q] = box[q]
        BY <2>1, <3>2 DEF Acked, ToAck
      <4>2. QED
        BY <1>3, <2>1, <4>1
    <3>3. QED
      BY <3>1, <3>2
  <2>3. QED
    BY <2>1, <2>2 DEF StrandInv, AckedSettled, NothingStranded, Strand
<1>7. CASE Requeue(c)
  <2>1. PICK r \in Recordings : r = run[c].cur
    BY <1>7 DEF Requeue, InPc, TypeOK
  <2>2. /\ \A q \in Recordings \ {r} : state'[q] = state[q]
        /\ state'[r] # "transcribing" /\ box' = box /\ description' = description
    BY <1>7, <2>1 DEF Requeue, Write, TypeOK
  <2>3. \A q \in Recordings : ~ToAck(q)'
    <3>1. run'[c].acks = {}
      BY <1>7 DEF Requeue, Step, TypeOK, Run, InPc, SweepInv, PersistingOnly
    <3>2. QED
      BY <3>1, OneCollector DEF ToAck
  <2>4. \A q \in Recordings : Strand(q)'
    BY <1>3, <2>2 DEF Strand
  <2>5. QED
    BY <2>3, <2>4 DEF StrandInv, AckedSettled, NothingStranded, Strand
<1>8. CASE \/ Wake(c) \/ Drain(c) \/ PersistSelect(c) \/ Stalled(c) \/ SelectStuck(c)
           \/ CheckJob(c) \/ RequeueTask(c) \/ SelectPending(c) \/ Redrive(c) \/ Swept(c)
           \/ CheckFails(c) \/ SweepDies(c)
  <2>1. UNCHANGED <<state, description, box>>
    BY <1>8
    DEF Wake, Drain, PersistSelect, Stalled, SelectStuck, CheckJob, RequeueTask,
        SelectPending, Redrive, Swept, CheckFails, SweepDies
  <2>2. \A q \in Recordings : ToAck(q)' => ToAck(q)
    BY <1>8, OthersMove DEF ToAck, Recover
  <2>3. QED
    BY <1>3, <2>1, <2>2 DEF StrandInv, AckedSettled, NothingStranded, Strand
<1>9. QED
  BY <1>0, <1>4, <1>5, <1>6, <1>7, <1>8 DEF Collect, Recover, SweepFault

LEMMA EnvironmentStrands ==
  ASSUME TypeOK, NothingLost, StrandInv, NEW r \in Recordings, Environment(r)
  PROVE  StrandInv'
<1> USE DEF rows, world
<1>1. run' = run /\ ~BoxForgets(r)
  BY DEF NothingLost, Fault, Environment, Upload, Uploaded, UploadedOrphan, BoxFinishes, BoxForgets,
         Age, EditEvent, DeleteEvent, DeleteAccount
<1>2. \A q \in Recordings : ToAck(q)' <=> ToAck(q)
  BY <1>1 DEF ToAck
<1>3. \A q \in Recordings : \A d \in Deliveries :
        /\ Owns(d, q)' <=> Owns(d, q)
        /\ Owns(d, q) => task'[d].pc = task[d].pc
  <2>1. CASE DeleteAccount(r)
    <3>1. IdleTask.pc \notin Working /\ "queued" \notin Working
      BY DEF IdleTask, Working
    <3>2. QED
      BY <2>1, <3>1 DEF DeleteAccount, Owns, At
  <2>2. CASE \E q : Enqueue(q) \/ UNCHANGED task
    BY <2>2, EnqueueOwners, EnqueueHolds
  <2>3. QED
    BY <2>1, <2>2
    DEF Environment, Upload, Uploaded, UploadedOrphan, BoxFinishes, BoxForgets, Age, EditEvent,
        DeleteEvent
<1>4. ASSUME NEW q \in Recordings
      PROVE  Strand(q)' /\ (ToAck(q) => Settled(q)')
  <2>1. CASE DeleteAccount(r) /\ q = r
    BY <2>1 DEF DeleteAccount, TypeOK, Strand, Settled
  <2>2. CASE ~(DeleteAccount(r) /\ q = r)
    <3>1. state'[q] = state[q] /\ (description[q] = "deleted" => description'[q] = "deleted")
      BY <2>2
      DEF TypeOK, Environment, Upload, Uploaded, UploadedOrphan, BoxFinishes, BoxForgets, Age,
          EditEvent, DeleteEvent, DeleteAccount
    <3>2. box[q] # NoJob => box'[q] # NoJob
      <4>1. CASE BoxFinishes(r)
        <5>1. PICK s \in Ready : box' = [box EXCEPT ![r].status = s]
          BY <4>1 DEF BoxFinishes, Ready
        <5>2. QED
          BY <5>1 DEF TypeOK, Job, NoJob, Ready
      <4>2. CASE ~BoxFinishes(r)
        BY <1>1, <4>2
        DEF Environment, Upload, Uploaded, UploadedOrphan, Age, EditEvent, DeleteEvent, DeleteAccount
      <4>3. QED
        BY <4>1, <4>2
    <3>3. QED
      BY <1>3, <3>1, <3>2, Untouched
  <2>3. QED
    BY <2>1, <2>2
<1>5. QED
  BY <1>2, <1>4 DEF StrandInv, AckedSettled, NothingStranded, Strand

\* A row waiting for its transcript is waiting for something: with one sweep at a
\* time, nothing dying halfway and nothing lost on the box, a transcribing row
\* has a worker request that will submit it or a job on the box.
THEOREM NobodyStranded ==
  ASSUME OneSweep, NothingLost
  PROVE  Spec => []NothingStranded
<1>1. Init => JobsDone /\ GoneDeleted /\ StrandInv
  BY DEF Init, JobsDone, GoneDeleted, StrandInv, NothingStranded, AckedSettled, Gone, NoJob,
         IdleRun, ToAck
<1>2. TypeOK /\ JobsDone /\ [Next]_vars => JobsDone'
  BY JobsStayDone DEF NothingLost
<1>3. TypeOK /\ GoneDeleted /\ [Next]_vars => GoneDeleted'
  <2> SUFFICES ASSUME TypeOK, GoneDeleted, [Next]_vars
               PROVE  GoneDeleted'
    OBVIOUS
  <2>1. CASE UNCHANGED vars
    BY <2>1 DEF vars, GoneDeleted, Gone
  <2>2. ASSUME NEW d \in Deliveries, Worker(d) \/ WorkerFault(d)
        PROVE  GoneDeleted'
    BY <2>2, WorkerTouches DEF GoneDeleted
  <2>3. ASSUME NEW c \in Collectors, Wake(c) \/ Collect(c) \/ Recover(c) \/ SweepFault(c)
        PROVE  GoneDeleted'
    BY <2>3, SweepTouches DEF GoneDeleted
  <2>4. ASSUME NEW r \in Recordings, Environment(r)
        PROVE  GoneDeleted'
    BY <2>4
    DEF TypeOK, GoneDeleted, Gone, rows, Environment, Upload, Uploaded, UploadedOrphan, BoxFinishes,
        BoxForgets, Age, EditEvent, DeleteEvent, DeleteAccount
  <2>5. QED
    BY <2>1, <2>2, <2>3, <2>4 DEF Next
<1>4. TypeOK /\ SweepInv /\ JobsDone /\ GoneDeleted /\ StrandInv /\ [Next]_vars => StrandInv'
  <2> SUFFICES ASSUME TypeOK, SweepInv, JobsDone, GoneDeleted, StrandInv, [Next]_vars
               PROVE  StrandInv'
    OBVIOUS
  <2>1. CASE UNCHANGED vars
    BY <2>1
    DEF vars, StrandInv, NothingStranded, AckedSettled, Settled, ToAck, Owned, Owns
  <2>2. QED
    BY <2>1, WorkerStrands, SweepStrands, EnvironmentStrands DEF Next
<1>5. QED
  BY <1>1, <1>2, <1>3, <1>4, SweepCorrect, TypeCorrect, PTL DEF Spec, StrandInv
===============================================================================
