------------------------- MODULE Transcription_proofs -------------------------
(***************************************************************************)
(* Theorems about Transcription, for every number of recordings,           *)
(* deliveries, uploads and failures.                                       *)
(***************************************************************************)
EXTENDS Transcription, TLAPS

-----------------------------------------------------------------------------
(* What the helpers keep *)

LEMMA IdleTypes == IdleTask \in Task /\ IdleRun \in Run /\ NoJob \in Job
BY BoundsAssumption DEF IdleTask, Task, IdleRun, Run, NoJob, Job, Audio, SweepPc, Ready

LEMMA QueuedType ==
  ASSUME NEW r \in Recordings, NEW n \in 1..MaxAttempts
  PROVE  Queued(r) \in Task /\ [Queued(r) EXCEPT !.attempt = n] \in Task
BY BoundsAssumption DEF Queued, Task, Audio

\* A request in progress works for a recording.
LEMMA TaskShape ==
  ASSUME TypeOK, NEW d \in Deliveries, task[d].pc # "free"
  PROVE  task[d].rec \in Recordings /\ task[d].attempt \in 1..MaxAttempts
BY DEF TypeOK, Task, IdleTask

LEMMA WriteType ==
  ASSUME TypeOK, NEW r, NEW s \in RowState, Write(r, s)
  PROVE  state' \in [Recordings -> RowState] /\ stale' \subseteq Recordings
BY DEF TypeOK, Write

LEMMA EnqueueType ==
  ASSUME TypeOK, NEW r \in Recordings, Enqueue(r) \/ UNCHANGED task
  PROVE  task' \in [Deliveries -> Task]
<1>1. Queued(r) \in Task
  BY BoundsAssumption DEF Queued, Task, Audio
<1>2. QED
  BY <1>1 DEF TypeOK, Enqueue

LEMMA FaultType ==
  ASSUME TypeOK, NEW k, Fault(k) \/ NoFault
  PROVE  faults' \in 0..MaxFaults
BY BoundsAssumption DEF TypeOK, Fault, NoFault

\* Every way a delivery moves keeps its type.
LEMMA TaskType ==
  ASSUME TypeOK, NEW d \in Deliveries, task[d].pc # "free"
  PROVE  /\ Finish(d) => task' \in [Deliveries -> Task]
         /\ Again(d) => task' \in [Deliveries -> Task]
         /\ \A pc \in Working : Go(d, pc) => task' \in [Deliveries -> Task]
<1>1. task[d] \in Task \ {IdleTask}
  BY DEF TypeOK, IdleTask
<1>2. Finish(d) => task' \in [Deliveries -> Task]
  BY IdleTypes DEF Finish, TypeOK
<1>3. ASSUME Again(d)
      PROVE  task' \in [Deliveries -> Task]
  <2>1. task[d].attempt < MaxAttempts => task[d].attempt + 1 \in 1..MaxAttempts
    BY TaskShape, BoundsAssumption
  <2>2. QED
    BY <2>1, <1>3, TaskShape, QueuedType, IdleTypes DEF Again, TypeOK
<1>4. ASSUME NEW pc \in Working, Go(d, pc)
      PROVE  task' \in [Deliveries -> Task]
  <2>1. [task[d] EXCEPT !.pc = pc] \in Task
    BY <1>1 DEF Task
  <2>2. QED
    BY <2>1, <1>4 DEF Go, TypeOK
<1>5. QED
  BY <1>2, <1>3, <1>4

RunType ==
  /\ run \in [Collectors -> Run]
  /\ \A c \in Collectors : run[c].pc \in {"requeue", "enqueue"} => run[c].cur \in Recordings

LEMMA StepType ==
  ASSUME TypeOK, NEW c \in Collectors, NEW v \in Run, Step(c, v),
         v.pc \in {"requeue", "enqueue"} => v.cur \in Recordings
  PROVE  RunType'
BY DEF TypeOK, Step, RunType, InPc

-----------------------------------------------------------------------------
(* Type correctness *)

LEMMA WorkerType ==
  ASSUME TypeOK, NEW d \in Deliveries, Worker(d) \/ WorkerFault(d)
  PROVE  TypeOK'
<1> USE DEF At, Submitting, rows, world
<1>0. task[d].pc # "free"
  BY DEF Worker, WorkerFault, Claim, ClaimLost, CheckEvent, Download, Submit, SubmitConflict,
         Discard, RevertPending, MarkFailed, DownloadUnconfigured, DownloadRaises,
         SubmitNoAnswer, SubmitRefused, SubmitRejected, DiscardRefused, WorkerDies, Working
<1>1. task' \in [Deliveries -> Task]
  <2> USE DEF Working
  <2>1. CASE Download(d)
    <3>1. [task[d] EXCEPT !.pc = "loaded", !.audio = audio[task[d].rec]] \in Task
      <4>1. /\ task[d] \in [pc : Working \cup {"queued"}, rec : Recordings,
                            audio : Audio, attempt : 1..MaxAttempts]
            /\ audio[task[d].rec] \in Audio
        BY <1>0 DEF TypeOK, Task, IdleTask
      <4>2. QED
        BY <4>1 DEF Task
    <3>2. QED
      BY <1>0, <2>1, <3>1, TaskType DEF Download, TypeOK
  <2>2. CASE CheckEvent(d)
    BY <1>0, <2>2, TaskType DEF CheckEvent
  <2>3. CASE SubmitConflict(d)
    BY <1>0, <2>3, TaskType DEF SubmitConflict
  <2>4. QED
    BY <1>0, <2>1, <2>2, <2>3, TaskType
    DEF Worker, WorkerFault, Claim, ClaimLost, Submit, Discard, RevertPending, MarkFailed,
        DownloadUnconfigured, DownloadRaises, SubmitNoAnswer, SubmitRefused, SubmitRejected,
        DiscardRefused, WorkerDies
<1>2. box' \in [Recordings -> Job]
  <2>1. CASE Takes(task[d].rec, task[d].audio)
    <3>1. [status |-> "queued", audio |-> task[d].audio] \in Job
      BY <1>0 DEF TypeOK, Task, Job, IdleTask
    <3>2. QED
      BY <2>1, <3>1 DEF Takes, TypeOK
  <2>2. CASE Discard(d)
    BY <2>2, IdleTypes DEF Discard, TypeOK
  <2>3. QED
    BY <2>1, <2>2
    DEF TypeOK, Worker, WorkerFault, Claim, ClaimLost, CheckEvent, Download, Submit,
        SubmitConflict, RevertPending, MarkFailed, DownloadUnconfigured, DownloadRaises,
        SubmitNoAnswer, SubmitRefused, SubmitRejected, DiscardRefused, WorkerDies
<1>3. state' \in [Recordings -> RowState] /\ stale' \subseteq Recordings
  BY WriteType
  DEF TypeOK, RowState, Worker, WorkerFault, Claim, ClaimLost, CheckEvent, Download, Submit,
      SubmitConflict, Discard, RevertPending, MarkFailed, DownloadUnconfigured, DownloadRaises,
      SubmitNoAnswer, SubmitRefused, SubmitRejected, DiscardRefused, WorkerDies
<1>4. faults' \in 0..MaxFaults
  BY FaultType
  DEF Worker, WorkerFault, Claim, ClaimLost, CheckEvent, Download, Submit, SubmitConflict,
      Discard, RevertPending, MarkFailed, DownloadUnconfigured, DownloadRaises,
      SubmitNoAnswer, SubmitRefused, SubmitRejected, DiscardRefused, WorkerDies
<1>5. UNCHANGED <<description, audio, notices, run>>
  BY DEF Worker, WorkerFault, Claim, ClaimLost, CheckEvent, Download, Submit, SubmitConflict,
      Discard, RevertPending, MarkFailed, DownloadUnconfigured, DownloadRaises,
      SubmitNoAnswer, SubmitRefused, SubmitRejected, DiscardRefused, WorkerDies
<1>6. QED
  BY <1>1, <1>2, <1>3, <1>4, <1>5 DEF TypeOK, InPc

LEMMA StuckType ==
  LET v == [IdleRun EXCEPT !.pc = "stuck"] IN v \in Run /\ v.pc = "stuck"
BY IdleTypes DEF Run, SweepPc

LEMMA PageType ==
  ASSUME TypeOK, NEW ids \in SUBSET Finished
  PROVE  Page(ids) \in SUBSET PageJob
BY DEF TypeOK, Page, Finished, Job, PageJob

LEMMA DecidedType ==
  ASSUME TypeOK, NEW c \in Collectors, NEW j \in run[c].page, NEW ok, Decided(c, j, ok)
  PROVE  RunType'
<1>1. run[c] \in Run /\ j.rec \in Recordings
  BY DEF TypeOK, Run, PageJob
<1>2. [run[c] EXCEPT !.pc = "persist", !.page = @ \ {j}, !.cur = None,
                     !.acks = IF ok THEN @ \cup {j.rec} ELSE @] \in Run
  BY <1>1 DEF Run, SweepPc
<1>3. QED
  BY <1>1, <1>2, StepType DEF Decided, Run

LEMMA CollectType ==
  ASSUME TypeOK, NEW c \in Collectors, Collect(c)
  PROVE  TypeOK'
<1> USE DEF rows, world, Collect
<1>0. run[c] \in Run
  BY DEF TypeOK
<1>1. RunType'
  <2>1. CASE Drain(c)
    <3>1. PICK ids \in SUBSET Finished :
            Step(c, IF ids = {}
                      THEN [IdleRun EXCEPT !.pc = "stuck"]
                      ELSE [IdleRun EXCEPT !.pc = "persist", !.pages = run[c].pages + 1,
                                           !.page = Page(ids), !.more = HasMore(ids)])
      BY <2>1 DEF Drain, Limited
    <3>2. Page(ids) \in SUBSET PageJob
      BY PageType
    <3>3. run[c].pages + 1 \in 0..MaxDrainPages
      <4>1. run[c].pages < MaxDrainPages
        BY <2>1, Zenon DEF Drain
      <4>2. run[c].pages \in 0..MaxDrainPages
        BY <1>0 DEF Run
      <4>3. QED
        BY <4>1, <4>2, BoundsAssumption
    <3> DEFINE new == [IdleRun EXCEPT !.pc = "persist", !.pages = run[c].pages + 1,
                                      !.page = Page(ids), !.more = HasMore(ids)]
    <3>4. new \in Run /\ new.pc = "persist"
      <4>1. \A p \in SUBSET PageJob, n \in 0..MaxDrainPages, more \in BOOLEAN :
              LET v == [IdleRun EXCEPT !.pc = "persist", !.pages = n, !.page = p, !.more = more]
              IN  v \in Run /\ v.pc = "persist"
        BY IdleTypes DEF Run, SweepPc
      <4>2. HasMore(ids) \in BOOLEAN
        BY DEF HasMore
      <4>3. QED
        BY <3>2, <3>3, <4>1, <4>2
    <3>5. QED
      BY <3>1, <3>4, StuckType, StepType
  <2>2. CASE PersistSelect(c)
    <3>1. PICK j \in run[c].page : Step(c, [run[c] EXCEPT !.pc = "write", !.cur = j.rec])
      BY <2>2 DEF PersistSelect
    <3>2. j.rec \in Recordings
      BY <1>0 DEF Run, PageJob
    <3>3. [run[c] EXCEPT !.pc = "write", !.cur = j.rec] \in Run
      BY <1>0, <3>2 DEF Run, SweepPc
    <3>4. [run[c] EXCEPT !.pc = "write", !.cur = j.rec].pc = "write"
      BY <1>0 DEF Run
    <3>5. QED
      BY <3>1, <3>3, <3>4, StepType
  <2>3. CASE Ack(c)
    <3>1. \A pc \in {"drain", "stuck"} :
            LET v == [run[c] EXCEPT !.acks = {}, !.more = FALSE, !.pc = pc]
            IN  v \in Run /\ v.pc = pc
      BY <1>0 DEF Run, SweepPc
    <3>2. QED
      BY <2>3, <3>1, StepType DEF Ack
  <2>4. CASE Stalled(c)
    BY <2>4, StuckType, StepType DEF Stalled
  <2>5. QED
    BY <2>1, <2>2, <2>3, <2>4, DecidedType
    DEF PersistUnknown, PersistFailure, PersistNoEvent, PersistWrite, PersistSkip, PersistRollback
<1>2. box' \in [Recordings -> Job]
  BY IdleTypes
  DEF TypeOK, Acked, Drain, PersistUnknown, PersistFailure, PersistNoEvent, PersistSelect,
      PersistWrite, PersistSkip, PersistRollback, Ack, Stalled
<1>3. state' \in [Recordings -> RowState] /\ stale' \subseteq Recordings
  BY WriteType
  DEF TypeOK, RowState, Drain, PersistUnknown, PersistFailure, PersistNoEvent, PersistSelect,
      PersistWrite, PersistSkip, PersistRollback, Ack, Stalled
<1>4. faults' \in 0..MaxFaults
  BY FaultType
  DEF Drain, PersistUnknown, PersistFailure, PersistNoEvent, PersistSelect,
      PersistWrite, PersistSkip, PersistRollback, Ack, Stalled
<1>5. description' \in [Recordings -> Text]
  BY DEF TypeOK, Text, Drain, PersistUnknown, PersistFailure, PersistNoEvent, PersistSelect,
         PersistWrite, PersistSkip, PersistRollback, Ack, Stalled
<1>6. UNCHANGED <<audio, notices, task>>
  BY DEF Drain, PersistUnknown, PersistFailure, PersistNoEvent, PersistSelect,
         PersistWrite, PersistSkip, PersistRollback, Ack, Stalled
<1>7. QED
  BY <1>1, <1>2, <1>3, <1>4, <1>5, <1>6 DEF TypeOK, RunType

LEMMA RecoverType ==
  ASSUME TypeOK, NEW c \in Collectors, Wake(c) \/ Recover(c) \/ SweepFault(c)
  PROVE  TypeOK'
<1> USE DEF rows, world, Recover, SweepFault
<1>0. run[c] \in Run
  BY DEF TypeOK
<1>1. RunType'
  <2>1. \A pc \in SweepPc \ {"requeue", "enqueue"} : \A sel \in SUBSET Recordings :
          LET v == [IdleRun EXCEPT !.pc = pc, !.sel = sel]
              w == [IdleRun EXCEPT !.pc = pc]
          IN  /\ v \in Run /\ v.pc \notin {"requeue", "enqueue"}
              /\ w \in Run /\ w.pc \notin {"requeue", "enqueue"}
    BY IdleTypes DEF Run, SweepPc
  <2>2. ASSUME NEW r
        PROVE  LET v == [run[c] EXCEPT !.sel = @ \ {r}]
                   w == [run[c] EXCEPT !.pc = "enqueue", !.sel = @ \ {r}]
               IN  /\ v \in Run /\ v.pc = run[c].pc
                   /\ w \in Run /\ w.cur = run[c].cur
    BY <1>0 DEF Run, SweepPc
  <2>3. CASE Wake(c) \/ SelectStuck(c) \/ SelectPending(c) \/ Swept(c) \/ BoxFails(c) \/ SweepDies(c)
    <3>1. IdleRun \in Run /\ IdleRun.pc \notin {"requeue", "enqueue"}
      BY IdleTypes DEF IdleRun
    <3>2. QED
      BY <2>1, <2>3, <3>1, StepType
      DEF Wake, SelectStuck, SelectPending, Swept, BoxFails, SweepDies, Limited, SweepPc, TypeOK
  <2>4. CASE CheckJob(c)
    <3>1. PICK r \in run[c].sel :
            Step(c, IF box[r] = NoJob
                      THEN [run[c] EXCEPT !.pc = "requeue", !.cur = r]
                      ELSE [run[c] EXCEPT !.sel = @ \ {r}])
      BY <2>4 DEF CheckJob
    <3>2. [run[c] EXCEPT !.pc = "requeue", !.cur = r] \in Run /\ r \in Recordings
      BY <1>0 DEF Run, SweepPc
    <3>3. [run[c] EXCEPT !.pc = "requeue", !.cur = r].cur = r
      BY <1>0 DEF Run
    <3>4. run[c].pc = "check"
      BY <2>4 DEF CheckJob, InPc
    <3>5. QED
      BY <2>2, <3>1, <3>2, <3>3, <3>4, StepType
  <2>5. CASE CheckFails(c) \/ Requeue(c) \/ Redrive(c)
    BY <2>2, <2>5, StepType DEF CheckFails, Requeue, Redrive, InPc, TypeOK
  <2>8. CASE RequeueTask(c)
    <3>1. LET v == [run[c] EXCEPT !.pc = "check", !.cur = None] IN v \in Run /\ v.pc = "check"
      BY <1>0 DEF Run, SweepPc
    <3>2. QED
      BY <2>8, <3>1, StepType DEF RequeueTask
  <2>6. CASE PersistRaises(c)
    BY <2>6, DecidedType DEF PersistRaises
  <2>7. QED
    BY <2>3, <2>4, <2>5, <2>6, <2>8
<1>2. box' \in [Recordings -> Job]
  BY IdleTypes
  DEF TypeOK, Acked, Wake, SelectStuck, CheckJob, Requeue, RequeueTask, SelectPending, Redrive, Swept,
      PersistRaises, BoxFails, CheckFails, SweepDies
<1>3. state' \in [Recordings -> RowState] /\ stale' \subseteq Recordings
  BY WriteType
  DEF TypeOK, RowState, Wake, SelectStuck, CheckJob, Requeue, RequeueTask, SelectPending, Redrive, Swept,
      PersistRaises, BoxFails, CheckFails, SweepDies
<1>4. faults' \in 0..MaxFaults
  BY FaultType
  DEF TryEnqueue, Wake, SelectStuck, CheckJob, Requeue, RequeueTask, SelectPending, Redrive, Swept,
      PersistRaises, BoxFails, CheckFails, SweepDies
<1>5. task' \in [Deliveries -> Task]
  <2>1. CASE RequeueTask(c)
    BY <2>1, EnqueueType DEF RequeueTask, TryEnqueue, InPc, TypeOK
  <2>2. CASE Redrive(c)
    BY <1>0, <2>2, EnqueueType DEF Redrive, TryEnqueue, Run
  <2>3. QED
    BY <2>1, <2>2
    DEF TypeOK, Wake, SelectStuck, CheckJob, Requeue, SelectPending, Swept, PersistRaises,
        BoxFails, CheckFails, SweepDies
<1>6. UNCHANGED <<description, audio, notices>>
  BY DEF Wake, SelectStuck, CheckJob, Requeue, RequeueTask, SelectPending, Redrive, Swept,
         PersistRaises, BoxFails, CheckFails, SweepDies
<1>7. QED
  BY <1>1, <1>2, <1>3, <1>4, <1>5, <1>6 DEF TypeOK, RunType

LEMMA EnvironmentType ==
  ASSUME TypeOK, NEW r \in Recordings, Environment(r)
  PROVE  TypeOK'
<1> USE DEF rows, world, Environment
<1>1. audio' \in [Recordings -> Audio] /\ notices' \subseteq Recordings
  BY BoundsAssumption
  DEF TypeOK, Audio, Upload, Uploaded, UploadedOrphan, BoxFinishes, BoxForgets, Age, EditEvent,
      DeleteEvent, DeleteAccount
<1>2. task' \in [Deliveries -> Task]
  BY EnqueueType, IdleTypes
  DEF TypeOK, Upload, Uploaded, UploadedOrphan, BoxFinishes, BoxForgets, Age, EditEvent,
      DeleteEvent, DeleteAccount
<1>3. box' \in [Recordings -> Job]
  <2>1. \A s \in Ready : [box[r] EXCEPT !.status = s] \in Job
    BY DEF TypeOK, Job
  <2>2. CASE BoxFinishes(r)
    BY <2>1, <2>2 DEF BoxFinishes, TypeOK, Ready
  <2>3. QED
    BY <2>2, IdleTypes
    DEF TypeOK, Upload, Uploaded, UploadedOrphan, BoxForgets, Age, EditEvent, DeleteEvent,
        DeleteAccount
<1>4. state' \in [Recordings -> RowState] /\ stale' \subseteq Recordings
  BY DEF TypeOK, RowState, Upload, Uploaded, UploadedOrphan, BoxFinishes, BoxForgets, Age,
         EditEvent, DeleteEvent, DeleteAccount
<1>5. description' \in [Recordings -> Text]
  BY DEF TypeOK, Text, Upload, Uploaded, UploadedOrphan, BoxFinishes, BoxForgets, Age,
         EditEvent, DeleteEvent, DeleteAccount
<1>6. faults' \in 0..MaxFaults
  BY FaultType
  DEF Upload, Uploaded, UploadedOrphan, BoxFinishes, BoxForgets, Age, EditEvent, DeleteEvent,
      DeleteAccount
<1>7. UNCHANGED run
  BY DEF Upload, Uploaded, UploadedOrphan, BoxFinishes, BoxForgets, Age, EditEvent, DeleteEvent,
         DeleteAccount
<1>8. QED
  BY <1>1, <1>2, <1>3, <1>4, <1>5, <1>6, <1>7 DEF TypeOK, InPc

\* Type correctness: every column, job and request keeps its vocabulary.
THEOREM TypeCorrect == Spec => []TypeOK
<1>1. Init => TypeOK
  BY IdleTypes, BoundsAssumption
  DEF Init, TypeOK, RowState, Text, Audio, InPc, IdleRun
<1>2. TypeOK /\ [Next]_vars => TypeOK'
  <2> SUFFICES ASSUME TypeOK, [Next]_vars PROVE TypeOK'
    OBVIOUS
  <2>1. CASE UNCHANGED vars
    BY <2>1 DEF vars, TypeOK, InPc
  <2>2. QED
    BY <2>1, WorkerType, CollectType, RecoverType, EnvironmentType DEF Next
<1>3. QED
  BY <1>1, <1>2, PTL DEF Spec

-----------------------------------------------------------------------------
(* A done row has its text *)

\* No step but the one that stores a transcript makes a row done, and none takes
\* a description back to null.
LEMMA OnlyPersistDecides ==
  ASSUME TypeOK, Next, NEW r \in Recordings, state'[r] = "done"
  PROVE  description'[r] # "null" \/ (state[r] = "done" /\ description'[r] = description[r])
<1> USE DEF rows
<1>1. ASSUME NEW d \in Deliveries, Worker(d) \/ WorkerFault(d)
      PROVE  state[r] = "done" /\ description' = description
  BY <1>1
  DEF TypeOK, Write, Worker, WorkerFault, Claim, ClaimLost, CheckEvent, Download, Submit,
      SubmitConflict, Discard, RevertPending, MarkFailed, DownloadUnconfigured, DownloadRaises,
      SubmitNoAnswer, SubmitRefused, SubmitRejected, DiscardRefused, WorkerDies
<1>2. ASSUME NEW c \in Collectors, Wake(c) \/ Collect(c) \/ Recover(c) \/ SweepFault(c)
      PROVE  \/ description'[r] # "null"
             \/ state[r] = "done" /\ description'[r] = description[r]
  <2>1. CASE PersistWrite(c)
    BY <2>1 DEF PersistWrite, TypeOK, Write
  <2>2. CASE ~PersistWrite(c)
    BY <1>2, <2>2
    DEF TypeOK, Write, Collect, Recover, SweepFault, Wake, Drain, PersistUnknown, PersistFailure,
        PersistNoEvent, PersistSelect, PersistSkip, PersistRollback, Ack, Stalled, SelectStuck,
        CheckJob, Requeue, RequeueTask, SelectPending, Redrive, Swept, PersistRaises, BoxFails,
        CheckFails, SweepDies
  <2>3. QED
    BY <2>1, <2>2
<1>3. ASSUME NEW q \in Recordings, Environment(q)
      PROVE  \/ description'[r] # "null"
             \/ state[r] = "done" /\ description'[r] = description[r]
  BY <1>3
  DEF TypeOK, Environment, Upload, Uploaded, UploadedOrphan, BoxFinishes, BoxForgets, Age,
      EditEvent, DeleteEvent, DeleteAccount
<1>4. QED
  BY <1>1, <1>2, <1>3 DEF Next

\* Whatever interleaves and fails, the row says done only when the event has text.
THEOREM TextOfDone == Spec => []DoneHasText
<1>1. Init => DoneHasText
  BY DEF Init, DoneHasText
<1>2. TypeOK /\ DoneHasText /\ [Next]_vars => DoneHasText'
  <2> SUFFICES ASSUME TypeOK, DoneHasText, [Next]_vars, NEW r \in Recordings, state'[r] = "done"
               PROVE  description'[r] # "null"
    BY DEF DoneHasText
  <2>1. CASE UNCHANGED vars
    BY <2>1 DEF vars, DoneHasText
  <2>2. CASE Next
    BY <2>2, OnlyPersistDecides DEF DoneHasText
  <2>3. QED
    BY <2>1, <2>2
<1>3. QED
  BY <1>1, <1>2, TypeCorrect, PTL DEF Spec
===============================================================================
