---------------------- MODULE TranscriptionSafety_proofs ----------------------
(***************************************************************************)
(* Safety of the transcription pipeline, for every number of recordings,   *)
(* deliveries, uploads and failures: SweepInv is inductive when sweeps do  *)
(* not overlap and no request or call dies halfway (OneSweep), and from it *)
(* follow ClaimExclusive and DoneIsFinal.                                  *)
(***************************************************************************)
EXTENDS Transcription_proofs

-----------------------------------------------------------------------------
(* What a step of a worker request can touch *)

Stays(d) == task'[d].pc \in Working
Claims(d) ==
  /\ state[task[d].rec] \in {"pending", "failed"}
  /\ Write(task[d].rec, "transcribing")
  /\ UNCHANGED box
Moves(d) == (Stays(d) => task[d].pc \in Working) /\ UNCHANGED <<state, stale, box>>
Hands(d) ==
  /\ task[d].pc \in Working
  /\ \E j \in Job : /\ box' = [box EXCEPT ![task[d].rec] = j]
                    /\ j.status = "none" \/ (j.status = "queued" /\ ~Stays(d))
  /\ UNCHANGED <<state, stale>>
Decides(d) ==
  /\ task[d].pc \in Working /\ ~Stays(d)
  /\ \E s \in {"pending", "failed"} : Write(task[d].rec, s)
  /\ UNCHANGED box

LEMMA TaskMoves ==
  ASSUME TypeOK, NEW d \in Deliveries, task[d].pc # "free",
         Finish(d) \/ Again(d) \/ (\E pc \in Working : Go(d, pc))
  PROVE  /\ \A e \in Deliveries \ {d} : task'[e] = task[e]
         /\ Stays(d) => task'[d].rec = task[d].rec
         /\ Finish(d) \/ Again(d) => ~Stays(d)
<1>1. IdleTask.pc \notin Working
  BY DEF IdleTask, Working
<1>2. \A r, n : Queued(r).pc \notin Working /\ [Queued(r) EXCEPT !.attempt = n].pc \notin Working
  BY DEF Queued, Working
<1>3. CASE Finish(d)
  BY <1>1, <1>3 DEF Finish, Stays, TypeOK
<1>4. CASE Again(d)
  BY <1>1, <1>2, <1>4 DEF Again, Stays, TypeOK
<1>5. ASSUME NEW pc \in Working, Go(d, pc)
      PROVE  /\ \A e \in Deliveries \ {d} : task'[e] = task[e]
             /\ task'[d].rec = task[d].rec
             /\ task'[d].pc = pc
  <2>1. task[d] \in [pc : Working \cup {"queued"}, rec : Recordings,
                     audio : Audio, attempt : 1..MaxAttempts]
    BY DEF TypeOK, Task, IdleTask
  <2>2. QED
    BY <1>5, <2>1 DEF Go, TypeOK
<1>6. QED
  BY <1>3, <1>4, <1>5 DEF Finish, Again

LEMMA WorkerFootprint ==
  ASSUME TypeOK, OneSweep, NEW d \in Deliveries, Worker(d) \/ WorkerFault(d)
  PROVE  /\ \A e \in Deliveries \ {d} : task'[e] = task[e]
         /\ Stays(d) => task'[d].rec = task[d].rec
         /\ task[d].rec \in Recordings
         /\ run' = run
         /\ Claims(d) \/ Moves(d) \/ Hands(d) \/ Decides(d)
<1> USE DEF At, Submitting, rows, world
<1>0. task[d].pc # "free"
  BY DEF Worker, WorkerFault, Claim, ClaimLost, CheckEvent, Download, Submit, SubmitConflict,
         Discard, RevertPending, MarkFailed, DownloadUnconfigured, DownloadRaises,
         SubmitNoAnswer, SubmitRefused, SubmitRejected, DiscardRefused, WorkerDies, Working
<1>1. task[d].rec \in Recordings
  BY <1>0, TaskShape
<1>2. \A k \in {"no_answer", "box_down", "crash"} : ~Fault(k)
  BY DEF OneSweep, Fault
<1>3. run' = run
  BY DEF Worker, WorkerFault, Claim, ClaimLost, CheckEvent, Download, Submit, SubmitConflict,
         Discard, RevertPending, MarkFailed, DownloadUnconfigured, DownloadRaises,
         SubmitNoAnswer, SubmitRefused, SubmitRejected, DiscardRefused, WorkerDies
<1>4. CASE Claim(d)
  <2>1. Go(d, "claimed")
    BY <1>4 DEF Claim
  <2>2. Claims(d)
    BY <1>4 DEF Claim, Claims
  <2>3. QED
    BY <1>0, <1>1, <1>3, <2>1, <2>2, TaskMoves DEF Working
<1>5. CASE ClaimLost(d)
  <2>1. Finish(d) /\ UNCHANGED <<state, stale, box>>
    BY <1>5 DEF ClaimLost
  <2>2. QED
    BY <1>0, <1>1, <1>3, <2>1, TaskMoves DEF Moves
<1>6. CASE \/ CheckEvent(d) \/ SubmitConflict(d) \/ DownloadUnconfigured(d) \/ DownloadRaises(d)
           \/ SubmitRefused(d) \/ SubmitRejected(d) \/ DiscardRefused(d)
  <2>1. Again(d) \/ \E pc \in Working : Go(d, pc)
    BY <1>6
    DEF CheckEvent, SubmitConflict, DownloadUnconfigured, DownloadRaises, SubmitRefused,
        SubmitRejected, DiscardRefused, Working
  <2>2. task[d].pc \in Working /\ UNCHANGED <<state, stale, box>>
    BY <1>6
    DEF CheckEvent, SubmitConflict, DownloadUnconfigured, DownloadRaises, SubmitRefused,
        SubmitRejected, DiscardRefused, Working
  <2>3. QED
    BY <1>0, <1>1, <1>3, <2>1, <2>2, TaskMoves DEF Moves
<1>7. CASE Download(d)
  <2>1. task[d] \in [pc : Working \cup {"queued"}, rec : Recordings,
                     audio : Audio, attempt : 1..MaxAttempts]
    BY <1>0 DEF TypeOK, Task, IdleTask
  <2>2. task[d].pc \in Working /\ UNCHANGED <<state, stale, box>>
    BY <1>7 DEF Download, Working
  <2>3. /\ \A e \in Deliveries \ {d} : task'[e] = task[e]
        /\ task'[d].rec = task[d].rec
    BY <1>7, <2>1 DEF Download, Go, TypeOK
  <2>4. QED
    BY <1>1, <1>3, <2>2, <2>3 DEF Moves
<1>8. CASE Submit(d)
  <2>1. Finish(d) /\ task[d].pc \in Working /\ UNCHANGED <<state, stale>>
    BY <1>8 DEF Submit, Working
  <2>2. ~Stays(d)
    BY <1>0, <2>1, TaskMoves
  <2>3. UNCHANGED box \/
          LET j == [status |-> "queued", audio |-> task[d].audio]
          IN  box' = [box EXCEPT ![task[d].rec] = j] /\ j \in Job /\ j.status = "queued"
    <3>1. [status |-> "queued", audio |-> task[d].audio] \in Job
      BY <1>0 DEF TypeOK, Task, Job, IdleTask
    <3>2. QED
      BY <1>8, <3>1 DEF Submit, Takes
  <2>4. Moves(d) \/ Hands(d)
    BY <2>1, <2>2, <2>3 DEF Moves, Hands
  <2>5. QED
    BY <1>0, <1>1, <1>3, <2>1, <2>4, TaskMoves
<1>9. CASE Discard(d)
  <2>1. Go(d, "discarded") /\ task[d].pc \in Working /\ UNCHANGED <<state, stale>>
    BY <1>2, <1>9 DEF Discard, Working
  <2>2. NoJob \in Job /\ NoJob.status = "none" /\ box' = [box EXCEPT ![task[d].rec] = NoJob]
    BY <1>9, IdleTypes DEF Discard, NoJob
  <2>3. Hands(d)
    BY <2>1, <2>2 DEF Hands
  <2>4. QED
    BY <1>0, <1>1, <1>3, <2>1, <2>3, TaskMoves DEF Working
<1>10. CASE RevertPending(d) \/ MarkFailed(d)
  <2>1. Again(d) \/ Finish(d)
    BY <1>10 DEF RevertPending, MarkFailed
  <2>2. /\ task[d].pc \in Working
        /\ \E s \in {"pending", "failed"} : Write(task[d].rec, s)
        /\ UNCHANGED box
    BY <1>10 DEF RevertPending, MarkFailed, Working
  <2>3. QED
    BY <1>0, <1>1, <1>3, <2>1, <2>2, TaskMoves DEF Decides
<1>11. QED
  BY <1>2, <1>4, <1>5, <1>6, <1>7, <1>8, <1>9, <1>10
  DEF Worker, WorkerFault, SubmitNoAnswer, WorkerDies

-----------------------------------------------------------------------------
(* A step of a worker request keeps the invariant *)

\* Who owned a recording before a step of d: every owner after it, save d's claim.
LEMMA OwnersAfter ==
  ASSUME TypeOK, OneSweep, NEW d \in Deliveries, Worker(d) \/ WorkerFault(d),
         NEW e \in Deliveries, NEW r \in Recordings, Owns(e, r)'
  PROVE  \/ Owns(e, r)
         \/ e = d /\ r = task[d].rec /\ Claims(d)
BY WorkerFootprint DEF Owns, Stays, Moves, Hands, Decides


LEMMA WorkerKeeps ==
  ASSUME TypeOK, OneSweep, SweepInv, NEW d \in Deliveries, Worker(d) \/ WorkerFault(d)
  PROVE  SweepInv'
<1>r. PICK r \in Recordings : r = task[d].rec
  BY WorkerFootprint
<1>0. /\ r = task[d].rec /\ run' = run /\ TypeOK'
      /\ Claims(d) \/ Moves(d) \/ Hands(d) \/ Decides(d)
  BY <1>r, WorkerFootprint, WorkerType
<1>1. /\ \A q \in Recordings : Owned(q)' => Owned(q) \/ (q = r /\ Claims(d))
      /\ \A q \in Recordings : ToAck(q)' <=> ToAck(q)
  BY <1>0, OwnersAfter DEF Owned, ToAck
<1>2. CASE Claims(d)
  <2>1. /\ state[r] \in {"pending", "failed"} /\ UNCHANGED box
        /\ state' = [state EXCEPT ![r] = "transcribing"] /\ stale' = stale \ {r}
    BY <1>0, <1>2 DEF Claims, Write, TypeOK
  <2>2. ~Owned(r)
    BY <1>0, <2>1 DEF SweepInv, OwnersClaimed, Owned, Gone
  <2>3. /\ state'[r] = "transcribing"
        /\ \A q \in Recordings \ {r} : state'[q] = state[q] /\ (Owned(q)' => Owned(q))
    BY <1>0, <1>1, <2>1 DEF TypeOK
  <2>4. ClaimExclusive'
    BY <1>r, <2>2, OwnersAfter DEF ClaimExclusive, SweepInv, Owned
  <2>5. OwnersClaimed'
    BY <1>r, <2>3, OwnersAfter DEF OwnersClaimed, SweepInv, Gone
  <2>6. StaleUnowned'
    BY <2>1, <2>3 DEF StaleUnowned, SweepInv, TypeOK
  <2>7. QueuedAwaited' /\ ReadyAwaited'
    <3>1. \A q \in Recordings \ {r} : Waits(q) => Waits(q)'
      BY <2>3 DEF Waits
    <3>2. box[r].status # "queued" /\ (box[r].status \in Ready => ToAck(r))
      BY <1>0, <2>1 DEF QueuedAwaited, ReadyAwaited, SweepInv, Gone, Waits
    <3>3. QED
      BY <1>0, <1>1, <2>1, <2>3, <3>1, <3>2 DEF QueuedAwaited, ReadyAwaited, SweepInv, Gone
  <2>8. PageCurrent' /\ PersistingOnly'
    BY <1>0, <2>1, <2>3 DEF PageCurrent, PersistingOnly, SweepInv, Gone, TypeOK, Run, PageJob, InPc
  <2>9. SelectedStuck'
    BY <1>0, <2>1, <2>3 DEF SelectedStuck, SweepInv, Gone, TypeOK, Run, InPc
  <2>10. QED
    BY <2>4, <2>5, <2>6, <2>7, <2>8, <2>9 DEF SweepInv
<1>3. CASE Moves(d)
  <2>1. UNCHANGED <<state, stale, box>>
    BY <1>3 DEF Moves
  <2>2. ~Claims(d)
    BY <1>0, <2>1 DEF Claims, Write, TypeOK
  <2>3. ClaimExclusive' /\ OwnersClaimed'
    BY <2>1, <2>2, OwnersAfter DEF ClaimExclusive, OwnersClaimed, SweepInv, Gone
  <2>4. StaleUnowned' /\ QueuedAwaited' /\ ReadyAwaited'
    BY <1>1, <2>1, <2>2
    DEF StaleUnowned, QueuedAwaited, ReadyAwaited, SweepInv, Gone, Waits, TypeOK
  <2>5. PageCurrent' /\ PersistingOnly' /\ SelectedStuck'
    BY <1>0, <2>1 DEF PageCurrent, PersistingOnly, SelectedStuck, SweepInv, Gone, InPc
  <2>6. QED
    BY <2>3, <2>4, <2>5 DEF SweepInv
<1>4. CASE Hands(d)
  <2>1. PICK j \in Job : /\ box' = [box EXCEPT ![r] = j]
                         /\ j.status = "none" \/ (j.status = "queued" /\ ~Stays(d))
    BY <1>r, <1>4 DEF Hands
  <2>2. UNCHANGED <<state, stale>> /\ Owns(d, r)
    BY <1>r, <1>4 DEF Hands, Owns
  <2>3. /\ box'[r] = j /\ \A q \in Recordings \ {r} : box'[q] = box[q]
        /\ box'[r].status \notin Ready
    BY <1>0, <2>1 DEF TypeOK, Ready
  <2>4. ~Claims(d)
    BY <1>0, <2>2 DEF Claims, Write, TypeOK
  <2>5. ClaimExclusive' /\ OwnersClaimed'
    BY <2>2, <2>4, OwnersAfter DEF ClaimExclusive, OwnersClaimed, SweepInv, Gone
  <2>6. StaleUnowned'
    BY <1>1, <2>2, <2>4 DEF StaleUnowned, SweepInv, TypeOK
  <2>7. QueuedAwaited'
    <3>1. box'[r].status = "queued" => ~Owned(r)'
      <4> SUFFICES ASSUME box'[r].status = "queued", NEW e \in Deliveries, Owns(e, r)'
                   PROVE  FALSE
        BY DEF Owned
      <4>1. Owns(e, r)
        BY <1>0, <2>4, OwnersAfter
      <4>2. e = d
        BY <1>0, <2>2, <4>1 DEF ClaimExclusive, SweepInv
      <4>3. QED
        BY <2>1, <2>3, <4>2 DEF Owns, Stays
    <3>2. Gone(r) \/ state[r] = "transcribing"
      BY <1>0, <2>2 DEF OwnersClaimed, SweepInv
    <3>3. ASSUME NEW q \in Recordings \ {r}, box'[q].status = "queued"
          PROVE  Gone(q)' \/ Waits(q)'
      BY <1>1, <2>2, <2>3, <2>4, <3>3 DEF QueuedAwaited, SweepInv, Gone, Waits
    <3>4. QED
      BY <1>0, <2>2, <3>1, <3>2, <3>3 DEF QueuedAwaited, Gone, Waits
  <2>8. ReadyAwaited'
    BY <1>0, <1>1, <2>2, <2>3, <2>4 DEF ReadyAwaited, SweepInv, Gone, Waits
  <2>9. PageCurrent' /\ PersistingOnly'
    <3>1. ASSUME NEW c \in Collectors, NEW k \in run[c].page, k.rec = r
          PROVE  Gone(r)
      <4>1. k.status \in Ready
        BY DEF TypeOK, Run, PageJob
      <4>2. ~ToAck(r)
        BY <3>1 DEF PageCurrent, SweepInv, ToAck, OneSweep
      <4>3. QED
        BY <1>0, <2>2, <3>1, <4>1, <4>2
        DEF PageCurrent, ReadyAwaited, OwnersClaimed, SweepInv, Waits, Gone, Owned
    <3>2. QED
      BY <1>0, <2>2, <2>3, <3>1
      DEF PageCurrent, PersistingOnly, SweepInv, Gone, TypeOK, Run, PageJob, InPc
  <2>10. SelectedStuck'
    <3>1. ASSUME NEW c \in Collectors, run[c].pc \in {"check", "requeue", "enqueue"}, r \in run[c].sel
          PROVE  Gone(r)
      BY <1>0, <2>2, <3>1 DEF SelectedStuck, StaleUnowned, SweepInv, Owned
    <3>2. QED
      BY <1>0, <2>2, <2>3, <3>1 DEF SelectedStuck, SweepInv, Gone, TypeOK, Run, InPc
  <2>11. QED
    BY <2>5, <2>6, <2>7, <2>8, <2>9, <2>10 DEF SweepInv
<1>5. CASE Decides(d)
  <2>1. PICK s \in {"pending", "failed"} : Write(r, s)
    BY <1>r, <1>5 DEF Decides
  <2>2. UNCHANGED box /\ Owns(d, r) /\ ~Stays(d)
    BY <1>r, <1>5 DEF Decides, Owns
  <2>3. /\ Gone(r) => state'[r] = "absent"
        /\ \A q \in Recordings \ {r} : state'[q] = state[q]
        /\ stale' = stale \ {r}
        /\ ~Claims(d)
    BY <1>0, <2>1 DEF Write, TypeOK, Gone, Claims
  <2>4. ~Owned(r)'
    <3> SUFFICES ASSUME NEW e \in Deliveries, Owns(e, r)'
                 PROVE  FALSE
      BY DEF Owned
    <3>1. Owns(e, r)
      BY <1>0, <2>3, OwnersAfter
    <3>2. e = d
      BY <1>0, <2>2, <3>1 DEF ClaimExclusive, SweepInv
    <3>3. QED
      BY <2>2, <3>2 DEF Owns, Stays
  <2>5. ClaimExclusive' /\ OwnersClaimed'
    <3>1. ASSUME NEW e \in Deliveries, NEW q \in Recordings, Owns(e, q)'
          PROVE  Owns(e, q) /\ q # r
      BY <2>3, <2>4, <3>1, OwnersAfter DEF Owned
    <3>2. QED
      BY <2>3, <3>1 DEF ClaimExclusive, OwnersClaimed, SweepInv, Gone
  <2>6. StaleUnowned'
    BY <1>1, <2>3 DEF StaleUnowned, SweepInv, TypeOK
  <2>7. QueuedAwaited' /\ ReadyAwaited'
    <3>1. Gone(r) \/ (box[r].status # "queued" /\ (box[r].status \in Ready => ToAck(r)))
      BY <1>0, <2>2 DEF QueuedAwaited, ReadyAwaited, OwnersClaimed, SweepInv, Gone, Waits, Owned
    <3>2. QED
      BY <1>0, <1>1, <2>2, <2>3, <3>1 DEF QueuedAwaited, ReadyAwaited, SweepInv, Gone, Waits
  <2>8. PageCurrent' /\ PersistingOnly'
    BY <1>0, <2>2, <2>3 DEF PageCurrent, PersistingOnly, SweepInv, Gone, TypeOK, Run, PageJob, InPc
  <2>9. SelectedStuck'
    <3>1. ASSUME NEW c \in Collectors, run[c].pc \in {"check", "requeue", "enqueue"}, r \in run[c].sel
          PROVE  Gone(r)
      BY <1>0, <2>2, <3>1 DEF SelectedStuck, StaleUnowned, SweepInv, Owned
    <3>2. QED
      BY <1>0, <2>2, <2>3, <3>1 DEF SelectedStuck, SweepInv, Gone, TypeOK, Run, InPc
  <2>10. QED
    BY <2>5, <2>6, <2>7, <2>8, <2>9 DEF SweepInv
<1>6. QED
  BY <1>0, <1>2, <1>3, <1>4, <1>5

-----------------------------------------------------------------------------
(* What a step of a sweep can touch *)

LEMMA OneCollector ==
  ASSUME OneSweep, NEW c \in Collectors, NEW e \in Collectors
  PROVE  e = c
BY DEF OneSweep

\* A page holds jobs whose recordings nobody else may change.
LEMMA PageEntry ==
  ASSUME TypeOK, OneSweep, SweepInv, NEW c \in Collectors, NEW j \in run[c].page
  PROVE  /\ j.rec \in Recordings /\ j.status \in Ready /\ ~ToAck(j.rec)
         /\ ~Gone(j.rec) =>
              /\ ~Owned(j.rec) /\ box[j.rec].status = j.status
              /\ Waits(j.rec) \/ (state[j.rec] = "done" /\ j.status = "done")
<1>1. j.rec \in Recordings /\ j.status \in Ready
  BY DEF TypeOK, Run, PageJob
<1>2. ~ToAck(j.rec)
  BY OneCollector DEF PageCurrent, SweepInv, ToAck
<1>3. ASSUME ~Gone(j.rec)
      PROVE  box[j.rec].status = j.status
  BY <1>3 DEF PageCurrent, SweepInv
<1>4. ASSUME ~Gone(j.rec)
      PROVE  Waits(j.rec) \/ (state[j.rec] = "done" /\ j.status = "done")
  BY <1>1, <1>2, <1>3, <1>4 DEF ReadyAwaited, SweepInv
<1>5. ASSUME ~Gone(j.rec)
      PROVE  ~Owned(j.rec)
  BY <1>1, <1>4, <1>5 DEF Waits, OwnersClaimed, SweepInv, Owned
<1>6. QED
  BY <1>1, <1>2, <1>3, <1>4, <1>5

\* Deciding job j: no more of it in the page, and its row either left alone,
\* or written while nobody owns it.
Settles(c, j, ok) ==
  /\ Decided(c, j, ok) /\ UNCHANGED <<box, task>>
  /\ \/ UNCHANGED <<state, stale>>
     \/ Write(j.rec, "done") /\ j.status = "done"
     \/ ok /\ \E s \in {"pending", "failed"} : Write(j.rec, s)

LEMMA SettlesKeeps ==
  ASSUME TypeOK, OneSweep, SweepInv, NEW c \in Collectors, NEW j \in run[c].page,
         NEW ok \in BOOLEAN, Settles(c, j, ok)
  PROVE  SweepInv'
<1>1. /\ run'[c].pc = "persist"
      /\ run'[c].page = run[c].page \ {j}
      /\ run'[c].acks = IF ok THEN run[c].acks \cup {j.rec} ELSE run[c].acks
  BY DEF Settles, Decided, Step, TypeOK, Run
<1>2. PICK r \in Recordings : r = j.rec
  BY PageEntry
<1>3. /\ UNCHANGED <<box, task>>
      /\ \A q \in Recordings : Owned(q)' <=> Owned(q)
      /\ \A q \in Recordings : ToAck(q)' <=> (ToAck(q) \/ (ok /\ q = r))
  BY <1>1, <1>2, OneCollector DEF Settles, Owned, Owns, ToAck
<1>4. /\ \A q \in Recordings \ {r} : state'[q] = state[q]
      /\ stale' \subseteq stale
      /\ Gone(r) => state'[r] = "absent"
      /\ state' = state \/ Gone(r) \/ ok \/ (state'[r] = "done" /\ j.status = "done")
      /\ state' = state \/ r \notin stale'
  BY <1>2 DEF Settles, Write, TypeOK, Gone
<1>5. ClaimExclusive' /\ OwnersClaimed' /\ StaleUnowned'
  <2>1. ~Gone(r) => ~Owned(r)
    BY <1>2, PageEntry
  <2>2. \A e \in Deliveries : \A q \in Recordings : Owns(e, q)' <=> Owns(e, q)
    BY <1>3 DEF Owns
  <2>3. QED
    BY <1>2, <1>3, <1>4, <2>1, <2>2
    DEF ClaimExclusive, OwnersClaimed, StaleUnowned, SweepInv, Gone, Owned, TypeOK
<1>6. QueuedAwaited' /\ ReadyAwaited'
  <2>1. ~Gone(r) => box[r].status = j.status /\ j.status \in Ready
    BY <1>2, PageEntry
  <2>2. \A q \in Recordings \ {r} : Waits(q) => Waits(q)'
    BY <1>3, <1>4 DEF Waits
  <2>3. QED
    BY <1>2, <1>3, <1>4, <2>1, <2>2 DEF QueuedAwaited, ReadyAwaited, SweepInv, Gone, Waits, Ready
<1>7. PageCurrent'
  <2>1. \A k \in run'[c].page : k \in run[c].page /\ k.rec # r
    BY <1>1, <1>2 DEF PageCurrent, SweepInv
  <2>2. \A k \in run[c].page : k.rec \in Recordings
    BY PageEntry
  <2>3. QED
    BY <1>1, <1>2, <1>3, <1>4, <2>1, <2>2, OneCollector DEF PageCurrent, SweepInv, Gone, InPc
<1>8. PersistingOnly' /\ SelectedStuck'
  BY <1>1, OneCollector DEF PersistingOnly, SelectedStuck
<1>9. QED
  BY <1>5, <1>6, <1>7, <1>8 DEF SweepInv

-----------------------------------------------------------------------------
(* A step of a sweep keeps the invariant *)

LEMMA PersistKeeps ==
  ASSUME TypeOK, OneSweep, SweepInv, NEW c \in Collectors,
         \/ PersistUnknown(c) \/ PersistFailure(c) \/ PersistNoEvent(c) \/ PersistWrite(c)
         \/ PersistSkip(c) \/ PersistRollback(c) \/ PersistRaises(c)
  PROVE  SweepInv'
<1>1. \E j \in run[c].page : \E ok \in BOOLEAN : Settles(c, j, ok)
  <2>1. CASE PersistWrite(c)
    <3>1. PICK j \in run[c].page :
            /\ j.rec = run[c].cur /\ Write(j.rec, "done")
            /\ Decided(c, j, TRUE) \/ Decided(c, j, FALSE)
      BY <2>1 DEF PersistWrite
    <3>2. j.status = "done"
      BY <2>1, <3>1 DEF PersistWrite, PageCurrent, SweepInv
    <3>3. UNCHANGED <<box, task>>
      BY <2>1 DEF PersistWrite
    <3>4. QED
      BY <3>1, <3>2, <3>3 DEF Settles
  <2>2. QED
    BY <2>1
    DEF Settles, PersistUnknown, PersistFailure, PersistNoEvent, PersistSkip, PersistRollback,
        PersistRaises, rows
<1>2. QED
  BY <1>1, SettlesKeeps

\* Steps of a sweep that leave rows, requests and the box alone.
LEMMA QuietKeeps ==
  ASSUME TypeOK, OneSweep, SweepInv, NEW c \in Collectors, UNCHANGED <<state, stale, box, task>>,
         (PageCurrent /\ PersistingOnly /\ SelectedStuck)',
         \A r \in Recordings : ToAck(r) => ToAck(r)'
  PROVE  SweepInv'
<1>1. \A q \in Recordings : Owned(q)' <=> Owned(q)
  BY DEF Owned, Owns
<1>2. ClaimExclusive' /\ OwnersClaimed'
  BY DEF ClaimExclusive, OwnersClaimed, SweepInv, Owns, Gone
<1>3. StaleUnowned' /\ QueuedAwaited' /\ ReadyAwaited'
  BY <1>1 DEF StaleUnowned, QueuedAwaited, ReadyAwaited, SweepInv, Gone, Waits, TypeOK
<1>4. QED
  BY <1>2, <1>3 DEF SweepInv

\* A sweep between its page and its next step holds no page and no ids.
LEMMA Restarted ==
  ASSUME TypeOK, OneSweep, SweepInv, NEW c \in Collectors, NEW v, Step(c, v),
         v.page = {}, v.acks = {}, v.pc \notin {"check", "requeue", "enqueue"}, run[c].acks = {},
         UNCHANGED <<state, stale, box, task>>
  PROVE  SweepInv'
<1>1. run'[c] = v
  BY DEF Step, TypeOK
<1>2. (PageCurrent /\ PersistingOnly /\ SelectedStuck)'
  BY <1>1, OneCollector DEF PageCurrent, PersistingOnly, SelectedStuck
<1>3. \A r \in Recordings : ~ToAck(r)
  BY OneCollector DEF ToAck
<1>4. QED
  BY <1>2, <1>3, QuietKeeps

LEMMA DrainKeeps ==
  ASSUME TypeOK, OneSweep, SweepInv, NEW c \in Collectors, Drain(c)
  PROVE  SweepInv'
<1>1. UNCHANGED <<state, stale, box, task>> /\ run[c].acks = {}
  BY DEF Drain, rows, InPc, PersistingOnly, SweepInv
<1>2. PICK ids \in SUBSET Finished :
        Step(c, IF ids = {}
                  THEN [IdleRun EXCEPT !.pc = "stuck"]
                  ELSE [IdleRun EXCEPT !.pc = "persist", !.pages = run[c].pages + 1,
                                       !.page = Page(ids), !.more = HasMore(ids)])
  BY DEF Drain, Limited
<1>3. CASE ids = {}
  <2>1. LET v == [IdleRun EXCEPT !.pc = "stuck"] IN v.page = {} /\ v.acks = {} /\ v.pc = "stuck"
    BY DEF IdleRun
  <2>2. QED
    BY <1>1, <1>2, <1>3, <2>1, Restarted
<1>4. CASE ids # {}
  <2>1. run'[c].pc = "persist" /\ run'[c].page = Page(ids) /\ run'[c].acks = {}
    BY <1>2, <1>4 DEF Step, TypeOK, IdleRun
  <2>2. PageCurrent'
    <3>1. ASSUME NEW j \in Page(ids)
          PROVE  /\ j.rec \in ids /\ j.status = box[j.rec].status
                 /\ \A k \in Page(ids) : k.rec = j.rec => k = j
      BY DEF Page
    <3>2. QED
      BY <1>1, <2>1, <3>1, OneCollector DEF PageCurrent, InPc
  <2>3. (PersistingOnly /\ SelectedStuck)'
    BY <2>1, OneCollector DEF PersistingOnly, SelectedStuck
  <2>4. \A r \in Recordings : ~ToAck(r)
    BY <1>1, OneCollector DEF ToAck
  <2>5. QED
    BY <1>1, <2>2, <2>3, <2>4, QuietKeeps
<1>5. QED
  BY <1>3, <1>4

LEMMA SelectKeeps ==
  ASSUME TypeOK, OneSweep, SweepInv, NEW c \in Collectors, PersistSelect(c)
  PROVE  SweepInv'
<1>1. PICK j \in run[c].page :
        j.status = "done" /\ Step(c, [run[c] EXCEPT !.pc = "write", !.cur = j.rec])
  BY DEF PersistSelect
<1>2. /\ run'[c].pc = "write" /\ run'[c].cur = j.rec
      /\ run'[c].page = run[c].page /\ run'[c].acks = run[c].acks
  BY <1>1 DEF Step, TypeOK, Run
<1>3. UNCHANGED <<state, stale, box, task>>
  BY DEF PersistSelect, rows
<1>4. PageCurrent'
  BY <1>1, <1>2, <1>3, OneCollector DEF PageCurrent, SweepInv, Gone, InPc
<1>5. (PersistingOnly /\ SelectedStuck)'
  BY <1>2, OneCollector DEF PersistingOnly, SelectedStuck
<1>6. \A r \in Recordings : ToAck(r) => ToAck(r)'
  BY <1>2, OneCollector DEF ToAck
<1>7. QED
  BY <1>3, <1>4, <1>5, <1>6, QuietKeeps

LEMMA AckKeeps ==
  ASSUME TypeOK, OneSweep, SweepInv, NEW c \in Collectors, Ack(c)
  PROVE  SweepInv'
<1>1. /\ run[c].page = {} /\ run[c].pc = "persist" /\ UNCHANGED <<state, stale, task>>
      /\ box' = Acked(run[c].acks)
  BY DEF Ack, PageDone, InPc, rows
<1>2. run'[c].page = {} /\ run'[c].acks = {} /\ run'[c].pc \in {"drain", "stuck"}
  BY <1>1 DEF Ack, Step, TypeOK, Run
<1>3. \A q \in Recordings :
        /\ q \in run[c].acks /\ box[q].status \in Ready => box'[q] = NoJob
        /\ ~(q \in run[c].acks /\ box[q].status \in Ready) => box'[q] = box[q]
  BY <1>1 DEF Acked
<1>4. /\ \A q \in Recordings : Owned(q)' <=> Owned(q)
      /\ \A q \in Recordings : ToAck(q) <=> q \in run[c].acks
  BY <1>1, OneCollector DEF Owned, Owns, ToAck
<1>5. ClaimExclusive' /\ OwnersClaimed' /\ StaleUnowned'
  BY <1>1, <1>4 DEF ClaimExclusive, OwnersClaimed, StaleUnowned, SweepInv, Owns, Gone, TypeOK
<1>6. QueuedAwaited' /\ ReadyAwaited'
  <2>1. NoJob.status \notin Ready \cup {"queued"}
    BY DEF NoJob, Ready
  <2>2. \A q \in Recordings : (Gone(q)' <=> Gone(q)) /\ (Waits(q)' <=> Waits(q))
    BY <1>1, <1>4 DEF Gone, Waits
  <2>3. QED
    BY <1>1, <1>3, <1>4, <2>1, <2>2 DEF QueuedAwaited, ReadyAwaited, SweepInv
<1>7. (PageCurrent /\ PersistingOnly /\ SelectedStuck)'
  BY <1>2, OneCollector DEF PageCurrent, PersistingOnly, SelectedStuck
<1>8. QED
  BY <1>5, <1>6, <1>7 DEF SweepInv

\* A new task owns nothing before its claim.
LEMMA EnqueueOwners ==
  ASSUME TypeOK, NEW r, Enqueue(r) \/ UNCHANGED task,
         NEW e \in Deliveries, NEW q
  PROVE  Owns(e, q)' <=> Owns(e, q)
<1>1. Queued(r).pc \notin Working /\ "free" \notin Working
  BY DEF Queued, Working
<1>2. CASE UNCHANGED task
  BY <1>2 DEF Owns
<1>3. CASE Enqueue(r)
  <2>1. PICK d \in Deliveries : task[d].pc = "free" /\ task' = [task EXCEPT ![d] = Queued(r)]
    BY <1>3 DEF Enqueue
  <2>2. task'[e] = IF e = d THEN Queued(r) ELSE task[e]
    BY <2>1 DEF TypeOK
  <2>3. QED
    BY <1>1, <2>1, <2>2 DEF Owns
<1>4. QED
  BY <1>2, <1>3

LEMMA WakeKeeps ==
  ASSUME TypeOK, OneSweep, SweepInv, NEW c \in Collectors,
         Wake(c) \/ Stalled(c) \/ Swept(c) \/ SelectPending(c)
  PROVE  SweepInv'
<1>1. UNCHANGED <<state, stale, box, task>> /\ run[c].acks = {}
  BY DEF Wake, Stalled, Swept, SelectPending, PageDone, rows, InPc, PersistingOnly, SweepInv
<1>2. \E v : Step(c, v) /\ v.page = {} /\ v.acks = {} /\ v.pc \notin {"check", "requeue", "enqueue"}
  <2>1. \A pc \in {"drain", "stuck"} :
          LET v == [IdleRun EXCEPT !.pc = pc] IN v.page = {} /\ v.acks = {} /\ v.pc = pc
    BY DEF IdleRun
  <2>2. IdleRun.page = {} /\ IdleRun.acks = {} /\ IdleRun.pc = "idle"
    BY DEF IdleRun
  <2>3. \A sel : LET v == [IdleRun EXCEPT !.pc = "redrive", !.sel = sel]
                 IN  v.page = {} /\ v.acks = {} /\ v.pc = "redrive"
    BY DEF IdleRun
  <2>4. QED
    BY <2>1, <2>2, <2>3 DEF Wake, Stalled, Swept, SelectPending
<1>3. QED
  BY <1>1, <1>2, Restarted

LEMMA StuckKeeps ==
  ASSUME TypeOK, OneSweep, SweepInv, NEW c \in Collectors, SelectStuck(c) \/ CheckJob(c)
  PROVE  SweepInv'
<1>1. /\ UNCHANGED <<state, stale, box, task>>
      /\ run[c].pc \in {"stuck", "check"} /\ run[c].acks = {} /\ run[c].page = {}
  BY DEF SelectStuck, CheckJob, rows, InPc, PersistingOnly, SweepInv
<1>2. /\ run'[c].page = {} /\ run'[c].acks = {} /\ run'[c].pc \in {"check", "requeue", "enqueue"}
      /\ \A r \in run'[c].sel : Gone(r) \/ (state[r] = "transcribing" /\ r \in stale)
      /\ run'[c].pc = "requeue" => run'[c].cur \in run'[c].sel /\ box[run'[c].cur] = NoJob
  <2>1. CASE SelectStuck(c)
    <3>1. PICK sel \in SUBSET {r \in stale : state[r] = "transcribing"} :
            Step(c, [IdleRun EXCEPT !.pc = "check", !.sel = sel])
      BY <2>1 DEF SelectStuck, Limited
    <3>2. LET v == [IdleRun EXCEPT !.pc = "check", !.sel = sel]
          IN  v.page = {} /\ v.acks = {} /\ v.pc = "check" /\ v.sel = sel
      BY DEF IdleRun
    <3>3. QED
      BY <3>1, <3>2 DEF Step, TypeOK
  <2>2. CASE CheckJob(c)
    <3>1. PICK r \in run[c].sel :
            Step(c, IF box[r] = NoJob
                      THEN [run[c] EXCEPT !.pc = "requeue", !.cur = r]
                      ELSE [run[c] EXCEPT !.sel = @ \ {r}])
      BY <2>2 DEF CheckJob
    <3>2. /\ run'[c].page = run[c].page /\ run'[c].acks = run[c].acks
          /\ run'[c].sel \subseteq run[c].sel
          /\ \/ run'[c].pc = run[c].pc
             \/ /\ run'[c].pc = "requeue" /\ run'[c].cur = r /\ box[r] = NoJob
                /\ run'[c].sel = run[c].sel
      BY <3>1 DEF Step, TypeOK, Run
    <3>3. run[c].pc = "check"
      BY <2>2 DEF CheckJob, InPc
    <3>4. QED
      BY <1>1, <3>2, <3>3 DEF SelectedStuck, SweepInv
  <2>3. QED
    BY <2>1, <2>2
<1>3. (PageCurrent /\ PersistingOnly /\ SelectedStuck)'
  BY <1>1, <1>2, OneCollector DEF PageCurrent, PersistingOnly, SelectedStuck, Gone, InPc
<1>4. \A r \in Recordings : ~ToAck(r)
  BY <1>1, OneCollector DEF ToAck
<1>5. QED
  BY <1>1, <1>3, <1>4, QuietKeeps

LEMMA RequeueKeeps ==
  ASSUME TypeOK, OneSweep, SweepInv, NEW c \in Collectors, Requeue(c)
  PROVE  SweepInv'
<1>1. PICK r \in Recordings : r = run[c].cur
  BY DEF Requeue, InPc, TypeOK
<1>2. /\ run[c].pc = "requeue" /\ r \in run[c].sel /\ run[c].page = {} /\ run[c].acks = {}
      /\ ~Gone(r) => state[r] = "transcribing" /\ r \in stale /\ box[r] = NoJob
  BY <1>1 DEF Requeue, InPc, SelectedStuck, PersistingOnly, SweepInv
<1>3. /\ UNCHANGED <<box, task>> /\ Write(r, "pending")
      /\ Step(c, [run[c] EXCEPT !.pc = "enqueue", !.sel = @ \ {run[c].cur}])
  BY <1>1 DEF Requeue
<1>4. /\ \A q \in Recordings \ {r} : state'[q] = state[q]
      /\ Gone(r) => state'[r] = "absent"
      /\ stale' = stale \ {r}
  BY <1>3 DEF Write, TypeOK, Gone
<1>5. /\ run'[c].pc = "enqueue" /\ run'[c].sel = run[c].sel \ {r}
      /\ run'[c].page = {} /\ run'[c].acks = {}
  BY <1>1, <1>2, <1>3 DEF Step, TypeOK, Run
<1>6. /\ \A e \in Deliveries : \A q \in Recordings : Owns(e, q)' <=> Owns(e, q)
      /\ \A q \in Recordings : ~ToAck(q)
  BY <1>2, <1>3, OneCollector DEF ToAck, Owns
<1>7. ~Gone(r) => ~Owned(r)
  BY <1>2 DEF StaleUnowned, SweepInv
<1>8. ClaimExclusive' /\ OwnersClaimed' /\ StaleUnowned'
  <2>1. \A q \in Recordings : Owned(q)' <=> Owned(q)
    BY <1>6 DEF Owned
  <2>2. QED
    BY <1>4, <1>6, <1>7, <2>1
    DEF ClaimExclusive, OwnersClaimed, StaleUnowned, SweepInv, Gone, Owned, TypeOK
<1>9. QueuedAwaited' /\ ReadyAwaited'
  <2>1. NoJob.status \notin Ready \cup {"queued"}
    BY DEF NoJob, Ready
  <2>2. \A q \in Recordings \ {r} : Waits(q) => Waits(q)'
    BY <1>4, <1>6 DEF Waits, Owned
  <2>3. QED
    BY <1>2, <1>3, <1>4, <1>6, <2>1, <2>2 DEF QueuedAwaited, ReadyAwaited, SweepInv, Gone
<1>10. (PageCurrent /\ PersistingOnly /\ SelectedStuck)'
  <2>1. \A q \in run'[c].sel : Gone(q)' \/ (state'[q] = "transcribing" /\ q \in stale')
    BY <1>2, <1>4, <1>5 DEF SelectedStuck, SweepInv, Gone, TypeOK, Run
  <2>2. QED
    BY <1>5, <2>1, OneCollector DEF PageCurrent, PersistingOnly, SelectedStuck, InPc
<1>11. QED
  BY <1>8, <1>9, <1>10 DEF SweepInv

LEMMA RedriveKeeps ==
  ASSUME TypeOK, OneSweep, SweepInv, NEW c \in Collectors,
         Redrive(c) \/ RequeueTask(c)
  PROVE  SweepInv'
<1>1. /\ \E r : Enqueue(r) \/ UNCHANGED task
      /\ run[c].pc \in {"redrive", "enqueue"} /\ run[c].page = {} /\ run[c].acks = {}
      /\ UNCHANGED <<state, stale, box>>
  BY DEF Redrive, RequeueTask, TryEnqueue, InPc, PersistingOnly, SweepInv, rows
<1>2. \/ run[c].pc = "redrive" /\ \E r : Step(c, [run[c] EXCEPT !.sel = @ \ {r}])
      \/ run[c].pc = "enqueue" /\ Step(c, [run[c] EXCEPT !.pc = "check", !.cur = None])
  BY DEF Redrive, RequeueTask, InPc
<1>3. /\ run'[c].page = {} /\ run'[c].acks = {} /\ run'[c].sel \subseteq run[c].sel
      /\ run'[c].pc = "check" => run[c].pc = "enqueue"
      /\ run'[c].pc \in {"redrive", "check"}
  <2>1. CASE run[c].pc = "redrive"
    <3>1. PICK r : run' = [run EXCEPT ![c] = [run[c] EXCEPT !.sel = @ \ {r}]]
      BY <1>2, <2>1 DEF Step
    <3>2. QED
      BY <1>1, <2>1, <3>1 DEF TypeOK, Run
  <2>2. CASE run[c].pc = "enqueue"
    <3>1. run' = [run EXCEPT ![c] = [run[c] EXCEPT !.pc = "check", !.cur = None]]
      BY <1>2, <2>2 DEF Step
    <3>2. QED
      BY <1>1, <2>2, <3>1 DEF TypeOK, Run
  <2>3. QED
    BY <1>1, <2>1, <2>2
<1>4. /\ \A e \in Deliveries : \A q \in Recordings : Owns(e, q)' <=> Owns(e, q)
      /\ \A q \in Recordings : ~ToAck(q)
  BY <1>1, EnqueueOwners, OneCollector DEF ToAck
<1>5. ClaimExclusive' /\ OwnersClaimed'
  BY <1>1, <1>4 DEF ClaimExclusive, OwnersClaimed, SweepInv, Gone
<1>6. StaleUnowned' /\ QueuedAwaited' /\ ReadyAwaited'
  <2>1. \A q \in Recordings : Owned(q)' <=> Owned(q)
    BY <1>4 DEF Owned
  <2>2. QED
    BY <1>1, <1>4, <2>1
    DEF StaleUnowned, QueuedAwaited, ReadyAwaited, SweepInv, Gone, Waits, TypeOK
<1>7. (PageCurrent /\ PersistingOnly /\ SelectedStuck)'
  BY <1>1, <1>3, OneCollector
  DEF PageCurrent, PersistingOnly, SelectedStuck, SweepInv, Gone, InPc
<1>8. QED
  BY <1>5, <1>6, <1>7 DEF SweepInv

-----------------------------------------------------------------------------
(* The environment keeps the invariant *)

\* Steps that move no request in progress, no page and no row but to absent.
LEMMA AroundKeeps ==
  ASSUME TypeOK, OneSweep, SweepInv, NEW r \in Recordings, UNCHANGED <<box, run>>,
         \A e \in Deliveries : \A q \in Recordings : Owns(e, q)' <=> Owns(e, q),
         \A q \in Recordings : state'[q] = state[q] \/ state'[q] = "absent",
         \A q \in stale' : q \in stale \/ ~Owned(q) \/ state[q] # "transcribing",
         \A q \in stale : q \in stale' \/ state'[q] = "absent",
         stale' \subseteq Recordings
  PROVE  SweepInv'
<1>1. \A q \in Recordings : (Owned(q)' <=> Owned(q)) /\ (ToAck(q)' <=> ToAck(q))
  BY DEF Owned, ToAck
<1>2. \A q \in Recordings : Gone(q) => Gone(q)'
  BY DEF Gone
<1>3. ClaimExclusive' /\ OwnersClaimed' /\ StaleUnowned'
  BY <1>1 DEF ClaimExclusive, OwnersClaimed, StaleUnowned, SweepInv, Gone
<1>4. QueuedAwaited' /\ ReadyAwaited'
  BY <1>1, <1>2 DEF QueuedAwaited, ReadyAwaited, SweepInv, Gone, Waits
<1>5. PageCurrent' /\ PersistingOnly'
  BY <1>2, PageEntry DEF PageCurrent, PersistingOnly, SweepInv, InPc
<1>6. SelectedStuck'
  BY <1>2 DEF SelectedStuck, SweepInv, Gone, InPc, TypeOK, Run
<1>7. QED
  BY <1>3, <1>4, <1>5, <1>6 DEF SweepInv

LEMMA EnvironmentKeeps ==
  ASSUME TypeOK, OneSweep, SweepInv, NEW r \in Recordings, Environment(r)
  PROVE  SweepInv'
<1> USE DEF rows, world
<1>1. CASE Upload(r) \/ UploadedOrphan(r) \/ EditEvent(r) \/ DeleteEvent(r)
  <2>1. UNCHANGED <<state, stale, box, task, run>>
    BY <1>1 DEF Upload, UploadedOrphan, EditEvent, DeleteEvent
  <2>2. \A e \in Deliveries : \A q \in Recordings : Owns(e, q)' <=> Owns(e, q)
    BY <2>1 DEF Owns
  <2>3. QED
    BY <2>1, <2>2, AroundKeeps DEF TypeOK
<1>2. CASE Uploaded(r)
  <2>1. UNCHANGED <<state, stale, box, run>> /\ Enqueue(r)
    BY <1>2 DEF Uploaded
  <2>2. \A e \in Deliveries : \A q \in Recordings : Owns(e, q)' <=> Owns(e, q)
    BY <2>1, EnqueueOwners
  <2>3. QED
    BY <2>1, <2>2, AroundKeeps DEF TypeOK
<1>3. CASE Age(r)
  <2>1. /\ UNCHANGED <<state, box, task, run>> /\ stale' = stale \cup {r}
        /\ state[r] = "transcribing" => ~Owned(r)
    BY <1>3 DEF Age
  <2>2. \A e \in Deliveries : \A q \in Recordings : Owns(e, q)' <=> Owns(e, q)
    BY <2>1 DEF Owns
  <2>3. QED
    BY <2>1, <2>2, AroundKeeps DEF TypeOK
<1>4. CASE DeleteAccount(r)
  <2>1. /\ UNCHANGED <<box, run>> /\ stale' = stale \ {r}
        /\ state' = [state EXCEPT ![r] = "absent"]
        /\ task' = [d \in Deliveries |-> IF At(d, "queued") /\ task[d].rec = r
                                           THEN IdleTask ELSE task[d]]
    BY <1>4 DEF DeleteAccount
  <2>2. \A e \in Deliveries : \A q \in Recordings : Owns(e, q)' <=> Owns(e, q)
    <3>1. IdleTask.pc \notin Working /\ "queued" \notin Working
      BY DEF IdleTask, Working
    <3>2. QED
      BY <2>1, <3>1 DEF Owns, At
  <2>3. QED
    BY <2>1, <2>2, AroundKeeps DEF TypeOK
<1>5. CASE BoxFinishes(r)
  <2>1. PICK s \in Ready : box' = [box EXCEPT ![r].status = s]
    BY <1>5 DEF BoxFinishes, Ready
  <2>2. UNCHANGED <<state, stale, task, run>> /\ box[r].status = "queued"
    BY <1>5 DEF BoxFinishes
  <2>3. \A q \in Recordings \ {r} : box'[q] = box[q]
    BY <2>1 DEF TypeOK
  <2>4. box'[r].status = s
    BY <2>1 DEF TypeOK, Job
  <2>5. Gone(r) \/ Waits(r)
    BY <2>2 DEF QueuedAwaited, SweepInv
  <2>6. \A q \in Recordings : (Owned(q)' <=> Owned(q)) /\ (Waits(q)' <=> Waits(q))
                              /\ (Gone(q)' <=> Gone(q)) /\ (ToAck(q)' <=> ToAck(q))
    BY <2>2 DEF Owned, Owns, Waits, Gone, ToAck
  <2>7. ClaimExclusive' /\ OwnersClaimed' /\ StaleUnowned'
    BY <2>2, <2>6 DEF ClaimExclusive, OwnersClaimed, StaleUnowned, SweepInv, Gone, Owns, TypeOK
  <2>8. QueuedAwaited' /\ ReadyAwaited'
    <3>1. "queued" \notin Ready
      BY DEF Ready
    <3>2. QED
      BY <2>2, <2>3, <2>4, <2>5, <2>6, <3>1 DEF QueuedAwaited, ReadyAwaited, SweepInv
  <2>9. PageCurrent' /\ PersistingOnly'
    <3>1. \A c \in Collectors : \A j \in run[c].page : j.rec = r => Gone(r)
      BY <2>2, PageEntry DEF Ready
    <3>2. QED
      BY <2>2, <2>3, <2>6, <3>1, PageEntry DEF PageCurrent, PersistingOnly, SweepInv, InPc
  <2>10. SelectedStuck'
    <3>1. \A c \in Collectors : InPc(c, "requeue") /\ run[c].cur = r => Gone(r)
      BY <2>2 DEF SelectedStuck, SweepInv, InPc, NoJob
    <3>2. QED
      BY <2>2, <2>3, <2>6, <3>1 DEF SelectedStuck, SweepInv, InPc, Gone, TypeOK, Run
  <2>11. QED
    BY <2>7, <2>8, <2>9, <2>10 DEF SweepInv
<1>6. CASE BoxForgets(r)
  <2>1. /\ UNCHANGED <<state, stale, task, run>> /\ box' = [box EXCEPT ![r] = NoJob]
        /\ \A c \in Collectors : run[c].pc \in {"idle", "error"}
    BY <1>6 DEF BoxForgets
  <2>2. box'[r] = NoJob /\ \A q \in Recordings \ {r} : box'[q] = box[q]
    BY <2>1 DEF TypeOK
  <2>3. \A q \in Recordings : (Owned(q)' <=> Owned(q)) /\ (Waits(q)' <=> Waits(q))
                              /\ (Gone(q)' <=> Gone(q)) /\ (ToAck(q)' <=> ToAck(q))
    BY <2>1 DEF Owned, Owns, Waits, Gone, ToAck
  <2>4. ClaimExclusive' /\ OwnersClaimed' /\ StaleUnowned'
    BY <2>1, <2>3 DEF ClaimExclusive, OwnersClaimed, StaleUnowned, SweepInv, Gone, Owns, TypeOK
  <2>5. QueuedAwaited' /\ ReadyAwaited'
    <3>1. NoJob.status \notin Ready \cup {"queued"}
      BY DEF NoJob, Ready
    <3>2. QED
      BY <2>1, <2>2, <2>3, <3>1 DEF QueuedAwaited, ReadyAwaited, SweepInv
  <2>6. (PageCurrent /\ PersistingOnly /\ SelectedStuck)'
    BY <2>1 DEF PageCurrent, PersistingOnly, SelectedStuck, SweepInv
  <2>7. QED
    BY <2>4, <2>5, <2>6 DEF SweepInv
<1>7. QED
  BY <1>1, <1>2, <1>3, <1>4, <1>5, <1>6 DEF Environment

-----------------------------------------------------------------------------
(* The theorems *)

LEMMA SweepInvInductive ==
  ASSUME OneSweep, TypeOK, SweepInv, [Next]_vars
  PROVE  SweepInv'
<1>1. CASE UNCHANGED vars
  BY <1>1
  DEF vars, SweepInv, ClaimExclusive, OwnersClaimed, StaleUnowned, QueuedAwaited, ReadyAwaited,
      PageCurrent, PersistingOnly, SelectedStuck, Owns, Owned, Gone, Waits, ToAck, InPc
<1>2. ASSUME NEW c \in Collectors, Wake(c) \/ Collect(c) \/ Recover(c) \/ SweepFault(c)
      PROVE  SweepInv'
  <2>1. ~Fault("box_down") /\ ~Fault("crash")
    BY DEF OneSweep, Fault
  <2>2. QED
    BY <1>2, <2>1, PersistKeeps, DrainKeeps, SelectKeeps, AckKeeps, WakeKeeps, StuckKeeps,
       RequeueKeeps, RedriveKeeps
    DEF Collect, Recover, SweepFault, BoxFails, CheckFails, SweepDies
<1>3. QED
  BY <1>1, <1>2, WorkerKeeps, EnvironmentKeeps DEF Next

LEMMA SweepInvInit == Init => SweepInv
<1>1. ASSUME Init
      PROVE  SweepInv
  <2>1. /\ \A d \in Deliveries : task[d].pc \notin Working
        /\ \A c \in Collectors : run[c].pc = "idle" /\ run[c].page = {} /\ run[c].acks = {}
        /\ \A r \in Recordings : box[r].status = "none"
        /\ stale = {}
    BY <1>1 DEF Init, IdleTask, IdleRun, NoJob, Working
  <2>2. QED
    BY <2>1
    DEF SweepInv, ClaimExclusive, OwnersClaimed, StaleUnowned, QueuedAwaited, ReadyAwaited,
        PageCurrent, PersistingOnly, SelectedStuck, Owns, Ready
<1>2. QED
  BY <1>1

\* With one sweep at a time and no request or call dying halfway, every job on
\* the box and in a page is awaited by its row, and by nobody else.
THEOREM SweepCorrect ==
  ASSUME OneSweep
  PROVE  Spec => []SweepInv
<1>1. TypeOK /\ SweepInv /\ [Next]_vars => SweepInv'
  BY SweepInvInductive
<1>2. QED
  BY <1>1, SweepInvInit, TypeCorrect, PTL DEF Spec

\* The atomic claim: no two worker requests are past it for one recording.
THEOREM ClaimIsExclusive ==
  ASSUME OneSweep
  PROVE  Spec => []ClaimExclusive
<1>1. SweepInv => ClaimExclusive
  BY DEF SweepInv
<1>2. QED
  BY <1>1, SweepCorrect, PTL

-----------------------------------------------------------------------------
(* Refinement of the life of a recording *)

Stutters == UNCHANGED <<state, description>>

\* A write of a row is a step of the abstract life, or a write of a deleted row.
LEMMA WriteRefines ==
  ASSUME TypeOK, NEW r \in Recordings, NEW s, Write(r, s), UNCHANGED description,
         \/ Gone(r)
         \/ s = "transcribing" /\ state[r] \in {"pending", "failed"}
         \/ s \in {"pending", "failed"} /\ state[r] = "transcribing"
         \/ s = "failed" /\ state[r] = "done" /\ description[r] = "deleted"
  PROVE  Lifecycle!Next \/ Stutters
<1>1. state' = [state EXCEPT ![r] = IF state[r] = "absent" THEN state[r] ELSE s]
  BY DEF Write
<1>2. CASE Gone(r)
  <2>1. state' = state
    BY <1>1, <1>2 DEF TypeOK, Gone
  <2>2. QED
    BY <2>1 DEF Stutters
<1>3. CASE ~Gone(r)
  <2>1. state' = [state EXCEPT ![r] = s]
    BY <1>1, <1>3 DEF Gone
  <2>2. QED
    BY <1>3, <2>1
    DEF Lifecycle!Next, Lifecycle!Claim, Lifecycle!GiveBack, Lifecycle!Fail, Lifecycle!Set
<1>4. QED
  BY <1>2, <1>3

LEMMA WorkerRefines ==
  ASSUME TypeOK, OneSweep, SweepInv, NEW d \in Deliveries, Worker(d) \/ WorkerFault(d)
  PROVE  Lifecycle!Next \/ Stutters
<1>1. description' = description
  BY DEF Worker, WorkerFault, Claim, ClaimLost, CheckEvent, Download, Submit, SubmitConflict,
         Discard, RevertPending, MarkFailed, DownloadUnconfigured, DownloadRaises,
         SubmitNoAnswer, SubmitRefused, SubmitRejected, DiscardRefused, WorkerDies, rows
<1>2. task[d].rec \in Recordings
  BY WorkerFootprint
<1>3. CASE Claims(d)
  BY <1>1, <1>2, <1>3, WriteRefines DEF Claims
<1>4. CASE Moves(d) \/ Hands(d)
  BY <1>1, <1>4 DEF Moves, Hands, Stutters
<1>5. CASE Decides(d)
  <2>1. Gone(task[d].rec) \/ state[task[d].rec] = "transcribing"
    BY <1>2, <1>5 DEF Decides, Owns, OwnersClaimed, SweepInv
  <2>2. QED
    BY <1>1, <1>2, <1>5, <2>1, WriteRefines DEF Decides
<1>6. QED
  BY <1>3, <1>4, <1>5, WorkerFootprint

LEMMA SweepRefines ==
  ASSUME TypeOK, OneSweep, SweepInv, NEW c \in Collectors,
         Wake(c) \/ Collect(c) \/ Recover(c) \/ SweepFault(c)
  PROVE  Lifecycle!Next \/ Stutters
<1>1. CASE PersistFailure(c)
  <2>1. PICK j \in run[c].page :
          /\ j.status # "done" /\ state[j.rec] # "absent"
          /\ \E s \in {"pending", "failed"} : Write(j.rec, s)
    BY <1>1 DEF PersistFailure
  <2>2. j.rec \in Recordings /\ state[j.rec] = "transcribing"
    BY <2>1, PageEntry DEF Gone, Waits
  <2>3. description' = description
    BY <1>1 DEF PersistFailure
  <2>4. QED
    BY <2>1, <2>2, <2>3, WriteRefines
<1>2. CASE PersistNoEvent(c)
  <2>1. PICK j \in run[c].page :
          state[j.rec] # "absent" /\ description[j.rec] = "deleted" /\ Write(j.rec, "failed")
    BY <1>2 DEF PersistNoEvent
  <2>2. j.rec \in Recordings /\ state[j.rec] \in {"transcribing", "done"}
    BY <2>1, PageEntry DEF Gone, Waits
  <2>3. description' = description
    BY <1>2 DEF PersistNoEvent
  <2>4. QED
    BY <2>1, <2>2, <2>3, WriteRefines
<1>3. CASE PersistWrite(c)
  <2>1. PICK j \in run[c].page :
          /\ ~Skips(j.rec) /\ Fits(j) /\ Write(j.rec, "done")
          /\ description' = [description EXCEPT ![j.rec] = "transcript"]
    BY <1>3 DEF PersistWrite
  <2>2. j.rec \in Recordings /\ state[j.rec] = "transcribing" /\ description[j.rec] # "deleted"
    BY <2>1, PageEntry DEF Gone, Waits, Skips, Fits
  <2>3. state' = [state EXCEPT ![j.rec] = "done"]
    BY <2>1, <2>2 DEF Write
  <2>4. QED
    BY <2>1, <2>2, <2>3 DEF Lifecycle!Next, Lifecycle!Transcribe, Lifecycle!Set
<1>4. CASE Requeue(c)
  <2>1. PICK r \in Recordings : r = run[c].cur
    BY <1>4 DEF Requeue, InPc, TypeOK
  <2>2. Write(r, "pending") /\ description' = description
    BY <1>4, <2>1 DEF Requeue
  <2>3. Gone(r) \/ state[r] = "transcribing"
    BY <1>4, <2>1 DEF Requeue, SelectedStuck, SweepInv, InPc
  <2>4. QED
    BY <2>2, <2>3, WriteRefines
<1>5. CASE ~(PersistFailure(c) \/ PersistNoEvent(c) \/ PersistWrite(c) \/ Requeue(c))
  BY <1>5
  DEF Stutters, Collect, Recover, SweepFault, Wake, Drain, PersistUnknown, PersistSelect,
      PersistSkip, PersistRollback, Ack, Stalled, SelectStuck, CheckJob, RequeueTask,
      SelectPending, Redrive, Swept, PersistRaises, BoxFails, CheckFails, SweepDies, rows
<1>6. QED
  BY <1>1, <1>2, <1>3, <1>4, <1>5

LEMMA EnvironmentRefines ==
  ASSUME TypeOK, NEW r \in Recordings, Environment(r)
  PROVE  Lifecycle!Next \/ Stutters
<1>1. CASE EditEvent(r) \/ DeleteEvent(r)
  BY <1>1 DEF EditEvent, DeleteEvent, Lifecycle!Next, Lifecycle!Edit, Lifecycle!DeleteEvent
<1>2. CASE DeleteAccount(r)
  BY <1>2 DEF DeleteAccount, Lifecycle!Next, Lifecycle!Delete, Lifecycle!Set
<1>3. QED
  BY <1>1, <1>2
  DEF Environment, Upload, Uploaded, UploadedOrphan, BoxFinishes, BoxForgets, Age, rows, Stutters

\* The pipeline implements the life of a recording: each step of it claims, gives
\* back, transcribes, fails, edits or deletes one recording, or changes nothing
\* the user can see.
THEOREM Refinement ==
  ASSUME OneSweep
  PROVE  Spec => LifecycleSpec
<1>1. Init => Lifecycle!Init
  BY DEF Init, Lifecycle!Init
<1>2. TypeOK /\ SweepInv /\ [Next]_vars => [Lifecycle!Next]_<<state, description>>
  <2> SUFFICES ASSUME TypeOK, SweepInv, [Next]_vars
               PROVE  Lifecycle!Next \/ Stutters
    BY DEF Stutters
  <2>1. CASE UNCHANGED vars
    BY <2>1 DEF vars, Stutters
  <2>2. QED
    BY <2>1, WorkerRefines, SweepRefines, EnvironmentRefines DEF Next
<1>3. QED
  BY <1>1, <1>2, SweepCorrect, TypeCorrect, PTL DEF Spec, LifecycleSpec, Lifecycle!Spec

\* A recording whose transcript is stored stays done, or goes with its account.
THEOREM DoneStaysDone ==
  ASSUME OneSweep
  PROVE  Spec => DoneIsFinal
<1>1. ASSUME TypeOK, Lifecycle!Next \/ Stutters, NEW r \in Recordings,
             state[r] = "done", description[r] # "deleted"
      PROVE  state'[r] \in {"done", "absent"}
  BY <1>1
  DEF TypeOK, Stutters, Lifecycle!Next, Lifecycle!Claim, Lifecycle!GiveBack, Lifecycle!Transcribe,
      Lifecycle!Fail, Lifecycle!Edit, Lifecycle!DeleteEvent, Lifecycle!Delete, Lifecycle!Set
<1>2. TypeOK /\ [Lifecycle!Next]_<<state, description>>
        => \A r \in Recordings : state[r] = "done" /\ description[r] # "deleted"
             => state'[r] \in {"done", "absent"}
  BY <1>1 DEF Stutters
<1>3. QED
  BY <1>2, Refinement, TypeCorrect, PTL DEF DoneIsFinal, LifecycleSpec, Lifecycle!Spec
===============================================================================
