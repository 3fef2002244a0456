---------------------------- MODULE Account_proofs ----------------------------
(***************************************************************************)
(* Theorems about Account, for every number of recordings, deletions,      *)
(* uploads and failures.                                                   *)
(***************************************************************************)
EXTENDS Account, TLAPS

\* Everything that is the account's has its row.
RowsOwned ==
  /\ \A r \in Recordings : rec[r] = "live" => user
  /\ \A d \in Deletions : del[d].pc \in Holding => user

LockInv == AccountTypes /\ CollectsAll /\ RowsOwned

\* No URL, object, notice or handler without a row that is or was.
Made ==
  \A r \in Recordings :
    /\ r \in urls \/ r \in notices \/ audio[r] # 0 \/ handler[r] # "idle" => rec[r] # "none"
    /\ handler[r] = "orphan" => rec[r] = "gone"

\* What a deletion has listed is what there is, until there is nothing; then the identity goes.
PurgeInv ==
  \A d \in Deletions :
    /\ At(d, "purge") => \A r \in Recordings : audio[r] # 0 => audio[r] = del[d].listed[r]
    /\ del[d].pc \in {"auth", "row"} => audio = NoAudio
    /\ At(d, "row") => ~identity

EndInv == LockInv /\ Made /\ PurgeInv /\ OrphansNoticed

-----------------------------------------------------------------------------
(* Types *)

Del == [pc : Holding \cup {"idle", "wait"}, ids : SUBSET Recordings,
        listed : [Recordings -> 0..MaxUploads]]

LEMMA IdleType == IdleDel \in Del /\ NoAudio \in [Recordings -> 0..MaxUploads]
BY AccountAssumption DEF IdleDel, Del, NoAudio

LEMMA FaultType ==
  ASSUME AccountTypes, NEW k, Fault(k) \/ NoFault
  PROVE  faults' \in 0..MaxFaults
BY AccountAssumption DEF AccountTypes, Fault, NoFault

\* Every way a deletion moves keeps its type, and the lock its owner.
LEMMA MoveType ==
  ASSUME AccountTypes, NEW d \in Deletions
  PROVE  /\ End(d) => del' \in [Deletions -> Del] /\ lock' = None
         /\ \A pc \in Holding \cup {"idle", "wait"} : Go(d, pc) => del' \in [Deletions -> Del]
<1>1. del \in [Deletions -> Del]
  BY DEF AccountTypes, Del
<1>2. End(d) => del' \in [Deletions -> Del] /\ lock' = None
  BY <1>1, IdleType DEF End
<1>3. ASSUME NEW pc \in Holding \cup {"idle", "wait"}, Go(d, pc)
      PROVE  del' \in [Deletions -> Del]
  <2>1. del[d] \in Del
    BY <1>1
  <2>2. [del[d] EXCEPT !.pc = pc] \in Del
    BY <2>1 DEF Del
  <2>3. QED
    BY <1>1, <1>3, <2>2 DEF Go
<1>4. QED
  BY <1>2, <1>3

\* A deletion without the lock moves: the lock's owner is another one.
LEMMA LockKept ==
  ASSUME AccountTypes, NEW d \in Deletions, NEW pc, Go(d, pc), UNCHANGED lock,
         pc \in Holding \/ del[d].pc \notin Holding
  PROVE  lock' # None => del'[lock'].pc \in Holding
BY DEF AccountTypes, Go

LEMMA DeletionTypes ==
  ASSUME AccountTypes, NEW d \in Deletions, Begin(d) \/ Deletion(d) \/ DeletionFault(d)
  PROVE  AccountTypes'
<1> USE DEF Del
<1>1. faults' \in 0..MaxFaults
  BY FaultType
  DEF Begin, Deletion, DeletionFault, Lock, LockGone, CancelTasks, ListAudio, Purge, PurgeConflict,
      Purged, DeleteAuth, DeleteRow, CancelFails, PurgeFails, DeleteAuthFails, DeleteRowFails,
      DeletionDies
<1>2. CASE Begin(d)
  <2>1. del' \in [Deletions -> Del] /\ (lock' # None => del'[lock'].pc \in Holding)
    BY <1>2, MoveType, LockKept DEF Begin, At, Holding
  <2>2. QED
    BY <1>1, <1>2, <2>1 DEF Begin, AccountTypes, rows, uploads
<1>3. CASE Lock(d)
  <2>1. del \in [Deletions -> Del] /\ "cancel" \in Holding /\ Live \in SUBSET Recordings
    BY DEF AccountTypes, Holding, Live
  <2>2. [del EXCEPT ![d].pc = "cancel"] \in [Deletions -> Del]
    BY <2>1
  <2>3. \A f \in [Deletions -> Del] : [f EXCEPT ![d].ids = Live] \in [Deletions -> Del]
    BY <2>1
  <2>4. del' = [[del EXCEPT ![d].pc = "cancel"] EXCEPT ![d].ids = Live]
    BY <1>3 DEF Lock
  <2>5. del' \in [Deletions -> Del]
    BY <2>2, <2>3, <2>4, Zenon
  <2>6. del'[d].pc \in Holding
    BY <2>1, <2>4
  <2>7. QED
    BY <1>1, <1>3, <2>5, <2>6 DEF Lock, AccountTypes, rows, uploads
<1>4. CASE LockGone(d)
  BY <1>1, <1>4, MoveType, LockKept DEF LockGone, AccountTypes, rows, uploads, At, Holding
<1>5. CASE CancelTasks(d)
  BY <1>1, <1>5, MoveType, LockKept DEF CancelTasks, AccountTypes, rows, uploads, At, Holding
<1>6. CASE ListAudio(d)
  <2>1. /\ del \in [Deletions -> Del] /\ audio \in [Recordings -> 0..MaxUploads]
        /\ "purge" \in Holding
    BY DEF AccountTypes, Holding
  <2>2. [del EXCEPT ![d].pc = "purge"] \in [Deletions -> Del]
    BY <2>1
  <2>3. \A f \in [Deletions -> Del] : [f EXCEPT ![d].listed = audio] \in [Deletions -> Del]
    BY <2>1
  <2>4. del' = [[del EXCEPT ![d].pc = "purge"] EXCEPT ![d].listed = audio]
    BY <1>6 DEF ListAudio
  <2>5. del' \in [Deletions -> Del]
    BY <2>2, <2>3, <2>4, Zenon
  <2>6. del'[d].pc \in Holding /\ \A x \in Deletions : x # d => del'[x] = del[x]
    BY <2>1, <2>4
  <2>7. lock' # None => del'[lock'].pc \in Holding
    BY <1>6, <2>6 DEF ListAudio, AccountTypes
  <2>8. QED
    BY <1>1, <1>6, <2>5, <2>7 DEF ListAudio, AccountTypes, rows, uploads
<1>7. CASE Purge(d)
  <2>1. PICK r \in Recordings : /\ audio' = [audio EXCEPT ![r] = 0]
                               /\ del' = [del EXCEPT ![d].listed[r] = 0]
    BY <1>7 DEF Purge
  <2>2. del \in [Deletions -> Del] /\ 0 \in 0..MaxUploads
    BY AccountAssumption DEF AccountTypes
  <2>3. audio' \in [Recordings -> 0..MaxUploads]
    BY <2>1, <2>2 DEF AccountTypes
  <2>4. [del[d].listed EXCEPT ![r] = 0] \in [Recordings -> 0..MaxUploads]
    BY <2>2
  <2>5. del' \in [Deletions -> Del] /\ \A x \in Deletions : del'[x].pc = del[x].pc
    BY <2>1, <2>2, <2>4
  <2>6. QED
    BY <1>1, <1>7, <2>3, <2>5 DEF Purge, AccountTypes, rows
<1>8. CASE PurgeConflict(d) \/ CancelFails(d) \/ PurgeFails(d) \/ DeleteRowFails(d) \/ DeletionDies(d)
  BY <1>1, <1>8, MoveType
  DEF PurgeConflict, CancelFails, PurgeFails, DeleteRowFails, DeletionDies, AccountTypes, rows, uploads
<1>9. CASE Purged(d)
  BY <1>1, <1>9, MoveType, LockKept DEF Purged, AccountTypes, rows, uploads, At, Holding
<1>10. CASE DeleteAuth(d)
  BY <1>1, <1>10, MoveType, LockKept DEF DeleteAuth, AccountTypes, rows, uploads, At, Holding
<1>11. CASE DeleteAuthFails(d)
  BY <1>1, <1>11, MoveType DEF DeleteAuthFails, AccountTypes, rows, uploads
<1>12. CASE DeleteRow(d)
  BY <1>1, <1>12, MoveType DEF DeleteRow, AccountTypes, uploads
<1>13. QED
  BY <1>2, <1>3, <1>4, <1>5, <1>6, <1>7, <1>8, <1>9, <1>10, <1>11, <1>12 DEF Deletion, DeletionFault

\* The client's steps and those of one recording's audio.
Around(r) ==
  CreateEvent(r) \/ UrlExpires(r) \/ Upload(r) \/ Notice(r) \/ NoticeFails(r) \/ RunTask(r)

LEMMA AroundTypes ==
  ASSUME AccountTypes, NEW r \in Recordings, Around(r)
  PROVE  AccountTypes'
<1>1. faults' \in 0..MaxFaults
  BY FaultType
  DEF Around, CreateEvent, UrlExpires, Upload, Notice, NoticeSelect, NoticeEnqueue, NoticeOrphan,
      NoticeFails, RunTask
<1>2. CASE Upload(r)
  BY <1>1, <1>2, AccountAssumption DEF Upload, AccountTypes, rows
<1>3. CASE CreateEvent(r) \/ UrlExpires(r) \/ RunTask(r)
  BY <1>1, <1>3 DEF CreateEvent, UrlExpires, RunTask, AccountTypes, rows, uploads
<1>4. CASE NoticeSelect(r) \/ NoticeEnqueue(r) \/ NoticeOrphan(r) \/ NoticeFails(r)
  <2>1. notices' \subseteq Recordings /\ handler' \in [Recordings -> {"idle", "found", "orphan"}]
    BY <1>4 DEF NoticeSelect, NoticeEnqueue, NoticeOrphan, NoticeFails, AccountTypes
  <2>2. tasks' \subseteq Recordings /\ audio' \in [Recordings -> 0..MaxUploads]
    BY <1>4, AccountAssumption
    DEF NoticeSelect, NoticeEnqueue, NoticeOrphan, NoticeFails, AccountTypes
  <2>3. QED
    BY <1>1, <1>4, <2>1, <2>2
    DEF NoticeSelect, NoticeEnqueue, NoticeOrphan, NoticeFails, AccountTypes, rows
<1>5. QED
  BY <1>2, <1>3, <1>4 DEF Around, Notice

LEMMA NextTypes == AccountTypes /\ [Next]_vars => AccountTypes'
<1> SUFFICES ASSUME AccountTypes, [Next]_vars
             PROVE  AccountTypes'
  OBVIOUS
<1>1. CASE Provision \/ TokenExpires
  BY <1>1, FaultType DEF Provision, TokenExpires, AccountTypes, rows, uploads
<1>2. CASE UNCHANGED vars
  BY <1>2 DEF vars, AccountTypes
<1>3. QED
  BY <1>1, <1>2, DeletionTypes, AroundTypes DEF Next, Around

LEMMA TypesInit == Init => AccountTypes
<1> SUFFICES ASSUME Init
             PROVE  AccountTypes
  OBVIOUS
<1>1. del \in [Deletions -> Del]
  BY IdleType DEF Init
<1>2. {identity, token, user} \subseteq BOOLEAN
  BY DEF Init
<1>3. /\ rec \in [Recordings -> {"none", "live", "gone"}]
      /\ handler \in [Recordings -> {"idle", "found", "orphan"}]
      /\ audio \in [Recordings -> 0..MaxUploads] /\ faults \in 0..MaxFaults
  BY IdleType, AccountAssumption DEF Init
<1>4. /\ lock \in Deletions \cup {None} /\ lock = None
      /\ urls \subseteq Recordings /\ notices \subseteq Recordings /\ tasks \subseteq Recordings
  BY DEF Init
<1>5. QED
  BY <1>1, <1>2, <1>3, <1>4 DEF AccountTypes, Del

\* Every variable keeps its type, and the lock belongs to a deletion in progress.
THEOREM AccountTypeCorrect == Spec => []AccountTypes
BY TypesInit, NextTypes, PTL DEF Spec

-----------------------------------------------------------------------------
(* The lock *)

\* One deletion at a time is behind the lock.
LEMMA Alone ==
  ASSUME LockInv, NEW d \in Deletions, del[d].pc \in Holding
  PROVE  lock = d /\ user /\ \A x \in Deletions \ {d} : del[x].pc \notin Holding
BY DEF LockInv, CollectsAll, RowsOwned

\* A deletion goes on behind the lock: the same ids, no row changed.
LEMMA LockCarried ==
  ASSUME LockInv, NEW d \in Deletions, del[d].pc \in Holding, UNCHANGED <<lock, rows>>,
         \A x \in Deletions : /\ del'[x].ids = del[x].ids
                              /\ x # d => del'[x] = del[x]
  PROVE  CollectsAll' /\ RowsOwned'
<1>1. lock = d /\ user /\ del[d].ids = Live /\ \A x \in Deletions \ {d} : del[x].pc \notin Holding
  BY Alone DEF LockInv, CollectsAll
<1>2. Live' = Live
  BY DEF Live, rows
<1>3. QED
  BY <1>1, <1>2 DEF CollectsAll, RowsOwned, LockInv, rows

\* A deletion ends: nobody is behind the lock.
LEMMA LockFreed ==
  ASSUME LockInv, NEW d \in Deletions, del[d].pc \in Holding, End(d)
  PROVE  \A x \in Deletions : del'[x].pc \notin Holding
<1>1. \A x \in Deletions \ {d} : del[x].pc \notin Holding
  BY Alone
<1>2. \A x \in Deletions : del'[x] = IF x = d THEN IdleDel ELSE del[x]
  BY DEF End, LockInv, AccountTypes
<1>3. QED
  BY <1>1, <1>2 DEF IdleDel, Holding

\* A deletion moves outside the lock.
LEMMA LockElsewhere ==
  ASSUME LockInv, NEW d \in Deletions, UNCHANGED <<lock, rows>>,
         del'[d].pc \notin Holding, \A x \in Deletions \ {d} : del'[x] = del[x]
  PROVE  CollectsAll' /\ RowsOwned'
<1>1. Live' = Live
  BY DEF Live, rows
<1>2. QED
  BY <1>1 DEF LockInv, CollectsAll, RowsOwned, rows

LEMMA LockDeletion ==
  ASSUME LockInv, NEW d \in Deletions, Begin(d) \/ Deletion(d) \/ DeletionFault(d)
  PROVE  CollectsAll' /\ RowsOwned'
<1>0. del \in [Deletions -> Del]
  BY DEF LockInv, AccountTypes, Del
<1>1. CASE Begin(d) \/ LockGone(d)
  <2>1. /\ UNCHANGED <<lock, rows>> /\ del'[d].pc \in {"idle", "wait"}
        /\ \A x \in Deletions \ {d} : del'[x] = del[x]
    BY <1>0, <1>1 DEF Begin, LockGone, Go, Del
  <2>2. QED
    BY <2>1, LockElsewhere DEF Holding
<1>2. CASE Lock(d)
  <2>1. \A x \in Deletions : del[x].pc \notin Holding
    BY <1>2, AccountAssumption DEF Lock, LockInv, CollectsAll
  <2>2. /\ lock' = d /\ user /\ UNCHANGED rows
        /\ del'[d].ids = Live /\ \A x \in Deletions \ {d} : del'[x] = del[x]
    BY <1>0, <1>2 DEF Lock, Del
  <2>3. Live' = Live
    BY <2>2 DEF Live, rows
  <2>4. QED
    BY <2>1, <2>2, <2>3 DEF CollectsAll, RowsOwned, LockInv, rows
<1>3. CASE CancelTasks(d) \/ ListAudio(d) \/ Purged(d) \/ DeleteAuth(d)
  <2>1. /\ UNCHANGED <<lock, rows>> /\ del[d].pc \in Holding
        /\ \A x \in Deletions : /\ del'[x].ids = del[x].ids
                                /\ x # d => del'[x] = del[x]
    BY <1>0, <1>3 DEF CancelTasks, ListAudio, Purged, DeleteAuth, Go, At, Holding, Del
  <2>2. QED
    BY <2>1, LockCarried
<1>4. CASE Purge(d)
  <2>1. PICK r \in Recordings : del' = [del EXCEPT ![d].listed[r] = 0]
    BY <1>4 DEF Purge
  <2>2. \A x \in Deletions : /\ del'[x].ids = del[x].ids
                             /\ x # d => del'[x] = del[x]
    BY <1>0, <2>1 DEF Del
  <2>3. UNCHANGED <<lock, rows>> /\ del[d].pc \in Holding
    BY <1>4 DEF Purge, At, Holding
  <2>4. QED
    BY <2>2, <2>3, LockCarried
<1>5. CASE \/ PurgeConflict(d) \/ CancelFails(d) \/ PurgeFails(d) \/ DeleteAuthFails(d)
           \/ DeleteRowFails(d) \/ DeletionDies(d)
  <2>1. del[d].pc \in Holding /\ End(d) /\ UNCHANGED rows
    BY <1>5
    DEF PurgeConflict, CancelFails, PurgeFails, DeleteAuthFails, DeleteRowFails, DeletionDies, At, Holding
  <2>2. QED
    BY <2>1, LockFreed DEF CollectsAll, RowsOwned, LockInv, rows
<1>6. CASE DeleteRow(d)
  <2>1. del[d].pc \in Holding /\ End(d)
    BY <1>6 DEF DeleteRow, At, Holding
  <2>2. \A r \in Recordings : rec'[r] # "live"
    BY <1>6 DEF DeleteRow
  <2>3. QED
    BY <2>1, <2>2, LockFreed DEF CollectsAll, RowsOwned
<1>7. QED
  BY <1>1, <1>2, <1>3, <1>4, <1>5, <1>6 DEF Deletion, DeletionFault

LEMMA LockNext == LockInv /\ [Next]_vars => LockInv'
<1> SUFFICES ASSUME LockInv, [Next]_vars
             PROVE  CollectsAll' /\ RowsOwned'
  BY NextTypes DEF LockInv
<1>1. CASE Provision
  <2>1. Live' = Live /\ UNCHANGED <<lock, del>> /\ user' = TRUE
    BY <1>1 DEF Provision, Live
  <2>2. QED
    BY <2>1 DEF LockInv, CollectsAll, RowsOwned
<1>2. CASE \E r \in Recordings : CreateEvent(r) /\ rec' # rec
  <2>1. PICK r \in Recordings : CreateEvent(r) /\ rec' # rec
    BY <1>2
  <2>2. \A x \in Deletions : del[x].pc \notin Holding
    BY <2>1, AccountAssumption DEF CreateEvent, LockInv, CollectsAll
  <2>3. UNCHANGED <<user, del>> /\ user
    BY <2>1 DEF CreateEvent
  <2>4. QED
    BY <2>2, <2>3 DEF CollectsAll, RowsOwned
<1>3. CASE UNCHANGED <<lock, rows, del>>
  <2>1. Live' = Live
    BY <1>3 DEF Live, rows
  <2>2. QED
    BY <1>3, <2>1 DEF LockInv, CollectsAll, RowsOwned, rows
<1>4. ASSUME NEW r \in Recordings, Around(r)
      PROVE  UNCHANGED <<lock, rows, del>> \/ (CreateEvent(r) /\ rec' # rec)
  BY <1>4
  DEF Around, CreateEvent, UrlExpires, Upload, Notice, NoticeSelect, NoticeEnqueue, NoticeOrphan,
      NoticeFails, RunTask, rows
<1>5. TokenExpires \/ UNCHANGED vars => UNCHANGED <<lock, rows, del>>
  BY DEF TokenExpires, vars, rows
<1>6. CASE \E r \in Recordings : Around(r)
  BY <1>2, <1>3, <1>4, <1>6
<1>7. CASE \E d \in Deletions : Begin(d) \/ Deletion(d) \/ DeletionFault(d)
  BY <1>7, LockDeletion
<1>8. QED
  BY <1>1, <1>3, <1>5, <1>6, <1>7 DEF Next, Around

LEMMA LockInit == Init => LockInv
<1> SUFFICES ASSUME Init
             PROVE  LockInv
  OBVIOUS
<1>1. \A d \in Deletions : del[d].pc \notin Holding
  BY DEF Init, IdleDel, Holding
<1>2. \A r \in Recordings : rec[r] # "live"
  BY DEF Init
<1>3. QED
  BY <1>1, <1>2, TypesInit DEF LockInv, CollectsAll, RowsOwned

LEMMA LockAlways == Spec => []LockInv
BY LockInit, LockNext, PTL DEF Spec

\* While a deletion is behind its lock, the ids it has read are all the rows there are: no
\* recording created meanwhile escapes the cancellation of its task, whatever fails.
THEOREM NoIdMissed == Spec => []CollectsAll
<1>1. LockInv => CollectsAll
  BY DEF LockInv
<1>2. QED
  BY <1>1, LockAlways, PTL
-----------------------------------------------------------------------------
(* The order of the end *)

\* No upload between the listing of the audio and the end of the deletion.
NoLateUpload == "late_upload" \notin Faults

\* What Made and OrphansNoticed say of one recording.
MadeOne(r) ==
  /\ r \in urls \/ r \in notices \/ audio[r] # 0 \/ handler[r] # "idle" => rec[r] # "none"
  /\ handler[r] = "orphan" => rec[r] = "gone"
  /\ rec[r] = "gone" /\ audio[r] # 0 => r \in notices \/ handler[r] = "orphan"

LEMMA EndParts == EndInv <=> LockInv /\ PurgeInv /\ \A r \in Recordings : MadeOne(r)
BY DEF EndInv, Made, OrphansNoticed, MadeOne

\* The steps of a deletion that change no row and add no object keep every recording's part.
LEMMA MadeKept ==
  ASSUME EndInv, UNCHANGED <<rec, urls, notices, handler>>,
         \A r \in Recordings : audio'[r] \in {audio[r], 0}
  PROVE  \A r \in Recordings : MadeOne(r)'
BY EndParts DEF MadeOne

LEMMA MadeDeletion ==
  ASSUME EndInv, NEW d \in Deletions, Begin(d) \/ Deletion(d) \/ DeletionFault(d)
  PROVE  \A r \in Recordings : MadeOne(r)'
<1>0. AccountTypes
  BY DEF EndInv, LockInv
<1>1. CASE DeleteRow(d)
  <2>1. audio = NoAudio
    BY <1>1 DEF DeleteRow, EndInv, PurgeInv, At
  <2>2. UNCHANGED <<urls, audio, notices, handler>>
    BY <1>1 DEF DeleteRow, uploads
  <2>3. \A r \in Recordings : rec'[r] = IF rec[r] = "live" THEN "gone" ELSE rec[r]
    BY <1>1 DEF DeleteRow
  <2>4. \A r \in Recordings : audio[r] = 0
    BY <2>1 DEF NoAudio
  <2>5. QED
    BY <2>2, <2>3, <2>4, EndParts DEF MadeOne
<1>2. CASE Purge(d)
  <2>1. PICK r \in Recordings : audio' = [audio EXCEPT ![r] = 0]
    BY <1>2 DEF Purge
  <2>2. \A x \in Recordings : audio'[x] \in {audio[x], 0}
    BY <1>0, <2>1 DEF AccountTypes
  <2>3. UNCHANGED <<rec, urls, notices, handler>>
    BY <1>2 DEF Purge, rows
  <2>4. QED
    BY <2>2, <2>3, MadeKept
<1>3. CASE UNCHANGED <<rows, uploads>>
  BY <1>3, MadeKept DEF rows, uploads
<1>4. QED
  BY <1>1, <1>2, <1>3
  DEF Begin, Deletion, DeletionFault, Lock, LockGone, CancelTasks, ListAudio, PurgeConflict, Purged,
      DeleteAuth, CancelFails, PurgeFails, DeleteAuthFails, DeleteRowFails, DeletionDies

\* A deletion ends, and with it what its listing promised.
LEMMA PurgeEnded ==
  ASSUME EndInv, NEW d \in Deletions, del[d].pc \in Holding, End(d)
  PROVE  PurgeInv'
BY LockFreed DEF EndInv, PurgeInv, At, Holding

\* Only the deletion behind the lock has a listing.
LEMMA PurgeMine ==
  ASSUME EndInv, NEW d \in Deletions, del[d].pc \in Holding,
         \A x \in Deletions \ {d} : del'[x] = del[x],
         At(d, "purge")' => \A r \in Recordings : audio'[r] # 0 => audio'[r] = del'[d].listed[r],
         del'[d].pc \in {"auth", "row"} => audio' = NoAudio,
         At(d, "row")' => ~identity'
  PROVE  PurgeInv'
<1>1. \A x \in Deletions \ {d} : del'[x].pc \notin Holding
  BY Alone DEF EndInv
<1>2. QED
  BY <1>1 DEF PurgeInv, At, Holding

LEMMA PurgeDeletion ==
  ASSUME EndInv, NEW d \in Deletions, Begin(d) \/ Deletion(d) \/ DeletionFault(d)
  PROVE  PurgeInv'
<1>0. del \in [Deletions -> Del] /\ audio \in [Recordings -> 0..MaxUploads] /\ LockInv
  BY DEF EndInv, LockInv, AccountTypes, Del
<1>1. CASE Begin(d) \/ Lock(d) \/ LockGone(d)
  <2>1. /\ del'[d].pc \in {"idle", "wait", "cancel"} /\ \A x \in Deletions \ {d} : del'[x] = del[x]
        /\ UNCHANGED <<audio, identity>>
    BY <1>0, <1>1 DEF Begin, Lock, LockGone, Go, Del, uploads
  <2>2. QED
    BY <2>1 DEF EndInv, PurgeInv, At
<1>2. CASE CancelTasks(d)
  <2>1. /\ del'[d].pc = "list" /\ del[d].pc \in Holding
        /\ \A x \in Deletions \ {d} : del'[x] = del[x]
    BY <1>0, <1>2 DEF CancelTasks, Go, Del, At, Holding
  <2>2. QED
    BY <2>1, PurgeMine DEF At
<1>3. CASE ListAudio(d)
  <2>1. /\ del'[d].pc = "purge" /\ del[d].pc \in Holding /\ del'[d].listed = audio /\ UNCHANGED audio
        /\ \A x \in Deletions \ {d} : del'[x] = del[x]
    BY <1>0, <1>3 DEF ListAudio, Del, At, Holding, uploads
  <2>2. QED
    BY <2>1, PurgeMine DEF At
<1>4. CASE Purge(d)
  <2>1. PICK r \in Recordings : /\ audio' = [audio EXCEPT ![r] = 0]
                               /\ del' = [del EXCEPT ![d].listed[r] = 0]
    BY <1>4 DEF Purge
  <2>2. /\ del'[d].pc = "purge" /\ del[d].pc \in Holding /\ At(d, "purge")
        /\ \A x \in Deletions \ {d} : del'[x] = del[x]
    BY <1>0, <1>4, <2>1 DEF Purge, At, Holding, Del
  <2>3. \A x \in Recordings \ {r} : del'[d].listed[x] = del[d].listed[x]
    BY <1>0, <2>1 DEF Del
  <2>4. \A x \in Recordings : audio'[x] = IF x = r THEN 0 ELSE audio[x]
    BY <1>0, <2>1
  <2>5. \A x \in Recordings : audio'[x] # 0 => audio'[x] = del'[d].listed[x]
    BY <2>2, <2>3, <2>4 DEF EndInv, PurgeInv
  <2>6. QED
    BY <2>2, <2>5, PurgeMine DEF At
<1>5. CASE Purged(d)
  <2>1. /\ del'[d].pc = "auth" /\ del[d].pc \in Holding /\ UNCHANGED audio
        /\ \A x \in Deletions \ {d} : del'[x] = del[x]
    BY <1>0, <1>5 DEF Purged, Go, Del, At, Holding, uploads
  <2>2. \A r \in Recordings : audio[r] = 0
    BY <1>5 DEF Purged, EndInv, PurgeInv, NoAudio
  <2>3. audio = NoAudio
    BY <1>0, <2>2 DEF NoAudio
  <2>4. QED
    BY <2>1, <2>3, PurgeMine DEF At
<1>6. CASE DeleteAuth(d)
  <2>1. /\ del'[d].pc = "row" /\ del[d].pc \in Holding /\ UNCHANGED audio /\ identity' = FALSE
        /\ \A x \in Deletions \ {d} : del'[x] = del[x]
    BY <1>0, <1>6 DEF DeleteAuth, Go, Del, At, Holding, uploads
  <2>2. audio = NoAudio
    BY <1>6 DEF DeleteAuth, EndInv, PurgeInv, At
  <2>3. NoAudio' = NoAudio
    BY DEF NoAudio
  <2>4. QED
    BY <2>1, <2>2, PurgeMine DEF At
<1>7. CASE DeleteRow(d) \/ DeletionFault(d) \/ PurgeConflict(d)
  <2>1. del[d].pc \in Holding /\ End(d)
    BY <1>7
    DEF DeleteRow, DeletionFault, PurgeConflict, CancelFails, PurgeFails, DeleteAuthFails,
        DeleteRowFails, DeletionDies, At, Holding
  <2>2. QED
    BY <2>1, PurgeEnded
<1>8. QED
  BY <1>1, <1>2, <1>3, <1>4, <1>5, <1>6, <1>7 DEF Deletion

LEMMA EndAround ==
  ASSUME EndInv, NoLateUpload, NEW r \in Recordings, Around(r)
  PROVE  PurgeInv' /\ \A x \in Recordings : MadeOne(x)'
<1>0. /\ AccountTypes /\ PurgeInv /\ UNCHANGED <<identity, del>>
      /\ \A x \in Recordings : MadeOne(x)
  BY EndParts
  DEF EndInv, LockInv, Around, CreateEvent, UrlExpires, Upload, Notice, NoticeSelect, NoticeEnqueue,
      NoticeOrphan, NoticeFails, RunTask
<1>1. CASE CreateEvent(r) \/ UrlExpires(r) \/ RunTask(r)
  <2>1. /\ UNCHANGED <<audio, notices, handler>>
        /\ \A x \in Recordings : \/ rec'[x] = rec[x]
                                 \/ rec[x] = "none" /\ rec'[x] = "live"
    BY <1>0, <1>1 DEF CreateEvent, UrlExpires, RunTask, AccountTypes, rows, uploads
  <2>2. \A x \in Recordings : x \in urls' => x \in urls \/ rec'[x] = "live"
    BY <1>0, <1>1 DEF CreateEvent, UrlExpires, RunTask, AccountTypes, rows, uploads
  <2>3. QED
    BY <1>0, <2>1, <2>2 DEF MadeOne, PurgeInv, At, NoAudio
<1>2. CASE Upload(r)
  <2>1. \A d \in Deletions : del[d].pc \notin {"purge", "auth", "row"}
    BY <1>2 DEF Upload, Fault, NoLateUpload
  <2>2. /\ r \in urls /\ notices' = notices \cup {r} /\ UNCHANGED <<rec, urls, handler>>
        /\ \A x \in Recordings \ {r} : audio'[x] = audio[x]
    BY <1>0, <1>2 DEF Upload, AccountTypes, rows
  <2>3. PurgeInv'
    BY <1>0, <2>1 DEF PurgeInv, At
  <2>4. QED
    BY <1>0, <2>2, <2>3 DEF MadeOne
<1>3. CASE Notice(r) \/ NoticeFails(r)
  <2>1. /\ UNCHANGED <<rec, urls>> /\ \A x \in Recordings : audio'[x] \in {audio[x], 0}
        /\ \A x \in Recordings \ {r} : /\ x \in notices' <=> x \in notices
                                       /\ handler'[x] = handler[x]
    BY <1>0, <1>3
    DEF Notice, NoticeSelect, NoticeEnqueue, NoticeOrphan, NoticeFails, AccountTypes, rows
  <2>2. PurgeInv'
    <3>1. \A x \in Recordings : audio'[x] # 0 => audio'[x] = audio[x]
      BY <2>1
    <3>2. audio = NoAudio => audio' = NoAudio
      BY <1>0, <1>3
      DEF Notice, NoticeSelect, NoticeEnqueue, NoticeOrphan, NoticeFails, AccountTypes, NoAudio
    <3>3. NoAudio' = NoAudio
      BY DEF NoAudio
    <3>4. QED
      BY <1>0, <3>1, <3>2, <3>3 DEF PurgeInv, At
  <2>3. MadeOne(r)'
    <3>1. CASE NoticeSelect(r)
      BY <1>0, <3>1 DEF NoticeSelect, MadeOne, AccountTypes, rows
    <3>2. CASE NoticeOrphan(r)
      BY <1>0, <3>2 DEF NoticeOrphan, MadeOne, AccountTypes, rows
    <3>3. CASE NoticeEnqueue(r) \/ NoticeFails(r)
      BY <1>0, <3>3 DEF NoticeEnqueue, NoticeFails, MadeOne, AccountTypes, rows
    <3>4. QED
      BY <1>3, <3>1, <3>2, <3>3 DEF Notice
  <2>4. QED
    BY <1>0, <2>1, <2>2, <2>3 DEF MadeOne
<1>4. QED
  BY <1>1, <1>2, <1>3 DEF Around

LEMMA EndNext ==
  ASSUME NoLateUpload, EndInv, [Next]_vars
  PROVE  EndInv'
<1>0. SUFFICES PurgeInv' /\ \A r \in Recordings : MadeOne(r)'
  <2>1. ASSUME \A r \in Recordings : MadeOne(r)'
        PROVE  Made' /\ OrphansNoticed'
    BY <2>1 DEF Made, OrphansNoticed, MadeOne
  <2>2. LockInv'
    BY LockNext DEF EndInv
  <2>3. QED
    BY <2>1, <2>2 DEF EndInv
<1>1. CASE \E d \in Deletions : Begin(d) \/ Deletion(d) \/ DeletionFault(d)
  BY <1>1, MadeDeletion, PurgeDeletion
<1>2. CASE \E r \in Recordings : Around(r)
  BY <1>2, EndAround
<1>3. CASE Provision \/ TokenExpires \/ UNCHANGED vars
  <2>1. UNCHANGED <<identity, rec, uploads, del>>
    BY <1>3 DEF Provision, TokenExpires, vars, rows, uploads
  <2>2. UNCHANGED <<urls, audio, notices, handler>>
    BY <2>1 DEF uploads
  <2>3. QED
    BY <2>1, <2>2, EndParts DEF PurgeInv, MadeOne, At, NoAudio
<1>4. QED
  BY <1>1, <1>2, <1>3 DEF Next, Around

LEMMA EndInit == Init => EndInv
<1> SUFFICES ASSUME Init
             PROVE  EndInv
  OBVIOUS
<1>1. \A d \in Deletions : del[d].pc = "idle"
  BY DEF Init, IdleDel
<1>2. \A r \in Recordings : /\ rec[r] = "none" /\ audio[r] = 0 /\ handler[r] = "idle"
                            /\ r \notin urls /\ r \notin notices
  BY DEF Init, NoAudio
<1>3. QED
  BY <1>1, <1>2, LockInit, EndParts DEF PurgeInv, MadeOne, At

LEMMA EndAlways ==
  ASSUME NoLateUpload
  PROVE  Spec => []EndInv
<1>1. EndInv /\ [Next]_vars => EndInv'
  BY EndNext
<1>2. QED
  BY <1>1, EndInit, PTL DEF Spec

\* Without a late upload the identity goes last: the step that deletes it finds nothing of
\* the account in the bucket, whatever failed, died or was asked again before.
THEOREM AuthLast ==
  ASSUME NoLateUpload
  PROVE  Spec => AuthGoesLast
<1>1. ASSUME EndInv, [Next]_vars, identity, ~identity'
      PROVE  audio = NoAudio
  <2>1. ASSUME NEW r \in Recordings, Around(r)
        PROVE  identity' = identity
    BY <2>1
    DEF Around, CreateEvent, UrlExpires, Upload, Notice, NoticeSelect, NoticeEnqueue, NoticeOrphan,
        NoticeFails, RunTask
  <2>2. ~(Provision \/ TokenExpires \/ UNCHANGED vars)
    BY <1>1 DEF Provision, TokenExpires, vars
  <2>3. PICK d \in Deletions : Begin(d) \/ Deletion(d) \/ DeletionFault(d)
    BY <1>1, <2>1, <2>2 DEF Next, Around
  <2>4. At(d, "auth")
    BY <1>1, <2>3
    DEF Begin, Deletion, DeletionFault, Lock, LockGone, CancelTasks, ListAudio, Purge, PurgeConflict,
        Purged, DeleteAuth, DeleteRow, CancelFails, PurgeFails, DeleteAuthFails, DeleteRowFails,
        DeletionDies
  <2>5. QED
    BY <1>1, <2>4 DEF EndInv, PurgeInv, At
<1>2. EndInv /\ [Next]_vars => [identity /\ ~identity' => audio = NoAudio]_vars
  BY <1>1
<1>3. QED
  BY <1>2, EndAlways, PTL DEF Spec, AuthGoesLast

\* Without a late upload, audio whose row is gone always has the notice to come that removes it.
THEOREM OrphansAwaited ==
  ASSUME NoLateUpload
  PROVE  Spec => []OrphansNoticed
<1>1. EndInv => OrphansNoticed
  BY DEF EndInv
<1>2. QED
  BY <1>1, EndAlways, PTL

-----------------------------------------------------------------------------
(* Refinement of AccountEnd *)

Gone == {r \in Recordings : rec[r] = "gone"}
Kept == {r \in Recordings : audio[r] # 0}
Stutters == UNCHANGED <<identity, user, Live, Gone, Kept>>

LEMMA Unchanged ==
  ASSUME UNCHANGED <<identity, rows, audio>>
  PROVE  Stutters
BY DEF rows, Live, Gone, Kept, Stutters

\* A deletion takes the audio while it has the row, the identity once the audio is gone, the
\* row once the identity is; nothing else of it can be seen.
LEMMA DeletionRefines ==
  ASSUME EndInv, NEW d \in Deletions, Begin(d) \/ Deletion(d) \/ DeletionFault(d)
  PROVE  Ending!Next \/ Stutters
<1>0. audio \in [Recordings -> 0..MaxUploads]
  BY DEF EndInv, LockInv, AccountTypes
<1>1. CASE Purge(d)
  <2>1. PICK r \in Recordings : audio' = [audio EXCEPT ![r] = 0]
    BY <1>1 DEF Purge
  <2>2. user
    BY <1>1, Alone DEF EndInv, Purge, At, Holding
  <2>3. Kept' = Kept \ {r}
    BY <1>0, <2>1 DEF Kept
  <2>4. UNCHANGED <<identity, user, Live, Gone>>
    BY <1>1 DEF Purge, rows, Live, Gone
  <2>5. QED
    BY <2>2, <2>3, <2>4 DEF Ending!Next, Ending!Remove, Live, Gone, Kept
<1>2. CASE DeleteRow(d)
  <2>1. user /\ ~identity /\ audio = NoAudio
    BY <1>2, Alone DEF EndInv, PurgeInv, DeleteRow, At, Holding
  <2>2. /\ user' = FALSE /\ UNCHANGED <<identity, audio>>
        /\ \A r \in Recordings : rec'[r] = IF rec[r] = "live" THEN "gone" ELSE rec[r]
    BY <1>2 DEF DeleteRow, uploads
  <2>3. Kept = {} /\ Kept' = Kept
    BY <2>1, <2>2 DEF Kept, NoAudio
  <2>4. Live' = {} /\ Gone' = Gone \cup Live
    BY <2>2 DEF Live, Gone
  <2>5. QED
    BY <2>1, <2>2, <2>3, <2>4 DEF Ending!Next, Ending!End, Live, Gone, Kept
<1>3. CASE (DeleteAuth(d) \/ DeleteAuthFails(d)) /\ identity' # identity
  <2>1. /\ identity' = FALSE /\ identity /\ At(d, "auth") /\ UNCHANGED <<rows, audio>>
    BY <1>3 DEF DeleteAuth, DeleteAuthFails, EndInv, LockInv, AccountTypes, uploads
  <2>2. user /\ audio = NoAudio
    BY <2>1, Alone DEF EndInv, PurgeInv, At, Holding
  <2>3. Kept = {}
    BY <2>2 DEF Kept, NoAudio
  <2>4. UNCHANGED <<user, Live, Gone, Kept>>
    BY <2>1 DEF rows, Live, Gone, Kept
  <2>5. QED
    BY <2>1, <2>2, <2>3, <2>4 DEF Ending!Next, Ending!Forget, Live, Gone, Kept
<1>4. CASE UNCHANGED <<identity, rows, audio>>
  BY <1>4, Unchanged
<1>5. QED
  BY <1>1, <1>2, <1>3, <1>4
  DEF Begin, Deletion, DeletionFault, Lock, LockGone, CancelTasks, ListAudio, PurgeConflict, Purged,
      DeleteAuth, CancelFails, PurgeFails, DeleteAuthFails, DeleteRowFails, DeletionDies, uploads

\* The client records and uploads, and the notice of an orphan removes it.
LEMMA AroundRefines ==
  ASSUME EndInv, NEW r \in Recordings, Around(r)
  PROVE  Ending!Next \/ Stutters
<1>0. /\ audio \in [Recordings -> 0..MaxUploads] /\ rec \in [Recordings -> {"none", "live", "gone"}]
      /\ MadeOne(r)
  BY EndParts DEF EndInv, LockInv, AccountTypes
<1>1. CASE CreateEvent(r) /\ rec' # rec
  <2>1. /\ user /\ rec[r] = "none" /\ rec' = [rec EXCEPT ![r] = "live"]
        /\ UNCHANGED <<identity, user, audio>>
    BY <1>1 DEF CreateEvent
  <2>2. r \notin Live \cup Gone /\ Live' = Live \cup {r} /\ Gone' = Gone /\ Kept' = Kept
    BY <1>0, <2>1 DEF Live, Gone, Kept
  <2>3. QED
    BY <2>1, <2>2 DEF Ending!Next, Ending!Record, Live, Gone, Kept
<1>2. CASE Upload(r)
  <2>1. rec[r] # "none" /\ audio' = [audio EXCEPT ![r] = @ + 1] /\ UNCHANGED <<identity, user, rec>>
    BY <1>0, <1>2 DEF Upload, MadeOne, rows
  <2>2. r \in Live \cup Gone
    BY <1>0, <2>1 DEF Live, Gone
  <2>3. audio[r] \in Nat
    BY <1>0, AccountAssumption
  <2>4. Kept' = Kept \cup {r} /\ Live' = Live /\ Gone' = Gone
    BY <1>0, <2>1, <2>3 DEF Live, Gone, Kept
  <2>5. QED
    BY <2>1, <2>2, <2>4 DEF Ending!Next, Ending!Store, Live, Gone, Kept
<1>3. CASE NoticeOrphan(r)
  <2>1. rec[r] = "gone" /\ audio' = [audio EXCEPT ![r] = 0] /\ UNCHANGED <<identity, user, rec>>
    BY <1>0, <1>3 DEF NoticeOrphan, MadeOne, rows
  <2>2. r \in Gone /\ Kept' = Kept \ {r} /\ Live' = Live /\ Gone' = Gone
    BY <1>0, <2>1 DEF Live, Gone, Kept
  <2>3. QED
    BY <2>1, <2>2 DEF Ending!Next, Ending!Remove, Live, Gone, Kept
<1>4. CASE UNCHANGED <<identity, rows, audio>>
  BY <1>4, Unchanged
<1>5. QED
  BY <1>1, <1>2, <1>3, <1>4
  DEF Around, CreateEvent, UrlExpires, Notice, NoticeSelect, NoticeEnqueue, NoticeFails, RunTask,
      rows, uploads

\* Without a late upload the deletion keeps its promise: the audio goes before the identity, the
\* identity before the rows, the rows at once, and only what is gone is stored for later.
THEOREM AccountRefines ==
  ASSUME NoLateUpload
  PROVE  Spec => AccountEndSpec
<1>1. ASSUME Init
      PROVE  Ending!Init
  <2>1. Live = {} /\ Gone = {} /\ Kept = {}
    BY <1>1 DEF Init, Live, Gone, Kept, NoAudio
  <2>2. QED
    BY <1>1, <2>1 DEF Init, Ending!Init, Live, Gone, Kept
<1>2. ASSUME EndInv, [Next]_vars
      PROVE  [Ending!Next]_(Ending!vars)
  <2>1. SUFFICES Ending!Next \/ Stutters
    BY DEF Stutters, Ending!vars, Live, Gone, Kept
  <2>2. CASE Provision
    <3>1. ~user /\ user' = TRUE /\ UNCHANGED <<identity, Live, Gone, Kept>>
      BY <2>2 DEF Provision, uploads, Live, Gone, Kept
    <3>2. QED
      BY <3>1 DEF Ending!Next, Ending!Enter, Live, Gone, Kept
  <2>3. CASE TokenExpires \/ UNCHANGED vars
    BY <2>3, Unchanged DEF TokenExpires, vars, rows, uploads
  <2>4. CASE \E d \in Deletions : Begin(d) \/ Deletion(d) \/ DeletionFault(d)
    BY <1>2, <2>4, DeletionRefines
  <2>5. CASE \E r \in Recordings : Around(r)
    BY <1>2, <2>5, AroundRefines
  <2>6. QED
    BY <1>2, <2>2, <2>3, <2>4, <2>5 DEF Next, Around
<1>3. EndInv /\ [Next]_vars => [Ending!Next]_(Ending!vars)
  BY <1>2
<1>4. QED
  BY <1>1, <1>3, EndAlways, PTL DEF Spec, AccountEndSpec, Ending!Spec
===============================================================================
