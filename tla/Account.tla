-------------------------------- MODULE Account --------------------------------
(***************************************************************************)
(* Deleting an account (src/app/services/users.py) while its other actors  *)
(* go on: requests with a token that outlives the identity, uploads to     *)
(* signed URLs that outlive the rows, and the finalize notices of those    *)
(* uploads (src/app/routers/internal.py).  One account; its recordings     *)
(* stand for everything the users row cascades to.                         *)
(***************************************************************************)
EXTENDS Naturals

CONSTANTS
  Recordings,  \* recordings.id, each used once (uuid4)
  None,        \* no deletion
  Deletions,   \* DELETE /users/me requests that can run at one time
  MaxUploads,  \* generations of an object (bounds the model)
  Faults,      \* kinds of failure and lateness the environment may cause
  MaxFaults    \* of these in one behaviour (bounds the model)

FaultKinds ==
  { "queue",        \* Cloud Tasks fails the listing or a task's deletion
    "storage",      \* GCS fails a listing or a deletion
    "auth",         \* Supabase refuses to delete the identity
    "auth_lost",    \* Supabase deletes the identity, the answer is lost
    "db",           \* the last transaction is not committed
    "crash",        \* the process serving a request dies
    "enqueue",      \* Cloud Tasks refuses a task
    "redelivery",   \* Pub/Sub delivers a notice again
    "late_upload",  \* an upload arrives after the deletion has listed the audio
    "stale_token" } \* a request carries the token of a deleted identity

ASSUME AccountAssumption ==
  /\ None \notin Deletions
  /\ MaxUploads \in Nat \ {0} /\ MaxFaults \in Nat
  /\ Faults \subseteq FaultKinds

VARIABLES
  identity,  \* the auth.users record exists
  token,     \* a client holds a JWT that still verifies
  user,      \* the users row exists
  lock,      \* the deletion that holds the row FOR UPDATE
  rec,       \* the recordings rows
  urls,      \* recordings with a signed upload URL that has not expired
  audio,     \* the generation of each object in the bucket, 0 for none
  notices,   \* object-finalize notifications to deliver
  handler,   \* what POST /internal/uploaded has found of a notice's row
  tasks,     \* queued Cloud Tasks
  del,       \* deletion requests
  faults

vars == <<identity, token, user, lock, rec, urls, audio, notices, handler, tasks, del, faults>>
rows == <<user, rec>>
uploads == <<urls, audio, notices, handler>>

NoAudio == [r \in Recordings |-> 0]
Holding == {"cancel", "list", "purge", "auth", "row"}
IdleDel == [pc |-> "idle", ids |-> {}, listed |-> NoAudio]
Live == {r \in Recordings : rec[r] = "live"}

Init ==
  /\ identity = TRUE /\ token = TRUE /\ user = FALSE /\ lock = None
  /\ rec = [r \in Recordings |-> "none"]
  /\ urls = {} /\ audio = NoAudio /\ notices = {}
  /\ handler = [r \in Recordings |-> "idle"]
  /\ tasks = {}
  /\ del = [d \in Deletions |-> IdleDel]
  /\ faults = 0

NoFault == UNCHANGED faults
Fault(kind) == kind \in Faults /\ faults < MaxFaults /\ faults' = faults + 1

At(d, pc) == del[d].pc = pc
Go(d, pc) == del' = [del EXCEPT ![d].pc = pc]
\* Mutant of End: the session is not closed.
EndKeepsLock(d) == del' = [del EXCEPT ![d] = IdleDel] /\ UNCHANGED lock

\* The request ends, and its transaction with it.
End(d) == del' = [del EXCEPT ![d] = IdleDel] /\ lock' = None

-----------------------------------------------------------------------------
(* delete_account *)

\* get_current_user has found the row; the handler calls delete_account.
Begin(d) ==
  /\ At(d, "idle") /\ token /\ user
  /\ Go(d, "wait")
  /\ NoFault /\ UNCHANGED <<identity, token, rows, lock, uploads, tasks>>

\* Mutant of Lock: the identity first, the order of spec/auth.md.
LockAuthFirst(d) ==
  /\ At(d, "wait") /\ user /\ lock = None
  /\ lock' = d
  /\ identity' = FALSE
  /\ del' = [del EXCEPT ![d].pc = "cancel", ![d].ids = Live]
  /\ NoFault /\ UNCHANGED <<token, rows, uploads, tasks>>

\* SELECT .. FOR UPDATE waits for another deletion; then the ids are read.
Lock(d) ==
  /\ At(d, "wait") /\ user /\ lock = None
  /\ lock' = d
  /\ del' = [del EXCEPT ![d].pc = "cancel", ![d].ids = Live]
  /\ NoFault /\ UNCHANGED <<identity, token, rows, uploads, tasks>>

\* The row went while the request waited: 204.
LockGone(d) ==
  /\ At(d, "wait") /\ ~user
  /\ Go(d, "idle")
  /\ NoFault /\ UNCHANGED <<identity, token, rows, lock, uploads, tasks>>

CancelTasks(d) ==
  /\ At(d, "cancel")
  /\ tasks' = tasks \ del[d].ids
  /\ Go(d, "list")
  /\ NoFault /\ UNCHANGED <<identity, token, rows, lock, uploads>>

\* Some are deleted, then TaskQueueError: rollback, 502.
CancelFails(d) ==
  /\ At(d, "cancel") /\ Fault("queue")
  /\ \E gone \in SUBSET del[d].ids : tasks' = tasks \ gone
  /\ End(d)
  /\ UNCHANGED <<identity, token, rows, uploads>>

\* The objects under the owner's prefix, whatever the rows name.
ListAudio(d) ==
  /\ At(d, "list")
  /\ del' = [del EXCEPT ![d].pc = "purge", ![d].listed = audio]
  /\ NoFault /\ UNCHANGED <<identity, token, rows, lock, uploads, tasks>>

\* blob.delete(if_generation_match=..), one object after the other.
Purge(d) ==
  /\ At(d, "purge")
  /\ \E r \in Recordings :
       /\ del[d].listed[r] # 0 /\ audio[r] = del[d].listed[r]
       /\ audio' = [audio EXCEPT ![r] = 0]
       /\ del' = [del EXCEPT ![d].listed[r] = 0]
  /\ NoFault /\ UNCHANGED <<identity, token, rows, lock, urls, notices, handler, tasks>>

\* Replaced or gone since the listing: AudioCleanupError, rollback, 502.
PurgeConflict(d) ==
  /\ At(d, "purge")
  /\ \E r \in Recordings : del[d].listed[r] # 0 /\ audio[r] # del[d].listed[r]
  /\ End(d)
  /\ NoFault /\ UNCHANGED <<identity, token, rows, uploads, tasks>>

\* Mutant of PurgeFails: the error is logged and the deletion goes on.
PurgeFailsGoesOn(d) ==
  /\ At(d, "list") \/ At(d, "purge")
  /\ Fault("storage")
  /\ Go(d, "auth")
  /\ UNCHANGED <<identity, token, rows, lock, uploads, tasks>>

\* The listing or a deletion fails: AudioCleanupError, rollback, 502.
PurgeFails(d) ==
  /\ At(d, "list") \/ At(d, "purge")
  /\ Fault("storage")
  /\ End(d)
  /\ UNCHANGED <<identity, token, rows, uploads, tasks>>

Purged(d) ==
  /\ At(d, "purge") /\ del[d].listed = NoAudio
  /\ Go(d, "auth")
  /\ NoFault /\ UNCHANGED <<identity, token, rows, lock, uploads, tasks>>

\* 200, 204, or 404 for an identity that is gone already.
DeleteAuth(d) ==
  /\ At(d, "auth")
  /\ identity' = FALSE
  /\ Go(d, "row")
  /\ NoFault /\ UNCHANGED <<token, rows, lock, uploads, tasks>>

\* Mutant of DeleteAuthFails: the row goes although the identity did not.
DeleteAuthFailsGoesOn(d) ==
  /\ At(d, "auth") /\ Fault("auth")
  /\ Go(d, "row")
  /\ UNCHANGED <<identity, token, rows, lock, uploads, tasks>>

\* SupabaseAdminError: no rollback of its own, the session closes; 502.
DeleteAuthFails(d) ==
  /\ At(d, "auth")
  /\ \/ Fault("auth") /\ UNCHANGED identity
     \/ Fault("auth_lost") /\ identity' = FALSE
  /\ End(d)
  /\ UNCHANGED <<token, rows, uploads, tasks>>

\* The users row and everything that cascades from it, committed.
DeleteRow(d) ==
  /\ At(d, "row")
  /\ user' = FALSE
  /\ rec' = [r \in Recordings |-> IF rec[r] = "live" THEN "gone" ELSE rec[r]]
  /\ End(d)
  /\ NoFault /\ UNCHANGED <<identity, token, uploads, tasks>>

DeleteRowFails(d) ==
  /\ At(d, "row") /\ Fault("db")
  /\ End(d)
  /\ UNCHANGED <<identity, token, rows, uploads, tasks>>

DeletionDies(d) ==
  /\ del[d].pc \in Holding /\ Fault("crash")
  /\ End(d)
  /\ UNCHANGED <<identity, token, rows, uploads, tasks>>

Deletion(d) ==
  \/ Lock(d) \/ LockGone(d) \/ CancelTasks(d) \/ ListAudio(d) \/ Purge(d)
  \/ PurgeConflict(d) \/ Purged(d) \/ DeleteAuth(d) \/ DeleteRow(d)
DeletionFault(d) ==
  \/ CancelFails(d) \/ PurgeFails(d) \/ DeleteAuthFails(d) \/ DeleteRowFails(d)
  \/ DeletionDies(d)

-----------------------------------------------------------------------------
(* The client and its uploads *)

\* get_or_create_user, on the first request with a token that verifies.
Provision ==
  /\ token /\ ~user
  /\ \/ identity /\ NoFault
     \/ ~identity /\ Fault("stale_token")
  /\ user' = TRUE
  /\ UNCHANGED <<identity, token, rec, lock, uploads, tasks, del>>

\* Mutant of CreateEvent: the insert does not wait for the deletion's lock.
CreateEventUnlocked(r) ==
  /\ token /\ user
  /\ \/ rec[r] = "none" /\ rec' = [rec EXCEPT ![r] = "live"]
     \/ rec[r] = "live" /\ UNCHANGED rec
  /\ urls' = urls \cup {r}
  /\ NoFault /\ UNCHANGED <<identity, token, user, lock, audio, notices, handler, tasks, del>>

\* A new row waits for the lock on the users row (its foreign key); a retry with
\* the same clientEventId only reads, and signs a new URL.
CreateEvent(r) ==
  /\ token /\ user
  /\ \/ rec[r] = "none" /\ lock = None /\ rec' = [rec EXCEPT ![r] = "live"]
     \/ rec[r] = "live" /\ UNCHANGED rec
  /\ urls' = urls \cup {r}
  /\ NoFault /\ UNCHANGED <<identity, token, user, lock, audio, notices, handler, tasks, del>>

UrlExpires(r) ==
  /\ r \in urls /\ urls' = urls \ {r}
  /\ NoFault /\ UNCHANGED <<identity, token, rows, lock, audio, notices, handler, tasks, del>>

\* A token cannot be renewed once its identity is gone.
TokenExpires ==
  /\ token /\ ~identity /\ token' = FALSE
  /\ NoFault /\ UNCHANGED <<identity, rows, lock, uploads, tasks, del>>

\* A PUT to the signed URL needs no row and no token.
Upload(r) ==
  /\ r \in urls /\ audio[r] < MaxUploads
  /\ audio' = [audio EXCEPT ![r] = @ + 1]
  /\ notices' = notices \cup {r}
  /\ IF \E d \in Deletions : del[d].pc \in {"purge", "auth", "row"}
       THEN Fault("late_upload")
       ELSE NoFault
  /\ UNCHANGED <<identity, token, rows, lock, urls, handler, tasks, del>>

\* POST /internal/uploaded selects the row in one statement ...
NoticeSelect(r) ==
  /\ r \in notices /\ handler[r] = "idle"
  /\ notices' = notices \ {r}
  /\ handler' = [handler EXCEPT ![r] = IF rec[r] = "live" THEN "found" ELSE "orphan"]
  /\ NoFault /\ UNCHANGED <<identity, token, rows, lock, urls, audio, tasks, del>>

\* ... and creates the task after it.
NoticeEnqueue(r) ==
  /\ handler[r] = "found"
  /\ handler' = [handler EXCEPT ![r] = "idle"]
  /\ tasks' = tasks \cup {r}
  /\ \/ NoFault /\ UNCHANGED notices
     \/ Fault("redelivery") /\ notices' = notices \cup {r}
  /\ UNCHANGED <<identity, token, rows, lock, urls, audio, del>>

\* Mutant of NoticeOrphan: a notice without a row is acknowledged and dropped.
NoticeDropped(r) ==
  /\ handler[r] = "orphan"
  /\ handler' = [handler EXCEPT ![r] = "idle"]
  /\ NoFault
  /\ UNCHANGED <<identity, token, rows, lock, urls, audio, notices, tasks, del>>

\* delete_orphan_audio_object
NoticeOrphan(r) ==
  /\ handler[r] = "orphan"
  /\ handler' = [handler EXCEPT ![r] = "idle"]
  /\ audio' = [audio EXCEPT ![r] = 0]
  /\ NoFault /\ UNCHANGED <<identity, token, rows, lock, urls, notices, tasks, del>>

\* Any failure of the handler is a 5xx: Pub/Sub delivers the notice again.
NoticeFails(r) ==
  /\ \/ handler[r] = "found" /\ Fault("enqueue")
     \/ handler[r] = "orphan" /\ Fault("storage")
  /\ handler' = [handler EXCEPT ![r] = "idle"]
  /\ notices' = notices \cup {r}
  /\ UNCHANGED <<identity, token, rows, lock, urls, audio, tasks, del>>

\* The worker takes a task; what it does with a row is Transcription's subject.
RunTask(r) ==
  /\ r \in tasks /\ tasks' = tasks \ {r}
  /\ NoFault /\ UNCHANGED <<identity, token, rows, lock, uploads, del>>

Notice(r) == NoticeSelect(r) \/ NoticeEnqueue(r) \/ NoticeOrphan(r)

Next ==
  \/ \E d \in Deletions : Begin(d) \/ Deletion(d) \/ DeletionFault(d)
  \/ Provision \/ TokenExpires
  \/ \E r \in Recordings :
       \/ CreateEvent(r) \/ UrlExpires(r) \/ Upload(r) \/ Notice(r) \/ NoticeFails(r)
       \/ RunTask(r)

Spec == Init /\ [][Next]_vars

\* Pub/Sub delivers until it is answered 2xx; requests run to their end.
LiveSpec ==
  /\ Spec
  /\ \A r \in Recordings : WF_vars(Notice(r))
  /\ \A d \in Deletions : WF_vars(Deletion(d))

-----------------------------------------------------------------------------
(* Properties *)

\* Every variable keeps its type, and the lock belongs to a deletion in progress.
AccountTypes ==
  /\ {identity, token, user} \subseteq BOOLEAN
  /\ lock \in Deletions \cup {None} /\ (lock # None => del[lock].pc \in Holding)
  /\ rec \in [Recordings -> {"none", "live", "gone"}]
  /\ urls \subseteq Recordings /\ notices \subseteq Recordings /\ tasks \subseteq Recordings
  /\ audio \in [Recordings -> 0..MaxUploads]
  /\ handler \in [Recordings -> {"idle", "found", "orphan"}]
  /\ del \in [Deletions -> [pc : Holding \cup {"idle", "wait"}, ids : SUBSET Recordings,
                            listed : [Recordings -> 0..MaxUploads]]]
  /\ faults \in 0..MaxFaults

\* "On PostgreSQL this serializes FK inserts against the final user deletion": no
\* row appears between the reading of the ids and the cascade, so that no task of
\* a row that goes is left out of the cancellation.
CollectsAll ==
  \A d \in Deletions : del[d].pc \in Holding => lock = d /\ del[d].ids = Live

\* "Auth goes only after controlled external data is gone."
AuthGoesLast == [][identity /\ ~identity' => audio = NoAudio]_vars

\* "A failed delete is fully retryable": an account whose rows remain can still
\* authenticate, by its identity or with the token it has, and ask again.
Retryable == user => identity \/ token \/ \E d \in Deletions : At(d, "row")

\* Audio whose row is gone does not stay in the bucket: the notice of a late
\* upload removes it.
OrphansGo == \A r \in Recordings : rec[r] = "gone" /\ audio[r] # 0 ~> audio[r] = 0

\* The safety half of it: audio without a row still has a notice to come.
OrphansNoticed ==
  \A r \in Recordings :
    rec[r] = "gone" /\ audio[r] # 0 => r \in notices \/ handler[r] = "orphan"

\* Account implements AccountEnd: "Queue and audio cleanup must succeed before the
\* irreversible Supabase Auth deletion.  The final users-row delete cascades": the
\* rows go together, after the identity, while nothing is in the bucket.
Ending ==
  INSTANCE AccountEnd WITH
    live <- Live, gone <- {r \in Recordings : rec[r] = "gone"},
    kept <- {r \in Recordings : audio[r] # 0}
AccountEndSpec == Ending!Spec
=============================================================================
