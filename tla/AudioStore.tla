------------------------------ MODULE AudioStore ------------------------------
(***************************************************************************)
(* The bucket: object keys as services/storage.py makes and parses them,   *)
(* the deletion of a user's objects, and POST /internal/uploaded, which    *)
(* must tell the program's own objects from everything else that is in the *)
(* bucket and answer every notice.  A key is a sequence of segments; of a  *)
(* segment the code sees whether it ends in ".m4a" and what is before it.  *)
(***************************************************************************)
EXTENDS Naturals, Sequences, FiniteSets

CONSTANTS
  Users,       \* Supabase uids
  Records,     \* recordings.id
  None,        \* no id
  Foreign,     \* keys of objects that others put into the bucket
  MaxUploads,  \* uploads in one behaviour (bounds the model)
  Faults,      \* kinds of failure the environment may cause
  MaxFaults    \* of these in one behaviour (bounds the model)

FaultKinds ==
  { "storage",      \* GCS fails a listing or a deletion
    "queue_down",   \* Cloud Tasks refuses a task
    "redelivery",   \* Pub/Sub delivers a notice again
    "other_event" } \* the topic carries a message that names no new object

\* A path segment.
Segments == [stem : STRING, m4a : BOOLEAN]
Plain(name) == [stem |-> name, m4a |-> FALSE]
File(name) == [stem |-> name, m4a |-> TRUE]
Version == Plain("v0")
Empty == Plain("")

audio_object_key(u, r) == <<Version, Plain(u), File(r)>>
Audio == {audio_object_key(u, r) : u \in Users, r \in Records}
Keys == Audio \cup Foreign

ASSUME AudioStoreAssumption ==
  /\ None \notin Users \cup Records
  /\ {"", ".", ".."} \cap (Users \cup Records) = {}   \* _audio_prefix refuses these
  /\ Foreign \subseteq Seq(Segments)
  /\ MaxUploads \in Nat \ {0} /\ MaxFaults \in Nat /\ Faults \subseteq FaultKinds

\* Mutant of record_id_from_audio_key: the suffix is not looked at.
AnyFile(key) ==
  IF Len(key) = 3 /\ key[1] = Version /\ key[3] # Empty THEN key[3].stem ELSE None

\* Mutant of record_id_from_audio_key: a nested path will do.
AnyDepth(key) ==
  IF Len(key) >= 3 /\ key[1] = Version /\ key[3].m4a /\ key[3] # File("")
    THEN key[3].stem ELSE None

record_id_from_audio_key(key) ==
  IF Len(key) = 3 /\ key[1] = Version /\ key[3].m4a /\ key[3] # File("")
    THEN key[3].stem ELSE None
\* The owner's segment, Empty for none.
user_id_from_audio_key(key) ==
  IF record_id_from_audio_key(key) # None /\ Len(key) = 3 THEN key[2] ELSE Empty

\* list_blobs(prefix = "v0/<uid>/"), and list_blobs(prefix = key) of deeper keys.
StartsWith(key, start) == Len(key) >= Len(start) /\ SubSeq(key, 1, Len(start)) = start
Under(u) == {k \in Keys : StartsWith(k, <<Version, Plain(u)>>) /\ Len(k) > 2}

VARIABLES
  user,     \* users rows
  rows,     \* storage_key of the recordings rows
  signed,   \* keys an upload URL was made for
  bucket,   \* the generation of each object, 0 for none
  uploads,  \* the last generation given to an object
  notices,  \* keys of finalize notifications to deliver, None for any other message
  tasks,    \* keys whose recording has a transcription task
  del,      \* the deletion of each account: the objects still to remove, or none running
  orphan,   \* the handler of a key without a row: the objects its listing returned
  faults

vars == <<user, rows, signed, bucket, uploads, notices, tasks, del, orphan, faults>>
accounts == <<user, rows, signed, del>>

NoListing == [pc |-> "idle", listed |-> {}]
\* What list_blobs returns: the objects there are, with their generations.
Blobs(keys) == {[key |-> k, gen |-> bucket[k]] : k \in {j \in keys : bucket[j] # 0}}

Init ==
  /\ user = Users /\ rows = {} /\ signed = {}
  /\ bucket = [k \in Keys |-> 0] /\ uploads = 0
  /\ notices = {} /\ tasks = {}
  /\ del = [u \in Users |-> NoListing]
  /\ orphan = [k \in Keys |-> NoListing]
  /\ faults = 0

NoFault == UNCHANGED faults
Fault(kind) == kind \in Faults /\ faults < MaxFaults /\ faults' = faults + 1

-----------------------------------------------------------------------------
(* The bucket *)

\* create_event: the row, and a URL for its key.
CreateEvent(u, r) ==
  /\ u \in user /\ del[u].pc = "idle"
  /\ audio_object_key(u, r) \notin signed
  /\ \A v \in Users : audio_object_key(v, r) \notin signed   \* uuid4
  /\ rows' = rows \cup {audio_object_key(u, r)}
  /\ signed' = signed \cup {audio_object_key(u, r)}
  /\ NoFault /\ UNCHANGED <<user, bucket, uploads, notices, tasks, del, orphan>>

\* A PUT to a signed URL, or another writer's; the bucket announces the object.
Put(k) ==
  /\ k \in signed \cup Foreign /\ uploads < MaxUploads
  /\ uploads' = uploads + 1
  /\ bucket' = [bucket EXCEPT ![k] = uploads']
  /\ notices' = notices \cup {k}
  /\ NoFault /\ UNCHANGED <<accounts, tasks, orphan>>

\* Other events of the topic, and messages without an object's name.
OtherNotice ==
  /\ None \notin notices /\ Fault("other_event")
  /\ notices' = notices \cup {None}
  /\ UNCHANGED <<accounts, bucket, uploads, tasks, orphan>>

-----------------------------------------------------------------------------
(* delete_user_audio, as delete_account calls it *)

\* The rows' keys are the owner's, or nothing is listed.
ListOwned(u) ==
  /\ u \in user /\ del[u].pc = "idle"
  /\ \A k \in rows : k[2] = Plain(u) => user_id_from_audio_key(k) = Plain(u)
  /\ del' = [del EXCEPT ![u] = [pc |-> "purge", listed |-> Blobs(Under(u))]]
  /\ NoFault /\ UNCHANGED <<user, rows, signed, bucket, uploads, notices, tasks, orphan>>

PurgeOne(u) ==
  /\ del[u].pc = "purge"
  /\ \E b \in del[u].listed :
       /\ user_id_from_audio_key(b.key) = Plain(u) /\ bucket[b.key] = b.gen
       /\ bucket' = [bucket EXCEPT ![b.key] = 0]
       /\ del' = [del EXCEPT ![u].listed = @ \ {b}]
  /\ NoFault /\ UNCHANGED <<user, rows, signed, uploads, notices, tasks, orphan>>

\* An object that is not the owner's audio, one replaced since, or a failing service:
\* AudioCleanupError, and what is gone is gone.
PurgeFails(u) ==
  /\ del[u].pc = "purge"
  /\ \/ /\ \E b \in del[u].listed : user_id_from_audio_key(b.key) # Plain(u) \/ bucket[b.key] # b.gen
        /\ NoFault
     \/ Fault("storage")
  /\ del' = [del EXCEPT ![u] = NoListing]
  /\ UNCHANGED <<user, rows, signed, bucket, uploads, notices, tasks, orphan>>

\* Mutant of Purged: the recordings' rows stay.
PurgedKeepsRows(u) ==
  /\ del[u].pc = "purge" /\ del[u].listed = {}
  /\ user' = user \ {u}
  /\ del' = [del EXCEPT ![u] = NoListing]
  /\ NoFault /\ UNCHANGED <<rows, signed, bucket, uploads, notices, tasks, orphan>>

\* The identity and the rows follow.
Purged(u) ==
  /\ del[u].pc = "purge" /\ del[u].listed = {}
  /\ user' = user \ {u}
  /\ rows' = {k \in rows : k[2] # Plain(u)}
  /\ del' = [del EXCEPT ![u] = NoListing]
  /\ NoFault /\ UNCHANGED <<signed, bucket, uploads, notices, tasks, orphan>>

-----------------------------------------------------------------------------
(* uploaded *)

\* Acknowledged, or delivered again all the same.
Acks(k) ==
  \/ notices' = notices \ {k} /\ NoFault
  \/ Fault("redelivery") /\ UNCHANGED notices

Ours(k) == k # None /\ record_id_from_audio_key(k) # None

\* Mutant of NoticeIgnored: a key that is not ours is an error, and comes again.
NoticeRejected(k) ==
  /\ k = None
  /\ Acks(k)
  /\ UNCHANGED <<accounts, bucket, uploads, tasks, orphan>>

\* event_type, no_object_name, non_audio_key: answered 204.
NoticeIgnored(k) ==
  /\ ~Ours(k)
  /\ Acks(k)
  /\ UNCHANGED <<accounts, bucket, uploads, tasks, orphan>>

\* The row of this id and this key: a task, or a 5xx and the notice again.
NoticeFound(k) ==
  /\ Ours(k) /\ k \in rows
  /\ \/ tasks' = tasks \cup {k} /\ Acks(k)
     \/ Fault("queue_down") /\ UNCHANGED <<tasks, notices>>
  /\ UNCHANGED <<accounts, bucket, uploads, orphan>>

\* No row: delete_orphan_audio_object lists what begins with the key.  A key without an
\* owner is refused, and comes again.
OrphanList(k) ==
  /\ Ours(k) /\ k \notin rows /\ user_id_from_audio_key(k) # Empty /\ orphan[k] = NoListing
  /\ orphan' = [orphan EXCEPT ![k] = [pc |-> "remove", listed |-> Blobs({j \in Keys : StartsWith(j, k)})]]
  /\ notices' = notices \ {k}
  /\ NoFault /\ UNCHANGED <<accounts, bucket, uploads, tasks>>

\* Mutant of OrphanRemove: whatever the listing returned is removed.
OrphanRemoveBelow(k) ==
  /\ orphan[k].pc = "remove"
  /\ \E b \in orphan[k].listed :
       /\ bucket[b.key] = b.gen
       /\ bucket' = [bucket EXCEPT ![b.key] = 0]
       /\ orphan' = [orphan EXCEPT ![k].listed = @ \ {b}]
  /\ NoFault /\ UNCHANGED <<accounts, uploads, notices, tasks>>

\* Of the listed objects the one of exactly this name, if it is still the one listed.
OrphanRemove(k) ==
  /\ orphan[k].pc = "remove"
  /\ \E b \in orphan[k].listed :
       /\ b.key = k /\ bucket[b.key] = b.gen
       /\ bucket' = [bucket EXCEPT ![b.key] = 0]
       /\ orphan' = [orphan EXCEPT ![k].listed = @ \ {b}]
  /\ NoFault /\ UNCHANGED <<accounts, uploads, notices, tasks>>

\* One replaced or removed since, or a failing service: a 5xx, and the notice again.
OrphanFails(k) ==
  /\ orphan[k].pc = "remove"
  /\ \/ (\E b \in orphan[k].listed : b.key = k /\ bucket[k] # b.gen) /\ NoFault
     \/ Fault("storage")
  /\ orphan' = [orphan EXCEPT ![k] = NoListing]
  /\ notices' = notices \cup {k}
  /\ UNCHANGED <<accounts, bucket, uploads, tasks>>

\* The rest of the listing is passed over: 204, or delivered again all the same.
OrphanEnds(k) ==
  /\ orphan[k].pc = "remove" /\ \A b \in orphan[k].listed : b.key # k
  /\ orphan' = [orphan EXCEPT ![k] = NoListing]
  /\ \/ NoFault /\ UNCHANGED notices
     \/ Fault("redelivery") /\ notices' = notices \cup {k}
  /\ UNCHANGED <<accounts, bucket, uploads, tasks>>

OrphanHandler(k) == OrphanRemove(k) \/ OrphanFails(k) \/ OrphanEnds(k)

\* The worker takes a task.
RunTask(k) ==
  /\ k \in tasks /\ tasks' = tasks \ {k}
  /\ NoFault /\ UNCHANGED <<accounts, bucket, uploads, notices, orphan>>

Notice(k) == k \in notices /\ (NoticeIgnored(k) \/ NoticeFound(k) \/ OrphanList(k))

Next ==
  \/ \E u \in Users : ListOwned(u) \/ PurgeOne(u) \/ PurgeFails(u) \/ Purged(u)
  \/ \E u \in Users, r \in Records : CreateEvent(u, r)
  \/ \E k \in Keys : Put(k) \/ RunTask(k) \/ OrphanHandler(k)
  \/ \E k \in Keys \cup {None} : Notice(k)
  \/ OtherNotice

Spec == Init /\ [][Next]_vars

\* Pub/Sub delivers until it is answered 2xx, and a handler runs to its end.
LiveSpec ==
  /\ Spec
  /\ \A k \in Keys \cup {None} : WF_vars(Notice(k))
  /\ \A k \in Keys : WF_vars(OrphanHandler(k))

-----------------------------------------------------------------------------
(* Properties *)

\* Every variable keeps its type, and a row has its owner.
AudioStoreTypes ==
  /\ user \subseteq Users /\ rows \subseteq signed /\ signed \subseteq Audio
  /\ \A k \in rows : \E u \in user : user_id_from_audio_key(k) = Plain(u)
  /\ bucket \in [Keys -> 0..MaxUploads] /\ uploads \in 0..MaxUploads
  /\ notices \subseteq Keys \cup {None} /\ tasks \subseteq Audio
  /\ \A u \in Users : del[u].pc \in {"idle", "purge"} /\ {b.key : b \in del[u].listed} \subseteq Under(u)
  /\ \A k \in Keys : orphan[k].pc \in {"idle", "remove"} /\ \A b \in orphan[k].listed : StartsWith(b.key, k)
  /\ faults \in 0..MaxFaults

\* "Inverse of audio_object_key": the key of a row is parsed back to what it was made of,
\* and an object whose key yields a recording's id has a key made of its own parts.
MadeOf(key) == record_id_from_audio_key(key) # None =>
                 key = <<Version, key[2], File(record_id_from_audio_key(key))>>
KeysRoundTrip ==
  /\ \A key \in rows : \E u \in Users, r \in Records :
       /\ key = audio_object_key(u, r)
       /\ record_id_from_audio_key(key) = r /\ user_id_from_audio_key(key) = Plain(u)
  /\ \A key \in Keys : bucket[key] # 0 => MadeOf(key)

\* "Delete every audio object under the authenticated owner's exact prefix": a deletion
\* removes keys the program made for this owner, and nothing else that lies there.
OwnerOnly ==
  [][\A u \in Users : PurgeOne(u) =>
       \A k \in Keys : bucket'[k] # bucket[k] => \E r \in Records : k = audio_object_key(u, r)]_vars

\* Only the exact object of a notice without a row, and the audio of an account that is
\* being deleted, are ever removed: no row that is still there loses its audio, and nothing
\* that others put beside or below it goes with it.
RemovedRightly ==
  [][\A k \in Keys : bucket[k] # 0 /\ bucket'[k] = 0 =>
       \E u \in Users, r \in Records :
         k = audio_object_key(u, r) /\ (k \notin rows \/ del[u].pc = "purge")]_vars

\* "Pub/Sub does not redeliver a message we will never act on": every notice is
\* answered for good.
Unanswered(k) == k \in notices \/ (k \in Keys /\ orphan[k].pc # "idle")
NoticesEnd == \A k \in Keys \cup {None} : Unanswered(k) ~> ~Unanswered(k)
=============================================================================
