--------------------------- MODULE AudioStore_proofs ---------------------------
(***************************************************************************)
(* Theorems about AudioStore, for every number of accounts, recordings,    *)
(* uploads and failures, whatever else lies in the bucket.                 *)
(***************************************************************************)
EXTENDS AudioStore, TLAPS

LEMMA Bounds == MaxUploads \in Nat /\ MaxFaults \in Nat
BY AudioStoreAssumption, Zenon DEF AudioStoreAssumption

-----------------------------------------------------------------------------
(* Object keys *)

\* A key is parsed back to what it was made of.
LEMMA RoundTrip ==
  ASSUME NEW u \in Users, NEW r \in Records
  PROVE  /\ record_id_from_audio_key(audio_object_key(u, r)) = r
         /\ user_id_from_audio_key(audio_object_key(u, r)) = Plain(u)
         /\ audio_object_key(u, r)[2] = Plain(u) /\ Len(audio_object_key(u, r)) = 3
BY AudioStoreAssumption
DEF audio_object_key, record_id_from_audio_key, user_id_from_audio_key, Plain, File, Version

\* A key that parses has the one form there is.
LEMMA Parsed ==
  ASSUME NEW k \in Seq(Segments), record_id_from_audio_key(k) # None
  PROVE  k = <<Version, k[2], File(k[3].stem)>> /\ record_id_from_audio_key(k) = k[3].stem
<1>1. Len(k) = 3 /\ k[1] = Version /\ k[3].m4a /\ record_id_from_audio_key(k) = k[3].stem
  BY DEF record_id_from_audio_key
<1>2. k[3] \in Segments
  BY <1>1
<1>3. k[3] = File(k[3].stem)
  BY <1>1, <1>2 DEF Segments, File
<1>4. QED
  BY <1>1, <1>3

-----------------------------------------------------------------------------
(* Type correctness *)

\* A deletion has listed keys below its owner's prefix.
Listing(u) == del[u].pc \in {"idle", "purge"} /\ \A b \in del[u].listed : b.key \in Under(u)

\* The handler of an orphan has listed keys that begin with its own.
Below(k) == orphan[k].pc \in {"idle", "remove"} /\ \A b \in orphan[k].listed : StartsWith(b.key, k)

\* A row is its owner's, who has an account.
RowsOwned == \A k \in rows : \E u \in user : \E r \in Records : k = audio_object_key(u, r)

StoreInv ==
  /\ user \subseteq Users /\ rows \subseteq signed /\ signed \subseteq Audio
  /\ RowsOwned
  /\ bucket \in [Keys -> 0..MaxUploads] /\ uploads \in 0..MaxUploads
  /\ notices \subseteq Keys \cup {None} /\ tasks \subseteq Audio
  /\ DOMAIN del = Users /\ \A u \in Users : Listing(u)
  /\ DOMAIN orphan = Keys /\ \A k \in Keys : Below(k)
  /\ faults \in 0..MaxFaults

LEMMA FaultType ==
  ASSUME faults \in 0..MaxFaults, NEW kind, Fault(kind) \/ NoFault
  PROVE  faults' \in 0..MaxFaults
BY Bounds DEF Fault, NoFault

LEMMA StoreInvInductive ==
  /\ Init => StoreInv
  /\ StoreInv /\ [Next]_vars => StoreInv'
<1>1. Init => StoreInv
  BY Bounds DEF Init, StoreInv, RowsOwned, Listing, Below, NoListing
<1>2. ASSUME StoreInv, [Next]_vars PROVE StoreInv'
  <2> USE <1>2 DEF StoreInv
  <2>0. 0 \in 0..MaxUploads
    BY Bounds
  <2>1. CASE UNCHANGED vars
    BY <2>1 DEF vars, RowsOwned, Listing, Below
  <2>2. ASSUME NEW u \in Users, NEW r \in Records, CreateEvent(u, r)
        PROVE  StoreInv'
    <3>1. UNCHANGED <<user, bucket, uploads, notices, tasks, del, orphan, faults>>
      BY <2>2 DEF CreateEvent, NoFault
    <3>2. audio_object_key(u, r) \in Audio
      BY DEF Audio
    <3>3. RowsOwned' /\ rows' \subseteq signed' /\ signed' \subseteq Audio
      BY <2>2, <3>1, <3>2 DEF CreateEvent, RowsOwned
    <3>4. QED
      BY <3>1, <3>3 DEF Listing, Below
  <2>3. ASSUME NEW k \in Keys, Put(k)
        PROVE  StoreInv'
    <3>1. UNCHANGED <<user, rows, signed, tasks, del, orphan, faults>>
      BY <2>3 DEF Put, NoFault, accounts
    <3>2. uploads' \in 0..MaxUploads
      BY <2>3, Bounds DEF Put
    <3>3. bucket' \in [Keys -> 0..MaxUploads] /\ notices' \subseteq Keys \cup {None}
      BY <2>3, <3>2 DEF Put
    <3>4. QED
      BY <3>1, <3>2, <3>3 DEF RowsOwned, Listing, Below
  <2>4. CASE OtherNotice
    BY <2>4, FaultType DEF OtherNotice, accounts, RowsOwned, Listing, Below
  <2>5. ASSUME NEW u \in Users, ListOwned(u) \/ PurgeOne(u) \/ PurgeFails(u) \/ Purged(u)
        PROVE  StoreInv'
    <3>1. UNCHANGED <<signed, uploads, notices, tasks, orphan>> /\ faults' \in 0..MaxFaults
      BY <2>5, FaultType DEF ListOwned, PurgeOne, PurgeFails, Purged
    <3>2. DOMAIN del' = Users /\ \A v \in Users : Listing(v)'
      <4>1. CASE ListOwned(u)
        BY <4>1 DEF ListOwned, Listing, Blobs
      <4>2. CASE PurgeOne(u)
        BY <4>2 DEF PurgeOne, Listing
      <4>3. CASE PurgeFails(u) \/ Purged(u)
        BY <4>3 DEF PurgeFails, Purged, Listing, NoListing
      <4>4. QED
        BY <2>5, <4>1, <4>2, <4>3
    <3>3. bucket' \in [Keys -> 0..MaxUploads]
      BY <2>5, <2>0 DEF ListOwned, PurgeOne, PurgeFails, Purged
    <3>4. user' \subseteq Users /\ rows' \subseteq signed' /\ RowsOwned'
      <4>1. CASE Purged(u)
        <5>1. user' = user \ {u} /\ rows' = {k \in rows : k[2] # Plain(u)}
          BY <4>1 DEF Purged
        <5>2. ASSUME NEW k \in rows' 
              PROVE  \E v \in user' : \E r \in Records : k = audio_object_key(v, r)
          <6>1. PICK v \in user, r \in Records : k = audio_object_key(v, r)
            BY <5>1 DEF RowsOwned
          <6>2. v # u
            BY <5>1, <6>1, RoundTrip
          <6>3. QED
            BY <5>1, <6>1, <6>2
        <5>3. QED
          BY <3>1, <5>1, <5>2 DEF RowsOwned
      <4>2. CASE ListOwned(u) \/ PurgeOne(u) \/ PurgeFails(u)
        BY <3>1, <4>2 DEF ListOwned, PurgeOne, PurgeFails, RowsOwned
      <4>3. QED
        BY <2>5, <4>1, <4>2
    <3>5. QED
      BY <3>1, <3>2, <3>3, <3>4 DEF Below
  <2>6. ASSUME NEW k \in Keys \cup {None}, Notice(k)
        PROVE  StoreInv'
    <3>1. UNCHANGED <<user, rows, signed, del, bucket, uploads>>
      BY <2>6 DEF Notice, NoticeIgnored, NoticeFound, OrphanList, accounts
    <3>2. notices' \subseteq notices /\ faults' \in 0..MaxFaults
      BY <2>6, FaultType DEF Notice, NoticeIgnored, NoticeFound, OrphanList, Acks
    <3>3. tasks' \subseteq Audio
      BY <2>6 DEF Notice, NoticeIgnored, NoticeFound, OrphanList
    <3>4. DOMAIN orphan' = Keys /\ \A j \in Keys : Below(j)'
      <4>1. CASE OrphanList(k)
        BY <4>1 DEF OrphanList, Below, Blobs
      <4>2. CASE NoticeIgnored(k) \/ NoticeFound(k)
        BY <4>2 DEF NoticeIgnored, NoticeFound, Below
      <4>3. QED
        BY <2>6, <4>1, <4>2 DEF Notice
    <3>5. QED
      BY <3>1, <3>2, <3>3, <3>4 DEF RowsOwned, Listing
  <2>7. ASSUME NEW k \in Keys, OrphanHandler(k)
        PROVE  StoreInv'
    <3>1. UNCHANGED <<user, rows, signed, del, uploads, tasks>>
      BY <2>7 DEF OrphanHandler, OrphanRemove, OrphanFails, OrphanEnds, accounts
    <3>2. notices' \subseteq Keys \cup {None} /\ faults' \in 0..MaxFaults
      BY <2>7, FaultType DEF OrphanHandler, OrphanRemove, OrphanFails, OrphanEnds
    <3>3. bucket' \in [Keys -> 0..MaxUploads]
      BY <2>0, <2>7 DEF OrphanHandler, OrphanRemove, OrphanFails, OrphanEnds
    <3>4. DOMAIN orphan' = Keys /\ \A j \in Keys : Below(j)'
      <4>1. CASE OrphanRemove(k)
        BY <4>1 DEF OrphanRemove, Below
      <4>2. CASE OrphanFails(k) \/ OrphanEnds(k)
        BY <4>2 DEF OrphanFails, OrphanEnds, Below, NoListing
      <4>3. QED
        BY <2>7, <4>1, <4>2 DEF OrphanHandler
    <3>5. QED
      BY <3>1, <3>2, <3>3, <3>4 DEF RowsOwned, Listing
  <2>8. ASSUME NEW k \in Keys, RunTask(k)
        PROVE  StoreInv'
    BY <2>8 DEF RunTask, NoFault, accounts, RowsOwned, Listing, Below
  <2>9. QED
    BY <2>1, <2>2, <2>3, <2>4, <2>5, <2>6, <2>7, <2>8 DEF Next
<1>3. QED
  BY <1>1, <1>2

\* Every variable keeps its type; a row, its key and its owner come and go together
\* (src/app/services/storage.py, users.py).
THEOREM AudioStoreTypeCorrect == Spec => []AudioStoreTypes
<1>1. StoreInv => AudioStoreTypes
  <2>1. SUFFICES ASSUME StoreInv PROVE AudioStoreTypes
    OBVIOUS
  <2>2. \A k \in rows : \E u \in user : user_id_from_audio_key(k) = Plain(u)
    BY <2>1, RoundTrip DEF StoreInv, RowsOwned
  <2>3. \A u \in Users : del[u].pc \in {"idle", "purge"} /\ {b.key : b \in del[u].listed} \subseteq Under(u)
    BY <2>1 DEF StoreInv, Listing
  <2>4. QED
    BY <2>1, <2>2, <2>3 DEF StoreInv, Below, AudioStoreTypes
<1>2. QED
  BY <1>1, StoreInvInductive, PTL DEF Spec

\* audio_object_key and the two parsers are inverse to each other on every object
\* there is: the ones of the rows, and whatever else parses.
THEOREM KeysAreInverse == Spec => []KeysRoundTrip
<1>1. StoreInv => KeysRoundTrip
  <2>1. SUFFICES ASSUME StoreInv PROVE KeysRoundTrip
    OBVIOUS
  <2>2. \A k \in rows : \E u \in Users, r \in Records :
          /\ k = audio_object_key(u, r)
          /\ record_id_from_audio_key(k) = r /\ user_id_from_audio_key(k) = Plain(u)
    BY <2>1, RoundTrip DEF StoreInv, RowsOwned
  <2>3. \A k \in Audio : MadeOf(k)
    BY RoundTrip DEF Audio, MadeOf, audio_object_key
  <2>4. \A k \in Foreign : MadeOf(k)
    BY Parsed, AudioStoreAssumption DEF MadeOf
  <2>5. QED
    BY <2>2, <2>3, <2>4 DEF KeysRoundTrip, Keys
<1>2. QED
  BY <1>1, StoreInvInductive, PTL DEF Spec

\* Nobody else puts an object under a key the program could have made: the form
\* v0/<uid>/<id>.m4a is the program's own.
FormIsOurs == \A k \in Foreign : record_id_from_audio_key(k) = None

LEMMA PurgesOwn ==
  ASSUME FormIsOurs, StoreInv, NEW u \in Users, PurgeOne(u), NEW k \in Keys, bucket'[k] # bucket[k]
  PROVE  \E r \in Records : k = audio_object_key(u, r)
<1>1. user_id_from_audio_key(k) = Plain(u)
  BY DEF PurgeOne, StoreInv
<1>2. record_id_from_audio_key(k) # None
  BY <1>1, AudioStoreAssumption DEF user_id_from_audio_key, Empty, Plain
<1>3. PICK v \in Users, r \in Records : k = audio_object_key(v, r)
  BY <1>2 DEF Keys, Audio, FormIsOurs
<1>4. v = u
  <2>1. Plain(v) = Plain(u)
    BY <1>1, <1>3, RoundTrip
  <2>2. QED
    BY <2>1 DEF Plain
<1>5. QED
  BY <1>3, <1>4

\* With the form its own, a deletion removes audio of its owner and nothing else,
\* whatever lies under the prefix and whatever is uploaded while it runs.
THEOREM OnlyTheOwners ==
  ASSUME FormIsOurs
  PROVE  Spec => OwnerOnly
<1>1. StoreInv /\ [Next]_vars =>
        [\A u \in Users : PurgeOne(u) =>
           \A k \in Keys : bucket'[k] # bucket[k] => \E r \in Records : k = audio_object_key(u, r)]_vars
  BY PurgesOwn
<1>2. QED
  BY <1>1, StoreInvInductive, PTL DEF Spec, OwnerOnly

-----------------------------------------------------------------------------
(* What a notice may remove *)

\* A notice of the program's form is of an object it signed a URL for, and one that found
\* no row will never find one: no key is signed twice.
OrphanInv ==
  /\ \A k \in notices : Ours(k) => k \in signed
  /\ \A k \in Keys : orphan[k].pc # "idle" => Ours(k) /\ k \in signed /\ k \notin rows

LEMMA OrphanInvInductive ==
  ASSUME FormIsOurs
  PROVE  /\ Init => OrphanInv
         /\ StoreInv /\ OrphanInv /\ [Next]_vars => OrphanInv'
<1>1. Init => OrphanInv
  BY DEF Init, OrphanInv, NoListing
<1>2. ASSUME StoreInv, OrphanInv, [Next]_vars PROVE OrphanInv'
  <2> USE <1>2 DEF OrphanInv
  <2>1. CASE UNCHANGED vars
    BY <2>1 DEF vars
  <2>2. ASSUME NEW u \in Users, NEW r \in Records, CreateEvent(u, r)
        PROVE  OrphanInv'
    BY <2>2 DEF CreateEvent
  <2>3. ASSUME NEW k \in Keys, Put(k)
        PROVE  OrphanInv'
    <3>1. Ours(k) => k \in signed
      BY <2>3 DEF Put, Ours, FormIsOurs
    <3>2. QED
      BY <2>3, <3>1 DEF Put, accounts
  <2>4. CASE OtherNotice
    BY <2>4 DEF OtherNotice, accounts, Ours
  <2>5. ASSUME NEW u \in Users, ListOwned(u) \/ PurgeOne(u) \/ PurgeFails(u) \/ Purged(u)
        PROVE  OrphanInv'
    <3>1. UNCHANGED <<signed, notices, orphan>> /\ rows' \subseteq rows
      BY <2>5 DEF ListOwned, PurgeOne, PurgeFails, Purged
    <3>2. QED
      BY <3>1
  <2>6. ASSUME NEW k \in Keys \cup {None}, Notice(k)
        PROVE  OrphanInv'
    <3>1. UNCHANGED <<signed, rows>> /\ notices' \subseteq notices
      BY <2>6 DEF Notice, NoticeIgnored, NoticeFound, OrphanList, Acks, accounts
    <3>2. CASE OrphanList(k)
      BY <2>6, <3>1, <3>2 DEF Notice, OrphanList, StoreInv
    <3>3. CASE NoticeIgnored(k) \/ NoticeFound(k)
      BY <3>1, <3>3 DEF NoticeIgnored, NoticeFound
    <3>4. QED
      BY <2>6, <3>2, <3>3 DEF Notice
  <2>7. ASSUME NEW k \in Keys, OrphanHandler(k)
        PROVE  OrphanInv'
    <3>1. UNCHANGED <<signed, rows>> /\ orphan[k].pc = "remove" /\ notices' \subseteq notices \cup {k}
      BY <2>7 DEF OrphanHandler, OrphanRemove, OrphanFails, OrphanEnds, accounts
    <3>2. \A j \in Keys : orphan'[j].pc # "idle" => orphan[j].pc # "idle"
      <4>1. CASE OrphanRemove(k)
        BY <4>1 DEF OrphanRemove, StoreInv
      <4>2. CASE OrphanFails(k) \/ OrphanEnds(k)
        BY <4>2 DEF OrphanFails, OrphanEnds, StoreInv, NoListing
      <4>3. QED
        BY <2>7, <4>1, <4>2 DEF OrphanHandler
    <3>3. QED
      BY <3>1, <3>2
  <2>8. ASSUME NEW k \in Keys, RunTask(k)
        PROVE  OrphanInv'
    BY <2>8 DEF RunTask, accounts
  <2>9. QED
    BY <2>1, <2>2, <2>3, <2>4, <2>5, <2>6, <2>7, <2>8 DEF Next
<1>3. QED
  BY <1>1, <1>2

\* With the form its own, nothing is ever removed but audio of an account in deletion and
\* audio without a row, however deletions, uploads and repeated notices interleave
\* (src/app/services/storage.py: delete_user_audio, delete_orphan_audio_object).
THEOREM RightlyRemoved ==
  ASSUME FormIsOurs
  PROVE  Spec => RemovedRightly
<1> DEFINE Rightly(k) == \E u \in Users, r \in Records :
                           k = audio_object_key(u, r) /\ (k \notin rows \/ del[u].pc = "purge")
<1>1. StoreInv /\ OrphanInv /\ [Next]_vars =>
        [\A k \in Keys : bucket[k] # 0 /\ bucket'[k] = 0 => Rightly(k)]_vars
  <2>1. SUFFICES ASSUME StoreInv, OrphanInv, Next, NEW k \in Keys, bucket[k] # 0, bucket'[k] = 0
                 PROVE  Rightly(k)
    OBVIOUS
  <2>2. ASSUME NEW u \in Users, PurgeOne(u)
        PROVE  Rightly(k)
    <3>1. bucket'[k] # bucket[k] /\ del[u].pc = "purge"
      BY <2>1, <2>2 DEF PurgeOne
    <3>2. PICK r \in Records : k = audio_object_key(u, r)
      BY <2>1, <2>2, <3>1, PurgesOwn
    <3>3. QED
      BY <3>1, <3>2
  <2>3. ASSUME NEW j \in Keys, OrphanRemove(j)
        PROVE  Rightly(k)
    <3>1. j = k /\ orphan[k].pc = "remove"
      BY <2>1, <2>3 DEF OrphanRemove, StoreInv
    <3>2. k \in Audio /\ k \notin rows
      BY <2>1, <3>1 DEF OrphanInv, StoreInv
    <3>3. QED
      BY <3>2 DEF Audio
  <2>4. ASSUME NEW j \in Keys, Put(j)
        PROVE  FALSE
    BY <2>1, <2>4, Bounds DEF Put, StoreInv
  <2>5. CASE bucket' = bucket
    BY <2>1, <2>5
  <2>6. bucket' = bucket \/ (\E u \in Users : PurgeOne(u)) \/ (\E j \in Keys : OrphanRemove(j) \/ Put(j))
    BY <2>1 DEF Next, ListOwned, PurgeFails, Purged, CreateEvent, RunTask, OrphanHandler, OrphanFails,
                OrphanEnds, Notice, NoticeIgnored, NoticeFound, OrphanList, OtherNotice
  <2>7. QED
    BY <2>2, <2>3, <2>4, <2>5, <2>6
<1>2. QED
  BY <1>1, StoreInvInductive, OrphanInvInductive, PTL DEF Spec, RemovedRightly
=============================================================================
