-------------------------------- MODULE Events --------------------------------
(***************************************************************************)
(* Creating events (src/app/services/events.py) with a clientEventId that  *)
(* makes a repeated request harmless, the recording and the upload URL an  *)
(* audio event comes with, and the demo data (services/demo_seed.py) that  *)
(* is only for an account without events.  One account, whose client may   *)
(* send any of these requests again or several at a time.  An event and    *)
(* its recording are made by one request and share an id here.             *)
(***************************************************************************)
EXTENDS Naturals, Sequences, FiniteSets

CONSTANTS
  Ids,       \* events.id, each used once (uuid4)
  Keys,      \* clientEventId
  Tags,      \* tags.id
  TagTable,  \* _TAGS: the names of the demo tags in their order
  Rows,      \* _SEED_EVENTS: the tag names of each demo event
  None,      \* no clientEventId, no tag, a name that is not of the table
  Requests,  \* API requests that can run at one time
  MaxSeeds,  \* copies of the demo data (bounds the model)
  Faults,    \* kinds of failure the environment may cause
  MaxFaults  \* of these in one behaviour (bounds the model)

FaultKinds ==
  { "unconfigured", \* no bucket to sign an upload URL for
    "crash",        \* the process serving a request dies before its commit
    "lost",         \* the answer does not reach the client
    "detach" }      \* a tag that a running seed has found is deleted or renamed

Names == {TagTable[i] : i \in DOMAIN TagTable}

ASSUME EventsAssumption ==
  /\ None \notin Keys \cup Tags \cup Ids \cup Names
  /\ TagTable \in Seq(Names) /\ Rows \in Seq(SUBSET Names)
  /\ MaxSeeds \in Nat /\ MaxFaults \in Nat /\ Faults \subseteq FaultKinds

VARIABLES
  user,       \* the users row exists
  event,      \* the events rows but the demo's: state, clientEventId, type
  recording,  \* the recordings rows, committed
  urls,       \* recordings whose upload URL a client has
  objects,    \* recordings with an object in the bucket
  wanted,     \* the keys the client has tried to create an event with
  got,        \* the event last answered to a key
  tag,        \* tags rows: a name, and the colour by who made it
  demo,       \* the demo's events rows: copy, row and tag_ids
  seeds,      \* copies seeded; users.demo_seeded_at is set with each
  req,        \* API requests
  faults

vars == <<user, event, recording, urls, objects, wanted, got, tag, demo, seeds, req, faults>>
creation == <<event, recording, urls, objects, wanted, got>>
seeding == <<tag, demo, seeds>>

Unresolved == [n \in Names |-> None]
IdleReq == [pc |-> "idle", key |-> None, type |-> "text", id |-> None,
            tags |-> Unresolved, made |-> {}]
UnusedTag == [name |-> None, colour |-> "none"]
Live == {e \in Ids : event[e].state = "live"}
HasEvents == Live # {} \/ demo # {}
WithKey(k) == {e \in Live : event[e].key = k}
\* The committed tag of a name, and the ones a running seed has inserted.
Holder(n) == {t \in Tags : tag[t].name = n}
Pending(n) == {q \in Requests : req[q].tags[n] \in req[q].made}
\* Ids nothing has used; the bound leaves one to each other key without an answer.
Unused == {e \in Ids : event[e].state = "unused"} \ {req[q].id : q \in Requests}
Room(k) == Cardinality(Unused) > Cardinality({i \in Keys \ {k} : got[i] = None})
\* A seed has found the tag, and has not committed.
Found(t) == \E q \in Requests : \E n \in Names : req[q].tags[n] = t
\* An id is used again when nothing names it any more.
Ready(t) ==
  /\ tag[t] = UnusedTag
  /\ ~Found(t)
  /\ \A d \in demo : t \notin d.tags
Seeders == {q \in Requests : req[q].pc \in {"tags", "tag"}}

Init ==
  /\ user = FALSE
  /\ event = [e \in Ids |-> [state |-> "unused", key |-> None, type |-> "text"]]
  /\ recording = {} /\ urls = {} /\ objects = {}
  /\ wanted = {} /\ got = [k \in Keys |-> None]
  /\ tag = [t \in Tags |-> UnusedTag]
  /\ demo = {} /\ seeds = 0
  /\ req = [q \in Requests |-> IdleReq]
  /\ faults = 0

NoFault == UNCHANGED faults
Fault(kind) == kind \in Faults /\ faults < MaxFaults /\ faults' = faults + 1

At(q, pc) == req[q].pc = pc
\* Mutant of Ends: the session, and what it has not committed, is kept.
EndsUnclosed(q) == req' = [req EXCEPT ![q].pc = "idle"]

\* The request ends, and its session with it.
Ends(q) == req' = [req EXCEPT ![q] = IdleReq]

-----------------------------------------------------------------------------
(* get_or_create_user: the handler of the request follows, as of any other *)

FirstRequest(q) ==
  /\ At(q, "idle") /\ ~user
  /\ req' = [req EXCEPT ![q].pc = "provision"]
  /\ NoFault /\ UNCHANGED <<user, creation, seeding>>

\* The primary key refuses the second of two: a 500, and the row is there.
Provision(q) ==
  /\ At(q, "provision")
  /\ user' = TRUE
  /\ Ends(q)
  /\ NoFault /\ UNCHANGED <<creation, seeding>>

-----------------------------------------------------------------------------
(* create_event *)

\* The answer with its upload URL, if it arrives.
Answered(k, e, audio) ==
  \/ /\ got' = IF k \in Keys THEN [got EXCEPT ![k] = e] ELSE got
     /\ urls' = IF audio THEN urls \cup {e} ELSE urls
     /\ NoFault
  \/ Fault("lost") /\ UNCHANGED <<got, urls>>

Wants(k) == wanted' = IF k \in Keys THEN wanted \cup {k} ELSE wanted

\* Mutant of CreateFound: a key in use is refused, not answered.
FoundRefused(q, k) ==
  /\ At(q, "idle") /\ user /\ k \in Keys /\ WithKey(k) # {}
  /\ Wants(k)
  /\ NoFault /\ UNCHANGED <<user, event, recording, urls, objects, got, seeding, req>>

\* The event exists; _mint_signed_url finds its recording.
CreateFound(q, k) ==
  /\ At(q, "idle") /\ user /\ k \in Keys
  /\ Wants(k)
  /\ \E e \in WithKey(k) :
       \/ Answered(k, e, e \in recording)
       \/ e \in recording /\ Fault("unconfigured") /\ UNCHANGED <<got, urls>>
  /\ UNCHANGED <<user, event, recording, objects, seeding, req>>

\* No event has the key; for audio the URL is signed before anything is written.
CreateNew(q, k) ==
  /\ At(q, "idle") /\ user /\ (k \in Keys => WithKey(k) = {}) /\ Room(k)
  /\ Wants(k)
  /\ \E e \in Unused : \E type \in {"text", "audio"} :
       req' = [req EXCEPT ![q] = [IdleReq EXCEPT !.pc = "insert", !.key = k, !.id = e, !.type = type]]
  /\ NoFault /\ UNCHANGED <<user, event, recording, urls, objects, got, seeding>>

CreateUnconfigured(q, k) ==
  /\ At(q, "idle") /\ user /\ (k \in Keys => WithKey(k) = {})
  /\ Wants(k) /\ Fault("unconfigured")
  /\ UNCHANGED <<user, event, recording, urls, objects, got, seeding, req>>

\* Mutant of CreateCommit: the loser is answered 201 with what it did not store.
CommitAnswersLoser(q) ==
  /\ At(q, "insert")
  /\ LET k == req[q].key
         e == req[q].id
         audio == req[q].type = "audio"
     IN  IF k \in Keys /\ WithKey(k) # {}
           THEN Answered(k, e, audio) /\ UNCHANGED <<event, recording>>
           ELSE /\ event' = [event EXCEPT ![e] = [state |-> "live", key |-> k, type |-> req[q].type]]
                /\ recording' = IF audio THEN recording \cup {e} ELSE recording
                /\ Answered(k, e, audio)
  /\ Ends(q)
  /\ UNCHANGED <<user, objects, wanted, seeding>>

\* Mutant of CreateCommit: the recording is committed before the event.
CommitRecordingFirst(q) ==
  /\ At(q, "insert")
  /\ LET k == req[q].key
         e == req[q].id
         audio == req[q].type = "audio"
     IN  /\ recording' = IF audio THEN recording \cup {e} ELSE recording
         /\ IF k \in Keys /\ WithKey(k) # {}
              THEN NoFault /\ UNCHANGED <<event, urls, got>>
              ELSE /\ event' = [event EXCEPT ![e] = [state |-> "live", key |-> k, type |-> req[q].type]]
                   /\ Answered(k, e, audio)
  /\ Ends(q)
  /\ UNCHANGED <<user, objects, wanted, seeding>>

\* Mutant of CreateCommit: client_event_id is not unique.
CommitTwice(q) ==
  /\ At(q, "insert")
  /\ LET k == req[q].key
         e == req[q].id
         audio == req[q].type = "audio"
     IN  /\ event' = [event EXCEPT ![e] = [state |-> "live", key |-> k, type |-> req[q].type]]
         /\ recording' = IF audio THEN recording \cup {e} ELSE recording
         /\ Answered(k, e, audio)
  /\ Ends(q)
  /\ UNCHANGED <<user, objects, wanted, seeding>>

\* Recording and event in one transaction; the unique client_event_id refuses the
\* second of two, which is a 500 and leaves nothing.
CreateCommit(q) ==
  /\ At(q, "insert")
  /\ LET k == req[q].key
         e == req[q].id
         audio == req[q].type = "audio"
     IN  IF k \in Keys /\ WithKey(k) # {}
           THEN NoFault /\ UNCHANGED <<event, recording, urls, got>>
           ELSE /\ event' = [event EXCEPT ![e] = [state |-> "live", key |-> k, type |-> req[q].type]]
                /\ recording' = IF audio THEN recording \cup {e} ELSE recording
                /\ Answered(k, e, audio)
  /\ Ends(q)
  /\ UNCHANGED <<user, objects, wanted, seeding>>

\* PUT to the signed URL; another one would change nothing more.
Upload(e) ==
  /\ e \in urls
  /\ objects' = objects \cup {e} /\ urls' = urls \ {e}
  /\ NoFault /\ UNCHANGED <<user, event, recording, wanted, got, seeding, req>>

\* delete_event leaves the recording, and frees the key.
DeleteEvent(e) ==
  /\ event[e].state = "live" /\ Room(event[e].key)
  /\ event' = [event EXCEPT ![e].state = "gone"]
  /\ NoFault /\ UNCHANGED <<user, recording, urls, objects, wanted, got, seeding, req>>

-----------------------------------------------------------------------------
(* create_my_demo_data, seed_demo_data *)

\* An account with events is answered 409.
SeedCheck(q) ==
  /\ At(q, "idle") /\ user /\ ~HasEvents /\ seeds + Cardinality(Seeders) < MaxSeeds
  /\ req' = [req EXCEPT ![q].pc = "tags"]
  /\ NoFault /\ UNCHANGED <<user, creation, seeding>>

\* The next name of the table without a tag.
NextName(q) ==
  TagTable[CHOOSE i \in DOMAIN TagTable :
             /\ req[q].tags[TagTable[i]] = None
             /\ \A j \in 1..(i - 1) : req[q].tags[TagTable[j]] # None]
Resolved(q) == \A n \in Names : req[q].tags[n] # None

\* Mutant of SeedSelect: a tag is looked up without its name.
SeedSelectAny(q) ==
  /\ At(q, "tags") /\ ~Resolved(q)
  /\ LET held == {t \in Tags : tag[t] # UnusedTag}
     IN  IF held = {}
           THEN req' = [req EXCEPT ![q].pc = "tag"]
           ELSE \E t \in held : req' = [req EXCEPT ![q].tags[NextName(q)] = t]
  /\ NoFault /\ UNCHANGED <<user, creation, seeding>>

\* get_tag_by_name for the next name: a tag of the user is reused.
SeedSelect(q) ==
  /\ At(q, "tags") /\ ~Resolved(q)
  /\ LET n == NextName(q)
     IN  IF Holder(n) = {}
           THEN req' = [req EXCEPT ![q].pc = "tag"]
           ELSE \E t \in Holder(n) : req' = [req EXCEPT ![q].tags[n] = t]
  /\ NoFault /\ UNCHANGED <<user, creation, seeding>>

\* Mutant of SeedInsert: the tag is made by upsert_tag_by_name, which commits.
SeedInsertCommits(q) ==
  /\ At(q, "tag")
  /\ LET n == NextName(q)
     IN  IF Holder(n) # {}
           THEN Ends(q) /\ UNCHANGED tag
           ELSE \E t \in Tags :
                  /\ Ready(t)
                  /\ tag' = [tag EXCEPT ![t] = [name |-> n, colour |-> "demo"]]
                  /\ req' = [req EXCEPT ![q].pc = "tags", ![q].tags[n] = t]
  /\ NoFault /\ UNCHANGED <<user, creation, demo, seeds>>

\* The autoflush of the next statement inserts the new tag: it waits for another
\* seed that has inserted the name, and is a 500 if the name is taken by then.
SeedInsert(q) ==
  /\ At(q, "tag")
  /\ LET n == NextName(q)
     IN  /\ Pending(n) = {}
         /\ IF Holder(n) # {}
              THEN Ends(q)
              ELSE \E t \in Tags :
                     /\ Ready(t)
                     /\ req' = [req EXCEPT ![q].pc = "tags", ![q].tags[n] = t,
                                           ![q].made = @ \cup {t}]
  /\ NoFault /\ UNCHANGED <<user, creation, seeding>>

\* The demo's events, the tags it made and the stamp, in one commit.
SeedCommit(q) ==
  /\ At(q, "tags") /\ Resolved(q)
  /\ seeds' = seeds + 1
  /\ demo' = demo \cup {[copy |-> seeds', row |-> i, tags |-> {req[q].tags[n] : n \in Rows[i]}] :
                          i \in DOMAIN Rows}
  /\ tag' = [t \in Tags |->
               IF t \in req[q].made
                 THEN [name |-> CHOOSE n \in Names : req[q].tags[n] = t, colour |-> "demo"]
                 ELSE tag[t]]
  /\ Ends(q)
  /\ NoFault /\ UNCHANGED <<user, creation>>

-----------------------------------------------------------------------------
(* What the user does with the demo's events and with tags *)

DeleteDemoEvent ==
  /\ \E d \in demo : demo' = demo \ {d}
  /\ NoFault /\ UNCHANGED <<user, creation, tag, seeds, req>>

\* PATCH of tagIds: ids of the user's tags or, as nobody checks, of none (None); no more
\* than one is enough to replace what the seed wrote.
PatchDemo ==
  /\ \E d \in demo : \E ids \in {{}, {None}} \cup {{t} : t \in Tags} :
       /\ \A t \in ids \cap Tags : tag[t] # UnusedTag
       /\ demo' = (demo \ {d}) \cup {[d EXCEPT !.tags = ids]}
  /\ NoFault /\ UNCHANGED <<user, creation, tag, seeds, req>>

\* upsert_tag_by_name; Tagging has its races with other creates.
CreateTag(n) ==
  /\ user /\ Holder(n) = {} /\ Pending(n) = {}
  /\ \E t \in Tags : Ready(t) /\ tag' = [tag EXCEPT ![t] = [name |-> n, colour |-> "user"]]
  /\ NoFault /\ UNCHANGED <<user, creation, demo, seeds, req>>

\* A write to a tag; seldom to one that a seed is about to use.
TagWrite(t) == tag[t] # UnusedTag /\ IF Found(t) THEN Fault("detach") ELSE NoFault

\* The bound on ids leaves one to each name of the table.
RoomForNames ==
  Cardinality({t \in Tags : tag[t].name = None /\ tag[t] # UnusedTag}) + Cardinality(Names)
    < Cardinality(Tags)

\* update_tag: a name that is taken is a 409, and one a seed has inserted is waited for.
RenameTag(t) ==
  /\ TagWrite(t)
  /\ \E n \in Names \cup {None} :
       /\ IF n \in Names THEN Holder(n) = {} /\ Pending(n) = {} ELSE RoomForNames
       /\ tag' = [tag EXCEPT ![t].name = n]
  /\ UNCHANGED <<user, creation, demo, seeds, req>>

\* delete_tag, which takes the tag out of the events there are.
DeleteTag(t) ==
  /\ TagWrite(t)
  /\ tag' = [tag EXCEPT ![t] = UnusedTag]
  /\ demo' = {[d EXCEPT !.tags = @ \ {t}] : d \in demo}
  /\ UNCHANGED <<user, creation, seeds, req>>

Edit ==
  \/ DeleteDemoEvent \/ PatchDemo
  \/ \E n \in Names : CreateTag(n)
  \/ \E t \in Tags : RenameTag(t) \/ DeleteTag(t)

-----------------------------------------------------------------------------

\* Before its commit: whatever the request wrote is rolled back.
Dies(q) ==
  /\ ~At(q, "idle") /\ Fault("crash")
  /\ Ends(q)
  /\ UNCHANGED <<user, creation, seeding>>

Serve(q) == Provision(q) \/ CreateCommit(q) \/ SeedSelect(q) \/ SeedInsert(q) \/ SeedCommit(q)
Retry(k) == \E q \in Requests : CreateFound(q, k) \/ CreateNew(q, k)

Next ==
  \/ \E q \in Requests : FirstRequest(q) \/ Serve(q) \/ SeedCheck(q) \/ Dies(q)
  \/ \E k \in Keys \cup {None} :
       Retry(k) \/ \E q \in Requests : CreateUnconfigured(q, k)
  \/ \E e \in Ids : Upload(e) \/ DeleteEvent(e)
  \/ Edit

Spec == Init /\ [][Next]_vars

\* Requests run to their end, and the client tries again until it is answered:
\* strongly, as it only ever waits for one of the model's few requests to be free.
LiveSpec ==
  /\ Spec
  /\ \A q \in Requests : WF_vars(Serve(q))
  /\ \A k \in Keys : SF_vars(k \in wanted /\ got[k] = None /\ Retry(k))

-----------------------------------------------------------------------------
(* Properties *)

\* Every variable keeps its type, and a request that has ended has left nothing
\* uncommitted.
EventsTypes ==
  /\ user \in BOOLEAN
  /\ event \in [Ids -> [state : {"unused", "live", "gone"}, key : Keys \cup {None},
                         type : {"text", "audio"}]]
  /\ {recording, urls, objects} \subseteq SUBSET Ids
  /\ wanted \subseteq Keys /\ got \in [Keys -> Ids \cup {None}]
  /\ tag \in [Tags -> [name : Names \cup {None}, colour : {"none", "user", "demo"}]]
  /\ demo \subseteq [copy : 1..MaxSeeds, row : DOMAIN Rows, tags : SUBSET (Tags \cup {None})]
  /\ seeds \in 0..MaxSeeds
  /\ req \in [Requests -> [pc : {"idle", "provision", "insert", "tags", "tag"},
                            key : Keys \cup {None}, type : {"text", "audio"},
                            id : Ids \cup {None}, tags : [Names -> Tags \cup {None}],
                            made : SUBSET Tags]]
  /\ \A q \in Requests : At(q, "idle") => req[q] = IdleReq
  /\ faults \in 0..MaxFaults

\* "a retry with the same value returns the same event": a key once answered with
\* an event is answered with no other one as long as that event is there.
SameEvent ==
  [][\A k \in Keys : got[k] # None /\ got'[k] # got[k] => event[got[k]].state = "gone"]_vars

\* What is uploaded to a URL has a recording, whatever became of the request that
\* signed it: the notice of the upload finds a row.
UploadsFindRows == objects \subseteq recording

\* "there is no event left dangling": an audio event has its recording, and a
\* recording an event, which at most the user has deleted.
RecordingsOwned == recording = {e \in Ids : event[e].state # "unused" /\ event[e].type = "audio"}

\* The key makes a create retry-safe: a client that keeps trying, after failures
\* and lost answers, is answered with its event.
RetrySettles == \A k \in Keys : k \in wanted ~> got[k] # None

\* "Commits once, so the events and the mark land atomically": no tag of the demo
\* without a copy of the demo, however the seed ended.
SeedAtomic == (\E t \in Tags : tag[t].colour = "demo") => seeds > 0

\* "Tags are matched by name", "one the user already created is reused": when a seed
\* commits, each row of the demo is there with tags of its very names, however long ago
\* they were looked up and whatever the user or another seed has made meanwhile ("detach"
\* is the user writing to one that was looked up already).
SeedFits ==
  [][seeds' # seeds =>
       \A i \in DOMAIN Rows : \E d \in demo' :
         d.copy = seeds' /\ d.row = i /\ {tag'[t].name : t \in d.tags} = Rows[i]]_vars

\* Demo data is for an account without events.
SeedsEmpty == [][seeds' # seeds => ~HasEvents]_vars
=============================================================================
