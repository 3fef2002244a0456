-------------------------------- MODULE Tagging --------------------------------
(***************************************************************************)
(* A user's tags and the tags of their events: the tag routes              *)
(* (src/app/routers/tags.py, src/app/services/tags.py), edits of events,   *)
(* and the auto-tagging worker (src/app/services/tagging.py), which reads  *)
(* an event, asks a language model and writes its answer much later.       *)
(* events.tag_ids is a JSON array without a foreign key; every writer is   *)
(* an ORM session that writes what it changed of the row it loaded.        *)
(***************************************************************************)
EXTENDS Naturals, FiniteSets

CONSTANTS
  Tags,         \* tags.id, each used once (uuid4)
  Names,        \* tags.name
  Events,       \* events.id, each used once
  None,         \* no tag, no event, no name
  Stray,        \* an id of no tag of the user, which a client may send all the same
  Workers,      \* Cloud Tasks to /internal/tag that can be queued or running
  Requests,     \* API requests of the user that can run at one time
  Operations,   \* what the user does
  MaxAttempts,  \* attempts the queue gives a task
  Faults,       \* kinds of failure the environment may cause
  MaxFaults     \* of these in one behaviour (bounds the model)

AllOperations == {"create", "rename", "delete", "tag", "write", "null"}
FaultKinds ==
  { "overlap",     \* a request or worker starts while another is running
    "retry",       \* the tagger is busy, rate-limited or unreachable
    "rejected",    \* the tagger's answer is not usable
    "crash",       \* the process of a worker request dies
    "redelivery",  \* Cloud Tasks runs a task again
    "queue_down" } \* Cloud Tasks refuses a task

ASSUME TaggingAssumption ==
  /\ None \notin Tags \cup Names \cup Events \cup {Stray}
  /\ Stray \notin Tags
  /\ {"unused", "gone"} \cap Names = {}
  /\ Operations \subseteq AllOperations /\ Faults \subseteq FaultKinds
  /\ MaxAttempts \in Nat \ {0} /\ MaxFaults \in Nat

VARIABLES
  tag,     \* the name of each tag row, "unused" before and "gone" after it
  event,   \* the events with a row, "unused" before and "gone" after it
  tagIds,  \* events.tag_ids
  task,    \* tagging tasks and the worker requests serving them
  req,     \* API requests
  faults

vars == <<tag, event, tagIds, task, req, faults>>

NullIds == {None}                             \* JSON null in events.tag_ids
Ids == (SUBSET (Tags \cup {Stray})) \cup {NullIds}
Falsy(ids) == ids \in {{}, NullIds}
Named == {t \in Tags : tag[t] \in Names}      \* the rows of the tags table
\* Ids that have been a tag's, and what a client makes up.  Nothing but their type is checked
\* of the ids a client sends, so they may be of tags that are gone, or of none.
Known == {t \in Tags : tag[t] # "unused"} \cup {Stray}
Holder(n) == {t \in Tags : tag[t] = n}
LiveEvents == {e \in Events : event[e] = "live"}

IdleTask == [pc |-> "free", ev |-> None, loaded |-> {}, offered |-> {}, attempt |-> 0]
IdleReq == [pc |-> "idle", tag |-> None, ev |-> None, name |-> None, want |-> {},
            loaded |-> [e \in Events |-> {}]]
\* Requests that have read and not yet written; the rest are how a 500 came about.
Busy == {"patch", "delete", "insert", "reselect", "rename"}
Failed == {"clash", "lost", "stale", "unreadable"}

Init ==
  /\ tag = [t \in Tags |-> "unused"]
  /\ event = [e \in Events |-> "unused"]
  /\ tagIds = [e \in Events |-> {}]
  /\ task = [w \in Workers |-> IdleTask]
  /\ req = [q \in Requests |-> IdleReq]
  /\ faults = 0

NoFault == UNCHANGED faults
Fault(kind) == kind \in Faults /\ faults < MaxFaults /\ faults' = faults + 1

\* Nothing has read the database that it has still to write.
Quiet == (\A w \in Workers : task[w].pc # "asking") /\ (\A q \in Requests : req[q].pc \notin Busy)

\* A request or worker reads the database; alone, or while another is running.
Starts == IF Quiet THEN NoFault ELSE Fault("overlap")

\* The same of a request that is modelled as one step and uses up no fault.
MayRun == Quiet \/ "overlap" \in Faults

At(q, pc) == req[q].pc = pc
Answer(q, pc) == req' = [req EXCEPT ![q] = [IdleReq EXCEPT !.pc = pc]]

\* dispatch_tagging; a TaskQueueError is logged and swallowed.
Dispatch(e) ==
  \/ \E w \in Workers :
       /\ task[w].pc = "free"
       /\ task' = [task EXCEPT ![w] = [IdleTask EXCEPT !.pc = "queued", !.ev = e, !.attempt = 1]]
       /\ NoFault
  \/ (\A w \in Workers : task[w].pc # "free") /\ UNCHANGED task /\ NoFault
  \/ Fault("queue_down") /\ UNCHANGED task

-----------------------------------------------------------------------------
(* Events *)

\* Every event modelled has text, so an event without tags is dispatched.
CreateEvent(e) ==
  /\ event[e] = "unused" /\ MayRun
  /\ event' = [event EXCEPT ![e] = "live"]
  /\ \E ids \in SUBSET Known :
       /\ tagIds' = [tagIds EXCEPT ![e] = ids]
       /\ IF ids = {} THEN Dispatch(e) ELSE UNCHANGED task /\ NoFault
  /\ UNCHANGED <<tag, req>>

DeleteEvent(e) ==
  /\ event[e] = "live" /\ MayRun
  /\ event' = [event EXCEPT ![e] = "gone"]
  /\ tagIds' = [tagIds EXCEPT ![e] = {}]
  /\ NoFault /\ UNCHANGED <<tag, task, req>>

\* PATCH of title or description writes no tags.
WriteText(e) ==
  /\ "write" \in Operations /\ event[e] = "live" /\ MayRun
  /\ IF Falsy(tagIds[e]) THEN Dispatch(e) ELSE UNCHANGED task /\ NoFault
  /\ UNCHANGED <<tag, event, tagIds, req>>

\* PATCH of tagIds: the event is loaded.
PatchRead(q) ==
  /\ "tag" \in Operations /\ At(q, "idle") /\ Starts
  /\ \E e \in LiveEvents : \E ids \in SUBSET Known :
       req' = [req EXCEPT ![q] = [IdleReq EXCEPT !.pc = "patch", !.ev = e, !.want = ids,
                                                 !.loaded = tagIds]]
  /\ UNCHANGED <<tag, event, tagIds, task>>

\* {"tagIds": null} passes EventUpdate, and JSON null passes NOT NULL.
PatchNull(q) ==
  /\ "null" \in Operations /\ At(q, "idle") /\ Starts
  /\ \E e \in LiveEvents :
       req' = [req EXCEPT ![q] = [IdleReq EXCEPT !.pc = "patch", !.ev = e, !.want = NullIds,
                                                 !.loaded = tagIds]]
  /\ UNCHANGED <<tag, event, tagIds, task>>

\* The flush writes a value only if it is not the one loaded; a row that has gone
\* is a StaleDataError.
PatchCommit(q) ==
  /\ At(q, "patch")
  /\ LET e == req[q].ev
         changed == req[q].want # req[q].loaded[e]
     IN  IF changed /\ event[e] = "gone"
           THEN Answer(q, "stale") /\ UNCHANGED tagIds
           ELSE /\ Answer(q, "idle")
                /\ tagIds' = IF changed THEN [tagIds EXCEPT ![e] = req[q].want] ELSE tagIds
  /\ NoFault /\ UNCHANGED <<tag, event, task>>

-----------------------------------------------------------------------------
(* Tags *)

\* upsert_tag_by_name: an existing name is answered 200 and changes nothing.
CreateSelect(q) ==
  /\ "create" \in Operations /\ At(q, "idle") /\ Starts
  /\ Cardinality({t \in Tags : tag[t] = "unused"}) > Cardinality({p \in Requests : At(p, "insert")})
  /\ \E n \in Names :
       /\ Holder(n) = {}
       /\ req' = [req EXCEPT ![q] = [IdleReq EXCEPT !.pc = "insert", !.name = n]]
  /\ UNCHANGED <<tag, event, tagIds, task>>

\* Mutant of CreateInsert: the IntegrityError is not caught.
InsertUncaught(q) ==
  /\ At(q, "insert")
  /\ IF Holder(req[q].name) = {}
       THEN \E t \in Tags :
              /\ tag[t] = "unused"
              /\ tag' = [tag EXCEPT ![t] = req[q].name]
              /\ Answer(q, "idle")
       ELSE Answer(q, "lost") /\ UNCHANGED tag
  /\ NoFault /\ UNCHANGED <<event, tagIds, task>>

CreateInsert(q) ==
  /\ At(q, "insert")
  /\ IF Holder(req[q].name) = {}
       THEN \E t \in Tags :
              /\ tag[t] = "unused"
              /\ tag' = [tag EXCEPT ![t] = req[q].name]
              /\ Answer(q, "idle")
       ELSE req' = [req EXCEPT ![q].pc = "reselect"] /\ UNCHANGED tag
  /\ NoFault /\ UNCHANGED <<event, tagIds, task>>

\* The winner's row, or the IntegrityError again.
CreateReselect(q) ==
  /\ At(q, "reselect")
  /\ Answer(q, IF Holder(req[q].name) # {} THEN "idle" ELSE "lost")
  /\ NoFault /\ UNCHANGED <<tag, event, tagIds, task>>

\* _ensure_name_free; a taken name is answered 409 and changes nothing.
RenameCheck(q) ==
  /\ "rename" \in Operations /\ At(q, "idle") /\ Starts
  /\ \E t \in Named : \E n \in Names :
       /\ Holder(n) = {}
       /\ req' = [req EXCEPT ![q] = [IdleReq EXCEPT !.pc = "rename", !.tag = t, !.name = n]]
  /\ UNCHANGED <<tag, event, tagIds, task>>

RenameCommit(q) ==
  /\ At(q, "rename")
  /\ LET t == req[q].tag
         n == req[q].name
     IN  \/ tag[t] = "gone" /\ Answer(q, "stale") /\ UNCHANGED tag
         \/ tag[t] # "gone" /\ Holder(n) \ {t} # {} /\ Answer(q, "clash") /\ UNCHANGED tag
         \/ /\ tag[t] # "gone" /\ Holder(n) \ {t} = {}
            /\ tag' = [tag EXCEPT ![t] = n]
            /\ Answer(q, "idle")
  /\ NoFault /\ UNCHANGED <<event, tagIds, task>>

\* delete_tag loads every event of the owner; `in None` is a TypeError.
DeleteRead(q) ==
  /\ "delete" \in Operations /\ At(q, "idle") /\ Starts
  /\ \E t \in Named :
       IF \E e \in LiveEvents : tagIds[e] = NullIds
         THEN Answer(q, "unreadable")
         ELSE req' = [req EXCEPT ![q] = [IdleReq EXCEPT !.pc = "delete", !.tag = t,
                                                        !.loaded = tagIds]]
  /\ UNCHANGED <<tag, event, tagIds, task>>

Carriers(q) == {e \in Events : req[q].tag \in req[q].loaded[e]}

\* The lists computed from the events as loaded, and the row, in one transaction.
DeleteCommit(q) ==
  /\ At(q, "delete")
  /\ IF \E e \in Carriers(q) : event[e] = "gone"
       THEN Answer(q, "stale") /\ UNCHANGED <<tag, tagIds>>
       ELSE /\ tagIds' = [e \in Events |-> IF e \in Carriers(q)
                                            THEN req[q].loaded[e] \ {req[q].tag}
                                            ELSE tagIds[e]]
            /\ tag' = [tag EXCEPT ![req[q].tag] = "gone"]
            /\ Answer(q, "idle")
  /\ NoFault /\ UNCHANGED <<event, task>>

\* The client has its 500.
Answered(q) ==
  /\ req[q].pc \in Failed
  /\ Answer(q, "idle")
  /\ NoFault /\ UNCHANGED <<tag, event, tagIds, task>>

-----------------------------------------------------------------------------
(* run_tagging *)

Finish(w) == task' = [task EXCEPT ![w] = IdleTask]
Requeued(w) == [IdleTask EXCEPT !.pc = "queued", !.ev = task[w].ev, !.attempt = task[w].attempt + 1]
\* Mutant of Again: the queue's attempt budget is not counted.
AgainUncounted(w) == task' = [task EXCEPT ![w] = Requeued(w)]
Again(w) == task' = [task EXCEPT ![w] = IF @.attempt < MaxAttempts THEN Requeued(w) ELSE IdleTask]


\* no_event, already_tagged
WorkerNoop(w) ==
  /\ task[w].pc = "queued"
  /\ event[task[w].ev] = "gone" \/ ~Falsy(tagIds[task[w].ev])
  /\ Finish(w)
  /\ NoFault /\ UNCHANGED <<tag, event, tagIds, req>>

\* Mutant of WorkerRead: the event is not asked whether it has tags.
ReadAnyway(w) ==
  /\ task[w].pc = "queued" /\ event[task[w].ev] = "live"
  /\ Starts
  /\ task' = [task EXCEPT ![w].pc = "asking", ![w].loaded = tagIds[task[w].ev],
                          ![w].offered = Named]
  /\ UNCHANGED <<tag, event, tagIds, req>>

\* The event and the whole tag list are read; the model is asked.
WorkerRead(w) ==
  /\ task[w].pc = "queued" /\ event[task[w].ev] = "live" /\ Falsy(tagIds[task[w].ev])
  /\ Starts
  /\ task' = [task EXCEPT ![w].pc = "asking", ![w].loaded = tagIds[task[w].ev],
                          ![w].offered = Named]
  /\ UNCHANGED <<tag, event, tagIds, req>>

\* What the model may answer: any ids, of tags the user has or not; it is not asked when
\* there is nothing to choose from.
Replies(w) == IF task[w].offered = {} THEN {{}} ELSE SUBSET (Tags \cup {Stray})

\* Mutant of Invented: the answer is believed.
Believed(w, ids) == FALSE
Invented(w, ids) == ids \ task[w].offered # {}

\* Tags of the list offered, or none of them, written over the list loaded.
WorkerWrite(w) ==
  /\ task[w].pc = "asking"
  /\ LET e == task[w].ev
     IN  \E ids \in Replies(w) :
           /\ ~Invented(w, ids)
           /\ IF ids # task[w].loaded /\ event[e] = "gone"
                THEN Again(w) /\ NoFault /\ UNCHANGED tagIds
                ELSE /\ tagIds' = IF ids # task[w].loaded THEN [tagIds EXCEPT ![e] = ids] ELSE tagIds
                     /\ \/ Finish(w) /\ NoFault
                        \/ Again(w) /\ Fault("redelivery")
  /\ UNCHANGED <<tag, event, req>>

\* An id outside the list, or an answer that is no answer: failed, and not tried again.
Unusable(w) ==
  /\ task[w].pc = "asking" /\ task[w].offered # {}
  /\ \/ (\E ids \in Replies(w) : Invented(w, ids)) /\ NoFault
     \/ Fault("rejected")
  /\ Finish(w)
  /\ UNCHANGED <<tag, event, tagIds, req>>

\* No answer, 503 or 429.
Unanswered(w) ==
  /\ task[w].pc = "asking" /\ task[w].offered # {}
  /\ Fault("retry") /\ Again(w)
  /\ UNCHANGED <<tag, event, tagIds, req>>

WorkerDies(w) ==
  /\ task[w].pc = "asking"
  /\ Fault("crash") /\ Again(w)
  /\ UNCHANGED <<tag, event, tagIds, req>>

Request(q) ==
  \/ PatchRead(q) \/ PatchNull(q) \/ PatchCommit(q)
  \/ CreateSelect(q) \/ CreateInsert(q) \/ CreateReselect(q)
  \/ RenameCheck(q) \/ RenameCommit(q) \/ DeleteRead(q) \/ DeleteCommit(q) \/ Answered(q)
Worker(w) == WorkerNoop(w) \/ WorkerRead(w) \/ WorkerWrite(w)
             \/ Unusable(w) \/ Unanswered(w) \/ WorkerDies(w)

Next ==
  \/ \E q \in Requests : Request(q)
  \/ \E w \in Workers : Worker(w)
  \/ \E e \in Events : CreateEvent(e) \/ DeleteEvent(e) \/ WriteText(e)

Spec == Init /\ [][Next]_vars

\* Cloud Tasks runs what it holds, and requests and workers run to their end: strongly,
\* because a worker that has yet to start waits for others only in the model (Starts).
LiveSpec ==
  /\ Spec
  /\ \A q \in Requests :
       WF_vars(PatchCommit(q) \/ CreateInsert(q) \/ CreateReselect(q) \/ RenameCommit(q) \/ DeleteCommit(q))
  /\ \A w \in Workers : SF_vars(Worker(w))

-----------------------------------------------------------------------------
(* Properties *)

\* Every variable keeps its type.
TaggingTypes ==
  /\ tag \in [Tags -> Names \cup {"unused", "gone"}]
  /\ event \in [Events -> {"unused", "live", "gone"}]
  /\ tagIds \in [Events -> Ids]
  /\ task \in [Workers -> {IdleTask} \cup
                 [pc : {"queued", "asking"}, ev : Events, loaded : Ids, offered : SUBSET Tags,
                  attempt : 1..MaxAttempts]]
  /\ req \in [Requests -> [pc : {"idle"} \cup Busy \cup Failed, tag : Tags \cup {None},
                           ev : Events \cup {None}, name : Names \cup {None}, want : Ids,
                           loaded : [Events -> Ids]]]
  /\ faults \in 0..MaxFaults

\* "The user's own choices are never overridden: tagging only ever fills a gap":
\* the worker writes tags only where there are none, not over those chosen, by
\* the user or by another delivery of the task, while the model was thinking.
FillsGaps ==
  [][\A w \in Workers :
       WorkerWrite(w) => tagIds' = tagIds \/ Falsy(tagIds[task[w].ev])]_vars

\* The model may only choose from the list it is given: whatever overlaps, is written
\* back late or comes twice, no event has an id that neither a client sent nor a tag had.
NeverInvented == \A e \in Events : tagIds[e] \in (SUBSET Known) \cup {NullIds}

\* delete_tag detaches the id from all events "atomically", "without the detach a deleted
\* id would dangle in events forever": afterwards only a client's own choice has the id.
DetachedForGood ==
  [][\A e \in Events : \A t \in tagIds'[e] \cap Tags :
       tag'[t] = "gone" => \/ t \in tagIds[e] /\ tag[t] = "gone"
                          \/ CreateEvent(e)
                          \/ \E q \in Requests : PatchCommit(q) /\ req[q].ev = e]_vars


\* "A lost race against a concurrent create of the same name resolves to the
\* winner's row instead of surfacing the unique-constraint error."
CreateResolves == \A q \in Requests : ~At(q, "lost")
=============================================================================
