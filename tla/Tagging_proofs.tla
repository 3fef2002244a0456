----------------------------- MODULE Tagging_proofs -----------------------------
(***************************************************************************)
(* Theorems about Tagging, for every number of tags, names, events,        *)
(* workers, requests and failures.                                         *)
(***************************************************************************)
EXTENDS Tagging, TLAPS

-----------------------------------------------------------------------------
(* Type correctness *)

Tasks == {IdleTask} \cup [pc : {"queued", "asking"}, ev : Events, loaded : Ids,
                          offered : SUBSET Tags, attempt : 1..MaxAttempts]
Reqs == [pc : {"idle"} \cup Busy \cup Failed, tag : Tags \cup {None}, ev : Events \cup {None},
         name : Names \cup {None}, want : Ids, loaded : [Events -> Ids]]

LEMMA TaskIsActive ==
  ASSUME TaggingTypes, NEW w \in Workers, task[w].pc # "free"
  PROVE  /\ task[w].pc \in {"queued", "asking"} /\ task[w].ev \in Events
         /\ task[w].loaded \in Ids /\ task[w].offered \in SUBSET Tags
         /\ task[w].attempt \in 1..MaxAttempts
BY DEF TaggingTypes, IdleTask

LEMMA ReqFields ==
  ASSUME TaggingTypes, NEW q \in Requests
  PROVE  /\ req[q].tag \in Tags \cup {None} /\ req[q].ev \in Events \cup {None}
         /\ req[q].name \in Names \cup {None} /\ req[q].want \in Ids
         /\ req[q].loaded \in [Events -> Ids]
<1>1. req[q] \in Reqs
  BY DEF TaggingTypes, Reqs
<1>2. QED
  BY <1>1 DEF Reqs

\* A request in progress has what it works on.
ReqShape ==
  \A q \in Requests :
    /\ req[q].pc \in {"insert", "reselect", "rename"} => req[q].name \in Names
    /\ req[q].pc \in {"rename", "delete"} => req[q].tag \in Tags
    /\ req[q].pc = "patch" => req[q].ev \in Events
TagInv == TaggingTypes /\ ReqShape

LEMMA EmptyIds == {} \in Ids /\ NullIds \in Ids /\ Named \in SUBSET Tags /\ SUBSET Known \subseteq Ids
<1>1. Named \in SUBSET Tags
  BY DEF Named
<1>2. Known \subseteq Tags \cup {Stray}
  BY DEF Known
<1>3. {} \in SUBSET (Tags \cup {Stray}) /\ SUBSET Known \subseteq SUBSET (Tags \cup {Stray})
  BY <1>2
<1>4. QED
  BY <1>1, <1>3, Zenon DEF Ids

LEMMA IdleReqType == IdleReq \in Reqs
<1>1. [e \in Events |-> {}] \in [Events -> Ids]
  BY EmptyIds
<1>2. QED
  BY <1>1, EmptyIds DEF IdleReq, Reqs

LEMMA FaultType ==
  ASSUME TaggingTypes, NEW k, Fault(k) \/ NoFault
  PROVE  faults' \in 0..MaxFaults
BY TaggingAssumption DEF TaggingTypes, Fault, NoFault

LEMMA AnswerType ==
  ASSUME TaggingTypes, NEW q \in Requests, NEW pc \in {"idle"} \cup Failed, Answer(q, pc)
  PROVE  req' \in [Requests -> Reqs]
<1>1. [IdleReq EXCEPT !.pc = pc] \in Reqs
  BY IdleReqType DEF Reqs
<1>2. req \in [Requests -> Reqs]
  BY DEF TaggingTypes, Reqs
<1>3. QED
  BY <1>1, <1>2 DEF Answer

LEMMA QueueType ==
  ASSUME NEW e \in Events, NEW n \in 1..MaxAttempts
  PROVE  [IdleTask EXCEPT !.pc = "queued", !.ev = e, !.attempt = n] \in Tasks
BY EmptyIds DEF IdleTask, Tasks

LEMMA DispatchType ==
  ASSUME TaggingTypes, NEW e \in Events, Dispatch(e) \/ (UNCHANGED task /\ NoFault)
  PROVE  task' \in [Workers -> Tasks] /\ faults' \in 0..MaxFaults
<1>1. 1 \in 1..MaxAttempts
  BY TaggingAssumption
<1>2. task \in [Workers -> Tasks]
  BY DEF TaggingTypes, Tasks
<1>3. faults' \in 0..MaxFaults
  BY FaultType DEF Dispatch
<1>4. CASE UNCHANGED task
  BY <1>2, <1>3, <1>4
<1>5. CASE \E w \in Workers : 
             task' = [task EXCEPT ![w] = [IdleTask EXCEPT !.pc = "queued", !.ev = e, !.attempt = 1]]
  BY <1>1, <1>2, <1>3, <1>5, QueueType
<1>6. QED
  BY <1>4, <1>5 DEF Dispatch

LEMMA AgainType ==
  ASSUME TaggingTypes, NEW w \in Workers, task[w].pc # "free", Again(w) \/ Finish(w)
  PROVE  task' \in [Workers -> Tasks]
<1>1. task \in [Workers -> Tasks] /\ IdleTask \in Tasks
  BY DEF TaggingTypes, Tasks
<1>2. task[w].attempt < MaxAttempts => Requeued(w) \in Tasks
  <2>1. task[w].attempt < MaxAttempts => task[w].attempt + 1 \in 1..MaxAttempts
    BY TaskIsActive, TaggingAssumption
  <2>2. QED
    BY <2>1, TaskIsActive, QueueType DEF Requeued
<1>3. CASE Finish(w)
  BY <1>1, <1>3 DEF Finish
<1>4. CASE Again(w)
  BY <1>1, <1>2, <1>4 DEF Again
<1>5. QED
  BY <1>3, <1>4

LEMMA RequestType ==
  ASSUME TagInv, NEW q \in Requests, Request(q)
  PROVE  TaggingTypes'
<1> USE DEF TagInv
<1>0. /\ req \in [Requests -> Reqs] /\ req[q] \in Reqs
      /\ tagIds \in [Events -> Ids] /\ tag \in [Tags -> Names \cup {"unused", "gone"}]
  BY DEF TaggingTypes, Reqs
<1>1. event' = event /\ task' = task
  BY DEF Request, PatchRead, PatchNull, PatchCommit, CreateSelect, CreateInsert, CreateReselect,
         RenameCheck, RenameCommit, DeleteRead, DeleteCommit, Answered
<1>2. faults' \in 0..MaxFaults
  BY FaultType
  DEF Starts, Request, PatchRead, PatchNull, PatchCommit, CreateSelect, CreateInsert,
      CreateReselect, RenameCheck, RenameCommit, DeleteRead, DeleteCommit, Answered
<1>3. req' \in [Requests -> Reqs]
  <2>1. CASE PatchRead(q) \/ PatchNull(q)
    <3>1. PICK e \in LiveEvents, ids \in Ids :
            req' = [req EXCEPT ![q] = [IdleReq EXCEPT !.pc = "patch", !.ev = e, !.want = ids,
                                                      !.loaded = tagIds]]
      BY <2>1, EmptyIds DEF PatchRead, PatchNull, Ids
    <3>2. [IdleReq EXCEPT !.pc = "patch", !.ev = e, !.want = ids, !.loaded = tagIds] \in Reqs
      BY <1>0, <3>1, IdleReqType DEF Reqs, LiveEvents, Busy
    <3>3. QED
      BY <1>0, <3>1, <3>2
  <2>2. CASE CreateSelect(q)
    <3>1. PICK n \in Names : req' = [req EXCEPT ![q] = [IdleReq EXCEPT !.pc = "insert", !.name = n]]
      BY <2>2 DEF CreateSelect
    <3>2. [IdleReq EXCEPT !.pc = "insert", !.name = n] \in Reqs
      BY IdleReqType DEF Reqs, Busy
    <3>3. QED
      BY <1>0, <3>1, <3>2
  <2>3. CASE RenameCheck(q)
    <3>1. PICK t \in Named, n \in Names :
            req' = [req EXCEPT ![q] = [IdleReq EXCEPT !.pc = "rename", !.tag = t, !.name = n]]
      BY <2>3 DEF RenameCheck
    <3>2. [IdleReq EXCEPT !.pc = "rename", !.tag = t, !.name = n] \in Reqs
      BY IdleReqType DEF Reqs, Busy, Named
    <3>3. QED
      BY <1>0, <3>1, <3>2
  <2>4. CASE DeleteRead(q)
    <3>1. PICK t \in Named :
            \/ Answer(q, "unreadable")
            \/ req' = [req EXCEPT ![q] = [IdleReq EXCEPT !.pc = "delete", !.tag = t, !.loaded = tagIds]]
      BY <2>4 DEF DeleteRead
    <3>2. [IdleReq EXCEPT !.pc = "delete", !.tag = t, !.loaded = tagIds] \in Reqs
      BY <1>0, IdleReqType DEF Reqs, Busy, Named
    <3>3. QED
      BY <1>0, <3>1, <3>2, AnswerType DEF Failed
  <2>5. CASE CreateInsert(q)
    <3>1. [req[q] EXCEPT !.pc = "reselect"] \in Reqs
      BY <1>0 DEF Reqs, Busy
    <3>2. QED
      BY <1>0, <2>5, <3>1, AnswerType DEF CreateInsert
  <2>6. CASE PatchCommit(q) \/ CreateReselect(q) \/ RenameCommit(q) \/ DeleteCommit(q) \/ Answered(q)
    BY <2>6, AnswerType
    DEF PatchCommit, CreateReselect, RenameCommit, DeleteCommit, Answered, Failed
  <2>7. QED
    BY <2>1, <2>2, <2>3, <2>4, <2>5, <2>6 DEF Request
<1>4. tagIds' \in [Events -> Ids]
  <2>1. CASE PatchCommit(q)
    BY <1>0, <2>1, ReqFields DEF PatchCommit
  <2>2. CASE DeleteCommit(q)
    <3>1. \A e \in Carriers(q) : req[q].loaded[e] \ {req[q].tag} \in Ids
      <4> SUFFICES ASSUME NEW e \in Carriers(q)
                   PROVE  req[q].loaded[e] \ {req[q].tag} \in Ids
        OBVIOUS
      <4>1. req[q].loaded[e] \in Ids /\ req[q].tag \in req[q].loaded[e]
        BY ReqFields DEF Carriers
      <4>2. CASE req[q].loaded[e] = NullIds
        BY <4>1, <4>2, EmptyIds DEF NullIds
      <4>3. CASE req[q].loaded[e] # NullIds
        BY <4>1, <4>3 DEF Ids
      <4>4. QED
        BY <4>2, <4>3
    <3>2. QED
      BY <1>0, <2>2, <3>1 DEF DeleteCommit
  <2>3. CASE ~PatchCommit(q) /\ ~DeleteCommit(q)
    BY <1>0, <2>3
    DEF Request, PatchRead, PatchNull, CreateSelect, CreateInsert, CreateReselect,
        RenameCheck, RenameCommit, DeleteRead, Answered
  <2>4. QED
    BY <2>1, <2>2, <2>3
<1>5. tag' \in [Tags -> Names \cup {"unused", "gone"}]
  <2>1. CASE CreateInsert(q)
    <3>1. req[q].name \in Names
      BY <2>1 DEF CreateInsert, At, ReqShape
    <3>2. QED
      BY <1>0, <2>1, <3>1 DEF CreateInsert
  <2>2. CASE RenameCommit(q)
    <3>1. req[q].name \in Names
      BY <2>2 DEF RenameCommit, At, ReqShape
    <3>2. QED
      BY <1>0, <2>2, <3>1 DEF RenameCommit
  <2>3. CASE DeleteCommit(q)
    BY <1>0, <2>3 DEF DeleteCommit
  <2>4. CASE ~CreateInsert(q) /\ ~RenameCommit(q) /\ ~DeleteCommit(q)
    BY <1>0, <2>4
    DEF Request, PatchRead, PatchNull, PatchCommit, CreateSelect, CreateReselect,
        RenameCheck, DeleteRead, Answered
  <2>5. QED
    BY <2>1, <2>2, <2>3, <2>4
<1>6. QED
  BY <1>1, <1>2, <1>3, <1>4, <1>5 DEF TaggingTypes, Reqs
LEMMA RequestShape ==
  ASSUME TagInv, NEW q \in Requests, Request(q)
  PROVE  ReqShape'
<1>0. /\ req \in [Requests -> Reqs] /\ IdleReq \in Reqs
      /\ \A p \in Requests \ {q} : req'[p] = req[p]
  <2>1. req \in [Requests -> Reqs]
    BY DEF TagInv, TaggingTypes, Reqs
  <2>2. QED
    BY <2>1, IdleReqType
    DEF Answer, Request, PatchRead, PatchNull, PatchCommit, CreateSelect, CreateInsert,
        CreateReselect, RenameCheck, RenameCommit, DeleteRead, DeleteCommit, Answered
<1>1. ASSUME NEW pc \in {"idle"} \cup Failed, Answer(q, pc)
      PROVE  req'[q].pc \notin Busy
  <2>1. req'[q] = [IdleReq EXCEPT !.pc = pc]
    BY <1>0, <1>1 DEF Answer
  <2>2. QED
    BY <1>0, <2>1 DEF Reqs, Busy, Failed
<1>2. CASE \E pc \in {"idle"} \cup Failed : Answer(q, pc)
  BY <1>0, <1>1, <1>2 DEF TagInv, ReqShape, Busy
<1>3. CASE PatchRead(q) \/ PatchNull(q)
  <2>1. PICK e, ids :
          /\ e \in LiveEvents
          /\ req' = [req EXCEPT ![q] = [IdleReq EXCEPT !.pc = "patch", !.ev = e, !.want = ids,
                                                       !.loaded = tagIds]]
    BY <1>3 DEF PatchRead, PatchNull
  <2>2. req'[q].pc = "patch" /\ req'[q].ev \in Events
    BY <1>0, <2>1 DEF IdleReq, LiveEvents
  <2>3. QED
    BY <1>0, <2>2 DEF TagInv, ReqShape
<1>4. CASE CreateSelect(q)
  <2>1. req'[q].pc = "insert" /\ req'[q].name \in Names
    BY <1>0, <1>4 DEF CreateSelect, IdleReq
  <2>2. QED
    BY <1>0, <2>1 DEF TagInv, ReqShape
<1>5. CASE RenameCheck(q)
  <2>1. req'[q].pc = "rename" /\ req'[q].name \in Names /\ req'[q].tag \in Tags
    BY <1>0, <1>5 DEF RenameCheck, IdleReq, Named
  <2>2. QED
    BY <1>0, <2>1 DEF TagInv, ReqShape
<1>6. CASE DeleteRead(q) /\ ~Answer(q, "unreadable")
  <2>1. req'[q].pc = "delete" /\ req'[q].tag \in Tags
    BY <1>0, <1>6 DEF DeleteRead, IdleReq, Named
  <2>2. QED
    BY <1>0, <2>1 DEF TagInv, ReqShape
<1>7. CASE CreateInsert(q) /\ ~Answer(q, "idle")
  <2>1. req[q].name \in Names /\ req' = [req EXCEPT ![q].pc = "reselect"]
    BY <1>7 DEF CreateInsert, At, TagInv, ReqShape
  <2>2. req'[q].pc = "reselect" /\ req'[q].name \in Names
    BY <1>0, <2>1 DEF Reqs
  <2>3. QED
    BY <1>0, <2>2 DEF TagInv, ReqShape
<1>8. QED
  <2>1. PatchCommit(q) \/ CreateReselect(q) \/ RenameCommit(q) \/ DeleteCommit(q) \/ Answered(q)
          => \E pc \in {"idle"} \cup Failed : Answer(q, pc)
    BY DEF PatchCommit, CreateReselect, RenameCommit, DeleteCommit, Answered, Failed
  <2>2. Answer(q, "unreadable") \/ Answer(q, "idle") => \E pc \in {"idle"} \cup Failed : Answer(q, pc)
    BY DEF Failed
  <2>3. QED
    BY <1>2, <1>3, <1>4, <1>5, <1>6, <1>7, <2>1, <2>2 DEF Request

LEMMA WorkerType ==
  ASSUME TaggingTypes, NEW w \in Workers, Worker(w)
  PROVE  TaggingTypes'
<1>0. /\ task \in [Workers -> Tasks] /\ task[w].pc # "free"
      /\ tagIds \in [Events -> Ids]
  BY DEF TaggingTypes, Tasks, Worker, WorkerNoop, WorkerRead, WorkerWrite, Unusable, Unanswered,
         WorkerDies
<1>1. UNCHANGED <<tag, event, req>>
  BY DEF Worker, WorkerNoop, WorkerRead, WorkerWrite, Unusable, Unanswered, WorkerDies
<1>2. faults' \in 0..MaxFaults
  BY FaultType
  DEF Starts, Worker, WorkerNoop, WorkerRead, WorkerWrite, Unusable, Unanswered, WorkerDies
<1>3. task' \in [Workers -> Tasks]
  <2>1. CASE WorkerRead(w)
    <3>1. task[w] \in [pc : {"queued", "asking"}, ev : Events, loaded : Ids,
                       offered : SUBSET Tags, attempt : 1..MaxAttempts]
      BY <1>0 DEF Tasks, IdleTask
    <3>2. tagIds[task[w].ev] \in Ids
      BY <1>0, <3>1
    <3>3. [task[w] EXCEPT !.pc = "asking", !.loaded = tagIds[task[w].ev], !.offered = Named] \in Tasks
      BY <3>1, <3>2, EmptyIds DEF Tasks
    <3>4. task' = [task EXCEPT ![w] = [task[w] EXCEPT !.pc = "asking", !.offered = Named,
                                                      !.loaded = tagIds[task[w].ev]]]
      BY <2>1 DEF WorkerRead
    <3>5. QED
      BY <1>0, <3>1, <3>3, <3>4
  <2>2. CASE ~WorkerRead(w)
    <3>1. Again(w) \/ Finish(w)
      BY <2>2 DEF Worker, WorkerNoop, WorkerWrite, Unusable, Unanswered, WorkerDies
    <3>2. QED
      BY <1>0, <3>1, AgainType
  <2>3. QED
    BY <2>1, <2>2
<1>4. tagIds' \in [Events -> Ids]
  <2>1. CASE WorkerWrite(w)
    <3>1. \A ids \in Replies(w) : ids \in Ids
      BY DEF Replies, Ids
    <3>2. QED
      BY <1>0, <2>1, <3>1 DEF WorkerWrite
  <2>2. CASE ~WorkerWrite(w)
    BY <1>0, <2>2 DEF Worker, WorkerNoop, WorkerRead, Unusable, Unanswered, WorkerDies
  <2>3. QED
    BY <2>1, <2>2
<1>5. QED
  BY <1>1, <1>2, <1>3, <1>4 DEF TaggingTypes, Tasks

LEMMA EventType ==
  ASSUME TaggingTypes, NEW e \in Events, CreateEvent(e) \/ DeleteEvent(e) \/ WriteText(e)
  PROVE  TaggingTypes' /\ req' = req
<1>1. task' \in [Workers -> Tasks] /\ faults' \in 0..MaxFaults
  <2>1. Dispatch(e) \/ (UNCHANGED task /\ NoFault)
    BY DEF CreateEvent, DeleteEvent, WriteText
  <2>2. QED
    BY <2>1, DispatchType
<1>2. /\ UNCHANGED <<tag, req>>
      /\ event' \in [Events -> {"unused", "live", "gone"}]
  BY DEF TaggingTypes, CreateEvent, DeleteEvent, WriteText
<1>3. tagIds' \in [Events -> Ids]
  <2>1. SUBSET Known \subseteq Ids
    BY EmptyIds
  <2>2. tagIds \in [Events -> Ids]
    BY DEF TaggingTypes
  <2>3. QED
    BY <2>1, <2>2, EmptyIds DEF CreateEvent, DeleteEvent, WriteText
<1>4. QED
  BY <1>1, <1>2, <1>3 DEF TaggingTypes, Tasks

LEMMA TagInvInductive ==
  ASSUME TagInv, [Next]_vars
  PROVE  TagInv'
<1>1. CASE UNCHANGED vars
  BY <1>1 DEF vars, TagInv, TaggingTypes, ReqShape
<1>2. ASSUME NEW w \in Workers, Worker(w)
      PROVE  TagInv'
  <2>1. req' = req
    BY <1>2 DEF Worker, WorkerNoop, WorkerRead, WorkerWrite, Unusable, Unanswered, WorkerDies
  <2>2. QED
    BY <1>2, <2>1, WorkerType DEF TagInv, ReqShape
<1>3. ASSUME NEW e \in Events, CreateEvent(e) \/ DeleteEvent(e) \/ WriteText(e)
      PROVE  TagInv'
  BY <1>3, EventType DEF TagInv, ReqShape
<1>4. ASSUME NEW q \in Requests, Request(q)
      PROVE  TagInv'
  BY <1>4, RequestType, RequestShape DEF TagInv
<1>5. QED
  BY <1>1, <1>2, <1>3, <1>4 DEF Next

LEMMA TagInvHolds == Spec => []TagInv
<1>1. Init => TagInv
  <2> SUFFICES ASSUME Init
               PROVE  TagInv
    OBVIOUS
  <2>1. IdleReq.pc = "idle" /\ req \in [Requests -> Reqs] /\ \A q \in Requests : req[q] = IdleReq
    BY IdleReqType DEF Init, IdleReq
  <2>2. TaggingTypes
    BY <2>1, EmptyIds, TaggingAssumption DEF Init, TaggingTypes, Reqs
  <2>3. QED
    BY <2>1, <2>2 DEF TagInv, ReqShape
<1>2. TagInv /\ [Next]_vars => TagInv'
  BY TagInvInductive
<1>3. QED
  BY <1>1, <1>2, PTL DEF Spec

\* Type correctness: every column and request keeps its vocabulary, whatever
\* overlaps and fails.
THEOREM TaggingTypeCorrect == Spec => []TaggingTypes
BY TagInvHolds, PTL DEF TagInv
-----------------------------------------------------------------------------
(* Lost races between creates *)

\* A tag that is taken keeps its name unless something renames or deletes it.
NamesKept == \A n \in Names : Holder(n) # {} => Holder(n)' # {}
LoserHasWinner(q) ==
  /\ req[q].pc \notin {"rename", "delete", "lost"}
  /\ At(q, "reselect") => req[q].name \in Names /\ Holder(req[q].name) # {}
LosersHaveWinners == \A q \in Requests : LoserHasWinner(q)

LEMMA RacesResolve ==
  ASSUME Operations \cap {"rename", "delete"} = {}, TagInv, LosersHaveWinners,
         NEW q \in Requests, Request(q)
  PROVE  LosersHaveWinners'
<1>0. /\ req \in [Requests -> Reqs] /\ IdleReq \in Reqs
      /\ \A p \in Requests \ {q} : req'[p] = req[p]
  <2>1. req \in [Requests -> Reqs]
    BY DEF TagInv, TaggingTypes, Reqs
  <2>2. QED
    BY <2>1, IdleReqType
    DEF Answer, Request, PatchRead, PatchNull, PatchCommit, CreateSelect, CreateInsert,
        CreateReselect, RenameCheck, RenameCommit, DeleteRead, DeleteCommit, Answered
<1>1. ~RenameCheck(q) /\ ~RenameCommit(q) /\ ~DeleteRead(q) /\ ~DeleteCommit(q)
  BY DEF RenameCheck, RenameCommit, DeleteRead, DeleteCommit, At, LosersHaveWinners, LoserHasWinner
<1>2. NamesKept
  <2>1. CASE CreateInsert(q)
    <3>1. PICK t, n : (t \in Tags /\ tag[t] = "unused" /\ tag' = [tag EXCEPT ![t] = n]) \/ UNCHANGED tag
      BY <2>1 DEF CreateInsert, TagInv, TaggingTypes
    <3>2. \A u \in Tags : tag[u] \in Names => tag'[u] = tag[u]
      BY <3>1, TaggingAssumption DEF TagInv, TaggingTypes
    <3>3. QED
      BY <3>2 DEF NamesKept, Holder
  <2>2. CASE ~CreateInsert(q)
    BY <1>1, <2>2
    DEF NamesKept, Holder, Request, PatchRead, PatchNull, PatchCommit, CreateSelect,
        CreateReselect, Answered
  <2>3. QED
    BY <2>1, <2>2
<1>3. \A p \in Requests \ {q} : LoserHasWinner(p)'
  BY <1>0, <1>2 DEF LosersHaveWinners, LoserHasWinner, At, NamesKept
<1>4. LoserHasWinner(q)'
  <2>1. CASE CreateInsert(q) /\ Holder(req[q].name) # {}
    <3>1. req' = [req EXCEPT ![q].pc = "reselect"] /\ req[q].name \in Names
      BY <2>1 DEF CreateInsert, At, TagInv, ReqShape
    <3>2. req'[q].pc = "reselect" /\ req'[q].name = req[q].name
      BY <1>0, <3>1 DEF Reqs
    <3>3. QED
      BY <1>2, <2>1, <3>1, <3>2 DEF NamesKept, LoserHasWinner, At
  <2>2. ASSUME NEW pc, Answer(q, pc)
        PROVE  req'[q].pc = pc
    BY <1>0, <2>2 DEF Answer, IdleReq
  <2>3. CASE CreateInsert(q) /\ Holder(req[q].name) = {}
    BY <2>2, <2>3 DEF CreateInsert, At, LoserHasWinner
  <2>4. CASE CreateReselect(q)
    <3>1. Answer(q, "idle")
      BY <2>4 DEF CreateReselect, LosersHaveWinners, LoserHasWinner
    <3>2. QED
      BY <2>2, <3>1 DEF At, LoserHasWinner
  <2>5. CASE PatchCommit(q) \/ Answered(q)
    <3>1. Answer(q, "idle") \/ Answer(q, "stale")
      BY <2>5 DEF PatchCommit, Answered
    <3>2. QED
      BY <2>2, <3>1 DEF At, LoserHasWinner
  <2>6. CASE PatchRead(q) \/ PatchNull(q) \/ CreateSelect(q)
    <3>1. req'[q].pc \in {"patch", "insert"}
      BY <1>0, <2>6 DEF PatchRead, PatchNull, CreateSelect, IdleReq
    <3>2. QED
      BY <3>1 DEF At, LoserHasWinner
  <2>7. QED
    BY <1>1, <2>1, <2>3, <2>4, <2>5, <2>6 DEF Request
<1>5. QED
  BY <1>3, <1>4 DEF LosersHaveWinners

\* "A lost race against a concurrent create of the same name resolves to the
\* winner's row": with nobody renaming or deleting tags, no create is answered
\* with the constraint error, however many requests race for a name.
THEOREM LostRacesResolve ==
  ASSUME Operations \cap {"rename", "delete"} = {}
  PROVE  Spec => []CreateResolves
<1>1. Init => LosersHaveWinners
  BY DEF Init, LosersHaveWinners, LoserHasWinner, IdleReq, At
<1>2. TagInv /\ LosersHaveWinners /\ [Next]_vars => LosersHaveWinners'
  <2> SUFFICES ASSUME TagInv, LosersHaveWinners, [Next]_vars
               PROVE  LosersHaveWinners'
    OBVIOUS
  <2>1. CASE UNCHANGED <<tag, req>>
    BY <2>1 DEF LosersHaveWinners, LoserHasWinner, At, Holder
  <2>2. ASSUME NEW w \in Workers, Worker(w)
        PROVE  UNCHANGED <<tag, req>>
    BY <2>2 DEF Worker, WorkerNoop, WorkerRead, WorkerWrite, Unusable, Unanswered, WorkerDies
  <2>3. ASSUME NEW e \in Events, CreateEvent(e) \/ DeleteEvent(e) \/ WriteText(e)
        PROVE  UNCHANGED <<tag, req>>
    BY <2>3 DEF CreateEvent, DeleteEvent, WriteText
  <2>4. QED
    BY <2>1, <2>2, <2>3, RacesResolve DEF Next, vars
<1>3. LosersHaveWinners => CreateResolves
  BY DEF LosersHaveWinners, LoserHasWinner, CreateResolves, At
<1>4. QED
  BY <1>1, <1>2, <1>3, TagInvHolds, PTL DEF Spec

-----------------------------------------------------------------------------
(* Ids nobody made *)

KnownIds == (SUBSET Known) \cup {NullIds}
KnownTask(w) == task[w].offered \subseteq Known
KnownReq(q) == req[q].want \in KnownIds /\ \A e \in Events : req[q].loaded[e] \in KnownIds
\* What waits to be written is as known as what is stored.
KnownInv ==
  /\ NeverInvented
  /\ \A w \in Workers : KnownTask(w)
  /\ \A q \in Requests : KnownReq(q)

\* A tag, once made, has been one for ever.
LEMMA KnownStays ==
  ASSUME TagInv, [Next]_vars
  PROVE  Known \subseteq Known' /\ KnownIds \subseteq KnownIds'
<1>1. \A t \in Tags : tag[t] # "unused" => tag'[t] # "unused"
  <2>1. CASE UNCHANGED tag
    BY <2>1
  <2>2. ASSUME NEW q \in Requests, CreateInsert(q) \/ RenameCommit(q)
        PROVE  \A t \in Tags : tag[t] # "unused" => tag'[t] # "unused"
    <3>1. req[q].name \in Names
      BY <2>2 DEF CreateInsert, RenameCommit, At, TagInv, ReqShape
    <3>2. UNCHANGED tag \/ \E t \in Tags : tag' = [tag EXCEPT ![t] = req[q].name]
      BY <2>2 DEF CreateInsert, RenameCommit, At, TagInv, ReqShape
    <3>3. QED
      BY <3>1, <3>2, TaggingAssumption DEF TagInv, TaggingTypes
  <2>3. ASSUME NEW q \in Requests, DeleteCommit(q)
        PROVE  \A t \in Tags : tag[t] # "unused" => tag'[t] # "unused"
    BY <2>3 DEF DeleteCommit, TagInv, TaggingTypes
  <2>4. QED
    BY <2>1, <2>2, <2>3
    DEF Next, vars, Request, Worker, PatchRead, PatchNull, PatchCommit, CreateSelect,
        CreateReselect, RenameCheck, DeleteRead, Answered, WorkerNoop, WorkerRead, WorkerWrite,
        Unusable, Unanswered, WorkerDies, CreateEvent, DeleteEvent, WriteText
<1>2. Known \subseteq Known'
  BY <1>1 DEF Known
<1>3. QED
  BY <1>2 DEF KnownIds, NullIds

LEMMA KnownBasics ==
  ASSUME TaggingTypes
  PROVE  {} \in KnownIds /\ NullIds \in KnownIds /\ Named \subseteq Known
BY TaggingAssumption DEF TaggingTypes, KnownIds, Named, Known

LEMMA RequestKnown ==
  ASSUME TagInv, KnownInv, NEW q \in Requests, Request(q),
         Known \subseteq Known', KnownIds \subseteq KnownIds'
  PROVE  KnownInv'
<1>0. /\ req \in [Requests -> Reqs] /\ UNCHANGED task
      /\ \A p \in Requests \ {q} : req'[p] = req[p]
  <2>1. req \in [Requests -> Reqs]
    BY DEF TagInv, TaggingTypes, Reqs
  <2>2. QED
    BY <2>1
    DEF Answer, Request, PatchRead, PatchNull, PatchCommit, CreateSelect, CreateInsert,
        CreateReselect, RenameCheck, RenameCommit, DeleteRead, DeleteCommit, Answered
<1>1. IdleReq.want \in KnownIds /\ \A e \in Events : IdleReq.loaded[e] \in KnownIds
  BY KnownBasics DEF TagInv, IdleReq
<1>2. KnownReq(q)'
  <2>1. ASSUME NEW pc, Answer(q, pc)
        PROVE  KnownReq(q)'
    <3>1. req'[q].want = IdleReq.want /\ req'[q].loaded = IdleReq.loaded
      BY <1>0, <2>1 DEF Answer, IdleReq
    <3>2. QED
      BY <1>1, <3>1 DEF KnownReq
  <2>2. CASE PatchRead(q) \/ PatchNull(q)
    <3>0. SUBSET Known \subseteq KnownIds /\ NullIds \in KnownIds
      BY DEF KnownIds
    <3>1. PICK e \in LiveEvents, ids \in KnownIds :
            req' = [req EXCEPT ![q] = [IdleReq EXCEPT !.pc = "patch", !.ev = e, !.want = ids,
                                                      !.loaded = tagIds]]
      BY <2>2, <3>0 DEF PatchRead, PatchNull
    <3>2. req'[q].want = ids /\ req'[q].loaded = tagIds
      BY <1>0, <3>1 DEF IdleReq
    <3>3. QED
      BY <3>2 DEF KnownReq, KnownInv, NeverInvented, KnownIds
  <2>3. CASE CreateSelect(q) \/ RenameCheck(q)
    <3>1. req'[q].want = IdleReq.want /\ req'[q].loaded = IdleReq.loaded
      BY <1>0, <2>3 DEF CreateSelect, RenameCheck, IdleReq
    <3>2. QED
      BY <1>1, <3>1 DEF KnownReq
  <2>4. CASE DeleteRead(q) /\ ~Answer(q, "unreadable")
    <3>1. req'[q].want = IdleReq.want /\ req'[q].loaded = tagIds
      BY <1>0, <2>4 DEF DeleteRead, IdleReq
    <3>2. QED
      BY <1>1, <3>1 DEF KnownReq, KnownInv, NeverInvented, KnownIds
  <2>5. CASE CreateInsert(q) /\ ~Answer(q, "idle")
    <3>1. req'[q].want = req[q].want /\ req'[q].loaded = req[q].loaded
      BY <1>0, <2>5 DEF CreateInsert, Reqs
    <3>2. QED
      BY <3>1 DEF KnownReq, KnownInv
  <2>6. CASE PatchCommit(q) \/ CreateReselect(q) \/ RenameCommit(q) \/ DeleteCommit(q) \/ Answered(q)
    <3>1. \E pc : Answer(q, pc)
      BY <2>6 DEF PatchCommit, CreateReselect, RenameCommit, DeleteCommit, Answered
    <3>2. QED
      BY <2>1, <3>1
  <2>7. QED
    BY <2>1, <2>2, <2>3, <2>4, <2>5, <2>6 DEF Request
<1>3. ASSUME NEW e \in Events
      PROVE  tagIds'[e] \in KnownIds
  <2>1. tagIds[e] \in KnownIds /\ KnownReq(q) /\ tagIds \in [Events -> Ids]
    BY DEF KnownInv, NeverInvented, KnownIds, TagInv, TaggingTypes
  <2>2. CASE PatchCommit(q)
    BY <2>1, <2>2 DEF PatchCommit, KnownReq
  <2>3. CASE DeleteCommit(q)
    <3>1. CASE e \in Carriers(q) /\ tagIds' # tagIds
      <4>1. req[q].loaded[e] \in KnownIds /\ req[q].tag \in req[q].loaded[e] /\ req[q].tag \in Tags
        BY <2>1, <2>3, <3>1 DEF Carriers, KnownReq, DeleteCommit, At, TagInv, ReqShape
      <4>2. req[q].loaded[e] \ {req[q].tag} \in KnownIds
        BY <4>1, TaggingAssumption DEF KnownIds, NullIds
      <4>3. QED
        BY <2>3, <3>1, <4>2 DEF DeleteCommit
    <3>2. QED
      BY <2>1, <2>3, <3>1 DEF DeleteCommit
  <2>4. QED
    BY <2>1, <2>2, <2>3
    DEF Request, PatchRead, PatchNull, CreateSelect, CreateInsert, CreateReselect, RenameCheck,
        RenameCommit, DeleteRead, Answered
<1>4. QED
  BY <1>0, <1>2, <1>3 DEF KnownInv, NeverInvented, KnownIds, KnownTask, KnownReq

\* A task that ends or waits again has been offered nothing.
LEMMA TaskKnown ==
  ASSUME TagInv, KnownInv, NEW w \in Workers, Again(w) \/ Finish(w), Known \subseteq Known'
  PROVE  \A v \in Workers : KnownTask(v)'
<1>1. task \in [Workers -> Tasks] /\ IdleTask.offered = {} /\ Requeued(w).offered = {}
  BY DEF TagInv, TaggingTypes, Tasks, IdleTask, Requeued
<1>2. task'[w].offered = {} /\ \A v \in Workers \ {w} : task'[v] = task[v]
  BY <1>1 DEF Finish, Again
<1>3. QED
  BY <1>2 DEF KnownTask, KnownInv

LEMMA WorkerKnown ==
  ASSUME TagInv, KnownInv, NEW w \in Workers, Worker(w),
         Known \subseteq Known', KnownIds \subseteq KnownIds'
  PROVE  KnownInv'
<1>1. \A v \in Workers : KnownTask(v)'
  <2>1. CASE WorkerRead(w)
    <3>1. task'[w].offered = Named /\ \A v \in Workers \ {w} : task'[v] = task[v]
      <4>1. task \in [Workers -> Tasks] /\ task[w] # IdleTask
        BY <2>1 DEF WorkerRead, TagInv, TaggingTypes, Tasks, IdleTask
      <4>2. task[w] \in [pc : {"queued", "asking"}, ev : Events, loaded : Ids,
                         offered : SUBSET Tags, attempt : 1..MaxAttempts]
        BY <4>1 DEF Tasks
      <4>3. QED
        BY <2>1, <4>1, <4>2 DEF WorkerRead
    <3>2. QED
      BY <3>1, KnownBasics DEF KnownTask, KnownInv, TagInv
  <2>2. CASE ~WorkerRead(w)
    <3>1. Again(w) \/ Finish(w)
      BY <2>2 DEF Worker, WorkerNoop, WorkerWrite, Unusable, Unanswered, WorkerDies
    <3>2. QED
      BY <3>1, TaskKnown
  <2>3. QED
    BY <2>1, <2>2
<1>2. ASSUME NEW e \in Events
      PROVE  tagIds'[e] \in KnownIds
  <2>1. tagIds[e] \in KnownIds /\ tagIds \in [Events -> Ids]
    BY DEF KnownInv, NeverInvented, KnownIds, TagInv, TaggingTypes
  <2>2. CASE WorkerWrite(w)
    <3>1. PICK ids : /\ ~Invented(w, ids)
                     /\ UNCHANGED tagIds \/ tagIds' = [tagIds EXCEPT ![task[w].ev] = ids]
      BY <2>2 DEF WorkerWrite
    <3>2. ids \in SUBSET Known
      BY <3>1 DEF Invented, KnownInv, KnownTask
    <3>3. QED
      BY <2>1, <3>1, <3>2 DEF KnownIds
  <2>3. QED
    BY <2>1, <2>2 DEF Worker, WorkerNoop, WorkerRead, Unusable, Unanswered, WorkerDies
<1>3. UNCHANGED req
  BY DEF Worker, WorkerNoop, WorkerRead, WorkerWrite, Unusable, Unanswered, WorkerDies
<1>4. QED
  BY <1>1, <1>2, <1>3 DEF KnownInv, NeverInvented, KnownIds, KnownReq

LEMMA EventKnown ==
  ASSUME TagInv, KnownInv, NEW e \in Events, CreateEvent(e) \/ DeleteEvent(e) \/ WriteText(e),
         Known \subseteq Known', KnownIds \subseteq KnownIds'
  PROVE  KnownInv'
<1>1. Dispatch(e) \/ UNCHANGED task
  BY DEF CreateEvent, DeleteEvent, WriteText
<1>2. \A w \in Workers : task'[w].offered \in {{}, task[w].offered}
  <2>1. [IdleTask EXCEPT !.pc = "queued", !.ev = e, !.attempt = 1].offered = {}
    BY DEF IdleTask
  <2>2. task \in [Workers -> Tasks]
    BY DEF TagInv, TaggingTypes, Tasks
  <2>3. QED
    BY <1>1, <2>1, <2>2 DEF Dispatch
<1>3. \A w \in Workers : KnownTask(w)'
  BY <1>2 DEF KnownTask, KnownInv
<1>4. \A f \in Events : tagIds'[f] \in KnownIds
  BY KnownBasics
  DEF CreateEvent, DeleteEvent, WriteText, KnownIds, KnownInv, NeverInvented, TagInv, TaggingTypes
<1>5. UNCHANGED req
  BY DEF CreateEvent, DeleteEvent, WriteText
<1>6. QED
  BY <1>3, <1>4, <1>5 DEF KnownInv, NeverInvented, KnownIds, KnownReq

\* The model may only choose from the list it is given: under every overlap and
\* failure, no event has an id that neither a client sent nor a tag had.
THEOREM NothingInvented == Spec => []NeverInvented
<1>1. Init => KnownInv
  BY DEF Init, KnownInv, NeverInvented, KnownIds, KnownTask, KnownReq, IdleTask, IdleReq
<1>2. TagInv /\ KnownInv /\ [Next]_vars => KnownInv'
  <2> SUFFICES ASSUME TagInv, KnownInv, [Next]_vars
               PROVE  KnownInv'
    OBVIOUS
  <2>1. CASE UNCHANGED vars
    BY <2>1 DEF vars, KnownInv, NeverInvented, KnownIds, KnownTask, KnownReq, Known
  <2>2. QED
    BY <2>1, KnownStays, RequestKnown, WorkerKnown, EventKnown DEF Next
<1>3. KnownInv => NeverInvented
  BY DEF KnownInv
<1>4. QED
  BY <1>1, <1>2, <1>3, TagInvHolds, PTL DEF Spec
===============================================================================
