----------------------------- MODULE Events_proofs -----------------------------
(***************************************************************************)
(* Theorems about Events, for every number of event ids, keys, tags, demo  *)
(* rows, requests, copies of the demo and failures.                        *)
(***************************************************************************)
EXTENDS Events, FiniteSetTheorems, WellFoundedInduction, TLAPS

-----------------------------------------------------------------------------
(* The next name of the table *)

\* Every non-empty set of naturals has a least element.
LEMMA LeastNat ==
  ASSUME NEW T \in SUBSET Nat, T # {}
  PROVE  \E x \in T : \A y \in T : x <= y
<1>1. SUFFICES ASSUME NEW R, IsWellFoundedOn(R, Nat), \A x, y \in Nat : y < x => <<y, x>> \in R
               PROVE  \E x \in T : \A y \in T : x <= y
  <2>1. \A x, y \in Nat : y < x => <<y, x>> \in OpToRel(<, Nat)
    BY DEF OpToRel
  <2>2. QED
    BY <2>1, NatLessThanWellFounded, <1>1, Zenon
<1>2. PICK x \in T : \A y \in T : <<y, x>> \notin R
  BY <1>1, WFMin, Zenon
<1>3. \A y \in T : x <= y
  <2>1. SUFFICES ASSUME NEW y \in T PROVE ~(y < x)
    OBVIOUS
  <2>2. QED
    BY <1>1, <1>2
<1>4. QED
  BY <1>2, <1>3

\* A seed that has not resolved every name has a next one, which has no tag yet.
LEMMA NextNameIsNew ==
  ASSUME NEW q \in Requests, ~Resolved(q)
  PROVE  NextName(q) \in Names /\ req[q].tags[NextName(q)] = None
<1> DEFINE open == {i \in DOMAIN TagTable : req[q].tags[TagTable[i]] = None}
           Next0(i) == /\ req[q].tags[TagTable[i]] = None
                       /\ \A j \in 1..(i - 1) : req[q].tags[TagTable[j]] # None
<1>1. DOMAIN TagTable = 1..Len(TagTable) /\ Len(TagTable) \in Nat
  BY EventsAssumption
<1>2. open \in SUBSET Nat /\ open # {}
  BY <1>1 DEF Resolved, Names
<1>3. PICK i \in open : \A j \in open : i <= j
  BY <1>2, LeastNat, Zenon
<1>4. i \in DOMAIN TagTable /\ Next0(i)
  BY <1>1, <1>3
<1>5. PICK k \in DOMAIN TagTable : Next0(k) /\ NextName(q) = TagTable[k]
  BY <1>4, Zenon DEF NextName
<1>6. QED
  BY <1>5 DEF Names

-----------------------------------------------------------------------------
(* API requests *)

Reqs == [pc : {"idle", "provision", "insert", "tags", "tag"},
         key : Keys \cup {None}, type : {"text", "audio"}, id : Ids \cup {None},
         tags : [Names -> Tags \cup {None}], made : SUBSET Tags]

\* Only a seed holds tags; what it has inserted is among the ones it has resolved,
\* and it inserts a tag only for a name that has none.
ReqShape(q) ==
  /\ At(q, "idle") => req[q] = IdleReq
  /\ q \notin Seeders => req[q].tags = Unresolved /\ req[q].made = {}
  /\ \A t \in req[q].made : \E n \in Names : req[q].tags[n] = t
  /\ At(q, "tag") => ~Resolved(q)
  /\ ~At(q, "insert") => req[q].id = None

ReqInv == req \in [Requests -> Reqs] /\ \A q \in Requests : ReqShape(q)

LEMMA IdleReqType == IdleReq \in Reqs
<1>1. Unresolved \in [Names -> Tags \cup {None}]
  BY DEF Unresolved
<1>2. QED
  BY <1>1 DEF IdleReq, Reqs

\* What one step can make of one request.
NewReq(q, r) ==
  \/ r = IdleReq
  \/ r = [IdleReq EXCEPT !.pc = "provision"]
  \/ SeedCheck(q) /\ r = [IdleReq EXCEPT !.pc = "tags"]
  \/ \E k \in Keys \cup {None} : \E e \in Unused : \E type \in {"text", "audio"} :
       r = [IdleReq EXCEPT !.pc = "insert", !.key = k, !.id = e, !.type = type]
  \/ At(q, "tags") /\ ~Resolved(q) /\ r = [req[q] EXCEPT !.pc = "tag"]
  \/ /\ At(q, "tags") /\ ~Resolved(q)
     /\ \E t \in Holder(NextName(q)) : r = [req[q] EXCEPT !.tags[NextName(q)] = t]
  \/ /\ At(q, "tag") /\ Holder(NextName(q)) = {} /\ Pending(NextName(q)) = {}
     /\ \E t \in Tags :
          /\ Ready(t)
          /\ r = [req[q] EXCEPT !.pc = "tags", !.tags[NextName(q)] = t, !.made = @ \cup {t}]

\* Edits concern tags and the demo's events alone.
LEMMA EditFrame == Edit => UNCHANGED <<user, creation, seeds, req>>
BY DEF Edit, DeleteDemoEvent, PatchDemo, CreateTag, RenameTag, DeleteTag

LEMMA OneRequest ==
  ASSUME ReqInv, [Next]_vars
  PROVE  \/ req' = req
         \/ \E q \in Requests : \E r : NewReq(q, r) /\ req' = [req EXCEPT ![q] = r]
<1>1. CASE UNCHANGED vars
  BY <1>1 DEF vars
<1>2. ASSUME NEW q \in Requests, FirstRequest(q) \/ SeedCheck(q)
      PROVE  \E r : NewReq(q, r) /\ req' = [req EXCEPT ![q] = r]
  <2>1. req[q] = IdleReq
    BY <1>2 DEF FirstRequest, SeedCheck, ReqInv, ReqShape
  <2>2. \/ req' = [req EXCEPT ![q] = [IdleReq EXCEPT !.pc = "provision"]]
        \/ SeedCheck(q) /\ req' = [req EXCEPT ![q] = [IdleReq EXCEPT !.pc = "tags"]]
    BY <1>2, <2>1 DEF FirstRequest, SeedCheck, ReqInv
  <2>3. QED
    BY <2>2 DEF NewReq
<1>3. ASSUME NEW q \in Requests, Provision(q) \/ CreateCommit(q) \/ SeedCommit(q) \/ Dies(q)
      PROVE  \E r : NewReq(q, r) /\ req' = [req EXCEPT ![q] = r]
  <2>1. Ends(q)
    BY <1>3 DEF Provision, CreateCommit, SeedCommit, Dies
  <2>2. QED
    BY <2>1 DEF Ends, NewReq
<1>4. ASSUME NEW q \in Requests, SeedSelect(q)
      PROVE  \E r : NewReq(q, r) /\ req' = [req EXCEPT ![q] = r]
  <2>1. At(q, "tags") /\ ~Resolved(q)
    BY <1>4 DEF SeedSelect
  <2>2. CASE Holder(NextName(q)) = {}
    <3>1. req' = [req EXCEPT ![q] = [req[q] EXCEPT !.pc = "tag"]]
      BY <1>4, <2>2 DEF SeedSelect, ReqInv
    <3>2. NewReq(q, [req[q] EXCEPT !.pc = "tag"])
      BY <2>1 DEF NewReq
    <3>3. QED
      BY <3>1, <3>2
  <2>3. CASE Holder(NextName(q)) # {}
    <3>1. PICK t \in Holder(NextName(q)) : req' = [req EXCEPT ![q].tags[NextName(q)] = t]
      BY <1>4, <2>3 DEF SeedSelect
    <3>2. req' = [req EXCEPT ![q] = [req[q] EXCEPT !.tags[NextName(q)] = t]]
      BY <3>1 DEF ReqInv
    <3>3. NewReq(q, [req[q] EXCEPT !.tags[NextName(q)] = t])
      BY <2>1, <3>1 DEF NewReq
    <3>4. QED
      BY <3>2, <3>3
  <2>4. QED
    BY <2>2, <2>3
<1>5. ASSUME NEW q \in Requests, SeedInsert(q)
      PROVE  \E r : NewReq(q, r) /\ req' = [req EXCEPT ![q] = r]
  <2>1. CASE Ends(q)
    BY <2>1 DEF Ends, NewReq
  <2>2. CASE ~Ends(q)
    <3> DEFINE n == NextName(q)
               R(t) == [req[q] EXCEPT !.pc = "tags", !.tags[n] = t, !.made = @ \cup {t}]
    <3>1. At(q, "tag") /\ Pending(n) = {} /\ Holder(n) = {}
      BY <1>5, <2>2 DEF SeedInsert
    <3>2. PICK t \in Tags : 
            /\ Ready(t)
            /\ req' = [req EXCEPT ![q].pc = "tags", ![q].tags[n] = t, ![q].made = @ \cup {t}]
      BY <1>5, <2>2 DEF SeedInsert
    <3>3. req' = [req EXCEPT ![q] = R(t)]
      BY <3>2 DEF ReqInv, Reqs
    <3>4. NewReq(q, R(t))
      BY <3>1, <3>2, Zenon DEF NewReq
    <3>5. QED
      BY <3>3, <3>4
  <2>3. QED
    BY <2>1, <2>2
<1>6. ASSUME NEW q \in Requests, NEW k \in Keys \cup {None}, CreateNew(q, k)
      PROVE  \E r : NewReq(q, r) /\ req' = [req EXCEPT ![q] = r]
  BY <1>6 DEF CreateNew, NewReq
<1>7. ASSUME NEW q \in Requests, NEW k \in Keys \cup {None}, CreateFound(q, k) \/ CreateUnconfigured(q, k)
      PROVE  req' = req
  BY <1>7 DEF CreateFound, CreateUnconfigured
<1>8. CASE Edit \/ (\E e \in Ids : Upload(e) \/ DeleteEvent(e))
  BY <1>8, EditFrame DEF Upload, DeleteEvent
<1>9. CASE Next
  BY <1>2, <1>3, <1>4, <1>5, <1>6, <1>7, <1>8, <1>9, Zenon DEF Next, Serve, Retry
<1>10. QED
  BY <1>1, <1>9

LEMMA NewReqId ==
  ASSUME ReqInv, NEW q \in Requests, NEW r, NewReq(q, r)
  PROVE  \/ r.pc = "insert" /\ r.id \in Unused
         \/ r.pc # "insert" /\ r.id = None
<1>1. req[q] \in Reqs /\ ReqShape(q)
  BY DEF ReqInv
<1>2. CASE r = IdleReq \/ r = [IdleReq EXCEPT !.pc = "provision"] \/ r = [IdleReq EXCEPT !.pc = "tags"]
  BY <1>2 DEF IdleReq
<1>3. CASE \E k \in Keys \cup {None} : \E e \in Unused : \E type \in {"text", "audio"} :
             r = [IdleReq EXCEPT !.pc = "insert", !.key = k, !.id = e, !.type = type]
  BY <1>3 DEF IdleReq
<1>4. CASE At(q, "tags") /\ r = [req[q] EXCEPT !.pc = "tag"]
  BY <1>1, <1>4 DEF Reqs, ReqShape, At
<1>5. ASSUME NEW t, At(q, "tags"), r = [req[q] EXCEPT !.tags[NextName(q)] = t]
      PROVE  r.pc # "insert" /\ r.id = None
  BY <1>1, <1>5 DEF Reqs, ReqShape, At
<1>6. ASSUME NEW t, At(q, "tag"),
             r = [req[q] EXCEPT !.pc = "tags", !.tags[NextName(q)] = t, !.made = @ \cup {t}]
      PROVE  r.pc # "insert" /\ r.id = None
  BY <1>1, <1>6 DEF Reqs, ReqShape, At
<1>7. QED
  BY <1>2, <1>3, <1>4, <1>5, <1>6, Zenon DEF NewReq

LEMMA ReqInvInductive ==
  /\ Init => ReqInv
  /\ ReqInv /\ [Next]_vars => ReqInv'
<1>1. ASSUME Init PROVE ReqInv
  BY <1>1, IdleReqType DEF Init, ReqInv, ReqShape, At, Resolved, IdleReq, Unresolved
<1>2. ASSUME ReqInv, [Next]_vars PROVE ReqInv'
  <2>1. CASE req' = req
    BY <1>2, <2>1 DEF ReqInv, ReqShape, At, Resolved, Seeders
  <2>2. ASSUME NEW q \in Requests, NEW r, NewReq(q, r), req' = [req EXCEPT ![q] = r]
        PROVE  ReqInv'
    <3>1. /\ req[q] \in Reqs /\ req'[q] = r
          /\ \A p \in Requests \ {q} : req'[p] = req[p]
      BY <1>2, <2>2 DEF ReqInv
    <3>2. r \in Reqs
      <4>1. \A n, t : t \in Tags => [req[q].tags EXCEPT ![n] = t] \in [Names -> Tags \cup {None}]
        BY <3>1 DEF Reqs
      <4>2. CASE \/ r = IdleReq \/ r = [IdleReq EXCEPT !.pc = "provision"] 
                 \/ r = [IdleReq EXCEPT !.pc = "tags"] \/ r = [req[q] EXCEPT !.pc = "tag"]
        BY <3>1, <4>2, IdleReqType DEF Reqs
      <4>3. CASE \E k \in Keys \cup {None} : \E e \in Unused : \E type \in {"text", "audio"} :
                   r = [IdleReq EXCEPT !.pc = "insert", !.key = k, !.id = e, !.type = type]
        BY <4>3, IdleReqType DEF Reqs, Unused
      <4>4. CASE \E t \in Holder(NextName(q)) : r = [req[q] EXCEPT !.tags[NextName(q)] = t]
        BY <3>1, <4>1, <4>4 DEF Reqs, Holder
      <4>5. CASE \E t \in Tags :
                   r = [req[q] EXCEPT !.pc = "tags", !.tags[NextName(q)] = t, !.made = @ \cup {t}]
        <5>1. \A f \in [Names -> Tags \cup {None}] : \A S \in SUBSET Tags :
                [req[q] EXCEPT !.pc = "tags", !.tags = f, !.made = S] \in Reqs
          BY <3>1 DEF Reqs
        <5>2. PICK t \in Tags :
                r = [req[q] EXCEPT !.pc = "tags", !.tags = [req[q].tags EXCEPT ![NextName(q)] = t],
                                   !.made = req[q].made \cup {t}]
          BY <4>5
        <5>3. req[q].made \cup {t} \in SUBSET Tags
          BY <3>1 DEF Reqs
        <5>4. QED
          BY <4>1, <5>1, <5>2, <5>3
      <4>6. QED
        BY <2>2, <4>2, <4>3, <4>4, <4>5 DEF NewReq
    <3>3. ReqShape(q)'
      <4> DEFINE n == NextName(q)
      <4>0. req[q].tags \in [Names -> Tags \cup {None}] /\ ReqShape(q)
        BY <1>2, <3>1 DEF Reqs, ReqInv
      <4>1. CASE r = IdleReq \/ r = [IdleReq EXCEPT !.pc = "provision"] \/ r = [IdleReq EXCEPT !.pc = "tags"]
        BY <3>1, <4>1 DEF ReqShape, At, Resolved, Seeders, IdleReq, Unresolved
      <4>2. CASE \E k \in Keys \cup {None} : \E e \in Unused : \E type \in {"text", "audio"} :
                   r = [IdleReq EXCEPT !.pc = "insert", !.key = k, !.id = e, !.type = type]
        BY <3>1, <4>2 DEF ReqShape, At, Resolved, Seeders, IdleReq, Unresolved
      <4>3. CASE At(q, "tags") /\ ~Resolved(q) /\ r = [req[q] EXCEPT !.pc = "tag"]
        <5>1. r.pc = "tag" /\ r.tags = req[q].tags /\ r.made = req[q].made /\ r.id = req[q].id
          BY <3>1, <4>3 DEF Reqs
        <5>2. ~Resolved(q)'
          BY <3>1, <4>3, <5>1 DEF Resolved
        <5>3. \A u \in r.made : \E m \in Names : r.tags[m] = u
          BY <4>0, <5>1 DEF ReqShape
        <5>4. r.pc = "tag" /\ r.id = None
          BY <4>0, <4>3, <5>1 DEF ReqShape, At
        <5>5. q \in Seeders'
          BY <3>1, <5>4 DEF Seeders
        <5>6. QED
          BY <3>1, <5>2, <5>3, <5>4, <5>5 DEF ReqShape, At
      <4>4. CASE /\ At(q, "tags") /\ ~Resolved(q)
                 /\ \E t \in Holder(n) : r = [req[q] EXCEPT !.tags[n] = t]
        <5>1. PICK t \in Holder(n) : r = [req[q] EXCEPT !.tags[n] = t]
          BY <4>4
        <5>2. /\ r.pc = "tags" /\ r.tags = [req[q].tags EXCEPT ![n] = t]
              /\ r.made = req[q].made /\ r.id = req[q].id
          BY <3>1, <4>4, <5>1 DEF Reqs, At
        <5>3. \A m \in Names : req[q].tags[m] # None => r.tags[m] = req[q].tags[m]
          BY <4>0, <4>4, <5>2, NextNameIsNew
        <5>4. \A u \in r.made : \E m \in Names : r.tags[m] = u
          BY <3>1, <4>0, <5>2, <5>3, EventsAssumption DEF ReqShape, Reqs
        <5>5. QED
          BY <3>1, <4>0, <4>4, <5>2, <5>4 DEF ReqShape, At, Seeders
      <4>5. CASE /\ At(q, "tag")
                 /\ \E t \in Tags :
                      r = [req[q] EXCEPT !.pc = "tags", !.tags[n] = t, !.made = @ \cup {t}]
        <5>1. PICK t \in Tags :
                r = [req[q] EXCEPT !.pc = "tags", !.tags = [req[q].tags EXCEPT ![n] = t],
                                   !.made = req[q].made \cup {t}]
          BY <4>5
        <5>2. /\ r.pc = "tags" /\ r.tags = [req[q].tags EXCEPT ![n] = t]
              /\ r.made = req[q].made \cup {t} /\ r.id = req[q].id
          BY <3>1, <5>1 DEF Reqs
        <5>3. n \in Names /\ req[q].tags[n] = None
          BY <4>0, <4>5, NextNameIsNew DEF ReqShape
        <5>4. \A u \in r.made : \E m \in Names : r.tags[m] = u
          BY <3>1, <4>0, <5>2, <5>3, EventsAssumption DEF ReqShape, Reqs
        <5>5. QED
          BY <3>1, <4>0, <4>5, <5>2, <5>4 DEF ReqShape, At, Seeders
      <4>6. QED
        BY <2>2, <4>1, <4>2, <4>3, <4>4, <4>5 DEF NewReq
    <3>4. \A p \in Requests \ {q} : ReqShape(p)'
      BY <1>2, <3>1 DEF ReqInv, ReqShape, At, Resolved, Seeders
    <3>5. QED
      BY <1>2, <2>2, <3>2, <3>3, <3>4 DEF ReqInv
  <2>3. QED
    BY <1>2, <2>1, <2>2, OneRequest
<1>3. QED
  BY <1>1, <1>2

-----------------------------------------------------------------------------
(* Events, recordings and uploads *)

EventRows == [state : {"unused", "live", "gone"}, key : Keys \cup {None}, type : {"text", "audio"}]

\* What a create is about to insert is no event yet, and no other request's.
InsertsFresh ==
  \A q \in Requests :
    At(q, "insert") =>
      /\ req[q].id \in Ids /\ event[req[q].id].state = "unused"
      /\ \A p \in Requests \ {q} : req[p].id # req[q].id

CreateTypes ==
  /\ user \in BOOLEAN /\ event \in [Ids -> EventRows]
  /\ wanted \subseteq Keys /\ got \in [Keys -> Ids \cup {None}]

\* An upload URL was answered only behind the commit of its recording.
UrlsFindRows == urls \subseteq recording /\ objects \subseteq recording

CreateInv == CreateTypes /\ InsertsFresh /\ RecordingsOwned /\ UrlsFindRows

LEMMA AnsweredTypes ==
  ASSUME CreateTypes, NEW k \in Keys \cup {None}, NEW e \in Ids, NEW audio, Answered(k, e, audio)
  PROVE  got' \in [Keys -> Ids \cup {None}] /\ urls' \subseteq urls \cup (IF audio THEN {e} ELSE {})
BY DEF CreateTypes, Answered

LEMMA WantsType ==
  ASSUME CreateTypes, NEW k \in Keys \cup {None}, Wants(k)
  PROVE  wanted' \subseteq Keys
BY DEF CreateTypes, Wants

\* A step that changes no event changes no recording, and an upload URL it hands
\* out, or an object it makes, is of a recording there is.
LEMMA EventsKept ==
  ASSUME ReqInv, CreateInv, [Next]_vars,
         \A q \in Requests : ~CreateCommit(q), \A e \in Ids : ~DeleteEvent(e)
  PROVE  event' = event /\ recording' = recording /\ CreateTypes' /\ UrlsFindRows'
<1> USE DEF CreateInv
<1>1. CASE UNCHANGED vars
  BY <1>1 DEF vars, CreateTypes, UrlsFindRows
<1>2. ASSUME NEW q \in Requests,
             FirstRequest(q) \/ Provision(q) \/ SeedCheck(q) \/ Dies(q)
             \/ SeedSelect(q) \/ SeedInsert(q) \/ SeedCommit(q)
      PROVE  UNCHANGED creation /\ user' \in BOOLEAN
  BY <1>2 DEF FirstRequest, Provision, SeedCheck, Dies, SeedSelect, SeedInsert, SeedCommit, CreateTypes
<1>3. ASSUME NEW q \in Requests, NEW k \in Keys \cup {None}, CreateFound(q, k)
      PROVE  event' = event /\ recording' = recording /\ CreateTypes' /\ UrlsFindRows'
  <2>1. PICK e \in WithKey(k) : Answered(k, e, e \in recording) \/ UNCHANGED <<got, urls>>
    BY <1>3 DEF CreateFound
  <2>2. e \in Ids
    BY DEF WithKey, Live
  <2>3. got' \in [Keys -> Ids \cup {None}] /\ urls' \subseteq recording
    BY <2>1, <2>2 DEF Answered, CreateTypes, UrlsFindRows
  <2>4. QED
    BY <1>3, <2>3, WantsType DEF CreateFound, CreateTypes, UrlsFindRows
<1>4. ASSUME NEW q \in Requests, NEW k \in Keys \cup {None}, CreateNew(q, k) \/ CreateUnconfigured(q, k)
      PROVE  event' = event /\ recording' = recording /\ CreateTypes' /\ UrlsFindRows'
  BY <1>4, WantsType DEF CreateNew, CreateUnconfigured, CreateTypes, UrlsFindRows
<1>5. ASSUME NEW e \in Ids, Upload(e)
      PROVE  event' = event /\ recording' = recording /\ CreateTypes' /\ UrlsFindRows'
  BY <1>5 DEF Upload, CreateTypes, UrlsFindRows
<1>6. CASE Edit
  BY <1>6, EditFrame DEF creation, CreateTypes, UrlsFindRows
<1>7. CASE UNCHANGED creation /\ user' \in BOOLEAN
  BY <1>7 DEF creation, CreateTypes, UrlsFindRows
<1>8. CASE Next
  BY <1>2, <1>3, <1>4, <1>5, <1>6, <1>7, <1>8, Zenon DEF Next, Serve, Retry
<1>9. QED
  BY <1>1, <1>8

LEMMA CommitKeeps ==
  ASSUME ReqInv, CreateInv, NEW q \in Requests, CreateCommit(q)
  PROVE  /\ CreateTypes' /\ RecordingsOwned' /\ UrlsFindRows'
         /\ \A e \in Ids : e # req[q].id => event'[e] = event[e]
<1> DEFINE k == req[q].key  e == req[q].id  audio == req[q].type = "audio"
           row == [state |-> "live", key |-> k, type |-> req[q].type]
<1> USE DEF CreateInv
<1>1. /\ req[q] \in Reqs /\ k \in Keys \cup {None} /\ e \in Ids /\ row \in EventRows
      /\ event \in [Ids -> EventRows] /\ event[e].state = "unused"
  BY DEF CreateCommit, ReqInv, Reqs, InsertsFresh, CreateTypes, EventRows
<1>2. UNCHANGED <<user, objects, wanted>>
  BY DEF CreateCommit
<1>3. CASE UNCHANGED <<event, recording, urls, got>>
  BY <1>2, <1>3 DEF CreateTypes, RecordingsOwned, UrlsFindRows
<1>4. CASE /\ event' = [event EXCEPT ![e] = row]
           /\ recording' = IF audio THEN recording \cup {e} ELSE recording
           /\ Answered(k, e, audio)
  <2>1. event' \in [Ids -> EventRows] /\ event'[e] = row /\ \A f \in Ids \ {e} : event'[f] = event[f]
    BY <1>1, <1>4
  <2>2. got' \in [Keys -> Ids \cup {None}] /\ urls' \subseteq urls \cup (IF audio THEN {e} ELSE {})
    BY <1>1, <1>4, AnsweredTypes
  <2>3. urls' \subseteq recording' /\ objects' \subseteq recording'
    BY <1>2, <1>4, <2>2 DEF UrlsFindRows
  <2>4. recording' = {f \in Ids : event'[f].state # "unused" /\ event'[f].type = "audio"}
    BY <1>1, <1>4, <2>1 DEF RecordingsOwned
  <2>5. QED
    BY <1>2, <2>1, <2>2, <2>3, <2>4 DEF CreateTypes, RecordingsOwned, UrlsFindRows
<1>5. QED
  BY <1>3, <1>4, Zenon DEF CreateCommit

\* Only its own request makes an event of an unused id.
LEMMA UsedByCommit ==
  ASSUME ReqInv, CreateInv, [Next]_vars,
         NEW e \in Ids, event[e].state = "unused", event'[e].state # "unused"
  PROVE  \E q \in Requests : At(q, "insert") /\ e = req[q].id /\ Ends(q)
<1>1. CASE \E q \in Requests : CreateCommit(q)
  <2>1. PICK q \in Requests : CreateCommit(q)
    BY <1>1
  <2>2. At(q, "insert") /\ Ends(q)
    BY <2>1 DEF CreateCommit
  <2>3. e = req[q].id
    BY <2>1, CommitKeeps
  <2>4. QED
    BY <2>2, <2>3
<1>2. CASE \E f \in Ids : DeleteEvent(f)
  BY <1>2 DEF DeleteEvent, CreateInv, CreateTypes
<1>3. QED
  BY <1>1, <1>2, EventsKept

LEMMA CreateInvInductive ==
  /\ Init => CreateInv
  /\ ReqInv /\ CreateInv /\ [Next]_vars => CreateInv'
<1>1. ASSUME Init PROVE CreateInv
  BY <1>1 DEF Init, CreateInv, CreateTypes, EventRows, InsertsFresh, At, IdleReq, RecordingsOwned,
              UrlsFindRows
<1>2. ASSUME ReqInv, CreateInv, [Next]_vars PROVE CreateInv'
  <2>1. CreateTypes' /\ RecordingsOwned' /\ UrlsFindRows'
    <3>1. CASE \E q \in Requests : CreateCommit(q)
      BY <1>2, <3>1, CommitKeeps
    <3>2. CASE \E e \in Ids : DeleteEvent(e)
      <4>1. PICK e \in Ids : DeleteEvent(e)
        BY <3>2
      <4>2. event \in [Ids -> EventRows] /\ event[e] \in EventRows
        BY <1>2 DEF CreateInv, CreateTypes
      <4>3. event' = [event EXCEPT ![e] = [event[e] EXCEPT !.state = "gone"]]
        BY <4>1, <4>2 DEF DeleteEvent
      <4>4. [event[e] EXCEPT !.state = "gone"] \in EventRows
        BY <4>2 DEF EventRows
      <4>5. event' \in [Ids -> EventRows] 
        BY <4>2, <4>3, <4>4
      <4>6. \A f \in Ids : /\ event'[f].type = event[f].type
                           /\ event'[f].state = "unused" <=> event[f].state = "unused"
        BY <4>1, <4>2, <4>3 DEF EventRows, DeleteEvent
      <4>7. QED
        BY <1>2, <4>1, <4>5, <4>6 DEF DeleteEvent, CreateInv, CreateTypes, RecordingsOwned, UrlsFindRows
    <3>3. CASE ~(\E q \in Requests : CreateCommit(q)) /\ ~(\E e \in Ids : DeleteEvent(e))
      BY <1>2, <3>3, EventsKept DEF CreateInv, RecordingsOwned
    <3>4. QED
      BY <3>1, <3>2, <3>3
  <2>2. InsertsFresh'
    <3>0. req \in [Requests -> Reqs] /\ InsertsFresh
      BY <1>2 DEF ReqInv, CreateInv
    <3>1. ASSUME NEW e \in Ids, event[e].state = "unused", event'[e].state # "unused"
          PROVE  \E q \in Requests : At(q, "insert") /\ e = req[q].id /\ Ends(q)
      BY <1>2, <3>1, UsedByCommit
    <3>2. ASSUME NEW q \in Requests, At(q, "insert"), req'[q] = req[q], 
                 \A p \in Requests : req'[p].id = req[p].id \/ req'[p].id # req[q].id
          PROVE  /\ req'[q].id \in Ids /\ event'[req'[q].id].state = "unused"
                 /\ \A p \in Requests \ {q} : req'[p].id # req'[q].id
      <4>1. /\ req[q].id \in Ids /\ event[req[q].id].state = "unused"
            /\ \A p \in Requests \ {q} : req[p].id # req[q].id
        BY <3>0, <3>2 DEF InsertsFresh
      <4>2. event'[req[q].id].state = "unused"
        <5>1. SUFFICES ASSUME event'[req[q].id].state # "unused" PROVE FALSE
          OBVIOUS
        <5>2. PICK p \in Requests : At(p, "insert") /\ req[q].id = req[p].id /\ Ends(p)
          BY <3>1, <4>1, <5>1
        <5>3. p = q
          BY <4>1, <5>2
        <5>4. req'[q] = IdleReq
          BY <3>0, <5>2, <5>3 DEF Ends
        <5>5. QED
          BY <3>2, <5>4 DEF At, IdleReq
      <4>3. QED
        BY <3>2, <4>1, <4>2
    <3>3. CASE req' = req
      BY <3>0, <3>2, <3>3 DEF InsertsFresh, At
    <3>4. ASSUME NEW q \in Requests, NEW r, NewReq(q, r), req' = [req EXCEPT ![q] = r]
          PROVE  InsertsFresh'
      <4>1. /\ req'[q] = r /\ req[q] \in Reqs
            /\ \A p \in Requests \ {q} : req'[p] = req[p]
        BY <3>0, <3>4
      <4>2. CASE r.pc # "insert" /\ r.id = None
        BY <3>0, <3>2, <4>1, <4>2, EventsAssumption DEF InsertsFresh, At
      <4>3. CASE r.pc = "insert" /\ r.id \in Unused
        <5>1. /\ r.id \in Ids /\ event[r.id].state = "unused" /\ \A p \in Requests : req[p].id # r.id
          BY <4>3 DEF Unused
        <5>2. event'[r.id].state = "unused"
          BY <3>1, <5>1
        <5>3. QED
          BY <3>0, <3>2, <4>1, <5>1, <5>2 DEF InsertsFresh, At
      <4>4. QED
        BY <1>2, <3>4, <4>2, <4>3, NewReqId
    <3>5. QED
      BY <1>2, <3>3, <3>4, OneRequest
  <2>3. QED
    BY <2>1, <2>2 DEF CreateInv
<1>3. QED
  BY <1>1, <1>2

-----------------------------------------------------------------------------
(* What a key is answered with *)

\* One live event has a key, and the event a key was answered with has had it.
KeyInv ==
  /\ \A k \in Keys : \A e, f \in WithKey(k) : e = f
  /\ \A k \in Keys : got[k] # None =>
       event[got[k]].state # "unused" /\ event[got[k]].key = k

\* Only a key that no live event has takes another event, and what it is answered
\* with is that event, or the live one.
LEMMA KeyStep ==
  ASSUME ReqInv, CreateInv, KeyInv, [Next]_vars
  PROVE  /\ KeyInv'
         /\ \A k \in Keys : got[k] # None /\ got'[k] # got[k] => event[got[k]].state = "gone"
<1>0. /\ got \in [Keys -> Ids \cup {None}] /\ event \in [Ids -> EventRows]
      /\ \A k \in Keys : got[k] # None => got[k] \in Ids
  BY DEF CreateInv, CreateTypes
<1>1. CASE event' = event /\ got' = got
  BY <1>1 DEF KeyInv, WithKey, Live
<1>2. ASSUME NEW q \in Requests, NEW k \in Keys \cup {None}, CreateFound(q, k)
      PROVE  /\ KeyInv'
             /\ \A j \in Keys : got[j] # None /\ got'[j] # got[j] => event[got[j]].state = "gone"
  <2>1. k \in Keys /\ event' = event
    BY <1>2 DEF CreateFound
  <2>2. PICK e \in WithKey(k) : got' = got \/ got' = [got EXCEPT ![k] = e]
    BY <1>2, <2>1 DEF CreateFound, Answered
  <2>3. e \in Ids /\ event[e].state = "live" /\ event[e].key = k
    BY DEF WithKey, Live
  <2>4. KeyInv'
    BY <1>0, <2>1, <2>2, <2>3 DEF KeyInv, WithKey, Live
  <2>5. ASSUME got[k] # None, got[k] # e
        PROVE  event[got[k]].state = "gone"
    <3>1. got[k] \in Ids /\ event[got[k]].state # "unused" /\ event[got[k]].key = k
      BY <1>0, <2>1, <2>5 DEF KeyInv
    <3>2. got[k] \notin WithKey(k)
      BY <2>1, <2>5 DEF KeyInv
    <3>3. QED
      BY <1>0, <3>1, <3>2 DEF WithKey, Live, EventRows
  <2>6. QED
    BY <1>0, <2>2, <2>4, <2>5
<1>3. ASSUME NEW q \in Requests, CreateCommit(q), ~(event' = event /\ got' = got)
      PROVE  /\ KeyInv'
             /\ \A j \in Keys : got[j] # None /\ got'[j] # got[j] => event[got[j]].state = "gone"
  <2> DEFINE k == req[q].key  e == req[q].id
             row == [state |-> "live", key |-> k, type |-> req[q].type]
  <2>1. e \in Ids /\ event[e].state = "unused"
    BY <1>3 DEF CreateCommit, CreateInv, InsertsFresh
  <2>2. /\ k \in Keys => WithKey(k) = {}
        /\ event' = [event EXCEPT ![e] = row]
        /\ got' = got \/ (k \in Keys /\ got' = [got EXCEPT ![k] = e])
    BY <1>3 DEF CreateCommit, Answered
  <2>3. event'[e] = row /\ \A f \in Ids \ {e} : event'[f] = event[f]
    BY <1>0, <2>1, <2>2
  <2>4. \A j \in Keys : got[j] # None => got[j] # e
    BY <2>1 DEF KeyInv
  <2>5. \A j \in Keys : WithKey(j)' = IF j = k THEN {e} ELSE WithKey(j)
    BY <2>1, <2>2, <2>3 DEF WithKey, Live
  <2>6. \A j \in Keys : got'[j] # None =>
          event'[got'[j]].state # "unused" /\ event'[got'[j]].key = j
    <3>1. SUFFICES ASSUME NEW j \in Keys, got'[j] # None
                   PROVE  event'[got'[j]].state # "unused" /\ event'[got'[j]].key = j
      OBVIOUS
    <3>2. CASE got'[j] = got[j]
      BY <1>0, <2>3, <2>4, <3>1, <3>2 DEF KeyInv
    <3>3. CASE got'[j] # got[j]
      BY <1>0, <2>2, <2>3, <3>1, <3>3
    <3>4. QED
      BY <3>2, <3>3
  <2>7. \A j \in Keys : got[j] # None /\ got'[j] # got[j] => event[got[j]].state = "gone"
    <3>1. SUFFICES ASSUME NEW j \in Keys, got[j] # None, got'[j] # got[j]
                   PROVE  event[got[j]].state = "gone"
      OBVIOUS
    <3>2. j = k /\ WithKey(j) = {}
      BY <1>0, <2>2, <3>1
    <3>3. QED
      BY <1>0, <3>1, <3>2 DEF KeyInv, WithKey, Live, EventRows
  <2>8. QED
    BY <2>5, <2>6, <2>7 DEF KeyInv
<1>4. ASSUME NEW e \in Ids, DeleteEvent(e)
      PROVE  KeyInv' /\ got' = got
  <2>1. got' = got /\ event' = [event EXCEPT ![e] = [event[e] EXCEPT !.state = "gone"]]
    BY <1>0, <1>4 DEF DeleteEvent
  <2>2. \A f \in Ids : /\ event'[f].key = event[f].key
                       /\ event'[f].state # "unused" <=> event[f].state # "unused"
                       /\ event'[f].state = "live" => event[f].state = "live"
    BY <1>0, <1>4, <2>1 DEF DeleteEvent, EventRows
  <2>3. \A k \in Keys : WithKey(k)' \subseteq WithKey(k)
    BY <2>2 DEF WithKey, Live
  <2>4. QED
    BY <1>0, <2>1, <2>2, <2>3 DEF KeyInv
<1>5. CASE UNCHANGED vars
  BY <1>1, <1>5 DEF vars
<1>6. ASSUME NEW q \in Requests,
             FirstRequest(q) \/ Provision(q) \/ SeedCheck(q) \/ Dies(q)
             \/ SeedSelect(q) \/ SeedInsert(q) \/ SeedCommit(q)
      PROVE  event' = event /\ got' = got
  BY <1>6 DEF FirstRequest, Provision, SeedCheck, Dies, SeedSelect, SeedInsert, SeedCommit, creation
<1>7. ASSUME NEW q \in Requests, NEW k \in Keys \cup {None}, CreateNew(q, k) \/ CreateUnconfigured(q, k)
      PROVE  event' = event /\ got' = got
  BY <1>7 DEF CreateNew, CreateUnconfigured
<1>8. CASE Edit \/ \E e \in Ids : Upload(e)
  BY <1>1, <1>8, EditFrame DEF Upload, creation
<1>9. CASE Next
  BY <1>1, <1>2, <1>3, <1>4, <1>6, <1>7, <1>8, <1>9, Zenon DEF Next, Serve, Retry
<1>10. QED
  BY <1>5, <1>9

\* Two requests at a time, or twenty, with lost answers and crashes: a client that
\* was answered with an event is answered with that one, or with none, as long as
\* it is there (services/events.py).
THEOREM OneEventPerKey == Spec => SameEvent
<1>1. Init => ReqInv /\ CreateInv /\ KeyInv
  <2>1. Init => KeyInv
    BY DEF Init, KeyInv, WithKey, Live
  <2>2. QED
    BY <2>1, ReqInvInductive, CreateInvInductive
<1>2. ReqInv /\ CreateInv /\ KeyInv /\ [Next]_vars => (ReqInv /\ CreateInv /\ KeyInv)'
  BY ReqInvInductive, CreateInvInductive, KeyStep
<1>3. ReqInv /\ CreateInv /\ KeyInv /\ [Next]_vars
        => [\A k \in Keys : got[k] # None /\ got'[k] # got[k] => event[got[k]].state = "gone"]_vars
  BY KeyStep
<1>4. QED
  BY <1>1, <1>2, <1>3, PTL DEF Spec, SameEvent

\* An audio event has its recording and a recording its event: one transaction
\* makes both, and the unique key that refuses one refuses both.
THEOREM OneTransaction == Spec => []RecordingsOwned
<1>1. Init => ReqInv /\ CreateInv
  BY ReqInvInductive, CreateInvInductive
<1>2. ReqInv /\ CreateInv /\ [Next]_vars => (ReqInv /\ CreateInv)'
  BY ReqInvInductive, CreateInvInductive
<1>3. CreateInv => RecordingsOwned
  BY DEF CreateInv
<1>4. QED
  BY <1>1, <1>2, <1>3, PTL DEF Spec

\* The URL is signed before the commit and answered only after it: no upload, and
\* no notice of one, is of a recording there is not.
THEOREM NoUploadUnclaimed == Spec => []UploadsFindRows
<1>1. Init => ReqInv /\ CreateInv
  BY ReqInvInductive, CreateInvInductive
<1>2. ReqInv /\ CreateInv /\ [Next]_vars => (ReqInv /\ CreateInv)'
  BY ReqInvInductive, CreateInvInductive
<1>3. CreateInv => UploadsFindRows
  BY DEF CreateInv, UrlsFindRows, UploadsFindRows
<1>4. QED
  BY <1>1, <1>2, <1>3, PTL DEF Spec

-----------------------------------------------------------------------------
(* Demo data *)

TagRows == [name : Names \cup {None}, colour : {"none", "user", "demo"}]
DemoRows == [copy : 1..MaxSeeds, row : DOMAIN Rows, tags : SUBSET (Tags \cup {None})]

\* A running seed has a place among the MaxSeeds copies.
PlacesKept ==
  /\ seeds \in Nat /\ IsFiniteSet(Seeders)
  /\ seeds + Cardinality(Seeders) <= MaxSeeds

SeedInv ==
  /\ tag \in [Tags -> TagRows] /\ demo \subseteq DemoRows
  /\ PlacesKept /\ SeedAtomic

\* Only SeedCheck makes a request a seed.
LEMMA SeedersShrink ==
  ASSUME ReqInv, [Next]_vars, \A q \in Requests : ~SeedCheck(q)
  PROVE  Seeders' \subseteq Seeders
<1>1. CASE req' = req
  BY <1>1 DEF Seeders
<1>2. ASSUME NEW q \in Requests, NEW r, NewReq(q, r), req' = [req EXCEPT ![q] = r]
      PROVE  Seeders' \subseteq Seeders
  <2>1. /\ req'[q] = r /\ req[q] \in Reqs
        /\ \A p \in Requests \ {q} : req'[p] = req[p]
    BY <1>2 DEF ReqInv
  <2>2. \/ r = IdleReq \/ r = [IdleReq EXCEPT !.pc = "provision"]
        \/ \E k \in Keys \cup {None} : \E e \in Unused : \E type \in {"text", "audio"} :
             r = [IdleReq EXCEPT !.pc = "insert", !.key = k, !.id = e, !.type = type]
        \/ At(q, "tags") \/ At(q, "tag")
    BY <1>2 DEF NewReq
  <2>3. r.pc \notin {"tags", "tag"} \/ q \in Seeders
    <3>1. At(q, "tags") \/ At(q, "tag") => q \in Seeders
      BY DEF Seeders, At
    <3>2. r = IdleReq \/ r = [IdleReq EXCEPT !.pc = "provision"] => r.pc \notin {"tags", "tag"}
      BY DEF IdleReq
    <3>3. \A k, e, type : r = [IdleReq EXCEPT !.pc = "insert", !.key = k, !.id = e, !.type = type]
                            => r.pc \notin {"tags", "tag"}
      BY DEF IdleReq
    <3>4. QED
      BY <2>2, <3>1, <3>2, <3>3, Zenon
  <2>4. QED
    BY <2>1, <2>3 DEF Seeders
<1>3. QED
  BY <1>1, <1>2, OneRequest

LEMMA PlacesShrink ==
  ASSUME ReqInv, PlacesKept, [Next]_vars, \A q \in Requests : ~SeedCheck(q), seeds' = seeds
  PROVE  PlacesKept'
<1>1. Seeders' \in SUBSET Seeders /\ IsFiniteSet(Seeders)
  BY SeedersShrink DEF PlacesKept
<1>2. IsFiniteSet(Seeders') /\ Cardinality(Seeders') <= Cardinality(Seeders)
  BY <1>1, FS_Subset
<1>3. Cardinality(Seeders') \in Nat /\ Cardinality(Seeders) \in Nat
  BY <1>1, <1>2, FS_CardinalityType
<1>4. QED
  BY <1>2, <1>3, EventsAssumption DEF PlacesKept

LEMMA SeedCheckKeeps ==
  ASSUME ReqInv, PlacesKept, NEW q \in Requests, SeedCheck(q)
  PROVE  PlacesKept'
<1>1. Seeders' = Seeders \cup {q}
  BY DEF SeedCheck, ReqInv, Reqs, Seeders, At
<1>2. q \notin Seeders
  BY DEF SeedCheck, Seeders, At
<1>3. /\ IsFiniteSet(Seeders') /\ Cardinality(Seeders') = Cardinality(Seeders) + 1
      /\ Cardinality(Seeders) \in Nat
  BY <1>1, <1>2, FS_AddElement, FS_CardinalityType DEF PlacesKept
<1>4. seeds' = seeds /\ seeds + Cardinality(Seeders) < MaxSeeds
  BY DEF SeedCheck, seeding
<1>5. QED
  BY <1>3, <1>4, EventsAssumption DEF PlacesKept

LEMMA SeedCommitKeeps ==
  ASSUME ReqInv, SeedInv, NEW q \in Requests, SeedCommit(q)
  PROVE  SeedInv'
<1>1. q \in Seeders /\ Seeders' = Seeders \ {q}
  BY DEF SeedCommit, Ends, IdleReq, Seeders, ReqInv, At
<1>2. /\ IsFiniteSet(Seeders') /\ Cardinality(Seeders') = Cardinality(Seeders) - 1
      /\ Cardinality(Seeders) \in Nat /\ Cardinality(Seeders') \in Nat
  BY <1>1, FS_RemoveElement, FS_CardinalityType DEF SeedInv, PlacesKept
<1>3. PlacesKept' /\ seeds' \in 1..MaxSeeds
  BY <1>2, EventsAssumption DEF SeedCommit, SeedInv, PlacesKept
<1>4. req[q] \in Reqs /\ ReqShape(q) /\ Resolved(q)
  BY DEF SeedCommit, ReqInv
<1>5. demo' \subseteq DemoRows
  <2>1. \A i \in DOMAIN Rows : {req[q].tags[n] : n \in Rows[i]} \in SUBSET Tags
    <3>1. \A n \in Names : req[q].tags[n] \in Tags
      BY <1>4 DEF Reqs, Resolved
    <3>2. \A i \in DOMAIN Rows : Rows[i] \subseteq Names
      BY EventsAssumption
    <3>3. QED
      BY <3>1, <3>2
  <2>2. \A i \in DOMAIN Rows :
          [copy |-> seeds', row |-> i, tags |-> {req[q].tags[n] : n \in Rows[i]}] \in DemoRows
    BY <1>3, <2>1 DEF DemoRows
  <2>3. QED
    BY <2>2 DEF SeedCommit, SeedInv
<1>6. tag' \in [Tags -> TagRows]
  <2>1. \A t \in req[q].made :
          [name |-> CHOOSE n \in Names : req[q].tags[n] = t, colour |-> "demo"] \in TagRows
    BY <1>4 DEF ReqShape, TagRows
  <2>2. QED
    BY <2>1 DEF SeedCommit, SeedInv
<1>7. SeedAtomic'
  BY <1>3, EventsAssumption DEF SeedAtomic
<1>8. QED
  BY <1>3, <1>5, <1>6, <1>7 DEF SeedInv

LEMMA SeedInvInductive ==
  /\ Init => SeedInv
  /\ ReqInv /\ SeedInv /\ [Next]_vars => SeedInv'
<1>1. ASSUME Init PROVE SeedInv
  <2>1. Seeders = {}
    BY <1>1 DEF Init, Seeders, IdleReq
  <2>2. PlacesKept
    BY <1>1, <2>1, FS_EmptySet, EventsAssumption DEF Init, PlacesKept
  <2>3. QED
    BY <1>1, <2>2 DEF Init, SeedInv, SeedAtomic, TagRows, UnusedTag
<1>2. ASSUME ReqInv, SeedInv, [Next]_vars PROVE SeedInv'
  <2>1. CASE \E q \in Requests : SeedCommit(q)
    BY <1>2, <2>1, SeedCommitKeeps
  <2>2. ASSUME \A q \in Requests : ~SeedCommit(q)
        PROVE  /\ seeds' = seeds /\ demo' \subseteq DemoRows /\ tag' \in [Tags -> TagRows]
               /\ \A t \in Tags : tag'[t].colour = "demo" => tag[t].colour = "demo"
    <3>0. tag \in [Tags -> TagRows] /\ demo \subseteq DemoRows
      BY <1>2 DEF SeedInv
    <3>1. CASE UNCHANGED seeding
      BY <3>0, <3>1 DEF seeding
    <3>2. CASE Edit
      <4>1. demo' \subseteq DemoRows
        <5>1. ASSUME NEW d \in demo, NEW ids \in SUBSET (Tags \cup {None})
              PROVE  [d EXCEPT !.tags = ids] \in DemoRows
          BY <3>0 DEF DemoRows
        <5>2. CASE PatchDemo
          <6>1. PICK d \in demo, ids \in SUBSET (Tags \cup {None}) :
                  demo' = (demo \ {d}) \cup {[d EXCEPT !.tags = ids]}
            BY <5>2 DEF PatchDemo
          <6>2. QED
            BY <3>0, <5>1, <6>1
        <5>3. ASSUME NEW t \in Tags, DeleteTag(t)
              PROVE  demo' \subseteq DemoRows
          <6>1. \A d \in demo : d.tags \ {t} \in SUBSET (Tags \cup {None})
            BY <3>0 DEF DemoRows
          <6>2. QED
            BY <5>1, <5>3, <6>1 DEF DeleteTag
        <5>4. CASE demo' \subseteq demo
          BY <3>0, <5>4
        <5>5. QED
          BY <3>2, <5>2, <5>3, <5>4 DEF Edit, DeleteDemoEvent, CreateTag, RenameTag
      <4> DEFINE TagsKept == /\ tag' \in [Tags -> TagRows]
                             /\ \A t \in Tags : tag'[t].colour = "demo" => tag[t].colour = "demo"
      <4>2. TagsKept
        <5>1. CASE UNCHANGED tag
          BY <3>0, <5>1
        <5>2. ASSUME NEW t \in Tags, NEW r \in TagRows, tag' = [tag EXCEPT ![t] = r],
                     r.colour = "demo" => tag[t].colour = "demo"
              PROVE  TagsKept
          BY <3>0, <5>2
        <5>3. ASSUME NEW n \in Names, CreateTag(n)
              PROVE  TagsKept
          <6>1. PICK t \in Tags : tag' = [tag EXCEPT ![t] = [name |-> n, colour |-> "user"]]
            BY <5>3 DEF CreateTag
          <6>2. [name |-> n, colour |-> "user"] \in TagRows
            BY DEF TagRows
          <6>3. QED
            BY <5>2, <6>1, <6>2
        <5>4. ASSUME NEW t \in Tags, RenameTag(t)
              PROVE  TagsKept
          <6>1. PICK n \in Names \cup {None} : tag' = [tag EXCEPT ![t].name = n]
            BY <5>4 DEF RenameTag
          <6>2. [tag[t] EXCEPT !.name = n] \in TagRows /\ [tag[t] EXCEPT !.name = n].colour = tag[t].colour
            BY <3>0 DEF TagRows
          <6>3. tag' = [tag EXCEPT ![t] = [tag[t] EXCEPT !.name = n]]
            BY <6>1
          <6>4. QED
            BY <5>2, <6>2, <6>3
        <5>5. ASSUME NEW t \in Tags, DeleteTag(t)
              PROVE  TagsKept
          <6>1. UnusedTag \in TagRows /\ UnusedTag.colour = "none"
            BY DEF UnusedTag, TagRows
          <6>2. QED
            BY <5>2, <5>5, <6>1 DEF DeleteTag
        <5>6. QED
          BY <3>2, <5>1, <5>3, <5>4, <5>5 DEF Edit, DeleteDemoEvent, PatchDemo
      <4>3. QED
        BY <3>2, <4>1, <4>2, EditFrame
    <3>3. ASSUME Next PROVE UNCHANGED seeding \/ Edit
      BY <2>2, <3>3
      DEF Next, Serve, Retry, FirstRequest, Provision, CreateCommit, SeedSelect, SeedInsert, SeedCheck,
          Dies, CreateFound, CreateNew, CreateUnconfigured, Upload, DeleteEvent
    <3>4. QED
      BY <1>2, <3>0, <3>1, <3>2, <3>3 DEF vars, seeding
  <2>3. CASE \A q \in Requests : ~SeedCommit(q)
    <3>1. PlacesKept'
      <4>1. CASE \E q \in Requests : SeedCheck(q)
        BY <1>2, <4>1, SeedCheckKeeps DEF SeedInv
      <4>2. CASE \A q \in Requests : ~SeedCheck(q)
        BY <1>2, <2>2, <2>3, <4>2, PlacesShrink DEF SeedInv
      <4>3. QED
        BY <4>1, <4>2
    <3>2. SeedAtomic'
      BY <1>2, <2>2, <2>3 DEF SeedInv, SeedAtomic
    <3>3. QED
      BY <2>2, <2>3, <3>1, <3>2 DEF SeedInv
  <2>4. QED
    BY <2>1, <2>3
<1>3. QED
  BY <1>1, <1>2

\* A tag a seed has inserted is no one else's, and stands for one name; a tag it has
\* found has the name it was found under.
Own(q, n, t) ==
  /\ tag[t] = UnusedTag
  /\ \A p \in Requests : \A m \in Names : req[p].tags[m] = t => p = q /\ m = n
Holds(q, n) ==
  req[q].tags[n] # None =>
    IF req[q].tags[n] \in req[q].made
      THEN Own(q, n, req[q].tags[n])
      ELSE tag[req[q].tags[n]].name = n
HoldInv == \A q \in Requests : \A n \in Names : Holds(q, n)

\* A seed's commit gives every tag it has inserted the name it stands for, and touches
\* no tag that another seed has found or inserted.
LEMMA CommitNames ==
  ASSUME ReqInv, SeedInv, HoldInv, NEW q \in Requests, SeedCommit(q)
  PROVE  /\ \A n \in Names : tag'[req[q].tags[n]].name = n
         /\ \A t \in Tags : tag'[t] # tag[t] => 
              \A p \in Requests \ {q} : \A m \in Names : req[p].tags[m] # t
<1>1. /\ req[q] \in Reqs /\ ReqShape(q) /\ Resolved(q) /\ tag \in [Tags -> TagRows]
      /\ \A n \in Names : Holds(q, n) /\ req[q].tags[n] \in Tags
  BY DEF SeedCommit, ReqInv, SeedInv, Reqs, Resolved, HoldInv
<1>2. tag' = [t \in Tags |->
                IF t \in req[q].made
                  THEN [name |-> CHOOSE n \in Names : req[q].tags[n] = t, colour |-> "demo"]
                  ELSE tag[t]]
  BY DEF SeedCommit
<1>3. ASSUME NEW n \in Names
      PROVE  tag'[req[q].tags[n]].name = n
  <2>1. CASE req[q].tags[n] \in req[q].made
    <3>1. \A m \in Names : req[q].tags[m] = req[q].tags[n] => m = n
      BY <1>1, <2>1 DEF Holds, Own, Resolved
    <3>2. (CHOOSE m \in Names : req[q].tags[m] = req[q].tags[n]) = n
      BY <3>1
    <3>3. QED
      BY <1>1, <1>2, <2>1, <3>2
  <2>2. CASE req[q].tags[n] \notin req[q].made
    BY <1>1, <1>2, <2>2 DEF Holds, Resolved
  <2>3. QED
    BY <2>1, <2>2
<1>4. ASSUME NEW t \in Tags, tag'[t] # tag[t]
      PROVE  \A p \in Requests \ {q} : \A m \in Names : req[p].tags[m] # t
  <2>1. t \in req[q].made
    BY <1>2, <1>4
  <2>2. PICK n \in Names : req[q].tags[n] = t
    BY <1>1, <2>1 DEF ReqShape
  <2>3. Own(q, n, t)
    BY <1>1, <2>1, <2>2, EventsAssumption DEF Holds
  <2>4. QED
    BY <2>3 DEF Own
<1>5. QED
  BY <1>3, <1>4

LEMMA CommitHolds ==
  ASSUME ReqInv, SeedInv, HoldInv, NEW q \in Requests, SeedCommit(q)
  PROVE  HoldInv'
<1>1. req \in [Requests -> Reqs] /\ req' = [req EXCEPT ![q] = IdleReq]
  BY DEF ReqInv, SeedCommit, Ends
<1>2. SUFFICES ASSUME NEW p \in Requests, NEW n \in Names, req'[p].tags[n] # None
               PROVE  Holds(p, n)'
  BY DEF HoldInv, Holds
<1>3. p # q /\ req'[p] = req[p]
  BY <1>1, <1>2 DEF IdleReq, Unresolved
<1>4. req[p].tags[n] \in Tags /\ Holds(p, n)
  BY <1>1, <1>2, <1>3 DEF HoldInv, Reqs
<1>5. tag'[req[p].tags[n]] = tag[req[p].tags[n]]
  BY <1>3, <1>4, CommitNames
<1>6. CASE req[p].tags[n] \in req[p].made
  <2> DEFINE t == req[p].tags[n]
  <2>1. Own(p, n, t)
    BY <1>2, <1>3, <1>4, <1>6 DEF Holds
  <2>2. \A r \in Requests : \A m \in Names : req'[r].tags[m] = t => r = p /\ m = n
    BY <1>1, <1>4, <2>1, EventsAssumption DEF Own, IdleReq, Unresolved
  <2>3. QED
    BY <1>3, <1>5, <1>6, <2>1, <2>2 DEF Holds, Own
<1>7. CASE req[p].tags[n] \notin req[p].made
  BY <1>2, <1>3, <1>4, <1>5, <1>7 DEF Holds
<1>8. QED
  BY <1>6, <1>7

\* The other steps of a seed: it finds a tag of the name, or inserts one.
LEMMA SeedHolds ==
  ASSUME ReqInv, SeedInv, HoldInv, NEW q \in Requests, NEW r, NewReq(q, r),
         req' = [req EXCEPT ![q] = r], tag' = tag
  PROVE  HoldInv'
<1> DEFINE n == NextName(q)
<1>1. /\ req \in [Requests -> Reqs] /\ req[q] \in Reqs /\ ReqShape(q)
      /\ req'[q] = r /\ \A p \in Requests \ {q} : req'[p] = req[p]
  BY DEF ReqInv
<1>2. CASE r.tags = Unresolved
  <2>1. SUFFICES ASSUME NEW p \in Requests, NEW m \in Names, req'[p].tags[m] # None
                 PROVE  Holds(p, m)'
    BY DEF HoldInv, Holds
  <2>2. p # q /\ req'[p] = req[p] /\ Holds(p, m)
    BY <1>1, <1>2, <2>1 DEF Unresolved, HoldInv
  <2>3. req[p].tags[m] # None
    BY <2>1, <2>2
  <2>4. Own(p, m, req[p].tags[m]) => Own(p, m, req[p].tags[m])'
    BY <1>1, <1>2, <2>2, <2>3 DEF Own, Unresolved
  <2>5. QED
    BY <2>2, <2>3, <2>4 DEF Holds
<1>3. CASE r.tags = req[q].tags /\ r.made = req[q].made
  BY <1>1, <1>3 DEF HoldInv, Holds, Own
<1>4. ASSUME ~Resolved(q), NEW t \in Tags, r.tags = [req[q].tags EXCEPT ![n] = t],
             \/ r.made = req[q].made /\ tag[t].name = n
             \/ r.made = req[q].made \cup {t} /\ Ready(t)
      PROVE  HoldInv'
  <2>1. /\ n \in Names /\ req[q].tags[n] = None /\ r.tags[n] = t
        /\ \A m \in Names \ {n} : r.tags[m] = req[q].tags[m]
    BY <1>1, <1>4, NextNameIsNew DEF Reqs
  <2>2. \A u \in Tags : tag[u].name = n => tag[u] # UnusedTag
    BY <2>1, EventsAssumption DEF UnusedTag
  <2>3. t # None
    BY EventsAssumption
  <2>4. ASSUME NEW p \in Requests, NEW m \in Names, req[p].tags[m] # None,
               Own(p, m, req[p].tags[m])
        PROVE  req[p].tags[m] # t /\ Own(p, m, req[p].tags[m])'
    <3>1. req[p].tags[m] # t
      BY <1>4, <2>2, <2>4 DEF Own, Ready, Found
    <3>2. \A o \in Requests : \A l \in Names :
            req'[o].tags[l] = req[p].tags[m] => o = p /\ l = m
      BY <1>1, <2>1, <2>4, <3>1 DEF Own
    <3>3. req'[p].tags[m] = req[p].tags[m]
      BY <1>1, <2>1, <2>4
    <3>4. QED
      BY <2>4, <3>1, <3>2, <3>3 DEF Own
  <2>5. SUFFICES ASSUME NEW p \in Requests, NEW m \in Names, req'[p].tags[m] # None
                 PROVE  Holds(p, m)'
    BY DEF HoldInv, Holds
  <2>6. CASE ~(p = q /\ m = n)
    <3>1. /\ req'[p].tags[m] = req[p].tags[m] /\ Holds(p, m)
          /\ req[p].tags[m] \in req'[p].made =>
               req[p].tags[m] \in req[p].made \/ (p = q /\ req[p].tags[m] = t /\ Ready(t))
      BY <1>1, <1>4, <2>1, <2>6 DEF HoldInv
    <3>2. ~(req[p].tags[m] = t /\ Ready(t))
      BY DEF Ready, Found
    <3>3. req[p].tags[m] \in req[p].made => req[p].tags[m] \in req'[p].made
      BY <1>1, <1>4
    <3>4. QED
      BY <2>4, <2>5, <3>1, <3>2, <3>3 DEF Holds
  <2>7. CASE p = q /\ m = n
    <3>1. req'[p].tags[m] = t
      BY <1>1, <2>1, <2>7
    <3>2. CASE r.made = req[q].made /\ tag[t].name = n
      <4>1. t \notin req[q].made
        <5>1. SUFFICES ASSUME t \in req[q].made PROVE FALSE
          OBVIOUS
        <5>2. PICK l \in Names : req[q].tags[l] = t
          BY <1>1, <5>1 DEF ReqShape
        <5>3. tag[t] = UnusedTag
          BY <2>3, <5>1, <5>2 DEF HoldInv, Holds, Own
        <5>4. QED
          BY <2>2, <3>2, <5>3
      <4>2. QED
        BY <1>1, <2>7, <3>1, <3>2, <4>1 DEF Holds
    <3>3. CASE r.made = req[q].made \cup {t} /\ Ready(t)
      <4>1. \A o \in Requests : \A l \in Names : req'[o].tags[l] = t => o = q /\ l = n
        BY <1>1, <2>1, <3>3 DEF Ready, Found
      <4>2. t \in req'[p].made
        BY <1>1, <2>7, <3>3
      <4>3. Own(p, m, t)'
        BY <2>7, <3>3, <4>1 DEF Own, Ready, Found
      <4>4. QED
        BY <3>1, <4>2, <4>3 DEF Holds
    <3>4. QED
      BY <1>4, <3>2, <3>3
  <2>8. QED
    BY <2>6, <2>7
<1>5. CASE r = IdleReq \/ r = [IdleReq EXCEPT !.pc = "provision"] \/ r = [IdleReq EXCEPT !.pc = "tags"]
  BY <1>2, <1>5 DEF IdleReq
<1>6. CASE \E k \in Keys \cup {None} : \E e \in Unused : \E type \in {"text", "audio"} :
             r = [IdleReq EXCEPT !.pc = "insert", !.key = k, !.id = e, !.type = type]
  BY <1>2, <1>6 DEF IdleReq
<1>7. CASE r = [req[q] EXCEPT !.pc = "tag"]
  BY <1>1, <1>3, <1>7 DEF Reqs
<1>8. ASSUME ~Resolved(q), NEW t \in Holder(NextName(q)), r = [req[q] EXCEPT !.tags[NextName(q)] = t]
      PROVE  HoldInv'
  <2>1. t \in Tags /\ tag[t].name = n
    BY <1>8 DEF Holder
  <2>2. r.tags = [req[q].tags EXCEPT ![n] = t] /\ r.made = req[q].made
    BY <1>1, <1>8 DEF Reqs
  <2>3. QED
    BY <1>4, <1>8, <2>1, <2>2
<1>9. ASSUME At(q, "tag"), NEW t \in Tags, Ready(t),
             r = [req[q] EXCEPT !.pc = "tags", !.tags[NextName(q)] = t, !.made = @ \cup {t}]
      PROVE  HoldInv'
  <2>1. r.tags = [req[q].tags EXCEPT ![n] = t] /\ r.made = req[q].made \cup {t}
    BY <1>1, <1>9 DEF Reqs
  <2>2. ~Resolved(q)
    BY <1>1, <1>9 DEF ReqShape
  <2>3. QED
    BY <1>4, <1>9, <2>1, <2>2
<1>10. CASE /\ At(q, "tags") /\ ~Resolved(q)
            /\ \E t \in Holder(NextName(q)) : r = [req[q] EXCEPT !.tags[NextName(q)] = t]
  BY <1>8, <1>10
<1>11. CASE /\ At(q, "tag") /\ Holder(NextName(q)) = {} /\ Pending(NextName(q)) = {}
            /\ \E t \in Tags :
                 /\ Ready(t)
                 /\ r = [req[q] EXCEPT !.pc = "tags", !.tags[NextName(q)] = t, !.made = @ \cup {t}]
  BY <1>9, <1>11, Zenon
<1>12. QED
  <2>1. CASE r = [req[q] EXCEPT !.pc = "tag"]
    BY <1>7, <2>1
  <2>2. CASE r # [req[q] EXCEPT !.pc = "tag"]
    BY <1>5, <1>6, <1>10, <1>11, <2>2, Zenon DEF NewReq
  <2>3. QED
    BY <2>1, <2>2

\* What the user does with tags meanwhile.
LEMMA EditHolds ==
  ASSUME ReqInv, HoldInv, "detach" \notin Faults, Edit
  PROVE  HoldInv'
<1>1. req' = req /\ req \in [Requests -> Reqs]
  BY EditFrame DEF ReqInv
<1>2. \A t : Found(t) => tag'[t] = tag[t]
  <2>1. CASE DeleteDemoEvent \/ PatchDemo
    BY <2>1 DEF DeleteDemoEvent, PatchDemo
  <2>2. ASSUME NEW u \in Tags, ~Found(u), NEW r, tag' = [tag EXCEPT ![u] = r]
        PROVE  \A t : Found(t) => tag'[t] = tag[t]
    <3>1. \A t : t # u => tag'[t] = tag[t]
      BY <2>2
    <3>2. QED
      BY <2>2, <3>1
  <2>3. ASSUME NEW n \in Names, CreateTag(n)
        PROVE  \A t : Found(t) => tag'[t] = tag[t]
    BY <2>2, <2>3 DEF CreateTag, Ready
  <2>4. ASSUME NEW u \in Tags, RenameTag(u) \/ DeleteTag(u)
        PROVE  \A t : Found(t) => tag'[t] = tag[t]
    <3>1. ~Found(u)
      BY <2>4 DEF RenameTag, DeleteTag, TagWrite, Fault
    <3>2. \E r : tag' = [tag EXCEPT ![u] = r]
      BY <2>4 DEF RenameTag, DeleteTag
    <3>3. QED
      BY <2>2, <3>1, <3>2
  <2>5. QED
    BY <2>1, <2>3, <2>4 DEF Edit
<1>3. \A q \in Requests : \A n \in Names : tag'[req[q].tags[n]] = tag[req[q].tags[n]] \/ req[q].tags[n] = None
  BY <1>2 DEF Found
<1>4. QED
  BY <1>1, <1>3 DEF HoldInv, Holds, Own

LEMMA HoldInvInductive ==
  ASSUME "detach" \notin Faults
  PROVE  /\ Init => HoldInv
         /\ ReqInv /\ SeedInv /\ HoldInv /\ [Next]_vars => HoldInv'
<1>1. ASSUME Init PROVE HoldInv
  BY <1>1 DEF Init, HoldInv, Holds, IdleReq, Unresolved
<1>2. ASSUME ReqInv, SeedInv, HoldInv, [Next]_vars PROVE HoldInv'
  <2>1. CASE \E q \in Requests : SeedCommit(q)
    BY <1>2, <2>1, CommitHolds
  <2>2. CASE Edit
    BY <1>2, <2>2, EditHolds
  <2>3. CASE tag' = tag
    <3>1. CASE req' = req
      BY <1>2, <2>3, <3>1 DEF HoldInv, Holds, Own
    <3>2. CASE req' # req
      <4>1. PICK q \in Requests : \E r : NewReq(q, r) /\ req' = [req EXCEPT ![q] = r]
        BY <1>2, <3>2, OneRequest
      <4>2. QED
        BY <1>2, <2>3, <4>1, SeedHolds
    <3>3. QED
      BY <3>1, <3>2
  <2>4. ASSUME Next, ~\E q \in Requests : SeedCommit(q)
        PROVE  tag' = tag \/ Edit
    BY <2>4
    DEF Next, Serve, Retry, FirstRequest, Provision, CreateCommit, SeedSelect, SeedInsert, SeedCheck,
        Dies, CreateFound, CreateNew, CreateUnconfigured, Upload, DeleteEvent, seeding
  <2>5. QED
    BY <1>2, <2>1, <2>2, <2>3, <2>4 DEF vars
<1>3. QED
  BY <1>1, <1>2

\* What a seed commits: only SeedCommit counts a copy, and its tags fit its rows.
LEMMA CommitFits ==
  ASSUME ReqInv, SeedInv, HoldInv, [Next]_vars, seeds' # seeds, NEW i \in DOMAIN Rows
  PROVE  \E d \in demo' :
           d.copy = seeds' /\ d.row = i /\ {tag'[t].name : t \in d.tags} = Rows[i]
<1>1. PICK q \in Requests : SeedCommit(q)
  BY EditFrame
  DEF Next, vars, Serve, Retry, FirstRequest, Provision, CreateCommit, SeedSelect, SeedInsert, SeedCheck,
      Dies, CreateFound, CreateNew, CreateUnconfigured, Upload, DeleteEvent, seeding
<1> DEFINE d == [copy |-> seeds', row |-> i, tags |-> {req[q].tags[n] : n \in Rows[i]}]
<1>2. d \in demo'
  BY <1>1 DEF SeedCommit
<1>3. \A n \in Rows[i] : tag'[req[q].tags[n]].name = n
  BY <1>1, CommitNames, EventsAssumption
<1>4. {tag'[t].name : t \in d.tags} = Rows[i]
  BY <1>3
<1>5. QED
  BY <1>2, <1>4

\* No tag of the demo without a copy of the demo, wherever a seed ended, and however
\* many ran: the tags a seed has inserted wait for its one commit (demo_seed.py).
THEOREM SeedsAreAtomic == Spec => []SeedAtomic
<1>1. Init => ReqInv /\ SeedInv
  BY ReqInvInductive, SeedInvInductive
<1>2. ReqInv /\ SeedInv /\ [Next]_vars => (ReqInv /\ SeedInv)'
  BY ReqInvInductive, SeedInvInductive
<1>3. SeedInv => SeedAtomic
  BY DEF SeedInv
<1>4. QED
  BY <1>1, <1>2, <1>3, PTL DEF Spec

\* "Tags are matched by name": as long as no tag is deleted or
\* renamed between its lookup and the commit, each row of the demo is committed with
\* tags of its very names, whichever seed or request made them, and however many run.
THEOREM SeedsFit ==
  ASSUME "detach" \notin Faults
  PROVE  Spec => SeedFits
<1> DEFINE Inv == ReqInv /\ SeedInv /\ HoldInv
<1>1. Init => Inv
  BY ReqInvInductive, SeedInvInductive, HoldInvInductive
<1>2. Inv /\ [Next]_vars => Inv'
  BY ReqInvInductive, SeedInvInductive, HoldInvInductive
<1>3. Inv /\ [Next]_vars =>
        [seeds' # seeds =>
           \A i \in DOMAIN Rows : \E d \in demo' :
             d.copy = seeds' /\ d.row = i /\ {tag'[t].name : t \in d.tags} = Rows[i]]_vars
  BY CommitFits
<1>4. QED
  BY <1>1, <1>2, <1>3, PTL DEF Spec, SeedFits

\* Every variable keeps its type, and a request that has ended has left nothing.
THEOREM EventsTypeCorrect == Spec => []EventsTypes
<1> DEFINE FaultsInBudget == faults \in 0..MaxFaults
           Inv == ReqInv /\ CreateInv /\ SeedInv /\ FaultsInBudget
<1>1. Init => Inv
  <2>1. Init => FaultsInBudget
    BY EventsAssumption DEF Init
  <2>2. QED
    BY <2>1, ReqInvInductive, CreateInvInductive, SeedInvInductive
<1>2. Inv /\ [Next]_vars => Inv'
  <2>1. FaultsInBudget /\ [Next]_vars => FaultsInBudget'
    <3>1. SUFFICES ASSUME FaultsInBudget, [Next]_vars
                   PROVE  faults' = faults \/ \E kind \in FaultKinds : Fault(kind)
      BY EventsAssumption DEF Fault
    <3>2. CASE UNCHANGED vars
      BY <3>2 DEF vars
    <3>3. CASE Next
      BY <3>3
      DEF Next, Serve, Retry, FirstRequest, Provision, CreateCommit, SeedSelect, SeedInsert, SeedCheck,
          SeedCommit, Dies, CreateFound, CreateNew, CreateUnconfigured, Upload, DeleteEvent, Answered,
          Edit, DeleteDemoEvent, PatchDemo, CreateTag, RenameTag, DeleteTag, TagWrite, NoFault, FaultKinds
    <3>4. QED
      BY <3>1, <3>2, <3>3
  <2>2. QED
    BY <2>1, ReqInvInductive, CreateInvInductive, SeedInvInductive
<1>3. Inv => EventsTypes
  <2>1. SUFFICES ASSUME Inv PROVE EventsTypes
    OBVIOUS
  <2>2. recording \in SUBSET Ids /\ urls \in SUBSET Ids /\ objects \in SUBSET Ids
    BY <2>1 DEF CreateInv, RecordingsOwned, UrlsFindRows
  <2>3. seeds \in 0..MaxSeeds
    BY <2>1, FS_CardinalityType, EventsAssumption DEF SeedInv, PlacesKept
  <2>4. /\ user \in BOOLEAN /\ event \in [Ids -> EventRows]
        /\ wanted \subseteq Keys /\ got \in [Keys -> Ids \cup {None}]
    BY <2>1 DEF CreateInv, CreateTypes
  <2>5. tag \in [Tags -> TagRows] /\ demo \subseteq DemoRows
    BY <2>1 DEF SeedInv
  <2>6. req \in [Requests -> Reqs] /\ \A q \in Requests : At(q, "idle") => req[q] = IdleReq
    BY <2>1 DEF ReqInv, ReqShape
  <2>7. QED
    BY <2>1, <2>2, <2>3, <2>4, <2>5, <2>6 DEF EventsTypes, EventRows, TagRows, DemoRows, Reqs
<1>4. QED
  BY <1>1, <1>2, <1>3, PTL DEF Spec
=============================================================================
