---------------------------- MODULE Recovery_proofs ----------------------------
(***************************************************************************)
(* Theorems about Recovery, for every number of recordings, every batch    *)
(* limit and every number of failures.                                     *)
(***************************************************************************)
EXTENDS Recovery, SequenceTheorems, WellFoundedInduction, TLAPS

-----------------------------------------------------------------------------
(* Sequences without repetition *)

Rows(s) == {s[i] : i \in DOMAIN s}
Distinct(s) == \A i, j \in DOMAIN s : s[i] = s[j] => i = j

LEMMA AppendRows ==
  ASSUME NEW T, NEW s \in Seq(T), NEW x \in T
  PROVE  /\ Append(s, x) \in Seq(T) /\ Rows(Append(s, x)) = Rows(s) \cup {x}
         /\ Distinct(s) /\ x \notin Rows(s) => Distinct(Append(s, x))
<1>1. /\ Append(s, x) \in Seq(T) /\ Len(Append(s, x)) = Len(s) + 1
      /\ \A i \in 1..Len(s) : Append(s, x)[i] = s[i]
      /\ Append(s, x)[Len(s) + 1] = x
      /\ DOMAIN s = 1..Len(s) /\ DOMAIN Append(s, x) = 1..(Len(s) + 1) /\ Len(s) \in Nat
  OBVIOUS
<1>2. \A i \in 1..(Len(s) + 1) : i \in 1..Len(s) \/ i = Len(s) + 1
  BY <1>1
<1>3. Rows(Append(s, x)) = Rows(s) \cup {x}
  BY <1>1, <1>2 DEF Rows
<1>4. Distinct(s) /\ x \notin Rows(s) => Distinct(Append(s, x))
  BY <1>1, <1>2 DEF Rows, Distinct
<1>5. QED
  BY <1>1, <1>3, <1>4

LEMMA TailRows ==
  ASSUME NEW T, NEW s \in Seq(T), s # <<>>
  PROVE  /\ Head(s) \in T /\ Head(s) \in Rows(s)
         /\ Tail(s) \in Seq(T) /\ Len(Tail(s)) <= Len(s) /\ Rows(Tail(s)) \subseteq Rows(s)
         /\ Distinct(s) => Distinct(Tail(s)) /\ Head(s) \notin Rows(Tail(s))
<1>1. /\ Head(s) = s[1] /\ Tail(s) \in Seq(T) /\ Len(Tail(s)) = Len(s) - 1
      /\ \A i \in 1..Len(Tail(s)) : Tail(s)[i] = s[i + 1]
      /\ DOMAIN s = 1..Len(s) /\ DOMAIN Tail(s) = 1..Len(Tail(s)) /\ Len(s) \in Nat \ {0}
      /\ \A i \in 1..Len(s) : s[i] \in T
  OBVIOUS
<1>2. \A i \in 1..Len(Tail(s)) : i + 1 \in 1..Len(s) /\ i + 1 # 1
  BY <1>1
<1>3. Head(s) \in T /\ Head(s) \in Rows(s) /\ Rows(Tail(s)) \subseteq Rows(s)
  BY <1>1, <1>2 DEF Rows
<1>4. Distinct(s) => Distinct(Tail(s)) /\ Head(s) \notin Rows(Tail(s))
  BY <1>1, <1>2 DEF Rows, Distinct
<1>5. QED
  BY <1>1, <1>3, <1>4

LEMMA PrefixRows ==
  ASSUME NEW T, NEW s \in Seq(T), NEW n \in 0..Len(s)
  PROVE  /\ SubSeq(s, 1, n) \in Seq(T) /\ Len(SubSeq(s, 1, n)) = n
         /\ Rows(SubSeq(s, 1, n)) \subseteq Rows(s)
         /\ Distinct(s) => Distinct(SubSeq(s, 1, n))
<1> DEFINE p == SubSeq(s, 1, n)
<1>1. /\ p \in Seq(T) /\ Len(p) = n /\ DOMAIN p = 1..n /\ DOMAIN s = 1..Len(s)
      /\ \A i \in 1..n : p[i] = s[i] /\ i \in 1..Len(s)
  BY SubSeqProperties
<1> HIDE DEF p
<1>2. Rows(p) \subseteq Rows(s) /\ (Distinct(s) => Distinct(p))
  BY <1>1 DEF Rows, Distinct
<1>3. QED
  BY <1>1, <1>2 DEF p

-----------------------------------------------------------------------------
(* Filter *)

\* Every non-empty set of naturals has a least element.
LEMMA LeastNat ==
  ASSUME NEW T \in SUBSET Nat, T # {}
  PROVE  \E x \in T : \A y \in T : x <= y
<1>1. SUFFICES ASSUME NEW R, IsWellFoundedOn(R, Nat), \A x, y \in Nat : y < x => <<y, x>> \in R
               PROVE  \E x \in T : \A y \in T : x <= y
  <2>1. \A x, y \in Nat : y < x => <<y, x>> \in OpToRel(<, Nat)
    BY DEF OpToRel
  <2>2. QED
    BY <2>1, NatLessThanWellFounded, <1>1, Zenon
<1>2. PICK x \in T : \A y \in T : <<y, x>> \notin R
  BY <1>1, WFMin, Zenon
<1>3. \A y \in T : x <= y
  <2>1. SUFFICES ASSUME NEW y \in T PROVE ~(y < x)
    OBVIOUS
  <2>2. QED
    BY <1>1, <1>2
<1>4. QED
  BY <1>2, <1>3

\* Induction along a set: what is lost on the way from n - 1 to n was never had.
LEMMA NatSetInduction ==
  ASSUME NEW T, 0 \in T, \A n \in Nat : n \in T => n + 1 \in T
  PROVE  Nat \subseteq T
<1>1. SUFFICES ASSUME Nat \ T # {} PROVE FALSE
  OBVIOUS
<1>2. PICK x \in Nat \ T : \A y \in Nat \ T : x <= y
  BY <1>1, LeastNat
<1>3. x # 0 /\ x - 1 \in Nat
  BY <1>2
<1>4. x - 1 \in T
  BY <1>2, <1>3
<1>5. x \in T
  BY <1>3, <1>4
<1>6. QED
  BY <1>2, <1>5

\* One element of the filtered sequence after another.
Keeps(s, S, old, n) == IF s[n] \in S THEN Append(old, s[n]) ELSE old
Steps(s, S, g, m) == g[0] = <<>> /\ \A n \in 1..m : g[n] = Keeps(s, S, g[n - 1], n)

\* The recursive function in Filter exists, and Filter is its last value.
LEMMA FilterSteps ==
  ASSUME NEW T, NEW s \in Seq(T), NEW S
  PROVE  \E g : Steps(s, S, g, Len(s)) /\ Filter(s, S) = g[Len(s)]
<1> DEFINE Body(g) == [n \in 0..Len(s) |->
                         IF n = 0 THEN <<>>
                         ELSE IF s[n] \in S THEN Append(g[n - 1], s[n]) ELSE g[n - 1]]
           Reached == {m \in Nat : \E g : Steps(s, S, g, m)}
<1>1. 0 \in Reached
  <2>1. Steps(s, S, [n \in 0..0 |-> <<>>], 0)
    BY DEF Steps
  <2>2. QED
    BY <2>1
<1>2. \A m \in Nat : m \in Reached => m + 1 \in Reached
  <2>1. SUFFICES ASSUME NEW m \in Nat, NEW g, Steps(s, S, g, m) PROVE m + 1 \in Reached
    OBVIOUS
  <2> DEFINE h == [n \in 0..(m + 1) |-> IF n <= m THEN g[n] ELSE Keeps(s, S, g[m], m + 1)]
  <2>2. h[0] = <<>> /\ \A n \in 1..(m + 1) : h[n - 1] = g[n - 1]
    BY <2>1 DEF Steps
  <2>3. \A n \in 1..m : h[n] = g[n] /\ g[n] = Keeps(s, S, g[n - 1], n)
    BY <2>1 DEF Steps
  <2>4. h[m + 1] = Keeps(s, S, g[m], m + 1)
    OBVIOUS
  <2>5. Steps(s, S, h, m + 1)
    <3> HIDE DEF h
    <3>1. \A n \in 1..(m + 1) : n \in 1..m \/ (n = m + 1 /\ n - 1 = m)
      OBVIOUS
    <3>2. \A n \in 1..(m + 1) : h[n] = Keeps(s, S, h[n - 1], n)
      BY <2>2, <2>3, <2>4, <3>1
    <3>3. QED
      BY <2>2, <3>2 DEF Steps
  <2>6. QED
    BY <2>5
<1>3. Len(s) \in Reached
  <2> HIDE DEF Reached
  <2>1. Nat \subseteq Reached
    BY <1>1, <1>2, NatSetInduction
  <2>2. QED
    BY <2>1
<1>4. PICK g : Steps(s, S, g, Len(s))
  BY <1>3
<1>5. \E f : f = Body(f)
  <2> DEFINE f == [n \in 0..Len(s) |-> g[n]]
  <2>1. \A n \in 0..Len(s) : f[n] = Body(f)[n]
    <3>1. f[0] = Body(f)[0]
      BY <1>4 DEF Steps
    <3>2. ASSUME NEW n \in 1..Len(s) PROVE f[n] = Body(f)[n]
      <4>1. f[n] = g[n] /\ f[n - 1] = g[n - 1]
        OBVIOUS
      <4>2. QED
        BY <1>4, <4>1 DEF Steps, Keeps
    <3>3. \A n \in 0..Len(s) : n = 0 \/ n \in 1..Len(s)
      OBVIOUS
    <3> HIDE DEF f, Body
    <3>4. QED
      BY <3>1, <3>2, <3>3
  <2>2. f = Body(f)
    BY <2>1
  <2>3. QED
    BY <2>2
<1>6. PICK f : f = Body(f) /\ Filter(s, S) = f[Len(s)]
  <2>1. (CHOOSE f : f = Body(f)) = Body(CHOOSE f : f = Body(f))
    BY <1>5, Zenon
  <2>2. Filter(s, S) = (CHOOSE f : f = Body(f))[Len(s)]
    BY Zenon DEF Filter
  <2>3. QED
    BY <2>1, <2>2, Zenon
<1>7. Steps(s, S, f, Len(s))
  <2>1. f[0] = <<>>
    BY <1>6
  <2>2. ASSUME NEW n \in 1..Len(s) PROVE f[n] = Keeps(s, S, f[n - 1], n)
    <3>1. n \in 0..Len(s) /\ n # 0
      OBVIOUS
    <3>2. QED
      BY <1>6, <3>1 DEF Keeps
  <2>3. QED
    BY <2>1, <2>2 DEF Steps
<1>8. QED
  BY <1>6, <1>7

\* The rows of a filtered sequence are the ones of the set, none of them twice.
LEMMA FilterRows ==
  ASSUME NEW T, NEW s \in Seq(T), NEW S
  PROVE  /\ Filter(s, S) \in Seq(T) /\ Rows(Filter(s, S)) = Rows(s) \cap S
         /\ Distinct(s) => Distinct(Filter(s, S))
<1>1. PICK g : Steps(s, S, g, Len(s)) /\ Filter(s, S) = g[Len(s)]
  BY FilterSteps
<1> DEFINE Good(n) == /\ g[n] \in Seq(T) /\ Rows(g[n]) = {s[i] : i \in 1..n} \cap S
                      /\ Distinct(s) => Distinct(g[n])
           Sound == {n \in Nat : n <= Len(s) => Good(n)}
<1>2. 0 \in Sound
  <2>1. g[0] = <<>>
    BY <1>1 DEF Steps
  <2>2. Rows(<<>>) = {} /\ Distinct(<<>>) /\ 1..0 = {}
    BY DEF Rows, Distinct
  <2>3. Good(0)
    BY <2>1, <2>2
  <2> HIDE DEF Good
  <2>4. QED
    BY <2>3
<1>3. ASSUME NEW n \in Nat, n \in Sound PROVE n + 1 \in Sound
  <2>1. SUFFICES ASSUME n + 1 <= Len(s) PROVE Good(n + 1)
    OBVIOUS
  <2>2. Good(n) /\ n + 1 \in 1..Len(s) /\ n + 1 \in DOMAIN s /\ s[n + 1] \in T
    BY <1>3, <2>1
  <2>3. g[n + 1] = Keeps(s, S, g[n], n + 1)
    BY <1>1, <2>2 DEF Steps
  <2>4. {s[i] : i \in 1..(n + 1)} = {s[i] : i \in 1..n} \cup {s[n + 1]}
    <3>1. 1..(n + 1) = 1..n \cup {n + 1}
      OBVIOUS
    <3>2. QED
      BY <3>1
  <2>5. CASE s[n + 1] \notin S
    BY <2>2, <2>3, <2>4, <2>5 DEF Keeps
  <2>6. CASE s[n + 1] \in S
    <3>1. g[n + 1] = Append(g[n], s[n + 1])
      BY <2>3, <2>6 DEF Keeps
    <3>2. Distinct(s) => s[n + 1] \notin Rows(g[n])
      <4>1. \A i \in 1..n : i \in DOMAIN s /\ i # n + 1
        BY <2>2
      <4>2. QED
        BY <2>2, <4>1 DEF Distinct
    <3>3. QED
      BY <2>2, <2>4, <2>6, <3>1, <3>2, AppendRows
  <2>7. QED
    BY <2>5, <2>6
<1>4. Good(Len(s))
  <2> HIDE DEF Sound
  <2>1. Nat \subseteq Sound
    BY <1>2, <1>3, NatSetInduction
  <2>2. Len(s) \in Sound
    BY <2>1
  <2> HIDE DEF Good
  <2>3. QED
    BY <2>2 DEF Sound
<1>5. {s[i] : i \in 1..Len(s)} = Rows(s)
  BY DEF Rows
<1>6. QED
  BY <1>1, <1>4, <1>5

-----------------------------------------------------------------------------
(* The order of updated_at *)

Undecided == {"pending", "transcribing"}

\* The order has each row that is not decided once, and only such a row is stale.
OrderInv ==
  /\ row \in [Recordings -> Undecided \cup {"none", "decided"}]
  /\ order \in Seq(Recordings) /\ Distinct(order)
  /\ Rows(order) = {r \in Recordings : row[r] \in Undecided}
  /\ stale \subseteq Rows(order)

\* The box, the tasks and the budget of failures.
BoxInv ==
  /\ job \in [Recordings -> {"none", "queued", "ready"}]
  /\ task \subseteq Recordings /\ faults \in 0..MaxFaults

LEMMA StampKeepsOrder ==
  ASSUME OrderInv, NEW r \in Recordings, NEW state \in Undecided, Stamp(r, state)
  PROVE  OrderInv' /\ stale' \subseteq stale /\ r \notin stale'
<1>1. /\ Without(r) \in Seq(Recordings) /\ Distinct(Without(r))
      /\ Rows(Without(r)) = Rows(order) \ {r}
  <2>1. /\ Without(r) \in Seq(Recordings) /\ Distinct(Without(r))
        /\ Rows(Without(r)) = Rows(order) \cap (Recordings \ {r})
    BY FilterRows DEF OrderInv, Without
  <2>2. QED
    BY <2>1 DEF OrderInv
<1>2. order' = Append(Without(r), r) /\ stale' = stale \ {r} /\ row' = [row EXCEPT ![r] = state]
  BY DEF Stamp
<1>3. order' \in Seq(Recordings) /\ Distinct(order') /\ Rows(order') = Rows(order) \cup {r}
  BY <1>1, <1>2, AppendRows
<1>4. Rows(order)' = Rows(order') /\ Distinct(order)' = Distinct(order')
  BY DEF Rows, Distinct
<1>5. Rows(order') = {q \in Recordings : row'[q] \in Undecided}
  BY <1>2, <1>3 DEF OrderInv
<1>6. QED
  BY <1>2, <1>3, <1>4, <1>5 DEF OrderInv

LEMMA CollectKeepsOrder ==
  ASSUME OrderInv, BoxInv, Collect
  PROVE  OrderInv' /\ stale' \subseteq stale /\ BoxInv'
<1>1. PICK kept \in SUBSET {r \in Recordings : job[r] = "ready" /\ r \notin Unfit} :
        /\ NoFault \/ Fault("db_error")
        /\ LET stored == {r \in Recordings \ (Unfit \cup kept) : job[r] = "ready"}
           IN  /\ row' = [r \in Recordings |-> IF r \in stored THEN "decided" ELSE row[r]]
               /\ job' = [r \in Recordings |-> IF r \in stored THEN "none" ELSE job[r]]
               /\ order' = Filter(order, Recordings \ stored)
               /\ stale' = stale \ stored
  BY DEF Collect
<1> DEFINE stored == {r \in Recordings \ (Unfit \cup kept) : job[r] = "ready"}
<1>2. /\ order' \in Seq(Recordings) /\ Distinct(order')
      /\ Rows(order') = Rows(order) \cap (Recordings \ stored)
  BY <1>1, FilterRows DEF OrderInv
<1>3. Rows(order)' = Rows(order') /\ Distinct(order)' = Distinct(order')
  BY DEF Rows, Distinct
<1>4. row' \in [Recordings -> Undecided \cup {"none", "decided"}]
  BY <1>1 DEF OrderInv
<1>5. Rows(order') = {r \in Recordings : row'[r] \in Undecided}
  <2>1. \A r \in Recordings : row'[r] \in Undecided <=> row[r] \in Undecided /\ r \notin stored
    BY <1>1 DEF Undecided
  <2>2. QED
    BY <1>2, <2>1 DEF OrderInv
<1>6. OrderInv' /\ stale' \subseteq stale
  BY <1>1, <1>2, <1>3, <1>4, <1>5 DEF OrderInv
<1>7. BoxInv'
  BY <1>1, RecoveryAssumption DEF BoxInv, Collect, NoFault, Fault
<1>8. QED
  BY <1>6, <1>7

\* Time makes rows stale that are in the order, and only between sweeps.
LEMMA AgeKeepsOrder ==
  ASSUME OrderInv, NEW r \in Recordings, Age(r)
  PROVE  OrderInv' /\ sweep.pc = "idle"
<1>1. r \in Rows(order) /\ UNCHANGED <<row, order>> /\ stale' = stale \cup {r} /\ sweep.pc = "idle"
  BY DEF Age, Rows
<1>2. QED
  BY <1>1 DEF OrderInv, Rows, Distinct

-----------------------------------------------------------------------------
(* The batches of a sweep *)

\* No row is in a batch, or enqueued by one sweep, twice; none of the batch has been
\* enqueued, and while the first half runs, what it has put back is not stale.
SweepOk(w, old) ==
  /\ w \in [pc : {"idle", "stuck", "check", "redrive"},
            batch : Seq(Recordings), sent : Seq(Recordings)]
  /\ Len(w.batch) <= BatchLimit
  /\ Distinct(w.batch) /\ Distinct(w.sent)
  /\ Rows(w.batch) \cap Rows(w.sent) = {}
  /\ w.pc \in {"idle", "stuck"} => w.batch = <<>> /\ w.sent = <<>>
  /\ w.pc = "check" => Rows(w.sent) \cap old = {}
SweepInv == SweepOk(sweep, stale)

LEMMA OldestRows ==
  ASSUME OrderInv, NEW state
  PROVE  /\ Oldest(state) \in Seq(Recordings) /\ Len(Oldest(state)) <= BatchLimit
         /\ Distinct(Oldest(state)) /\ Rows(Oldest(state)) \subseteq stale
<1>1. /\ Found(state) \in Seq(Recordings) /\ Distinct(Found(state))
      /\ Rows(Found(state)) \subseteq stale
  <2> DEFINE S == {r \in stale : row[r] = state}
  <2>1. /\ Filter(order, S) \in Seq(Recordings) /\ Distinct(Filter(order, S))
        /\ Rows(Filter(order, S)) = Rows(order) \cap S
    BY FilterRows DEF OrderInv
  <2>2. QED
    BY <2>1 DEF Found
<1> DEFINE n == IF Len(Found(state)) < BatchLimit THEN Len(Found(state)) ELSE BatchLimit
<1>2. n \in 0..Len(Found(state)) /\ n <= BatchLimit
  BY <1>1, RecoveryAssumption
<1>3. Oldest(state) = SubSeq(Found(state), 1, n)
  BY DEF Oldest
<1> HIDE DEF n
<1>4. QED
  BY <1>1, <1>2, <1>3, PrefixRows

\* A row of the batch is dealt with, and enqueued or not.
LEMMA BatchMoves ==
  ASSUME SweepInv, sweep.batch # <<>>, stale' \subseteq stale,
         \/ sweep' = [sweep EXCEPT !.batch = Tail(@)]
         \/ /\ sweep' = [sweep EXCEPT !.batch = Tail(@), !.sent = Append(@, Head(sweep.batch))]
            /\ sweep.pc = "check" => Head(sweep.batch) \notin stale'
  PROVE  SweepInv'
<1> DEFINE b == sweep.batch  s == sweep.sent  h == Head(sweep.batch)
<1>1. b \in Seq(Recordings) /\ s \in Seq(Recordings) /\ sweep'.pc = sweep.pc /\ sweep'.batch = Tail(b)
  BY DEF SweepInv, SweepOk
<1>2. /\ h \in Recordings /\ h \in Rows(b)
      /\ Tail(b) \in Seq(Recordings) /\ Len(Tail(b)) <= Len(b) /\ Rows(Tail(b)) \subseteq Rows(b)
      /\ Distinct(Tail(b)) /\ h \notin Rows(Tail(b))
  BY <1>1, TailRows DEF SweepInv, SweepOk
<1>3. Len(Tail(b)) <= BatchLimit
  BY <1>1, <1>2, RecoveryAssumption DEF SweepInv, SweepOk
<1>4. sweep.pc \notin {"idle", "stuck"}
  BY DEF SweepInv, SweepOk
<1>5. \/ sweep'.sent = s
      \/ /\ sweep'.sent = Append(s, h)
         /\ sweep.pc = "check" => h \notin stale'
  BY DEF SweepInv, SweepOk
<1>6. /\ sweep'.sent \in Seq(Recordings) /\ Distinct(sweep'.sent)
      /\ Rows(sweep'.batch) \cap Rows(sweep'.sent) = {}
      /\ sweep.pc = "check" => Rows(sweep'.sent) \cap stale' = {}
  <2>1. CASE sweep'.sent = s
    BY <1>1, <1>2, <2>1 DEF SweepInv, SweepOk
  <2>2. CASE sweep'.sent = Append(s, h) /\ (sweep.pc = "check" => h \notin stale')
    <3>1. /\ Append(s, h) \in Seq(Recordings) /\ Rows(Append(s, h)) = Rows(s) \cup {h}
          /\ Distinct(Append(s, h))
      <4>1. h \notin Rows(s) /\ Distinct(s)
        BY <1>2 DEF SweepInv, SweepOk
      <4>2. QED
        BY <1>1, <1>2, <4>1, AppendRows
    <3>2. QED
      BY <1>1, <1>2, <2>2, <3>1 DEF SweepInv, SweepOk
  <2>3. QED
    BY <1>5, <2>1, <2>2
<1>7. sweep' \in [pc : {"idle", "stuck", "check", "redrive"},
                  batch : Seq(Recordings), sent : Seq(Recordings)]
  BY <1>1, <1>2, <1>6 DEF SweepInv, SweepOk
<1>8. QED
  BY <1>1, <1>2, <1>3, <1>4, <1>6, <1>7 DEF SweepInv, SweepOk

LEMMA RowSteps ==
  ASSUME OrderInv, BoxInv, NEW r \in Recordings,
         Record(r) \/ Submit(r) \/ SubmitRefused(r) \/ SubmitDies(r) \/ TaskNoop(r)
         \/ BoxFinishes(r) \/ BoxForgets(r)
  PROVE  OrderInv' /\ BoxInv' /\ stale' \subseteq stale /\ sweep' = sweep
<1>1. CASE Record(r) \/ Submit(r) \/ SubmitRefused(r) \/ SubmitDies(r)
  <2>1. PICK state \in Undecided : Stamp(r, state)
    BY <1>1 DEF Record, Submit, SubmitRefused, SubmitDies, Undecided
  <2>2. BoxInv' /\ sweep' = sweep
    BY <1>1, RecoveryAssumption DEF Record, Submit, SubmitRefused, SubmitDies, BoxInv, Fault, NoFault
  <2>3. QED
    BY <2>1, <2>2, StampKeepsOrder
<1>2. CASE TaskNoop(r) \/ BoxFinishes(r) \/ BoxForgets(r)
  <2>1. UNCHANGED <<row, order, stale, sweep>>
    BY <1>2 DEF TaskNoop, BoxFinishes, BoxForgets
  <2>2. BoxInv'
    BY <1>2, RecoveryAssumption DEF TaskNoop, BoxFinishes, BoxForgets, BoxInv, Fault, NoFault
  <2>3. QED
    BY <2>1, <2>2 DEF OrderInv, Rows, Distinct
<1>3. QED
  BY <1>1, <1>2

LEMMA SweepSteps ==
  ASSUME OrderInv, BoxInv, SweepInv, Sweep
  PROVE  OrderInv' /\ BoxInv' /\ SweepInv'
<1>1. CASE Collect
  <2>1. sweep.pc = "idle" /\ sweep' = [NoSweep EXCEPT !.pc = "stuck"]
    BY <1>1 DEF Collect
  <2>2. sweep' = [pc |-> "stuck", batch |-> <<>>, sent |-> <<>>]
    BY <2>1 DEF NoSweep
  <2>3. SweepInv'
    BY <2>2, RecoveryAssumption DEF SweepInv, SweepOk, Rows, Distinct
  <2>4. QED
    BY <1>1, <2>3, CollectKeepsOrder
<1>2. CASE SelectStuck \/ SelectPending
  <2>1. UNCHANGED <<row, order, stale, job, task, faults>>
    BY <1>2 DEF SelectStuck, SelectPending, NoFault
  <2>2. ASSUME NEW state, NEW pc \in {"check", "redrive"},
               sweep' = [sweep EXCEPT !.pc = pc, !.batch = Oldest(state)],
               \/ pc = "check" /\ sweep.pc = "stuck"
               \/ pc = "redrive" /\ sweep.pc = "check"
        PROVE  SweepInv'
    <3>1. sweep'.pc = pc /\ sweep'.batch = Oldest(state) /\ sweep'.sent = sweep.sent
      BY <2>2 DEF SweepInv, SweepOk
    <3>2. /\ Oldest(state) \in Seq(Recordings) /\ Len(Oldest(state)) <= BatchLimit
          /\ Distinct(Oldest(state)) /\ Rows(Oldest(state)) \subseteq stale
      BY OldestRows
    <3>3. Rows(sweep.sent) \cap stale = {}
      <4>1. Rows(<<>>) = {}
        BY DEF Rows
      <4>2. QED
        BY <2>2, <4>1 DEF SweepInv, SweepOk
    <3>4. sweep' \in [pc : {"idle", "stuck", "check", "redrive"},
                      batch : Seq(Recordings), sent : Seq(Recordings)]
      BY <2>2, <3>2 DEF SweepInv, SweepOk
    <3>5. QED
      BY <2>1, <2>2, <3>1, <3>2, <3>3, <3>4 DEF SweepInv, SweepOk
  <2>3. SweepInv'
    BY <1>2, <2>2 DEF SelectStuck, SelectPending
  <2>4. QED
    BY <2>1, <2>3 DEF OrderInv, BoxInv, Rows, Distinct
<1>3. CASE HasJob
  <2>1. SweepInv'
    BY <1>3, BatchMoves DEF HasJob
  <2>2. QED
    BY <1>3, <2>1, RecoveryAssumption DEF HasJob, OrderInv, Rows, Distinct, BoxInv, Fault, NoFault
<1>4. CASE Requeue
  <2> DEFINE h == Head(sweep.batch)
  <2>1. h \in Recordings
    BY <1>4, TailRows DEF Requeue, SweepInv, SweepOk
  <2>2. Stamp(h, "pending") /\ Enqueues(h) /\ UNCHANGED job
    BY <1>4 DEF Requeue
  <2>3. OrderInv' /\ stale' \subseteq stale /\ h \notin stale'
    BY <2>1, <2>2, StampKeepsOrder DEF Undecided
  <2>4. BoxInv'
    BY <2>1, <2>2, RecoveryAssumption DEF Enqueues, BoxInv, Fault, NoFault
  <2>5. SweepInv'
    BY <1>4, <2>3, BatchMoves DEF Requeue
  <2>6. QED
    BY <2>3, <2>4, <2>5
<1>5. CASE Redrive
  <2> DEFINE h == Head(sweep.batch)
  <2>1. h \in Recordings
    BY <1>5, TailRows DEF Redrive, SweepInv, SweepOk
  <2>2. Enqueues(h) /\ UNCHANGED <<row, order, stale, job>>
    BY <1>5 DEF Redrive
  <2>3. BoxInv'
    BY <2>1, <2>2, RecoveryAssumption DEF Enqueues, BoxInv, Fault, NoFault
  <2>4. SweepInv'
    BY <1>5, <2>2, BatchMoves DEF Redrive
  <2>5. QED
    BY <2>2, <2>3, <2>4 DEF OrderInv, Rows, Distinct
<1>6. CASE Swept
  <2>1. sweep' = [pc |-> "idle", batch |-> <<>>, sent |-> <<>>]
    BY <1>6 DEF Swept, NoSweep
  <2>2. SweepInv'
    BY <2>1, RecoveryAssumption DEF SweepInv, SweepOk, Rows, Distinct
  <2>3. QED
    BY <1>6, <2>2 DEF Swept, OrderInv, Rows, Distinct, BoxInv, NoFault
<1>7. QED
  BY <1>1, <1>2, <1>3, <1>4, <1>5, <1>6 DEF Sweep

RecoveryInv == OrderInv /\ BoxInv /\ SweepInv

LEMMA RecoveryInvInductive ==
  /\ Init => RecoveryInv
  /\ RecoveryInv /\ [Next]_vars => RecoveryInv'
<1>1. ASSUME Init PROVE RecoveryInv
  <2>1. OrderInv /\ BoxInv
    BY <1>1, RecoveryAssumption DEF Init, OrderInv, BoxInv, Rows, Distinct, Undecided
  <2>2. SweepInv
    BY <1>1, RecoveryAssumption DEF Init, NoSweep, SweepInv, SweepOk, Rows, Distinct
  <2>3. QED
    BY <2>1, <2>2 DEF RecoveryInv
<1>2. ASSUME RecoveryInv, [Next]_vars PROVE RecoveryInv'
  <2> USE <1>2 DEF RecoveryInv
  <2>1. CASE UNCHANGED vars
    BY <2>1 DEF vars, OrderInv, BoxInv, SweepInv, Rows, Distinct
  <2>2. CASE Sweep
    BY <2>2, SweepSteps
  <2>3. ASSUME NEW r \in Recordings,
               Record(r) \/ Worker(r) \/ SubmitRefused(r) \/ SubmitDies(r)
               \/ BoxFinishes(r) \/ BoxForgets(r)
        PROVE  RecoveryInv'
    <3>1. OrderInv' /\ BoxInv' /\ stale' \subseteq stale /\ sweep' = sweep
      BY <2>3, RowSteps DEF Worker
    <3>2. SweepInv'
      BY <3>1 DEF SweepInv, SweepOk
    <3>3. QED
      BY <3>1, <3>2
  <2>4. ASSUME NEW r \in Recordings, Age(r)
        PROVE  RecoveryInv'
    <3>1. OrderInv' /\ sweep.pc = "idle"
      BY <2>4, AgeKeepsOrder
    <3>2. sweep' = sweep /\ BoxInv'
      BY <2>4 DEF Age, BoxInv, NoFault
    <3>3. SweepInv'
      BY <3>1, <3>2 DEF SweepInv, SweepOk
    <3>4. QED
      BY <3>1, <3>2, <3>3
  <2>5. QED
    BY <2>1, <2>2, <2>3, <2>4 DEF Next
<1>3. QED
  BY <1>1, <1>2

\* Every variable keeps its type; whatever workers, sweeps and results do to it, the
\* order of updated_at has each undecided row once, only such rows are stale, and no
\* batch passes the limit.
THEOREM RecoveryTypeCorrect == Spec => []RecoveryTypes
<1>1. RecoveryInv => RecoveryTypes
  <2>1. SUFFICES ASSUME RecoveryInv PROVE RecoveryTypes
    OBVIOUS
  <2>2. row \in [Recordings -> {"none", "pending", "transcribing", "decided"}]
    BY <2>1 DEF RecoveryInv, OrderInv, Undecided
  <2>3. \A r \in Recordings :
          (row[r] \in {"pending", "transcribing"}) <=> \E i \in DOMAIN order : order[i] = r
    BY <2>1 DEF RecoveryInv, OrderInv, Rows, Undecided
  <2>4. (\A i, j \in DOMAIN order : order[i] = order[j] => i = j)
        /\ stale \subseteq {order[i] : i \in DOMAIN order}
    BY <2>1 DEF RecoveryInv, OrderInv, Rows, Distinct
  <2>5. QED
    BY <2>1, <2>2, <2>3, <2>4 DEF RecoveryTypes, RecoveryInv, BoxInv, SweepInv, SweepOk
<1>2. QED
  BY <1>1, RecoveryInvInductive, PTL DEF Spec

\* A sweep enqueues no row twice: the first half stamps what it puts back, so that the
\* cutoff of the second half does not find it, and nothing gets stale in between.
THEOREM SweepOnce == Spec => []OncePerSweep
<1>1. RecoveryInv => OncePerSweep
  BY DEF RecoveryInv, SweepInv, SweepOk, Distinct, OncePerSweep
<1>2. QED
  BY <1>1, RecoveryInvInductive, PTL DEF Spec
=============================================================================
