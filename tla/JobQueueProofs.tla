--------------------------- MODULE JobQueueProofs ---------------------------
(***************************************************************************)
(* Theorems of JobQueue for every set of rows, workers and processes.      *)
(***************************************************************************)
EXTENDS JobQueue, FiniteSetTheorems, TLAPS

\* The runs of a job are finitely many, and so are those that become overdue.
LEMMA RunnersAre ==
  ASSUME NEW j
  PROVE  IsFiniteSet(Runners(j)) /\ Cardinality(Runners(j)) \in Nat
BY JobQueueAssumption, FS_Subset, FS_CardinalityType DEF Runners

LEMMA OverdueIs ==
  ASSUME NEW j
  PROVE  IsFiniteSet(Overdue(j)) /\ Cardinality(Overdue(j)) \in Nat
<1>1. Overdue(j) \in SUBSET Runners(j)
  BY DEF Overdue
<1> QED
  BY <1>1, RunnersAre, FS_Subset, FS_CardinalityType

\* Every variable stays in its type (the columns of the jobs table and the
\* claims of the workers).
THEOREM TypeCorrect == Spec => []TypeOK
<1>1. Init => TypeOK
  BY JobQueueAssumption DEF Init, TypeOK, Statuses, Results
<1>2. TypeOK /\ [Next]_vars => TypeOK'
  <2> SUFFICES ASSUME TypeOK, [Next]_vars PROVE TypeOK'
    OBVIOUS
  <2> USE JobQueueAssumption
      DEF TypeOK, Statuses, Results, Terminal, rowVars, workerVars, Release, Put
  <2>1. ASSUME NEW j \in Job, NEW k \in Key \cup {NoKey}, NEW d \in FirstDelays,
               Enqueue(j, k, d)
        PROVE  TypeOK'
    BY <2>1 DEF Enqueue
  <2>2. ASSUME NEW w \in Worker, NEW j \in Job, Claim(w, j)
        PROVE  TypeOK'
    BY <2>2 DEF Claim
  <2>3. ASSUME NEW w \in Worker, NEW r \in {"ok", "err"}, Finish(w, r)
        PROVE  TypeOK'
    BY <2>3 DEF Finish
  <2>4. ASSUME NEW w \in Worker, MarkDone(w)
        PROVE  TypeOK'
    BY <2>4 DEF MarkDone, Busy
  <2>5. ASSUME NEW w \in Worker, Fail(w)
        PROVE  TypeOK'
    BY <2>5 DEF Fail, Busy
  <2>6. ASSUME NEW w \in Worker, LoseOutcome(w)
        PROVE  TypeOK'
    BY <2>6 DEF LoseOutcome, Busy
  <2>7. ASSUME NEW w \in Worker, NEW d \in RetryDelays, Retry(w, d)
        PROVE  TypeOK'
    BY <2>7 DEF Retry, Busy
  <2>8. ASSUME NEW p \in Proc, Crash(p)
        PROVE  TypeOK'
    BY <2>8 DEF Crash
  <2>9. ASSUME NEW p \in Proc, Start(p)
        PROVE  TypeOK'
    BY <2>9 DEF Start, RequeueStale, Stale
  <2>10. CASE StaleSweep
    BY <2>10 DEF StaleSweep, RequeueStale, Stale
  <2>11. CASE Tick
    <3>1. \A j \in Job : Cardinality(Overdue(j)) \in Nat
      BY OverdueIs
    <3>2. overran' \in [Job -> Nat]
      BY <2>11, <3>1 DEF Tick
    <3>3. held' \in [Worker -> 0 .. StaleAfter + 1]
      BY <2>11 DEF Tick, Busy
    <3>4. age' \in [Job -> 0 .. StaleAfter + 1]
      BY <2>11 DEF Tick
    <3> QED
      BY <2>11, <3>2, <3>3, <3>4 DEF Tick
  <2>12. CASE UNCHANGED vars
    BY <2>12 DEF vars
  <2> QED
    BY <2>1, <2>2, <2>3, <2>4, <2>5, <2>6, <2>7, <2>8, <2>9, <2>10, <2>11, <2>12
    DEF Next
<1> QED
  BY <1>1, <1>2, PTL DEF Spec

-----------------------------------------------------------------------------
(* One live row per dedupe key *)

\* At most one pending or running row per dedupe key: every write that makes
\* a row live is subject to the index (Enqueue, retry), and the others only
\* move a row that is live already (the claim, RequeueStale).
THEOREM OneLiveRow == Spec => []DedupeLive
<1>1. Init => DedupeLive
  BY DEF Init, DedupeLive, IsLive
<1>2. TypeOK /\ DedupeLive /\ [Next]_vars => DedupeLive'
  <2> SUFFICES ASSUME TypeOK, DedupeLive, [Next]_vars PROVE DedupeLive'
    OBVIOUS
  <2> USE DEF TypeOK, DedupeLive, IsLive
  <2>1. ASSUME NEW j \in Job, NEW k \in Key \cup {NoKey}, NEW d \in FirstDelays,
               Enqueue(j, k, d)
        PROVE  DedupeLive'
    BY <2>1 DEF Enqueue, DedupeConflict
  <2>2. ASSUME NEW w \in Worker, NEW j \in Job, Claim(w, j)
        PROVE  DedupeLive'
    BY <2>2 DEF Claim, Eligible
  <2>3. ASSUME NEW w \in Worker, MarkDone(w) \/ Fail(w)
        PROVE  DedupeLive'
    BY <2>3 DEF MarkDone, Fail, Put, Busy
  <2>4. ASSUME NEW w \in Worker, NEW d \in RetryDelays, Retry(w, d)
        PROVE  DedupeLive'
    BY <2>4 DEF Retry, Put, DedupeConflict, Busy
  <2>5. ASSUME NEW p \in Proc, Start(p)
        PROVE  DedupeLive'
    BY <2>5 DEF Start, RequeueStale, Stale
  <2>6. CASE StaleSweep
    BY <2>6 DEF StaleSweep, RequeueStale, Stale
  <2>7. ASSUME UNCHANGED <<status, key>>
        PROVE  DedupeLive'
    BY <2>7
  <2> QED
    BY <2>1, <2>2, <2>3, <2>4, <2>5, <2>6, <2>7
    DEF Next, Finish, LoseOutcome, Crash, Tick, vars, rowVars
<1> QED
  BY <1>1, <1>2, TypeCorrect, PTL DEF Spec

-----------------------------------------------------------------------------
(* Giving a job up *)

\* What a worker remembers of its job stays true of the row: the row has had
\* at least the attempt the worker is on, and its kind does not change.
ClaimInv ==
  \A w \in Worker : Busy(w) =>
    /\ attempt[w] <= attempts[job[w]]
    /\ result[w] = "nohandler" => kind[job[w]] \notin Registered

\* No step breaks what the workers remember, nor gives a job up early.
LEMMA Claims == Spec => [](ClaimInv /\ FailedOnlyExhausted)
<1> DEFINE IInv == ClaimInv /\ FailedOnlyExhausted
<1>1. Init => IInv
  BY DEF Init, ClaimInv, FailedOnlyExhausted, Busy
<1>2. TypeOK /\ IInv /\ [Next]_vars => IInv'
  <2> SUFFICES ASSUME TypeOK, IInv, [Next]_vars PROVE IInv'
    OBVIOUS
  <2> USE JobQueueAssumption
      DEF TypeOK, ClaimInv, FailedOnlyExhausted, Busy, rowVars, workerVars
  <2>1. ASSUME NEW j \in Job, NEW k \in Key \cup {NoKey}, NEW d \in FirstDelays,
               Enqueue(j, k, d)
        PROVE  IInv'
    BY <2>1 DEF Enqueue
  <2>2. ASSUME NEW w \in Worker, NEW j \in Job, Claim(w, j)
        PROVE  IInv'
    BY <2>2 DEF Claim, Eligible
  <2>3. ASSUME NEW w \in Worker, NEW r \in {"ok", "err"}, Finish(w, r)
        PROVE  IInv'
    BY <2>3 DEF Finish
  <2>4. ASSUME NEW w \in Worker, MarkDone(w)
        PROVE  IInv'
    BY <2>4 DEF MarkDone, Put, Release
  <2>5. ASSUME NEW w \in Worker, Fail(w)
        PROVE  IInv'
    BY <2>5 DEF Fail, Put, Release
  <2>6. ASSUME NEW w \in Worker, LoseOutcome(w)
        PROVE  IInv'
    BY <2>6 DEF LoseOutcome, Release
  <2>7. ASSUME NEW w \in Worker, NEW d \in RetryDelays, Retry(w, d)
        PROVE  IInv'
    BY <2>7 DEF Retry, Put, Release
  <2>8. ASSUME NEW p \in Proc, Crash(p)
        PROVE  IInv'
    BY <2>8 DEF Crash
  <2>9. ASSUME NEW p \in Proc, Start(p)
        PROVE  IInv'
    BY <2>9 DEF Start, RequeueStale, Stale
  <2>10. CASE StaleSweep
    BY <2>10 DEF StaleSweep, RequeueStale, Stale
  <2>11. CASE Tick
    BY <2>11 DEF Tick
  <2>12. CASE UNCHANGED vars
    BY <2>12 DEF vars
  <2> QED
    BY <2>1, <2>2, <2>3, <2>4, <2>5, <2>6, <2>7, <2>8, <2>9, <2>10, <2>11, <2>12
    DEF Next
<1> QED
  BY <1>1, <1>2, TypeCorrect, PTL DEF Spec

\* A job with a handler fails only after max_attempts claims, even when the
\* write comes from a worker that lost its claim.
THEOREM GivenUpLate == Spec => []FailedOnlyExhausted
BY Claims, PTL

-----------------------------------------------------------------------------
(* The lease *)

\* The worker that locked the row still runs it, and within staleThreshold.
InTime(j) ==
  /\ status[j] = "running"
  /\ job[locked_by[j]] = j
  /\ held[locked_by[j]] <= StaleAfter

\* A lock is no older than the claim of its worker, so that what the sweep takes
\* from a worker that still runs the job has overrun.  Beside the one run that the
\* lock accounts for while it is in time, there are no more than have overrun.
Slots(j) ==
  /\ status[j] = "none" => Runners(j) = {}
  /\ status[j] = "running" =>
       /\ locked_by[j] \in Worker
       /\ job[locked_by[j]] = j => age[j] <= held[locked_by[j]]
  /\ Cardinality(Runners(j)) <= 1 + overran[j]
  /\ ~ InTime(j) => Cardinality(Runners(j)) <= overran[j]

SlotInv == \A j \in Job : Slots(j)

\* Fewer workers run j after a step: at most as many, and fewer if one left.
LEMMA Leaving ==
  ASSUME NEW j, Runners(j)' \subseteq Runners(j)
  PROVE  /\ Cardinality(Runners(j)') \in Nat
         /\ Cardinality(Runners(j)') <= Cardinality(Runners(j))
         /\ \A w \in Runners(j) \ Runners(j)' :
              Cardinality(Runners(j)') + 1 <= Cardinality(Runners(j))
<1> DEFINE before == Runners(j)
           after == Runners(j)'
<1>1. IsFiniteSet(before) /\ Cardinality(before) \in Nat /\ after \in SUBSET before
  BY RunnersAre
<1> HIDE DEF before, after
<1>2. IsFiniteSet(after) /\ Cardinality(after) \in Nat /\ Cardinality(after) <= Cardinality(before)
  BY <1>1, FS_Subset, FS_CardinalityType
<1>3. Cardinality(after) = Cardinality(before) => after = before
  BY <1>1, FS_Subset
<1>4. \A w \in before \ after : Cardinality(after) + 1 <= Cardinality(before)
  BY <1>1, <1>2, <1>3
<1> QED
  BY <1>2, <1>4 DEF before, after

\* A step that leaves a row alone, and lets no worker begin it, keeps its slots.
LEMMA OtherRow ==
  ASSUME TypeOK, NEW j \in Job, Slots(j),
         status'[j] = status[j], age'[j] = age[j], locked_by'[j] = locked_by[j],
         overran'[j] = overran[j],
         \A w \in Worker : job'[w] = j => job[w] = j /\ held'[w] = held[w]
  PROVE  Slots(j)'
<1>1. Runners(j)' \subseteq Runners(j)
  BY DEF Runners
<1>2. /\ Cardinality(Runners(j)) \in Nat /\ overran[j] \in Nat
      /\ Cardinality(Runners(j)') \in Nat
      /\ Cardinality(Runners(j)') <= Cardinality(Runners(j))
  BY <1>1, Leaving, RunnersAre DEF TypeOK
<1>3. status[j] = "none" => Runners(j)' = {}
  BY <1>1 DEF Slots
<1>4. status[j] = "running" =>
        /\ locked_by[j] \in Worker
        /\ job'[locked_by[j]] = j => age[j] <= held'[locked_by[j]]
  BY DEF Slots
<1>5. ASSUME ~ InTime(j)' PROVE Cardinality(Runners(j)') <= overran[j]
  <2>1. CASE ~ InTime(j)
    BY <1>2, <2>1 DEF Slots
  <2>2. CASE InTime(j)
    <3>1. locked_by[j] \in Worker
      BY <2>2 DEF InTime, Slots
    <3>2. locked_by[j] \in Runners(j) \ Runners(j)'
      BY <1>5, <2>2, <3>1 DEF InTime, Runners
    <3> QED
      BY <1>1, <1>2, <3>2, Leaving DEF Slots
  <2> QED
    BY <2>1, <2>2
<1> QED
  BY <1>2, <1>3, <1>4, <1>5 DEF Slots

\* A worker that leaves its job and puts the row into another state.
LEMMA OutcomeRow ==
  ASSUME TypeOK, NEW w \in Worker, NEW j \in Job, job[w] = j, Slots(j),
         status'[j] \in {"pending", "done", "failed"},
         overran'[j] = overran[j], job' = [job EXCEPT ![w] = NoJob]
  PROVE  Slots(j)'
<1>1. Runners(j)' \subseteq Runners(j) /\ w \in Runners(j) \ Runners(j)'
  BY JobQueueAssumption DEF Runners, TypeOK
<1>2. Cardinality(Runners(j)) \in Nat /\ overran[j] \in Nat
      /\ Cardinality(Runners(j)') \in Nat
      /\ Cardinality(Runners(j)') + 1 <= Cardinality(Runners(j))
  BY <1>1, Leaving, RunnersAre DEF TypeOK
<1> QED
  BY <1>2 DEF Slots

\* A row that the sweep takes has no worker in time, whoever else runs it.
LEMMA SweptRow ==
  ASSUME TypeOK, NEW j \in Job, Slots(j), RequeueStale, job' = job, held' = held,
         overran' = overran
  PROVE  Slots(j)'
<1>1. CASE Stale(j)
  <2>1. status'[j] = "pending" /\ Runners(j)' = Runners(j)
    BY <1>1 DEF RequeueStale, Runners
  <2>2. ~ InTime(j)
    BY <1>1, JobQueueAssumption DEF Stale, Slots, InTime, TypeOK
  <2> QED
    BY <2>1, <2>2 DEF Slots
<1>2. CASE ~ Stale(j)
  <2>1. status'[j] = status[j] /\ age'[j] = age[j] /\ locked_by'[j] = locked_by[j]
    BY <1>2 DEF RequeueStale, TypeOK
  <2> QED
    BY <2>1, OtherRow
<1> QED
  BY <1>1, <1>2

\* A claim: the row waited, so the runs there are have all overrun.
LEMMA ClaimedRow ==
  ASSUME TypeOK, NEW w \in Worker, NEW j \in Job, Slots(j), Claim(w, j)
  PROVE  Slots(j)'
<1>1. /\ status[j] = "pending" /\ job[w] = NoJob
      /\ status'[j] = "running" /\ age'[j] = 0 /\ locked_by'[j] = w /\ overran'[j] = overran[j]
      /\ job' = [job EXCEPT ![w] = j] /\ held'[w] = 0
  BY DEF Claim, Eligible, Busy, TypeOK
<1>2. job'[w] = j
  BY <1>1 DEF TypeOK
<1>3. Runners(j)' = Runners(j) \cup {w} /\ w \notin Runners(j)
  BY <1>1, JobQueueAssumption DEF Runners, TypeOK
<1>4. Cardinality(Runners(j)') = Cardinality(Runners(j)) + 1
  BY <1>3, RunnersAre, FS_AddElement
<1>5. Cardinality(Runners(j)) <= overran[j]
  BY <1>1 DEF Slots, InTime
<1>6. overran[j] \in Nat /\ Cardinality(Runners(j)) \in Nat
  BY RunnersAre DEF TypeOK
<1>7. InTime(j)'
  BY <1>1, <1>2, JobQueueAssumption DEF InTime
<1> QED
  BY <1>1, <1>2, <1>4, <1>5, <1>6, <1>7 DEF Slots

\* Time passes: a worker that is no longer in time has overrun.
LEMMA AgedRow ==
  ASSUME TypeOK, NEW j \in Job, Slots(j), Tick
  PROVE  Slots(j)'
<1>1. /\ Runners(j)' = Runners(j) /\ status'[j] = status[j] /\ locked_by'[j] = locked_by[j]
      /\ job' = job
      /\ overran'[j] = overran[j] + Cardinality(Overdue(j))
  BY DEF Tick, Runners
<1>2. /\ Cardinality(Runners(j)) \in Nat /\ overran[j] \in Nat /\ Cardinality(Overdue(j)) \in Nat
  BY RunnersAre, OverdueIs DEF TypeOK
<1>3. status[j] = "running" =>
        /\ locked_by[j] \in Worker
        /\ job[locked_by[j]] = j => age'[j] <= held'[locked_by[j]]
  <2>1. SUFFICES ASSUME status[j] = "running", locked_by[j] \in Worker, job[locked_by[j]] = j
                 PROVE  age'[j] <= held'[locked_by[j]]
    BY DEF Slots
  <2>2. age[j] <= held[locked_by[j]] /\ age[j] \in Nat /\ held[locked_by[j]] \in Nat
    BY <2>1, JobQueueAssumption DEF Slots, TypeOK
  <2>3. age'[j] = IF age[j] <= StaleAfter THEN age[j] + 1 ELSE age[j]
    BY <2>1 DEF Tick
  <2>4. held'[locked_by[j]] = IF held[locked_by[j]] <= StaleAfter
                              THEN held[locked_by[j]] + 1 ELSE held[locked_by[j]]
    BY <2>1, JobQueueAssumption DEF Tick, Busy
  <2> QED
    BY <2>2, <2>3, <2>4, JobQueueAssumption DEF TypeOK
<1>4. ASSUME InTime(j), ~ InTime(j)' PROVE Cardinality(Overdue(j)) >= 1
  <2>1. locked_by[j] \in Worker /\ job[locked_by[j]] = j /\ held[locked_by[j]] <= StaleAfter
    BY <1>4 DEF InTime, Slots
  <2>2. held'[locked_by[j]] = held[locked_by[j]] + 1
    BY <2>1, JobQueueAssumption DEF Tick, Busy
  <2>3. ~ (held[locked_by[j]] + 1 <= StaleAfter)
    BY <1>1, <1>4, <2>1, <2>2 DEF InTime
  <2>4. held[locked_by[j]] = StaleAfter
    BY <2>1, <2>3, JobQueueAssumption DEF TypeOK
  <2>5. locked_by[j] \in Overdue(j)
    BY <2>1, <2>4 DEF Overdue, Runners
  <2>6. Cardinality(Overdue(j)) # 0
    BY <2>5, OverdueIs, FS_EmptySet
  <2> QED
    BY <1>2, <2>6
<1> QED
  BY <1>1, <1>2, <1>3, <1>4 DEF Slots

LEMMA SlotStep == TypeOK /\ SlotInv /\ [Next]_vars => SlotInv'
<1> SUFFICES ASSUME TypeOK, SlotInv, [Next]_vars, NEW i \in Job PROVE Slots(i)'
  BY DEF SlotInv
<1>a. Slots(i)
  BY DEF SlotInv
<1>1. ASSUME NEW j \in Job, NEW k \in Key \cup {NoKey}, NEW d \in FirstDelays, Enqueue(j, k, d)
      PROVE  Slots(i)'
  <2>1. CASE i = j
    <3>1. /\ status[i] = "none" /\ status'[i] = "pending" /\ Runners(i)' = Runners(i)
          /\ overran' = overran
      BY <1>1, <2>1 DEF Enqueue, Runners, workerVars, TypeOK
    <3>2. Cardinality(Runners(i)') = 0 /\ overran[i] \in Nat
      BY <1>a, <3>1, FS_EmptySet DEF Slots, TypeOK
    <3> QED
      BY <3>1, <3>2 DEF Slots
  <2>2. CASE i # j
    BY <1>1, <1>a, <2>2, OtherRow DEF Enqueue, workerVars, TypeOK
  <2> QED
    BY <2>1, <2>2
<1>2. ASSUME NEW w \in Worker, NEW j \in Job, Claim(w, j) PROVE Slots(i)'
  <2>1. CASE i = j
    BY <1>2, <1>a, <2>1, ClaimedRow
  <2>2. CASE i # j
    BY <1>2, <1>a, <2>2, OtherRow, JobQueueAssumption DEF Claim, TypeOK, Busy
  <2> QED
    BY <2>1, <2>2
<1>3. ASSUME NEW w \in Worker, job[w] \in Job, NEW s \in {"pending", "done", "failed"},
             Put(job[w], s), Release(w), overran' = overran
      PROVE  Slots(i)'
  <2>1. CASE i = job[w]
    BY <1>3, <1>a, <2>1, OutcomeRow DEF Put, Release, TypeOK
  <2>2. CASE i # job[w]
    BY <1>3, <1>a, <2>2, OtherRow, JobQueueAssumption DEF Put, Release, TypeOK
  <2> QED
    BY <2>1, <2>2
<1>4. ASSUME NEW w \in Worker, Busy(w), UNCHANGED <<status, age, locked_by, overran>>, Release(w)
      PROVE  Slots(i)'
  BY <1>4, <1>a, OtherRow, JobQueueAssumption DEF Release, TypeOK
<1>5. ASSUME NEW w \in Worker, NEW r \in {"ok", "err"}, Finish(w, r) PROVE Slots(i)'
  BY <1>5, <1>a, OtherRow DEF Finish, rowVars
<1>6. ASSUME NEW w \in Worker, MarkDone(w) \/ Fail(w) PROVE Slots(i)'
  BY <1>3, <1>6 DEF MarkDone, Fail, Busy, TypeOK
<1>7. ASSUME NEW w \in Worker, LoseOutcome(w) PROVE Slots(i)'
  BY <1>4, <1>7 DEF LoseOutcome, rowVars
<1>8. ASSUME NEW w \in Worker, NEW d \in RetryDelays, Retry(w, d) PROVE Slots(i)'
  <2>1. job[w] \in Job /\ Busy(w) /\ Release(w) /\ overran' = overran
    BY <1>8 DEF Retry, Busy, TypeOK
  <2>2. Put(job[w], "pending") \/ UNCHANGED <<status, age, locked_by>>
    BY <1>8 DEF Retry
  <2> QED
    BY <1>3, <1>4, <2>1, <2>2
<1>9. ASSUME NEW p \in Proc, Crash(p) PROVE Slots(i)'
  <2>1. \A w \in Worker : job'[w] = i => job[w] = i /\ held'[w] = held[w]
    BY <1>9, JobQueueAssumption DEF Crash
  <2>2. UNCHANGED <<status, age, locked_by, overran>>
    BY <1>9 DEF Crash, rowVars
  <2> QED
    BY <1>a, <2>1, <2>2, OtherRow
<1>10. ASSUME StaleSweep \/ \E p \in Proc : Start(p) PROVE Slots(i)'
  <2>1. /\ job' = job /\ held' = held /\ overran' = overran
        /\ RequeueStale \/ UNCHANGED <<status, age, locked_by>>
    BY <1>10 DEF StaleSweep, Start, workerVars
  <2> QED
    BY <1>a, <2>1, SweptRow, OtherRow
<1>11. CASE Tick
  BY <1>11, <1>a, AgedRow
<1>12. CASE UNCHANGED vars
  BY <1>12, <1>a, OtherRow DEF vars, rowVars, workerVars
<1> QED
  BY <1>1, <1>2, <1>5, <1>6, <1>7, <1>8, <1>9, <1>10, <1>11, <1>12 DEF Next

LEMMA SlotsHold == Spec => []SlotInv
<1>1. Init => SlotInv
  <2> SUFFICES ASSUME Init, NEW j \in Job PROVE Slots(j)
    BY DEF SlotInv
  <2>1. Runners(j) = {}
    BY JobQueueAssumption DEF Init, Runners
  <2> QED
    BY <2>1, FS_EmptySet DEF Init, Slots
<1> QED
  BY <1>1, SlotStep, TypeCorrect, PTL DEF Spec

\* Each run that outlives staleThreshold lets one worker in beside it and no more,
\* whatever crashes, sweeps and late outcomes come between; a job none of whose runs
\* did is run by one worker at a time.
THEOREM Exclusion == Spec => []OverlapOnlyOverrun
<1>1. SlotInv => OverlapOnlyOverrun
  BY DEF SlotInv, Slots, OverlapOnlyOverrun
<1> QED
  BY <1>1, SlotsHold, PTL

\* What a worker holds of a job none of whose runs overran is the row's own lock.
LEMMA SoleRunner ==
  ASSUME TypeOK, SlotInv, NEW w \in Worker, job[w] # NoJob, overran[job[w]] = 0
  PROVE  /\ status[job[w]] = "running"
         /\ \A v \in Worker : job[v] = job[w] => v = w
<1> DEFINE runners == Runners(job[w])
<1>a. job[w] \in Job
  BY DEF TypeOK
<1>b. w \in runners
  BY DEF Runners
<1>c. IsFiniteSet(runners) /\ Cardinality(runners) \in Nat
  BY <1>a, RunnersAre
<1>1. job[w] \in Job /\ w \in runners /\ IsFiniteSet(runners) /\ Cardinality(runners) \in Nat
  BY <1>a, <1>b, <1>c
<1>2. Slots(job[w])
  BY <1>1 DEF SlotInv
<1>3. Cardinality(runners) # 0
  BY <1>1, FS_EmptySet
<1>4. InTime(job[w])
  BY <1>1, <1>2, <1>3 DEF Slots
<1>5. Cardinality(runners) = 1
  BY <1>1, <1>2, <1>3 DEF Slots
<1>6. \E x : runners = {x}
  BY <1>1, <1>5, FS_Singleton
<1> QED
  BY <1>1, <1>4, <1>6 DEF InTime, Runners

\* Done and failed are final for every job none of whose runs outlived
\* staleThreshold.
THEOREM Finality == Spec => TerminalIsFinal
<1>1. TypeOK /\ SlotInv /\ [Next]_vars
        => [\A j \in Job : status[j] \in Terminal /\ overran[j] = 0
                             => status'[j] = status[j]]_vars
  <2> SUFFICES ASSUME TypeOK, SlotInv, Next,
                      NEW j \in Job, status[j] \in Terminal, overran[j] = 0
               PROVE  status'[j] = status[j]
    OBVIOUS
  <2>0. \A w \in Worker : job[w] # j
    BY SoleRunner, JobQueueAssumption DEF Terminal
  <2> USE DEF TypeOK, Terminal, Busy, rowVars
  <2>1. ASSUME NEW i \in Job, NEW k \in Key \cup {NoKey}, NEW d \in FirstDelays,
               Enqueue(i, k, d)
        PROVE  status'[j] = status[j]
    BY <2>1 DEF Enqueue
  <2>2. ASSUME NEW w \in Worker, NEW i \in Job, Claim(w, i)
        PROVE  status'[j] = status[j]
    BY <2>2 DEF Claim, Eligible
  <2>3. ASSUME NEW w \in Worker, MarkDone(w) \/ Fail(w)
        PROVE  status'[j] = status[j]
    BY <2>0, <2>3 DEF MarkDone, Fail, Put
  <2>4. ASSUME NEW w \in Worker, NEW d \in RetryDelays, Retry(w, d)
        PROVE  status'[j] = status[j]
    BY <2>0, <2>4 DEF Retry, Put
  <2>5. ASSUME NEW p \in Proc, Start(p)
        PROVE  status'[j] = status[j]
    BY <2>5 DEF Start, RequeueStale, Stale
  <2>6. CASE StaleSweep
    BY <2>6 DEF StaleSweep, RequeueStale, Stale
  <2> QED
    BY <2>1, <2>2, <2>3, <2>4, <2>5, <2>6
    DEF Next, Finish, LoseOutcome, Crash, Tick
<1> QED
  BY <1>1, TypeCorrect, SlotsHold, PTL DEF Spec, TerminalIsFinal
-----------------------------------------------------------------------------
(* The queue implements the ledger *)

\* What the ledger's steps rest on.
LedgerInv == TypeOK /\ DedupeLive /\ ClaimInv /\ SlotInv

\* Workers only leave, and rows stay live or as they are: the jobs that nobody runs
\* any more are handed back.
LEMMA HandedBack ==
  ASSUME TypeOK,
         \A j \in Job : status'[j] = status[j] \/ (IsLive(status[j]) /\ IsLive(status'[j])),
         \A w \in Worker : job'[w] # job[w] => job'[w] = NoJob,
         UNCHANGED <<key, kind, attempts, overran>>
  PROVE  \E S \in SUBSET Job : Ledger!HandBack(S)
<1> DEFINE S == {j \in Job : Fate[j] = "running" /\ ~ Held(j)'}
<1> USE DEF Statuses, Terminal, IsLive
<1>1. ASSUME NEW j \in Job PROVE Held(j)' => Held(j)
  BY JobQueueAssumption DEF Held
<1>2. ASSUME NEW j \in Job PROVE Fate'[j] = IF j \in S THEN "queued" ELSE Fate[j]
  <2>1. CASE IsLive(status[j])
    BY <1>1, <2>1 DEF Fate
  <2>2. CASE ~ IsLive(status[j])
    BY <2>2 DEF Fate, TypeOK
  <2> QED
    BY <2>1, <2>2
<1>3. Fate' = [j \in Job |-> IF j \in S THEN "queued" ELSE Fate[j]]
  BY <1>2 DEF Fate
<1>4. Ledger!HandBack(S)
  BY <1>3 DEF Ledger!HandBack
<1> QED
  BY <1>4

\* Every step of the queue is a step of the ledger or none: a claim begins a run, an
\* outcome ends it, crashes, lost outcomes and errors hand it back, and the sweep
\* changes nothing until the row is claimed again.
LEMMA LedgerStep == LedgerInv /\ Next => [Ledger!Next]_(Ledger!vars)
<1> SUFFICES ASSUME LedgerInv, Next
             PROVE  Ledger!Next \/ UNCHANGED Ledger!vars
  OBVIOUS
<1> DEFINE overdue == {j \in Job : overran[j] > 0}
<1> USE JobQueueAssumption DEF LedgerInv, TypeOK, Held, IsLive, Busy
<1>1. ASSUME NEW w \in Worker, job[w] # NoJob
      PROVE  /\ job[w] \in Job /\ Held(job[w]) /\ status[job[w]] # "none"
             /\ overran[job[w]] = 0 => /\ status[job[w]] = "running"
                                       /\ \A v \in Worker : job[v] = job[w] => v = w
             /\ overran[job[w]] # 0 => job[w] \in overdue
  <2>1. job[w] \in Job /\ Held(job[w]) /\ w \in Runners(job[w])
    BY <1>1 DEF Runners
  <2>2. Slots(job[w])
    BY <2>1 DEF SlotInv
  <2> QED
    BY <1>1, <2>1, <2>2, SoleRunner DEF Slots
<1>2. ASSUME NEW w \in Worker, job[w] # NoJob
      PROVE  /\ IsLive(status[job[w]]) => Fate[job[w]] = "running"
             /\ ~ IsLive(status[job[w]]) => /\ job[w] \in overdue
                                            /\ Fate[job[w]] = status[job[w]]
                                            /\ status[job[w]] \in Terminal
             /\ Ledger!Decidable(job[w])
  BY <1>1, <1>2 DEF Fate, Ledger!Decidable, Ledger!Ended, Terminal, Statuses
<1>3. ASSUME NEW j \in Job, NEW k \in Key \cup {NoKey}, NEW d \in FirstDelays,
             Enqueue(j, k, d)
      PROVE  Ledger!Submit(j, k)
  <2>1. ~ Held(j) /\ Fate[j] = "none" /\ job' = job
    BY <1>1, <1>3 DEF Enqueue, Fate, workerVars
  <2>2. ASSUME NEW i \in Job
        PROVE  Fate'[i] = IF i = j THEN "queued" ELSE Fate[i]
    BY <1>3, <2>1 DEF Enqueue, Fate
  <2>3. Fate' = [Fate EXCEPT ![j] = "queued"]
    BY <2>2 DEF Fate
  <2>4. Ledger!Free(j, k)
    BY <1>3 DEF Enqueue, DedupeConflict, Fate, Ledger!Free, Ledger!Open, Statuses, Terminal
  <2> QED
    BY <1>3, <2>1, <2>3, <2>4 DEF Enqueue, Ledger!Submit
<1>4. ASSUME NEW w \in Worker, NEW j \in Job, Claim(w, j)
      PROVE  Ledger!Begin(j)
  <2>1. Fate[j] = "queued" \/ (j \in overdue /\ Fate[j] = "running")
    BY <1>1, <1>4 DEF Claim, Eligible, Fate
  <2>2. /\ job' = [job EXCEPT ![w] = j] /\ job[w] = NoJob /\ status[j] = "pending"
        /\ status' = [status EXCEPT ![j] = "running"]
    BY <1>4 DEF Claim, Eligible
  <2>3. ASSUME NEW i \in Job PROVE Fate'[i] = IF i = j THEN "running" ELSE Fate[i]
    <3>1. Held(i)' <=> i = j \/ Held(i)
      BY <2>2
    <3> QED
      BY <2>2, <3>1 DEF Fate
  <2>4. Fate' = [Fate EXCEPT ![j] = "running"]
    BY <2>3 DEF Fate
  <2> QED
    BY <1>4, <2>1, <2>4 DEF Claim, Ledger!Begin
<1>5. ASSUME NEW w \in Worker, job[w] \in Job, NEW s \in Terminal, Put(job[w], s), Release(w)
      PROVE  Fate' = [Fate EXCEPT ![job[w]] = s]
  <2>1. /\ job' = [job EXCEPT ![w] = NoJob]
        /\ status' = [status EXCEPT ![job[w]] = s]
    BY <1>5 DEF Put, Release
  <2>2. ASSUME NEW i \in Job PROVE Fate'[i] = IF i = job[w] THEN s ELSE Fate[i]
    <3>1. i # job[w] => (Held(i)' <=> Held(i))
      BY <2>1
    <3> QED
      BY <1>5, <2>1, <3>1 DEF Fate, Terminal
  <2> QED
    BY <2>2 DEF Fate
<1>6. ASSUME NEW w \in Worker, MarkDone(w)
      PROVE  job[w] \in Job /\ Ledger!Complete(job[w])
  <2>1. job[w] \in Job /\ Ledger!Decidable(job[w])
    BY <1>1, <1>2, <1>6 DEF MarkDone
  <2>2. Fate' = [Fate EXCEPT ![job[w]] = "done"]
    BY <1>5, <1>6, <2>1 DEF MarkDone, Terminal
  <2> QED
    BY <1>6, <2>1, <2>2 DEF MarkDone, Ledger!Complete
<1>7. ASSUME NEW w \in Worker, Fail(w)
      PROVE  job[w] \in Job /\ Ledger!GiveUp(job[w])
  <2>1. job[w] \in Job /\ Ledger!Decidable(job[w])
    BY <1>1, <1>2, <1>7 DEF Fail
  <2>2. Fate' = [Fate EXCEPT ![job[w]] = "failed"]
    BY <1>5, <1>7, <2>1 DEF Fail, Terminal
  <2>3. attempts[job[w]] >= MaxAttempts \/ kind[job[w]] \notin Registered
    BY <1>7, <2>1 DEF Fail, ClaimInv
  <2> QED
    BY <1>7, <2>1, <2>2, <2>3 DEF Fail, Ledger!GiveUp
<1>8. ASSUME NEW w \in Worker, NEW d \in RetryDelays, Retry(w, d)
      PROVE  (\E S \in SUBSET Job : Ledger!HandBack(S)) \/ \E j \in Job : Ledger!Reopen(j)
  <2>0. PICK j \in Job : j = job[w]
    BY <1>1, <1>8 DEF Retry
  <2>1. /\ j = job[w] /\ j # NoJob /\ job' = [job EXCEPT ![w] = NoJob]
        /\ UNCHANGED <<key, kind, attempts, overran>>
    BY <1>8, <2>0 DEF Retry, Release
  <2>2. \A v \in Worker : job'[v] # job[v] => job'[v] = NoJob
    BY <2>1
  <2>3. CASE DedupeConflict(key[j], j)
    BY <1>8, <2>1, <2>2, <2>3, HandedBack DEF Retry
  <2>4. CASE ~ DedupeConflict(key[j], j)
    <3>1. status' = [status EXCEPT ![j] = "pending"]
      BY <1>8, <2>1, <2>4 DEF Retry, Put
    <3>2. CASE IsLive(status[j])
      <4>1. \A i \in Job : status'[i] = status[i] \/ (IsLive(status[i]) /\ IsLive(status'[i]))
        BY <2>1, <3>1, <3>2
      <4> QED
        BY <2>1, <2>2, <4>1, HandedBack
    <3>3. CASE ~ IsLive(status[j])
      <4> DEFINE open == IF Held(j)' THEN "running" ELSE "queued"
      <4>1. j \in overdue /\ Fate[j] \in Ledger!Ended
        BY <1>2, <2>1, <3>3 DEF Ledger!Ended, Terminal
      <4>2. Ledger!Free(j, key[j])
        BY <2>4 DEF DedupeConflict, Fate, Ledger!Free, Ledger!Open, Statuses, Terminal
      <4>3. ASSUME NEW i \in Job PROVE Fate'[i] = IF i = j THEN open ELSE Fate[i]
        <5>1. i # j => (Held(i)' <=> Held(i))
          BY <2>1
        <5> QED
          BY <2>1, <3>1, <5>1 DEF Fate
      <4>4. Fate' = [Fate EXCEPT ![j] = open]
        BY <4>3 DEF Fate
      <4>5. open \in Ledger!Open
        BY DEF Ledger!Open
      <4>6. Ledger!Reopen(j)
        BY <2>1, <4>1, <4>2, <4>4, <4>5 DEF Ledger!Reopen
      <4> QED
        BY <2>1, <4>6
    <3> QED
      BY <3>2, <3>3
  <2> QED
    BY <2>3, <2>4
<1>9. ASSUME NEW w \in Worker, LoseOutcome(w)
      PROVE  \E S \in SUBSET Job : Ledger!HandBack(S)
  BY <1>9, HandedBack DEF LoseOutcome, Release, rowVars
<1>10. ASSUME NEW p \in Proc, Crash(p)
       PROVE  \E S \in SUBSET Job : Ledger!HandBack(S)
  BY <1>10, HandedBack DEF Crash, rowVars
<1>11. ASSUME StaleSweep \/ (\E p \in Proc : Start(p))
               \/ \E w \in Worker, r \in {"ok", "err"} : Finish(w, r)
       PROVE  \E S \in SUBSET Job : Ledger!HandBack(S)
  <2>1. /\ job' = job /\ UNCHANGED <<key, kind, attempts, overran>>
        /\ RequeueStale \/ status' = status
    BY <1>11 DEF StaleSweep, Start, Finish, workerVars, rowVars
  <2>2. \A j \in Job : status'[j] = status[j] \/ (IsLive(status[j]) /\ IsLive(status'[j]))
    BY <2>1 DEF RequeueStale, Stale
  <2> QED
    BY <2>1, <2>2, HandedBack
<1>12. CASE Tick
  <2> DEFINE S == {j \in Job : overran[j] = 0 /\ Overdue(j) # {}}
  <2>1. /\ Fate' = Fate /\ UNCHANGED <<key, kind, attempts>>
        /\ overran' = [j \in Job |-> overran[j] + Cardinality(Overdue(j))]
    BY <1>12 DEF Tick, Fate
  <2>2. ASSUME NEW j \in S PROVE Fate[j] = "running"
    <3>1. PICK w \in Worker : job[w] = j
      BY DEF Overdue, Runners
    <3> QED
      BY <1>1, <3>1 DEF Fate
  <2>3. \A j \in Job : overran'[j] > 0 <=> overran[j] > 0 \/ j \in S
    <3>1. \A j \in Job : Cardinality(Overdue(j)) \in Nat /\ (Cardinality(Overdue(j)) = 0 <=> Overdue(j) = {})
      BY OverdueIs, FS_EmptySet
    <3> QED
      BY <2>1, <3>1
  <2>4. {j \in Job : overran'[j] > 0} = overdue \cup S
    BY <2>3
  <2>5. PICK T \in SUBSET Job : T = S
    OBVIOUS
  <2>6. Ledger!Overrun(T)
    BY <2>1, <2>2, <2>4, <2>5 DEF Ledger!Overrun
  <2> QED
    BY <2>6 DEF Ledger!Next
<1> QED
  BY <1>3, <1>4, <1>6, <1>7, <1>8, <1>9, <1>10, <1>11, <1>12 DEF Next, Ledger!Next

\* The queue implements the ledger, however long handlers take: a job is run once at
\* a time and ends once until a run of it outlives staleThreshold, one job of a key is
\* open at a time, and none is given up before its attempts.
THEOREM Implements == Spec => KeepsLedger
<1>1. Init => Ledger!Init
  BY DEF Init, Ledger!Init, Fate, IsLive
<1>2. LedgerInv /\ [Next]_vars => [Ledger!Next]_(Ledger!vars)
  <2>1. UNCHANGED vars => UNCHANGED Ledger!vars
    BY DEF vars, rowVars, workerVars, Ledger!vars, Fate, Held
  <2> QED
    BY <2>1, LedgerStep
<1> QED
  BY <1>1, <1>2, TypeCorrect, OneLiveRow, Claims, SlotsHold, PTL
  DEF Spec, KeepsLedger, Ledger!Spec, LedgerInv
=============================================================================
