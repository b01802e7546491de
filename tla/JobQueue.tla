------------------------------ MODULE JobQueue ------------------------------
(***************************************************************************)
(* The durable background job queue of internal/jobs/jobs.go over the      *)
(* table of migrations/20260623_005_jobs.sql.                              *)
(*                                                                         *)
(* A row of the jobs table is a member of Job; a row that was not inserted *)
(* yet has status "none".  A worker goroutine is a member of Worker and    *)
(* lives in the server process ProcOf[w].  Every SQL statement (or         *)
(* transaction) of the code is one action.                                 *)
(*                                                                         *)
(* Time is relative.  run_after - now() is wait[j] (0 once the row is      *)
(* eligible), now() - locked_at is age[j] (it stops at StaleAfter + 1,     *)
(* past which no code distinguishes values), and held[w] is the time since *)
(* worker w claimed its job, counted as far.  Tick lets one unit of time   *)
(* pass.  A handler may take any time: staleThreshold is no bound of it    *)
(* (deep_analyze may run for 17 minutes beside its writes, and             *)
(* detect_contributors for ever).                                          *)
(*                                                                         *)
(* Left out: org_id (the dedupe index is per org: a key here stands for an *)
(* (org_id, dedupe_key) pair; the app-pool fallback runs the same          *)
(* statements org by org), payloads, last_error, and the ORDER BY of the   *)
(* dequeue: SKIP LOCKED makes the order a preference that a concurrent     *)
(* claim may override, so Claim takes any eligible row.                    *)
(***************************************************************************)
EXTENDS Integers, FiniteSets

CONSTANTS
  Job,          \* rows of the jobs table
  Key,          \* dedupe keys
  NoKey,        \* a job enqueued without EnqueueOpts.DedupeKey
  Kind,         \* job kinds
  Registered,   \* the kinds that have a handler in Queue.registry
  Worker,       \* worker goroutines
  Proc,         \* server processes
  ProcOf,       \* the process a worker runs in
  NoJob,        \* the job of an idle worker
  NoWorker,     \* locked_by of a row that is not locked
  MaxAttempts,  \* max_attempts of every row
  RetryDelays,  \* the values backoff() may return, in units of time
  FirstDelays,  \* the values of EnqueueOpts.Delay
  StaleAfter,   \* staleThreshold
  MaxFaults     \* bound: crashes, lost outcome writes and failed sweeps

ASSUME JobQueueAssumption ==
  /\ Registered \subseteq Kind
  /\ ProcOf \in [Worker -> Proc]
  /\ NoKey \notin Key
  /\ NoJob \notin Job
  /\ NoWorker \notin Worker
  /\ MaxAttempts \in Nat \ {0}
  /\ RetryDelays \subseteq Nat
  /\ FirstDelays \subseteq Nat
  /\ StaleAfter \in Nat
  /\ IsFiniteSet(Worker)
  /\ MaxFaults \in Nat

VARIABLES
  status, key, kind, attempts, wait, age, locked_by,   \* columns of the jobs table
  job, attempt, result, held,               \* claimedJob and progress of a worker
  overran,                                  \* history: runs of a job that outlived the lease
  live,                                     \* processes that are up
  faults                                    \* faults that have happened

rowVars    == <<status, key, kind, attempts, wait, age, locked_by>>
workerVars == <<job, attempt, result, held>>
vars       == <<rowVars, workerVars, overran, live, faults>>

Terminal == {"done", "failed"}
Statuses == {"none", "pending", "running"} \cup Terminal
Results  == {"running", "ok", "err", "nohandler"}

\* Every variable has values of its column's type.
TypeOK ==
  /\ status \in [Job -> Statuses]
  /\ key \in [Job -> Key \cup {NoKey}]
  /\ kind \in [Job -> Kind]
  /\ attempts \in [Job -> Nat]
  /\ wait \in [Job -> Nat]
  /\ age \in [Job -> 0..(StaleAfter + 1)]
  /\ locked_by \in [Job -> Worker \cup {NoWorker}]
  /\ job \in [Worker -> Job \cup {NoJob}]
  /\ attempt \in [Worker -> Nat]
  /\ result \in [Worker -> Results]
  /\ held \in [Worker -> 0..(StaleAfter + 1)]
  /\ overran \in [Job -> Nat]
  /\ live \in SUBSET Proc
  /\ faults \in 0..MaxFaults

-----------------------------------------------------------------------------
(* The table *)

\* Mutant: the index forgets running rows.
IsLiveMutant(s) == s = "pending"

\* The rows the partial unique index jobs_dedupe_live_idx covers.
IsLive(s) == s \in {"pending", "running"}

\* Row j cannot be live beside the live rows of the same key.
DedupeConflict(k, j) ==
  k # NoKey /\ \E i \in Job \ {j} : IsLive(status[i]) /\ key[i] = k

\* Mutants: locked_at <= now() - threshold; and a restart that takes back
\* every running row whatever its age.
StaleOffByOne(j) == status[j] = "running" /\ age[j] >= StaleAfter
StaleAnyAge(j)   == status[j] = "running"

\* The rows the UPDATE of RequeueStale matches.
Stale(j) == status[j] = "running" /\ age[j] > StaleAfter

\* Mutant: the dequeue refuses a row that has used its attempts.
EligibleCapped(j) ==
  status[j] = "pending" /\ wait[j] = 0 /\ attempts[j] < MaxAttempts

Eligible(j) == status[j] = "pending" /\ wait[j] = 0

Busy(w) == job[w] # NoJob

Held(j) == \E w \in Worker : job[w] = j

\* The workers that run j, each from a claim of its own.
Runners(j) == {w \in Worker : job[w] = j}

\* Rows that no worker is working on although they say running.
Orphan(j) == status[j] = "running" /\ ~ Held(j)

Init ==
  /\ status = [j \in Job |-> "none"]
  /\ key = [j \in Job |-> NoKey]
  /\ kind \in [Job -> Kind]
  /\ attempts = [j \in Job |-> 0]
  /\ wait = [j \in Job |-> 0]
  /\ age = [j \in Job |-> 0]
  /\ locked_by = [j \in Job |-> NoWorker]
  /\ overran = [j \in Job |-> 0]
  /\ job = [w \in Worker |-> NoJob]
  /\ attempt = [w \in Worker |-> 0]
  /\ result = [w \in Worker |-> "running"]
  /\ held = [w \in Worker |-> 0]
  /\ live = {}
  /\ faults = 0

-----------------------------------------------------------------------------
(* Operations *)

\* INSERT ... ON CONFLICT DO NOTHING: with a live row of the same key the call
\* returns without inserting.  The kind of a row is fixed from the start.
Enqueue(j, k, d) ==
  /\ status[j] = "none"
  /\ ~ DedupeConflict(k, j)
  /\ status' = [status EXCEPT ![j] = "pending"]
  /\ key' = [key EXCEPT ![j] = k]
  /\ wait' = [wait EXCEPT ![j] = d]
  /\ UNCHANGED <<kind, attempts, age, locked_by, workerVars, overran, live, faults>>

\* dequeue: the claim is one transaction; attempts is not compared with
\* max_attempts.  A kind with no handler goes straight to fail.
Claim(w, j) ==
  /\ ProcOf[w] \in live
  /\ ~ Busy(w)
  /\ Eligible(j)
  /\ status' = [status EXCEPT ![j] = "running"]
  /\ attempts' = [attempts EXCEPT ![j] = @ + 1]
  /\ age' = [age EXCEPT ![j] = 0]
  /\ locked_by' = [locked_by EXCEPT ![j] = w]
  /\ job' = [job EXCEPT ![w] = j]
  /\ attempt' = [attempt EXCEPT ![w] = attempts[j] + 1]
  /\ result' = [result EXCEPT ![w] = IF kind[j] \in Registered
                                     THEN "running" ELSE "nohandler"]
  /\ held' = [held EXCEPT ![w] = 0]
  /\ UNCHANGED <<key, kind, wait, overran, live, faults>>

\* runHandler returns; a panic of the handler is an error too.
Finish(w, r) ==
  /\ Busy(w)
  /\ result[w] = "running"
  /\ result' = [result EXCEPT ![w] = r]
  /\ UNCHANGED <<rowVars, job, attempt, held, overran, live, faults>>

\* The worker loop goes on to its next dequeue.
Release(w) ==
  /\ job' = [job EXCEPT ![w] = NoJob]
  /\ attempt' = [attempt EXCEPT ![w] = 0]
  /\ result' = [result EXCEPT ![w] = "running"]
  /\ held' = [held EXCEPT ![w] = 0]

\* The three outcome writes are UPDATE ... WHERE id = $1: they do not ask
\* whether the row still carries this worker's claim.  All clear the lock.
Put(j, s) ==
  /\ status' = [status EXCEPT ![j] = s]
  /\ age' = [age EXCEPT ![j] = 0]
  /\ locked_by' = [locked_by EXCEPT ![j] = NoWorker]

MarkDone(w) ==
  /\ Busy(w)
  /\ result[w] = "ok"
  /\ Put(job[w], "done")
  /\ Release(w)
  /\ UNCHANGED <<key, kind, attempts, wait, overran, live, faults>>

\* Mutant: the last attempt is not made.
FailEarly(w) ==
  /\ Busy(w)
  /\ \/ result[w] = "nohandler"
     \/ result[w] = "err" /\ attempt[w] >= MaxAttempts - 1
  /\ Put(job[w], "failed")
  /\ Release(w)
  /\ UNCHANGED <<key, kind, attempts, wait, overran, live, faults>>

Fail(w) ==
  /\ Busy(w)
  /\ \/ result[w] = "nohandler"
     \/ result[w] = "err" /\ attempt[w] >= MaxAttempts
  /\ Put(job[w], "failed")
  /\ Release(w)
  /\ UNCHANGED <<key, kind, attempts, wait, overran, live, faults>>

\* A write that would make a second live row of the key is rejected by the
\* index; the error is logged and the row stays as it is.
Retry(w, d) ==
  /\ Busy(w)
  /\ result[w] = "err"
  /\ attempt[w] < MaxAttempts
  /\ IF DedupeConflict(key[job[w]], job[w])
     THEN UNCHANGED <<status, age, locked_by, wait>>
     ELSE Put(job[w], "pending") /\ wait' = [wait EXCEPT ![job[w]] = d]
  /\ Release(w)
  /\ UNCHANGED <<key, kind, attempts, overran, live, faults>>

\* The outcome write fails or times out: it is only logged, and the row stays
\* running until RequeueStale finds it.
LoseOutcome(w) ==
  /\ Busy(w)
  /\ result[w] # "running"
  /\ faults < MaxFaults
  /\ faults' = faults + 1
  /\ Release(w)
  /\ UNCHANGED <<rowVars, overran, live>>

RequeueStale ==
  /\ status' = [j \in Job |-> IF Stale(j) THEN "pending" ELSE status[j]]
  /\ age' = [j \in Job |-> IF Stale(j) THEN 0 ELSE age[j]]
  /\ locked_by' = [j \in Job |-> IF Stale(j) THEN NoWorker ELSE locked_by[j]]

\* runStaleTicker of some process that is up.
StaleSweep ==
  /\ live # {}
  /\ \E j \in Job : Stale(j)
  /\ RequeueStale
  /\ UNCHANGED <<key, kind, attempts, wait, workerVars, overran, live, faults>>

\* A process ends.  main does not wait for its workers, so a graceful stop
\* abandons the jobs in flight just as a crash does.
Crash(p) ==
  /\ p \in live
  /\ faults < MaxFaults
  /\ faults' = faults + 1
  /\ live' = live \ {p}
  /\ job' = [w \in Worker |-> IF ProcOf[w] = p THEN NoJob ELSE job[w]]
  /\ attempt' = [w \in Worker |-> IF ProcOf[w] = p THEN 0 ELSE attempt[w]]
  /\ result' = [w \in Worker |-> IF ProcOf[w] = p THEN "running" ELSE result[w]]
  /\ held' = [w \in Worker |-> IF ProcOf[w] = p THEN 0 ELSE held[w]]
  /\ UNCHANGED <<rowVars, overran>>

\* Start: RequeueStale once, then the workers.  An error of RequeueStale is
\* only logged.
Start(p) ==
  /\ p \notin live
  /\ live' = live \cup {p}
  /\ \/ RequeueStale /\ UNCHANGED faults
     \/ /\ faults < MaxFaults
        /\ faults' = faults + 1
        /\ UNCHANGED <<status, age, locked_by>>
  /\ UNCHANGED <<key, kind, attempts, wait, workerVars, overran>>

\* One unit of time passes; the runs that have now taken longer than the lease.
Overdue(j) == {w \in Runners(j) : held[w] = StaleAfter}

Tick ==
  /\ wait' = [j \in Job |-> IF wait[j] > 0 THEN wait[j] - 1 ELSE 0]
  /\ age' = [j \in Job |-> IF status[j] = "running" /\ age[j] <= StaleAfter
                           THEN age[j] + 1 ELSE age[j]]
  /\ held' = [w \in Worker |-> IF Busy(w) /\ held[w] <= StaleAfter
                              THEN held[w] + 1 ELSE held[w]]
  /\ overran' = [j \in Job |-> overran[j] + Cardinality(Overdue(j))]
  /\ UNCHANGED <<status, key, kind, attempts, locked_by, job, attempt, result, live, faults>>

Next ==
  \/ \E j \in Job, k \in Key \cup {NoKey}, d \in FirstDelays : Enqueue(j, k, d)
  \/ \E w \in Worker, j \in Job : Claim(w, j)
  \/ \E w \in Worker, r \in {"ok", "err"} : Finish(w, r)
  \/ \E w \in Worker : MarkDone(w) \/ Fail(w) \/ LoseOutcome(w)
  \/ \E w \in Worker, d \in RetryDelays : Retry(w, d)
  \/ \E p \in Proc : Crash(p) \/ Start(p)
  \/ StaleSweep
  \/ Tick

Spec == Init /\ [][Next]_vars

\* A worker polls while it is up, a handler returns sooner or later and its
\* outcome is written; the sweep runs on a ticker, a process is restarted, and
\* time passes.
Outcome(w) == MarkDone(w) \/ Fail(w) \/ \E d \in RetryDelays : Retry(w, d)

Works(w) == \/ \E j \in Job : Claim(w, j)
            \/ \E r \in {"ok", "err"} : Finish(w, r)
            \/ Outcome(w)

Fairness ==
  /\ WF_vars(\E w \in Worker : Works(w))
  /\ WF_vars(\E p \in Proc : Start(p))
  /\ WF_vars(StaleSweep)
  /\ WF_vars(Tick)

FairSpec == Spec /\ Fairness

-----------------------------------------------------------------------------
(* Properties *)

\* At most one pending or running row per dedupe key: a stale worker's retry
\* of a finished job, a requeue and an enqueue never make a second one
\* (jobs_dedupe_live_idx; Enqueue's ON CONFLICT; retry).
DedupeLive ==
  \A i, j \in Job :
    IsLive(status[i]) /\ IsLive(status[j]) /\ key[i] = key[j] /\ key[i] # NoKey
      => i = j

\* A claim is only a row that RequeueStale takes back by its age, from workers
\* that died and from those that are slow alike, and outcome writes do not look
\* at it.  Yet each run that outlives staleThreshold lets one worker in beside it
\* and no more, however late it writes what became of it and whoever claims the
\* row again after that; without any, a job is run by one worker at a time.
OverlapOnlyOverrun ==
  \A j \in Job : Cardinality(Runners(j)) <= 1 + overran[j]

\* What is written of a job is final, if none of its runs outlived
\* staleThreshold: no late outcome and no sweep changes a done or failed row
\* (markDone, fail, retry, RequeueStale).
TerminalIsFinal ==
  [][\A j \in Job : status[j] \in Terminal /\ overran[j] = 0
                     => status'[j] = status[j]]_vars

\* A job whose kind has a handler is given up only after max_attempts claims,
\* whoever writes the failure and however late (process, fail).
FailedOnlyExhausted ==
  \A j \in Job : status[j] = "failed" /\ kind[j] \in Registered
                   => attempts[j] >= MaxAttempts

\* A job is running in the ledger while a worker has it; a row that says running
\* with no worker on it is queued: RequeueStale will bring it back.
Fate ==
  [j \in Job |-> IF IsLive(status[j])
                 THEN IF Held(j) THEN "running" ELSE "queued"
                 ELSE status[j]]

Ledger == INSTANCE JobLedger
          WITH fate <- Fate, runs <- attempts, overdue <- {j \in Job : overran[j] > 0}

\* The queue keeps the promise of JobLedger, although the claim, the lease and
\* the outcome of a job are separate statements that crashes, the sweep and
\* outcomes of workers that lost their claim come between.
KeepsLedger == Ledger!Spec

\* Durability: whatever crashes and loses writes, every inserted job ends up
\* done or failed and stays so (RequeueStale, retry).
EveryJobSettles ==
  \A j \in Job : (status[j] # "none") ~> [](status[j] \in Terminal)

-----------------------------------------------------------------------------
(* What the comments of jobs.go say, and the code does not do *)

\* jobs.go:276: "The FOR UPDATE SKIP LOCKED makes concurrent workers (and
\* processes) never double-process".  RequeueStale takes the row of a handler that
\* is only slow, and the next dequeue gives it to another worker.
NeverDoubleProcess ==
  \A v, w \in Worker : Busy(v) /\ job[v] = job[w] => v = w

\* jobs.go:486: "a crash-looping job still eventually hits max_attempts and
\* fails rather than retrying forever".  RequeueStale and dequeue do not look
\* at max_attempts, so a job is claimed again after its last attempt.
AttemptsBounded == \A j \in Job : attempts[j] <= MaxAttempts

\* jobs.go:208: "a restart immediately reclaims jobs orphaned by the previous
\* process".  Only those whose lock is older than staleThreshold are.
RestartReclaims ==
  [][\A p \in live' \ live : faults' = faults => ~ \E j \in Job : Orphan(j)']_vars
=============================================================================
