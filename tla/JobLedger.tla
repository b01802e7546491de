----------------------------- MODULE JobLedger -----------------------------
(***************************************************************************)
(* What internal/jobs promises to those who enqueue: a ledger of jobs.     *)
(*                                                                         *)
(* There are no workers, leases or clocks here.  A job is queued, runs,    *)
(* and is handed back or ends; it runs once at a time, ends once, and is   *)
(* given up only after its attempts.  The promise is at least once: a run  *)
(* that was handed back may have done its work.                            *)
(*                                                                         *)
(* A run may take longer than the lease.  From then on its job is overdue, *)
(* and may be begun beside itself and end again, otherwise or not at all.  *)
(* That one job of a key is open at a time, and that none is given up      *)
(* before its attempts, is promised of overdue jobs too.                   *)
(***************************************************************************)
EXTENDS Naturals

CONSTANTS Job, Key, NoKey, Registered, MaxAttempts

VARIABLES
  fate,  \* of a job: "none" before it is submitted
  key, kind,
  runs,    \* how often it was begun
  overdue  \* the jobs a run of which took longer than the lease

vars == <<fate, key, kind, runs, overdue>>

Open  == {"queued", "running"}
Ended == {"done", "failed"}

Init ==
  /\ fate = [j \in Job |-> "none"]
  /\ key = [j \in Job |-> NoKey]
  /\ runs = [j \in Job |-> 0]
  /\ overdue = {}

\* No other job of j's key is open.
Free(j, k) == k # NoKey => \A i \in Job \ {j} : key[i] = k => fate[i] \notin Open

\* What may be decided of a job: of one that runs, or of any that is overdue.
Decidable(j) == fate[j] = "running" \/ (j \in overdue /\ fate[j] \in Ended)

\* A job is taken in only if no other job of its key is open.
Submit(j, k) ==
  /\ fate[j] = "none"
  /\ Free(j, k)
  /\ fate' = [fate EXCEPT ![j] = "queued"]
  /\ key' = [key EXCEPT ![j] = k]
  /\ UNCHANGED <<kind, runs, overdue>>

Begin(j) ==
  /\ fate[j] = "queued" \/ (j \in overdue /\ fate[j] = "running")
  /\ fate' = [fate EXCEPT ![j] = "running"]
  /\ runs' = [runs EXCEPT ![j] = @ + 1]
  /\ UNCHANGED <<key, kind, overdue>>

\* Runs end with nothing decided: an error to be retried, a lost outcome, the
\* end of a process with all the runs it had.
HandBack(S) ==
  /\ \A j \in S : fate[j] = "running"
  /\ fate' = [j \in Job |-> IF j \in S THEN "queued" ELSE fate[j]]
  /\ UNCHANGED <<key, kind, runs, overdue>>

Complete(j) ==
  /\ Decidable(j)
  /\ fate' = [fate EXCEPT ![j] = "done"]
  /\ UNCHANGED <<key, kind, runs, overdue>>

GiveUp(j) ==
  /\ Decidable(j)
  /\ runs[j] >= MaxAttempts \/ kind[j] \notin Registered
  /\ fate' = [fate EXCEPT ![j] = "failed"]
  /\ UNCHANGED <<key, kind, runs, overdue>>

\* A late error puts an overdue job back that had ended, which others may still
\* be running.
Reopen(j) ==
  /\ j \in overdue /\ fate[j] \in Ended
  /\ Free(j, key[j])
  /\ \E open \in Open : fate' = [fate EXCEPT ![j] = open]
  /\ UNCHANGED <<key, kind, runs, overdue>>

Overrun(S) ==
  /\ \A j \in S : fate[j] = "running"
  /\ overdue' = overdue \cup S
  /\ UNCHANGED <<fate, key, kind, runs>>

Next ==
  \/ \E j \in Job, k \in Key \cup {NoKey} : Submit(j, k)
  \/ \E j \in Job : Begin(j) \/ Complete(j) \/ GiveUp(j) \/ Reopen(j)
  \/ \E S \in SUBSET Job : HandBack(S) \/ Overrun(S)

Spec == Init /\ [][Next]_vars
=============================================================================
