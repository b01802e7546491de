------------------------------ MODULE Tracker ------------------------------
(***************************************************************************)
(* A repository kept up to date from both ends: SyncRepo passes over it,   *)
(* and the deliveries its platform's webhook posts to receive              *)
(* (internal/api/webhooks.go), which Process (internal/webhooks/events.go) *)
(* turns into writes of the same rows.                                     *)
(*                                                                         *)
(* Deliveries carry what was true when they were sent.  They are handled   *)
(* concurrently and in any order, some are answered 500 or not at all, and *)
(* the platform sends those again under the same delivery id.  The ids     *)
(* seen are kept in memory (webhooks.DeliveryDeduper), up to a time and a  *)
(* number: an id can be forgotten at any time, and a restart forgets all.  *)
(***************************************************************************)
EXTENDS RepoSync, Sequences

CONSTANTS
  Hooked,        \* is the webhook configured?
  MaxDeliveries  \* bound: deliveries; what happens beyond it sends none

ASSUME TrackerAssumption ==
  /\ Hooked \in BOOLEAN
  /\ MaxDeliveries \in Nat

VARIABLES
  sent,        \* what each delivery carries
  phase,       \* how far its handling is
  seen,        \* DeliveryDeduper.seen
  applied      \* history: the deliveries whose transaction committed

hookVars == <<sent, phase, seen, applied>>
vars     == <<syncVars, hookVars>>

Id    == 1..MaxDeliveries
Phase == {"sent", "process", "progress", "answered", "duplicate", "failed"}

Payload == [kind : {"pull_request"}, of : PRs, state : PRState]
             \cup [kind : {"push"}, of : Commits] \cup [kind : {"issues"}, of : Issues]

TypeOK ==
  /\ SyncTypeOK
  /\ sent \in Seq(Payload)
  /\ Len(sent) <= MaxDeliveries
  /\ phase \in [Id -> Phase]
  /\ seen \subseteq Id
  /\ applied \subseteq Id

Init ==
  /\ SyncInit
  /\ sent = <<>>
  /\ phase = [n \in Id |-> "sent"]
  /\ seen = {}
  /\ applied = {}

At(n, from) == n \in 1..Len(sent) /\ phase[n] = from

Goto(n, to) == phase' = [phase EXCEPT ![n] = to]

-----------------------------------------------------------------------------
(* The platform *)

Send(payload) ==
  /\ sent' = IF Hooked /\ Len(sent) < MaxDeliveries THEN Append(sent, payload) ELSE sent
  /\ UNCHANGED <<phase, seen, applied>>

PREvent(p, s) ==
  MovePR(p, s) /\ Send([kind |-> "pull_request", of |-> p, state |-> s])

PushEvent(c, d) == PushCommit(c, d) /\ Send([kind |-> "push", of |-> c])

\* An issue is opened, edited, labelled or closed.
IssueEvent(i) ==
  /\ Hooked
  /\ Len(sent) < MaxDeliveries
  /\ Send([kind |-> "issues", of |-> i])
  /\ UNCHANGED syncVars

\* What was answered 500, or whose answer came late or not at all.
Redeliver(n) ==
  /\ \/ At(n, "failed") /\ UNCHANGED <<settled, faults>>
     \/ At(n, "answered") /\ Fault
  /\ Goto(n, "sent")
  /\ UNCHANGED <<storeVars, jobVars, missed, sent, seen, applied>>

-----------------------------------------------------------------------------
(* receive *)

\* Seen, under its lock: the id is recorded before the delivery is processed.
Receive(n) ==
  /\ At(n, "sent")
  /\ IF n \in seen
       THEN Goto(n, "duplicate") /\ UNCHANGED seen
       ELSE Goto(n, "process") /\ seen' = seen \cup {n}
  /\ UNCHANGED <<syncVars, sent, applied>>

\* Process: one transaction; an issue is looked up in one and written in another.
Apply(d) ==
  CASE d.kind = "pull_request" ->
         /\ UpsertPRs([Nothing EXCEPT ![d.of] = d.state])
         /\ UNCHANGED <<issueRow, stored>>
    [] d.kind = "push" ->
         UpsertCommits({d.of}) /\ UNCHANGED <<issueRow, prRow>>
    [] OTHER ->
         UpsertIssues({<<d.of, "number">>}) /\ UNCHANGED <<prRow, stored>>

ProcessDelivery(n) ==
  /\ At(n, "process")
  /\ Apply(sent[n])
  /\ Goto(n, IF sent[n].kind = "pull_request" THEN "progress" ELSE "answered")
  /\ applied' = applied \cup {n}
  /\ settled' = "no"
  /\ UNCHANGED <<now, remoteVars, cutoff, jobVars, missed, faults, sent, seen>>

\* Answered 500, "so the platform retries".
ProcessFails(n) ==
  /\ At(n, "process")
  /\ Goto(n, "failed")
  /\ Fault
  /\ UNCHANGED <<storeVars, jobVars, missed, sent, seen, applied>>

\* applyIssueAutoProgress, after the transaction: the rows are written one by
\* one, and a failure is swallowed.
\* Mutant: a closed pull request counts as merged.
MutantApplyIssueAutoProgress(n) ==
  /\ At(n, "progress")
  /\ Goto(n, "answered")
  /\ settled' = "no"
  /\ LET derived == IF sent[n].state = "open" THEN "in_progress" ELSE "done"
         rows    == RowsOf(Refs[sent[n].of])
     IN  /\ SetDerivedState(rows, [i \in Issues |-> derived])
         /\ UNCHANGED faults
  /\ UNCHANGED <<now, remoteVars, prRow, stored, cutoff, jobVars, missed, sent, seen,
                 applied>>
ApplyIssueAutoProgress(n) ==
  /\ At(n, "progress")
  /\ Goto(n, "answered")
  /\ settled' = "no"
  /\ LET derived == IF sent[n].state = "merged" THEN "done" ELSE "in_progress"
         rows    == IF sent[n].state = "closed" THEN {} ELSE RowsOf(Refs[sent[n].of])
     IN  \/ SetDerivedState(rows, [i \in Issues |-> derived]) /\ UNCHANGED faults
         \/ /\ faults < MaxFaults
            /\ faults' = faults + 1
            /\ \E S \in SUBSET rows : SetDerivedState(S, [i \in Issues |-> derived])
  /\ UNCHANGED <<now, remoteVars, prRow, stored, cutoff, jobVars, missed, sent, seen,
                 applied>>

\* The entry expires, or is evicted to make room.
Forget(n) ==
  /\ n \in seen
  /\ Fault
  /\ seen' = seen \ {n}
  /\ UNCHANGED <<storeVars, jobVars, missed, sent, phase, applied>>

\* The process dies: requests in progress get no answer.
Restart ==
  /\ Fault
  /\ pc' = "idle"
  /\ Return
  /\ phase' = [n \in Id |-> IF phase[n] \in {"process", "progress"} THEN "failed" ELSE phase[n]]
  /\ seen' = {}
  /\ UNCHANGED <<storeVars, missed, sent, applied>>

-----------------------------------------------------------------------------

Platform ==
  \/ \E p \in PRs, s \in PRState : PREvent(p, s)
  \/ \E c \in Commits, d \in Time : PushEvent(c, d)
  \/ \E i \in Issues : IssueEvent(i)
  \/ \E n \in Id : Redeliver(n)
  \/ Tick /\ UNCHANGED hookVars

Hook(n) ==
  \/ Receive(n) \/ ProcessDelivery(n) \/ ProcessFails(n) \/ ApplyIssueAutoProgress(n)
  \/ Forget(n)

Next ==
  \/ Platform
  \/ SyncStep /\ UNCHANGED hookVars
  \/ \E n \in Id : Hook(n)
  \/ Restart

Spec == Init /\ [][Next]_vars

-----------------------------------------------------------------------------
(* Properties *)

\* An issue shows as done only once a pull request that refers to it was merged,
\* whatever order passes and deliveries write derived_state in.
DoneIsBacked ==
  \A r \in Issues \X Key :
    issueRow[r] = "done" => \E p \in PRs : r[1] \in Refs[p] /\ remotePR[p] = "merged"

\* After a pass nothing interfered with (no move of a pull request, no delivery,
\* no failure since it began), the rows agree with the platform, and passes that
\* follow leave it so.
PassSettles == settled = "yes" => Agrees

\* A commit that is not stored and that no pass will read any more, being dated
\* before the cutoff, was pushed after a pass had read the commits or with an
\* older date than a pass had reached, or was lost to a failed clone or a failed
\* transaction: never to a fetch that failed.
CutoffCovers ==
  \A c \in pushed \ stored :
    dated[c] < cutoff => \E why \in DOMAIN missed : c \in missed[why]

\* "so commit data is never lost": a commit of the platform is stored, or the
\* next pass reads it.
CommitsNeverLost == \A c \in pushed \ stored : dated[c] >= cutoff

\* "surface 500 so the platform retries": a delivery that was answered 200 in
\* the end was applied.
AnsweredWasApplied ==
  \A n \in Id : phase[n] \in {"answered", "duplicate"} => n \in applied
=============================================================================
