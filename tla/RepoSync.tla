------------------------------ MODULE RepoSync ------------------------------
(***************************************************************************)
(* SyncRepo of internal/sync/syncer.go: one pass over a repository, run as *)
(* a sync_repo job.  The job queue's dedupe key lets one pass of a         *)
(* repository run at a time.  Each fetch from the platform and each        *)
(* transaction is a step of its own, for the platform and the webhook      *)
(* receiver go on in between.                                              *)
(*                                                                         *)
(* The commits come from a clone of every branch or, when that fails, from *)
(* the commits API of the default branch; both read what is dated at or    *)
(* after the cutoff the pass found in the repos row, and a pass whose      *)
(* fetches all answered moves the cutoff to its own end.                   *)
(***************************************************************************)
EXTENDS SyncStore

CONSTANTS
  MaxFaults    \* bound: failed fetches, failed statements and crashes

ASSUME RepoSyncAssumption == MaxFaults \in Nat

VARIABLES
  pc,
  since,       \* last_synced_at as the job read it
  listed,      \* the pull requests as listed
  todo,        \* issues rows whose derived_state is still to be set
  complete,    \* fetchComplete
  fetched,     \* commits read and not stored yet
  there,       \* history: commits on the platform when they were read
  missed,      \* history: commits no pass will read, by cause
  settled,     \* history: the passes since the last disturbance
  faults

jobVars == <<pc, since, listed, todo, complete, fetched, there>>
histVars == <<missed, settled, faults>>
syncVars == <<storeVars, jobVars, histVars>>

Steps == {"idle", "issues", "list", "prs", "reviews", "rows", "derive",
          "walk", "tree", "api", "page", "stamp"}

Nothing == [p \in PRs |-> "none"]

SyncTypeOK ==
  /\ StoreTypeOK
  /\ pc \in Steps
  /\ since \in Time
  /\ listed \in [PRs -> PRState]
  /\ todo \subseteq Issues \X Key
  /\ complete \in BOOLEAN
  /\ fetched \subseteq Commits
  /\ there \subseteq Commits
  /\ missed \in [{"late", "branch", "unstored"} -> SUBSET Commits]
  /\ settled \in {"no", "pass", "yes"}
  /\ faults \in 0..MaxFaults

SyncInit ==
  /\ StoreInit
  /\ pc = "idle"
  /\ since = 0
  /\ listed = Nothing
  /\ todo = {}
  /\ complete = TRUE
  /\ fetched = {}
  /\ there = {}
  /\ missed = [why \in {"late", "branch", "unstored"} |-> {}]
  /\ settled = "no"
  /\ faults = 0

Step(from, to) == pc = from /\ pc' = to

\* The variables of a pass are gone when it returns.
Return ==
  /\ since' = 0
  /\ listed' = Nothing
  /\ todo' = {}
  /\ complete' = TRUE
  /\ fetched' = {}
  /\ there' = {}

Fault == faults < MaxFaults /\ faults' = faults + 1 /\ settled' = "no"

Miss(why, cs) == missed' = [missed EXCEPT ![why] = @ \cup cs]

-----------------------------------------------------------------------------
(* The platform moves on *)

Tick == now < MaxTime /\ now' = now + 1 /\ UNCHANGED <<remoteVars, rowVars, jobVars, histVars>>

MovePR(p, s) ==
  /\ s \in Moves(p)
  /\ remotePR' = [remotePR EXCEPT ![p] = s]
  /\ settled' = "no"
  /\ UNCHANGED <<now, pushed, dated, rowVars, jobVars, missed, faults>>

\* A push of a commit dated before the cutoff is late for every pass.
PushCommit(c, d) ==
  /\ Push(c, d)
  /\ IF d < cutoff THEN Miss("late", {c}) ELSE UNCHANGED missed
  /\ UNCHANGED <<now, remotePR, rowVars, jobVars, settled, faults>>

-----------------------------------------------------------------------------
(* Issues, pull requests and derived states *)

\* handleSyncRepo reads the repos row and starts the pass.
Begin ==
  /\ Step("idle", "issues")
  /\ since' = cutoff
  /\ settled' = IF settled = "yes" THEN "yes" ELSE "pass"
  /\ UNCHANGED <<storeVars, listed, todo, complete, fetched, there, missed, faults>>

\* Every issue is upserted in a transaction of its own; a failed one is logged.
SyncIssues ==
  /\ Step("issues", "list")
  /\ \/ UpsertIssues(Issues \X {"id"}) /\ UNCHANGED <<settled, faults>>
     \/ Fault /\ \E S \in SUBSET Issues : UpsertIssues(S \X {"id"})
  /\ UNCHANGED <<now, remoteVars, prRow, stored, cutoff, since, listed, todo, complete,
                 fetched, there, missed>>

ListPRs ==
  /\ Step("list", "prs")
  /\ listed' = remotePR
  /\ UNCHANGED <<storeVars, since, todo, complete, fetched, there, histVars>>

\* One transaction for all pull requests.  A failed statement is only logged,
\* but the transaction is aborted by it: none of them is stored.
StorePRs ==
  /\ Step("prs", "reviews")
  /\ \/ UpsertPRs(listed) /\ UNCHANGED <<settled, faults>>
     \/ Fault /\ UNCHANGED prRow
  /\ UNCHANGED <<now, remoteVars, issueRow, stored, cutoff, since, listed, todo, complete,
                 fetched, there, missed>>

\* syncPRReviews, syncDeployments, syncIncidentsFromIssues: a failed fetch
\* leaves the pass incomplete.
SyncReviewsAndDeployments ==
  /\ Step("reviews", "rows")
  /\ \/ UNCHANGED <<complete, settled, faults>>
     \/ Fault /\ complete' = FALSE
  /\ UNCHANGED <<storeVars, since, listed, todo, fetched, there, missed>>

\* Does a listed pull request in this state refer to the issue?
ListedFor(i, state) == \E p \in PRs : i \in Refs[p] /\ listed[p] = state

\* issueProgress: a merged pull request wins over an open one.
\* Mutant: the open one wins.
MutantProgress ==
  [i \in Issues |-> IF ListedFor(i, "open") THEN "in_progress"
                    ELSE IF ListedFor(i, "merged") THEN "done" ELSE "none"]
Progress ==
  [i \in Issues |-> IF ListedFor(i, "merged") THEN "done"
                    ELSE IF ListedFor(i, "open") THEN "in_progress" ELSE "none"]

Linked == {i \in Issues : Progress[i] # "none"}

ListRows ==
  /\ Step("rows", "derive")
  /\ \/ todo' = RowsOf(Linked) /\ UNCHANGED <<settled, faults>>
     \/ Fault /\ todo' = {}
  /\ UNCHANGED <<storeVars, since, listed, complete, fetched, there, missed>>

\* One row at a time, each in its own transaction.
SetDerived(r) ==
  /\ pc = "derive"
  /\ r \in todo
  /\ todo' = todo \ {r}
  /\ \/ SetDerivedState({r}, Progress) /\ UNCHANGED <<settled, faults>>
     \/ Fault /\ UNCHANGED issueRow
  /\ UNCHANGED <<now, remoteVars, prRow, stored, cutoff, pc, since, listed, complete,
                 fetched, there, missed>>

\* The listing is not used beyond this point.
DerivedDone ==
  /\ Step("derive", "walk")
  /\ todo = {}
  /\ listed' = Nothing
  /\ UNCHANGED <<storeVars, since, todo, complete, fetched, there, histVars>>

-----------------------------------------------------------------------------
(* Commits and the cutoff *)

Recent(cs) == {c \in cs : dated[c] >= since}

\* ingestCommitsFromBloblessClone: clone and walk, or fall back to the API.
Walk ==
  /\ pc = "walk"
  /\ there' = pushed
  /\ \/ pc' = "tree" /\ fetched' = Recent(pushed) /\ UNCHANGED <<settled, faults>>
     \/ pc' = "api" /\ fetched' = {} /\ Fault
  /\ UNCHANGED <<storeVars, since, listed, todo, complete, missed>>

StoreWalk ==
  /\ pc = "tree"
  /\ \/ pc' = "stamp" /\ UpsertCommits(fetched) /\ UNCHANGED <<settled, faults>>
     \/ pc' = "api" /\ UNCHANGED stored /\ Fault
  /\ fetched' = {}
  /\ UNCHANGED <<now, remoteVars, issueRow, prRow, cutoff, since, listed, todo, complete,
                 there, missed>>

\* syncCommitsFromAPI: only a failed fetch holds the cutoff back.
\* Mutant: a failed fetch does not either.
MutantFetchCommits ==
  /\ pc = "api"
  /\ there' = pushed
  /\ \/ pc' = "page" /\ fetched' = Recent(pushed \cap MainBranch) /\ UNCHANGED <<complete, settled, faults>>
     \/ pc' = "stamp" /\ fetched' = {} /\ Fault /\ UNCHANGED complete
  /\ UNCHANGED <<storeVars, since, listed, todo, missed>>
FetchCommits ==
  /\ pc = "api"
  /\ there' = pushed
  /\ \/ pc' = "page" /\ fetched' = Recent(pushed \cap MainBranch) /\ UNCHANGED <<complete, settled, faults>>
     \/ pc' = "stamp" /\ fetched' = {} /\ Fault /\ complete' = FALSE
  /\ UNCHANGED <<storeVars, since, listed, todo, missed>>

\* The store's failure is "best-effort": the cutoff moves all the same.
StoreCommits ==
  /\ Step("page", "stamp")
  /\ \/ UpsertCommits(fetched) /\ Miss("branch", Recent(there \ MainBranch)) /\ UNCHANGED <<settled, faults>>
     \/ UNCHANGED stored /\ Fault /\ Miss("unstored", Recent(there))
  /\ fetched' = {}
  /\ UNCHANGED <<now, remoteVars, issueRow, prRow, cutoff, since, listed, todo,
                 complete, there>>

\* A commit that was pushed after the pass read the commits is dated before
\* the new cutoff, unless it is pushed in the same instant.
Stamp ==
  /\ Step("stamp", "idle")
  /\ \/ /\ complete
        /\ UpdateRepoSyncedAt
        /\ Miss("late", {c \in pushed \ there : dated[c] < now})
        /\ settled' = IF settled = "pass" THEN "yes" ELSE settled
        /\ UNCHANGED faults
     \/ /\ ~complete
        /\ settled' = "no"
        /\ UNCHANGED <<cutoff, missed, faults>>
     \/ /\ complete
        /\ Fault
        /\ UNCHANGED <<cutoff, missed>>
  /\ Return
  /\ UNCHANGED <<now, remoteVars, issueRow, prRow, stored>>

\* The issues or the pull requests cannot be listed, or the process dies; the
\* job queue runs the job again.
Abandon ==
  /\ pc # "idle"
  /\ pc' = "idle"
  /\ Fault
  /\ Return
  /\ UNCHANGED <<storeVars, missed>>

SyncStep ==
  \/ Begin \/ SyncIssues \/ ListPRs \/ StorePRs \/ SyncReviewsAndDeployments
  \/ ListRows \/ (\E r \in todo : SetDerived(r)) \/ DerivedDone
  \/ Walk \/ StoreWalk \/ FetchCommits \/ StoreCommits \/ Stamp
  \/ Abandon
=============================================================================
