----------------------------- MODULE SyncStore -----------------------------
(***************************************************************************)
(* One connected repository: what its platform holds, and the rows         *)
(* gitstate keeps of it (issues, pull_requests, commits, repos).  The      *)
(* repository sync (RepoSync) and the webhook receiver (Tracker) both      *)
(* write these rows, one statement or transaction at a time.               *)
(*                                                                         *)
(* An issue has two external ids.  A sync stores the platform's database   *)
(* id, a webhook the issue number, and the upsert conflicts on the         *)
(* external id alone: the same issue may have a row under each.            *)
(***************************************************************************)
EXTENDS Integers, FiniteSets

CONSTANTS
  Issues,      \* issues, by number
  PRs,         \* pull requests
  Commits,
  Refs,        \* Refs[p]: the issues the title and body of p refer to
  MainBranch,  \* the commits of the default branch
  MaxTime,     \* bound: the last instant
  MaxLag       \* bound: age of a commit when it is pushed

ASSUME SyncStoreAssumption ==
  /\ Refs \in [PRs -> SUBSET Issues]
  /\ MainBranch \subseteq Commits
  /\ MaxTime \in Nat
  /\ MaxLag \in Nat

VARIABLES
  now,
  remotePR,    \* state of each pull request on the platform
  pushed,      \* commits on the platform
  dated,       \* their committer dates
  issueRow,    \* derived_state of the issues rows
  prRow,       \* state of the pull_requests rows
  stored,      \* commits rows
  cutoff       \* repos.last_synced_at; 0 is NULL, before every commit

remoteVars == <<remotePR, pushed, dated>>
rowVars    == <<issueRow, prRow, stored, cutoff>>
storeVars  == <<now, remoteVars, rowVars>>

PRState == {"none", "open", "merged", "closed"}
Derived == {"absent", "none", "in_progress", "done"}
Key     == {"id", "number"}
Time    == 0..MaxTime

StoreTypeOK ==
  /\ now \in Time
  /\ remotePR \in [PRs -> PRState]
  /\ pushed \subseteq Commits
  /\ dated \in [Commits -> Time]
  /\ issueRow \in [Issues \X Key -> Derived]
  /\ prRow \in [PRs -> PRState]
  /\ stored \subseteq Commits
  /\ cutoff \in Time

\* A repository that was just connected.
StoreInit ==
  /\ now = 0
  /\ remotePR = [p \in PRs |-> "none"]
  /\ pushed = {}
  /\ dated = [c \in Commits |-> 0]
  /\ issueRow = [r \in Issues \X Key |-> "absent"]
  /\ prRow = [p \in PRs |-> "none"]
  /\ stored = {}
  /\ cutoff = 0

-----------------------------------------------------------------------------
(* The platform *)

\* A pull request is opened, merged, closed or reopened; a merge is final.
Moves(p) ==
  CASE remotePR[p] \in {"none", "closed"} -> {"open"}
    [] remotePR[p] = "open"               -> {"merged", "closed"}
    [] OTHER                              -> {}

Push(c, d) ==
  /\ c \notin pushed
  /\ d \in 0..now
  /\ d >= now - MaxLag
  /\ pushed' = pushed \cup {c}
  /\ dated' = [dated EXCEPT ![c] = d]

-----------------------------------------------------------------------------
(* Rows *)

\* The rows ListIssuesByRepo returns for these issue numbers.
RowsOf(numbers) == {r \in numbers \X Key : issueRow[r] # "absent"}

UpsertIssues(rows) ==
  issueRow' = [r \in DOMAIN issueRow |->
                 IF r \in rows /\ issueRow[r] = "absent" THEN "none" ELSE issueRow[r]]

SetDerivedState(rows, state) ==
  issueRow' = [r \in DOMAIN issueRow |-> IF r \in rows THEN state[r[1]] ELSE issueRow[r]]

\* The state that arrives last is the one kept.
UpsertPRs(state) ==
  prRow' = [p \in PRs |-> IF state[p] = "none" THEN prRow[p] ELSE state[p]]

UpsertCommits(cs) == stored' = stored \cup cs

UpdateRepoSyncedAt == cutoff' = now

\* The pull requests and issues agree with the platform, as far as a sync goes:
\* an issue no open or merged pull request refers to keeps the state it had.
Agrees ==
  /\ \A p \in PRs : prRow[p] = remotePR[p]
  /\ \A i \in Issues :
       LET linked(s) == \E p \in PRs : i \in Refs[p] /\ remotePR[p] = s
       IN  /\ issueRow[<<i, "id">>] # "absent"
           /\ \A r \in RowsOf({i}) :
                /\ linked("merged") => issueRow[r] = "done"
                /\ linked("open") /\ ~linked("merged") => issueRow[r] = "in_progress"
=============================================================================
