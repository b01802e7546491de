---------------------------- MODULE RepoConnect ----------------------------
(***************************************************************************)
(* How repositories of an organisation get connected (internal/api/        *)
(* sync.go): one by one, within the plan's max_repos (internal/billing/    *)
(* quota.go), or as an import of many by a goroutine that outlives its     *)
(* request and checks no quota.                                            *)
(*                                                                         *)
(* A connect request asks whether the repository is new, whether the plan  *)
(* allows one more, and inserts the row, in three transactions; then it    *)
(* enqueues the first sync.  The import inserts all rows first and         *)
(* enqueues their syncs after that, what it still has to do being in       *)
(* memory only.                                                            *)
(***************************************************************************)
EXTENDS Integers, FiniteSets

CONSTANTS
  Repo,      \* repositories of the platform
  Connect,   \* bound: connect requests at a time
  MaxRepos,  \* the plan's max_repos
  MaxLosses  \* bound: failed enqueues, failed syncs and restarts

ASSUME RepoConnectAssumption ==
  /\ IsFiniteSet(Repo) /\ IsFiniteSet(Connect)
  /\ Connect # {}
  /\ MaxRepos \in Nat \ {0}
  /\ MaxLosses \in Nat

VARIABLES
  repoRow,   \* rows of repos: none, not synced yet, synced
  suspended, \* does the billing status block writes?
  syncJob,   \* repositories with a sync_repo job pending or running
  detached,  \* repositories a goroutine syncs, their job having failed to enqueue
  connect,   \* what each connect request has found
  import,    \* what the import has still to do
  counted,   \* history: rows inserted by a request that the quota allowed
  lost,      \* history: repositories that lost a sync since they were last asked for
  losses

connectVars ==
  <<repoRow, suspended, syncJob, detached, connect, import, counted, lost, losses>>

NoRequest == [at |-> "idle"]
Request   == [at : {"new", "allowed", "known", "enqueue"}, repo : Repo]
NoImport  == [at |-> "idle"]
Import    == [at : {"connect", "enqueue"}, names : SUBSET Repo, toSync : SUBSET Repo]

ConnectTypeOK ==
  /\ repoRow \in [Repo -> {"none", "new", "synced"}]
  /\ suspended \in BOOLEAN
  /\ syncJob \subseteq Repo
  /\ detached \subseteq Repo
  /\ connect \in [Connect -> {NoRequest} \cup Request]
  /\ import \in {NoImport} \cup Import
  /\ counted \subseteq Repo
  /\ lost \subseteq Repo
  /\ losses \in 0..MaxLosses

ConnectInit ==
  /\ repoRow = [r \in Repo |-> "none"]
  /\ suspended = FALSE
  /\ syncJob = {}
  /\ detached = {}
  /\ connect = [q \in Connect |-> NoRequest]
  /\ import = NoImport
  /\ counted = {}
  /\ lost = {}
  /\ losses = 0

Connected == {r \in Repo : repoRow[r] # "none"}

\* ConnectRepo: an upsert.
Upsert(r) == repoRow' = [repoRow EXCEPT ![r] = IF @ = "none" THEN "new" ELSE @]

Lose == losses < MaxLosses /\ losses' = losses + 1

Found(q, at, r) == connect' = [connect EXCEPT ![q] = [at |-> at, repo |-> r]]

Answered(q) == connect' = [connect EXCEPT ![q] = NoRequest]

\* The import has still to look at r, or to enqueue its sync.
Imports(r) ==
  import # NoImport /\ (r \in import.toSync \/ (import.at = "connect" /\ r \in import.names))

-----------------------------------------------------------------------------
(* connectRepo *)

RepoIsNew(q, r) ==
  /\ connect[q] = NoRequest
  /\ Found(q, IF r \in Connected THEN "known" ELSE "new", r)
  /\ UNCHANGED <<repoRow, suspended, syncJob, detached, import, counted, lost,
                 losses>>

\* Check
UnderQuota == ~suspended /\ Cardinality(Connected) < MaxRepos

CheckQuota(q) ==
  /\ connect[q].at = "new"
  /\ IF UnderQuota THEN Found(q, "allowed", connect[q].repo) ELSE Answered(q)
  /\ UNCHANGED <<repoRow, suspended, syncJob, detached, import, counted, lost,
                 losses>>

InsertRepo(q) ==
  LET r == connect[q].repo
  IN  /\ connect[q].at \in {"allowed", "known"}
      /\ Upsert(r)
      /\ counted' = IF connect[q].at = "allowed" /\ repoRow[r] = "none"
                      THEN counted \cup {r} ELSE counted
      /\ Found(q, "enqueue", r)
      /\ lost' = lost \ {r}
      /\ UNCHANGED <<suspended, syncJob, detached, import, losses>>

\* enqueueRepoSync, or startBackgroundSync where it fails.
StartSync(r) ==
  /\ lost' = lost \ {r}
  /\ \/ syncJob' = syncJob \cup {r} /\ UNCHANGED <<detached, losses>>
     \/ Lose /\ detached' = detached \cup {r} /\ UNCHANGED syncJob

EnqueueFirstSync(q) ==
  /\ connect[q].at = "enqueue"
  /\ StartSync(connect[q].repo)
  /\ Answered(q)
  /\ UNCHANGED <<repoRow, suspended, import, counted>>

-----------------------------------------------------------------------------
(* importRepos *)

\* The names that the listing of the connection's repositories has; when it fails,
\* the import ends before it begins.
BeginImport(names) ==
  /\ import = NoImport
  /\ names # {}
  /\ import' = [at |-> "connect", names |-> names, toSync |-> {}]
  /\ lost' = lost \ names
  /\ UNCHANGED <<repoRow, suspended, syncJob, detached, connect, counted, losses>>

\* Mutant: only rows that the import has made are synced.
MutantToSync(r) == repoRow[r] = "none"

\* Phase 1: every row, "only (re)sync repos that aren't already fully synced".
ToSync(r) == repoRow[r] # "synced"

ImportRow(r) ==
  /\ import.at = "connect"
  /\ r \in import.names
  /\ \/ Upsert(r) /\ import' = [import EXCEPT !.names = @ \ {r},
                                              !.toSync = IF ToSync(r) THEN @ \cup {r} ELSE @]
                  /\ UNCHANGED <<lost, losses>>
     \/ /\ Lose
        /\ import' = [import EXCEPT !.names = @ \ {r}]
        /\ lost' = lost \cup {r}
        /\ UNCHANGED repoRow
  /\ UNCHANGED <<suspended, syncJob, detached, connect, counted>>

ImportConnected ==
  /\ import.at = "connect"
  /\ import.names = {}
  /\ import' = [import EXCEPT !.at = "enqueue"]
  /\ UNCHANGED <<repoRow, suspended, syncJob, detached, connect, counted, lost,
                 losses>>

\* Phase 2: one durable job each; a failure is logged.
ImportEnqueue(r) ==
  /\ import.at = "enqueue"
  /\ r \in import.toSync
  /\ \/ syncJob' = syncJob \cup {r} /\ lost' = lost \ {r} /\ UNCHANGED losses
     \/ Lose /\ lost' = lost \cup {r} /\ UNCHANGED syncJob
  /\ import' = [import EXCEPT !.toSync = @ \ {r}]
  /\ UNCHANGED <<repoRow, suspended, detached, connect, counted>>

ImportDone ==
  /\ import.at = "enqueue"
  /\ import.toSync = {}
  /\ import' = NoImport
  /\ UNCHANGED <<repoRow, suspended, syncJob, detached, connect, counted, lost,
                 losses>>

-----------------------------------------------------------------------------
(* Syncs, removals, restarts *)

\* triggerSync
SyncAgain(r) ==
  /\ r \in Connected
  /\ StartSync(r)
  /\ UNCHANGED <<repoRow, suspended, connect, import, counted>>

\* syncAll, which passes over a repository whose enqueue failed.
SyncAll(r) ==
  /\ r \in Connected
  /\ \/ syncJob' = syncJob \cup {r} /\ lost' = lost \ {r} /\ UNCHANGED losses
     \/ Lose /\ UNCHANGED <<syncJob, lost>>
  /\ UNCHANGED <<repoRow, suspended, detached, connect, import, counted>>

\* A complete sync stamps last_synced_at; one that is incomplete, or out of
\* attempts, does not.
SyncEnds(r) ==
  /\ \/ r \in syncJob /\ syncJob' = syncJob \ {r} /\ UNCHANGED detached
     \/ r \in detached /\ detached' = detached \ {r} /\ UNCHANGED syncJob
  /\ \/ /\ repoRow' = [repoRow EXCEPT ![r] = IF @ = "none" THEN @ ELSE "synced"]
        /\ lost' = lost \ {r}
        /\ UNCHANGED losses
     \/ Lose /\ lost' = lost \cup {r} /\ UNCHANGED repoRow
  /\ UNCHANGED <<suspended, connect, import, counted>>

\* deleteRepo.  What is still enqueued for the row's id finds no row.
DeleteRepo(r) ==
  /\ r \in Connected
  /\ repoRow' = [repoRow EXCEPT ![r] = "none"]
  /\ counted' = counted \ {r}
  /\ lost' = lost \ {r}
  /\ syncJob' = syncJob \ {r}
  /\ detached' = detached \ {r}
  /\ connect' = [q \in Connect |-> IF connect[q] = [at |-> "enqueue", repo |-> r]
                                     THEN NoRequest ELSE connect[q]]
  /\ import' = IF import = NoImport THEN import ELSE [import EXCEPT !.toSync = @ \ {r}]
  /\ UNCHANGED <<suspended, losses>>

BillingStatus ==
  /\ suspended' = ~suspended
  /\ UNCHANGED <<repoRow, syncJob, detached, connect, import, counted, lost, losses>>

\* The job rows survive a restart; requests, goroutines and the import do not.
ServerRestart ==
  /\ Lose
  /\ connect' = [q \in Connect |-> NoRequest]
  /\ import' = NoImport
  /\ detached' = {}
  /\ lost' = lost \cup
       {r \in Connected : \/ r \in detached
                          \/ \E q \in Connect : connect[q] = [at |-> "enqueue", repo |-> r]
                          \/ Imports(r)}
  /\ UNCHANGED <<repoRow, suspended, syncJob, counted>>

ConnectNext ==
  \/ \E q \in Connect : \/ \E r \in Repo : RepoIsNew(q, r)
                        \/ CheckQuota(q) \/ InsertRepo(q) \/ EnqueueFirstSync(q)
  \/ \E names \in SUBSET Repo : BeginImport(names)
  \/ \E r \in Repo : \/ ImportRow(r) \/ ImportEnqueue(r) \/ SyncAgain(r) \/ SyncAll(r)
                     \/ SyncEnds(r) \/ DeleteRepo(r)
  \/ ImportConnected \/ ImportDone \/ BillingStatus \/ ServerRestart

ConnectSpec == ConnectInit /\ [][ConnectNext]_connectVars

-----------------------------------------------------------------------------
(* Properties *)

\* However requests, imports and removals interleave, the rows inserted under
\* the quota exceed max_repos by less than the number of concurrent requests.
WithinPlan == Cardinality(counted) <= MaxRepos + Cardinality(Connect) - 1

\* "re-clicking "Import all" picks up exactly the not-yet-imported +
\* previously-failed/incomplete repos": since it was last asked for, by a connect or an
\* import, a repository that was never synced has a job or a goroutine, or the request
\* or the import will enqueue one, or a restart or a failure took it; and whatever a
\* restart took from an import, the next one takes up (importRepos, syncAll).
FirstSyncPending ==
  \A r \in Repo : repoRow[r] = "new" =>
    \/ r \in syncJob \cup detached \cup lost
    \/ \E q \in Connect : connect[q] = [at |-> "enqueue", repo |-> r]
    \/ Imports(r)

\* Both: what is connected is within the plan and will be synced.
ConnectSound == WithinPlan /\ FirstSyncPending

-----------------------------------------------------------------------------
(* What the comments say, and the code does not do *)

\* sync.go:634: "a server restart mid-import resumes the remaining jobs instead of
\* stranding the import at e.g. 6/105".  What was enqueued resumes; what the goroutine
\* had still to enqueue is gone, until somebody asks for it again.
RestartResumes ==
  [][\A r \in Repo : Imports(r) /\ import' = NoImport /\ repoRow'[r] = "new"
                       => r \in syncJob']_connectVars
=============================================================================
