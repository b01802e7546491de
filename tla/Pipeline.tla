------------------------------ MODULE Pipeline ------------------------------
(***************************************************************************)
(* The jobs that follow a repository's sync (internal/api/job_handlers.go):*)
(* sync_repo ingests what the platform's HEAD brings and then enqueues     *)
(* deep_analyze for the repository and detect_contributors for the         *)
(* organisation, both best-effort and both coalesced by a dedupe key: an   *)
(* enqueue does nothing while a job of the key is pending or running       *)
(* (JobQueue!DedupeLive).  A failed job is pending again until its         *)
(* attempts are used up; a crash leaves it to the stale sweep, pending     *)
(* again too.                                                              *)
(*                                                                         *)
(* deep_analyze (AnalyzeRepoDeep) skips a HEAD it has analysed and returns *)
(* nil whatever fails, so it is never retried.                             *)
(***************************************************************************)
EXTENDS Integers

CONSTANTS
  Source,       \* connected repositories of one organisation
  Sha,         \* what the HEAD of a repository can be
  AuthorOf,     \* the author whose work a head brings
  NoSha,       \* last_analyzed_sha is NULL
  MaxMishaps    \* bound: failures

ASSUME PipelineAssumption ==
  /\ NoSha \notin Sha
  /\ MaxMishaps \in Nat

VARIABLES
  head,         \* HEAD on the platform
  known,        \* authors of the commits and pull requests ingested
  had,          \* history: the heads since the last ingest; none before the first
  lastAnalyzed, \* repos.last_analyzed_sha
  survival,     \* the head the author_survival rows were computed from
  task,         \* the live jobs and how far their handlers are
  holds,        \* the head, or the authors, a handler works with
  grouped,      \* authors that belong to a contributor
  slipped,      \* history: ingested, but its follow-up was lost
  unrecorded,   \* history: stored, but last_analyzed_sha was not written
  mishaps

pipelineVars ==
  <<head, known, had, lastAnalyzed, survival, task, holds, grouped, slipped,
    unrecorded, mishaps>>

Authors == {AuthorOf[h] : h \in Sha}
Sync(r) == <<"sync", r>>
Deep(r) == <<"deep", r>>
Detect  == <<"detect">>
Tasks   == {Sync(r) : r \in Source} \cup {Deep(r) : r \in Source} \cup {Detect}
Stage   == {"none", "pending", "running", "read", "stored", "followed"}
Shas   == Sha \cup {NoSha}

PipelineTypeOK ==
  /\ head \in [Source -> Sha]
  /\ known \subseteq Authors
  /\ had \in [Source -> SUBSET Sha]
  /\ lastAnalyzed \in [Source -> Shas]
  /\ survival \in [Source -> Shas]
  /\ task \in [Tasks -> Stage]
  /\ holds \in [Tasks -> SUBSET (Sha \cup Authors)]
  /\ grouped \subseteq Authors
  /\ slipped \subseteq Tasks
  /\ unrecorded \subseteq Source
  /\ mishaps \in 0..MaxMishaps

\* Repositories that were just connected, each with its first sync.
PipelineInit ==
  /\ head \in [Source -> Sha]
  /\ known = {}
  /\ had = [r \in Source |-> {}]
  /\ lastAnalyzed = [r \in Source |-> NoSha]
  /\ survival = [r \in Source |-> NoSha]
  /\ task = [t \in Tasks |-> IF t[1] = "sync" THEN "pending" ELSE "none"]
  /\ holds = [t \in Tasks |-> {}]
  /\ grouped = {}
  /\ slipped = {}
  /\ unrecorded = {}
  /\ mishaps = 0

Mishap == mishaps < MaxMishaps /\ mishaps' = mishaps + 1

GotoStage(t, from, to) == task[t] = from /\ task' = [task EXCEPT ![t] = to]

Holding(t, what) == holds' = [holds EXCEPT ![t] = what]

-----------------------------------------------------------------------------
(* The platform, the queue *)

PushHead(r, h) ==
  /\ head[r] # h
  /\ head' = [head EXCEPT ![r] = h]
  /\ had' = [had EXCEPT ![r] = IF @ = {} THEN {} ELSE @ \cup {h}]
  /\ UNCHANGED <<known, lastAnalyzed, survival, task, holds, grouped, slipped, mishaps,
                 unrecorded>>

\* triggerSync and the scheduled syncs.
RequestSync(r) ==
  /\ GotoStage(Sync(r), "none", "pending")
  /\ UNCHANGED <<head, known, had, lastAnalyzed, survival, holds, grouped, slipped,
                 mishaps, unrecorded>>

Dequeue(t) ==
  /\ GotoStage(t, "pending", "running")
  /\ UNCHANGED <<head, known, had, lastAnalyzed, survival, holds, grouped, slipped,
                 mishaps, unrecorded>>

\* The handler returns an error, or its process dies; or it was the last
\* attempt.
JobFails(t) ==
  /\ task[t] \notin {"none", "pending"}
  /\ Mishap
  /\ Holding(t, {})
  /\ \/ task' = [task EXCEPT ![t] = "pending"] /\ UNCHANGED slipped
     \/ /\ task' = [task EXCEPT ![t] = "none"]
        /\ slipped' = slipped \cup
             (IF t[1] = "sync" THEN {Detect, Deep(t[2])} ELSE {t})
  /\ unrecorded' = unrecorded \cup {r \in Source : t = Deep(r) /\ task[t] = "stored"}
  /\ UNCHANGED <<head, known, had, lastAnalyzed, survival, grouped>>

\* INSERT ... ON CONFLICT DO NOTHING; what it coalesces with may be past
\* reading.
Enqueued(t, s) == IF s = "none" THEN "pending" ELSE s

\* One enqueue of the sync handler, which goes on whether it worked or not.
FollowUp(r, t, from, to) ==
  /\ task[Sync(r)] = from
  /\ \/ /\ task' = [task EXCEPT ![Sync(r)] = to, ![t] = Enqueued(t, @)]
        /\ slipped' = IF task[t] \in {"none", "pending", "running"}
                        THEN slipped \ {t} ELSE slipped \cup {t}
        /\ UNCHANGED mishaps
     \/ /\ Mishap
        /\ task' = [task EXCEPT ![Sync(r)] = to]
        /\ slipped' = slipped \cup {t}
  /\ UNCHANGED <<head, known, had, lastAnalyzed, survival, holds, grouped, unrecorded>>

-----------------------------------------------------------------------------
(* sync_repo *)

\* SyncRepo, as far as what follows tells it apart (RepoSync has its steps).
Ingest(r) ==
  /\ GotoStage(Sync(r), "running", "read")
  /\ known' = known \cup {AuthorOf[head[r]]}
  /\ had' = [had EXCEPT ![r] = {head[r]}]
  /\ UNCHANGED <<head, lastAnalyzed, survival, holds, grouped, slipped, mishaps,
                 unrecorded>>

FollowWithDeep(r) == FollowUp(r, Deep(r), "read", "followed")

\* Mutant: deep_analyze is enqueued in its place.
MutantFollowWithDetect(r) == FollowUp(r, Deep(r), "followed", "none")
FollowWithDetect(r) == FollowUp(r, Detect, "followed", "none")

-----------------------------------------------------------------------------
(* deep_analyze *)

\* resolveRemoteHead: a failure falls through to the clone.
UpToDate(r) == head[r] = lastAnalyzed[r]

ResolveHead(r) ==
  /\ \/ UpToDate(r) /\ GotoStage(Deep(r), "running", "none") /\ UNCHANGED mishaps
     \/ ~UpToDate(r) /\ GotoStage(Deep(r), "running", "read") /\ UNCHANGED mishaps
     \/ Mishap /\ GotoStage(Deep(r), "running", "read")
  /\ UNCHANGED <<head, known, had, lastAnalyzed, survival, holds, grouped, slipped,
                 unrecorded>>

\* Clone and AnalyzeRepo, or one of them fails and the job is done.
Analyze(r) ==
  /\ holds[Deep(r)] = {}
  /\ \/ /\ task[Deep(r)] = "read"
        /\ Holding(Deep(r), {head[r]})
        /\ UNCHANGED <<task, slipped, mishaps>>
     \/ /\ Mishap
        /\ GotoStage(Deep(r), "read", "none")
        /\ slipped' = slipped \cup {Deep(r)}
        /\ UNCHANGED holds
  /\ UNCHANGED <<head, known, had, lastAnalyzed, survival, grouped, unrecorded>>

\* StoreResult, one transaction.
StoreAnalysis(r) ==
  /\ holds[Deep(r)] # {}
  /\ \/ /\ GotoStage(Deep(r), "read", "stored")
        /\ survival' = [survival EXCEPT ![r] = CHOOSE h \in Sha : h \in holds[Deep(r)]]
        /\ UNCHANGED <<holds, slipped, mishaps>>
     \/ /\ Mishap
        /\ GotoStage(Deep(r), "read", "none")
        /\ slipped' = slipped \cup {Deep(r)}
        /\ Holding(Deep(r), {})
        /\ UNCHANGED survival
  /\ UNCHANGED <<head, known, had, lastAnalyzed, grouped, unrecorded>>

\* UpdateRepoAnalyzed, another one; a failure is logged.
RecordAnalyzed(r) ==
  /\ GotoStage(Deep(r), "stored", "none")
  /\ \/ /\ lastAnalyzed' = [lastAnalyzed EXCEPT ![r] = CHOOSE h \in Sha : h \in holds[Deep(r)]]
        /\ unrecorded' = unrecorded \ {r}
        /\ UNCHANGED <<slipped, mishaps>>
     \/ /\ Mishap
        /\ slipped' = slipped \cup {Deep(r)}
        /\ unrecorded' = unrecorded \cup {r}
        /\ UNCHANGED lastAnalyzed
  /\ Holding(Deep(r), {})
  /\ UNCHANGED <<head, known, had, survival, grouped>>

-----------------------------------------------------------------------------
(* detect_contributors *)

\* DetectAndUpsert reads the identities, then places them (Contributors has
\* its steps).
ReadIdentities ==
  /\ GotoStage(Detect, "running", "read")
  /\ Holding(Detect, known)
  /\ UNCHANGED <<head, known, had, lastAnalyzed, survival, grouped, slipped, mishaps,
                 unrecorded>>

Group ==
  /\ GotoStage(Detect, "read", "none")
  /\ grouped' = grouped \cup holds[Detect]
  /\ Holding(Detect, {})
  /\ UNCHANGED <<head, known, had, lastAnalyzed, survival, slipped, mishaps, unrecorded>>

PipelineNext ==
  \/ \E r \in Source :
       \/ \E h \in Sha : PushHead(r, h)
       \/ RequestSync(r) \/ Ingest(r) \/ FollowWithDeep(r) \/ FollowWithDetect(r)
       \/ ResolveHead(r) \/ Analyze(r) \/ StoreAnalysis(r) \/ RecordAnalyzed(r)
  \/ \E t \in Tasks : Dequeue(t) \/ JobFails(t)
  \/ ReadIdentities \/ Group

PipelineSpec == PipelineInit /\ [][PipelineNext]_pipelineVars

-----------------------------------------------------------------------------
(* Properties *)

\* "Re-group contributors after the sync so newly-seen identities are
\* clustered": an author that was ingested and belongs to no contributor has a
\* sync that is not over or a detect_contributors that has not read the
\* identities, or read this one; or the follow-up was lost to a failure, or by
\* coalescing with a job that had read.
IdentitiesGrouped ==
  \A a \in known \ grouped :
    \/ \E r \in Source : task[Sync(r)] # "none"
    \/ task[Detect] \in {"pending", "running"}
    \/ a \in holds[Detect]
    \/ Detect \in slipped

\* What a repository's HEAD was when it was ingested, or has been since, is the
\* analysis on record; or a sync or a deep_analyze is under way that will make
\* it so, or the follow-up was lost to a failure, or by coalescing with a job
\* that had the HEAD before.
Followed(r) ==
  \/ had[r] = {}
  \/ lastAnalyzed[r] \in had[r]
  \/ task[Sync(r)] \in {"pending", "running", "read"}
  \/ task[Deep(r)] \in {"pending", "running"}
  \/ task[Deep(r)] # "none" /\ holds[Deep(r)] \subseteq had[r]
  \/ Deep(r) \in slipped

\* The head on record is the one the rows were computed from, except between
\* the two transactions or after the second failed.
Recorded(r) ==
  \/ lastAnalyzed[r] = survival[r]
  \/ task[Deep(r)] = "stored"
  \/ r \in unrecorded

\* SKIP-UNCHANGED skips what was analysed and no more (AnalyzeRepoDeep).
AnalysisFollows == \A r \in Source : Followed(r) /\ Recorded(r)

\* Both: the jobs that follow a sync see what it brought.
FollowUpsSound == IdentitiesGrouped /\ AnalysisFollows
=============================================================================
