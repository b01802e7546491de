# A verification project for gitstate

TLA+ modules of the parts of gitstate whose correctness depends on order,
failure and time; TLC runs that check them on small instances; and theorems,
proved with TLAPS, for every value of the constants. Paths are relative to the
repository root; every modelled definition and the lines it stands for are
listed in `PROJECT.json` under `map`.

- [The system](#the-system): the inventory
- [Modules](#modules), [Runs](#runs), [Bounds](#bounds), [Fairness](#fairness)
- [What is proved](#what-is-proved), [What is only model-checked](#what-is-only-model-checked)
- [What the runs refute](#what-the-runs-refute), [Seen while reading](#seen-while-reading)
- [Not modelled](#not-modelled), [Plan](#plan)

## The system

gitstate is one Go server over Postgres with row level security per org, plus
commands. It reads repositories and derives the state of projects, and in its
commercial edition bills orgs. What matters here: each SQL statement or
`WithOrg` transaction is atomic and nothing larger is; transactions run at READ
COMMITTED, so what a transaction read may be stale when it writes; several
server processes may share one database; and a process may end between any two
statements.

| Component | State | Operations | Hard behaviour | Correct when |
|---|---|---|---|---|
| Job queue (`internal/jobs`) | `jobs` rows; the claim each worker holds | Enqueue, dequeue, done / fail / retry, RequeueStale, Start | claims of several processes, crashes, lost writes, a sweep that guesses who died | one live row per dedupe key, one runner and one more for each run that outlived the lease, final outcomes but for those, every job settles |
| Billing scheduler (`internal/billing/scheduler.go`) | the copy of a row in hand | RunBillingCycle, RunDunning, hourly loop | late sweeps, failed charges, crashes between charge and bookkeeping, two loops | no double charge, no unbilled period, dunning ends, and not early |
| Billing store (`internal/store/lifecycle.go`, `billing.go`) | `subscriptions`, `invoices` | single statements | unconditional UPDATEs from stale reads | one invoice per period |
| Paystack checkout and webhook (`ee/billing/paystack.go`) | checkout in flight; `paystack_events`, `payments` | handleCheckout, handleWebhook | at-least-once delivery, crash between record and apply, race with the scheduler | a payment is recorded once, a paid invoice has money behind it |
| Wallet ledger (`store/billing.go`, `billing/service.go`) | the balance in the newest row | top-up, debit | concurrent appends | a payment is credited once; the balance follows from the rows |
| Repository sync (`internal/sync`, `internal/git`) | commits, PRs, issues, `last_synced_at`, derived state | SyncRepo, derive | items that arrive during a pass, partial failures, concurrent writers | nothing is skipped for good without a named cause; rows agree with the platform |
| Provider clients (`internal/sync/provider.go`) | the pages read so far | every List* method | a list that changes as it is read, retries, the fallback to another API | a list that answers is whole |
| Inbound webhooks (`internal/webhooks`, `api/webhooks.go`) | LRU of delivery ids; incidents | receive, Seen, Process | redelivery after a failure, deliveries out of order, concurrent inserts | done work has a merge behind it; incidents are opened and closed as deployments say |
| Job handlers, sync API (`api/job_handlers.go`, `sync.go`), quota (`billing/quota.go`) | `repos`; an import in memory | connect, import, sync, follow-up jobs | coalescing with a running copy, check-then-act, restarts | what was synced is analysed; the quota holds but for requests at once |
| Contributor clustering (`internal/contributors`) | identities and persons | detect, merge, split, delete, prune | overlapping detections and edits | identities that are alike end up together |
| Auth (`internal/auth`, `store/refresh_tokens.go`) | refresh token families | login, refresh, logout | concurrent rotation, rotation against revocation | one live token per login; an ended login stays ended |
| Organisations (`api/orgs.go`, `store/orgs.go`) | orgs, members, invitations | sign-up, create, invite, accept, change, remove | reads in one statement, writes in another | an invitation is spent once |
| Client invoices (`api/invoices.go`, `store/invoicing.go`) | numbers, amounts, share token | create, generate, patch | MAX + 1, lost updates | numbers are unique; the total follows from the amounts |
| Leave and calendars (`api/capacity.go`, `calendar.go`) | entries, balances, calendar events | request, decide, push | concurrent decisions, failed calls | balances and events follow the decisions |
| Git connections (`api/connect.go`, `store/connections.go`) | the connection row, hooks, secret | callbacks, adoption, token cache, disconnect | whole-row writes from stale reads | the row and the hooks agree with the platform |
| Calibration (`internal/calibration`, `metrics/compute.go`) | samples, curves, estimates | estimate, recompute | overlapping recomputes, sparse cohorts | a curve is one of real samples |
| Chat (`internal/chat`, `internal/llm`) | the turn in progress | stream, tools, rounds | cut streams, clients that leave | model and client are told the same |
| Accounting connectors (`internal/accounting`) | the connection, references | consent, refresh, push, disconnect | rotating refresh tokens used by two pushes | the refresh token stored is the one the provider takes, but for named losses |
| Importer (`internal/importer`, `api/import.go`) | projects, issues | preview, import | a tracker that changes as it is read, two imports | an import is whole or says it is not |
| Commands (`cmd/migrate`, `cmd/seed`, `cmd/seedgit`) | `schema_migrations`; the demo's rows | up, reset, new; seed | overlapping or killed runs, branches, reruns | up ends well only when all is applied; the demo stays coherent |
| Contribution report, analytics, git analysis (`internal/contribution`, `store/analytics.go`, `internal/gitanalysis`) | aggregates, the stored analysis | report, panels, deep analysis | several statements over changing rows; overlapping analyses | each is given what is theirs; the analysis is true of the history |
| Notifications (`internal/notify`, `store/notifications.go`) | channels, the log | create, patch, delete, test, preview | a channel edited while its digest is sent | a digest tells what it was sent for, and the log what became of it |
| Reports, cost, exchange, rate limiter, LLM gateway, OAuth sign-in, admin, delivery, web | little or none of their own | read, render, call out | external calls | mostly numeric or I/O |

The hazards of each, with their lines, are in `PROJECT.json` under `hazards`.

## Modules

A module of the model is one component, or the part of it that shares state:

```
JobLedger <= JobQueue                      BillingStore <- BillingScheduler <- Billing
             JobQueueProofs                                BillingProofs       PaystackProofs
             MCJobQueue                                    MCBillingScheduler  MCBilling

SyncStore <- RepoSync <- Tracker           Orgs  RepoConnect  Pipeline  Incidents  Contributors
                         TrackerProofs     WorkspaceProofs (all five)
                         MCTracker         MCWorkspace (all five)

RefreshTokens  Wallet  InvoiceNumbers  InvoicePatch  Leave  GitConnection  Listing  Seed  Notifications
AccountsProofs (all nine)                                     MCAccounts (all nine)

Calibration  Chat  Accounting  Imports  Migrations  Contribution  Analytics  GitAnalysis
ServicesProofs (the first five)  ReportsProofs (the others)   MCServices (all eight)
```

`<=` is refinement, `<-` EXTENDS. Every SQL statement or transaction, and every
call of an external system, is an action of its own; what a handler holds in
its local variables between two of them is kept in a record per request or
worker. Failures are actions or choices: a statement that fails, a call that is
refused or whose answer is lost, a process that ends.

**Jobs.** `JobQueue` models `internal/jobs/jobs.go` over the `jobs` table. A
member of `Job` is a row, of `Worker` a goroutine that lives in process
`ProcOf[w]`. Outcome writes name only the row's id, as in the code, so a worker
that lost its claim still writes. Time is relative to the columns: `wait` is
`run_after - now()`, `age` is `now() - locked_at`. `JobLedger` is what the queue
promises: jobs that are queued, run one at a time, are handed back, end once,
and are given up only after their attempts; but a job a run of which outlived
staleThreshold is overdue, and may run beside itself and end again. `KeepsLedger` is the refinement: a
row is *running* in the ledger while a worker has it, and a row that says
running with no worker on it is *queued* there.

**Billing.** `BillingStore` holds the rows of one org (tables are org-scoped) and
each statement on them; `CreateInvoice` carries the unique index
`invoices_org_period_uniq`. Time is in days, a month has `Month` days.
`BillingScheduler` is the loop: `pc[s]`, `row[s]` (the copy the scan made),
`bill[s]`. The Charger is external: it moves the money of an invoice at most
once, and its answer may be an error although it did. `Billing` adds the
checkout and the webhook on the same tables; Paystack delivers until answered.

**A tracked repository.** `SyncStore` holds what the platform has and the rows
gitstate keeps. `RepoSync` is SyncRepo, one action per fetch and per
transaction. `Tracker` adds the deliveries of the webhook: the memory of ids,
the events, and the writes of the same rows, concurrently and out of order.

**A workspace.** `Orgs` (sign-up, members, invitations), `RepoConnect` (connecting
within the quota, the import by a goroutine that outlives its request),
`Pipeline` (the jobs that follow a sync, with their dedupe keys), `Contributors`
(detection against edits), `Incidents` (deployments that open and close them).

**Accounts.** `RefreshTokens`; `Wallet` (a writer selects the newest row FOR
UPDATE and inserts its successor; visibility is the order of commits);
`InvoiceNumbers`, `InvoicePatch`; `Leave`; `GitConnection`; `Listing` (pages by
cursor or number over a list that changes); `Seed` (the two commands as
sequences of sections that a failure ends); `Notifications`.

**Services.** `Calibration`, `Chat`, `Accounting`, `Imports`, `Migrations`,
`Contribution` (the queries as statements between which rows arrive; Go's map
order is any), `Analytics` (each panel a few statements), `GitAnalysis` (blame
answered by the identity of a line, overlapping and interrupted analyses).

The three composites `MCWorkspace`, `MCAccounts` and `MCServices` check parts
that share no state: a variable `focus` says which part a behaviour is about,
and the others keep their initial state. So a run costs the sum of its parts,
not their product, and each invariant is that of one part. The same model values
stand for rows or requests of whichever part is in focus.

A comment *Mutant*, or a definition so named, marks a plausible bug: no
specification uses it, and replacing the definition it follows by it must break
the property `PROJECT.json` names beside it.

## Runs

| Run | Checks | Shows |
|---|---|---|
| JobQueue | OverlapOnlyOverrun, DedupeLive, FailedOnlyExhausted, KeepsLedger, EveryJobSettles | with handlers that take any time, two processes, crashes, lost writes, restarts and sweeps: overlapping runs are accounted for, dedupe and attempts hold, the ledger is refined, and every job ends done or failed for good |
| BillingCycle | DunnedOrgOwes, DunningDeadline, CancelNotEarly, AdvanceOnlySettled | one loop, sweeps missed and long, two faults: dunning always has its unpaid invoice and ends neither early nor late, and no period goes unbilled |
| BillingReplicas | NoDoubleCharge, AlwaysScheduled | two loops on one org, with a crash or a failed statement |
| BillingPaystack | PaidIsBacked, AppliedOnce | scheduler, checkout and two webhook requests together, with a crash, a failed statement or a lost answer, and deliveries that overlap or follow each other |
| Tracker | DoneIsBacked, PassSettles, CutoffCovers | passes and deliveries on the same rows, with failures, crashes, redelivery and late pushes |
| Workspace | InviteSpentOnce, ConnectSound, FollowUpsSound, AlikeTogether, FewDuplicates | five parts of a workspace, each under concurrent requests, jobs, failures and restarts |
| Accounts | OneLiveToken, EndedStaysEnded, BalanceSound, GivesUpOnlyBeaten, MoneyCoherent, LeaveSettled, PlatformAgrees, ListingComplete, SeedSound, NotificationsSound | nine parts of an account, likewise |
| Services | CurveSound, ChatSound, StoredTokenLives, ImportSound, UpMeansApplied, ContributionSound, AnalyticsSound, GitAnalysisSound | what surrounds the git platforms, likewise, with the reports, the dashboard and the analysis of a history |
| JobQueueSlowHandler, BillingPurgePaid, TrackerWebhookRetry, SignupWorkspace | NeverDoubleProcess, CancelOnlyUnpaid, AnsweredWasApplied, OwnWorkspace | a counterexample each to what a comment says; see [below](#what-the-runs-refute) |

The type invariants are in no cfg: each is proved, as a theorem or as a conjunct
of an inductive invariant. Deadlock is checked in the job queue and billing runs, where
time or a worker can always go on. The other cfgs say `CHECK_DEADLOCK FALSE`:
there rows, requests, deliveries or items are bounded and never reused, so a
behaviour stops when they are spent. So does BillingPurgePaid, when its invoice
rows are.

## Bounds

Every bound is a CONSTANT that appears in the guards, or the size of a set.

- Job queue: 2 rows of one key (used in order: `Ordered`), 2 workers in 2
  processes, `MaxAttempts = 2` (a first and a last attempt), `StaleAfter = 1`
  tick, 1 fault. A handler holds its row for any number of ticks: what it does
  after `StaleAfter + 1` of them does not depend on how many more there are.
- Billing: BillingCycle has months of 6 days and 27 days, room for billing, all
  five dunning attempts (days 1, 3, 5, 7, 14), the cancellation, and a sweep
  missed between them (`MaxGap = 2` days between sweeps that went through,
  `MaxSweep = 2` days a sweep may last), 2 faults and 4 invoice rows. The other
  billing runs have shorter months, which brings billing and dunning closer
  together; BillingReplicas has 2 loops, BillingPaystack 1 checkout with a
  delivery and a redelivery, in 2 requests.
- Tracker: 1 issue under both of its ids, 2 pull requests, 2 commits of which
  one is not on the main branch, 2 instants, 2 faults, 2 deliveries.
  `CONSTRAINT OneSide` in MCTracker takes either a repository where commits are
  pushed, or one where pull requests and the issue move, with one fault: they are
  in different tables, and meet only in the order of a pass, which both have.
- Workspace: 2 users and callers on 1 invitation; 3 repositories, 2 connects and
  a quota of 1, an import that loses memory once; 1 source with 2 heads and 2
  mishaps; an email, a login that is too generic to be a name and one that is like
  the email's local part, and four rows that say so in different tables, two at a
  time and one while a detection reads; 2 detections and an edit, but no edit where
  the two overlap (`FewRows`); 2 transactions on 3 incident rows, of which a person
  reports one (`FewReports`). The import runs
  beside at most one connect, of an org that is not suspended (`OneSide`): no
  status blocks the import.
- Accounts: 3 tokens in 2 logins, 2 requests; 3 writers, 3 rows, 1 payment
  reference; 3 requests for numbers, 3 tries; 2 patches of one invoice, with
  discounts from -1 to above the subtotal; 2 leave entries of which one spills
  over the year, 2 deciders, 2 calendars, 2 events; 2 callers, 3 secrets, 2
  hooks; 4 items in pages of 1, a retry each; a demo drawn on 2 days, the
  last of a year and the first of the next, for 1 holder of leave, 2
  administrators, 2 runs; 1 channel, 2 sends, weeks of 2 days, 4 days, 2 work
  rows, 2 leaves. A digest reads work or leaves, not both (`OneSource`).
- Services: 2 pull requests of one repository, weights 1 and 3, 2 recomputes;
  chats of 2 rounds and 2 frames; 2 pushes, 2 grants, 1 rotation; 3 issues in
  pages of 1, fetches of 2 pages, 2 imports; 2 branches, 2 runs, 2 days, 2 files;
  2 emails, 1 login, 2 contributors, 2 rows; 2 days, 2 rows, 2 addresses, 1
  handle; histories of 3 commits by 2 authors in 5 shapes, 2 analyses. What does
  not touch each other does not vary together (`Apart`, whose comment lists it).
- What a part out of focus leaves open at the start (a first discount, the mail
  server, which tracker it is) is fixed in the composites' Init, with comments.
- Symmetry: rows, requests and callers that the modules do not order; never in
  the liveness run.

Why they are enough: each hazard needs two actors on one row and one failure or
one more actor in between, which every run has; the theorems hold for every
value, so for the properties below the bounds only decide what TLC sees.

## Fairness

Only `JobQueue!FairSpec` states fairness, all of it weak: of the workers taken
together (while one of them can claim, end its handler or write an outcome, one of
them sooner or later does), of the start of some process, of the stale sweep (a
ticker) and of time. That a handler ends at last is an assumption: their git commands have timeouts, but
nothing bounds a handler as a whole, and `detect_contributors` has no timeout. That
one of the workers moves is less than the code gives, each being a goroutine. Faults are not fair and are
bounded, so the property says that jobs settle once faults stop. Nothing is assumed
about which eligible row a claim takes; the number of rows is finite.

## What is proved

`tlapm` proves all of it from the assumptions on the constants, which TLC
evaluates in the runs. A theorem with a condition states it as ASSUME.

**JobQueueProofs**, any number of rows, workers, processes and faults.
`TypeCorrect`; `OneLiveRow` (DedupeLive). `GivenUpLate` (FailedOnlyExhausted) is
not inductive alone, because the write of a failure trusts the worker's copy of
`attempts`; `ClaimInv` says the copy never exceeds the row's. `Exclusion`
(OverlapOnlyOverrun), from `SlotInv`: a lock is no older than the claim of its
worker, so a row taken from a worker at work has overrun; and beside the one run
that a lock in time accounts for, a job has no more than have overrun. `Finality`
(a done or failed row none of whose runs overran never changes again) and
`Implements` (KeepsLedger) follow from it, whatever handlers take: the ledger has
the overdue jobs, which may be begun beside themselves and end again, and promises
of them too that one job of a key is open and that none is given up too early.

**BillingProofs**, any number of loops: `TypeCorrect`, `StaysScheduled`
(AlwaysScheduled), `ChargedOnce` (NoDoubleCharge), which rests on `InvoiceInv`
(two rows never share a period, and every invoice in hand or charged is a row):
the unique index keeps it, the check before the insert plays no part. For a
single loop: `OwesThroughout` (DunnedOrgOwes), `CanceledLate` (CancelNotEarly)
and `NothingUnbilled` (AdvanceOnlySettled), from `CycleInv`: what the loop read
is still what the tables say, the invoice in hand is the open one of the period,
and the next retry is at least the offset of the attempt after the first
failure, which is what makes `now - offset` a safe substitute for the day of the
first failure that the code does not store. `DunningEnds` (DunningDeadline) adds
`DeadlineInv`: sweeps that go through are at most MaxGap apart, such a sweep
leaves no retry that was due when it began, and the next retry is within the
latest day of its attempt.

**PaystackProofs**, any number of loops, checkouts and invoices:
`BillingTypeCorrect`; `PaidHasMoney` (PaidIsBacked), from: a loop about to mark an
invoice paid has been told that its money moved. `PaidOnce` (AppliedOnce), with no
condition on what overlaps or fails, from `OnceInv` and `AppliedInv`: the payments of
an event and the requests that will record one are no more than one and its slips,
and no more than its slips while nothing is recorded and no request is at it; and an
event that is recorded has its payment, or a request about to record it, or was lost.

**TrackerProofs**, any number of issues, pull requests, commits, faults and
deliveries: `TrackerTypeCorrect`; `DoneHasMerge` (DoneIsBacked), because what says
that a pull request is merged was true when it was read, and a merge is final;
`CutoffSkipsOnlyNamed` (CutoffCovers), from `ReadIsHeld`: when a pass stamps the
cutoff, what it saw and did not store is named and what it did not see is late;
`UndisturbedPassSettles` (PassSettles), from `PassHolds`: how far each step of an
undisturbed pass has made the rows agree.

**WorkspaceProofs**: `OrgTypeCorrect` with unique slugs; `InviteSpent`
(InviteSpentOnce: the users an invitation made members and the requests that
hold it are no more than one and those that had found it pending);
`ConnectIsSound` (ConnectSound: what is counted and what was let through exceed
the plan by less than the number of requests; what an import has still to look at
is not lost to anything but a failure or a restart since it was asked for);
`DuplicatesAreFew` (FewDuplicates: the incidents of a deployment or an issue and
the transactions about to insert one are no more than the transactions); `FollowUpsHold` (FollowUpsSound: a
deep_analyze that holds an outdated head was passed over by a follow-up, or the
follow-up is still to come). `PersonTypeCorrect`, and `LikeStayTogether`
(AlikeTogether), from `HasRead`: a detection has read every row that was there from
its beginning to the statement for its table. So a pair such rows make alike is
linked for it; a cluster is the least closed set around each of its members, so the
two are placed by one choice. Where they end up with different persons, a row of
theirs came while it read, its cluster had several persons, or one of the two was
mapped after it had read the mapping: the pair has that reason, and no other pair.

**AccountsProofs**: `TokenTypeCorrect`, `OneLiveTokenPerLogin` (OneLiveToken),
`EndedForGood` (EndedStaysEnded); `OnlyBeatenGiveUp` (GivesUpOnlyBeaten); `AmountsTypeCorrect`
and `TotalFollows` (MoneyCoherent); `BalanceIsSound` (BalanceSound), from
`WalletInv`: rows are owned and made as their writers say, references are unique
among the indexed, and a base had committed and is older than what follows it,
with the least committed row above a base as the witness of staleness;
`LeaveIsSettled` (LeaveSettled), from `CountExact` (a count no commit has outrun
is the balance) and `Replaced` (an event not updated in place had vanished);
`PlatformWillAgree` (PlatformAgrees); `ListingsAreComplete` (ListingComplete):
what is behind the place a listing has reached is got, by counting the items
before it, for any number of items, any page size and any number of retries.
`SeedTypeCorrect` and `SeedingIsSound` (SeedSound), for any draws, windows and
administrators: `Due` says of a database that it has no row which one run would
not leave, and every row of the sections that were passed, table by table; each
section keeps that, a failure ends in between, and so a rerun after failures
anywhere on one day arrives at the rows of one run in the tables whose keys a run
finds again, while a run that began with -reset is at
each section exactly where a first run is. `Counted` and `RowsOK` keep totals and the
balances of the year of the run, people's changes included. `NotificationTypeCorrect`, and
NotificationsSound in two halves that share no step: `DigestsAreSound` for digests
built while the work, the leave and the days go on (a week that counts back from
today is the one of a quotient of days, and what was read at once is what there
was), and `SendsAreSound` for sends of any number to channels that are edited
and deleted meanwhile, from `SendInv`: the answers given and the digests left are
those asked for, in their order and each once; what is called sent has arrived,
what has arrived is called sent or its answer was lost; and the log has a row for
each that is called sent, but for those whose row was lost.

**ServicesProofs**: `EndsUpToDate` (UpMeansApplied): what a run still wants is
left to do or recorded, and what is recorded ran once. `TokenSurvives`
(StoredTokenLives), for providers that rotate always, never, or now and then: refresh
tokens are numbered as given out; with one that always rotates, a push is the only
holder of the one it was given, and so never stores an older one. `ChatTypeCorrect` and `TurnsAreAnswered`
(ChatSound), from `TurnsKept` (while calls are run, a turn that has not all its
messages lacks exactly those of the calls still to run, and nothing but one of
these may come next) and `ResultsTold` (the client has had as many results as the
model has had messages of calls, and one more while a proposal waits for its
button). `ImportsAreSound` (ImportSound), from `FetchHolds` (what existed when an import began is fetched or still to come,
which a list read by position keeps by the number of issues before each) and
`ProjectInv` (where an import found no row of a key there is none yet, unless two
were at it together). `CalibrationTypeCorrect` and `CurvesAreSound` (CurveSound), for any
weights and lead times: samples are one of each pull request that took some time,
and `CurveHolds` of what is computed from them, by the partial sums of the weights
of the sorted samples: the middles of the points follow each other, so there is a
first one past a quantile, and interpolating between two points stays between
them and keeps the order, rounded or not.

**ReportsProofs**. Reports add rows up by folds over sets, which take an operator; so
the size of a set of units, one for each thing counted, stands for a sum
(`TotalIsUnits`), and a few lemmas split, compare and regroup sums.
- `ReportTypeCorrect` and `ReportIsFair` (ContributionSound), from `AccsInv`: each
  accumulator carries exactly what the queries so far counted of its email and its
  login, each counted identity is carried by one, and fractions are ordered without
  division, so that a percentile follows what it ranks.
- `DashboardTypeCorrect`, `PanelsAddUp` (PanelAgrees) and `DashboardAgrees`
  (AnalyticsSound), from `DashboardInv`: the answers to a panel are of the rows as
  they are until one changes, and then of rows of which no less had been counted;
  two charts are one set of commits sorted into different boxes; a list cut short and
  its rest are the whole; and a person's active days are at most those of his
  identities together.
- `AnalysisTypeCorrect` and `HistoryIsTrue` (GitAnalysisSound), from `AnalysisInv`: no
  tree has a line twice, every line was born in the commit blame names, and a history
  is a chain of commits made, force pushes included. Then the lines an analysis
  traces are those its fix cut (`TracedWasCut`, `CutIsTraced`, on `HunksAre`), a line
  of HEAD was new in a commit of its author (`LineWasNew`), and one predicate,
  `ResultOK`, holds of the result in hand and, by the upserts and deletions that store
  it, of what is stored.

Proving has changed the model. `RepoSync!Progress`, `Contributors!CommitEdit` and
`Calibration!Quantile` were CASEs whose guards overlapped, so that what they said
depended on the order in which TLC tries them; they are nested IFs now, in the
order of the code. Some definitions compute the same in a form that can be
reasoned about: `Contributors!Clusters` by least closed sets, not by paths;
the sums of `Calibration` and the rows of `Seed` by recursive functions; the log
of `Notifications` as the number of rows of each kind and status. Some assumptions
that TLC's values met by chance are stated: that windows are numbered, that a
draw is a draw, that the rows a behaviour begins with are none of later days, that
the handle of nobody is no handle, that a commit edits a file once. `SendSpec` and
`DigestSpec` are the two halves of `Notifications`, which the Accounts run takes
together. `GitAnalysis!Hunks` was wrong: it let a run of lines that are gone end where
an earlier run did, which files of two lines cannot show TLC; and `WholeIsComplete`
asked for rows of people whose commits touch no file, who have none. `Analytics`
sorted by a comparison that ties leave open; it takes some order with the most first
now (`MostFirst`). The sums of `Contribution` say what they are of (`Total`).

## What is only model-checked

- `EveryJobSettles`: liveness under fairness is out of the prover's reach.

Every other property of a passing run is a theorem.

## What the runs refute

Four statements of the comments have a run; `findings` quotes them.
- *makes concurrent workers (and processes) never double-process*
  (`internal/jobs/jobs.go:276`): there is no heartbeat, so a handler that outlives
  staleThreshold has its row put back and claimed by another worker.
- *still-unpaid org is canceled* (`internal/billing/scheduler.go:51`):
  cancellation does not look at the invoice, and a payment at Paystack does not
  clear the dunning state.
- *surface 500 so the platform retries* (`internal/api/webhooks.go:111`): the
  retry comes under the same delivery id, which is already remembered.
- *append user-id suffix on conflict* (`internal/api/auth.go:334`): the upsert
  renames the organisation that has the slug, and the new user becomes its owner.

Others are kept as definitions without a run, each with the line it quotes in
its comment; TLC finds them violated when they are added to the cfg of their
component.

| Definition | What the code does instead |
|---|---|
| `JobQueue!AttemptsBounded` (jobs.go:486), `RestartReclaims` (jobs.go:208) | only a handler's error counts against the limit; a boot reclaims only what is stale |
| `Billing!RecoveredIsPaid` (scheduler.go:351), `AnsweredIsApplied` (paystack.go:435) | a checkout that is opened and not paid moves the period end; a crash between the record of an event and its processing loses the payment |
| `Tracker!CommitsNeverLost` | commits dated before the cutoff, of other branches when the clone fails, or whose insert failed are never read again |
| `Wallet!WritersSerialise` (store/billing.go:294) | a writer that waited for the newest row goes on from it although a newer one has committed |
| `Incidents!ResolvedOnce` (store/deployments.go:257), `IssueOnce` (sync/syncer.go:834) | a concurrent or later resolution stamps the incident again; two overlapping syncs both find none and insert |
| `Contributors!NobodyIsEmpty` (cluster.go:724) | of two detections that place the same identities, the later commits a person it has just made without any |
| `RepoConnect!RestartResumes` (api/sync.go:634) | what the import had still to enqueue is gone with the process; it takes another import to enqueue it |
| `Calibration!EstimatesFeedTheirRepo` (recompute.go:63) | the cohort stored is the one the estimate was computed from |
| `Chat!FailureTold` (engine.go:111) | arguments that are no JSON cannot be encoded, and the event is dropped |
| `Accounting!TokensOfCompany` | a push that outlives a reconnection writes its tokens into the new row |
| `Imports!PreviewTruncated` (import.go:163) | the sample is full before the cap is looked at |
| `Migrations!AppliedInOrder` (cmd/migrate/main.go:8) | a branch may bring a file older than one applied |
| `Contribution!QualityNeedsWork` (contribution.go:218) | who merged nothing and reverted nothing is at its top |
| `Seed!Idempotent` (cmd/seed/main.go:21) | projects, the involvement in them, cycle times and samples pile up; another day draws other keys |
| `Seed!BalancesTrue` (cmd/seed/main.go:2212) | a run after New Year replaces the leave of the year before, not what its balances count |
| `Analytics!PickShowsPerson` (store/analytics.go:32), `EveryIssueCounted` (:1266), `ThroughputInWindow` (:1186) | a person merged away while the page held their id filters nothing, so everyone is shown; a patched state is in no count; throughput is of issues created in the window |
| `Notifications!EverySendLogged` (api/notifications.go:20), `HttpsTargets` | a row is lost with its channel or its request; a patched target is not validated again |
| `GitAnalysis!OthersFixed`, `RenamedFixTraced`, `NoRowOutlives` | self-fixes count; a fix that renames a file attributes nothing; rows of vanished authors stay |

## Seen while reading

Outside the models or left out of their properties, and worth a look by those
who keep the code:

- Ids. A sync stores an issue under the platform's database id, a webhook under
  its number: two rows. The same with GitLab's merge request iid and id, and
  with deployments. `RepoIDByExternal` matches the full name, connectRepo and
  importRepos store the numeric id.
- Deployments. A cancelled one counts as a failure; a failed one is recorded as a
  success when its status cannot be fetched; a late success gives an incident
  `resolved_at < opened_at`; a redelivered old failure opens it again; a renamed
  issue duplicates it.
- Sync. A partial blame on timeout is recorded as analysed; a derived
  in_progress is never reset when the pull request closes; a permanent 403 makes
  graphQLDo wait for ever and never fall back; a later page that fails truncates
  the list of an installation's repositories; a redelivered GitLab approval adds
  review rows; patchIssue's write-backs run unordered and a failed one is
  reverted by the next sync.
- Billing. Overlapping deliveries record two payments; an invalid Paystack
  signature is answered 200; the backfill of 20260624_003 leaves legacy past_due
  rows without a next retry; `AddDate(0, -1, 0)` normalises at month ends;
  GenerateInvoice bills the LLM overage that WalletDebit drew; SumUsage includes
  both ends of its range; ReverseInvoice has no caller outside tests.
- Quota. The import and syncAll check none; CanUseManagedLLM, ResourceBuilder and
  ResourceWrite have no caller.
- Organisations. A sign-up whose second statement fails leaves an organisation
  without an owner; the last owner can be removed.
- Client invoices. A number is used again after the highest was deleted; a
  negative discount is stored raw by a patch and not clamped by a preview;
  concurrent 'sent' patches both mint a link; a generated line is 1 times a rate
  that is not its amount.
- Leave. Rejecting approved leave leaves its event (DeleteLeaveEvent has no
  caller); the balance of the following year is not recomputed for an entry that
  spills over; concurrent approvals lose a day count; overlapping leaves are
  counted twice in capacity, and the busy sync compounds its cut; an insert
  retried after a lost answer duplicates an event.
- People. Identities that are mapped are not looked at again: a row that makes two
  of them alike later, a commit whose author is stored anew or one that came between
  two statements of the detection, never brings them together; two persons of one
  cluster stay two.
- Connections. A token cache write brings a disconnected row back or overwrites a
  new one; the status page adopts an installation again after a disconnect;
  concurrent first secrets replace each other.
- Accounting. Two pushes create two external invoices; with a provider that rotates
  refresh tokens now and then, a push that got its token back (xero.go:89) may store
  it over the newer one of another push; pushed lines leave out
  discount and tax; the status page lists two of five providers; a 401 is never
  refreshed and tried again.
- Chat. Each fragment of a tool call is appended as a call; a stream cut before
  `[DONE]` counts as complete.
- Imports. Concurrent imports duplicate projects (store/import.go says it reuses
  them); a JQL that orders by what changes moves issues across pages already read.
- Migrations. Two branches may create one version; the default environment is dev,
  so reset needs no flag.
- Calibration. The first non-empty sparse cohort wins, not the first with enough
  samples; a stale recompute overwrites newer cells; cells of vanished cohorts
  stay; "the estimate is saved" after a non-fatal error is not, its transaction is
  aborted; WeeklyVelocity returns a week too many.
- Reports. A commit with neither email nor login fails the whole contribution
  report; one all-agent identity makes a person a bot; areas, reviews and active
  days of a person's identities add up; an effort estimated twice counts twice;
  doing more can lower one's score; series fall back to logins because their
  names are queried while rows are open; a person filter with no identities shows
  everyone; patchIssue accepts any state.
- Git analysis. A failed `git log` overwrites authored lines with 0, a failed
  ls-tree the surviving ones, and both are recorded as analysed; which files of a
  big fix are blamed depends on map order.
- Notifications. Schedule and enabled are stored and never read; an SMTP timeout
  may still send; an issue touched after it was done is shipped again; a merge
  synced after its week ended is in no weekly digest.
- Seed. A rerun on another day moves invoice numbers to other clients, mints a
  new share token, leaves a total that its parts do not give, deletes people's
  leave, and bills one window to two clients.

## Not modelled

In the modelled components: amounts, plans and proration; month lengths;
`handleVerify` and the wallet branch of the webhook; signatures; job priorities
and payloads; what rows, pages and messages say beyond what a property tells
apart; logging. `Imports` reads Jira in the order the code asks for without a JQL, the
newest first; with a JQL of the request's own the order is the tracker's, and ImportSound
says nothing of it. Single-loop properties of the scheduler are not claimed for two
loops, where a stale write of one may follow a success of the other, nor with a
checkout that moves the period.

Whole components with status `not_modelled` in `PROJECT.json` name their reason:
rendering and e-mail, OAuth and the calls to external models, read-only numeric
pages (cost, engineering health, admin), configuration and plumbing. Together
with the fields, parsers and SQL column lists that the models abstract from,
these are most of the lines `map` does not name.

## Plan

Done, in this order: the job queue with its ledger; billing with the scheduler
and the checkout; the tracked repository; the workspace; the accounts; the
services; their runs, mutants and the theorems above.

For the model: exchange rates as a function of a cached rate's age, and the
rate limiter, if they gain state that two requests share.
