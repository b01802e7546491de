-------------------------------- MODULE Seed --------------------------------
(***************************************************************************)
(* The two commands that fill the demo organisations: cmd/seed, then       *)
(* cmd/seedgit.  A run is a sequence of sections, each of one or a few     *)
(* transactions; the first failure ends the process and leaves what was    *)
(* committed.  It may be run again, after any failure, on another day, for *)
(* another administrator, with or without -reset, while people use the     *)
(* demo.                                                                   *)
(*                                                                         *)
(* What a run writes is drawn from a generator of fixed seed, but how much *)
(* of it the commits take depends on the weekdays of the history, and the  *)
(* dates are counted from today: the draw is a function of the day of the  *)
(* run.  Rows differ by how their insert treats the rows of earlier runs:  *)
(* it updates them, keeps them, replaces them all, or adds to them.        *)
(***************************************************************************)
EXTENDS Integers, Sequences, FiniteSets, SequencesExt, FiniteSetsExt

CONSTANTS
  Admin,      \* addresses SUPER_ADMIN_EMAILS may begin with
  Day,
  Drawn,      \* what a run draws on a day, see Draw
  PullRequest, DrawnIssue, Deployment, \* their numbers within a draw
  DemoRepo, Sha, Window, \* Window: the periods that are invoiced, in order
  Holder, LeaveYear, \* members and their types of leave; years with leave
  MaxSeeds    \* runs of seed (bound)

\* Of a pull request: its repository, the window it merged in or 0, whether it is
\* estimated; of an issue its platform, "native" if it is not of git; of a deployment
\* its source; the days of leave of each holder in each year.
LeaveBalance == Holder \X LeaveYear
Draw ==
  [year : LeaveYear, approved : [LeaveBalance -> Nat], pending : [LeaveBalance -> Nat],
   commits : SUBSET Sha,
   prs : [PullRequest -> [repo : DemoRepo, merged : {0} \cup Window, estimated : BOOLEAN]],
   issues : [DrawnIssue -> {"native", "github", "gitlab"}],
   deployments : [Deployment -> {"github_actions", "gitlab_ci"}],
   incidents : Nat]

ASSUME SeedAssumption ==
  /\ Admin # {} /\ Day # {} /\ Drawn \in [Day -> Draw]
  /\ IsFiniteSet(Window) /\ Window = 1 .. Cardinality(Window)
  /\ MaxSeeds \in Nat

VARIABLES
  db,      \* the rows of the demo organisations
  run,     \* the run of seed: its day, administrator and -reset
  at,      \* sections it has completed
  seeding, \* "idle", "running", "failed", "done"
  since,   \* the runs since the organisations were wiped
  lived,   \* whether seedgit or a person wrote since then
  seeds    \* runs so far

seedVars == <<db, run, at, seeding, since, lived, seeds>>

Slug == {"acme-dev", "nova-labs"}
SeedRow == PullRequest \X DemoRepo
DemoNumber == 1 .. Cardinality(Window)

Run == [day : Day, admin : Admin, reset : BOOLEAN]

\* unique: the tables with a key that no draw changes, by name; prs: -1 if there is no
\* row; invoices: their window, 0 if there is none; total and lines: by number; used:
\* -1 if there is no row; involvement: the projects the rows are of.
EmptyDb ==
  [orgs |-> {}, owners |-> [o \in Slug |-> {}], unique |-> {}, projects |-> 0,
   commits |-> {}, prs |-> [k \in SeedRow |-> -1], cycles |-> [k \in SeedRow |-> 0],
   estimates |-> [k \in SeedRow |-> <<>>], gitIssues |-> {}, nativeIssues |-> 0, kudos |-> 0,
   invoices |-> [n \in DemoNumber |-> 0], total |-> [n \in DemoNumber |-> 0],
   lines |-> [n \in DemoNumber |-> <<>>], deployments |-> {}, incidents |-> 0,
   availability |-> 0, approved |-> [b \in LeaveBalance |-> 0], pending |-> [b \in LeaveBalance |-> 0],
   used |-> [b \in LeaveBalance |-> -1], timeEntries |-> 0, channels |-> 0, involvement |-> {}]

SeedTypeOK ==
  /\ DOMAIN db = DOMAIN EmptyDb
  /\ db.orgs \subseteq Slug
  /\ db.prs \in [SeedRow -> {-1, 0} \cup Window]
  /\ db.invoices \in [DemoNumber -> {0} \cup Window]
  /\ run \in Run
  /\ at \in Nat
  /\ seeding \in {"idle", "running", "failed", "done"}
  /\ since \subseteq Run
  /\ lived \in BOOLEAN
  /\ seeds \in 0 .. MaxSeeds

SeedInit ==
  /\ db = EmptyDb
  /\ run = CHOOSE r \in Run : TRUE
  /\ at = 0
  /\ seeding = "idle"
  /\ since = {}
  /\ lived = FALSE
  /\ seeds = 0

-----------------------------------------------------------------------------
\* The sections.  d: the rows; r: the run.

UpsertOrg(d, r, slug) ==
  [d EXCEPT !.orgs = @ \cup {slug}, !.owners[slug] = @ \cup {r.admin}]

Keyed(d, name) == [d EXCEPT !.unique = @ \cup {name}]

\* A project has no key to conflict on, so the row is inserted again, with another id.
UpsertProject(d) == [d EXCEPT !.projects = @ + 1]

\* The id of the project is part of the key.
SeedInvolvement(d) == [d EXCEPT !.involvement = @ \cup {d.projects}]

\* DO NOTHING: what has the hash is kept.
SeedCommits(d, r) == [d EXCEPT !.commits = @ \cup Drawn[r.day].commits]

RowsOfRun(r) == {<<i, Drawn[r.day].prs[i].repo>> : i \in PullRequest}
PRDrawn(r, k) == Drawn[r.day].prs[k[1]]

\* A row of the key takes the new state and date; what another draw put into another
\* repository stays.
SeedPullRequests(d, r) ==
  [d EXCEPT !.prs = [k \in SeedRow |-> IF k \in RowsOfRun(r) THEN PRDrawn(r, k).merged ELSE @[k]]]

\* One more for each merged one.
SeedCycleTimes(d, r) ==
  [d EXCEPT !.cycles = [k \in SeedRow |->
     IF k \in RowsOfRun(r) /\ PRDrawn(r, k).merged # 0 THEN @[k] + 1 ELSE @[k]]]

\* The difficulty seed writes, the one of seedgit, and the one assumed without any.
OfSeed == 2
OfSeedGit == 3
Baseline == 1

SeedEstimates(d, r) ==
  [d EXCEPT !.estimates = [k \in SeedRow |->
     IF k \in RowsOfRun(r) /\ PRDrawn(r, k).estimated THEN Append(@[k], OfSeed) ELSE @[k]]]

SeedIssues(d, r) ==
  LET issues == Drawn[r.day].issues
      native == {i \in DrawnIssue : issues[i] = "native"}
  IN [d EXCEPT !.gitIssues = @ \cup {<<i, issues[i]>> : i \in DrawnIssue \ native},
               !.nativeIssues = @ + Cardinality(native)]

\* Deleted, then inserted.
SeedKudos(d) == [d EXCEPT !.kudos = 1]

\* gatherLines: what merged in a window, a line for each repository, at the newest
\* estimate of each pull request.
Difficulty(d, k) == IF d.estimates[k] = <<>> THEN Baseline ELSE Last(d.estimates[k])

LinesOf(merged, difficulty) ==
  LET Points(repo) == MapThenSumSet(LAMBDA k : difficulty[k], {k \in merged : k[2] = repo})
  IN SetToSeq({<<repo, Points(repo)>> : repo \in {k[2] : k \in merged}})

GatherLines(d, w) ==
  LinesOf({k \in SeedRow : d.prs[k] = w}, [k \in SeedRow |-> Difficulty(d, k)])

LinesTotal(lines) ==
  LET total[n \in 0 .. Len(lines)] == IF n = 0 THEN 0 ELSE total[n - 1] + lines[n][2]
  IN total[Len(lines)]

\* The lines are deleted after the insert: a plausible slip.
MutantLines(d, n, w, lines) ==
  [d EXCEPT !.invoices[n] = w, !.total[n] = LinesTotal(lines), !.lines[n] = <<>>]

\* writeInvoice: header upserted on the number, lines deleted and inserted.
WriteInvoice(d, n, w, lines) ==
  [d EXCEPT !.invoices[n] = w, !.total[n] = LinesTotal(lines), !.lines[n] = lines]

\* A window without delivery takes no number.
Invoiced(d, w) == {v \in Window : v <= w /\ GatherLines(d, v) # <<>>}

SeedInvoice(d, w) ==
  LET lines == GatherLines(d, w)
  IN IF lines = <<>> THEN d ELSE WriteInvoice(d, Cardinality(Invoiced(d, w)), w, lines)

SeedDeployments(d, r) ==
  [d EXCEPT !.deployments = @ \cup {<<i, Drawn[r.day].deployments[i]>> : i \in Deployment}]

SeedIncidents(d, r) == [d EXCEPT !.incidents = @ + Drawn[r.day].incidents]

SeedAvailability(d) == [d EXCEPT !.availability = @ + 1]

\* Deletes every entry of the organisation, the requests of people too.
SeedLeave(d, r) ==
  [d EXCEPT !.approved = Drawn[r.day].approved, !.pending = Drawn[r.day].pending]

\* Only of the year of the run: what other years count stays.
SeedLeaveBalances(d, r) ==
  [d EXCEPT !.used = [b \in LeaveBalance |-> IF b[2] = Drawn[r.day].year THEN d.approved[b] ELSE @[b]]]

SeedTimeEntries(d) == [d EXCEPT !.timeEntries = @ + 1]

SeedNotifications(d) == [d EXCEPT !.channels = 1]

WipeDemo(d) == EmptyDb

\* The transactions of a run, in order.  Those of tables with keys no draw changes:
Fixed(name) == [do |-> "unique", name |-> name]
Do(what) == [do |-> what]

AddMembers == Fixed("org_members")
SeedSubscriptions == Fixed("subscriptions")
SeedNovaSubscription == Fixed("subscriptions of nova-labs")
UpsertRepos == Fixed("repos")
SeedContributionExtras == Fixed("contribution_snapshots")
UpsertClients == Fixed("clients")
SeedCalendarConnections == Fixed("calendar_connections")
SeedLeaveTypes == Fixed("leave_types")
SeedWebhookConfigs == Fixed("webhook_configs")

Opening ==
  <<Do("wipe"), Do("org"), AddMembers, SeedSubscriptions, Do("org2"), SeedNovaSubscription,
    UpsertRepos, Do("projects"), Do("commits"), Do("prs"), Do("cycles"), Do("estimates"),
    Do("issues"), Do("involvement"), SeedContributionExtras, Do("kudos"), UpsertClients>>
Invoicing == [w \in Window |-> [do |-> "invoice", window |-> w]]
Closing ==
  <<Do("deployments"), Do("incidents"), Do("availability"), SeedCalendarConnections,
    SeedLeaveTypes, Do("leave"), Do("balances"), Do("time"), Do("notifications"),
    SeedWebhookConfigs>>
Sections == Opening \o Invoicing \o Closing

\* The rows after a section.
AfterSection(d, s, r) ==
  CASE s.do = "wipe" -> IF r.reset THEN WipeDemo(d) ELSE d
    [] s.do = "org" -> UpsertOrg(d, r, "acme-dev")
    [] s.do = "org2" -> UpsertOrg(d, r, "nova-labs")
    [] s.do = "unique" -> Keyed(d, s.name)
    [] s.do = "projects" -> UpsertProject(d)
    [] s.do = "commits" -> SeedCommits(d, r)
    [] s.do = "prs" -> SeedPullRequests(d, r)
    [] s.do = "cycles" -> SeedCycleTimes(d, r)
    [] s.do = "estimates" -> SeedEstimates(d, r)
    [] s.do = "issues" -> SeedIssues(d, r)
    [] s.do = "involvement" -> SeedInvolvement(d)
    [] s.do = "kudos" -> SeedKudos(d)
    [] s.do = "invoice" -> SeedInvoice(d, s.window)
    [] s.do = "deployments" -> SeedDeployments(d, r)
    [] s.do = "incidents" -> SeedIncidents(d, r)
    [] s.do = "availability" -> SeedAvailability(d)
    [] s.do = "leave" -> SeedLeave(d, r)
    [] s.do = "balances" -> SeedLeaveBalances(d, r)
    [] s.do = "time" -> SeedTimeEntries(d)
    [] s.do = "notifications" -> SeedNotifications(d)

-----------------------------------------------------------------------------
StartSeed ==
  /\ seeding # "running"
  /\ seeds < MaxSeeds
  /\ run' \in Run
  /\ at' = 0
  /\ seeding' = "running"
  /\ seeds' = seeds + 1
  /\ UNCHANGED <<db, since, lived>>

SeedSection ==
  /\ seeding = "running"
  /\ db' = AfterSection(db, Sections[at + 1], run)
  /\ at' = at + 1
  /\ since' = IF at > 0 THEN since ELSE IF run.reset THEN {run} ELSE since \cup {run}
  /\ lived' = (lived /\ ~(at = 0 /\ run.reset))
  /\ seeding' = IF at' = Len(Sections) THEN "done" ELSE "running"
  /\ UNCHANGED <<run, seeds>>

\* must: the process ends.  Commits are written in batches, some of which may be there.
SeedFails ==
  /\ seeding = "running"
  /\ \E some \in SUBSET Drawn[run.day].commits :
       /\ Sections[at + 1].do # "commits" => some = {}
       /\ db' = [db EXCEPT !.commits = @ \cup some]
  /\ at' = 0
  /\ seeding' = "failed"
  /\ UNCHANGED <<run, since, lived, seeds>>

\* seedgit: the analysis of generated repositories, kept by keys, then one estimate for
\* each cycle time, in place of those of its earlier runs.
Reestimated(d) ==
  [k \in SeedRow |-> SelectSeq(d.estimates[k], LAMBDA e : e # OfSeedGit)
                        \o [n \in 1 .. d.cycles[k] |-> OfSeedGit]]

SeedGit ==
  /\ seeding # "running"
  /\ {"org_members", "repos"} \subseteq db.unique
  /\ db' = [Keyed(db, "commit_files") EXCEPT !.estimates = Reestimated(db)]
  /\ lived' = TRUE
  /\ UNCHANGED <<run, at, seeding, since, seeds>>

\* Somebody approves a request; the balance of its year is counted again, in a row that
\* is made if there is none (RecomputeUsedDays).
ApproveSeeded(b) ==
  /\ db.pending[b] > 0
  /\ db' = [db EXCEPT !.pending[b] = @ - 1, !.approved[b] = @ + 1, !.used[b] = db.approved[b] + 1]
  /\ lived' = TRUE
  /\ UNCHANGED <<run, at, seeding, since, seeds>>

SeedNext ==
  \/ StartSeed
  \/ SeedSection
  \/ SeedFails
  \/ SeedGit
  \/ \E b \in LeaveBalance : ApproveSeeded(b)

SeedSpec == SeedInit /\ [][SeedNext]_seedVars

-----------------------------------------------------------------------------
\* One run on an empty database, section by section.
RowsAfter(r) ==
  LET rows[n \in 0 .. Len(Sections)] ==
        IF n = 0 THEN EmptyDb ELSE AfterSection(rows[n - 1], Sections[n], r)
  IN rows

Fresh(r) == RowsAfter(r)[Len(Sections)]

\* What a section adds to, again and again.
Piles == {"projects", "involvement", "cycles", "estimates", "nativeIssues", "incidents",
          "availability", "timeEntries"}

\* A run with -reset that completes leaves what a first run leaves, whatever earlier runs
\* and people left.
FreshAfterReset == seeding = "done" /\ run.reset /\ ~lived => db = Fresh(run)

\* A run that completes after runs that failed anywhere, on the same day for the same
\* administrator, leaves the rows that have keys, and those that are replaced, as one run
\* would; and the invoices, whose lines are drawn from rows that pile up.
SafeRerun ==
  seeding = "done" /\ ~lived /\ (\A r \in since : [r EXCEPT !.reset = run.reset] = run) =>
    \A table \in DOMAIN db \ Piles : db[table] = Fresh(run)[table]

\* After a run, whatever came before it and comes after it: an invoice's total is that of
\* its lines, and the balances of its year count the approved leave.
SeededAddsUp ==
  /\ seeds > 0 => \A n \in DemoNumber : db.total[n] = LinesTotal(db.lines[n])
  /\ seeding = "done" =>
       \A b \in LeaveBalance : b[2] = Drawn[run.day].year => db.used[b] = db.approved[b]

SeedSound == FreshAfterReset /\ SafeRerun /\ SeededAddsUp

-----------------------------------------------------------------------------
(* What the comments say, and the code does not do *)

\* main.go:21: without -reset, running it again is safe, every insert being ON CONFLICT.
\* Projects, cycle times, estimates, native issues, incidents, availability and time
\* entries have no key to conflict on, involvement has one that holds the new project's
\* id, and another day draws other keys.
Idempotent == seeding = "done" /\ ~lived => db = Fresh(run)

\* main.go:2212: used_days "is computed from the approved leave just seeded — so remaining
\* reads true".  A run after New Year replaces the leave of the year before, and not what
\* its balances count.
BalancesTrue ==
  seeding = "done" => \A b \in LeaveBalance : db.used[b] \in {-1, db.approved[b]}
=============================================================================
