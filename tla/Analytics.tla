----------------------------- MODULE Analytics -----------------------------
(***************************************************************************)
(* The analytics dashboard (src/internal/store/analytics.go,               *)
(* src/internal/analytics, src/internal/api/analytics.go): the panels are  *)
(* separate requests, each of one or a few statements over the commits,    *)
(* pull requests and issues of a window; syncs store rows, and people are  *)
(* regrouped, between two statements and between two panels.  A person is  *)
(* picked from the leaderboard by its id.                                  *)
(***************************************************************************)
EXTENDS Integers, Sequences, FiniteSets, FiniteSetsExt, SequencesExt

CONSTANTS
  Person,     \* contributors
  Mail,       \* addresses
  MaxHandle,  \* handles are 1 .. MaxHandle, 0 is none (bound)
  NoOne,      \* no person, no address
  LastDay,    \* days (bound)
  CommitKind, \* [repo, mail, handle, agent, lines]: commits but for their day
  IssueKind,  \* [project, repo]
  MaxFacts    \* commits, pull requests and issues (bound)

ASSUME AnalyticsAssumption ==
  /\ MaxHandle \in Nat /\ LastDay \in Nat /\ MaxFacts \in Nat
  /\ Mail \cap (0 .. MaxHandle) = {}
  /\ Person \cap (Mail \cup 0 .. MaxHandle) = {}
  /\ NoOne \notin Mail \cup Person \cup 0 .. MaxHandle
  /\ CommitKind \subseteq [repo : STRING, mail : Mail \cup {NoOne}, handle : 0 .. MaxHandle,
                          agent : BOOLEAN, lines : Nat]
  /\ IssueKind \subseteq [project : STRING, repo : STRING]

Handle == 1 .. MaxHandle
Author == Mail \cup Handle
ADay == 1 .. LastDay
State == {"open", "in_progress", "done", "closed", "other"}
Panel == {"pull-requests", "issue-flow", "agent-share"}

CommitFact ==
  {[repo |-> k.repo, mail |-> k.mail, handle |-> k.handle, agent |-> k.agent,
    lines |-> k.lines, day |-> d] : k \in CommitKind, d \in ADay}

\* first, merged: 0 is NULL.
PRFact ==
  [created : ADay, first : 0 .. LastDay, merged : 0 .. LastDay, state : {"open", "closed", "merged"}]

\* derived: "" is NULL.
IssueFact ==
  UNION {[project : {k.project}, repo : {k.repo}, created : ADay, updated : ADay,
          state : State, derived : {"", "done"}] : k \in IssueKind}

VARIABLES
  facts,   \* [commits, prs, issues]: the rows, in sequences
  groupOf, \* [Author -> Person or NoOne]: contributor_identities
  flagOf,  \* [Person -> "shown", "excluded" or "bot"]
  picked,  \* the person the page filters by, NoOne when it does not
  panel    \* the request under way: its statements' answers, and whether rows changed

analyticsVars == <<facts, groupOf, flagOf, picked, panel>>

NoPanel == [name |-> "none", got |-> <<>>, torn |-> FALSE]

AnalyticsTypeOK ==
  /\ facts \in [commits : Seq(CommitFact), prs : Seq(PRFact), issues : Seq(IssueFact)]
  /\ groupOf \in [Author -> Person \cup {NoOne}]
  /\ flagOf \in [Person -> {"shown", "excluded", "bot"}]
  /\ picked \in Person \cup {NoOne}
  /\ panel.name \in Panel \cup {"none"} /\ panel.torn \in BOOLEAN

AnalyticsInit ==
  /\ facts = [commits |-> <<>>, prs |-> <<>>, issues |-> <<>>]
  /\ groupOf = [i \in Author |-> NoOne]
  /\ flagOf = [p \in Person |-> "shown"]
  /\ picked = NoOne
  /\ panel = NoPanel

-----------------------------------------------------------------------------
\* The filter.  from and to are days, to being excluded; repo "" is every repository;
\* who is a set of identities, {} for everyone.

WhereClause(f, c) ==
  /\ f.from <= c.day /\ c.day < f.to
  /\ f.repo # "" => c.repo = f.repo
  /\ f.who # {} => c.mail \in f.who \/ c.handle \in f.who

\* Bounds given the wrong way round are swapped; without any, all time until now.
ParseFilter(from, to, repo) ==
  LET low == IF from = 0 THEN 1 ELSE from
      high == IF to = 0 THEN LastDay + 1 ELSE to
  IN [from |-> Min({low, high}), to |-> Max({low, high}), repo |-> repo, who |-> {}]

\* A picked person becomes the identities grouped under it; the filter falls open when
\* there are none.
ExpandAuthor(f, p) ==
  [f EXCEPT !.who = IF p = NoOne THEN {} ELSE {i \in Author : groupOf[i] = p}]

Commits(f) == {n \in DOMAIN facts.commits : WhereClause(f, facts.commits[n])}
CommitAt(n) == facts.commits[n]

SumOver(v, S) == MapThenSumSet(LAMBDA x : v[x], S)
SumOf(fun) == SumOver(fun, DOMAIN fun)
LinesOf(ns) == SumOf([n \in ns |-> CommitAt(n).lines])

\* An address, or a handle without one; 0 if there is neither.
IdentityOf(c) == IF c.mail # NoOne THEN c.mail ELSE c.handle

Summary(f) ==
  [totalCommits |-> Cardinality(Commits(f)),
   repos |-> Cardinality({CommitAt(n).repo : n \in Commits(f)}),
   contributors |-> Cardinality({IdentityOf(CommitAt(n)) : n \in Commits(f)} \ {0}),
   activeDays |-> Cardinality({CommitAt(n).day : n \in Commits(f)}),
   lines |-> LinesOf(Commits(f))]

BucketOf(bucket, d) == IF bucket = "day" THEN d ELSE (d + 1) \div 2

InBucket(f, bucket, b) == {n \in Commits(f) : BucketOf(bucket, CommitAt(n).day) = b}
Buckets(f, bucket) == {BucketOf(bucket, CommitAt(n).day) : n \in Commits(f)}

CommitsOverTime(f, bucket) ==
  [b \in Buckets(f, bucket) |-> Cardinality(InBucket(f, bucket, b))]
ChurnOverTime(f, bucket) == [b \in Buckets(f, bucket) |-> LinesOf(InBucket(f, bucket, b))]
Heatmap(f) == CommitsOverTime(f, "day")

RepoStats(f) ==
  [r \in {CommitAt(n).repo : n \in Commits(f)} |->
     Cardinality({n \in Commits(f) : CommitAt(n).repo = r})]

AgentShare(f) == Cardinality({n \in Commits(f) : CommitAt(n).agent})
AgentShareOverTime(f) ==
  [d \in {CommitAt(n).day : n \in Commits(f)} |->
     Cardinality({n \in Commits(f) : CommitAt(n).day = d /\ CommitAt(n).agent})]

\* The window of the filter is replaced by the day.
CommitsOnDay(f, d) == Commits([f EXCEPT !.from = d, !.to = d + 1])

-----------------------------------------------------------------------------
\* Commits by person.  MAX(lemail) and MAX(llogin) of the commits of an identity, ns,
\* are looked up, the address first.
ResolveAuthor(ns, i) ==
  LET handle == Max({0} \cup {CommitAt(n).handle : n \in {m \in ns : IdentityOf(CommitAt(m)) = i}})
  IN CASE i \in Mail /\ groupOf[i] # NoOne -> groupOf[i]
       [] ~(i \in Mail /\ groupOf[i] # NoOne) /\ handle # 0 -> groupOf[handle]
       [] OTHER -> NoOne

\* The key a commit among ns counts under: a person, or the identity.
KeyIn(ns, n) ==
  LET i == IdentityOf(CommitAt(n))
      p == ResolveAuthor(ns, i)
  IN IF p # NoOne THEN p ELSE i

Dropped(key) == key = 0 \/ (key \in Person /\ flagOf[key] # "shown")

\* The series resolve within a bucket, the leaderboard within the window.
KeyInBucket(f, bucket, n) ==
  KeyIn(InBucket(f, bucket, BucketOf(bucket, CommitAt(n).day)), n)

CountedIn(f, bucket) == {n \in Commits(f) : ~Dropped(KeyInBucket(f, bucket, n))}

Weigh(measure, ns) == IF measure = "commits" THEN Cardinality(ns) ELSE LinesOf(ns)

\* Everyone else begins one too late: a plausible slip.
MutantRest(ranked, top) == SubSeq(ranked, top + 2, Len(ranked))

RestOf(ranked, top) == SubSeq(ranked, top + 1, Len(ranked))

\* Those with the most first.
MostFirst(keys, weight) ==
  CHOOSE s \in SetToSeqs(keys) :
    \A r, t \in DOMAIN s : r < t => weight[s[r]] >= weight[s[t]]

\* One series for each of the first keys, and one for the others if wanted: the weight
\* of each bucket in which anyone has a commit.
Series(f, bucket, measure, top, other) ==
  LET counted == CountedIn(f, bucket)
      Of(key) == {n \in counted : KeyInBucket(f, bucket, n) = key}
      keys == {KeyInBucket(f, bucket, n) : n \in counted}
      ranked == MostFirst(keys, [k \in keys |-> Weigh(measure, Of(k))])
      axis == {BucketOf(bucket, CommitAt(n).day) : n \in counted}
      Points(ns) == [b \in axis |-> Weigh(measure, ns \cap InBucket(f, bucket, b))]
      first == [r \in 1 .. Min({top, Len(ranked)}) |-> Points(Of(ranked[r]))]
      rest == RestOf(ranked, top)
  IN IF other /\ rest # <<>> THEN Append(first, Points(UNION {Of(k) : k \in ToSet(rest)}))
     ELSE first

CommitsByContributor(f, bucket, top, other) == Series(f, bucket, "commits", top, other)
ChurnByContributor(f, bucket, top, other) == Series(f, bucket, "lines", top, other)

\* The leaderboard: a row for each key.  The active days of a person's identities add up.
Contributors(f) ==
  LET KeyOf(n) == KeyIn(Commits(f), n)
      Of(key) == {n \in Commits(f) : KeyOf(n) = key}
      DaysOf(i, key) == {CommitAt(n).day : n \in {m \in Of(key) : IdentityOf(CommitAt(m)) = i}}
  IN [key \in {k \in {KeyOf(n) : n \in Commits(f)} : ~Dropped(k)} |->
        [commits |-> Cardinality(Of(key)), lines |-> LinesOf(Of(key)),
         activeDays |-> SumOf([i \in {IdentityOf(CommitAt(n)) : n \in Of(key)} |->
                                 Cardinality(DaysOf(i, key))])]]

-----------------------------------------------------------------------------
\* Pull requests and issues.

PRWhere(f, p) == f.from <= p.created /\ p.created < f.to
PRs(f) == {n \in DOMAIN facts.prs : PRWhere(f, facts.prs[n])}
IsMerged(p) == p.state = "merged" \/ p.merged # 0

\* Two statements: the totals, then the lead times.
PRTotals(f) ==
  [total |-> Cardinality(PRs(f)),
   merged |-> Cardinality({n \in PRs(f) : IsMerged(facts.prs[n])}),
   open |-> Cardinality({n \in PRs(f) : facts.prs[n].state = "open" /\ facts.prs[n].merged = 0}),
   closed |-> Cardinality({n \in PRs(f) : /\ facts.prs[n].state = "closed"
                                           /\ facts.prs[n].merged = 0})]

StartOf(p) == IF p.first # 0 THEN p.first ELSE p.created
PRLeadTimes(f) ==
  {n \in PRs(f) : facts.prs[n].merged # 0 /\ facts.prs[n].merged >= StartOf(facts.prs[n])}

\* Both series are of those created in the window.
PRThroughput(f) ==
  [opened |-> [d \in ADay |-> Cardinality({n \in PRs(f) : facts.prs[n].created = d})],
   merged |-> [d \in ADay |-> Cardinality({n \in PRs(f) : facts.prs[n].merged = d})]]

IssueWhere(f, i, day) ==
  /\ f.from <= day /\ day < f.to
  /\ f.repo # "" => i.repo = f.repo

Effective(i) == IF i.derived # "" THEN i.derived ELSE i.state
Terminal(i) == Effective(i) \in {"done", "closed"}
Issues(f) == {n \in DOMAIN facts.issues : IssueWhere(f, facts.issues[n], facts.issues[n].created)}

IssueFlowCounts(f) ==
  [s \in State \ {"other"} |-> Cardinality({n \in Issues(f) : Effective(facts.issues[n]) = s})]

IssuesOpenedOverTime(f) ==
  [d \in ADay |-> Cardinality({n \in Issues(f) : facts.issues[n].created = d})]

IssuesClosedOverTime(f) ==
  [d \in ADay |-> Cardinality({n \in DOMAIN facts.issues :
     LET i == facts.issues[n]
     IN i.updated = d /\ IssueWhere(f, i, i.updated) /\ Terminal(i)})]

IssuesByProject(f) ==
  [p \in {facts.issues[n].project : n \in Issues(f)} |->
     LET of == {n \in Issues(f) : facts.issues[n].project = p}
         done == {n \in of : Terminal(facts.issues[n])}
     IN [open |-> Cardinality(of \ done), done |-> Cardinality(done)]]

\* Commits are those of the repositories of the project's issues of the window.
ProjectStats(f) ==
  [p \in {k.project : k \in IssueKind} \ {""} |->
     LET of == {n \in Issues(f) : facts.issues[n].project = p}
         repos == {facts.issues[n].repo : n \in of} \ {""}
     IN [issues |-> Cardinality(of),
         commits |-> Cardinality({n \in Commits(f) : CommitAt(n).repo \in repos})]]

-----------------------------------------------------------------------------
Facts == Len(facts.commits) + Len(facts.prs) + Len(facts.issues)

Statements(name) ==
  CASE name = "issue-flow" -> 4 [] name = "pull-requests" -> 3 [] name = "agent-share" -> 2
    [] name = "none" -> 0

Complete == Len(panel.got) = Statements(panel.name)

\* A row changes: an answer half read is torn, and one read is of the past.
Tear ==
  panel' = IF Complete THEN NoPanel
           ELSE [panel EXCEPT !.torn = @ \/ panel.got # <<>>]

StoreCommit ==
  /\ Facts < MaxFacts
  /\ \E c \in CommitFact : facts' = [facts EXCEPT !.commits = Append(@, c)]
  /\ Tear
  /\ UNCHANGED <<groupOf, flagOf, picked>>

OpenPR ==
  /\ Facts < MaxFacts
  /\ \E p \in PRFact :
       /\ p.state = "open" /\ p.merged = 0
       /\ facts' = [facts EXCEPT !.prs = Append(@, p)]
  /\ Tear
  /\ UNCHANGED <<groupOf, flagOf, picked>>

OpenIssue ==
  /\ Facts < MaxFacts
  /\ \E i \in IssueFact :
       /\ i.updated = i.created /\ i.derived = "" /\ i.state = "open"
       /\ facts' = [facts EXCEPT !.issues = Append(@, i)]
  /\ Tear
  /\ UNCHANGED <<groupOf, flagOf, picked>>

\* It is merged, closed, or open again.
ChangePR(n) ==
  /\ facts.prs[n].state # "merged"
  /\ \E s \in {"open", "merged", "closed"}, d \in {0} \cup facts.prs[n].created .. LastDay :
       /\ s # "merged" => d = 0
       /\ facts' = [facts EXCEPT !.prs[n].state = s, !.prs[n].merged = d]
  /\ Tear
  /\ UNCHANGED <<groupOf, flagOf, picked>>

\* updated_at is the time of the write or the platform's, which may be earlier than it.
ChangeIssue(n) ==
  /\ \E d \in facts.issues[n].created .. LastDay :
       \/ \E s \in State :
            facts' = [facts EXCEPT !.issues[n].state = s, !.issues[n].updated = d]
       \/ facts' = [facts EXCEPT !.issues[n].derived = "done", !.issues[n].updated = d]
  /\ Tear
  /\ UNCHANGED <<groupOf, flagOf, picked>>

\* Detection, a merge, a split or a deletion.
Regroup ==
  /\ \E i \in Author, p \in Person \cup {NoOne} :
       /\ groupOf[i] # p
       /\ groupOf' = [groupOf EXCEPT ![i] = p]
  /\ UNCHANGED <<facts, flagOf, picked, panel>>

FlagPerson ==
  /\ \E p \in Person, g \in {"shown", "excluded", "bot"} :
       /\ \E i \in Author : groupOf[i] = p
       /\ flagOf' = [flagOf EXCEPT ![p] = g]
  /\ UNCHANGED <<facts, groupOf, picked, panel>>

\* Everything until now, and a window whose bounds are given the wrong way round.
AllTime == ParseFilter(0, 0, "")
Windows ==
  UNION {{ParseFilter(0, 0, r), ParseFilter(LastDay, 1, r)} : r \in {"", "web"}}

\* A person is picked from the leaderboard, the page keeps it.
Pick ==
  /\ picked = NoOne
  /\ picked' \in DOMAIN Contributors(AllTime) \cap Person
  /\ UNCHANGED <<facts, groupOf, flagOf, panel>>

Answered(name, k, f) ==
  CASE name = "pull-requests" -> <<PRTotals(f), PRLeadTimes(f), PRThroughput(f)>>[k]
    [] name = "issue-flow" -> <<IssueFlowCounts(f), IssuesOpenedOverTime(f),
                                IssuesClosedOverTime(f), IssuesByProject(f)>>[k]
    [] name = "agent-share" -> <<[agent |-> AgentShare(f), human |-> Cardinality(Commits(f)) - AgentShare(f)],
                                 AgentShareOverTime(f)>>[k]

\* A panel is asked for, and its statements run, each on what is committed by then.
AskPanel ==
  /\ Complete
  /\ \E name \in Panel : panel' = [name |-> name, got |-> <<>>, torn |-> FALSE]
  /\ UNCHANGED <<facts, groupOf, flagOf, picked>>

RunStatement ==
  /\ ~Complete
  /\ panel' = [panel EXCEPT !.got = Append(@, Answered(panel.name, Len(@) + 1, AllTime))]
  /\ UNCHANGED <<facts, groupOf, flagOf, picked>>

\* The people of the commits, and the panels of several statements.
PeopleNext ==
  \/ StoreCommit
  \/ Regroup
  \/ FlagPerson
  \/ Pick

PanelNext ==
  \/ StoreCommit
  \/ OpenPR
  \/ OpenIssue
  \/ \E n \in DOMAIN facts.prs : ChangePR(n)
  \/ \E n \in DOMAIN facts.issues : ChangeIssue(n)
  \/ AskPanel
  \/ RunStatement

AnalyticsNext == PeopleNext \/ PanelNext

AnalyticsSpec == AnalyticsInit /\ [][AnalyticsNext]_analyticsVars

-----------------------------------------------------------------------------
\* Asked over one state of the tables, the charts of commits agree: days, buckets,
\* repositories and the drill-down add up to the total; and the series of the first
\* people and of everyone else add up, in each bucket, to what the excluded leave.
ChartsAgree ==
  \A f \in Windows, bucket \in {"day", "week"} :
    LET total == Cardinality(Commits(f))
        Each(b) == InBucket(f, bucket, b) \cap CountedIn(f, bucket)
        commits == CommitsByContributor(f, bucket, 1, TRUE)
        churn == ChurnByContributor(f, bucket, 1, TRUE)
    IN /\ SumOf(CommitsOverTime(f, bucket)) = total
       /\ SumOf(RepoStats(f)) = total
       /\ \A d \in f.from .. f.to - 1 :
            Cardinality(CommitsOnDay(f, d)) = IF d \in DOMAIN Heatmap(f) THEN Heatmap(f)[d] ELSE 0
       /\ \A b \in Buckets(f, bucket) : Each(b) # {} =>
            /\ SumOf([s \in DOMAIN commits |-> commits[s][b]]) = Cardinality(Each(b))
            /\ SumOf([s \in DOMAIN churn |-> churn[s][b]]) = LinesOf(Each(b))

\* The grouping is that of detection: what is on one commit is one person's.
Detected ==
  \A n \in DOMAIN facts.commits :
    LET c == CommitAt(n) IN c.mail # NoOne /\ c.handle # 0 => groupOf[c.mail] = groupOf[c.handle]

\* Then the totals of a person picked from the leaderboard are those of its row, unless
\* all its identities have gone since.
PersonAgrees ==
  Detected =>
    \A f \in Windows :
      LET board == Contributors(f)
      IN \A p \in DOMAIN board \cap Person :
           LET own == Summary(ExpandAuthor(f, p))
           IN /\ own.totalCommits = board[p].commits
              /\ own.lines = board[p].lines
              /\ own.activeDays <= board[p].activeDays

\* A panel agrees with itself: its series add up to the totals.  When rows changed
\* between its statements, the later ones show no less.
AgreeTo(first, later) == IF panel.torn THEN first <= later ELSE first = later

PanelAgrees ==
  panel # NoPanel /\ Complete =>
    CASE panel.name = "pull-requests" ->
           LET totals == panel.got[1]
               merged == SumOf(panel.got[3].merged)
           IN /\ AgreeTo(totals.total, SumOf(panel.got[3].opened))
              /\ Cardinality(panel.got[2]) <= merged
              /\ merged <= totals.merged \/ panel.torn
              /\ totals.total = totals.merged + totals.open + totals.closed
      [] panel.name = "issue-flow" ->
           LET opened == SumOf(panel.got[2])
               projects == panel.got[4]
           IN /\ SumOf(panel.got[1]) <= opened
              /\ AgreeTo(opened, SumOf([p \in DOMAIN projects |->
                                          projects[p].open + projects[p].done]))
      [] panel.name = "agent-share" -> AgreeTo(panel.got[1].agent, SumOf(panel.got[2]))

AnalyticsSound == ChartsAgree /\ PersonAgrees /\ PanelAgrees

\* What the comment of AuthorIdentities says (store/analytics.go:32): picking a grouped
\* person filters all their identities at once.  False of the code once the person was
\* merged away or deleted while the page held its id: there are no identities, and the
\* panels show everyone.
PickShowsPerson ==
  picked # NoOne =>
    \A n \in Commits(ExpandAuthor(AllTime, picked)) :
      \E i \in {CommitAt(n).mail, CommitAt(n).handle} \cap Author : groupOf[i] = picked

\* What the comment of IssueState says (store/analytics.go:1266): a state that is none of
\* the four counts as open.  False of the code: a patched issue may have any state, and
\* the counts leave it out.
EveryIssueCounted == SumOf(IssueFlowCounts(AllTime)) = Cardinality(Issues(AllTime))

\* What the comment of PRThroughput says (store/analytics.go:1186): the merged series is
\* bounded by the window too.  False of the code: it is of those created in the window.
ThroughputInWindow ==
  \A f \in Windows : \A d \in ADay :
    PRThroughput(f).merged[d] =
      IF f.from <= d /\ d < f.to
      THEN Cardinality({n \in DOMAIN facts.prs : facts.prs[n].merged = d}) ELSE 0
=============================================================================
