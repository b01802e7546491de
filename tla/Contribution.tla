---------------------------- MODULE Contribution ----------------------------
(***************************************************************************)
(* The contribution report of an organisation: rows about emails, logins   *)
(* and users are added up per git identity, identities per person, and     *)
(* persons are scored against each other (LoadContributionAggregates in    *)
(* src/internal/store/contribution.go, Profiles in                         *)
(* src/internal/contribution/contribution.go).                             *)
(*                                                                         *)
(* The queries are statements of one READ COMMITTED transaction: rows may  *)
(* arrive between them.  Accumulators are searched in the order of a Go    *)
(* map, which is any.  Sources that are added up alike stand for each      *)
(* other: merged pull requests for the effort in them, issues for the      *)
(* areas owned, surviving lines for the bugs and tests.  The window and    *)
(* the fields for display are left out, and cycle times from quality.      *)
(***************************************************************************)
EXTENDS Integers, FiniteSets, FiniteSetsExt

CONSTANTS
  Email,       \* emails of commits and users
  MaxLogin,    \* logins are 1 .. MaxLogin, in alphabetical order
  Contributor, \* people the identities were grouped into
  Nobody,      \* the person of an identity in no group
  Kind,        \* what a commit may be: [agent : BOOLEAN, revert : BOOLEAN]
  DimWeight,   \* [Dim -> what a dimension weighs]
  MaxRows      \* rows of all sources (bound)

Dim == {"shipped", "review", "quality", "ownership"}

ASSUME ContributionAssumption ==
  /\ MaxLogin \in Nat
  /\ IsFiniteSet(Email) /\ Email \cap (0 .. MaxLogin) = {}
  /\ IsFiniteSet(Contributor) /\ Nobody \notin Contributor
  /\ Contributor \cap (Email \cup 1 .. MaxLogin) = {}
  /\ Kind \subseteq [agent : BOOLEAN, revert : BOOLEAN]
  /\ DimWeight \in [Dim -> Nat]
  /\ MaxRows \in Nat

VARIABLES
  commits,     \* [Commit -> how many]
  mergedPRs,   \* [Login -> merged pull requests]
  reviewed,    \* [Login -> pull requests of others]
  touched,     \* [Email -> top-level directories]
  query,       \* the query of the report that comes next
  acc,         \* byIdent: identities to accumulators
  counted,     \* what the queries returned, per source and identity
  person,      \* [Identity -> contributor_identities]
  left_out,    \* contributors excluded or marked as bots
  report       \* members and their scores

contributionVars ==
  <<commits, mergedPRs, reviewed, touched, query, acc, counted, person, left_out, report>>
rowVars == <<commits, mergedPRs, reviewed, touched>>

None == 0
Login == 1 .. MaxLogin
Identity == Email \cup Login
Commit == [email : Email \cup {None}, login : Login \cup {None}, kind : Kind]
Fact == {"human", "agent", "reverts", "merged", "reviewed", "touched"}
Nothing == [f \in Fact |-> 0]
Acc == [email : Email \cup {None}, login : Login \cup {None}, bot : BOOLEAN,
        facts : [Fact -> Nat]]
Query == {"commits", "merged", "reviewed", "touched", "collapse", "answered", "failed"}

ContributionTypeOK ==
  /\ commits \in [Commit -> 0 .. MaxRows]
  /\ mergedPRs \in [Login -> 0 .. MaxRows]
  /\ reviewed \in [Login -> 0 .. MaxRows]
  /\ touched \in [Email -> 0 .. MaxRows]
  /\ query \in Query
  /\ DOMAIN acc \subseteq Identity /\ \A k \in DOMAIN acc : acc[k] \in Acc
  /\ counted \in [Fact -> [Identity -> Nat]]
  /\ person \in [Identity -> Contributor \cup {Nobody}]
  /\ left_out \subseteq Contributor
  /\ DOMAIN report \subseteq Contributor \cup Identity
  /\ \A m \in DOMAIN report :
       report[m] \in [bot : BOOLEAN, facts : [Fact -> Nat], score : [Dim -> Nat]]

EmptyMap == [k \in {} |-> None]

Total(f, S) == MapThenSumSet(LAMBDA x : f[x], S)

ContributionInit ==
  /\ commits = [c \in Commit |-> 0]
  /\ mergedPRs = [l \in Login |-> 0]
  /\ reviewed = [l \in Login |-> 0]
  /\ touched = [e \in Email |-> 0]
  /\ query = "commits"
  /\ acc = EmptyMap
  /\ counted = [f \in Fact |-> [i \in Identity |-> 0]]
  /\ person = [i \in Identity |-> Nobody]
  /\ left_out = {}
  /\ report = EmptyMap

-----------------------------------------------------------------------------
\* Rows arrive, by syncs and webhooks.

Rows ==
  Total(commits, Commit) + Total(mergedPRs, Login) + Total(reviewed, Login)
    + Total(touched, Email)

Running == query \in Query \ {"answered", "failed"}

Arrive ==
  /\ Running
  /\ Rows < MaxRows
  /\ \/ \E c \in Commit : /\ commits' = [commits EXCEPT ![c] = @ + 1]
                          /\ UNCHANGED <<mergedPRs, reviewed, touched>>
     \/ \E l \in Login :
          \/ /\ mergedPRs' = [mergedPRs EXCEPT ![l] = @ + 1]
             /\ UNCHANGED <<commits, reviewed, touched>>
          \/ /\ reviewed' = [reviewed EXCEPT ![l] = @ + 1]
             /\ UNCHANGED <<commits, mergedPRs, touched>>
     \/ \E e \in Email : /\ touched' = [touched EXCEPT ![e] = @ + 1]
                         /\ UNCHANGED <<commits, mergedPRs, reviewed>>
  /\ UNCHANGED <<query, acc, counted, person, left_out, report>>

-----------------------------------------------------------------------------
\* The accumulators.

\* The identity of a commit is its email, or else its login.
IdentOf(c) == IF c.email # None THEN c.email ELSE c.login

Of(i) == {c \in Commit : commits[c] > 0 /\ IdentOf(c) = i}

CountOf(i, Test(_)) == Total(commits, {c \in Of(i) : Test(c)})

\* An identity whose commits are all an agent's is taken for a bot.
CommitAcc(i) ==
  [email |-> IF i \in Email THEN i ELSE None,
   login |-> Max({c.login : c \in Of(i)}),
   bot |-> \A c \in Of(i) : c.kind.agent,
   facts |-> [Nothing EXCEPT !["human"] = CountOf(i, LAMBDA c : ~c.kind.agent),
                             !["agent"] = CountOf(i, LAMBDA c : c.kind.agent),
                             !["reverts"] = CountOf(i, LAMBDA c : c.kind.revert)]]

\* A commit with neither is read as NULL, which ends the report with an error.
QueryCommits ==
  /\ query = "commits"
  /\ Of(None) = {}
  /\ LET idents == {i \in Identity : Of(i) # {}}
     IN /\ acc' = [i \in idents |-> CommitAcc(i)]
        /\ counted' = [f \in Fact |->
             [i \in Identity |-> IF i \in idents THEN CommitAcc(i).facts[f] ELSE 0]]
  /\ query' = "merged"
  /\ UNCHANGED <<rowVars, person, left_out, report>>

QueryFails ==
  /\ query = "commits"
  /\ Of(None) # {}
  /\ query' = "failed"
  /\ UNCHANGED <<rowVars, acc, counted, person, left_out, report>>

\* mergeByLogin: an accumulator of the login, whichever is found first, or one
\* under the login itself.
Homes(accs, l) ==
  LET of == {k \in DOMAIN accs : accs[k].login = l}
  IN IF of = {} THEN {l} ELSE of

Found(accs, k, email, login) ==
  IF k \in DOMAIN accs THEN accs[k]
  ELSE [email |-> email, login |-> login, bot |-> FALSE, facts |-> Nothing]

\* What a source says of each login is written where the login is at home.
ByLogin(source, f) ==
  /\ \E home \in [{l \in Login : source[l] > 0} -> Identity] :
       /\ \A l \in DOMAIN home : home[l] \in Homes(acc, l)
       /\ LET at(k) == {l \in DOMAIN home : home[l] = k}
          IN acc' = [k \in DOMAIN acc \cup {home[l] : l \in DOMAIN home} |->
               IF at(k) = {} THEN acc[k]
               ELSE [Found(acc, k, None, k) EXCEPT
                       !.facts[f] = source[CHOOSE l \in at(k) : TRUE]]]
  /\ counted' = [counted EXCEPT ![f] =
       [i \in Identity |-> IF i \in Login THEN source[i] ELSE 0]]
  /\ UNCHANGED <<rowVars, person, left_out, report>>

QueryMerged == query = "merged" /\ query' = "reviewed" /\ ByLogin(mergedPRs, "merged")
QueryReviewed == query = "reviewed" /\ query' = "touched" /\ ByLogin(reviewed, "reviewed")

\* A source per email goes to the accumulator of the email.
QueryTouched ==
  /\ query = "touched"
  /\ LET at == {e \in Email : touched[e] > 0}
     IN acc' = [k \in DOMAIN acc \cup at |->
          IF k \in at THEN [Found(acc, k, k, None) EXCEPT !.facts["touched"] = touched[k]]
          ELSE acc[k]]
  /\ counted' = [counted EXCEPT !["touched"] =
       [i \in Identity |-> IF i \in Email THEN touched[i] ELSE 0]]
  /\ query' = "collapse"
  /\ UNCHANGED <<rowVars, person, left_out, report>>

-----------------------------------------------------------------------------
\* From identities to people.

\* Without the login: a plausible slip.
MutantResolve(a, of) == IF a.email # None THEN of[a.email] ELSE Nobody

\* The person of an accumulator: that of its email, or else of its login.
Resolve(a, of) ==
  IF a.email # None /\ of[a.email] # Nobody THEN of[a.email]
  ELSE IF a.login # None THEN of[a.login] ELSE Nobody

\* mergeAcc: the facts of the accumulators of a person are added up.
MergeAcc(accs, ks, f) == Total([k \in ks |-> accs[k].facts[f]], ks)

\* A member is a person, or an accumulator in no group; those left out go.
Members(accs, of, out) ==
  LET ks(m) == IF m \in Contributor THEN {k \in DOMAIN accs : Resolve(accs[k], of) = m}
               ELSE {m}
      alone == {k \in DOMAIN accs : Resolve(accs[k], of) = Nobody}
      people == {Resolve(accs[k], of) : k \in DOMAIN accs \ alone} \ out
  IN [m \in alone \cup people |->
       [bot |-> \E k \in ks(m) : accs[k].bot,
        facts |-> [f \in Fact |-> MergeAcc(accs, ks(m), f)]]]

-----------------------------------------------------------------------------
\* Scores, in tenths, of fractions.

Less(a, b) == a[1] * b[2] < b[1] * a[2]
Equal(a, b) == a[1] * b[2] = b[1] * a[2]
Tenths(a, b) == (2 * a + b) \div (2 * b)
Full == 1000

\* QualityRaw: one reverted of so many merged, or of one when none is known.
QualityRaw(facts) ==
  IF facts["merged"] > 0 THEN <<facts["merged"], facts["merged"] + facts["reverts"]>>
  ELSE <<1, 1 + facts["reverts"]>>

Raw(facts, d) ==
  CASE d = "shipped" -> <<facts["merged"], 1>>
    [] d = "review" -> <<facts["reviewed"], 1>>
    [] d = "quality" -> QualityRaw(facts)
    [] d = "ownership" -> <<facts["touched"], 1>>

\* Normalize, by percentile: of a value among those of a cohort.
Normalize(values, m) ==
  LET cohort == DOMAIN values
      less == Cardinality({n \in cohort : Less(values[n], values[m])})
      equal == Cardinality({n \in cohort : Equal(values[n], values[m])})
  IN IF values[m][1] = 0 THEN 0
     ELSE IF equal = Cardinality(cohort) THEN Full
     ELSE Tenths(Full * (2 * less + equal), 2 * Cardinality(cohort))

\* Profiles: humans are ranked among each other, and bots not at all.
Profiles(members) ==
  LET humans == {m \in DOMAIN members : ~members[m].bot}
      values(d) == [m \in humans |-> Raw(members[m].facts, d)]
  IN [m \in DOMAIN members |->
       [bot |-> members[m].bot, facts |-> members[m].facts,
        score |-> [d \in Dim |-> IF m \in humans THEN Normalize(values(d), m) ELSE 0]]]

\* Composite: the weights count by their share, and alike when all are zero.
Composite(score) ==
  LET total == Total(DimWeight, Dim)
  IN IF total = 0 THEN Tenths(Total(score, Dim), Cardinality(Dim))
     ELSE Tenths(Total([d \in Dim |-> DimWeight[d] * score[d]], Dim), total)

\* The identities are in whatever groups detection and people have put them by now.
AnswerReport ==
  /\ query = "collapse"
  /\ person' \in [Identity -> Contributor \cup {Nobody}]
  /\ left_out' \in SUBSET Contributor
  /\ report' = Profiles(Members(acc, person', left_out'))
  /\ query' = "answered"
  /\ UNCHANGED <<rowVars, acc, counted>>

ContributionNext ==
  \/ Arrive
  \/ QueryCommits \/ QueryFails \/ QueryMerged \/ QueryReviewed \/ QueryTouched
  \/ AnswerReport

ContributionSpec == ContributionInit /\ [][ContributionNext]_contributionVars

-----------------------------------------------------------------------------
\* No accumulator has the email of one person and the login of another.
Grouped ==
  \A k \in DOMAIN acc :
    acc[k].email # None /\ acc[k].login # None
      => person[acc[k].email] = person[acc[k].login]

InReport(f, ms) ==
  Total([m \in DOMAIN report |-> report[m].facts[f]], ms \cap DOMAIN report)
Counted(f, p) == Total(counted[f], {i \in Identity : person[i] = p})

\* "a person's many emails/logins COUNT AS ONE" (LoadContributionAggregates): whatever
\* arrived between the queries and however the accumulators were searched, each person
\* who is not left out has all the facts of his emails and logins, and no others; the
\* identities of no group keep theirs; as long as an email and a login seen together
\* are of one person.
Attributed ==
  query = "answered" /\ Grouped =>
    \A f \in Fact :
      /\ InReport(f, Identity) = Counted(f, Nobody)
      /\ \A p \in Contributor :
           InReport(f, {p}) = IF p \in left_out THEN 0 ELSE Counted(f, p)

\* A score tells who did more: none for nothing, as much for as much, no less for
\* more, and nothing for a bot, however much a bot did.
Ranked ==
  \A d \in Dim : \A m, n \in DOMAIN report :
    LET x == Raw(report[m].facts, d)
        y == Raw(report[n].facts, d)
    IN /\ report[m].score[d] \in 0 .. Full
       /\ Composite(report[m].score) \in 0 .. Full
       /\ report[m].bot => report[m].score[d] = 0
       /\ x[1] = 0 => report[m].score[d] = 0
       /\ ~report[m].bot /\ ~report[n].bot =>
            /\ Less(x, y) => report[m].score[d] <= report[n].score[d]
            /\ Equal(x, y) => report[m].score[d] = report[n].score[d]

\* What the comment of Normalize says of every dimension (contribution.go:218): "you
\* cannot earn credit on a dimension you did not touch".  False of the code: quality
\* has no gate, and who merged nothing and reverted nothing is at its top.
QualityNeedsWork ==
  \A m \in DOMAIN report :
    report[m].facts["merged"] = 0 /\ report[m].facts["reverts"] = 0
      => report[m].score["quality"] = 0

\* Both: what the report says of people is theirs and in proportion.
ContributionSound == Attributed /\ Ranked
=============================================================================
