----------------------------- MODULE MCServices -----------------------------
(***************************************************************************)
(* Small instances for TLC of what the program does with services beyond   *)
(* the git platforms: the estimates of a model and the curves that         *)
(* calibrate them, the chat with one, the push of invoices to an           *)
(* accounting system, the import from another tracker, and the migrations  *)
(* of its own schema; the report on who did what of the work that was read *)
(* from them, the dashboard of it, and the analysis of the history itself. *)
(* As in MCAccounts, a behaviour is one of one part, its focus.            *)
(***************************************************************************)
EXTENDS Calibration, Chat, Accounting, Imports, Migrations, Contribution,
        Analytics, GitAnalysis, TLC

CONSTANTS x1, x2, y1, y2, m1, m2

VARIABLE focus

Focuses == {"calibration", "chat", "accounting", "imports", "migrations",
            "contribution", "people", "panels", "analysis"}

ServicesTypeOK ==
  /\ focus \in Focuses
  /\ CalibrationTypeOK
  /\ ChatTypeOK
  /\ AccountingTypeOK
  /\ ImportTypeOK
  /\ MigrationTypeOK
  /\ focus = "contribution" => ContributionTypeOK
  /\ AnalyticsTypeOK
  /\ AnalysisTypeOK

\* The large tables of a part out of focus are left empty.
NoReport ==
  /\ commits = {} /\ mergedPRs = {} /\ reviewed = {} /\ touched = {}
  /\ query = "commits" /\ acc = {} /\ counted = {} /\ person = {} /\ left_out = {}
  /\ report = EmptyMap

\* What is open at the start is left open only where it matters.
ServicesInit ==
  /\ focus \in Focuses
  /\ CalibrationInit /\ (focus # "calibration" => demo)
  /\ ChatInit
  /\ AccountingInit /\ (focus # "accounting" => rotation = "always")
  /\ ImportInit /\ (focus # "imports" => tracker = "jira")
  /\ MigrationInit
  /\ IF focus = "contribution" THEN ContributionInit ELSE NoReport
  /\ AnalyticsInit
  /\ AnalysisInit

ServicesNext ==
  \/ /\ focus = "calibration"
     /\ CalibrationNext
     /\ UNCHANGED <<focus, chatVars, accountingVars, importVars, migrationVars,
                    contributionVars, analyticsVars, analysisVars>>
  \/ /\ focus = "chat"
     /\ ChatNext
     /\ UNCHANGED <<focus, calibrationVars, accountingVars, importVars,
                    migrationVars, contributionVars, analyticsVars, analysisVars>>
  \/ /\ focus = "accounting"
     /\ AccountingNext
     /\ UNCHANGED <<focus, calibrationVars, chatVars, importVars,
                    migrationVars, contributionVars, analyticsVars, analysisVars>>
  \/ /\ focus = "imports"
     /\ ImportNext
     /\ UNCHANGED <<focus, calibrationVars, chatVars, accountingVars,
                    migrationVars, contributionVars, analyticsVars, analysisVars>>
  \/ /\ focus = "migrations"
     /\ MigrationNext
     /\ UNCHANGED <<focus, calibrationVars, chatVars, accountingVars,
                    importVars, contributionVars, analyticsVars, analysisVars>>
  \/ /\ focus = "contribution"
     /\ ContributionNext
     /\ UNCHANGED <<focus, calibrationVars, chatVars, accountingVars,
                    importVars, migrationVars, analyticsVars, analysisVars>>
  \/ /\ focus = "people"
     /\ PeopleNext
     /\ UNCHANGED <<focus, calibrationVars, chatVars, accountingVars,
                    importVars, migrationVars, contributionVars,
                    analysisVars>>
  \/ /\ focus = "panels"
     /\ PanelNext
     /\ UNCHANGED <<focus, calibrationVars, chatVars, accountingVars,
                    importVars, migrationVars, contributionVars,
                    analysisVars>>
  \/ /\ focus = "analysis"
     /\ AnalysisNext
     /\ UNCHANGED <<focus, calibrationVars, chatVars, accountingVars,
                    importVars, migrationVars, contributionVars,
                    analyticsVars>>

ServicesSpec ==
  /\ ServicesInit
  /\ [][ServicesNext]_<<focus, calibrationVars, chatVars, accountingVars,
                        importVars, migrationVars, contributionVars,
                        analyticsVars, analysisVars>>

\* Two pull requests of a repository, of one type; the second is three times as
\* recent, and longer; the first may be estimated twice.
OneRepo == 1 :> "api" @@ 2 :> "api"
OneType == 1 :> "fix" @@ 2 :> "fix"
Weights == 1 :> 1 @@ 2 :> 3
LeadTimeOf == 1 :> {2} @@ 2 :> {9}
EstimatesOf == 1 :> 2 @@ 2 :> 1

\* Two issues of a project, made before and after one of none.
KeysOfIssue == 1 :> {"API"} @@ 2 :> {} @@ 3 :> {"API"}

\* Commits of an agent, and of a human who reverts; a dimension without weight.
CommitKinds == {[agent |-> TRUE, revert |-> FALSE], [agent |-> FALSE, revert |-> TRUE]}
WeightOf == [d \in Dim |-> IF d = "quality" THEN 0 ELSE 2]

\* Commits with both an address and a handle, with one, and with neither.
CommitOf(repo, mail, handle, agent, lines) ==
  [repo |-> repo, mail |-> mail, handle |-> handle, agent |-> agent, lines |-> lines]
CommitsDrawn ==
  {CommitOf("web", m1, 1, FALSE, 1), CommitOf("web", m1, 0, FALSE, 2),
   CommitOf("api", m2, 0, TRUE, 1), CommitOf("api", Nobody, 1, FALSE, 3),
   CommitOf("web", Nobody, 0, FALSE, 1)}
IssuesDrawn == {[project |-> "core", repo |-> "web"], [project |-> "", repo |-> ""]}

\* Where two things do not touch each other, they do not vary together: a panel of
\* several statements reads one table, and of the issues one changes; a pull request of
\* the demo is estimated once; imports overlap in one of the trackers, as it is what they
\* write that they share, and a preview, which writes nothing, runs alone.
Alone(r) == \A o \in ImportRequest \ {r} : fetch[o] = NoFetch
Apart ==
  /\ focus = "panels" =>
       /\ Cardinality({k \in DOMAIN facts : facts[k] # <<>>}) <= 1
       /\ Cardinality({n \in DOMAIN facts.issues :
            LET i == facts.issues[n]
            IN i.updated # i.created \/ i.state # "open" \/ i.derived # ""}) <= 1
  /\ demo => \A p \in PR : Cardinality(estimates[p]) <= 1
  /\ tracker = "linear" => \E r \in ImportRequest : Alone(r)
  /\ \A r \in ImportRequest :
       fetch[r].step = "previewed" \/ (fetch[r].step = "fetching" /\ fetch[r].limit # 0) =>
         Alone(r)

\* What a commit does to a file, its test and the name it has: a change of both;
\* fixes that replace a line, cut some of two files, rename; and a merge
\* that settles a conflict.
E(p, q, cut, adds, front) ==
  [from |-> p, to |-> q, cut |-> cut, adds |-> adds, front |-> front]
Shapes ==
  {[kind |-> "plain", edits |-> {E("a", "a", {}, 2, FALSE), E("t", "t", {}, 1, FALSE)}],
   [kind |-> "fix", edits |-> {E("a", "a", {1}, 1, TRUE)}],
   [kind |-> "fix", edits |-> {E("a", "a", {1, 2}, 0, TRUE), E("t", "t", {1}, 1, TRUE)}],
   [kind |-> "fix", edits |-> {E("a", "b", {1}, 0, TRUE)}],
   [kind |-> "merge", edits |-> {E("a", "a", {}, 1, TRUE)}]}

Alikes == Permutations({x1, x2}) \cup Permutations({y1, y2})
=============================================================================
