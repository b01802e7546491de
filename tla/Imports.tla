------------------------------ MODULE Imports ------------------------------
(***************************************************************************)
(* Imports of the issues of another tracker, Jira or Linear                *)
(* (src/internal/api/import.go, src/internal/importer,                     *)
(* src/internal/store/import.go).  An import first fetches everything, in  *)
(* at most MaxPages pages, while people work in the tracker; then it       *)
(* writes the projects and the issues in one transaction.  A preview stops *)
(* at a sample and writes nothing.                                         *)
(*                                                                         *)
(* Issues are numbers in the order they were made, and both trackers list  *)
(* the newest first unless a request brings a JQL of its own, which may    *)
(* order otherwise and is left out.  So is what an issue says, which each  *)
(* import overwrites.                                                      *)
(***************************************************************************)
EXTENDS Integers, Sequences, FiniteSets, FiniteSetsExt, SequencesExt

CONSTANTS
  MaxIssue,    \* issues ever made in the tracker (bound)
  ProjectKeys, \* ProjectKeys[i]: the keys of the projects of issue i, one or none
  ImportRequest,
  PageSize,    \* jiraPageSize, linearPageSize
  MaxPages,    \* jiraMaxPages, linearMaxPages
  PreviewSample,
  MaxProject   \* projects rows (bound)

Issue == 1 .. MaxIssue
ProjectKey == UNION {ProjectKeys[i] : i \in Issue}

ASSUME ImportAssumption ==
  /\ MaxIssue \in Nat /\ MaxProject \in Nat
  /\ \A i \in Issue : Cardinality(ProjectKeys[i]) <= 1
  /\ IsFiniteSet(ProjectKey)
  /\ PageSize \in Nat \ {0} /\ MaxPages \in Nat \ {0} /\ PreviewSample \in Nat \ {0}

VARIABLES
  tracker,     \* which of the two it is
  listed,      \* issues that exist in the tracker
  issuesMade,  \* issues made so far
  fetch,       \* [ImportRequest -> where it stands]
  projects,    \* the key of each projects row
  issueProject,\* [Issue -> {}, or its issues row: {project_id}, 0 being NULL]
  raced        \* whether two imports resolved their projects at a time

importVars == <<tracker, listed, issuesMade, fetch, projects, issueProject, raced>>

NoFetch == [step |-> "idle"]
ProjectRow == 1 .. MaxProject

\* An import or a preview that ended: whether it called itself truncated, and what
\* existed at its start, and still does, that it did not bring.
Ended == [step : {"previewed", "written"}, truncated : BOOLEAN, short : BOOLEAN,
          missed : SUBSET Issue]

\* got: the issues fetched, and count: how many, one possibly twice; at: startAt,
\* or the cursor; there: what existed at the start and still does; short: an issue
\* left from a page already read.
Fetch ==
  [step : {"fetching", "fetched", "resolved"}, limit : {0, PreviewSample}, page : 0 .. MaxPages,
   got : SUBSET Issue, count : Nat, at : Nat, truncated : BOOLEAN, there : SUBSET Issue,
   short : BOOLEAN, project : [ProjectKey -> 0 .. MaxProject]]

ImportTypeOK ==
  /\ tracker \in {"jira", "linear"}
  /\ listed \subseteq Issue
  /\ issuesMade \in 0 .. MaxIssue
  /\ fetch \in [ImportRequest -> {NoFetch} \cup Ended \cup Fetch]
  /\ projects \in Seq(ProjectKey) /\ Len(projects) <= MaxProject
  /\ issueProject \in [Issue -> {{}} \cup {{p} : p \in 0 .. MaxProject}]
  /\ raced \in BOOLEAN

ImportInit ==
  /\ tracker \in {"jira", "linear"}
  /\ listed = {}
  /\ issuesMade = 0
  /\ fetch = [r \in ImportRequest |-> NoFetch]
  /\ projects = <<>>
  /\ issueProject = [i \in Issue |-> {}]
  /\ raced = FALSE

-----------------------------------------------------------------------------
\* How many issues of S stand before i.
PlaceIn(S, i) == Cardinality({j \in S : j > i})
PlaceOf(i) == PlaceIn(listed, i)

MakeIssue ==
  /\ issuesMade < MaxIssue
  /\ issuesMade' = issuesMade + 1
  /\ listed' = listed \cup {issuesMade + 1}
  /\ UNCHANGED <<tracker, fetch, projects, issueProject, raced>>

\* An import after issue i is deleted or no longer matches.  In a list read by position,
\* those behind it move up, one of them onto a page already read.
WithoutIssue(f, i) ==
  IF f.step \in {"previewed", "written"} THEN [f EXCEPT !.missed = @ \ {i}]
  ELSE IF f.step \in {"fetching", "fetched", "resolved"}
  THEN [f EXCEPT !.there = @ \ {i},
                 !.short = @ \/ (f.step = "fetching" /\ tracker = "jira" /\ PlaceOf(i) < f.at)]
  ELSE f

RemoveIssue(i) ==
  /\ i \in listed
  /\ listed' = listed \ {i}
  /\ fetch' = [r \in ImportRequest |-> WithoutIssue(fetch[r], i)]
  /\ UNCHANGED <<tracker, issuesMade, projects, issueProject, raced>>

-----------------------------------------------------------------------------
StartImport(r, limit) ==
  /\ fetch[r].step \in {"idle", "previewed", "written"}
  /\ fetch' = [fetch EXCEPT ![r] =
       [step |-> "fetching", limit |-> limit, page |-> 0, got |-> {},
        count |-> 0, at |-> 0, truncated |-> FALSE, there |-> listed, short |-> FALSE,
        project |-> [k \in ProjectKey |-> 0]]]
  /\ UNCHANGED <<tracker, listed, issuesMade, projects, issueProject, raced>>

\* What is still to be listed: from a position, or behind a cursor.
Behind(f) ==
  IF tracker = "jira" THEN {i \in listed : PlaceOf(i) >= f.at}
  ELSE {i \in listed : f.at = 0 \/ i < f.at}

\* The most a page is asked for; a site may return fewer.
Wanted(f) == IF f.limit > 0 THEN Min({PageSize, f.limit - f.count}) ELSE PageSize

LastPage(f) == f.page = MaxPages - 1

\* The cap is looked at one page late: a plausible slip.
MutantTruncates(f, left) == f.page = MaxPages /\ left

\* The cap stops the fetch short of what is left, which only the last page says.
Truncates(f, left) == LastPage(f) /\ left

Over(step, f, brought) ==
  [step |-> step, truncated |-> f.truncated, short |-> f.short, missed |-> f.there \ brought]

\* A page of the list, and whether the fetch goes on behind it.
PageOf(f, size) ==
  LET behind == Behind(f) IN {i \in behind : PlaceIn(behind, i) < size}

Paged(f, size) ==
  LET page  == PageOf(f, size)
      got   == f.got \cup page
      count == f.count + Cardinality(page)
      more  == page # Behind(f)
      left  == more /\ ~(f.limit > 0 /\ count >= f.limit)
      paged == [f EXCEPT !.got = got, !.count = count, !.page = @ + 1,
                         !.truncated = Truncates(f, left),
                         !.at = IF tracker = "jira" THEN @ + Cardinality(page)
                                ELSE IF more THEN Min(page) ELSE @]
  IN IF left /\ ~LastPage(f) THEN paged
     ELSE IF f.limit > 0 THEN Over("previewed", paged, got)
     ELSE [paged EXCEPT !.step = "fetched"]

FetchPage(r) ==
  /\ fetch[r].step = "fetching"
  /\ \E size \in 1 .. Wanted(fetch[r]) : fetch' = [fetch EXCEPT ![r] = Paged(fetch[r], size)]
  /\ UNCHANGED <<tracker, listed, issuesMade, projects, issueProject, raced>>

\* The tracker refuses or fails, the deadline passes, or the transaction rolls back.
ImportFails(r) ==
  /\ fetch[r].step \in {"fetching", "fetched", "resolved"}
  /\ fetch' = [fetch EXCEPT ![r] = NoFetch]
  /\ UNCHANGED <<tracker, listed, issuesMade, projects, issueProject, raced>>

-----------------------------------------------------------------------------
KeysOf(f) == UNION {ProjectKeys[i] : i \in f.got}

\* FindOrCreateProjectByKey: any committed row of the key, or one to be created,
\* which no other transaction sees yet and nothing keeps from being made twice.
FindOrCreateProjectByKey(k) ==
  LET rows == {p \in DOMAIN projects : projects[p] = k}
  IN IF rows = {} THEN {0} ELSE rows

ResolveProjects(r) ==
  /\ fetch[r].step = "fetched"
  /\ \E project \in [ProjectKey -> 0 .. MaxProject] :
       /\ \A k \in ProjectKey : project[k] \in IF k \in KeysOf(fetch[r])
                                                THEN FindOrCreateProjectByKey(k) ELSE {0}
       /\ fetch' = [fetch EXCEPT ![r].step = "resolved", ![r].project = project]
  /\ raced' = (raced \/ \E o \in ImportRequest \ {r} : fetch[o].step = "resolved")
  /\ UNCHANGED <<tracker, listed, issuesMade, projects, issueProject>>

\* The rows an import creates, and the row it has for a key.
FreshKeys(f) == {k \in KeysOf(f) : f.project[k] = 0}
RowOf(f, rows, k) ==
  IF f.project[k] # 0 THEN f.project[k]
  ELSE CHOOSE p \in DOMAIN rows : p > Len(projects) /\ rows[p] = k

\* UpsertImportedIssue of each issue; one without a project leaves the row's.
WriteIssues(r) ==
  /\ fetch[r].step = "resolved"
  /\ LET f == fetch[r]
         rows == projects \o SetToSeq(FreshKeys(f))
     IN /\ Len(rows) <= MaxProject
        /\ projects' = rows
        /\ issueProject' = [i \in Issue |->
             IF i \notin f.got THEN issueProject[i]
             ELSE IF ProjectKeys[i] # {} THEN {RowOf(f, rows, k) : k \in ProjectKeys[i]}
             ELSE IF issueProject[i] # {} THEN issueProject[i] ELSE {0}]
        /\ fetch' = [fetch EXCEPT ![r] = Over("written", f, {i \in Issue : issueProject'[i] # {}})]
  /\ UNCHANGED <<tracker, listed, issuesMade, raced>>

ImportNext ==
  \/ MakeIssue
  \/ \E i \in Issue : RemoveIssue(i)
  \/ \E r \in ImportRequest :
       \/ \E limit \in {0, PreviewSample} : StartImport(r, limit)
       \/ FetchPage(r)
       \/ ImportFails(r)
       \/ ResolveProjects(r)
       \/ WriteIssues(r)

ImportSpec == ImportInit /\ [][ImportNext]_importVars

-----------------------------------------------------------------------------
\* An import that does not report itself truncated brought every issue that existed
\* when it began and still does, whatever was made or removed as it was read, unless
\* one was removed from a page already read by position.
ImportedAll ==
  \A r \in ImportRequest :
    fetch[r].step = "written" /\ ~fetch[r].truncated /\ ~fetch[r].short =>
      fetch[r].missed = {}

\* Importing again finds the projects it made: two have one key only if two imports
\* were at it together, and no issue is in a project of another key.
ProjectPerKey ==
  /\ \A p, q \in DOMAIN projects : projects[p] = projects[q] => p = q \/ raced
  /\ \A i \in Issue : \A p \in issueProject[i] \ {0} :
       p \in DOMAIN projects /\ projects[p] \in ProjectKeys[i]

ImportSound == ImportedAll /\ ProjectPerKey

\* What linearPreview's comment says (import.go:163): a preview that did not fetch
\* everything says it is truncated.  False of the code: the sample is full before
\* the cap is looked at.
PreviewTruncated ==
  \A r \in ImportRequest :
    fetch[r].step = "previewed" /\ fetch[r].missed # {} => fetch[r].truncated
=============================================================================
