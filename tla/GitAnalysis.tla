----------------------------- MODULE GitAnalysis -----------------------------
(***************************************************************************)
(* The deep analysis of a repository's history: who wrote the lines that   *)
(* survive at HEAD, whose lines the bug fixes had to repair (SZZ), and who *)
(* touches tests; and the rows it is stored in, by analyses that overlap,  *)
(* time out half way, and meet a history that was rewritten.               *)
(*                                                                         *)
(* git itself is external.  A line of code is the pair of the commit that  *)
(* introduced it and its number there, which is what blame answers; a diff *)
(* without context is the runs of lines that are gone.                     *)
(***************************************************************************)
EXTENDS Integers, Sequences, FiniteSets, FiniteSetsExt, SequencesExt, Functions

CONSTANTS
  Committer,             \* authors, by lower-cased email
  Path, TestPath,   \* files, and those IsTestPath accepts
  Deep,             \* analyses that may be under way
  Shape,            \* what a commit may do: its kind and its edits
  maxFilesPerFix,   \* 40 in the code
  MaxSha,           \* commits ever made
  OverlapSha,       \* commits up to which more than one analysis may be under way, or
                    \* a question to git may fail
  MaxLine           \* lines of a file

ASSUME AnalysisAssumption ==
  /\ TestPath \subseteq Path
  /\ {maxFilesPerFix, MaxSha, OverlapSha, MaxLine} \subseteq Nat /\ OverlapSha <= MaxSha
  /\ \A shape \in Shape :
       /\ shape.kind \in {"plain", "fix", "merge"} /\ IsFiniteSet(shape.edits)
       /\ \A e \in shape.edits : e.from \in Path /\ e.to \in Path /\ e.adds \in Nat
       /\ \A e, g \in shape.edits : e.from = g.from => e = g

VARIABLES
  commits_made,   \* every commit that was made, by its sha
  history,        \* the shas from the root to HEAD
  analysing,      \* the result an analysis is about to store
  commit_files, author_survival, bug_introductions,
  last_stored     \* what was analysed last, and whether all of git's answers came

analysisVars == <<commits_made, history, analysing, commit_files, author_survival,
                  bug_introductions, last_stored>>

Shas == DOMAIN commits_made
Made(sha) == commits_made[sha]
NoTree == <<>>

AnalysisTypeOK ==
  /\ Shas = 1 .. Len(commits_made) /\ Len(commits_made) <= MaxSha
  /\ \A sha \in Shas :
       Made(sha).author \in Committer /\ Made(sha).kind \in {"plain", "fix", "merge"}
  /\ Range(history) \subseteq Shas
  /\ DOMAIN analysing \subseteq Deep
  /\ \A f \in commit_files : f.sha \in Shas /\ f.path \in Path /\ f.adds \in Nat
  /\ DOMAIN author_survival \subseteq Committer
  /\ DOMAIN bug_introductions \subseteq Shas \X Shas

AnalysisInit ==
  /\ commits_made = <<>> /\ history = <<>> /\ analysing = <<>>
  /\ commit_files = {} /\ author_survival = <<>> /\ bug_introductions = <<>>
  /\ last_stored = [history |-> <<>>, whole |-> FALSE]

-----------------------------------------------------------------------------
\* git: commits, and what it answers about them.

Content(tree, p) == IF p \in DOMAIN tree THEN tree[p] ELSE <<>>
Head_(h) == IF h = <<>> THEN NoTree ELSE Made(Last(h)).tree
Kept(lines, cut) ==
  LET stay == CHOOSE s \in SetToSeqs(DOMAIN lines \ cut) :
                \A m, n \in DOMAIN s : m < n => s[m] < s[n]
  IN [n \in DOMAIN stay |-> lines[stay[n]]]

\* An edit cuts lines of a file and adds some before or after what is left, and may
\* rename it.
Edited(before, sha, e) ==
  LET new == [k \in 1 .. e.adds |-> <<sha, e.from, k>>]
      old == Kept(Content(before, e.from), e.cut)
  IN IF e.front THEN new \o old ELSE old \o new
Tree(before, sha, edits) ==
  LET left == DOMAIN before \ {e.from : e \in edits}
      full == {e \in edits : Edited(before, sha, e) # <<>>}
      EditOf(p) == CHOOSE e \in full : e.to = p
  IN [p \in left \cup {e.to : e \in full} |->
        IF p \in left THEN before[p] ELSE Edited(before, sha, EditOf(p))]

Overlapping == Cardinality(DOMAIN analysing) > 1

\* A commit of kind "merge" has a second parent and settles a conflict.
MakeCommit(author, shape) ==
  LET sha == Len(commits_made) + 1
      before == Head_(history)
      tree == Tree(before, sha, shape.edits)
  IN /\ sha <= (IF Overlapping THEN OverlapSha ELSE MaxSha)
     /\ \A p \in DOMAIN tree : Len(tree[p]) <= MaxLine
     /\ shape.kind = "merge" => history # <<>>
     /\ \A e \in shape.edits :
          /\ e.cut \subseteq DOMAIN Content(before, e.from)
          /\ e.to # e.from => e.from \in DOMAIN before /\ e.to \notin DOMAIN before
                               /\ e.to \in DOMAIN tree
     /\ commits_made' = Append(commits_made,
          [author |-> author, kind |-> shape.kind, root |-> history = <<>>,
           before |-> before, tree |-> tree,
           renamed |-> {e.to : e \in {e \in shape.edits : e.to # e.from}}])
     /\ history' = Append(history, sha)
     /\ UNCHANGED <<analysing, commit_files, author_survival, bug_introductions,
                    last_stored>>

\* A force push takes the last commit off the branch.
ForcePush ==
  /\ Len(history) > 1
  /\ history' = Front(history)
  /\ UNCHANGED <<commits_made, analysing, commit_files, author_survival,
                 bug_introductions, last_stored>>

Blame(line) == line[1]

\* The hunks of a file in git show --unified=0: a run of lines that are gone, or the
\* place after which lines only came.
Hunks(old, new) ==
  LET gone == {n \in DOMAIN old : old[n] \notin Range(new)}
      starts == {n \in gone : n - 1 \notin gone}
      End(n) == CHOOSE m \in gone : n <= m /\ n .. m \subseteq gone /\ m + 1 \notin gone
  IN {[start |-> n, count |-> End(n) - n + 1] : n \in starts}
       \cup IF gone = {} /\ new # old THEN {[start |-> 0, count |-> 0]} ELSE {}

Changed(sha) ==
  {p \in Path : Content(Made(sha).before, p) # Content(Made(sha).tree, p)}

-----------------------------------------------------------------------------
\* The three stages of AnalyzeRepo.

IsTestPath(p) == p \in TestPath
Logged(h) == {sha \in Range(h) : Made(sha).kind # "merge"}
Gained(sha, p) ==
  Cardinality(Range(Content(Made(sha).tree, p)) \ Range(Content(Made(sha).before, p)))

\* git log --no-merges --no-renames --numstat: a renamed file is one that went and one
\* that came.
collectCommitFiles(h) ==
  UNION {{[sha |-> sha, path |-> p, mail |-> Made(sha).author, adds |-> Gained(sha, p),
           test |-> IsTestPath(p)] : p \in Changed(sha)} : sha \in Logged(h)}
Authored(files) ==
  LET added == [f \in files |-> f.adds]
  IN [a \in {f.mail : f \in files} |->
        MapThenSumSet(LAMBDA f : added[f], {f \in files : f.mail = a})]

\* Authors of lines of the blamed files at HEAD and of logged commits.
collectSurvival(h, blamed, authored) ==
  LET lines == UNION {Range(Content(Head_(h), p)) : p \in blamed}
      Lives(a) == Cardinality({l \in lines : Made(Blame(l)).author = a})
      known == {a \in Committer : Lives(a) > 0} \cup DOMAIN authored
  IN [a \in known |->
        [surviving |-> Lives(a),
         authored |-> IF a \in DOMAIN authored THEN authored[a] ELSE 0]]

findFixCommits(h) == {sha \in Logged(h) : Made(sha).kind = "fix" /\ ~Made(sha).root}

\* Ranges by the path the file has after the fix, or had, if it is gone; a hunk without
\* lines before it has none to blame.
parseDeletedRanges(sha) ==
  LET before == Made(sha).before
      tree == Made(sha).tree
      Source(p) == IF p \in Made(sha).renamed
                   THEN CHOOSE q \in DOMAIN before : q \notin DOMAIN tree ELSE p
      paths == (Changed(sha) \cap DOMAIN tree)
                 \cup {p \in Changed(sha) \ DOMAIN tree : Made(sha).renamed = {}}
  IN [p \in paths |->
        {r \in Hunks(Content(before, Source(p)), Content(tree, p)) : r.count > 0}]

\* One line too many: a plausible slip.
MutantLastLine(r) == r.start + r.count

LastLine(r) == r.start + r.count - 1
BlamedRange(sha, p, r) == r.start .. LastLine(r)

\* The parent is blamed at that path: a file the fix renamed is not there.
BlamedLines(sha, p, r) ==
  LET lines == Content(Made(sha).before, p)
  IN {lines[n] : n \in BlamedRange(sha, p, r) \cap DOMAIN lines}

\* At most maxFilesPerFix files, in no order.
traceFix(sha, files) ==
  LET ranges == parseDeletedRanges(sha)
      lines == UNION {UNION {BlamedLines(sha, p, r) : r \in ranges[p]} : p \in files}
      intros == {Blame(l) : l \in lines}
  IN [k \in intros \X {sha} |-> Cardinality({l \in lines : Blame(l) = k[1]})]

TracedFiles(sha) ==
  LET paths == {p \in DOMAIN parseDeletedRanges(sha) : parseDeletedRanges(sha)[p] # {}}
  IN IF Cardinality(paths) <= maxFilesPerFix THEN {paths}
     ELSE kSubset(maxFilesPerFix, paths)

collectSZZ(choice) ==
  LET traced == [sha \in DOMAIN choice |-> traceFix(sha, choice[sha])]
      keys == UNION {DOMAIN traced[sha] : sha \in DOMAIN traced}
  IN [k \in keys |-> traced[k[2]][k]]

-----------------------------------------------------------------------------
\* An analysis of the HEAD it cloned.  A question to git may fail, of the log, of the tree
\* or of one file or fix, or the budget run out while files are blamed: what was found is a
\* result all the same.

Answers ==
  LET fixes == findFixCommits(history)
      all == [log |-> TRUE, blamed |-> DOMAIN Head_(history), fixes |-> fixes]
      failing == {[all EXCEPT !.log = FALSE], [all EXCEPT !.blamed = {}]}
                   \cup {[all EXCEPT !.blamed = @ \ {p}] : p \in all.blamed}
                   \cup {[all EXCEPT !.blamed = @ \ {p}, !.fixes = {}] : p \in all.blamed}
                   \cup {[all EXCEPT !.fixes = @ \ {f}] : f \in fixes}
  IN {all} \cup IF Len(commits_made) <= OverlapSha THEN failing ELSE {}

Analyze(d, answers) ==
  /\ d \notin DOMAIN analysing /\ history # <<>>
  /\ analysing = <<>> \/ Len(commits_made) <= OverlapSha
  /\ LET files == IF answers.log THEN collectCommitFiles(history) ELSE {}
     IN \E choice \in {c \in [answers.fixes -> SUBSET Path] :
                         \A sha \in answers.fixes : c[sha] \in TracedFiles(sha)} :
          analysing' = [x \in DOMAIN analysing \cup {d} |->
            IF x # d THEN analysing[x]
            ELSE [files |-> files,
                  survival |-> collectSurvival(history, answers.blamed, Authored(files)),
                  bugs |-> collectSZZ(choice),
                  history |-> history,
                  whole |-> /\ answers.log /\ answers.blamed = DOMAIN Head_(history)
                            /\ answers.fixes = findFixCommits(history)]]
  /\ UNCHANGED <<commits_made, history, commit_files, author_survival, bug_introductions,
                 last_stored>>

\* One transaction; no row is ever deleted.
Upsert(old, new) ==
  [x \in DOMAIN old \cup DOMAIN new |-> IF x \in DOMAIN new THEN new[x] ELSE old[x]]
StoreResult(d) ==
  /\ d \in DOMAIN analysing
  /\ LET res == analysing[d]
     IN /\ commit_files' = commit_files \cup res.files
        /\ author_survival' = Upsert(author_survival, res.survival)
        /\ bug_introductions' = Upsert(bug_introductions, res.bugs)
        /\ last_stored' = [history |-> res.history, whole |-> res.whole]
  /\ analysing' = Restrict(analysing, DOMAIN analysing \ {d})
  /\ UNCHANGED <<commits_made, history>>

\* The store, or what came before it, failed.
GiveUp(d) ==
  /\ d \in DOMAIN analysing
  /\ analysing' = Restrict(analysing, DOMAIN analysing \ {d})
  /\ UNCHANGED <<commits_made, history, commit_files, author_survival, bug_introductions,
                 last_stored>>

AnalysisNext ==
  \/ \E author \in Committer, shape \in Shape : MakeCommit(author, shape)
  \/ ForcePush
  \/ \E d \in Deep, answers \in Answers : Analyze(d, answers)
  \/ \E d \in Deep : StoreResult(d) \/ GiveUp(d)

AnalysisSpec == AnalysisInit /\ [][AnalysisNext]_analysisVars

-----------------------------------------------------------------------------
\* Lines of commit i that fix f cut.
CutBy(i, f) ==
  Cardinality({l \in UNION {Range(Made(f).before[p]) : p \in DOMAIN Made(f).before} :
    Blame(l) = i /\ \A p \in DOMAIN Made(f).tree : l \notin Range(Made(f).tree[p])})
LinesAt(h, a) ==
  Cardinality({l \in UNION {Range(Head_(h)[p]) : p \in DOMAIN Head_(h)} :
                 Made(Blame(l)).author = a})

\* An attribution is of a fix that is no merge to an earlier commit, and never of more
\* lines than the fix cut of it, whatever was rewritten, timed out or stored twice; each
\* file of a commit is touched once.
AttributionsTrue ==
  /\ \A k \in DOMAIN bug_introductions :
       /\ Made(k[2]).kind = "fix" /\ k[1] < k[2]
       /\ bug_introductions[k] \in 1 .. CutBy(k[1], k[2])
  /\ \A f, g \in commit_files : (f.sha = g.sha /\ f.path = g.path) => f = g

\* When git answered everything and it was stored last: every fix that renamed no file
\* and is small enough is traced to all it repaired; who has lines at HEAD, or ever had,
\* has a row with their number, and without merges no more of them survive than were
\* written.
WholeIsComplete ==
  LET h == last_stored.history
  IN last_stored.whole =>
       /\ \A f \in findFixCommits(h), i \in Shas :
            (Made(f).renamed = {} /\ Cardinality(Changed(f)) <= maxFilesPerFix
               /\ CutBy(i, f) > 0) =>
              <<i, f>> \in DOMAIN bug_introductions
                /\ bug_introductions[<<i, f>>] = CutBy(i, f)
       /\ \A a \in Committer :
            LinesAt(h, a) > 0
              \/ (\E sha \in Logged(h) : Made(sha).author = a /\ Changed(sha) # {}) =>
              /\ a \in DOMAIN author_survival
              /\ author_survival[a].surviving = LinesAt(h, a)
              /\ (\A sha \in Range(h) : Made(sha).author = a => Made(sha).kind # "merge") =>
                   author_survival[a].surviving <= author_survival[a].authored

\* What is stored of a history is true of it, and all of it when nothing failed
\* (internal/gitanalysis/gitanalysis.go, internal/store/gitanalysis.go).
GitAnalysisSound == AttributionsTrue /\ WholeIsComplete

\* These the code does not keep.  A fix of one's own bug is counted against one, though
\* the count is to be of "bugs others had to fix" (store/gitanalysis.go).
OthersFixed ==
  \A k \in DOMAIN bug_introductions : Made(k[1]).author # Made(k[2]).author
\* A file that a fix renames is blamed under a name its parent does not have.
RenamedFixTraced ==
  last_stored.whole =>
    \A f \in findFixCommits(last_stored.history), i \in Shas :
      CutBy(i, f) > 0 => <<i, f>> \in DOMAIN bug_introductions
\* Nobody's row outlives what it was counted from.
NoRowOutlives ==
  last_stored.whole =>
    \A a \in DOMAIN author_survival :
      author_survival[a].surviving = LinesAt(last_stored.history, a)
=============================================================================
