---------------------------- MODULE Migrations ----------------------------
(***************************************************************************)
(* The schema migrations: files made on branches that are merged, applied  *)
(* by `migrate up` runs that may overlap (src/cmd/migrate/main.go).        *)
(*                                                                         *)
(* A file is its version, the day it was made and a number, and a body,    *)
(* which stands for its name, its checksum and what it does to the schema. *)
(* Files of one version are read in either order: the sort is not stable.  *)
(***************************************************************************)
EXTENDS Integers, Sequences, FiniteSets, FiniteSetsExt, SequencesExt

CONSTANTS
  Branch,      \* checkouts of the repository
  Migrate,     \* runs of the command
  MaxDay,      \* days on which files are made (bound)
  MaxFiles     \* files made (bound)

ASSUME MigrationAssumption == MaxDay \in Nat \ {0} /\ MaxFiles \in Nat

VARIABLES
  today,
  filesMade,   \* how many; each has a body of its own, an edited one a new one
  files,       \* [Branch -> the files in its migrations directory]
  ran,         \* what ran on the schema since it was created, in order
  recorded,    \* the schema_migrations rows
  migrate      \* [Migrate -> where it stands]

migrationVars == <<today, filesMade, files, ran, recorded, migrate>>

Version == (1 .. MaxDay) \X (1 .. MaxFiles)
File == [version : Version, body : 1 .. MaxFiles]
NoFile == [version |-> <<0, 0>>, body |-> 0]
Idle == [step |-> "idle", want |-> {}, todo |-> {}, applied |-> {}, file |-> NoFile]

MigrationTypeOK ==
  /\ today \in 1 .. MaxDay
  /\ filesMade \in 0 .. MaxFiles
  /\ files \in [Branch -> SUBSET File]
  /\ ran \in Seq(File)
  /\ recorded \subseteq File
  /\ migrate \in [Migrate -> [step : {"idle", "reset", "loaded", "applying", "done"},
                              want : SUBSET File, todo : SUBSET File, applied : SUBSET File,
                              file : File \cup {NoFile}]]

MigrationInit ==
  /\ today = 1
  /\ filesMade = 0
  /\ files = [b \in Branch |-> {}]
  /\ ran = <<>>
  /\ recorded = {}
  /\ migrate = [r \in Migrate |-> Idle]

-----------------------------------------------------------------------------
NextDay ==
  /\ today < MaxDay
  /\ today' = today + 1
  /\ UNCHANGED <<filesMade, files, ran, recorded, migrate>>

\* cmdNew: one more than the files of the day in this checkout.
NextVersion(b) ==
  LET nths == {f.version[2] : f \in {g \in files[b] : g.version[1] = today}}
  IN <<today, 1 + Max(nths \cup {0})>>

New(b) ==
  /\ filesMade < MaxFiles
  /\ filesMade' = filesMade + 1
  /\ files' = [files EXCEPT ![b] = @ \cup {[version |-> NextVersion(b), body |-> filesMade']}]
  /\ UNCHANGED <<today, ran, recorded, migrate>>

\* A file is edited, perhaps one that was applied.
EditFile(b, f) ==
  /\ f \in files[b]
  /\ filesMade < MaxFiles
  /\ filesMade' = filesMade + 1
  /\ files' = [files EXCEPT ![b] = (@ \ {f}) \cup {[f EXCEPT !.body = filesMade']}]
  /\ UNCHANGED <<today, ran, recorded, migrate>>

\* One branch is merged into another; both sides' files are kept.
MergeBranch(b, c) ==
  /\ files' = [files EXCEPT ![b] = @ \cup files[c]]
  /\ UNCHANGED <<today, filesMade, ran, recorded, migrate>>

-----------------------------------------------------------------------------
HasVersion(rows, v) == \E g \in rows : g.version = v

Earlier(f, g) ==
  \/ f.version[1] < g.version[1]
  \/ f.version[1] = g.version[1] /\ f.version[2] < g.version[2]

\* cmdUp reads the files and, once, what has been applied.  It means to have all
\* the files applied, unless a reset comes over it.
ReadFiles(r, b) ==
  migrate' = [migrate EXCEPT ![r] =
    [Idle EXCEPT !.step = "loaded", !.want = files[b], !.todo = files[b], !.applied = recorded]]

Up(r, b) ==
  /\ migrate[r].step \in {"idle", "done"}
  /\ ReadFiles(r, b)
  /\ UNCHANGED <<today, filesMade, files, ran, recorded>>

First(todo, f) == \A g \in todo : ~Earlier(g, f)

\* Whether a file is taken for one that was applied.
IsApplied(applied, f) == HasVersion(applied, f.version)

\* It is taken for applied whatever its checksum: a plausible slip.
MutantSkipFile(r) ==
  /\ migrate[r].step = "loaded"
  /\ \E f \in migrate[r].todo :
       /\ First(migrate[r].todo, f)
       /\ IsApplied(migrate[r].applied, f)
       /\ migrate' = [migrate EXCEPT ![r].todo = @ \ {f}]
  /\ UNCHANGED <<today, filesMade, files, ran, recorded>>

\* The next file was applied as it is.
SkipFile(r) ==
  /\ migrate[r].step = "loaded"
  /\ \E f \in migrate[r].todo :
       /\ First(migrate[r].todo, f)
       /\ f \in migrate[r].applied
       /\ migrate' = [migrate EXCEPT ![r].todo = @ \ {f}]
  /\ UNCHANGED <<today, filesMade, files, ran, recorded>>

\* The next file was not: a transaction runs it and records it.
BeginFile(r) ==
  /\ migrate[r].step = "loaded"
  /\ \E f \in migrate[r].todo :
       /\ First(migrate[r].todo, f)
       /\ ~IsApplied(migrate[r].applied, f)
       /\ migrate' = [migrate EXCEPT ![r].step = "applying", ![r].file = f]
  /\ UNCHANGED <<today, filesMade, files, ran, recorded>>

\* It commits unless the version has been recorded meanwhile, or twice by itself.
CommitFile(r) ==
  LET f == migrate[r].file
  IN /\ migrate[r].step = "applying"
     /\ ~HasVersion(recorded, f.version)
     /\ ran' = Append(ran, f)
     /\ recorded' = recorded \cup {f}
     /\ migrate' = [migrate EXCEPT ![r].step = "loaded", ![r].todo = @ \ {f},
                                   ![r].file = NoFile]
     /\ UNCHANGED <<today, filesMade, files>>

\* A mismatch, a body that fails, a version recorded already, or the run is killed:
\* what it had committed stays.
UpFails(r) ==
  /\ migrate[r].step \in {"loaded", "applying", "reset"}
  /\ migrate' = [migrate EXCEPT ![r] = Idle]
  /\ UNCHANGED <<today, filesMade, files, ran, recorded>>

\* Nothing is left: it says how many were applied.
UpDone(r) ==
  /\ migrate[r].step = "loaded"
  /\ migrate[r].todo = {}
  /\ migrate' = [migrate EXCEPT ![r].step = "done", ![r].applied = {}]
  /\ UNCHANGED <<today, filesMade, files, ran, recorded>>

\* cmdReset, of a development database: the schema is dropped, once no transaction
\* holds it, and what was said to be applied no longer is; the rest is an up.
Reset(r) ==
  /\ migrate[r].step \in {"idle", "done"}
  /\ \A o \in Migrate : migrate[o].step # "applying"
  /\ ran' = <<>>
  /\ recorded' = {}
  /\ migrate' = [o \in Migrate |->
       IF o = r THEN [Idle EXCEPT !.step = "reset"] ELSE [migrate[o] EXCEPT !.want = {}]]
  /\ UNCHANGED <<today, filesMade, files>>

UpAfterReset(r, b) ==
  /\ migrate[r].step = "reset"
  /\ ReadFiles(r, b)
  /\ UNCHANGED <<today, filesMade, files, ran, recorded>>

MigrationNext ==
  \/ NextDay
  \/ \E b \in Branch :
       \/ New(b)
       \/ \E f \in files[b] : EditFile(b, f)
       \/ \E c \in Branch \ {b} : MergeBranch(b, c)
  \/ \E r \in Migrate :
       \/ \E b \in Branch : Up(r, b) \/ UpAfterReset(r, b)
       \/ SkipFile(r) \/ BeginFile(r) \/ CommitFile(r) \/ UpFails(r) \/ UpDone(r)
       \/ Reset(r)

MigrationSpec == MigrationInit /\ [][MigrationNext]_migrationVars

-----------------------------------------------------------------------------
\* A run that ends well has left every file it was started with recorded, with the
\* body it read, and whatever is recorded ran once and nothing else did: whichever
\* branches were merged, files edited and runs made at the same time or killed.
UpMeansApplied ==
  /\ \A r \in Migrate : migrate[r].step = "done" => migrate[r].want \subseteq recorded
  /\ recorded = ToSet(ran)
  /\ \A i, j \in DOMAIN ran : ran[i].version = ran[j].version => i = j

\* What the comment of the command says (main.go:8): files are applied in lexical
\* order.  False of the code: a branch may bring a file older than one applied.
AppliedInOrder == \A i, j \in DOMAIN ran : i < j => Earlier(ran[i], ran[j])
=============================================================================
