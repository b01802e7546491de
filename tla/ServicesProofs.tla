---------------------------- MODULE ServicesProofs ----------------------------
(***************************************************************************)
(* Theorems of Migrations, Accounting, Imports, Chat and Calibration: that *)
(* a schema which is said to be up to date is, that a connection is never  *)
(* cut off by its own refreshes, that an import which calls itself         *)
(* complete is, that the assistant's model and client are told the same,   *)
(* and that the curves of the estimates are those of the lead times, for   *)
(* any number of runs, pushes, imports, rounds and pull requests.          *)
(***************************************************************************)
EXTENDS Migrations, Accounting, Imports, Chat, Calibration, FiniteSetTheorems,
        WellFoundedInduction, TLAPS

(* Numbers *)

\* A set of numbers that is not empty has a least one.
LEMMA LeastNatural ==
  ASSUME NEW S \in SUBSET Nat, S # {}
  PROVE  \E m \in S : \A n \in S : m <= n
<1> DEFINE R == {ss \in Nat \X Nat : ss[1] < ss[2]}
<1>1. IsWellFoundedOn(R, Nat)
  BY NatLessThanWellFounded DEF OpToRel
<1> HIDE DEF R
<1>2. PICK m \in S : \A n \in S : ~(<<n, m>> \in R)
  BY <1>1, WFMin
<1>3. ASSUME NEW n \in S, n < m PROVE FALSE
  <2>1. <<n, m>> \in Nat \X Nat /\ <<n, m>>[1] < <<n, m>>[2]
    BY <1>3
  <2> QED
    BY <1>2, <2>1 DEF R
<1> QED
  BY <1>3, <1>2

\* Max of a bounded set that is not empty is in it, and nothing in it is above.
LEMMA MaxIsGreatest ==
  ASSUME NEW N \in Nat, NEW S \in SUBSET (0 .. N), S # {}
  PROVE  Max(S) \in S /\ \A n \in S : n <= Max(S)
<1> DEFINE T == {N - n : n \in S}
<1>1. PICK m \in T : \A n \in T : m <= n
  <2>1. ASSUME NEW n \in S PROVE N - n \in Nat
    OBVIOUS
  <2>2. T \in SUBSET Nat
    BY <2>1
  <2>3. T # {}
    <3>1. PICK n \in S : TRUE
      OBVIOUS
    <3> QED
      BY <3>1
  <2> HIDE DEF T
  <2> QED
    BY <2>2, <2>3, LeastNatural
<1>2. PICK x \in S : m = N - x
  OBVIOUS
<1>3. \A y \in S : x >= y
  BY <1>1, <1>2
<1> QED
  BY <1>3 DEF Max

-----------------------------------------------------------------------------
(* Migrations *)

\* The numbers given on a day are among those of the files made.
Numbered == \A b \in Branch : \A f \in files[b] : f.version[2] <= filesMade

RanOnce ==
  /\ recorded = ToSet(ran)
  /\ \A i, j \in DOMAIN ran : ran[i].version = ran[j].version => i = j

\* What a run still wants is left to do or recorded; what it read as applied is
\* recorded, unless the schema was dropped since, and then it wants nothing.
Accounted(m) ==
  /\ m.step \in {"loaded", "applying"} =>
       /\ m.want \subseteq m.todo \cup recorded
       /\ m.want = {} \/ m.applied \subseteq recorded
  /\ m.step = "applying" => m.file \in File
  /\ m.step = "done" => m.want \subseteq recorded

MigrationInv ==
  /\ MigrationTypeOK
  /\ Numbered
  /\ RanOnce
  /\ \A r \in Migrate : Accounted(migrate[r])

LEMMA MigrationInitially == MigrationInit => MigrationInv
BY MigrationAssumption
DEF MigrationAssumption, MigrationInit, MigrationInv, MigrationTypeOK, Numbered, RanOnce,
    Accounted, Idle, File, Version, NoFile, ToSet

\* cmdNew's version is one of the day, with a number no greater than the files made.
LEMMA NextIsNew ==
  ASSUME MigrationInv, NEW b \in Branch, filesMade < MaxFiles
  PROVE  /\ NextVersion(b) \in Version
         /\ NextVersion(b)[2] <= filesMade + 1
<1> DEFINE nths == {f.version[2] : f \in {g \in files[b] : g.version[1] = today}}
<1>1. nths \cup {0} \in SUBSET (0 .. filesMade)
  <2>1. ASSUME NEW f \in files[b] PROVE f.version[2] \in 0 .. filesMade
    <3>1. f \in File
      BY <2>1 DEF MigrationInv, MigrationTypeOK
    <3>2. f.version \in Version
      BY <3>1 DEF File
    <3>3. f.version[2] \in 1 .. MaxFiles /\ f.version[2] <= filesMade
      BY <3>2, <2>1 DEF Version, MigrationInv, Numbered
    <3> QED
      BY <3>3, MigrationAssumption DEF MigrationAssumption, MigrationInv, MigrationTypeOK
  <2> QED
    BY <2>1 DEF MigrationInv, MigrationTypeOK
<1>2. filesMade \in Nat /\ filesMade + 1 \in 1 .. MaxFiles /\ today \in 1 .. MaxDay
  BY MigrationAssumption DEF MigrationAssumption, MigrationInv, MigrationTypeOK
<1> HIDE DEF nths
<1>3. Max(nths \cup {0}) \in nths \cup {0}
  BY <1>1, <1>2, MaxIsGreatest
<1>4. PICK n \in 0 .. filesMade : n = Max(nths \cup {0})
  BY <1>1, <1>3
<1>5. NextVersion(b) = <<today, 1 + n>>
  BY <1>4 DEF NextVersion, nths
<1>6. 1 + n \in 1 .. MaxFiles /\ 1 + n <= filesMade + 1
  BY <1>2, MigrationAssumption DEF MigrationAssumption
<1> QED
  BY <1>2, <1>5, <1>6 DEF Version

\* What ran and what was recorded do not change with the checkouts.
LEMMA CheckoutStep ==
  ASSUME MigrationInv, UNCHANGED <<today, ran, recorded, migrate>>,
         filesMade' \in {filesMade, filesMade + 1}, filesMade' <= MaxFiles,
         files' \in [Branch -> SUBSET File], Numbered'
  PROVE  MigrationInv'
<1>1. filesMade' \in 0 .. MaxFiles
  BY MigrationAssumption DEF MigrationAssumption, MigrationInv, MigrationTypeOK
<1>2. MigrationTypeOK'
  BY <1>1 DEF MigrationInv, MigrationTypeOK
<1>3. RanOnce'
  BY DEF MigrationInv, RanOnce
<1>4. \A r \in Migrate : Accounted(migrate[r])'
  BY DEF MigrationInv, Accounted
<1> QED
  BY <1>2, <1>3, <1>4 DEF MigrationInv

LEMMA FilesStep ==
  ASSUME MigrationInv, NEW b \in Branch,
         \/ New(b)
         \/ \E f \in files[b] : EditFile(b, f)
         \/ \E c \in Branch \ {b} : MergeBranch(b, c)
  PROVE  MigrationInv'
<1>1. filesMade \in Nat /\ MaxFiles \in Nat /\ filesMade <= MaxFiles
  BY MigrationAssumption DEF MigrationAssumption, MigrationInv, MigrationTypeOK
<1>2. files \in [Branch -> SUBSET File]
  BY DEF MigrationInv, MigrationTypeOK
<1>3. \A c \in Branch : \A f \in files[c] : f.version[2] <= filesMade
  BY DEF MigrationInv, Numbered
<1>4. \A c \in Branch : \A f \in files[c] : f.version[2] \in Nat
  <2> SUFFICES ASSUME NEW c \in Branch, NEW f \in files[c] PROVE f.version[2] \in Nat
    OBVIOUS
  <2>1. f \in File
    BY <1>2
  <2>2. f.version \in Version
    BY <2>1 DEF File
  <2> QED
    BY <2>2 DEF Version
<1>5. CASE New(b)
  <2>1. PICK v : v = NextVersion(b)
    OBVIOUS
  <2>2. v \in Version /\ v[2] <= filesMade + 1
    BY <1>5, <2>1, NextIsNew DEF New
  <2>3. PICK f : f = [version |-> v, body |-> filesMade + 1]
    OBVIOUS
  <2>4. f \in File /\ f.version = v
    BY <1>1, <1>5, <2>2, <2>3 DEF File, New
  <2>5. files' = [files EXCEPT ![b] = @ \cup {f}] /\ filesMade' = filesMade + 1
    BY <1>5, <2>1, <2>3 DEF New
  <2>6. files' \in [Branch -> SUBSET File]
    BY <1>2, <2>4, <2>5
  <2>7. Numbered'
    <3> SUFFICES ASSUME NEW c \in Branch, NEW g \in files'[c]
                 PROVE  g.version[2] <= filesMade'
      BY DEF Numbered
    <3>1. CASE g \in files[c]
      BY <1>1, <1>3, <1>4, <2>5, <3>1
    <3>2. CASE g = f
      BY <2>2, <2>4, <2>5, <3>2
    <3> QED
      BY <1>2, <2>5, <3>1, <3>2
  <2> QED
    BY <1>1, <1>5, <2>5, <2>6, <2>7, CheckoutStep DEF New
<1>6. ASSUME NEW f \in files[b], EditFile(b, f) PROVE MigrationInv'
  <2>1. PICK g : g = [f EXCEPT !.body = filesMade + 1]
    OBVIOUS
  <2>2. f \in File
    BY <1>2
  <2>3. g \in File /\ g.version = f.version
    BY <1>1, <1>6, <2>1, <2>2 DEF File, EditFile
  <2>4. files' = [files EXCEPT ![b] = (@ \ {f}) \cup {g}] /\ filesMade' = filesMade + 1
    BY <1>6, <2>1 DEF EditFile
  <2>5. files' \in [Branch -> SUBSET File]
    BY <1>2, <2>3, <2>4
  <2>6. Numbered'
    <3> SUFFICES ASSUME NEW c \in Branch, NEW h \in files'[c]
                 PROVE  h.version[2] <= filesMade'
      BY DEF Numbered
    <3>1. CASE h \in files[c]
      BY <1>1, <1>3, <1>4, <2>4, <3>1
    <3>2. CASE h = g
      BY <1>1, <1>3, <1>4, <2>3, <2>4, <3>2
    <3> QED
      BY <1>2, <2>4, <3>1, <3>2
  <2> QED
    BY <1>1, <1>6, <2>4, <2>5, <2>6, CheckoutStep DEF EditFile
<1>7. ASSUME NEW c \in Branch \ {b}, MergeBranch(b, c) PROVE MigrationInv'
  <2>1. files' = [files EXCEPT ![b] = @ \cup files[c]] /\ filesMade' = filesMade
    BY <1>7 DEF MergeBranch
  <2>2. files' \in [Branch -> SUBSET File]
    BY <1>2, <2>1
  <2>3. Numbered'
    BY <1>2, <1>3, <2>1 DEF Numbered
  <2> QED
    BY <1>1, <1>7, <2>1, <2>2, <2>3, CheckoutStep DEF MergeBranch
<1> QED
  BY <1>5, <1>6, <1>7

-----------------------------------------------------------------------------
MigrateState ==
  [step : {"idle", "reset", "loaded", "applying", "done"}, want : SUBSET File,
   todo : SUBSET File, applied : SUBSET File, file : File \cup {NoFile}]

\* A run moves by itself: the schema and what was recorded stay.
LEMMA MigrateMoves ==
  ASSUME MigrationInv, UNCHANGED <<today, filesMade, files, ran, recorded>>,
         NEW r \in Migrate, NEW m \in MigrateState, migrate' = [migrate EXCEPT ![r] = m],
         Accounted(m)
  PROVE  MigrationInv'
<1>1. migrate \in [Migrate -> MigrateState]
  BY DEF MigrationInv, MigrationTypeOK, MigrateState
<1>2. migrate' \in [Migrate -> MigrateState]
  BY <1>1
<1>3. MigrationTypeOK'
  BY <1>2 DEF MigrationInv, MigrationTypeOK, MigrateState
<1>4. Numbered' /\ RanOnce'
  BY DEF MigrationInv, Numbered, RanOnce
<1>5. \A o \in Migrate : Accounted(migrate'[o])
  BY <1>1 DEF MigrationInv
<1>6. \A o \in Migrate : Accounted(migrate[o])'
  BY <1>5 DEF Accounted
<1> QED
  BY <1>3, <1>4, <1>6 DEF MigrationInv

LEMMA IdleIsAccounted == Idle \in MigrateState /\ Accounted(Idle)
BY DEF Idle, MigrateState, Accounted

LEMMA ReadStep ==
  ASSUME MigrationInv, NEW r \in Migrate, NEW b \in Branch,
         Up(r, b) \/ UpAfterReset(r, b)
  PROVE  MigrationInv'
<1>1. PICK m : m = [step |-> "loaded", want |-> files[b], todo |-> files[b],
                    applied |-> recorded, file |-> NoFile]
  OBVIOUS
<1>2. m \in MigrateState
  BY <1>1 DEF MigrateState, MigrationInv, MigrationTypeOK
<1>3. Accounted(m)
  BY <1>1 DEF Accounted
<1>4. migrate' = [migrate EXCEPT ![r] = m] /\ UNCHANGED <<today, filesMade, files, ran, recorded>>
  BY <1>1 DEF Up, UpAfterReset, ReadFiles, Idle
<1> QED
  BY <1>2, <1>3, <1>4, MigrateMoves

LEMMA FileStep ==
  ASSUME MigrationInv, NEW r \in Migrate,
         SkipFile(r) \/ BeginFile(r) \/ UpFails(r) \/ UpDone(r)
  PROVE  MigrationInv'
<1>1. migrate[r] \in MigrateState
  BY DEF MigrationInv, MigrationTypeOK, MigrateState
<1>2. Accounted(migrate[r])
  BY DEF MigrationInv
<1>3. UNCHANGED <<today, filesMade, files, ran, recorded>>
  BY DEF SkipFile, BeginFile, UpFails, UpDone
<1>4. migrate \in [Migrate -> MigrateState]
  BY DEF MigrationInv, MigrationTypeOK, MigrateState
<1>5. CASE SkipFile(r)
  <2>1. PICK f \in migrate[r].todo :
          /\ f \in migrate[r].applied
          /\ migrate' = [migrate EXCEPT ![r].todo = @ \ {f}]
    BY <1>5 DEF SkipFile
  <2>2. PICK m : m = [migrate[r] EXCEPT !.todo = @ \ {f}]
    OBVIOUS
  <2>3. /\ m \in MigrateState
        /\ m.step = "loaded" /\ m.todo = migrate[r].todo \ {f}
        /\ m.want = migrate[r].want /\ m.applied = migrate[r].applied
    BY <1>1, <1>5, <2>2 DEF MigrateState, SkipFile
  <2>4. Accounted(m)
    BY <1>2, <1>5, <2>1, <2>3 DEF Accounted, SkipFile
  <2>5. migrate' = [migrate EXCEPT ![r] = m]
    BY <1>4, <2>1, <2>2
  <2> QED
    BY <1>3, <2>3, <2>4, <2>5, MigrateMoves
<1>6. CASE BeginFile(r)
  <2>1. PICK f \in migrate[r].todo :
          migrate' = [migrate EXCEPT ![r].step = "applying", ![r].file = f]
    BY <1>6 DEF BeginFile
  <2>2. f \in File
    BY <1>1 DEF MigrateState
  <2>3. PICK m : m = [migrate[r] EXCEPT !.step = "applying", !.file = f]
    OBVIOUS
  <2>4. /\ m \in MigrateState
        /\ m.step = "applying" /\ m.todo = migrate[r].todo /\ m.file = f
        /\ m.want = migrate[r].want /\ m.applied = migrate[r].applied
    BY <1>1, <2>2, <2>3 DEF MigrateState
  <2>5. Accounted(m)
    BY <1>2, <1>6, <2>2, <2>4 DEF Accounted, BeginFile
  <2>6. migrate' = [migrate EXCEPT ![r] = m]
    BY <1>4, <2>1, <2>3
  <2> QED
    BY <1>3, <2>4, <2>5, <2>6, MigrateMoves
<1>7. CASE UpFails(r)
  BY <1>3, <1>7, IdleIsAccounted, MigrateMoves DEF UpFails
<1>8. CASE UpDone(r)
  <2>1. PICK m : m = [migrate[r] EXCEPT !.step = "done", !.applied = {}]
    OBVIOUS
  <2>2. m \in MigrateState /\ m.step = "done" /\ m.want = migrate[r].want
    BY <1>1, <2>1 DEF MigrateState
  <2>3. Accounted(m)
    BY <1>2, <1>8, <2>2 DEF Accounted, UpDone
  <2>4. migrate' = [migrate EXCEPT ![r] = m]
    BY <1>4, <1>8, <2>1 DEF UpDone
  <2> QED
    BY <1>3, <2>2, <2>3, <2>4, MigrateMoves
<1> QED
  BY <1>5, <1>6, <1>7, <1>8

\* A file that commits is the first of its version, and the others see one more row.
LEMMA CommitFileStep ==
  ASSUME MigrationInv, NEW r \in Migrate, CommitFile(r)
  PROVE  MigrationInv'
<1>1. PICK f : f = migrate[r].file
  OBVIOUS
<1>2. migrate \in [Migrate -> MigrateState]
  BY DEF MigrationInv, MigrationTypeOK, MigrateState
<1>3. \A o \in Migrate : Accounted(migrate[o])
  BY DEF MigrationInv
<1>4. migrate[r].step = "applying" /\ f \in File
  BY <1>1, <1>3 DEF CommitFile, Accounted
<1>5. \A g \in recorded : g.version # f.version
  BY <1>1 DEF CommitFile, HasVersion
<1>6. ran' = Append(ran, f) /\ recorded' = recorded \cup {f}
  BY <1>1 DEF CommitFile
<1>7. PICK m : m = [migrate[r] EXCEPT !.step = "loaded", !.todo = @ \ {f}, !.file = NoFile]
  OBVIOUS
<1>8. /\ m \in MigrateState
      /\ m.step = "loaded" /\ m.todo = migrate[r].todo \ {f}
      /\ m.want = migrate[r].want /\ m.applied = migrate[r].applied
  BY <1>2, <1>7 DEF MigrateState
<1>9. migrate' = [migrate EXCEPT ![r] = m]
  BY <1>1, <1>2, <1>7 DEF CommitFile
<1>10. migrate' \in [Migrate -> MigrateState]
  BY <1>2, <1>8, <1>9
<1>11. ran \in Seq(File) /\ recorded \subseteq File
  BY DEF MigrationInv, MigrationTypeOK
<1>12. MigrationTypeOK'
  <2>1. ran' \in Seq(File) /\ recorded' \subseteq File
    BY <1>4, <1>6, <1>11
  <2>2. UNCHANGED <<today, filesMade, files>>
    BY DEF CommitFile
  <2> QED
    BY <1>10, <2>1, <2>2 DEF MigrationInv, MigrationTypeOK, MigrateState
<1>13. Numbered'
  BY DEF MigrationInv, Numbered, CommitFile
<1>14. /\ Len(ran') = Len(ran) + 1
       /\ \A i \in 1 .. Len(ran) : ran'[i] = ran[i] /\ ran[i] \in recorded
       /\ ran'[Len(ran) + 1] = f
       /\ DOMAIN ran' = 1 .. Len(ran) + 1 /\ DOMAIN ran = 1 .. Len(ran) /\ Len(ran) \in Nat
  BY <1>4, <1>6, <1>11 DEF MigrationInv, RanOnce, ToSet
<1>15. RanOnce'
  <2>1. recorded' = ToSet(ran')
    <3>1. ToSet(ran') = ToSet(ran) \cup {f}
      BY <1>14 DEF ToSet
    <3> QED
      BY <1>6, <3>1 DEF MigrationInv, RanOnce
  <2>2. ASSUME NEW i \in DOMAIN ran', NEW j \in DOMAIN ran', ran'[i].version = ran'[j].version
        PROVE  i = j
    <3>1. CASE i \in 1 .. Len(ran) /\ j \in 1 .. Len(ran)
      BY <1>14, <2>2, <3>1 DEF MigrationInv, RanOnce
    <3>2. CASE i \in 1 .. Len(ran) /\ j = Len(ran) + 1
      BY <1>5, <1>14, <2>2, <3>2
    <3>3. CASE i = Len(ran) + 1 /\ j \in 1 .. Len(ran)
      BY <1>5, <1>14, <2>2, <3>3
    <3> QED
      BY <1>14, <3>1, <3>2, <3>3
  <2> QED
    BY <2>1, <2>2 DEF RanOnce
<1>16. ASSUME NEW o \in Migrate PROVE Accounted(migrate[o])'
  <2>1. CASE o = r
    <3>1. migrate'[o] = m
      BY <1>2, <1>9, <2>1
    <3> QED
      BY <1>3, <1>4, <1>6, <1>8, <3>1 DEF Accounted
  <2>2. CASE o # r
    <3>1. migrate'[o] = migrate[o]
      BY <1>2, <1>9, <2>2
    <3> QED
      BY <1>3, <1>6, <3>1 DEF Accounted
  <2> QED
    BY <2>1, <2>2
<1> QED
  BY <1>12, <1>13, <1>15, <1>16 DEF MigrationInv

\* When the schema is dropped, nobody else wants anything any more.
LEMMA ResetStep ==
  ASSUME MigrationInv, NEW r \in Migrate, Reset(r)
  PROVE  MigrationInv'
<1>1. migrate \in [Migrate -> MigrateState]
  BY DEF MigrationInv, MigrationTypeOK, MigrateState
<1>2. ran' = <<>> /\ recorded' = {} /\ UNCHANGED <<today, filesMade, files>>
  BY DEF Reset
<1>3. DOMAIN migrate' = Migrate /\ migrate' = [o \in Migrate |-> migrate'[o]]
  BY DEF Reset
<1>4. ASSUME NEW o \in Migrate
      PROVE  migrate'[o] \in MigrateState /\ Accounted(migrate[o])'
  <2>1. CASE o = r
    <3>1. migrate'[o] = [step |-> "reset", want |-> {}, todo |-> {}, applied |-> {},
                         file |-> NoFile]
      BY <2>1 DEF Reset, Idle
    <3> QED
      BY <3>1 DEF MigrateState, Accounted
  <2>2. CASE o # r
    <3>1. migrate'[o] = [migrate[o] EXCEPT !.want = {}]
      BY <2>2 DEF Reset
    <3>2. migrate[o] \in MigrateState /\ migrate[o].step # "applying"
      BY <1>1 DEF Reset
    <3>3. migrate'[o] \in MigrateState
      BY <3>1, <3>2 DEF MigrateState
    <3>4. migrate'[o].want = {} /\ migrate'[o].step # "applying"
      BY <3>1, <3>2 DEF MigrateState
    <3> QED
      BY <3>3, <3>4 DEF Accounted
  <2> QED
    BY <2>1, <2>2
<1>5. migrate' \in [Migrate -> MigrateState]
  BY <1>3, <1>4
<1>6. MigrationTypeOK'
  BY <1>2, <1>5 DEF MigrationInv, MigrationTypeOK, MigrateState
<1>7. Numbered'
  BY <1>2 DEF MigrationInv, Numbered
<1>8. RanOnce'
  BY <1>2 DEF RanOnce, ToSet
<1> QED
  BY <1>4, <1>6, <1>7, <1>8 DEF MigrationInv

LEMMA MigrationStep == MigrationInv /\ [MigrationNext]_migrationVars => MigrationInv'
<1> SUFFICES ASSUME MigrationInv, [MigrationNext]_migrationVars PROVE MigrationInv'
  OBVIOUS
<1>1. CASE NextDay
  <2>1. today' \in 1 .. MaxDay /\ UNCHANGED <<filesMade, files, ran, recorded, migrate>>
    BY <1>1, MigrationAssumption DEF NextDay, MigrationAssumption, MigrationInv, MigrationTypeOK
  <2>2. MigrationTypeOK'
    BY <2>1 DEF MigrationInv, MigrationTypeOK
  <2> QED
    BY <2>1, <2>2 DEF MigrationInv, Numbered, RanOnce, Accounted
<1>2. ASSUME NEW b \in Branch,
             \/ New(b)
             \/ \E f \in files[b] : EditFile(b, f)
             \/ \E c \in Branch \ {b} : MergeBranch(b, c)
      PROVE  MigrationInv'
  BY <1>2, FilesStep
<1>3. ASSUME NEW r \in Migrate, NEW b \in Branch, Up(r, b) \/ UpAfterReset(r, b)
      PROVE  MigrationInv'
  BY <1>3, ReadStep
<1>4. ASSUME NEW r \in Migrate, SkipFile(r) \/ BeginFile(r) \/ UpFails(r) \/ UpDone(r)
      PROVE  MigrationInv'
  BY <1>4, FileStep
<1>5. ASSUME NEW r \in Migrate, CommitFile(r) PROVE MigrationInv'
  BY <1>5, CommitFileStep
<1>6. ASSUME NEW r \in Migrate, Reset(r) PROVE MigrationInv'
  BY <1>6, ResetStep
<1>7. CASE UNCHANGED migrationVars
  BY <1>7 DEF migrationVars, MigrationInv, MigrationTypeOK, Numbered, RanOnce, Accounted
<1> QED
  BY <1>1, <1>2, <1>3, <1>4, <1>5, <1>6, <1>7 DEF MigrationNext

\* A run of `migrate up` that ends well has left every file it read recorded with
\* the body it read, and what is recorded is what ran, each version once: for any
\* number of branches, runs and files, edits, merges, resets and runs killed halfway.
THEOREM EndsUpToDate == MigrationSpec => [](MigrationTypeOK /\ UpMeansApplied)
<1>1. MigrationInv => MigrationTypeOK /\ UpMeansApplied
  BY DEF MigrationInv, UpMeansApplied, RanOnce, Accounted
<1> QED
  BY <1>1, MigrationInitially, MigrationStep, PTL DEF MigrationSpec

-----------------------------------------------------------------------------
(* Accounting *)

\* A refresh token that is held was given out by a grant, and none was given out
\* after the newest.
GivenOut(t) == t = NoToken \/ (grantOf[t.grant] # NoCompany /\ t.nth <= newest[t.grant])

Loaded(q) == push[q].step = "loaded"
Refreshed(q) == push[q].step = "refreshed"

TokensGivenOut ==
  /\ \A g \in Grant : grantOf[g] = NoCompany => newest[g] = 0
  /\ connection # NoConnection => GivenOut(connection.refresh)
  /\ \A q \in Push : Loaded(q) \/ Refreshed(q) => GivenOut(push[q].conn.refresh)
  /\ \A q \in Push : Refreshed(q) => push[q].conn.refresh # NoToken

\* With a provider that always rotates, a push that has refreshed is the only one
\* that has the token it got, until it stores it.
OnlyHolder(q) ==
  LET t == push[q].conn.refresh
  IN /\ t.nth = newest[t.grant]
     /\ connection # NoConnection => connection.refresh # t
     /\ \A p \in Push \ {q} : Loaded(p) \/ Refreshed(p) => push[p].conn.refresh # t

TokensHeld ==
  /\ rotation = "never" => \A g \in Grant : newest[g] = 0
  /\ rotation = "always" => \A q \in Push : Refreshed(q) => OnlyHolder(q)
  /\ StoredTokenLives

\* The invoices made there are counted from one.
ExternalCounted == \E n \in 0 .. MaxExternal : DOMAIN external = 1 .. n

AccountingInv == AccountingTypeOK /\ TokensGivenOut /\ TokensHeld /\ ExternalCounted

LEMMA AccountingInitially == AccountingInit => AccountingInv
<1> SUFFICES ASSUME AccountingInit PROVE AccountingInv
  OBVIOUS
<1>0. DOMAIN external = 1 .. 0 /\ 0 \in 0 .. MaxRotations /\ 0 \in 0 .. MaxExternal
  <2>1. external = <<>> /\ MaxRotations \in Nat /\ MaxExternal \in Nat
    BY AccountingAssumption DEF AccountingInit, AccountingAssumption
  <2>2. DOMAIN external = 1 .. 0
    BY <2>1
  <2> QED
    BY <2>1, <2>2
<1>1. AccountingTypeOK
  <2>1. push \in [Push -> PushStep]
    BY DEF AccountingInit, PushStep
  <2>2. grantOf \in [Grant -> Company \cup {NoCompany}]
    BY DEF AccountingInit
  <2>3. \A i \in DOMAIN external : i \in 1 .. MaxExternal /\ external[i] \in ClientInvoice
    BY <1>0
  <2>4. newest \in [Grant -> 0 .. MaxRotations] /\ externalRef \in [ClientInvoice -> 0 .. MaxExternal]
    BY <1>0 DEF AccountingInit
  <2>5. /\ rotation \in {"always", "never", "now and then"}
        /\ connection = NoConnection /\ spent = {} /\ overtaken = {} /\ unlinked \subseteq 1 .. MaxExternal
    BY DEF AccountingInit
  <2> QED
    BY <2>1, <2>2, <2>3, <2>4, <2>5 DEF AccountingTypeOK
<1>2. TokensGivenOut /\ TokensHeld
  BY DEF AccountingInit, TokensGivenOut, TokensHeld, StoredTokenLives, NewestKept, Loaded,
         Refreshed
<1>3. ExternalCounted
  BY <1>0 DEF ExternalCounted
<1> QED
  BY <1>1, <1>2, <1>3 DEF AccountingInv

LEMMA PushKinds ==
  ASSUME AccountingInv, NEW q \in Push
  PROVE  /\ push[q] \in PushStep
         /\ push[q].step \in {"loaded", "refreshed", "ready"} =>
              /\ push[q] = [step |-> push[q].step, of |-> push[q].of, conn |-> push[q].conn]
              /\ push[q].of \in ClientInvoice /\ push[q].conn \in Connection
         /\ push[q].step = "created" =>
              push[q].of \in ClientInvoice /\ push[q].id \in 1 .. MaxExternal
<1>1. push[q] \in PushStep
  BY DEF AccountingInv, AccountingTypeOK
<1> QED
  BY <1>1 DEF PushStep

\* A push that is not about to store anything moves, and may hold the tokens of the row.
LEMMA PushMoves ==
  ASSUME AccountingInv, NEW q \in Push, NEW s \in PushStep,
         push' = [push EXCEPT ![q] = s], ~Refreshed(q), s.step # "refreshed",
         s.step = "loaded" => connection # NoConnection /\ s.conn.refresh = connection.refresh,
         UNCHANGED <<rotation, grantOf, newest, connection, spent, overtaken>>,
         \A i \in DOMAIN external' : i \in 1 .. MaxExternal /\ external'[i] \in ClientInvoice,
         externalRef' \in [ClientInvoice -> 0 .. MaxExternal],
         unlinked' \subseteq 1 .. MaxExternal,
         ExternalCounted'
  PROVE  AccountingInv'
<1>1. push \in [Push -> PushStep]
  BY DEF AccountingInv, AccountingTypeOK
<1>2. push' \in [Push -> PushStep]
  BY <1>1
<1>3. AccountingTypeOK'
  BY <1>2 DEF AccountingInv, AccountingTypeOK, Grant, NoCompany, NoConnection, Connection,
     RefreshToken, NoToken, PushStep
<1>4. push'[q] = s /\ \A p \in Push \ {q} : push'[p] = push[p]
  BY <1>1
<1>5. TokensGivenOut'
  BY <1>4 DEF AccountingInv, TokensGivenOut, GivenOut, Loaded, Refreshed
<1>6. StoredTokenLives'
  <2>1. NewestKept /\ (overtaken # {} => rotation = "now and then")
    BY DEF AccountingInv, TokensHeld, StoredTokenLives
  <2>2. ASSUME NEW p \in Push, push[p].step = "refreshed"
        PROVE  push'[p] = push[p]
    BY <1>4, <2>2 DEF Refreshed
  <2>3. NewestKept'
    BY <2>1, <2>2 DEF NewestKept, IsNewest, NoConnection, NoCompany, NoToken
  <2> QED
    BY <2>1, <2>3 DEF StoredTokenLives
<1>7. ASSUME rotation = "always", NEW p \in Push, Refreshed(p)' PROVE OnlyHolder(p)'
  <2>1. p # q /\ Refreshed(p)
    BY <1>4, <1>7 DEF Refreshed
  <2>2. OnlyHolder(p)
    BY <1>7, <2>1 DEF AccountingInv, TokensHeld
  <2> QED
    BY <1>4, <2>1, <2>2 DEF OnlyHolder, Loaded, Refreshed
<1>8. TokensHeld'
  BY <1>6, <1>7 DEF AccountingInv, TokensHeld
<1> QED
  BY <1>3, <1>5, <1>8 DEF AccountingInv

\* The row changes: it keeps its refresh token, has none, or has that of a new grant.
LEMMA RowChanges ==
  ASSUME AccountingInv,
         UNCHANGED <<rotation, newest, external, externalRef, push, spent, overtaken, unlinked>>,
         grantOf' \in [Grant -> Company \cup {NoCompany}],
         \A g \in Grant : grantOf[g] # NoCompany => grantOf'[g] # NoCompany,
         connection' = NoConnection \/ connection' \in Connection,
         connection' # NoConnection =>
           \/ connection'.refresh = NoToken
           \/ connection # NoConnection /\ connection'.refresh = connection.refresh
           \/ \E g \in Grant : /\ connection'.refresh = [grant |-> g, nth |-> 0]
                               /\ grantOf[g] = NoCompany /\ grantOf'[g] # NoCompany
  PROVE  AccountingInv'
<1> USE DEF AccountingInv
<1>1. AccountingTypeOK'
  BY DEF AccountingTypeOK, Grant, NoCompany, NoConnection, Connection, RefreshToken, NoToken,
     PushStep
<1>2. ExternalCounted'
  BY DEF ExternalCounted
<1>3. push \in [Push -> PushStep]
  BY DEF AccountingTypeOK
<1>4. ASSUME NEW q \in Push, Loaded(q) \/ Refreshed(q)
      PROVE  /\ push[q].conn.refresh \in RefreshToken
             /\ GivenOut(push[q].conn.refresh)
  BY <1>4, PushKinds DEF TokensGivenOut, Loaded, Refreshed, Connection
<1>5. ASSUME connection # NoConnection
      PROVE  /\ connection.refresh \in RefreshToken
             /\ GivenOut(connection.refresh)
  BY <1>5 DEF AccountingTypeOK, TokensGivenOut, Connection
<1>6. ASSUME NEW g \in Grant, grantOf[g] = NoCompany PROVE newest[g] = 0
  BY <1>6 DEF TokensGivenOut
<1>7. ASSUME NEW t \in RefreshToken, GivenOut(t) PROVE GivenOut(t)'
  BY <1>7 DEF GivenOut, RefreshToken
<1>8. ASSUME connection' # NoConnection PROVE GivenOut(connection.refresh)'
  <2>1. CASE connection'.refresh = NoToken
    BY <2>1 DEF GivenOut, NoToken
  <2>2. CASE connection # NoConnection /\ connection'.refresh = connection.refresh
    BY <1>5, <2>2 DEF GivenOut, RefreshToken, NoToken
  <2>3. ASSUME NEW g \in Grant, connection'.refresh = [grant |-> g, nth |-> 0],
               grantOf[g] = NoCompany, grantOf'[g] # NoCompany
        PROVE  GivenOut(connection.refresh)'
    BY <1>6, <2>3 DEF GivenOut, NoToken
  <2> QED
    BY <1>8, <2>1, <2>2, <2>3
<1>9. TokensGivenOut'
  <2>1. \A g \in Grant : grantOf'[g] = NoCompany' => newest'[g] = 0
    BY <1>6 DEF NoCompany
  <2>2. connection' # NoConnection' => GivenOut(connection.refresh)'
    BY <1>8 DEF NoConnection, NoCompany
  <2>3. \A q \in Push : (Loaded(q) \/ Refreshed(q))' => GivenOut(push[q].conn.refresh)'
    BY <1>4 DEF Loaded, Refreshed, GivenOut, RefreshToken, NoToken
  <2>4. \A q \in Push : Refreshed(q)' => push'[q].conn.refresh # NoToken'
    BY DEF TokensGivenOut, Refreshed, NoToken
  <2> QED
    BY <2>1, <2>2, <2>3, <2>4 DEF TokensGivenOut
<1>10. StoredTokenLives'
  <2> SUFFICES NewestKept'
    BY DEF TokensHeld, StoredTokenLives
  <2>1. CASE connection' = NoConnection \/ connection'.refresh = NoToken
    BY <2>1 DEF NewestKept, NoConnection, NoCompany, NoToken
  <2>2. CASE connection # NoConnection /\ connection'.refresh = connection.refresh
    <3>1. NewestKept
      BY DEF TokensHeld, StoredTokenLives
    <3> QED
      BY <2>2, <3>1 DEF NewestKept, IsNewest, NoToken
  <2>3. ASSUME NEW g \in Grant, connection'.refresh = [grant |-> g, nth |-> 0],
               grantOf[g] = NoCompany
        PROVE  NewestKept'
    BY <1>6, <2>3 DEF NewestKept, IsNewest
  <2> QED
    BY <2>1, <2>2, <2>3
<1>11. ASSUME rotation = "always", NEW q \in Push, Refreshed(q)' PROVE OnlyHolder(q)'
  <2>1. Refreshed(q) /\ OnlyHolder(q)
    BY <1>11 DEF TokensHeld, Refreshed
  <2>2. PICK t \in RefreshToken : t = push[q].conn.refresh
    BY <1>4, <2>1
  <2>3. t # NoToken /\ GivenOut(t)
    BY <1>4, <2>1, <2>2 DEF TokensGivenOut
  <2>4. grantOf[t.grant] # NoCompany
    BY <2>3 DEF GivenOut
  <2>5. connection' # NoConnection => connection'.refresh # t
    <3>1. connection # NoConnection => connection.refresh # t
      BY <2>1, <2>2 DEF OnlyHolder
    <3>2. ASSUME NEW g \in Grant, grantOf[g] = NoCompany PROVE [grant |-> g, nth |-> 0] # t
      BY <2>4, <3>2
    <3> QED
      BY <2>3, <3>1, <3>2
  <2> QED
    BY <2>1, <2>2, <2>5 DEF OnlyHolder, Loaded, Refreshed, NoConnection, NoCompany
<1>12. TokensHeld'
  BY <1>10, <1>11 DEF TokensHeld
<1> QED
  BY <1>1, <1>2, <1>9, <1>12

\* Consents, disconnections and expiries.
LEMMA RowStep ==
  ASSUME AccountingInv,
         (\E c \in Company : Callback(c)) \/ Disconnect \/ AccessExpires
  PROVE  AccountingInv'
<1>1. grantOf \in [Grant -> Company \cup {NoCompany}]
  BY DEF AccountingInv, AccountingTypeOK
<1>2. connection = NoConnection \/ connection \in Connection
  BY DEF AccountingInv, AccountingTypeOK
<1>3. ASSUME NEW c \in Company, Callback(c) PROVE AccountingInv'
  <2>1. PICK g \in Grant :
          /\ grantOf[g] = NoCompany
          /\ grantOf' = [grantOf EXCEPT ![g] = c]
          /\ \/ UpsertAccountingConnection(c, g, [grant |-> g, nth |-> 0])
             \/ UpsertAccountingConnection(c, g, NoToken)
             \/ UNCHANGED connection
    BY <1>3 DEF Callback
  <2>2. c # NoCompany
    BY AccountingAssumption DEF AccountingAssumption, NoCompany
  <2>3. /\ grantOf' \in [Grant -> Company \cup {NoCompany}]
        /\ \A h \in Grant : grantOf[h] # NoCompany => grantOf'[h] # NoCompany
        /\ grantOf'[g] # NoCompany
    BY <1>1, <2>1, <2>2
  <2>4. PICK t : t = [grant |-> g, nth |-> 0]
    OBVIOUS
  <2>5. t \in RefreshToken /\ NoToken \in RefreshToken
    BY <2>4, AccountingAssumption DEF RefreshToken, AccountingAssumption
  <2>6. CASE UNCHANGED connection
    <3>1. connection' = NoConnection \/ connection' \in Connection
      BY <1>2, <2>6
    <3> QED
      BY <1>3, <2>3, <2>6, <3>1, RowChanges DEF Callback
  <2>7. ASSUME NEW r \in RefreshToken,
               connection' = [company |-> c, access |-> g, valid |-> TRUE, refresh |-> r],
               r \in {t, NoToken} \/ (connection # NoConnection /\ r = connection.refresh)
        PROVE  AccountingInv'
    <3>1. connection' \in Connection /\ connection'.refresh = r
      BY <2>7 DEF Connection
    <3>2. \/ connection'.refresh = NoToken
          \/ connection # NoConnection /\ connection'.refresh = connection.refresh
          \/ \E h \in Grant : /\ connection'.refresh = [grant |-> h, nth |-> 0]
                              /\ grantOf[h] = NoCompany /\ grantOf'[h] # NoCompany
      BY <2>1, <2>3, <2>4, <2>7, <3>1
    <3>3. UNCHANGED <<rotation, newest, external, externalRef, push, spent, overtaken, unlinked>>
      BY <1>3 DEF Callback
    <3> QED
      BY <2>3, <3>1, <3>2, <3>3, RowChanges
  <2>8. CASE UpsertAccountingConnection(c, g, t)
    <3>1. t # NoToken
      BY <2>4 DEF NoToken, Grant
    <3>2. connection' = [company |-> c, access |-> g, valid |-> TRUE, refresh |-> t]
      BY <2>8, <3>1 DEF UpsertAccountingConnection
    <3> QED
      BY <2>5, <2>7, <3>2
  <2>9. CASE UpsertAccountingConnection(c, g, NoToken)
    <3>1. CASE connection = NoConnection
      <4>1. connection' = [company |-> c, access |-> g, valid |-> TRUE, refresh |-> NoToken]
        BY <2>9, <3>1 DEF UpsertAccountingConnection
      <4> QED
        BY <2>5, <2>7, <4>1
    <3>2. CASE connection # NoConnection
      <4>1. connection' = [company |-> c, access |-> g, valid |-> TRUE,
                           refresh |-> connection.refresh]
        BY <2>9, <3>2 DEF UpsertAccountingConnection
      <4>2. connection.refresh \in RefreshToken
        BY <1>2, <3>2 DEF Connection
      <4> QED
        BY <2>7, <3>2, <4>1, <4>2
    <3> QED
      BY <3>1, <3>2
  <2> QED
    BY <2>1, <2>4, <2>6, <2>8, <2>9
<1>4. CASE Disconnect
  <2>1. connection' = NoConnection /\ grantOf' = grantOf
    BY <1>4 DEF Disconnect
  <2> QED
    BY <1>1, <1>4, <2>1, RowChanges DEF Disconnect
<1>5. CASE AccessExpires
  <2>1. connection # NoConnection /\ connection \in Connection
    BY <1>2, <1>5 DEF AccessExpires
  <2>2. connection' \in Connection /\ connection'.refresh = connection.refresh
    BY <1>5, <2>1 DEF AccessExpires, Connection
  <2> QED
    BY <1>1, <1>5, <2>1, <2>2, RowChanges DEF AccessExpires
<1> QED
  BY <1>3, <1>4, <1>5

\* A push begins, ends, or deals with the invoice there.
LEMMA PushStepKeeps ==
  ASSUME AccountingInv, NEW q \in Push,
         \/ \E i \in ClientInvoice : LoadPush(q, i)
         \/ RefreshFails(q) \/ CreateInvoice(q) \/ CreateFails(q) \/ SetInvoiceExternalRef(q)
  PROVE  AccountingInv'
<1>1. PICK idle : idle = [step |-> "idle"]
  OBVIOUS
<1>2. idle \in PushStep /\ idle.step = "idle"
  BY <1>1 DEF PushStep
<1>3. /\ \A i \in DOMAIN external : i \in 1 .. MaxExternal /\ external[i] \in ClientInvoice
      /\ externalRef \in [ClientInvoice -> 0 .. MaxExternal]
      /\ unlinked \subseteq 1 .. MaxExternal
      /\ connection = NoConnection \/ connection \in Connection
  BY DEF AccountingInv, AccountingTypeOK
<1>4. ExternalCounted
  BY DEF AccountingInv
<1>5. ASSUME NEW i \in ClientInvoice, LoadPush(q, i) PROVE AccountingInv'
  <2>1. PICK s : s = [step |-> IF connection.valid THEN "ready" ELSE "loaded",
                      of |-> i, conn |-> connection]
    OBVIOUS
  <2>2. connection # NoConnection /\ connection \in Connection
    BY <1>3, <1>5 DEF LoadPush
  <2>3. s \in PushStep /\ s.step # "refreshed" /\ s.conn = connection
    BY <2>1, <2>2 DEF PushStep
  <2>4. /\ push' = [push EXCEPT ![q] = s] /\ ~Refreshed(q)
        /\ UNCHANGED <<rotation, grantOf, newest, connection, external, externalRef, spent,
                       overtaken, unlinked>>
    BY <1>5, <2>1 DEF LoadPush, To, Refreshed
  <2>5. ExternalCounted'
    BY <1>4, <2>4 DEF ExternalCounted
  <2> QED
    BY <1>3, <2>2, <2>3, <2>4, <2>5, PushMoves
<1>6. CASE RefreshFails(q) \/ CreateFails(q)
  <2>1. /\ push' = [push EXCEPT ![q] = idle] /\ ~Refreshed(q)
        /\ UNCHANGED <<rotation, grantOf, newest, connection, external, externalRef, spent,
                       overtaken, unlinked>>
    BY <1>1, <1>6 DEF RefreshFails, CreateFails, End, To, Refreshed
  <2>2. ExternalCounted'
    BY <1>4, <2>1 DEF ExternalCounted
  <2> QED
    BY <1>2, <1>3, <2>1, <2>2, PushMoves
<1>7. CASE CreateInvoice(q)
  <2>1. PICK n \in 0 .. MaxExternal : DOMAIN external = 1 .. n
    BY <1>4 DEF ExternalCounted
  <2>2. PICK id : id = Cardinality(DOMAIN external) + 1
    OBVIOUS
  <2>3. id = n + 1 /\ n \in Nat
    <3>1. n \in Int /\ n >= 0 /\ 1 \in Int
      BY <2>1, AccountingAssumption DEF AccountingAssumption
    <3>2. Cardinality(1 .. n) = n
      BY <3>1, FS_Interval
    <3> QED
      BY <2>1, <2>2, <3>1, <3>2
  <2>4. /\ id <= MaxExternal
        /\ external' = [i \in 1 .. id |-> IF i = id THEN push[q].of ELSE external[i]]
        /\ \/ To(q, [step |-> "created", of |-> push[q].of, id |-> id]) /\ UNCHANGED unlinked
           \/ End(q) /\ unlinked' = unlinked \cup {id}
        /\ UNCHANGED <<rotation, grantOf, newest, connection, externalRef, spent, overtaken>>
        /\ push[q].step = "ready"
    BY <1>7, <2>2 DEF CreateInvoice
  <2>5. push[q].of \in ClientInvoice
    BY <2>4, PushKinds
  <2>6. id \in 1 .. MaxExternal
    BY <2>1, <2>3, <2>4, AccountingAssumption DEF AccountingAssumption
  <2>7. \A i \in DOMAIN external' : i \in 1 .. MaxExternal /\ external'[i] \in ClientInvoice
    BY <1>3, <2>1, <2>3, <2>4, <2>5, <2>6, AccountingAssumption DEF AccountingAssumption
  <2>8. ExternalCounted'
    <3>1. DOMAIN external' = 1 .. id /\ id \in 0 .. MaxExternal
      BY <2>4, <2>6
    <3> QED
      BY <3>1 DEF ExternalCounted
  <2>9. PICK s \in PushStep : /\ push' = [push EXCEPT ![q] = s]
                              /\ s.step \in {"created", "idle"}
    <3>1. CASE To(q, [step |-> "created", of |-> push[q].of, id |-> id])
      <4>1. PICK s : s = [step |-> "created", of |-> push[q].of, id |-> id]
        OBVIOUS
      <4>2. s \in PushStep /\ s.step = "created"
        BY <2>5, <2>6, <4>1 DEF PushStep
      <4> QED
        BY <3>1, <4>1, <4>2 DEF To
    <3>2. CASE End(q)
      BY <1>1, <1>2, <3>2 DEF End, To
    <3> QED
      BY <2>4, <3>1, <3>2
  <2>10. unlinked' \subseteq 1 .. MaxExternal
    BY <1>3, <2>4, <2>6
  <2>11. ~Refreshed(q) /\ externalRef' = externalRef
    BY <2>4 DEF Refreshed
  <2> QED
    BY <1>3, <2>4, <2>7, <2>8, <2>9, <2>10, <2>11, PushMoves
<1>8. CASE SetInvoiceExternalRef(q)
  <2>1. /\ push' = [push EXCEPT ![q] = idle] /\ push[q].step = "created"
        /\ UNCHANGED <<rotation, grantOf, newest, connection, external, spent, overtaken>>
        /\ \/ externalRef' = [externalRef EXCEPT ![push[q].of] = push[q].id] /\ UNCHANGED unlinked
           \/ UNCHANGED externalRef /\ unlinked' = unlinked \cup {push[q].id}
    BY <1>1, <1>8 DEF SetInvoiceExternalRef, End, To
  <2>2. push[q].of \in ClientInvoice /\ push[q].id \in 1 .. MaxExternal
    BY <2>1, PushKinds
  <2>3. externalRef' \in [ClientInvoice -> 0 .. MaxExternal] /\ unlinked' \subseteq 1 .. MaxExternal
    <3>1. push[q].id \in 0 .. MaxExternal
      BY <2>2
    <3> QED
      BY <1>3, <2>1, <2>2, <3>1
  <2>4. ExternalCounted'
    BY <1>4, <2>1 DEF ExternalCounted
  <2>5. ~Refreshed(q)
    BY <2>1 DEF Refreshed
  <2> QED
    BY <1>2, <1>3, <2>1, <2>3, <2>4, <2>5, PushMoves
<1> QED
  BY <1>5, <1>6, <1>7, <1>8

\* What holds after a refresh, whether or not its answer arrives.
LEMMA RefreshStep ==
  ASSUME AccountingInv, NEW q \in Push, Refresh(q)
  PROVE  AccountingInv'
<1>1. PICK t : t = push[q].conn.refresh
  OBVIOUS
<1>2. /\ push[q] = [step |-> "loaded", of |-> push[q].of, conn |-> push[q].conn]
      /\ push[q].of \in ClientInvoice /\ push[q].conn \in Connection
      /\ Loaded(q)
  BY PushKinds DEF Refresh, Loaded
<1>3. t # NoToken /\ newest[t.grant] = t.nth
  BY <1>1 DEF Refresh
<1>4. t \in RefreshToken /\ t.grant \in Grant /\ t.nth \in 0 .. MaxRotations
  BY <1>1, <1>2, <1>3 DEF Connection, RefreshToken
<1>5. PICK next \in Rotations(t.nth) :
        /\ newest' = [newest EXCEPT ![t.grant] = next]
        /\ \/ /\ To(q, [push[q] EXCEPT !.step = "refreshed",
                          !.conn = [@ EXCEPT !.access = t.grant, !.valid = TRUE,
                                             !.refresh = [t EXCEPT !.nth = next]]])
              /\ UNCHANGED spent
           \/ /\ End(q)
              /\ spent' = IF next = t.nth THEN spent ELSE spent \cup {t.grant}
  BY <1>1 DEF Refresh
<1>6. UNCHANGED <<rotation, grantOf, connection, external, externalRef, overtaken, unlinked>>
  BY DEF Refresh
<1>7. /\ next \in 0 .. MaxRotations /\ t.nth <= next
      /\ rotation = "always" => next = t.nth + 1
      /\ rotation = "never" => next = t.nth
  BY <1>4, <1>5, AccountingAssumption DEF Rotations, AccountingAssumption
<1>8. PICK u : u = [grant |-> t.grant, nth |-> next]
  OBVIOUS
<1>9. u \in RefreshToken /\ u # NoToken /\ u.grant = t.grant /\ u.nth = next
  BY <1>4, <1>7, <1>8 DEF RefreshToken, NoToken, Grant
<1>10. [t EXCEPT !.nth = next] = u
  BY <1>3, <1>4, <1>8 DEF RefreshToken
<1>11. PICK s \in PushStep :
         /\ push' = [push EXCEPT ![q] = s]
         /\ \/ s.step = "refreshed" /\ s.conn.refresh = u /\ UNCHANGED spent
            \/ /\ s.step = "idle"
               /\ spent' = IF next = t.nth THEN spent ELSE spent \cup {t.grant}
  <2>1. ASSUME To(q, [push[q] EXCEPT !.step = "refreshed",
                        !.conn = [@ EXCEPT !.access = t.grant, !.valid = TRUE,
                                           !.refresh = [t EXCEPT !.nth = next]]])
        PROVE  \E s \in PushStep : /\ push' = [push EXCEPT ![q] = s]
                                   /\ s.step = "refreshed" /\ s.conn.refresh = u
    <3>1. PICK c : c = [push[q].conn EXCEPT !.access = t.grant, !.valid = TRUE, !.refresh = u]
      OBVIOUS
    <3>2. c \in Connection /\ c.refresh = u
      BY <1>2, <1>4, <1>9, <3>1 DEF Connection
    <3>3. PICK s : s = [push[q] EXCEPT !.step = "refreshed", !.conn = c]
      OBVIOUS
    <3>4. s = [step |-> "refreshed", of |-> push[q].of, conn |-> c]
      BY <1>2, <3>3
    <3>5. s \in PushStep /\ s.step = "refreshed" /\ s.conn = c
      BY <1>2, <3>2, <3>4 DEF PushStep
    <3>6. push' = [push EXCEPT ![q] = s]
      BY <1>10, <2>1, <3>1, <3>3 DEF To
    <3> QED
      BY <3>2, <3>5, <3>6
  <2>2. ASSUME End(q)
        PROVE  \E s \in PushStep : push' = [push EXCEPT ![q] = s] /\ s.step = "idle"
    <3>1. PICK s : s = [step |-> "idle"]
      OBVIOUS
    <3>2. s \in PushStep /\ s.step = "idle"
      BY <3>1 DEF PushStep
    <3> QED
      BY <2>2, <3>1, <3>2 DEF End, To
  <2> QED
    BY <1>5, <2>1, <2>2
<1>12. /\ push \in [Push -> PushStep] /\ newest \in [Grant -> 0 .. MaxRotations]
       /\ connection = NoConnection \/ connection \in Connection
       /\ spent \subseteq Grant /\ overtaken \subseteq Grant
  BY DEF AccountingInv, AccountingTypeOK
<1>13. /\ push'[q] = s /\ \A p \in Push \ {q} : push'[p] = push[p]
       /\ newest'[t.grant] = next /\ \A g \in Grant \ {t.grant} : newest'[g] = newest[g]
       /\ \A g \in Grant : newest[g] <= newest'[g] /\ newest[g] \in Nat /\ newest'[g] \in Nat
  <2>1. push'[q] = s /\ \A p \in Push \ {q} : push'[p] = push[p]
    BY <1>11, <1>12
  <2>2. newest'[t.grant] = next /\ \A g \in Grant \ {t.grant} : newest'[g] = newest[g]
    BY <1>4, <1>5, <1>12
  <2>3. \A g \in Grant : newest[g] \in Nat
    BY <1>12, AccountingAssumption DEF AccountingAssumption
  <2> QED
    BY <1>3, <1>7, <2>1, <2>2, <2>3
<1>14. AccountingTypeOK'
  <2>1. push' \in [Push -> PushStep] /\ newest' \in [Grant -> 0 .. MaxRotations]
    BY <1>4, <1>5, <1>7, <1>11, <1>12
  <2>2. spent' \subseteq Grant
    BY <1>4, <1>11, <1>12
  <2> QED
    BY <1>6, <2>1, <2>2 DEF AccountingInv, AccountingTypeOK, Grant, NoCompany, NoConnection,
       Connection, RefreshToken, NoToken, PushStep
<1>15. ExternalCounted'
  BY <1>6 DEF AccountingInv, ExternalCounted
<1>16. GivenOut(t) /\ grantOf[t.grant] # NoCompany
  BY <1>1, <1>2, <1>3 DEF AccountingInv, TokensGivenOut, GivenOut
<1>17. ASSUME NEW v \in RefreshToken, GivenOut(v) PROVE GivenOut(v)'
  <2>1. CASE v = NoToken
    BY <2>1 DEF GivenOut, NoToken
  <2>2. CASE v # NoToken
    <3>1. v.grant \in Grant /\ v.nth \in Nat /\ grantOf[v.grant] # NoCompany
          /\ v.nth <= newest[v.grant]
      BY <1>17, <2>2, AccountingAssumption DEF GivenOut, RefreshToken, AccountingAssumption
    <3> QED
      BY <1>6, <1>13, <3>1 DEF GivenOut, NoCompany
  <2> QED
    BY <2>1, <2>2
<1>18. ASSUME NEW p \in Push, Loaded(p) \/ Refreshed(p)
       PROVE  push[p].conn.refresh \in RefreshToken /\ GivenOut(push[p].conn.refresh)
  BY <1>18, PushKinds DEF AccountingInv, TokensGivenOut, Loaded, Refreshed, Connection
<1>19. ASSUME connection # NoConnection
       PROVE  connection.refresh \in RefreshToken /\ GivenOut(connection.refresh)
  BY <1>12, <1>19 DEF AccountingInv, TokensGivenOut, Connection
<1>20. TokensGivenOut'
  <2>1. ASSUME NEW g \in Grant, grantOf'[g] = NoCompany PROVE newest'[g] = 0
    BY <1>6, <1>13, <1>16, <2>1 DEF AccountingInv, TokensGivenOut
  <2>2. connection' # NoConnection' => GivenOut(connection.refresh)'
    BY <1>6, <1>17, <1>19 DEF NoConnection, NoCompany
  <2>3. ASSUME NEW p \in Push, (Loaded(p) \/ Refreshed(p))'
        PROVE  GivenOut(push[p].conn.refresh)' /\ push'[p].conn.refresh \in RefreshToken
    <3>1. CASE p = q
      <4>1. push'[p].conn.refresh = u
        BY <1>11, <1>13, <2>3, <3>1 DEF Loaded, Refreshed
      <4> QED
        BY <1>6, <1>9, <1>13, <1>16, <4>1, <1>7, AccountingAssumption
        DEF GivenOut, NoCompany, AccountingAssumption
    <3>2. CASE p # q
      <4>1. PICK v : v = push[p].conn.refresh
        OBVIOUS
      <4>2. push'[p].conn.refresh = v /\ v \in RefreshToken /\ GivenOut(v)
        BY <1>13, <1>18, <2>3, <3>2, <4>1 DEF Loaded, Refreshed
      <4>3. GivenOut(v)'
        BY <1>17, <4>2
      <4> QED
        BY <4>2, <4>3 DEF GivenOut
    <3> QED
      BY <3>1, <3>2
  <2>4. ASSUME NEW p \in Push, Refreshed(p)' PROVE push'[p].conn.refresh # NoToken
    BY <1>9, <1>11, <1>13, <2>4 DEF AccountingInv, TokensGivenOut, Refreshed
  <2> QED
    BY <2>1, <2>2, <2>3, <2>4 DEF TokensGivenOut, NoCompany, NoToken, Grant
<1>21. ASSUME rotation = "never", NEW g \in Grant PROVE newest'[g] = 0
  <2>1. newest[g] = 0 /\ newest[t.grant] = 0
    BY <1>4, <1>21 DEF AccountingInv, TokensHeld
  <2> QED
    BY <1>3, <1>7, <1>13, <1>21, <2>1
<1>22. NewestKept'
  <2>1. NewestKept
    BY DEF AccountingInv, TokensHeld, StoredTokenLives
  <2>2. CASE connection = NoConnection \/ connection.refresh = NoToken
    BY <1>6, <2>2 DEF NewestKept, NoConnection, NoCompany, NoToken
  <2>3. CASE connection # NoConnection /\ connection.refresh # NoToken
    <3>1. PICK v : v = connection.refresh /\ connection'.refresh = v
      BY <1>6
    <3>2. v = [grant |-> v.grant, nth |-> v.nth] /\ v.grant \in Grant
      BY <1>19, <2>3, <3>1 DEF RefreshToken
    <3>3. CASE v.grant = t.grant /\ next # t.nth
      <4>1. CASE s.step = "refreshed"
        <5>1. push'[q].step = "refreshed" /\ push'[q].conn.refresh = u
          BY <1>11, <1>13, <4>1
        <5>2. u = [v EXCEPT !.nth = newest'[v.grant]]
          BY <1>8, <1>13, <3>2, <3>3
        <5> QED
          BY <3>1, <5>1, <5>2 DEF NewestKept
      <4>2. CASE s.step # "refreshed"
        <5>1. v.grant \in spent'
          BY <1>11, <3>3, <4>2
        <5> QED
          BY <3>1, <5>1 DEF NewestKept
      <4> QED
        BY <4>1, <4>2
    <3>4. CASE ~(v.grant = t.grant /\ next # t.nth)
      <4>0. newest'[v.grant] = newest[v.grant]
        BY <1>3, <1>13, <3>2, <3>4
      <4>1. CASE IsNewest(v)
        BY <3>1, <4>0, <4>1 DEF NewestKept, IsNewest
      <4>2. CASE v.grant \in spent \cup overtaken
        <5>1. v.grant \in spent' \cup overtaken'
          BY <1>6, <1>11, <4>2
        <5> QED
          BY <3>1, <5>1 DEF NewestKept
      <4>3. ASSUME NEW p \in Push, push[p].step = "refreshed",
                   push[p].conn.refresh = [v EXCEPT !.nth = newest[v.grant]]
            PROVE  NewestKept'
        <5>1. push'[p] = push[p]
          BY <1>2, <1>13, <4>3 DEF Loaded
        <5> QED
          BY <3>1, <4>0, <4>3, <5>1 DEF NewestKept
      <4> QED
        BY <2>1, <2>3, <3>1, <4>1, <4>2, <4>3 DEF NewestKept
    <3> QED
      BY <3>3, <3>4
  <2> QED
    BY <2>2, <2>3
<1>23. ASSUME rotation = "always", NEW p \in Push, Refreshed(p)' PROVE OnlyHolder(p)'
  <2>1. next = newest[t.grant] + 1 /\ newest[t.grant] \in Nat
    BY <1>3, <1>4, <1>7, <1>13, <1>23
  <2>2. ASSUME NEW v \in RefreshToken, GivenOut(v) PROVE v # u
    BY <1>9, <2>1, <2>2 DEF GivenOut
  <2>3. CASE p = q
    <3>1. push'[p].conn.refresh = u
      BY <1>11, <1>13, <1>23, <2>3 DEF Refreshed
    <3>2. u.nth = newest'[u.grant]
      BY <1>9, <1>13
    <3>3. connection' # NoConnection' => connection'.refresh # u
      BY <1>6, <1>19, <2>2 DEF NoConnection, NoCompany
    <3>4. ASSUME NEW o \in Push \ {p}, (Loaded(o) \/ Refreshed(o))'
          PROVE  push'[o].conn.refresh # u
      <4>1. push'[o] = push[o]
        BY <1>13, <2>3
      <4>2. Loaded(o) \/ Refreshed(o)
        BY <3>4, <4>1 DEF Loaded, Refreshed
      <4> QED
        BY <1>18, <2>2, <4>1, <4>2
    <3> QED
      BY <3>1, <3>2, <3>3, <3>4 DEF OnlyHolder
  <2>4. CASE p # q
    <3>1. push'[p] = push[p] /\ Refreshed(p)
      BY <1>13, <1>23, <2>4 DEF Refreshed
    <3>2. OnlyHolder(p)
      BY <1>23, <3>1 DEF AccountingInv, TokensHeld
    <3>3. PICK v \in RefreshToken : v = push[p].conn.refresh
      BY <1>18, <3>1
    <3>4. v # NoToken
      BY <3>1, <3>3 DEF AccountingInv, TokensGivenOut
    <3>5. v.nth = newest[v.grant] /\ v # t
      BY <1>1, <1>2, <2>4, <3>2, <3>3 DEF OnlyHolder
    <3>6. v.grant \in Grant /\ v.grant # t.grant
      BY <1>3, <1>4, <3>3, <3>4, <3>5 DEF RefreshToken
    <3>7. v.nth = newest'[v.grant]
      BY <1>13, <3>5, <3>6
    <3>8. connection' # NoConnection' => connection'.refresh # v
      BY <1>6, <3>2, <3>3 DEF OnlyHolder, NoConnection, NoCompany
    <3>9. ASSUME NEW o \in Push \ {p}, (Loaded(o) \/ Refreshed(o))'
          PROVE  push'[o].conn.refresh # v
      <4>1. CASE o = q
        BY <1>9, <1>11, <1>13, <3>6, <3>9, <4>1 DEF Loaded, Refreshed
      <4>2. CASE o # q
        BY <1>13, <3>2, <3>3, <3>9, <4>2 DEF OnlyHolder, Loaded, Refreshed
      <4> QED
        BY <4>1, <4>2
    <3> QED
      BY <3>1, <3>3, <3>7, <3>8, <3>9 DEF OnlyHolder
  <2> QED
    BY <2>3, <2>4
<1>24. TokensHeld'
  <2>1. StoredTokenLives'
    BY <1>6, <1>22 DEF AccountingInv, TokensHeld, StoredTokenLives
  <2> QED
    BY <1>6, <1>21, <1>23, <2>1 DEF TokensHeld, Grant
<1> QED
  BY <1>14, <1>15, <1>20, <1>24 DEF AccountingInv

\* The tokens are stored, or lost with the write.
LEMMA PersistStep ==
  ASSUME AccountingInv, NEW q \in Push, PersistTokens(q)
  PROVE  AccountingInv'
<1>1. PICK t : t = push[q].conn.refresh
  OBVIOUS
<1>2. /\ push[q] = [step |-> "refreshed", of |-> push[q].of, conn |-> push[q].conn]
      /\ push[q].of \in ClientInvoice /\ push[q].conn \in Connection
      /\ Refreshed(q)
  BY PushKinds DEF PersistTokens, Refreshed
<1>3. t \in RefreshToken /\ t # NoToken /\ GivenOut(t) /\ t.grant \in Grant
  BY <1>1, <1>2 DEF AccountingInv, TokensGivenOut, Connection, RefreshToken
<1>4. PICK s : s = [push[q] EXCEPT !.step = "ready"]
  OBVIOUS
<1>5. s \in PushStep /\ s.step = "ready"
  <2>1. s = [step |-> "ready", of |-> push[q].of, conn |-> push[q].conn]
    BY <1>2, <1>4
  <2> QED
    BY <1>2, <2>1 DEF PushStep
<1>6. /\ push' = [push EXCEPT ![q] = s]
      /\ UNCHANGED <<rotation, grantOf, newest, external, externalRef, unlinked>>
      /\ \/ /\ UpdateAccountingTokens(t) /\ UNCHANGED spent
            /\ overtaken' = IF connection = NoConnection \/ IsNewest(t) THEN overtaken
                            ELSE overtaken \cup {t.grant}
         \/ /\ spent' = IF IsNewest(t) /\ ~IsStored(t) THEN spent \cup {t.grant} ELSE spent
            /\ UNCHANGED <<connection, overtaken>>
  BY <1>1, <1>4 DEF PersistTokens, To
<1>7. /\ push \in [Push -> PushStep]
      /\ connection = NoConnection \/ connection \in Connection
      /\ spent \subseteq Grant /\ overtaken \subseteq Grant
  BY DEF AccountingInv, AccountingTypeOK
<1>8. push'[q] = s /\ \A p \in Push \ {q} : push'[p] = push[p]
  BY <1>6, <1>7
<1>9. \/ /\ UNCHANGED spent
         /\ \/ /\ connection = NoConnection /\ connection' = NoConnection
               /\ UNCHANGED overtaken
            \/ /\ connection # NoConnection /\ connection' \in Connection
               /\ connection'.refresh = t
               /\ overtaken' = IF IsNewest(t) THEN overtaken ELSE overtaken \cup {t.grant}
      \/ /\ UNCHANGED <<connection, overtaken>>
         /\ spent' = IF IsNewest(t) /\ ~IsStored(t) THEN spent \cup {t.grant} ELSE spent
  <2>1. CASE UpdateAccountingTokens(t) /\ connection # NoConnection
    <3>1. connection' = [connection EXCEPT !.access = t.grant, !.valid = TRUE, !.refresh = t]
      BY <2>1 DEF UpdateAccountingTokens
    <3>2. connection' \in Connection /\ connection'.refresh = t
      BY <1>3, <1>7, <2>1, <3>1 DEF Connection
    <3> QED
      BY <1>6, <2>1, <3>2
  <2>2. CASE UpdateAccountingTokens(t) /\ connection = NoConnection
    BY <1>6, <2>2 DEF UpdateAccountingTokens
  <2> QED
    BY <1>6, <2>1, <2>2
<1>10. AccountingTypeOK'
  <2>1. push' \in [Push -> PushStep]
    BY <1>5, <1>6, <1>7
  <2>2. spent' \subseteq Grant /\ overtaken' \subseteq Grant
    BY <1>3, <1>7, <1>9
  <2>3. connection' = NoConnection \/ connection' \in Connection
    BY <1>7, <1>9
  <2> QED
    BY <1>6, <2>1, <2>2, <2>3 DEF AccountingInv, AccountingTypeOK, Grant, NoCompany, NoConnection,
       Connection, RefreshToken, NoToken, PushStep
<1>11. ExternalCounted'
  BY <1>6 DEF AccountingInv, ExternalCounted
<1>12. GivenOut(t)'
  BY <1>3, <1>6 DEF GivenOut, NoCompany, NoToken
<1>13. TokensGivenOut'
  <2>1. \A g \in Grant : grantOf'[g] = NoCompany => newest'[g] = 0
    BY <1>6 DEF AccountingInv, TokensGivenOut
  <2>2. connection' # NoConnection' => GivenOut(connection.refresh)'
    <3>1. CASE UNCHANGED connection
      BY <1>6, <3>1 DEF AccountingInv, TokensGivenOut, GivenOut, NoConnection, NoCompany, NoToken
    <3>2. CASE connection'.refresh = t
      BY <1>12, <3>2 DEF GivenOut
    <3> QED
      BY <1>9, <3>1, <3>2 DEF NoConnection, NoCompany
  <2>3. ASSUME NEW p \in Push, (Loaded(p) \/ Refreshed(p))'
        PROVE  p # q /\ (Loaded(p) \/ Refreshed(p)) /\ push'[p] = push[p]
    BY <1>5, <1>8, <2>3 DEF Loaded, Refreshed
  <2>4. \A p \in Push : (Loaded(p) \/ Refreshed(p))' => GivenOut(push[p].conn.refresh)'
    BY <1>6, <2>3 DEF AccountingInv, TokensGivenOut, GivenOut, NoCompany, NoToken
  <2>5. \A p \in Push : Refreshed(p)' => push'[p].conn.refresh # NoToken'
    BY <1>5, <1>8 DEF AccountingInv, TokensGivenOut, Refreshed, NoToken
  <2> QED
    BY <2>1, <2>2, <2>4, <2>5 DEF TokensGivenOut, NoCompany, Grant
<1>14. NewestKept'
  <2>1. NewestKept
    BY DEF AccountingInv, TokensHeld, StoredTokenLives
  <2>2. CASE connection' = NoConnection
    BY <2>2 DEF NewestKept, NoConnection, NoCompany
  <2>3. CASE /\ connection'.refresh = t
             /\ overtaken' = IF IsNewest(t) THEN overtaken ELSE overtaken \cup {t.grant}
    <3>1. IsNewest(t)' \/ t.grant \in spent' \cup overtaken'
      BY <1>6, <2>3 DEF IsNewest
    <3> QED
      BY <2>3, <3>1 DEF NewestKept
  <2>4. CASE /\ UNCHANGED <<connection, overtaken>>
             /\ spent' = IF IsNewest(t) /\ ~IsStored(t) THEN spent \cup {t.grant} ELSE spent
    <3>1. CASE connection = NoConnection \/ connection.refresh = NoToken
      BY <2>4, <3>1 DEF NewestKept, NoConnection, NoCompany, NoToken
    <3>2. CASE connection # NoConnection /\ connection.refresh # NoToken
      <4>1. PICK v : v = connection.refresh /\ connection'.refresh = v
        BY <2>4
      <4>2. v \in RefreshToken /\ v = [grant |-> v.grant, nth |-> v.nth]
        BY <1>7, <3>2, <4>1 DEF Connection, RefreshToken
      <4>3. CASE IsNewest(v)
        BY <1>6, <4>1, <4>3 DEF NewestKept, IsNewest
      <4>4. CASE v.grant \in spent \cup overtaken
        <5>1. v.grant \in spent' \cup overtaken'
          BY <2>4, <4>4
        <5> QED
          BY <4>1, <5>1 DEF NewestKept
      <4>5. ASSUME NEW p \in Push, push[p].step = "refreshed", ~IsNewest(v),
                   push[p].conn.refresh = [v EXCEPT !.nth = newest[v.grant]]
            PROVE  NewestKept'
        <5>1. CASE p = q
          <6>1. t.grant = v.grant /\ IsNewest(t)
            BY <1>1, <4>2, <4>5, <5>1 DEF IsNewest
          <6>2. ~IsStored(t)
            BY <4>1, <4>5, <6>1 DEF IsStored
          <6>3. v.grant \in spent'
            BY <2>4, <6>1, <6>2
          <6> QED
            BY <4>1, <6>3 DEF NewestKept
        <5>2. CASE p # q
          <6>1. push'[p] = push[p]
            BY <1>8, <5>2
          <6> QED
            BY <1>6, <4>1, <4>5, <6>1 DEF NewestKept
        <5> QED
          BY <5>1, <5>2
      <4> QED
        BY <2>1, <3>2, <4>1, <4>3, <4>4, <4>5 DEF NewestKept
    <3> QED
      BY <3>1, <3>2
  <2> QED
    BY <1>9, <2>2, <2>3, <2>4
<1>15. ASSUME rotation = "always", NEW p \in Push, Refreshed(p)' PROVE OnlyHolder(p)'
  <2>1. p # q /\ push'[p] = push[p] /\ Refreshed(p)
    BY <1>5, <1>8, <1>15 DEF Refreshed
  <2>2. OnlyHolder(p)
    BY <1>15, <2>1 DEF AccountingInv, TokensHeld
  <2>3. PICK v : v = push[p].conn.refresh
    OBVIOUS
  <2>4. v # t
    BY <1>1, <1>2, <2>1, <2>2, <2>3 DEF OnlyHolder
  <2>5. connection' # NoConnection' => connection'.refresh # v
    BY <1>9, <2>2, <2>3, <2>4 DEF OnlyHolder, NoConnection, NoCompany
  <2>6. ASSUME NEW o \in Push \ {p}, (Loaded(o) \/ Refreshed(o))'
        PROVE  push'[o].conn.refresh # v
    BY <1>5, <1>8, <2>2, <2>3, <2>6 DEF OnlyHolder, Loaded, Refreshed
  <2>7. v.nth = newest'[v.grant]
    BY <1>6, <2>2, <2>3 DEF OnlyHolder
  <2> QED
    BY <2>1, <2>3, <2>5, <2>6, <2>7 DEF OnlyHolder
<1>16. rotation # "now and then" => overtaken' = {}
  <2>1. ASSUME rotation # "now and then" PROVE overtaken = {}
    BY <2>1 DEF AccountingInv, TokensHeld, StoredTokenLives
  <2>2. CASE rotation = "always"
    BY <1>1, <1>2, <1>9, <2>1, <2>2 DEF AccountingInv, TokensHeld, OnlyHolder, IsNewest
  <2>3. CASE rotation = "never"
    <3>1. newest[t.grant] = 0 /\ t.nth \in Nat /\ t.nth <= newest[t.grant]
      BY <1>3, <2>3, AccountingAssumption
      DEF AccountingInv, TokensHeld, GivenOut, RefreshToken, AccountingAssumption
    <3>2. IsNewest(t)
      BY <3>1 DEF IsNewest
    <3> QED
      BY <1>9, <2>1, <2>3, <3>2
  <2>4. rotation \in {"always", "never", "now and then"}
    BY DEF AccountingInv, AccountingTypeOK
  <2> QED
    BY <2>2, <2>3, <2>4
<1>17. TokensHeld'
  <2>1. StoredTokenLives'
    BY <1>6, <1>14, <1>16 DEF StoredTokenLives
  <2> QED
    BY <1>6, <1>15, <2>1 DEF AccountingInv, TokensHeld, Grant
<1> QED
  BY <1>10, <1>11, <1>13, <1>17 DEF AccountingInv

LEMMA AccountingStep == AccountingInv /\ [AccountingNext]_accountingVars => AccountingInv'
<1> SUFFICES ASSUME AccountingInv, [AccountingNext]_accountingVars PROVE AccountingInv'
  OBVIOUS
<1>1. CASE (\E c \in Company : Callback(c)) \/ Disconnect \/ AccessExpires
  BY <1>1, RowStep
<1>2. ASSUME NEW q \in Push,
             \/ \E i \in ClientInvoice : LoadPush(q, i)
             \/ RefreshFails(q) \/ CreateInvoice(q) \/ CreateFails(q)
             \/ SetInvoiceExternalRef(q)
      PROVE  AccountingInv'
  BY <1>2, PushStepKeeps
<1>3. ASSUME NEW q \in Push, Refresh(q) PROVE AccountingInv'
  BY <1>3, RefreshStep
<1>4. ASSUME NEW q \in Push, PersistTokens(q) PROVE AccountingInv'
  BY <1>4, PersistStep
<1>5. CASE UNCHANGED accountingVars
  <2>1. UNCHANGED <<rotation, newest, external, externalRef, push, spent, overtaken, unlinked>>
        /\ grantOf' = grantOf /\ connection' = connection
    BY <1>5 DEF accountingVars
  <2>2. /\ grantOf' \in [Grant -> Company \cup {NoCompany}]
        /\ connection' = NoConnection \/ connection' \in Connection
    BY <2>1 DEF AccountingInv, AccountingTypeOK
  <2> QED
    BY <2>1, <2>2, RowChanges
<1> QED
  BY <1>1, <1>2, <1>3, <1>4, <1>5 DEF AccountingNext

\* The refresh token the connection keeps is the one the provider takes, or a push is
\* about to store that one, or it was lost with an answer or a write that failed, or an
\* older one was stored in its place; and that last is so only with a provider that
\* rotates now and then: for any number of pushes that overlap each other, a
\* disconnection or another consent.
THEOREM TokenSurvives == AccountingSpec => [](AccountingTypeOK /\ StoredTokenLives)
<1>1. AccountingInv => AccountingTypeOK /\ StoredTokenLives
  BY DEF AccountingInv, TokensHeld
<1> QED
  BY <1>1, AccountingInitially, AccountingStep, PTL DEF AccountingSpec

-----------------------------------------------------------------------------
(* Imports: the places of issues in a list *)

LEMMA IssuesAreFinite ==
  ASSUME NEW S \in SUBSET Issue
  PROVE  /\ IsFiniteSet(S) /\ Cardinality(S) \in Nat
         /\ S \in SUBSET Nat /\ S \in SUBSET (0 .. MaxIssue) /\ MaxIssue \in Nat
<1>1. MaxIssue \in Nat
  BY ImportAssumption
<1>2. IsFiniteSet(Issue)
  BY <1>1, FS_Interval DEF Issue
<1>3. IsFiniteSet(S)
  BY <1>2, FS_Subset
<1>4. Cardinality(S) \in Nat
  BY <1>3, FS_CardinalityType
<1>5. S \in SUBSET Nat /\ S \in SUBSET (0 .. MaxIssue)
  BY <1>1 DEF Issue
<1> QED
  BY <1>1, <1>3, <1>4, <1>5

LEMMA NewestIssue ==
  ASSUME NEW R \in SUBSET Issue, R # {} PROVE \E m \in R : \A j \in R : j <= m
<1>1. R \in SUBSET (0 .. MaxIssue) /\ MaxIssue \in Nat
  BY IssuesAreFinite
<1>2. Max(R) \in R /\ \A j \in R : j <= Max(R)
  BY <1>1, MaxIsGreatest
<1> QED
  BY <1>2

LEMMA PlaceInIsNatural ==
  ASSUME NEW S \in SUBSET Issue, NEW i PROVE PlaceIn(S, i) \in Nat
<1>1. PICK B : B = {j \in S : j > i}
  OBVIOUS
<1>2. B \in SUBSET Issue
  BY <1>1
<1> QED
  BY <1>1, <1>2, IssuesAreFinite DEF PlaceIn

LEMMA PlaceInGrows ==
  ASSUME NEW S \in SUBSET Issue, NEW T \in SUBSET Issue, NEW i, NEW k,
         \A j \in S : j > i => j \in T /\ j > k
  PROVE  PlaceIn(S, i) <= PlaceIn(T, k)
<1>1. PICK B, C : B = {j \in S : j > i} /\ C = {j \in T : j > k}
  OBVIOUS
<1>2. B \in SUBSET C /\ C \in SUBSET Issue
  BY <1>1
<1>3. Cardinality(B) <= Cardinality(C)
  BY <1>2, FS_Subset, IssuesAreFinite
<1> QED
  BY <1>1, <1>3 DEF PlaceIn

\* Of the issues from place n on, the one at place p is at place n + p of them all.
LEMMA PlaceInAfter ==
  ASSUME NEW S \in SUBSET Issue, NEW n \in Nat, NEW R \in SUBSET Issue,
         R = {j \in S : PlaceIn(S, j) >= n}, NEW i \in R
  PROVE  PlaceIn(S, i) >= n + PlaceIn(R, i)
<1>1. PICK m \in R : \A j \in R : j <= m
  BY NewestIssue
<1>2. m \in S /\ PlaceIn(S, m) >= n
  BY <1>1
<1>3. PICK A, B, C : /\ A = {j \in S : j > m} /\ B = {j \in R : j > i}
                     /\ C = {j \in S : j > i}
  OBVIOUS
<1>4. A \in SUBSET Issue /\ B \in SUBSET Issue /\ C \in SUBSET Issue /\ S \in SUBSET Nat
  BY <1>3, IssuesAreFinite
<1>5. A \cap B = {}
  <2> SUFFICES ASSUME NEW j \in A, j \in B PROVE FALSE
    OBVIOUS
  <2>1. j > m /\ j <= m /\ j \in Nat /\ m \in Nat
    BY <1>1, <1>2, <1>3, <1>4
  <2> QED
    BY <2>1
<1>6. \A j \in A : j > i
  <2> SUFFICES ASSUME NEW j \in A PROVE j > i
    OBVIOUS
  <2>1. j > m /\ i <= m /\ j \in Nat /\ i \in Nat /\ m \in Nat
    BY <1>1, <1>2, <1>3, <1>4
  <2> QED
    BY <2>1
<1>7. A \cup B \in SUBSET C
  BY <1>3, <1>6
<1>8. /\ IsFiniteSet(A) /\ IsFiniteSet(B) /\ IsFiniteSet(C)
      /\ Cardinality(A) \in Nat /\ Cardinality(B) \in Nat /\ Cardinality(C) \in Nat
  BY <1>4, IssuesAreFinite
<1>9. Cardinality(A \cup B) = Cardinality(A) + Cardinality(B) - Cardinality(A \cap B)
  BY <1>8, FS_Union
<1>10. Cardinality(A \cap B) = 0
  BY <1>5, FS_EmptySet
<1>11. Cardinality(A \cup B) <= Cardinality(C)
  BY <1>7, <1>8, FS_Subset
<1>12. Cardinality(A) >= n
  BY <1>2, <1>3 DEF PlaceIn
<1>13. Cardinality(C) >= n + Cardinality(B)
  BY <1>8, <1>9, <1>10, <1>11, <1>12
<1> QED
  BY <1>3, <1>13 DEF PlaceIn

\* What is behind a page stands behind all of it.
LEMMA BehindPage ==
  ASSUME NEW R \in SUBSET Issue, NEW size \in Nat, NEW P \in SUBSET R,
         \A j \in R : j \in P <=> PlaceIn(R, j) < size, NEW i \in R \ P
  PROVE  /\ \A j \in P : i < j
         /\ PlaceIn(R, i) >= Cardinality(P)
         /\ P \in SUBSET Issue /\ Cardinality(P) \in Nat
<1>1. P \in SUBSET Issue /\ i \in Issue /\ R \in SUBSET Nat
  BY IssuesAreFinite
<1>2. ASSUME NEW j \in P PROVE i < j
  <2> SUFFICES ASSUME ~(i < j) PROVE FALSE
    OBVIOUS
  <2>1. i \in Nat /\ j \in Nat /\ j \in R
    BY <1>1
  <2>2. \A k \in R : k > i => k > j
    BY <1>1, <2>1
  <2>3. PlaceIn(R, i) <= PlaceIn(R, j)
    BY <2>2, PlaceInGrows
  <2>4. PlaceIn(R, j) < size /\ ~(PlaceIn(R, i) < size)
    BY <2>1
  <2>5. PlaceIn(R, i) \in Nat /\ PlaceIn(R, j) \in Nat
    BY PlaceInIsNatural
  <2> QED
    BY <2>3, <2>4, <2>5
<1>3. PICK B : B = {j \in R : j > i}
  OBVIOUS
<1>4. P \in SUBSET B
  BY <1>1, <1>2, <1>3
<1>5. B \in SUBSET Issue
  BY <1>3
<1>6. Cardinality(P) <= Cardinality(B)
  BY <1>4, <1>5, FS_Subset, IssuesAreFinite
<1>7. Cardinality(B) \in Nat /\ Cardinality(P) \in Nat
  BY <1>1, <1>5, IssuesAreFinite
<1> QED
  BY <1>1, <1>2, <1>3, <1>6, <1>7 DEF PlaceIn

-----------------------------------------------------------------------------
(* Imports: what is fetched *)

\* What tracker t, listing the issues S, still has for a fetch that stands at a point.
BehindIn(t, S, at) ==
  IF t = "jira" THEN {i \in S : PlaceIn(S, i) >= at} ELSE {i \in S : at = 0 \/ i < at}

InHand == {"fetching", "fetched", "resolved"}

\* What existed when an import began is fetched or still to come, and once it has
\* been fetched to the end it is all there.
FetchHolds(f, t, S) ==
  /\ f.step = "fetching" => f.page < MaxPages
  /\ f.step \in InHand => f.there \subseteq S
  /\ f.step = "fetching" /\ f.limit = 0 /\ ~f.short =>
       \A i \in f.there \ f.got : i \in BehindIn(t, S, f.at)
  /\ f.step \in {"fetched", "resolved"} /\ ~f.truncated /\ ~f.short => f.there \subseteq f.got
  /\ f.step = "written" /\ ~f.truncated /\ ~f.short => f.missed = {}

LEMMA BehindIsIn ==
  ASSUME NEW f PROVE Behind(f) = BehindIn(tracker, listed, f.at)
BY DEF Behind, BehindIn, PlaceOf

Trackers == {"jira", "linear"}

LEMMA BehindGrows ==
  ASSUME NEW t \in Trackers, NEW S \in SUBSET Issue, NEW T \in SUBSET Issue, S \subseteq T,
         NEW at \in Nat, NEW i \in BehindIn(t, S, at)
  PROVE  i \in BehindIn(t, T, at)
<1>1. CASE t = "jira"
  <2>1. i \in S /\ PlaceIn(S, i) >= at
    BY <1>1 DEF BehindIn
  <2>2. PlaceIn(S, i) <= PlaceIn(T, i)
    BY PlaceInGrows
  <2>3. PlaceIn(S, i) \in Nat /\ PlaceIn(T, i) \in Nat
    BY PlaceInIsNatural
  <2>4. PlaceIn(T, i) >= at
    BY <2>1, <2>2, <2>3
  <2> QED
    BY <1>1, <2>1, <2>4 DEF BehindIn
<1>2. CASE t # "jira"
  BY <1>2 DEF BehindIn
<1> QED
  BY <1>1, <1>2

LEMMA BehindShrinks ==
  ASSUME NEW t \in Trackers, NEW S \in SUBSET Issue, NEW at \in Nat, NEW x \in S,
         t = "jira" => ~(PlaceIn(S, x) < at),
         NEW i \in BehindIn(t, S, at), i # x
  PROVE  i \in BehindIn(t, S \ {x}, at)
<1>0. PICK T \in SUBSET Issue : T = S \ {x}
  OBVIOUS
<1>1. CASE t = "jira"
  <2>1. i \in S /\ i \in T /\ PlaceIn(S, i) >= at /\ S \in SUBSET Nat
    BY <1>0, <1>1, IssuesAreFinite DEF BehindIn
  <2>2. PlaceIn(S, i) \in Nat /\ PlaceIn(T, i) \in Nat /\ PlaceIn(S, x) \in Nat
    BY PlaceInIsNatural
  <2>3. CASE x > i
    <3>1. \A j \in S : j > x => j \in T /\ j > i
      BY <1>0, <2>1, <2>3
    <3>2. PlaceIn(S, x) <= PlaceIn(T, i)
      BY <3>1, PlaceInGrows
    <3>3. PlaceIn(T, i) >= at
      BY <1>1, <2>2, <3>2
    <3> QED
      BY <1>0, <1>1, <2>1, <3>3 DEF BehindIn
  <2>4. CASE ~(x > i)
    <3>1. PlaceIn(S, i) <= PlaceIn(T, i)
      BY <1>0, <2>4, PlaceInGrows
    <3>2. PlaceIn(T, i) >= at
      BY <2>1, <2>2, <3>1
    <3> QED
      BY <1>0, <1>1, <2>1, <3>2 DEF BehindIn
  <2> QED
    BY <2>3, <2>4
<1>2. CASE t # "jira"
  BY <1>2 DEF BehindIn
<1> QED
  BY <1>1, <1>2

\* The page a fetch reads is the front of what is behind it, and the next one goes
\* on behind that page.
LEMMA BehindTurns ==
  ASSUME NEW t \in Trackers, NEW S \in SUBSET Issue, NEW at \in Nat, NEW size \in Nat,
         NEW R, R = BehindIn(t, S, at), NEW P, P = {j \in R : PlaceIn(R, j) < size},
         NEW next, next = IF t = "jira" THEN at + Cardinality(P)
                          ELSE IF P # R THEN Min(P) ELSE at,
         size > 0,
         NEW i \in R \ P
  PROVE  next \in Nat /\ i \in BehindIn(t, S, next)
<1>1. R \in SUBSET Issue /\ R \in SUBSET S /\ P \in SUBSET R /\ P # R
  BY DEF BehindIn
<1>2. (\A j \in P : i < j) /\ PlaceIn(R, i) >= Cardinality(P) /\ Cardinality(P) \in Nat
  <2>1. \A j \in R : j \in P <=> PlaceIn(R, j) < size
    OBVIOUS
  <2>2. size \in Nat /\ i \in R \ P
    OBVIOUS
  <2> QED
    BY ONLY <1>1, <2>1, <2>2, BehindPage
<1>3. CASE t = "jira"
  <2>1. next = at + Cardinality(P) /\ R = {j \in S : PlaceIn(S, j) >= at}
    BY <1>3 DEF BehindIn
  <2>2. PlaceIn(S, i) >= at + PlaceIn(R, i)
    BY <1>1, <2>1, PlaceInAfter
  <2>3. PlaceIn(S, i) \in Nat /\ PlaceIn(R, i) \in Nat
    BY <1>1, PlaceInIsNatural
  <2>4. PlaceIn(S, i) >= next /\ next \in Nat
    BY <1>2, <2>1, <2>2, <2>3
  <2> QED
    BY <1>1, <1>3, <2>4 DEF BehindIn
<1>4. CASE t # "jira"
  <2>1. next = Min(P)
    BY <1>1, <1>4
  <2>2. P # {}
    <3>1. PICK m \in R : \A j \in R : j <= m
      BY <1>1, NewestIssue
    <3>2. PICK B : B = {j \in R : j > m}
      OBVIOUS
    <3>3. B = {}
      <4> SUFFICES ASSUME NEW j \in B PROVE FALSE
        OBVIOUS
      <4>1. j \in R /\ j > m /\ j <= m /\ j \in Nat /\ m \in Nat
        BY <1>1, <3>1, <3>2, IssuesAreFinite
      <4> QED
        BY <4>1
    <3>4. PlaceIn(R, m) = 0
      BY <3>2, <3>3, FS_EmptySet DEF PlaceIn
    <3> QED
      BY <3>1, <3>4
  <2>3. P \in SUBSET Nat
    BY <1>1, IssuesAreFinite
  <2>4. PICK m \in P : \A j \in P : m <= j
    BY <2>2, <2>3, LeastNatural
  <2>5. Min(P) \in P
    BY <2>4 DEF Min
  <2>6. next \in Nat /\ i < next
    BY <1>2, <2>1, <2>3, <2>5
  <2> QED
    BY <1>1, <1>4, <2>6 DEF BehindIn
<1> QED
  BY <1>3, <1>4

Fetches == {NoFetch} \cup Ended \cup Fetch

LEMMA FetchKinds ==
  ASSUME NEW f \in Fetches
  PROVE  /\ f.step \in InHand <=> f \in Fetch
         /\ f \notin Fetch => f.step \in {"idle", "previewed", "written"}
         /\ f \in Ended <=> f.step \in {"previewed", "written"}
         /\ f = NoFetch <=> f.step = "idle"
<1>1. CASE f = NoFetch
  BY <1>1 DEF NoFetch, Ended, Fetch, InHand
<1>2. CASE f \in Ended
  BY <1>2 DEF NoFetch, Ended, Fetch, InHand
<1>3. CASE f \in Fetch
  BY <1>3 DEF NoFetch, Ended, Fetch, InHand
<1> QED
  BY <1>1, <1>2, <1>3 DEF Fetches

\* What is made in the tracker is not asked for, and takes nothing away.
LEMMA FetchWithMore ==
  ASSUME NEW f \in Fetches, NEW t \in Trackers, NEW S \in SUBSET Issue,
         NEW T \in SUBSET Issue, S \subseteq T, FetchHolds(f, t, S)
  PROVE  FetchHolds(f, t, T)
<1>1. ASSUME f.step = "fetching", f.limit = 0, ~f.short, NEW i \in f.there \ f.got
      PROVE  i \in BehindIn(t, T, f.at)
  <2>1. i \in BehindIn(t, S, f.at)
    BY <1>1 DEF FetchHolds
  <2>2. f.at \in Nat
    BY <1>1, FetchKinds DEF InHand, Fetch
  <2> QED
    BY <2>1, <2>2, BehindGrows
<1> QED
  BY <1>1 DEF FetchHolds

\* What leaves it is not missed, unless it moved others onto a page already read.
LEMMA FetchWithLess ==
  ASSUME NEW f \in Fetch, NEW t \in Trackers, NEW S \in SUBSET Issue, NEW x \in S,
         FetchHolds(f, t, S), NEW short \in BOOLEAN,
         short <=> f.short \/ (f.step = "fetching" /\ t = "jira" /\ PlaceIn(S, x) < f.at),
         NEW g, g = [f EXCEPT !.there = f.there \ {x}, !.short = short]
  PROVE  g \in Fetch /\ FetchHolds(g, t, S \ {x})
<1>1. /\ g.step = f.step /\ g.page = f.page /\ g.limit = f.limit /\ g.got = f.got
      /\ g.at = f.at /\ g.truncated = f.truncated /\ g.short = short
      /\ g.there = f.there \ {x}
  BY DEF Fetch
<1>2. g \in Fetch
  BY DEF Fetch
<1>3. ASSUME f.step = "fetching", f.limit = 0, ~short, NEW i \in g.there \ g.got
      PROVE  i \in BehindIn(t, S \ {x}, f.at)
  <2>1. i \in BehindIn(t, S, f.at) /\ i # x
    BY <1>1, <1>3 DEF FetchHolds
  <2>2. f.at \in Nat /\ (t = "jira" => ~(PlaceIn(S, x) < f.at))
    BY <1>3 DEF Fetch
  <2> QED
    BY <2>1, <2>2, BehindShrinks
<1>4. f.step \in {"fetching", "fetched", "resolved"}
  BY DEF Fetch
<1> QED
  BY <1>1, <1>2, <1>3, <1>4 DEF FetchHolds, InHand

LEMMA EndedWithLess ==
  ASSUME NEW f \in Ended, NEW t, NEW S, NEW x, FetchHolds(f, t, S)
  PROVE  LET g == [f EXCEPT !.missed = f.missed \ {x}]
         IN  g \in Ended /\ FetchHolds(g, t, S \ {x})
<1> DEFINE g == [f EXCEPT !.missed = f.missed \ {x}]
<1>1. /\ g.step = f.step /\ g.truncated = f.truncated /\ g.short = f.short
      /\ g.missed = f.missed \ {x} /\ f.step \in {"previewed", "written"} /\ g \in Ended
  BY DEF Ended
<1> HIDE DEF g
<1>2. FetchHolds(g, t, S \ {x})
  BY <1>1 DEF FetchHolds, InHand
<1> QED
  BY <1>1, <1>2 DEF g

\* A page brings what it lists, and the last of them all that was to come.
LEMMA PageHolds ==
  ASSUME ImportTypeOK, NEW f \in Fetch, f.step = "fetching",
         FetchHolds(f, tracker, listed), NEW size \in Nat, size > 0
  PROVE  Paged(f, size) \in Fetches /\ FetchHolds(Paged(f, size), tracker, listed)
<1>0. /\ f.page \in 0 .. MaxPages /\ f.page < MaxPages /\ MaxPages \in Nat /\ f.at \in Nat
      /\ f.count \in Nat /\ f.got \in SUBSET Issue /\ f.there \in SUBSET Issue
      /\ f.limit \in {0, PreviewSample} /\ PreviewSample \in Nat \ {0}
      /\ f.truncated \in BOOLEAN /\ f.short \in BOOLEAN /\ f.there \subseteq listed
  BY ImportAssumption DEF Fetch, FetchHolds, InHand
<1>a. tracker \in Trackers /\ listed \in SUBSET Issue
  BY DEF ImportTypeOK, Trackers
<1>1. PICK R : R = BehindIn(tracker, listed, f.at)
  OBVIOUS
<1>2. PICK P : P = {i \in R : PlaceIn(R, i) < size}
  OBVIOUS
<1>3. Behind(f) = R /\ PageOf(f, size) = P
  BY <1>1, <1>2, BehindIsIn DEF PageOf
<1>4. R \in SUBSET Issue /\ P \in SUBSET R /\ Cardinality(P) \in Nat
  BY <1>1, <1>2, <1>a, IssuesAreFinite DEF BehindIn
<1>5. PICK next : next = IF tracker = "jira" THEN f.at + Cardinality(P)
                         ELSE IF P # R THEN Min(P) ELSE f.at
  OBVIOUS
<1>6. ASSUME NEW i \in R \ P PROVE next \in Nat /\ i \in BehindIn(tracker, listed, next)
  BY <1>0, <1>1, <1>2, <1>5, <1>6, <1>a, BehindTurns, SMTT(60)
<1>7. next \in Nat
  <2>1. CASE P = R
    BY <1>0, <1>4, <1>5, <2>1
  <2>2. CASE P # R
    BY <1>4, <1>6, <2>2
  <2> QED
    BY <2>1, <2>2
<1>8. PICK left \in BOOLEAN :
         left <=> (P # R /\ ~(f.limit > 0 /\ f.count + Cardinality(P) >= f.limit))
  OBVIOUS
<1>9. PICK over \in BOOLEAN : over <=> (LastPage(f) /\ left)
  OBVIOUS
<1>10. PICK got : got = f.got \cup P
  OBVIOUS
<1>11. PICK count \in Nat : count = f.count + Cardinality(P)
  BY <1>0, <1>4
<1>12. PICK g : g = [f EXCEPT !.got = got, !.count = count, !.page = f.page + 1,
                              !.truncated = over, !.at = next]
  OBVIOUS
<1>13. Paged(f, size) = IF left /\ ~LastPage(f) THEN g
                        ELSE IF f.limit > 0 THEN Over("previewed", g, got)
                        ELSE [g EXCEPT !.step = "fetched"]
  <2>1. left = (P # R /\ ~(f.limit > 0 /\ count >= f.limit))
    BY <1>8, <1>11
  <2>2. over = Truncates(f, left)
    BY <1>9 DEF Truncates
  <2> QED
    BY <1>3, <1>5, <1>10, <1>11, <1>12, <2>1, <2>2 DEF Paged
<1>14. /\ g \in Fetch /\ g.step = "fetching" /\ g.limit = f.limit /\ g.there = f.there
       /\ g.short = f.short /\ g.truncated = over /\ g.got = got /\ g.page = f.page + 1
       /\ g.at = next
  <2>1. f.page + 1 \in 0 .. MaxPages /\ got \in SUBSET Issue
    BY <1>0, <1>4, <1>10
  <2> QED
    BY <1>7, <1>12, <2>1 DEF Fetch
<1>15. ASSUME f.limit = 0, ~f.short, NEW i \in f.there \ got
       PROVE  i \in R \ P
  BY <1>1, <1>10, <1>15 DEF FetchHolds
<1>16. CASE left /\ ~LastPage(f)
  <2>1. f.page + 1 < MaxPages
    BY <1>0, <1>16 DEF LastPage
  <2>2. ASSUME f.limit = 0, ~f.short, NEW i \in f.there \ got
        PROVE  i \in BehindIn(tracker, listed, next)
    BY <1>6, <1>15, <2>2
  <2>3. FetchHolds(g, tracker, listed)
    BY <1>0, <1>14, <2>1, <2>2 DEF FetchHolds
  <2> QED
    BY <1>13, <1>14, <1>16, <2>3 DEF Fetches
<1>17. CASE ~(left /\ ~LastPage(f)) /\ f.limit > 0
  <2>1. PICK o : o = Over("previewed", g, got)
    OBVIOUS
  <2>2. o \in Ended /\ o.step = "previewed"
    BY <1>0, <1>14, <2>1 DEF Over, Ended
  <2>3. FetchHolds(o, tracker, listed)
    BY <2>2 DEF FetchHolds, InHand
  <2> QED
    BY <1>13, <1>17, <2>1, <2>2, <2>3 DEF Fetches
<1>18. CASE ~(left /\ ~LastPage(f)) /\ f.limit = 0
  <2>1. PICK o : o = [g EXCEPT !.step = "fetched"]
    OBVIOUS
  <2>2. /\ o \in Fetch /\ o.step = "fetched" /\ o.there = f.there /\ o.short = f.short
        /\ o.truncated = over /\ o.got = got
    BY <1>14, <2>1 DEF Fetch
  <2>3. ASSUME ~over PROVE P = R
    BY <1>8, <1>9, <1>18, <2>3
  <2>4. ~over /\ ~f.short => f.there \subseteq got
    BY <1>15, <1>18, <2>3
  <2>5. FetchHolds(o, tracker, listed)
    BY <1>0, <2>2, <2>4 DEF FetchHolds
  <2> QED
    BY <1>13, <1>18, <2>1, <2>2, <2>5 DEF Fetches
<1> QED
  BY <1>0, <1>16, <1>17, <1>18

-----------------------------------------------------------------------------
(* Imports: the rows written *)

\* SetToSeq lists a finite set, each of its elements once.
LEMMA SetToSeqLists ==
  ASSUME NEW S, IsFiniteSet(S), NEW s, s = SetToSeq(S)
  PROVE  /\ s \in Seq(S)
         /\ \A m, n \in DOMAIN s : s[m] = s[n] => m = n
         /\ \A x \in S : \E n \in DOMAIN s : s[n] = x
<1>1. Cardinality(S) \in Nat /\ ExistsBijection(1 .. Cardinality(S), S)
  BY FS_CardinalityType
<1>2. PICK D : D = 1 .. Cardinality(S)
  OBVIOUS
<1>3. \E g \in [D -> S] : IsInjective(g)
  BY <1>1, <1>2 DEF ExistsBijection, Bijection, Injection
<1>4. s = CHOOSE g \in [D -> S] : IsInjective(g)
  BY <1>2 DEF SetToSeq
<1>5. s \in [D -> S] /\ IsInjective(s)
  BY <1>3, <1>4
<1>6. s \in Injection(D, S) /\ IsFiniteSet(D) /\ Cardinality(D) = Cardinality(S)
  BY <1>1, <1>2, <1>5, FS_Interval DEF Injection
<1>7. s \in Surjection(D, S)
  BY <1>6, FS_Injection
<1>8. s \in Seq(S) /\ DOMAIN s = D
  BY <1>1, <1>2, <1>5
<1> QED
  BY <1>5, <1>7, <1>8 DEF IsInjective, Surjection

LEMMA KeysAreFinite ==
  ASSUME NEW f, f.got \subseteq Issue
  PROVE  /\ KeysOf(f) \subseteq ProjectKey /\ FreshKeys(f) \subseteq KeysOf(f)
         /\ IsFiniteSet(FreshKeys(f))
<1>1. KeysOf(f) \subseteq ProjectKey /\ FreshKeys(f) \subseteq KeysOf(f)
  BY DEF KeysOf, ProjectKey, FreshKeys
<1>2. IsFiniteSet(ProjectKey)
  BY ImportAssumption
<1> QED
  BY <1>1, <1>2, FS_Subset

\* The rows behind an import: those there, and one of each fresh key.
LEMMA RowsWritten ==
  ASSUME ImportTypeOK, NEW f \in Fetch, NEW rows, rows = projects \o SetToSeq(FreshKeys(f)),
         Len(rows) <= MaxProject
  PROVE  /\ rows \in Seq(ProjectKey)
         /\ DOMAIN projects \subseteq DOMAIN rows
         /\ DOMAIN rows \subseteq 1 .. MaxProject
         /\ \A p \in DOMAIN projects : rows[p] = projects[p]
         /\ \A p \in DOMAIN rows : rows[p] \in FreshKeys(f) \/ p \in DOMAIN projects
         /\ \A p, q \in DOMAIN rows : rows[p] = rows[q] =>
              \/ p = q
              \/ p \in DOMAIN projects /\ q \in DOMAIN projects
              \/ \E o \in DOMAIN projects : projects[o] \in FreshKeys(f)
         /\ \A k \in FreshKeys(f) : \E p \in DOMAIN rows : p > Len(projects) /\ rows[p] = k
<1>1. /\ projects \in Seq(ProjectKey) /\ Len(projects) \in Nat
      /\ DOMAIN projects = 1 .. Len(projects)
  BY DEF ImportTypeOK
<1>2. PICK K : K = FreshKeys(f)
  OBVIOUS
<1>3. K \subseteq ProjectKey /\ IsFiniteSet(K)
  BY <1>2, KeysAreFinite DEF Fetch
<1>4. PICK s : s = SetToSeq(K)
  OBVIOUS
<1>5. /\ s \in Seq(K)
      /\ \A m, n \in DOMAIN s : s[m] = s[n] => m = n
      /\ \A x \in K : \E n \in DOMAIN s : s[n] = x
  BY <1>3, <1>4, SetToSeqLists
<1>6. PICK N, L : N = Len(projects) /\ L = Len(s)
  OBVIOUS
<1>7. N \in Nat /\ L \in Nat /\ DOMAIN s = 1 .. L /\ DOMAIN projects = 1 .. N
  BY <1>1, <1>5, <1>6
<1>8. s \in Seq(ProjectKey)
  BY <1>3, <1>5
<1>9. rows = projects \o s
  BY <1>2, <1>4
<1>10. /\ rows \in Seq(ProjectKey) /\ Len(rows) = N + L /\ DOMAIN rows = 1 .. (N + L)
  BY <1>1, <1>6, <1>8, <1>9
<1>11. \A p \in 1 .. (N + L) : rows[p] = IF p <= N THEN projects[p] ELSE s[p - N]
  BY <1>1, <1>6, <1>8, <1>9
<1>12. \A p \in 1 .. (N + L) : p <= N \/ p - N \in 1 .. L
  BY <1>7
<1>13. DOMAIN projects \subseteq DOMAIN rows /\ \A p \in DOMAIN projects : rows[p] = projects[p]
  BY <1>7, <1>10, <1>11
<1>14. \A p \in DOMAIN rows : rows[p] \in K \/ p \in DOMAIN projects
  BY <1>5, <1>7, <1>10, <1>11, <1>12
<1>15. ASSUME NEW p \in DOMAIN rows, NEW q \in DOMAIN rows, rows[p] = rows[q]
       PROVE  \/ p = q
              \/ p \in DOMAIN projects /\ q \in DOMAIN projects
              \/ \E o \in DOMAIN projects : projects[o] \in K
  <2>1. CASE p \in DOMAIN projects
    BY <1>13, <1>14, <1>15, <2>1
  <2>2. CASE q \in DOMAIN projects
    BY <1>13, <1>14, <1>15, <2>2
  <2>3. CASE p \notin DOMAIN projects /\ q \notin DOMAIN projects
    <3>1. PICK m, n : m = p - N /\ n = q - N
      OBVIOUS
    <3>2. p \in 1 .. (N + L) /\ q \in 1 .. (N + L) /\ ~(p <= N) /\ ~(q <= N)
      BY <1>7, <1>10, <2>3
    <3>3. rows[p] = s[m] /\ rows[q] = s[n] /\ m \in DOMAIN s /\ n \in DOMAIN s
      BY <1>7, <1>11, <1>12, <3>1, <3>2
    <3>4. m = n
      BY <1>5, <1>15, <3>3
    <3> QED
      BY <1>7, <3>1, <3>2, <3>4
  <2> QED
    BY <2>1, <2>2, <2>3
<1>16. ASSUME NEW k \in K PROVE \E p \in DOMAIN rows : p > Len(projects) /\ rows[p] = k
  <2>1. PICK n \in DOMAIN s : s[n] = k
    BY <1>5
  <2>2. PICK p : p = N + n
    OBVIOUS
  <2>3. p \in 1 .. (N + L) /\ ~(p <= N) /\ p - N = n /\ p > N
    BY <1>7, <2>1, <2>2
  <2>4. rows[p] = k
    BY <1>11, <2>1, <2>3
  <2> QED
    BY <1>6, <1>10, <2>3, <2>4
<1>17. DOMAIN rows \subseteq 1 .. MaxProject
  BY <1>7, <1>10, ImportAssumption
<1> QED
  BY <1>2, <1>10, <1>13, <1>14, <1>15, <1>16, <1>17

\* The row a key is given: one of those there, or the one made for it.
LEMMA RowOfKey ==
  ASSUME ImportTypeOK, NEW f \in Fetch, NEW rows, rows = projects \o SetToSeq(FreshKeys(f)),
         Len(rows) <= MaxProject, NEW k \in KeysOf(f)
  PROVE  /\ RowOf(f, rows, k) \in 1 .. MaxProject
         /\ f.project[k] # 0 => RowOf(f, rows, k) = f.project[k]
         /\ f.project[k] = 0 => RowOf(f, rows, k) \in DOMAIN rows /\ rows[RowOf(f, rows, k)] = k
<1>1. k \in ProjectKey
  BY KeysAreFinite DEF Fetch
<1>2. f.project[k] \in 0 .. MaxProject
  BY <1>1 DEF Fetch
<1>3. CASE f.project[k] # 0
  BY <1>2, <1>3, ImportAssumption DEF RowOf
<1>4. CASE f.project[k] = 0
  <2>1. k \in FreshKeys(f)
    BY <1>4 DEF FreshKeys
  <2>2. \E p \in DOMAIN rows : p > Len(projects) /\ rows[p] = k
    BY <2>1, RowsWritten
  <2>3. RowOf(f, rows, k) = CHOOSE p \in DOMAIN rows : p > Len(projects) /\ rows[p] = k
    BY <1>4 DEF RowOf
  <2>4. RowOf(f, rows, k) \in DOMAIN rows /\ rows[RowOf(f, rows, k)] = k
    BY <2>2, <2>3
  <2>5. DOMAIN rows \subseteq 1 .. MaxProject
    BY RowsWritten
  <2> QED
    BY <1>4, <2>4, <2>5
<1> QED
  BY <1>3, <1>4

-----------------------------------------------------------------------------
(* Imports: the steps *)

AllFetched == \A r \in ImportRequest : FetchHolds(fetch[r], tracker, listed)

\* A row of a key that an import has found is there; where it found none, there is
\* none yet, unless two imports were at it together.
Resolved(f) ==
  f.step = "resolved" => \A k \in ProjectKey :
    /\ f.project[k] # 0 => f.project[k] \in DOMAIN projects /\ projects[f.project[k]] = k
    /\ k \in FreshKeys(f) => raced \/ \A p \in DOMAIN projects : projects[p] # k

ProjectInv ==
  /\ ProjectPerKey
  /\ \A r \in ImportRequest : Resolved(fetch[r])
  /\ \A r, o \in ImportRequest :
       fetch[r].step = "resolved" /\ fetch[o].step = "resolved" => r = o \/ raced

ImportInv == ImportTypeOK /\ AllFetched /\ ProjectInv

LEMMA ImportInitially == ImportInit => ImportInv
<1> SUFFICES ASSUME ImportInit PROVE ImportInv
  OBVIOUS
<1>1. ImportTypeOK
  <2>1. MaxIssue \in Nat /\ MaxProject \in Nat
    BY ImportAssumption
  <2>2. fetch \in [ImportRequest -> {NoFetch} \cup Ended \cup Fetch]
    BY DEF ImportInit
  <2>3. projects \in Seq(ProjectKey) /\ Len(projects) <= MaxProject
    BY <2>1 DEF ImportInit
  <2>4. issueProject \in [Issue -> {{}} \cup {{p} : p \in 0 .. MaxProject}]
    BY DEF ImportInit
  <2>5. raced \in BOOLEAN
    BY DEF ImportInit
  <2>6. listed \subseteq Issue /\ issuesMade \in 0 .. MaxIssue /\ tracker \in {"jira", "linear"}
    BY <2>1 DEF ImportInit
  <2> QED
    BY <2>2, <2>3, <2>4, <2>5, <2>6 DEF ImportTypeOK
<1>2. \A r \in ImportRequest : fetch[r].step = "idle"
  BY DEF ImportInit, NoFetch
<1>3. AllFetched
  BY <1>2 DEF AllFetched, FetchHolds, InHand
<1>4. projects = <<>> /\ \A i \in Issue : issueProject[i] = {}
  BY DEF ImportInit
<1> QED
  BY <1>1, <1>2, <1>3, <1>4 DEF ImportInv, ProjectInv, ProjectPerKey, Resolved

\* A step that writes no rows: each import stands where it stood, or resolves nothing.
LEMMA ProjectsStand ==
  ASSUME ProjectInv, UNCHANGED <<projects, issueProject, raced>>,
         \A r \in ImportRequest :
           \/ fetch'[r].step # "resolved"
           \/ /\ fetch[r].step = "resolved"
              /\ fetch'[r].project = fetch[r].project /\ fetch'[r].got = fetch[r].got
  PROVE  ProjectInv'
<1>1. ProjectPerKey'
  BY DEF ProjectInv, ProjectPerKey
<1>2. ASSUME NEW r \in ImportRequest PROVE Resolved(fetch[r])'
  <2>1. CASE fetch'[r].step # "resolved"
    BY <2>1 DEF Resolved
  <2>2. CASE /\ fetch[r].step = "resolved"
             /\ fetch'[r].project = fetch[r].project /\ fetch'[r].got = fetch[r].got
    <3>1. FreshKeys(fetch[r])' = FreshKeys(fetch[r])
      BY <2>2 DEF FreshKeys, KeysOf
    <3>2. Resolved(fetch[r])
      BY DEF ProjectInv
    <3> QED
      BY <2>2, <3>1, <3>2 DEF Resolved
  <2> QED
    BY <2>1, <2>2
<1> QED
  BY <1>1, <1>2 DEF ProjectInv

\* A step of one request, with the tracker as it was.
LEMMA OneFetches ==
  ASSUME ImportTypeOK, AllFetched, UNCHANGED <<tracker, listed, issuesMade>>,
         NEW r \in ImportRequest, NEW g \in Fetches, FetchHolds(g, tracker, listed),
         fetch' = [fetch EXCEPT ![r] = g]
  PROVE  /\ AllFetched'
         /\ fetch' \in [ImportRequest -> {NoFetch} \cup Ended \cup Fetch]
         /\ fetch'[r] = g
         /\ \A o \in ImportRequest \ {r} : fetch'[o] = fetch[o]
<1>1. fetch \in [ImportRequest -> Fetches]
  BY DEF ImportTypeOK, Fetches
<1>2. fetch'[r] = g /\ \A o \in ImportRequest \ {r} : fetch'[o] = fetch[o]
  BY <1>1
<1>3. ASSUME NEW o \in ImportRequest PROVE FetchHolds(fetch'[o], tracker', listed')
  BY <1>2 DEF AllFetched
<1>4. fetch' \in [ImportRequest -> Fetches]
  BY <1>1
<1> QED
  BY <1>2, <1>3, <1>4 DEF AllFetched, Fetches

LEMMA MakeIssueHolds == ImportInv /\ MakeIssue => ImportInv'
<1> SUFFICES ASSUME ImportInv, MakeIssue PROVE ImportInv'
  OBVIOUS
<1>1. /\ listed \in SUBSET Issue /\ issuesMade \in 0 .. MaxIssue /\ MaxIssue \in Nat
      /\ tracker \in Trackers /\ fetch \in [ImportRequest -> Fetches]
  BY ImportAssumption DEF ImportInv, ImportTypeOK, Trackers, Fetches
<1>2. PICK T : T = listed \cup {issuesMade + 1}
  OBVIOUS
<1>3. T \in SUBSET Issue /\ issuesMade + 1 \in 0 .. MaxIssue /\ listed \subseteq T
  BY <1>1, <1>2 DEF MakeIssue, Issue
<1>4. ImportTypeOK'
  BY <1>2, <1>3 DEF ImportInv, ImportTypeOK, MakeIssue
<1>5. ASSUME NEW r \in ImportRequest PROVE FetchHolds(fetch[r], tracker, T)
  <2>1. FetchHolds(fetch[r], tracker, listed) /\ fetch[r] \in Fetches
    BY <1>1 DEF ImportInv, AllFetched
  <2> QED
    BY <1>1, <1>3, <2>1, FetchWithMore
<1>6. AllFetched'
  BY <1>2, <1>5 DEF AllFetched, MakeIssue
<1>7. ProjectInv'
  BY ProjectsStand DEF ImportInv, MakeIssue
<1> QED
  BY <1>4, <1>6, <1>7 DEF ImportInv

LEMMA RemoveIssueHolds ==
  ASSUME ImportInv, NEW x \in Issue, RemoveIssue(x) PROVE ImportInv'
<1>1. /\ listed \in SUBSET Issue /\ x \in listed
      /\ tracker \in Trackers /\ fetch \in [ImportRequest -> Fetches]
  BY DEF ImportInv, ImportTypeOK, Trackers, Fetches, RemoveIssue
<1>2. PICK T : T = listed \ {x}
  OBVIOUS
<1>3. ASSUME NEW r \in ImportRequest
      PROVE  /\ fetch'[r] \in Fetches /\ FetchHolds(fetch'[r], tracker, T)
             /\ \/ fetch'[r].step # "resolved"
                \/ /\ fetch[r].step = "resolved"
                   /\ fetch'[r].project = fetch[r].project /\ fetch'[r].got = fetch[r].got
  <2>1. PICK f : f = fetch[r]
    OBVIOUS
  <2>2. f \in Fetches /\ FetchHolds(f, tracker, listed)
    BY <1>1, <2>1 DEF ImportInv, AllFetched
  <2>a. fetch'[r] = WithoutIssue(f, x)
    BY <2>1 DEF RemoveIssue
  <2>3. CASE f = NoFetch
    <3>1. f.step = "idle"
      BY <2>3 DEF NoFetch
    <3>2. fetch'[r] = f
      BY <2>a, <3>1 DEF WithoutIssue
    <3>3. FetchHolds(f, tracker, T)
      BY <3>1 DEF FetchHolds, InHand
    <3> QED
      BY <2>2, <3>1, <3>2, <3>3
  <2>4. CASE f \in Ended
    <3>1. f.step \in {"previewed", "written"}
      BY <2>4 DEF Ended
    <3>2. PICK g : g = [f EXCEPT !.missed = f.missed \ {x}]
      OBVIOUS
    <3>3. fetch'[r] = g
      BY <2>a, <3>1, <3>2 DEF WithoutIssue
    <3>4. g \in Ended /\ FetchHolds(g, tracker, T)
      BY <1>2, <2>2, <2>4, <3>2, EndedWithLess
    <3>5. g.step # "resolved"
      BY <3>4 DEF Ended
    <3> QED
      BY <3>3, <3>4, <3>5 DEF Fetches
  <2>5. CASE f \in Fetch
    <3>1. f.step \in {"fetching", "fetched", "resolved"} /\ f.short \in BOOLEAN
      BY <2>5 DEF Fetch
    <3>2. PICK short \in BOOLEAN :
            short = (f.short \/ (f.step = "fetching" /\ tracker = "jira" /\ PlaceIn(listed, x) < f.at))
      OBVIOUS
    <3>3. PICK g : g = [f EXCEPT !.there = f.there \ {x}, !.short = short]
      OBVIOUS
    <3>4. WithoutIssue(f, x) = [f EXCEPT !.there = f.there \ {x}, !.short = short]
      BY <3>1, <3>2 DEF WithoutIssue, PlaceOf
    <3>5. fetch'[r] = g
      BY <2>a, <3>3, <3>4
    <3>6. g \in Fetch /\ FetchHolds(g, tracker, T)
      <4>1. short <=> f.short \/ (f.step = "fetching" /\ tracker = "jira" /\ PlaceIn(listed, x) < f.at)
        BY <3>1, <3>2
      <4>2. /\ f \in Fetch /\ tracker \in Trackers /\ listed \in SUBSET Issue /\ x \in listed
            /\ FetchHolds(f, tracker, listed) /\ short \in BOOLEAN
        BY <1>1, <2>2, <2>5
      <4>3. g \in Fetch /\ FetchHolds(g, tracker, listed \ {x})
        BY ONLY <3>3, <4>1, <4>2, FetchWithLess, Zenon
      <4> QED
        BY <1>2, <4>3
    <3>7. g.step = f.step /\ g.project = f.project /\ g.got = f.got
      BY <2>5, <3>3 DEF Fetch
    <3> QED
      BY <2>1, <3>5, <3>6, <3>7 DEF Fetches
  <2> QED
    BY <2>2, <2>3, <2>4, <2>5 DEF Fetches
<1>4. fetch' \in [ImportRequest -> Fetches]
  <2>1. DOMAIN fetch' = ImportRequest /\ fetch' = [r \in ImportRequest |-> fetch'[r]]
    BY DEF RemoveIssue
  <2> QED
    BY <1>3, <2>1
<1>5. ImportTypeOK'
  BY <1>1, <1>4 DEF ImportInv, ImportTypeOK, RemoveIssue, Fetches
<1>6. AllFetched'
  BY <1>2, <1>3 DEF AllFetched, RemoveIssue
<1>7. ProjectInv'
  BY <1>3, ProjectsStand DEF ImportInv, RemoveIssue
<1> QED
  BY <1>5, <1>6, <1>7 DEF ImportInv

\* A step of one request that leaves the tracker, and resolves and writes nothing.
LEMMA OneStands ==
  ASSUME ImportInv, UNCHANGED <<tracker, listed, issuesMade, projects, issueProject, raced>>,
         NEW r \in ImportRequest, NEW g \in Fetches, FetchHolds(g, tracker, listed),
         g.step # "resolved", fetch' = [fetch EXCEPT ![r] = g]
  PROVE  ImportInv'
<1>1. /\ AllFetched'
      /\ fetch' \in [ImportRequest -> {NoFetch} \cup Ended \cup Fetch]
      /\ fetch'[r] = g
      /\ \A o \in ImportRequest \ {r} : fetch'[o] = fetch[o]
  BY OneFetches DEF ImportInv
<1>2. ImportTypeOK'
  BY <1>1 DEF ImportInv, ImportTypeOK
<1>3. \A o \in ImportRequest :
        \/ fetch'[o].step # "resolved"
        \/ /\ fetch[o].step = "resolved"
           /\ fetch'[o].project = fetch[o].project /\ fetch'[o].got = fetch[o].got
  BY <1>1
<1>4. ProjectInv'
  BY <1>3, ProjectsStand DEF ImportInv
<1> QED
  BY <1>1, <1>2, <1>4 DEF ImportInv

LEMMA StartImportHolds ==
  ASSUME ImportInv, NEW r \in ImportRequest, NEW limit \in {0, PreviewSample},
         StartImport(r, limit)
  PROVE  ImportInv'
<1>1. PICK g : g = [step |-> "fetching", limit |-> limit, page |-> 0, got |-> {},
                    count |-> 0, at |-> 0, truncated |-> FALSE, there |-> listed,
                    short |-> FALSE, project |-> [k \in ProjectKey |-> 0]]
  OBVIOUS
<1>2. listed \in SUBSET Issue /\ MaxPages \in Nat \ {0} /\ MaxProject \in Nat
  BY ImportAssumption DEF ImportInv, ImportTypeOK
<1>3. [k \in ProjectKey |-> 0] \in [ProjectKey -> 0 .. MaxProject]
  BY <1>2
<1>4. g \in Fetch
  BY <1>1, <1>2, <1>3 DEF Fetch
<1>5. /\ g.step = "fetching" /\ g.page = 0 /\ g.there = listed /\ g.got = {} /\ g.at = 0
  BY <1>1
<1>6. ASSUME NEW i \in listed PROVE i \in BehindIn(tracker, listed, 0)
  <2>1. PlaceIn(listed, i) \in Nat
    BY <1>2, PlaceInIsNatural
  <2> QED
    BY <2>1 DEF BehindIn
<1>7. FetchHolds(g, tracker, listed)
  BY <1>2, <1>5, <1>6 DEF FetchHolds
<1>8. fetch' = [fetch EXCEPT ![r] = g]
  BY <1>1 DEF StartImport
<1> QED
  BY <1>4, <1>5, <1>7, <1>8, OneStands DEF StartImport, Fetches

\* A page that is asked for has at least one place.
LEMMA FetchPageHolds ==
  ASSUME ImportInv, NEW r \in ImportRequest, FetchPage(r) PROVE ImportInv'
<1>1. PICK f : f = fetch[r]
  OBVIOUS
<1>2. f.step = "fetching" /\ f \in Fetch /\ FetchHolds(f, tracker, listed)
  <2>1. f.step = "fetching" /\ f \in Fetches
    BY <1>1 DEF FetchPage, ImportInv, ImportTypeOK, Fetches
  <2>2. f \in Fetch
    BY <2>1, FetchKinds DEF InHand
  <2> QED
    BY <1>1, <2>1, <2>2 DEF ImportInv, AllFetched
<1>3. PICK size \in 1 .. Wanted(f) : fetch' = [fetch EXCEPT ![r] = Paged(f, size)]
  BY <1>1 DEF FetchPage
<1>4. PICK g : g = Paged(f, size)
  OBVIOUS
<1>5. size \in Nat /\ size > 0
  BY <1>3
<1>6. g \in Fetches /\ FetchHolds(g, tracker, listed)
  BY <1>2, <1>4, <1>5, PageHolds DEF ImportInv
<1>7. g.step # "resolved"
  BY <1>2, <1>4 DEF Paged, Over, Fetch
<1>8. fetch' = [fetch EXCEPT ![r] = g]
  BY <1>3, <1>4
<1> QED
  BY <1>6, <1>7, <1>8, OneStands DEF FetchPage

LEMMA ImportFailsHolds ==
  ASSUME ImportInv, NEW r \in ImportRequest, ImportFails(r) PROVE ImportInv'
<1>1. NoFetch \in Fetches /\ NoFetch.step = "idle"
  BY DEF NoFetch, Fetches
<1>2. FetchHolds(NoFetch, tracker, listed)
  BY <1>1 DEF FetchHolds, InHand
<1>3. fetch' = [fetch EXCEPT ![r] = NoFetch]
  BY DEF ImportFails
<1> QED
  BY <1>1, <1>2, <1>3, OneStands DEF ImportFails

\* What is found is there, and what is not found is not, for the committed rows.
LEMMA ResolveProjectsHolds ==
  ASSUME ImportInv, NEW r \in ImportRequest, ResolveProjects(r) PROVE ImportInv'
<1>1. PICK f : f = fetch[r]
  OBVIOUS
<1>2. /\ f.step = "fetched" /\ f \in Fetch /\ FetchHolds(f, tracker, listed)
      /\ fetch \in [ImportRequest -> Fetches]
  <2>1. f.step = "fetched" /\ f \in Fetches /\ fetch \in [ImportRequest -> Fetches]
    BY <1>1 DEF ResolveProjects, ImportInv, ImportTypeOK, Fetches
  <2>2. f \in Fetch
    BY <2>1, FetchKinds DEF InHand
  <2> QED
    BY <1>1, <2>1, <2>2 DEF ImportInv, AllFetched
<1>3. PICK project \in [ProjectKey -> 0 .. MaxProject] :
         /\ \A k \in ProjectKey : project[k] \in IF k \in KeysOf(f)
                                                  THEN FindOrCreateProjectByKey(k) ELSE {0}
         /\ fetch' = [fetch EXCEPT ![r].step = "resolved", ![r].project = project]
  BY <1>1 DEF ResolveProjects
<1>4. PICK g : g = [f EXCEPT !.step = "resolved", !.project = project]
  OBVIOUS
<1>5. fetch' = [fetch EXCEPT ![r] = g]
  BY <1>1, <1>2, <1>3, <1>4
<1>6. /\ g \in Fetch /\ g.step = "resolved" /\ g.project = project /\ g.got = f.got
      /\ g.there = f.there /\ g.truncated = f.truncated /\ g.short = f.short
  BY <1>2, <1>4 DEF Fetch
<1>7. FetchHolds(g, tracker, listed)
  BY <1>2, <1>6 DEF FetchHolds, InHand
<1>8. /\ AllFetched'
      /\ fetch' \in [ImportRequest -> {NoFetch} \cup Ended \cup Fetch]
      /\ fetch'[r] = g
      /\ \A o \in ImportRequest \ {r} : fetch'[o] = fetch[o]
  BY <1>5, <1>6, <1>7, OneFetches DEF ImportInv, ResolveProjects, Fetches
<1>9. UNCHANGED <<tracker, listed, issuesMade, projects, issueProject>>
  BY DEF ResolveProjects
<1>10. raced' = (raced \/ \E o \in ImportRequest \ {r} : fetch[o].step = "resolved")
  BY DEF ResolveProjects
<1>11. raced' \in BOOLEAN /\ (raced => raced')
  BY <1>10
<1>12. ImportTypeOK'
  BY <1>8, <1>9, <1>11 DEF ImportInv, ImportTypeOK
<1>13. ProjectPerKey'
  BY <1>9, <1>11 DEF ImportInv, ProjectInv, ProjectPerKey
<1>14. ASSUME NEW k \in ProjectKey
       PROVE  /\ project[k] # 0 => project[k] \in DOMAIN projects /\ projects[project[k]] = k
              /\ k \in KeysOf(f) /\ project[k] = 0 => \A p \in DOMAIN projects : projects[p] # k
  <2>1. PICK rows : rows = {p \in DOMAIN projects : projects[p] = k}
    OBVIOUS
  <2>2. FindOrCreateProjectByKey(k) = IF rows = {} THEN {0} ELSE rows
    BY <2>1 DEF FindOrCreateProjectByKey
  <2>3. 0 \notin rows
    BY <2>1 DEF ImportInv, ImportTypeOK
  <2>4. project[k] \in IF k \in KeysOf(f) THEN FindOrCreateProjectByKey(k) ELSE {0}
    BY <1>3
  <2> QED
    BY <2>1, <2>2, <2>3, <2>4
<1>15. FreshKeys(g) = {k \in KeysOf(f) : project[k] = 0}
  BY <1>6 DEF FreshKeys, KeysOf
<1>16. Resolved(g)'
  BY <1>6, <1>9, <1>14, <1>15 DEF Resolved
<1>17. ASSUME NEW o \in ImportRequest PROVE Resolved(fetch[o])'
  <2>1. CASE o = r
    BY <1>8, <1>16, <2>1 DEF Resolved
  <2>2. CASE o # r
    <3>1. fetch'[o] = fetch[o] /\ Resolved(fetch[o])
      BY <1>8, <2>2 DEF ImportInv, ProjectInv
    <3> QED
      BY <1>9, <1>11, <3>1 DEF Resolved, FreshKeys, KeysOf
  <2> QED
    BY <2>1, <2>2
<1>18. ASSUME NEW o \in ImportRequest, NEW q \in ImportRequest,
              fetch'[o].step = "resolved", fetch'[q].step = "resolved"
       PROVE  o = q \/ raced'
  BY <1>8, <1>10, <1>18 DEF ImportInv, ProjectInv
<1>19. ProjectInv'
  BY <1>13, <1>17, <1>18 DEF ProjectInv
<1> QED
  BY <1>8, <1>12, <1>19 DEF ImportInv

\* An issue with a project has one key.
LEMMA OneKey ==
  ASSUME NEW i \in Issue, ProjectKeys[i] # {} PROVE \E x : ProjectKeys[i] = {x}
<1>1. ProjectKeys[i] \subseteq ProjectKey
  BY DEF ProjectKey
<1>2. IsFiniteSet(ProjectKeys[i]) /\ Cardinality(ProjectKeys[i]) <= 1
  BY <1>1, FS_Subset, ImportAssumption
<1>3. Cardinality(ProjectKeys[i]) \in Nat /\ Cardinality(ProjectKeys[i]) # 0
  BY <1>2, FS_CardinalityType, FS_EmptySet
<1>4. Cardinality(ProjectKeys[i]) = 1
  BY <1>2, <1>3
<1> QED
  BY <1>2, <1>4, FS_Singleton

\* A row is made for a key that no import found one for, and every issue brought is in
\* a row of its key.
LEMMA WriteIssuesHolds ==
  ASSUME ImportInv, NEW r \in ImportRequest, WriteIssues(r) PROVE ImportInv'
<1>1. PICK f : f = fetch[r]
  OBVIOUS
<1>2. /\ f.step = "resolved" /\ f \in Fetch /\ FetchHolds(f, tracker, listed) /\ Resolved(f)
      /\ fetch \in [ImportRequest -> Fetches] /\ ImportTypeOK
  <2>1. f.step = "resolved" /\ f \in Fetches /\ fetch \in [ImportRequest -> Fetches]
    BY <1>1 DEF WriteIssues, ImportInv, ImportTypeOK, Fetches
  <2>2. f \in Fetch
    BY <2>1, FetchKinds DEF InHand
  <2> QED
    BY <1>1, <2>1, <2>2 DEF ImportInv, AllFetched, ProjectInv
<1>3. PICK rows : rows = projects \o SetToSeq(FreshKeys(f))
  OBVIOUS
<1>4. /\ Len(rows) <= MaxProject /\ projects' = rows
      /\ issueProject' = [i \in Issue |->
           IF i \notin f.got THEN issueProject[i]
           ELSE IF ProjectKeys[i] # {} THEN {RowOf(f, rows, k) : k \in ProjectKeys[i]}
           ELSE IF issueProject[i] # {} THEN issueProject[i] ELSE {0}]
      /\ fetch' = [fetch EXCEPT ![r] =
           Over("written", f, {i \in Issue : issueProject'[i] # {}})]
      /\ UNCHANGED <<tracker, listed, issuesMade, raced>>
  BY <1>1, <1>3 DEF WriteIssues
<1>5. /\ rows \in Seq(ProjectKey)
      /\ DOMAIN projects \subseteq DOMAIN rows
      /\ DOMAIN rows \subseteq 1 .. MaxProject
      /\ \A p \in DOMAIN projects : rows[p] = projects[p]
      /\ \A p \in DOMAIN rows : rows[p] \in FreshKeys(f) \/ p \in DOMAIN projects
      /\ \A p, q \in DOMAIN rows : rows[p] = rows[q] =>
           \/ p = q
           \/ p \in DOMAIN projects /\ q \in DOMAIN projects
           \/ \E o \in DOMAIN projects : projects[o] \in FreshKeys(f)
  BY <1>2, <1>3, <1>4, RowsWritten
<1>6. ASSUME NEW k \in KeysOf(f)
      PROVE  /\ RowOf(f, rows, k) \in 1 .. MaxProject
             /\ RowOf(f, rows, k) \in DOMAIN rows /\ rows[RowOf(f, rows, k)] = k
  <2>1. k \in ProjectKey
    BY <1>2, KeysAreFinite DEF Fetch
  <2>2. /\ RowOf(f, rows, k) \in 1 .. MaxProject
        /\ f.project[k] # 0 => RowOf(f, rows, k) = f.project[k]
        /\ f.project[k] = 0 => RowOf(f, rows, k) \in DOMAIN rows /\ rows[RowOf(f, rows, k)] = k
    BY <1>2, <1>3, <1>4, RowOfKey
  <2>3. f.project[k] # 0 => f.project[k] \in DOMAIN projects /\ projects[f.project[k]] = k
    BY <1>2, <2>1 DEF Resolved
  <2> QED
    BY <1>5, <2>2, <2>3
<1>7. PICK brought : brought = {i \in Issue : issueProject'[i] # {}}
  OBVIOUS
<1>8. ASSUME NEW i \in f.got
      PROVE  /\ i \in Issue /\ ProjectKeys[i] \subseteq KeysOf(f)
             /\ ProjectKeys[i] # {} => issueProject'[i] = {RowOf(f, rows, k) : k \in ProjectKeys[i]}
             /\ ProjectKeys[i] = {} => issueProject'[i] = IF issueProject[i] # {} THEN issueProject[i]
                                                          ELSE {0}
  <2>1. i \in Issue
    BY <1>2 DEF Fetch
  <2>2. ProjectKeys[i] \subseteq KeysOf(f)
    BY DEF KeysOf
  <2> QED
    BY <1>4, <2>1, <2>2
<1>9. ASSUME NEW i \in Issue, i \notin f.got PROVE issueProject'[i] = issueProject[i]
  BY <1>4, <1>9
<1>10. f.got \subseteq brought
  <2> SUFFICES ASSUME NEW i \in f.got PROVE i \in Issue /\ issueProject'[i] # {}
    BY <1>7
  <2>1. CASE ProjectKeys[i] # {}
    BY <1>8, <2>1
  <2>2. CASE ProjectKeys[i] = {}
    BY <1>8, <2>2
  <2> QED
    BY <1>8, <2>1, <2>2
<1>11. PICK g : g = Over("written", f, brought)
  OBVIOUS
<1>12. /\ g \in Ended /\ g.step = "written" /\ g.truncated = f.truncated /\ g.short = f.short
       /\ g.missed = f.there \ brought
  BY <1>2, <1>11 DEF Over, Ended, Fetch
<1>13. FetchHolds(g, tracker, listed)
  BY <1>2, <1>10, <1>12 DEF FetchHolds, InHand
<1>14. /\ AllFetched'
       /\ fetch' \in [ImportRequest -> {NoFetch} \cup Ended \cup Fetch]
       /\ fetch'[r] = g
       /\ \A o \in ImportRequest \ {r} : fetch'[o] = fetch[o]
  <2>1. fetch' = [fetch EXCEPT ![r] = g]
    BY <1>4, <1>7, <1>11
  <2>2. UNCHANGED <<tracker, listed, issuesMade>> /\ g \in Fetches
    BY <1>4, <1>12 DEF Fetches
  <2> QED
    BY <1>2, <1>13, <2>1, <2>2, OneFetches DEF ImportInv
<1>15. issueProject' \in [Issue -> {{}} \cup {{p} : p \in 0 .. MaxProject}]
  <2>1. issueProject \in [Issue -> {{}} \cup {{p} : p \in 0 .. MaxProject}] /\ MaxProject \in Nat
    BY <1>2, ImportAssumption DEF ImportTypeOK
  <2>2. ASSUME NEW i \in Issue
        PROVE  issueProject'[i] \in {{}} \cup {{p} : p \in 0 .. MaxProject}
    <3>1. CASE i \notin f.got
      BY <1>9, <2>1, <3>1
    <3>2. CASE i \in f.got /\ ProjectKeys[i] = {}
      BY <1>8, <2>1, <3>2
    <3>3. CASE i \in f.got /\ ProjectKeys[i] # {}
      <4>1. PICK x : ProjectKeys[i] = {x}
        BY <3>3, OneKey
      <4>2. issueProject'[i] = {RowOf(f, rows, x)} /\ x \in KeysOf(f)
        BY <1>8, <3>3, <4>1
      <4>3. RowOf(f, rows, x) \in 0 .. MaxProject
        BY <1>6, <2>1, <4>2
      <4> QED
        BY <4>2, <4>3
    <3> QED
      BY <3>1, <3>2, <3>3
  <2>3. issueProject' = [i \in Issue |-> issueProject'[i]]
    BY <1>4
  <2> QED
    BY <2>2, <2>3
<1>16. ImportTypeOK'
  BY <1>2, <1>4, <1>5, <1>14, <1>15 DEF ImportTypeOK
<1>17. ~raced => \A p \in DOMAIN projects : projects[p] \notin FreshKeys(f)
  <2>1. FreshKeys(f) \subseteq ProjectKey
    BY <1>2, KeysAreFinite DEF Fetch
  <2> QED
    BY <1>2, <2>1 DEF Resolved
<1>18. ASSUME NEW p \in DOMAIN rows, NEW q \in DOMAIN rows, rows[p] = rows[q]
       PROVE  p = q \/ raced
  <2>1. CASE p \in DOMAIN projects /\ q \in DOMAIN projects
    BY <1>5, <1>18, <2>1 DEF ImportInv, ProjectInv, ProjectPerKey
  <2> QED
    BY <1>5, <1>17, <1>18, <2>1
<1>19. ASSUME NEW i \in Issue, NEW p \in issueProject'[i] \ {0}
       PROVE  p \in DOMAIN rows /\ rows[p] \in ProjectKeys[i]
  <2>1. CASE p \in issueProject[i]
    <3>1. p \in DOMAIN projects /\ projects[p] \in ProjectKeys[i]
      BY <2>1 DEF ImportInv, ProjectInv, ProjectPerKey
    <3> QED
      BY <1>5, <3>1
  <2>2. CASE i \in f.got /\ ProjectKeys[i] # {}
    <3>1. PICK k \in ProjectKeys[i] : p = RowOf(f, rows, k)
      BY <1>8, <2>2
    <3> QED
      BY <1>6, <1>8, <2>2, <3>1
  <2> QED
    BY <1>8, <1>9, <2>1, <2>2
<1>20. ProjectPerKey'
  BY <1>4, <1>18, <1>19 DEF ProjectPerKey
<1>21. ASSUME NEW o \in ImportRequest PROVE Resolved(fetch[o])'
  <2>1. CASE fetch'[o].step # "resolved"
    BY <2>1 DEF Resolved
  <2>2. CASE fetch'[o].step = "resolved"
    <3>1. o # r /\ fetch'[o] = fetch[o]
      BY <1>12, <1>14, <2>2
    <3>2. raced' /\ Resolved(fetch[o])
      BY <1>1, <1>2, <1>4, <2>2, <3>1 DEF ImportInv, ProjectInv
    <3>3. \A k \in ProjectKey : fetch[o].project[k] # 0 =>
            fetch[o].project[k] \in DOMAIN rows /\ rows[fetch[o].project[k]] = k
      BY <1>5, <2>2, <3>1, <3>2 DEF Resolved
    <3> QED
      BY <1>4, <3>1, <3>2, <3>3 DEF Resolved
  <2> QED
    BY <2>1, <2>2
<1>22. ASSUME NEW o \in ImportRequest, NEW q \in ImportRequest,
              fetch'[o].step = "resolved", fetch'[q].step = "resolved"
       PROVE  o = q \/ raced'
  <2>1. fetch'[o] = fetch[o] /\ fetch'[q] = fetch[q]
    BY <1>12, <1>14, <1>22
  <2> QED
    BY <1>4, <1>22, <2>1 DEF ImportInv, ProjectInv
<1>23. ProjectInv'
  BY <1>20, <1>21, <1>22 DEF ProjectInv
<1> QED
  BY <1>14, <1>16, <1>23 DEF ImportInv

LEMMA ImportStep == ImportInv /\ [ImportNext]_importVars => ImportInv'
<1> SUFFICES ASSUME ImportInv, [ImportNext]_importVars PROVE ImportInv'
  OBVIOUS
<1>1. CASE MakeIssue
  BY <1>1, MakeIssueHolds
<1>2. CASE \E i \in Issue : RemoveIssue(i)
  BY <1>2, RemoveIssueHolds
<1>3. ASSUME NEW r \in ImportRequest,
             \/ \E limit \in {0, PreviewSample} : StartImport(r, limit)
             \/ FetchPage(r)
             \/ ImportFails(r)
             \/ ResolveProjects(r)
             \/ WriteIssues(r)
      PROVE  ImportInv'
  BY <1>3, StartImportHolds, FetchPageHolds, ImportFailsHolds, ResolveProjectsHolds,
     WriteIssuesHolds
<1>4. CASE UNCHANGED importVars
  <2>1. UNCHANGED <<tracker, listed, issuesMade, fetch, projects, issueProject, raced>>
    BY <1>4 DEF importVars
  <2>2. ImportTypeOK' /\ AllFetched'
    BY <2>1 DEF ImportInv, ImportTypeOK, AllFetched
  <2>3. ProjectInv'
    BY <2>1, ProjectsStand DEF ImportInv
  <2> QED
    BY <2>2, <2>3 DEF ImportInv
<1> QED
  BY <1>1, <1>2, <1>3, <1>4 DEF ImportNext

\* However people work in the tracker and other imports run beside it, an import that
\* does not call itself truncated missed nothing, unless an issue was removed from
\* behind it; and no key gets a second row but from imports that were at it together.
THEOREM ImportsAreSound == ImportSpec => []ImportSound
<1>1. ImportInv => ImportSound
  BY DEF ImportInv, AllFetched, FetchHolds, ProjectInv, ImportSound, ImportedAll
<1> QED
  BY <1>1, ImportInitially, ImportStep, PTL DEF ImportSpec

-----------------------------------------------------------------------------
(* Chat *)

\* A message that is a turn of the model, and the calls it makes.
Turn(i) == convo[i].role = "assistant"
Rest(i) == Len(convo[i].calls)
\* Calls of a turn are being run.
Busy == engine \in {"calling", "running", "proposing"}

\* What follows a turn is the messages of its calls, in their order, and a turn.
TurnKept(i) ==
  /\ \A k \in 1 .. Rest(i) : i + k <= Len(convo) =>
       convo[i + k].role = "tool" /\ convo[i + k].call = convo[i].calls[k]
  /\ i + Rest(i) < Len(convo) => convo[i + Rest(i) + 1].role = "assistant"

\* The calls of a turn have all been answered, or those that have not are calls.
TurnOpen(i) ==
  /\ i + Rest(i) = Len(convo) + Len(calls)
  /\ \A k \in 1 .. Len(calls) : convo[i].calls[Rest(i) - Len(calls) + k] = calls[k]

TurnsKept ==
  /\ engine # "ended" => \A i \in DOMAIN convo : Turn(i) => TurnKept(i)
  /\ engine = "reading" => \A i \in DOMAIN convo : Turn(i) => i + Rest(i) <= Len(convo)
  /\ Busy => \A i \in DOMAIN convo : Turn(i) => i + Rest(i) <= Len(convo) \/ TurnOpen(i)
  /\ Busy /\ calls # <<>> => \A i \in DOMAIN convo : Turn(i) => i + Rest(i) # Len(convo)

\* The model was told of every result but that of an action on its way.
ResultsTold ==
  /\ engine \in {"reading", "calling", "running"} =>
       Cardinality(Results(Len(events))) = Cardinality(Replies(Len(convo)))
  /\ engine \in {"running", "proposing"} => calls # <<>>
  /\ engine = "proposing" =>
       /\ Cardinality(Results(Len(events))) = Cardinality(Replies(Len(convo))) + 1
       /\ events # <<>> /\ events[Len(events)] = Result(Head(calls), TRUE)
       /\ Head(calls).tool = "propose"

\* A proposal that has no button is the last event, and the engine has yet to show it
\* or could not.
ButtonsDue ==
  \A e \in DOMAIN events : Proposed(e) =>
    \/ e + 1 \in DOMAIN events /\ events[e + 1] = Told("action", events[e].call)
    \/ e = Len(events) /\ (engine = "proposing" \/ client # "there")

\* Which is inductive, and ChatSound with it.
ChatInv ==
  ChatTypeOK /\ TurnsKept /\ ResultsTold /\ ToldAlike /\ ButtonsDue /\ ButtonsShown /\ EndTold

\* What the engine appends is a message, and what it emits an event.
LEMMA ChatMessages ==
  /\ \A cs \in Seq(Call) : AssistantMessage(cs) \in Message
  /\ \A c \in Call, ok \in BOOLEAN : ToolMessage(c, ok) \in Message
  /\ \A c \in Call, ok \in BOOLEAN : Result(c, ok) \in Event
  /\ \A c \in Call : \A type \in {"token", "tool_call", "action", "done", "error"} :
       Told(type, c) \in Event
  /\ NoCall \in Call
  BY DEF AssistantMessage, ToolMessage, Result, Told, NoCall, Message, Event, Call

\* A sequence with one more element, and one without its first.
LEMMA ChatSequences ==
  ASSUME NEW S, NEW s \in Seq(S)
  PROVE  /\ \A x \in S : /\ Append(s, x) \in Seq(S) /\ Append(s, x) # <<>>
                         /\ Len(Append(s, x)) = Len(s) + 1
                         /\ Append(s, x)[Len(s) + 1] = x
                         /\ \A i \in DOMAIN s : Append(s, x)[i] = s[i]
         /\ DOMAIN s = 1 .. Len(s) /\ Len(s) \in Nat
         /\ \A i \in DOMAIN s : s[i] \in S
         /\ s # <<>> => /\ Head(s) = s[1] /\ Head(s) \in S /\ Len(s) > 0
                        /\ Tail(s) \in Seq(S) /\ Len(Tail(s)) = Len(s) - 1
                        /\ \A i \in 1 .. Len(s) - 1 : Tail(s)[i] = s[i + 1]
  OBVIOUS

\* A step keeps the types: a call is only run when there is one.
LEMMA ChatTypeStep ==
  ASSUME ChatTypeOK, ResultsTold, [ChatNext]_chatVars
  PROVE  ChatTypeOK'
<1> DEFINE C == Call
           E == Event
           M == Message
<1>a. /\ NoCall \in C
      /\ \A c \in C : \A type \in {"token", "tool_call", "action", "done", "error"} :
           Told(type, c) \in E
      /\ \A c \in C, ok \in BOOLEAN : Result(c, ok) \in E
      /\ \A c \in C, ok \in BOOLEAN : ToolMessage(c, ok) \in M
      /\ \A cs \in Seq(C) : AssistantMessage(cs) \in M
  BY ChatMessages
<1>b. /\ engine \in {"reading", "calling", "running", "proposing", "ended"}
      /\ convo \in Seq(M) /\ convo # <<>>
      /\ answer \in [frames : 0 .. MaxFrames, calls : Seq(C)] /\ calls \in Seq(C)
      /\ events \in Seq(E)
      /\ client \in {"there", "missed", "left"}
  BY DEF ChatTypeOK
<1>t. ASSUME engine' \in {"reading", "calling", "running", "proposing", "ended"},
             convo' \in Seq(M), convo' # <<>>,
             answer' \in [frames : 0 .. MaxFrames, calls : Seq(C)], calls' \in Seq(C),
             events' \in Seq(E),
             client' \in {"there", "missed", "left"}
      PROVE  ChatTypeOK'
  BY <1>t DEF ChatTypeOK
<1> HIDE DEF C, E, M
<1>c. \A t \in E : Append(events, t) \in Seq(E)
  BY <1>b
<1>d. \A m \in M : Append(convo, m) \in Seq(M) /\ Append(convo, m) # <<>>
  <2>1. \A m \in M : Append(convo, m) \in Seq(M) /\ Len(Append(convo, m)) = Len(convo) + 1
    BY <1>b
  <2>2. Len(convo) \in Nat /\ Len(<<>>) = 0
    BY <1>b
  <2> QED
    BY <2>1, <2>2
<1>e. calls # <<>> => Head(calls) \in C /\ Tail(calls) \in Seq(C)
  BY <1>b
<1>f. answer.frames \in 0 .. MaxFrames /\ answer.calls \in Seq(C)
  BY <1>b
<1>1. CASE ClientLeaves
  BY <1>1, <1>b, <1>t DEF ClientLeaves
<1>2. CASE ReadToken
  <2>1. answer' \in [frames : 0 .. MaxFrames, calls : Seq(C)]
    <3> DEFINE n == answer.frames + 1
    <3>1. answer' = [answer EXCEPT !.frames = n] /\ n \in 0 .. MaxFrames
      BY <1>2, <1>f, ChatAssumption DEF ReadToken
    <3> HIDE DEF n
    <3> QED
      BY ONLY <3>1, <1>b
  <2> QED
    BY <1>2, <2>1, <1>a, <1>b, <1>c, <1>t DEF ReadToken
<1>3. ASSUME NEW c \in Call, ReadCall(c) PROVE ChatTypeOK'
  <2>1. Append(answer.calls, c) \in Seq(C)
    BY <1>f DEF C
  <2>2. answer' = [frames |-> answer.frames + 1, calls |-> Append(answer.calls, c)]
    BY <1>3, <1>b DEF ReadCall
  <2>3. answer' \in [frames : 0 .. MaxFrames, calls : Seq(C)]
    BY <1>3, <2>1, <2>2, <1>f, ChatAssumption DEF ReadCall
  <2> QED
    BY <1>3, <2>3, <1>b, <1>t DEF ReadCall
<1>4. CASE ModelFails
  BY <1>4, <1>a, <1>b, <1>c, <1>t DEF ModelFails
<1>5. CASE EndOfAnswer
  <2>1. NoAnswer \in [frames : 0 .. MaxFrames, calls : Seq(C)]
    BY ChatAssumption DEF NoAnswer
  <2>2. Append(convo, AssistantMessage(answer.calls)) \in Seq(M) \ {<<>>}
    BY <1>a, <1>d, <1>f
  <2> QED
    BY <1>5, <2>1, <2>2, <1>a, <1>b, <1>c, <1>f, <1>t DEF EndOfAnswer, Emit
<1>6. CASE AnnounceCall
  BY <1>6, <1>a, <1>b, <1>c, <1>e, <1>t DEF AnnounceCall, Emit
<1>7. ASSUME NEW ok \in BOOLEAN, RunCall(ok) PROVE ChatTypeOK'
  <2>1. calls # <<>>
    BY <1>7 DEF RunCall, ResultsTold
  <2>2. Append(convo, ToolMessage(Head(calls), ok)) \in Seq(M) \ {<<>>}
    BY <2>1, <1>a, <1>d, <1>e
  <2>3. Append(events, Result(Head(calls), ok)) \in Seq(E)
    BY <2>1, <1>a, <1>c, <1>e
  <2> QED
    BY <1>7, <2>1, <2>2, <2>3, <1>b, <1>e, <1>t DEF RunCall, Emit, Answer
<1>8. CASE Propose
  <2>1. calls # <<>>
    BY <1>8 DEF Propose, ResultsTold
  <2>2. Append(convo, ToolMessage(Head(calls), TRUE)) \in Seq(M) \ {<<>>}
    BY <2>1, <1>a, <1>d, <1>e
  <2>3. Append(events, Told("action", Head(calls))) \in Seq(E)
    BY <2>1, <1>a, <1>c, <1>e
  <2> QED
    BY <1>8, <2>1, <2>2, <2>3, <1>b, <1>e, <1>t DEF Propose, Emit, Answer
<1>9. CASE AskAgain
  BY <1>9, <1>a, <1>b, <1>c, <1>t DEF AskAgain, Emit
<1>10. CASE UNCHANGED chatVars
  BY <1>10, <1>b, <1>t DEF chatVars
<1> QED
  BY <1>1, <1>2, <1>3, <1>4, <1>5, <1>6, <1>7, <1>8, <1>9, <1>10 DEF ChatNext

\* What a step does to the messages: nothing, a turn whose calls are now to run, or the
\* message of the first of them.
LEMMA ChatConvoStep ==
  ASSUME ChatTypeOK, ResultsTold, [ChatNext]_chatVars
  PROVE  \/ /\ convo' = convo /\ calls' = calls
            /\ engine' = "reading" => engine = "reading" \/ (engine = "calling" /\ calls = <<>>)
            /\ Busy' => Busy
            /\ engine' # "ended" => engine # "ended"
         \/ /\ engine = "reading" /\ engine' = "calling"
            /\ answer.calls # <<>> /\ calls' = answer.calls
            /\ convo' = Append(convo, AssistantMessage(answer.calls))
         \/ /\ engine \in {"running", "proposing"} /\ engine' = "calling"
            /\ calls # <<>> /\ calls' = Tail(calls)
            /\ \E ok \in BOOLEAN : convo' = Append(convo, ToolMessage(Head(calls), ok))
<1> USE DEF Busy
<1>1. CASE ClientLeaves
  BY <1>1 DEF ClientLeaves
<1>2. CASE ReadToken
  BY <1>2 DEF ReadToken
<1>3. ASSUME NEW c \in Call, ReadCall(c) PROVE convo' = convo /\ calls' = calls /\ engine' = engine
  BY <1>3 DEF ReadCall
<1>4. CASE ModelFails
  BY <1>4 DEF ModelFails
<1>5. CASE EndOfAnswer
  BY <1>5 DEF EndOfAnswer, Emit
<1>6. CASE AnnounceCall
  BY <1>6 DEF AnnounceCall, Emit
<1>7. ASSUME NEW ok \in BOOLEAN, RunCall(ok)
      PROVE  \/ /\ convo' = convo /\ calls' = calls /\ engine = "running"
                /\ engine' \in {"proposing", "ended"}
             \/ /\ engine = "running" /\ engine' = "calling" /\ calls # <<>>
                /\ calls' = Tail(calls)
                /\ convo' = Append(convo, ToolMessage(Head(calls), ok))
  BY <1>7 DEF RunCall, Emit, Answer, ResultsTold
<1>8. CASE Propose
  BY <1>8 DEF Propose, Emit, Answer, ResultsTold
<1>9. CASE AskAgain
  BY <1>9 DEF AskAgain, Emit
<1>10. CASE UNCHANGED chatVars
  BY <1>10 DEF chatVars
<1> QED
  BY <1>1, <1>2, <1>3, <1>4, <1>5, <1>6, <1>7, <1>8, <1>9, <1>10 DEF ChatNext

\* A step keeps the turns: a message of a call is of the turn that is open.
LEMMA TurnsKeptStep ==
  ASSUME ChatTypeOK, ChatTypeOK', TurnsKept, ResultsTold, [ChatNext]_chatVars
  PROVE  TurnsKept'
<1>0. /\ DOMAIN convo = 1 .. Len(convo) /\ Len(convo) \in Nat
      /\ \A i \in DOMAIN convo : Turn(i) => Rest(i) \in Nat
      /\ calls \in Seq(Call) /\ Len(calls) \in Nat
  <2>1. ASSUME NEW i \in DOMAIN convo, Turn(i) PROVE Rest(i) \in Nat
    <3>1. convo[i] \in Message
      BY <2>1, ChatSequences DEF ChatTypeOK
    <3>2. convo[i].calls \in Seq(Call)
      BY <2>1, <3>1 DEF Turn, Message
    <3> QED
      BY <3>2, ChatSequences DEF Rest
  <2> QED
    BY <2>1, ChatSequences DEF ChatTypeOK
<1>1. CASE /\ convo' = convo /\ calls' = calls
           /\ engine' = "reading" => engine = "reading" \/ (engine = "calling" /\ calls = <<>>)
           /\ Busy' => Busy
           /\ engine' # "ended" => engine # "ended"
  <2>1. \A i : Turn(i)' = Turn(i) /\ Rest(i)' = Rest(i) /\ TurnKept(i)' = TurnKept(i)
               /\ TurnOpen(i)' = TurnOpen(i)
    BY <1>1 DEF Turn, Rest, TurnKept, TurnOpen
  <2>2. engine = "calling" /\ calls = <<>> => \A i \in DOMAIN convo : Turn(i) => i + Rest(i) <= Len(convo)
    <3>1. calls = <<>> => Len(calls) = 0
      OBVIOUS
    <3> QED
      BY <1>0, <3>1 DEF TurnsKept, TurnOpen, Busy
  <2> QED
    BY <1>1, <2>1, <2>2 DEF TurnsKept
<1>2. CASE /\ engine = "reading" /\ engine' = "calling"
           /\ answer.calls # <<>> /\ calls' = answer.calls
           /\ convo' = Append(convo, AssistantMessage(answer.calls))
  <2>0. AssistantMessage(answer.calls) \in Message /\ answer.calls \in Seq(Call)
    BY ChatMessages DEF ChatTypeOK
  <2>1. /\ DOMAIN convo' = 1 .. Len(convo) + 1 /\ Len(convo') = Len(convo) + 1
        /\ convo'[Len(convo) + 1] = AssistantMessage(answer.calls)
        /\ \A i \in DOMAIN convo : convo'[i] = convo[i]
    BY <1>2, <2>0, ChatSequences DEF ChatTypeOK
  <2>2. Len(answer.calls) \in Nat \ {0}
    BY <1>2, <2>0
  <2>3. ASSUME NEW i \in DOMAIN convo, Turn(i)'
        PROVE  Turn(i) /\ Rest(i)' = Rest(i) /\ i + Rest(i) <= Len(convo) /\ TurnKept(i)'
    <3>1. Turn(i) /\ Rest(i)' = Rest(i)
      BY <2>1, <2>3 DEF Turn, Rest
    <3>2. i + Rest(i) <= Len(convo) /\ TurnKept(i) /\ Rest(i) \in Nat
      BY <1>0, <1>2, <3>1 DEF TurnsKept
    <3>3. ASSUME NEW k \in 1 .. Rest(i)'
          PROVE  (convo[i + k].role = "tool" /\ convo[i + k].call = convo[i].calls[k])'
      BY <1>0, <2>1, <3>1, <3>2, <3>3 DEF TurnKept
    <3>4. ASSUME i + Rest(i)' < Len(convo') PROVE convo'[i + Rest(i)' + 1].role = "assistant"
      <4>1. CASE i + Rest(i) < Len(convo)
        BY <1>0, <2>1, <3>1, <3>2, <4>1 DEF TurnKept
      <4>2. CASE i + Rest(i) = Len(convo)
        BY <1>0, <2>1, <3>1, <3>2, <4>2 DEF AssistantMessage
      <4> QED
        BY <1>0, <3>2, <4>1, <4>2
    <3>5. TurnKept(i)'
      BY <3>3, <3>4 DEF TurnKept
    <3> QED
      BY <3>1, <3>2, <3>5
  <2>n. PICK n \in Nat : n = Len(convo) + 1
    BY <1>0
  <2>4. TurnKept(n)' /\ TurnOpen(n)' /\ n + Rest(n)' # Len(convo')
    <3>1. convo'[n].calls = answer.calls /\ Len(convo') = n
      BY <2>1, <2>n DEF AssistantMessage
    <3>2. Rest(n)' = Len(answer.calls) /\ Rest(n)' \in Nat \ {0}
      BY <3>1, <2>2 DEF Rest
    <3>3. TurnKept(n)'
      BY <2>n, <3>1, <3>2 DEF TurnKept
    <3>4. TurnOpen(n)'
      <4>1. n + Rest(n)' = Len(convo') + Len(calls')
        BY <1>2, <3>1, <3>2
      <4>2. \A k \in 1 .. Len(calls') : convo'[n].calls[Rest(n)' - Len(calls') + k] = calls'[k]
        BY <1>2, <3>1, <3>2
      <4> QED
        BY <4>1, <4>2 DEF TurnOpen
    <3> QED
      BY <3>1, <3>2, <3>3, <3>4
  <2>5. \A i \in DOMAIN convo' : i \in DOMAIN convo \/ i = n
    BY <1>0, <2>1, <2>n
  <2>6. ASSUME NEW i \in DOMAIN convo', Turn(i)'
        PROVE  /\ TurnKept(i)'
               /\ i + Rest(i)' <= Len(convo') \/ TurnOpen(i)'
               /\ i + Rest(i)' # Len(convo')
    <3>1. CASE i = n
      BY <2>4, <3>1
    <3>2. CASE i \in DOMAIN convo
      <4>1. TurnKept(i)' /\ i + Rest(i)' <= Len(convo) /\ Rest(i)' \in Nat
        BY <1>0, <2>3, <2>6, <3>2
      <4> QED
        BY <1>0, <2>1, <3>2, <4>1
    <3> QED
      BY <2>5, <3>1, <3>2
  <2> QED
    BY <1>2, <2>6 DEF TurnsKept
<1>3. ASSUME NEW ok \in BOOLEAN,
             engine \in {"running", "proposing"}, engine' = "calling",
             calls # <<>>, calls' = Tail(calls),
             convo' = Append(convo, ToolMessage(Head(calls), ok))
      PROVE  TurnsKept'
  <2>0. ToolMessage(Head(calls), ok) \in Message /\ Head(calls) = calls[1]
    BY <1>3, ChatMessages, ChatSequences DEF ChatTypeOK
  <2>1. /\ DOMAIN convo' = 1 .. Len(convo) + 1 /\ Len(convo') = Len(convo) + 1
        /\ convo'[Len(convo) + 1] = ToolMessage(Head(calls), ok)
        /\ \A i \in DOMAIN convo : convo'[i] = convo[i]
    BY <1>3, <2>0, ChatSequences DEF ChatTypeOK
  <2>2. /\ Len(calls) > 0 /\ Len(calls') = Len(calls) - 1
        /\ \A k \in 1 .. Len(calls) - 1 : calls'[k] = calls[k + 1]
    BY <1>0, <1>3, ChatSequences
  <2>3. ASSUME NEW i \in DOMAIN convo', Turn(i)'
        PROVE  /\ TurnKept(i)'
               /\ i + Rest(i)' <= Len(convo') \/ TurnOpen(i)'
               /\ calls' # <<>> => i + Rest(i)' # Len(convo')
    <3>0. i \in DOMAIN convo
      BY <1>0, <2>1, <2>3 DEF Turn, ToolMessage
    <3>1. Turn(i) /\ Rest(i)' = Rest(i) /\ convo'[i] = convo[i] /\ Rest(i) \in Nat
      BY <1>0, <2>1, <2>3, <3>0 DEF Turn, Rest
    <3>2. TurnKept(i) /\ i + Rest(i) # Len(convo)
      BY <1>3, <3>0, <3>1 DEF TurnsKept, Busy
    <3>3. CASE i + Rest(i) < Len(convo)
      <4>1. TurnKept(i)'
        BY <1>0, <2>1, <3>0, <3>1, <3>2, <3>3 DEF TurnKept
      <4> QED
        BY <1>0, <2>1, <3>0, <3>1, <3>3, <4>1
    <3>4. CASE TurnOpen(i)
      <4>1. i + Rest(i) = Len(convo) + Len(calls)
        BY <3>4 DEF TurnOpen
      <4>2. convo[i].calls[Rest(i) - Len(calls) + 1] = Head(calls)
        BY <1>0, <2>0, <2>2, <3>4 DEF TurnOpen
      <4>3. ASSUME NEW k \in 1 .. Rest(i), i + k <= Len(convo) + 1
            PROVE  convo'[i + k].role = "tool" /\ convo'[i + k].call = convo[i].calls[k]
        <5>1. CASE i + k <= Len(convo)
          BY <1>0, <2>1, <3>0, <3>1, <3>2, <4>3, <5>1 DEF TurnKept
        <5>2. CASE i + k = Len(convo) + 1
          <6>1. k = Rest(i) - Len(calls) + 1
            BY <1>0, <3>0, <3>1, <4>1, <5>2
          <6> QED
            BY <2>1, <4>2, <5>2, <6>1 DEF ToolMessage
        <5> QED
          BY <1>0, <3>0, <4>3, <5>1, <5>2
      <4>4. TurnKept(i)'
        BY <1>0, <2>1, <2>2, <3>0, <3>1, <4>1, <4>3 DEF TurnKept
      <4>5. TurnOpen(i)'
        <5>1. i + Rest(i)' = Len(convo') + Len(calls')
          BY <1>0, <2>1, <2>2, <3>0, <3>1, <4>1
        <5>2. ASSUME NEW k \in 1 .. Len(calls')
              PROVE  convo'[i].calls[Rest(i)' - Len(calls') + k] = calls'[k]
          <6>1. k + 1 \in 1 .. Len(calls) /\ calls'[k] = calls[k + 1]
            BY <1>0, <2>2
          <6>2. convo[i].calls[Rest(i) - Len(calls) + (k + 1)] = calls[k + 1]
            BY <3>4, <6>1 DEF TurnOpen
          <6>3. Rest(i)' - Len(calls') + k = Rest(i) - Len(calls) + (k + 1)
            BY <1>0, <2>2, <3>1
          <6> QED
            BY <3>1, <6>1, <6>2, <6>3
        <5> QED
          BY <5>1, <5>2 DEF TurnOpen
      <4>6. calls' # <<>> => i + Rest(i)' # Len(convo')
        <5>1. calls' # <<>> => Len(calls') # 0
          BY ChatSequences DEF ChatTypeOK
        <5> QED
          BY <1>0, <2>1, <2>2, <3>0, <3>1, <4>1, <5>1
      <4> QED
        BY <4>4, <4>5, <4>6
    <3> QED
      BY <1>0, <1>3, <3>0, <3>1, <3>2, <3>3, <3>4 DEF TurnsKept, Busy
  <2> QED
    BY <1>3, <2>3 DEF TurnsKept
<1> QED
  BY <1>1, <1>2, <1>3, ChatConvoStep

\* What a step does to the events: nothing, or one more of them, which is the last when
\* the engine ends and a button when an action was proposed.
LEMMA ChatEventsStep ==
  ASSUME ChatTypeOK, ResultsTold, [ChatNext]_chatVars
  PROVE  \/ /\ events' = events
            /\ engine = "proposing" => engine' = "proposing" \/ client' # "there"
            /\ client # "there" => client' # "there"
            /\ engine = "ended" => engine' = "ended" /\ calls' = calls
            /\ engine # "ended" /\ engine' = "ended" /\ client' = "there" =>
                 calls' = calls /\ calls # <<>> /\ Head(calls).args = "broken"
         \/ \E t \in Event :
            /\ client = "there" /\ client' = "there" /\ engine # "ended"
            /\ events' = Append(events, t)
            /\ t.type \in {"done", "error"} <=> engine' = "ended"
            /\ t.type = "tool_result" /\ t.ok /\ t.call.tool = "propose" => engine' = "proposing"
            /\ t.type = "action" <=> engine = "proposing"
            /\ engine = "proposing" => t = Told("action", Head(calls))
<1> DEFINE Grown(t) ==
      /\ client = "there" /\ client' = "there" /\ engine # "ended"
      /\ events' = Append(events, t)
      /\ t.type \in {"done", "error"} <=> engine' = "ended"
      /\ t.type = "tool_result" /\ t.ok /\ t.call.tool = "propose" => engine' = "proposing"
      /\ t.type = "action" <=> engine = "proposing"
      /\ engine = "proposing" => t = Told("action", Head(calls))
<1> DEFINE Same ==
      /\ events' = events
      /\ engine = "proposing" => engine' = "proposing" \/ client' # "there"
      /\ client # "there" => client' # "there"
      /\ engine = "ended" => engine' = "ended" /\ calls' = calls
      /\ engine # "ended" /\ engine' = "ended" /\ client' = "there" =>
           calls' = calls /\ calls # <<>> /\ Head(calls).args = "broken"
<1>h. calls # <<>> => Head(calls) \in Call
  BY ChatSequences DEF ChatTypeOK
<1>n. /\ NoCall \in Call
      /\ \A c \in Call : \A type \in {"token", "tool_call", "action", "done", "error"} :
           Told(type, c) \in Event
      /\ \A c \in Call, ok \in BOOLEAN : Result(c, ok) \in Event
  BY ChatMessages
<1>1. CASE ClientLeaves
  BY <1>1 DEF ClientLeaves
<1>2. CASE ReadToken
  <2>1. CASE client = "there"
    <3>1. Grown(Told("token", NoCall))
      BY <1>2, <2>1 DEF ReadToken, Told
    <3> QED
      BY <3>1, <1>n
  <2>2. CASE client # "there"
    BY <1>2, <2>2 DEF ReadToken
  <2> QED
    BY <2>1, <2>2
<1>3. ASSUME NEW c \in Call, ReadCall(c) PROVE Same
  BY <1>3 DEF ReadCall
<1>4. CASE ModelFails
  <2>1. CASE client = "there"
    <3>1. Grown(Told("error", NoCall))
      BY <1>4, <2>1 DEF ModelFails, Told
    <3> QED
      BY <3>1, <1>n
  <2>2. CASE client # "there"
    BY <1>4, <2>2 DEF ModelFails
  <2> QED
    BY <2>1, <2>2
<1>5. CASE EndOfAnswer
  <2>1. CASE client = "there" /\ answer.calls = <<>>
    <3>1. Grown(Told("done", NoCall))
      BY <1>5, <2>1 DEF EndOfAnswer, Emit, Told
    <3> QED
      BY <3>1, <1>n
  <2>2. CASE ~(client = "there" /\ answer.calls = <<>>)
    BY <1>5, <2>2 DEF EndOfAnswer, Emit
  <2> QED
    BY <2>1, <2>2
<1>6. CASE AnnounceCall
  <2>1. CASE client = "there" /\ Head(calls).args # "broken"
    <3>1. Grown(Told("tool_call", Head(calls)))
      BY <1>6, <2>1 DEF AnnounceCall, Emit, Told
    <3> QED
      BY <3>1, <1>6, <1>h, <1>n DEF AnnounceCall
  <2>2. CASE ~(client = "there" /\ Head(calls).args # "broken")
    BY <1>6, <2>2 DEF AnnounceCall, Emit
  <2> QED
    BY <2>1, <2>2
<1>7. ASSUME NEW ok \in BOOLEAN, RunCall(ok) PROVE Same \/ \E t \in Event : Grown(t)
  <2>1. CASE client = "there"
    <3>1. Grown(Result(Head(calls), ok))
      BY <1>7, <2>1 DEF RunCall, Emit, Result
    <3> QED
      BY <3>1, <1>7, <1>h, <1>n DEF RunCall, ResultsTold
  <2>2. CASE client # "there"
    BY <1>7, <2>2 DEF RunCall, Emit
  <2> QED
    BY <2>1, <2>2
<1>8. CASE Propose
  <2>1. CASE client = "there"
    <3>1. Grown(Told("action", Head(calls)))
      BY <1>8, <2>1 DEF Propose, Emit, Told
    <3> QED
      BY <3>1, <1>8, <1>h, <1>n DEF Propose, ResultsTold
  <2>2. CASE client # "there"
    BY <1>8, <2>2 DEF Propose, Emit
  <2> QED
    BY <2>1, <2>2
<1>9. CASE AskAgain
  <2>1. CASE client = "there" /\ ~(Iterations < MaxIterations)
    <3>1. Grown(Told("done", NoCall))
      BY <1>9, <2>1 DEF AskAgain, Emit, Told
    <3> QED
      BY <3>1, <1>n
  <2>2. CASE ~(client = "there" /\ ~(Iterations < MaxIterations))
    BY <1>9, <2>2 DEF AskAgain, Emit
  <2> QED
    BY <2>1, <2>2
<1>10. CASE UNCHANGED chatVars
  BY <1>10 DEF chatVars
<1> QED
  BY <1>1, <1>2, <1>3, <1>4, <1>5, <1>6, <1>7, <1>8, <1>9, <1>10 DEF ChatNext

\* Replies and results can be counted.
LEMMA ChatCounts ==
  ASSUME ChatTypeOK
  PROVE  /\ \A n \in Nat : IsFiniteSet(Replies(n)) /\ IsFiniteSet(Results(n))
         /\ \A n \in Nat : Cardinality(Replies(n)) \in Nat /\ Cardinality(Results(n)) \in Nat
<1>1. ASSUME NEW n \in Nat PROVE IsFiniteSet(Replies(n)) /\ IsFiniteSet(Results(n))
  <2>1. IsFiniteSet(1 .. n)
    BY FS_Interval
  <2>2. Replies(n) \in SUBSET (1 .. n) /\ Results(n) \in SUBSET (1 .. n)
    BY DEF Replies, Results
  <2> QED
    BY <2>1, <2>2, FS_Subset
<1> QED
  BY <1>1, FS_CardinalityType

\* One more message, which counts when it is of a tool.
LEMMA RepliesGrow ==
  ASSUME ChatTypeOK, NEW m \in Message, convo' = Append(convo, m),
         NEW n \in Nat, n = Len(convo)
  PROVE  /\ Len(convo') = n + 1 /\ convo'[n + 1] = m
         /\ \A i \in 1 .. n : convo'[i] = convo[i] /\ Replies(i)' = Replies(i)
         /\ m.role = "tool" => Cardinality(Replies(n + 1)') = Cardinality(Replies(n)) + 1
         /\ m.role # "tool" => Replies(n + 1)' = Replies(n)
<1>1. /\ Len(convo') = n + 1 /\ convo'[n + 1] = m
      /\ \A i \in 1 .. n : convo'[i] = convo[i]
  BY ChatSequences DEF ChatTypeOK
<1>2. \A i \in 1 .. n : Replies(i)' = Replies(i)
  BY <1>1 DEF Replies
<1>3. m.role # "tool" => Replies(n + 1)' = Replies(n)
  BY <1>1 DEF Replies
<1>4. ASSUME m.role = "tool" PROVE Cardinality(Replies(n + 1)') = Cardinality(Replies(n)) + 1
  <2>1. Replies(n + 1)' = Replies(n) \cup {n + 1} /\ n + 1 \notin Replies(n)
    BY <1>1, <1>4 DEF Replies
  <2> QED
    BY <2>1, ChatCounts, FS_AddElement
<1> QED
  BY <1>1, <1>2, <1>3, <1>4

\* One more event, which counts when it is a result.
LEMMA ResultsGrow ==
  ASSUME ChatTypeOK, NEW t \in Event, events' = Append(events, t),
         NEW n \in Nat, n = Len(events)
  PROVE  /\ Len(events') = n + 1 /\ events'[n + 1] = t
         /\ \A i \in 1 .. n : events'[i] = events[i] /\ Results(i)' = Results(i)
         /\ t.type = "tool_result" => Cardinality(Results(n + 1)') = Cardinality(Results(n)) + 1
         /\ t.type # "tool_result" => Results(n + 1)' = Results(n)
<1>1. /\ Len(events') = n + 1 /\ events'[n + 1] = t
      /\ \A i \in 1 .. n : events'[i] = events[i]
  BY ChatSequences DEF ChatTypeOK
<1>2. \A i \in 1 .. n : Results(i)' = Results(i)
  BY <1>1 DEF Results
<1>3. t.type # "tool_result" => Results(n + 1)' = Results(n)
  BY <1>1 DEF Results
<1>4. ASSUME t.type = "tool_result" PROVE Cardinality(Results(n + 1)') = Cardinality(Results(n)) + 1
  <2>1. Results(n + 1)' = Results(n) \cup {n + 1} /\ n + 1 \notin Results(n)
    BY <1>1, <1>4 DEF Results
  <2> QED
    BY <2>1, ChatCounts, FS_AddElement
<1> QED
  BY <1>1, <1>2, <1>3, <1>4

\* The messages and the events there are.
LEMMA ChatLengths ==
  ASSUME ChatTypeOK
  PROVE  /\ Len(convo) \in Nat /\ DOMAIN convo = 1 .. Len(convo)
         /\ Len(events) \in Nat /\ DOMAIN events = 1 .. Len(events)
         /\ events # <<>> <=> Len(events) > 0
  BY DEF ChatTypeOK

\* A step counts the results and the messages of calls alike.
LEMMA ResultsToldStep ==
  ASSUME ChatTypeOK, ResultsTold, [ChatNext]_chatVars
  PROVE  ResultsTold'
<1>p. PICK m \in Nat, n \in Nat : m = Len(convo) /\ n = Len(events)
  BY ChatLengths
<1> DEFINE R == Cardinality(Replies(m))
           S == Cardinality(Results(n))
<1>n. R \in Nat /\ S \in Nat
  BY <1>p, ChatCounts
<1>h. calls # <<>> => Head(calls) \in Call
  BY ChatSequences DEF ChatTypeOK
<1>m. /\ NoCall \in Call
      /\ \A cs \in Seq(Call) : AssistantMessage(cs) \in Message
      /\ \A c \in Call, ok \in BOOLEAN : ToolMessage(c, ok) \in Message /\ Result(c, ok) \in Event
      /\ \A c \in Call : \A type \in {"token", "tool_call", "action", "done", "error"} :
           Told(type, c) \in Event
  BY ChatMessages
\* The counts after a step, of the messages and of the events.
<1>s. convo' = convo => Cardinality(Replies(Len(convo)))' = R
  BY <1>p DEF Replies
<1>r. ASSUME NEW x \in Message, convo' = Append(convo, x)
      PROVE  Cardinality(Replies(Len(convo)))' = IF x.role = "tool" THEN R + 1 ELSE R
  <2>1. Len(convo') = m + 1
    BY <1>p, <1>r, RepliesGrow
  <2> QED
    BY <1>p, <1>r, <2>1, RepliesGrow
<1>u. events' = events => Cardinality(Results(Len(events)))' = S
  BY <1>p DEF Results
<1>e. ASSUME NEW t \in Event, events' = Append(events, t)
      PROVE  /\ Cardinality(Results(Len(events)))' = IF t.type = "tool_result" THEN S + 1 ELSE S
             /\ events' # <<>> /\ events'[Len(events')] = t
  <2>1. Len(events') = n + 1 /\ events'[n + 1] = t
    BY <1>p, <1>e, ResultsGrow
  <2>2. events' # <<>>
    BY <1>e, ChatSequences DEF ChatTypeOK
  <2> QED
    BY <1>p, <1>e, <2>1, <2>2, ResultsGrow
<1>i. /\ engine \in {"reading", "calling", "running"} => S = R
      /\ engine \in {"running", "proposing"} => calls # <<>>
      /\ engine = "proposing" => S = R + 1 /\ Head(calls).tool = "propose"
  BY <1>p DEF ResultsTold
<1> HIDE DEF R, S
<1>1. CASE ClientLeaves
  BY <1>1 DEF ClientLeaves, ResultsTold, Results, Replies
<1>2. CASE ReadToken
  <2>1. engine = "reading" /\ engine' = "reading" /\ convo' = convo
    BY <1>2 DEF ReadToken
  <2>2. events' = events \/ events' = Append(events, Told("token", NoCall))
    BY <1>2 DEF ReadToken
  <2>3. Cardinality(Results(Len(events)))' = S
    BY <2>2, <1>m, <1>u, <1>e DEF Told
  <2> QED
    BY <2>1, <2>3, <1>i, <1>s DEF ResultsTold
<1>3. ASSUME NEW c \in Call, ReadCall(c) PROVE ResultsTold'
  BY <1>3, <1>i, <1>s, <1>u DEF ReadCall, ResultsTold
<1>4. CASE ModelFails
  BY <1>4 DEF ModelFails, ResultsTold
<1>5. CASE EndOfAnswer
  <2>1. CASE engine' = "calling"
    <3>1. events' = events /\ convo' = Append(convo, AssistantMessage(answer.calls))
      BY <1>5, <2>1 DEF EndOfAnswer, Emit
    <3>2. answer.calls \in Seq(Call)
      BY DEF ChatTypeOK
    <3>3. Cardinality(Replies(Len(convo)))' = R
      BY <3>1, <3>2, <1>m, <1>r DEF AssistantMessage
    <3>4. engine = "reading"
      BY <1>5 DEF EndOfAnswer
    <3> QED
      BY <2>1, <3>1, <3>3, <3>4, <1>i, <1>u DEF ResultsTold
  <2>2. CASE engine' # "calling"
    <3>1. engine' = "ended"
      BY <1>5, <2>2 DEF EndOfAnswer, Emit
    <3> QED
      BY <3>1 DEF ResultsTold
  <2> QED
    BY <2>1, <2>2
<1>6. CASE AnnounceCall
  <2>1. CASE engine' = "running"
    <3>1. /\ events' = Append(events, Told("tool_call", Head(calls))) /\ convo' = convo
          /\ calls' = calls /\ calls # <<>> /\ engine = "calling"
      BY <1>6, <2>1 DEF AnnounceCall, Emit
    <3>2. Cardinality(Results(Len(events)))' = S
      BY <3>1, <1>h, <1>m, <1>e DEF Told
    <3> QED
      BY <2>1, <3>1, <3>2, <1>i, <1>s DEF ResultsTold
  <2>2. CASE engine' # "running"
    <3>1. engine' = "ended"
      BY <1>6, <2>2 DEF AnnounceCall, Emit
    <3> QED
      BY <3>1 DEF ResultsTold
  <2> QED
    BY <2>1, <2>2
<1>7. ASSUME NEW ok \in BOOLEAN, RunCall(ok) PROVE ResultsTold'
  <2>0. engine = "running" /\ calls # <<>> /\ S = R /\ Head(calls) \in Call
    BY <1>7, <1>h, <1>i DEF RunCall
  <2>1. CASE client # "there"
    BY <1>7, <2>1 DEF RunCall, Emit, ResultsTold
  <2>2. CASE client = "there"
    <3>1. events' = Append(events, Result(Head(calls), ok))
      BY <1>7, <2>2 DEF RunCall, Emit
    <3>2. /\ Cardinality(Results(Len(events)))' = S + 1
          /\ events' # <<>> /\ events'[Len(events')] = Result(Head(calls), ok)
      BY <2>0, <3>1, <1>m, <1>e DEF Result
    <3>3. CASE ok /\ Head(calls).tool = "propose"
      <4>1. engine' = "proposing" /\ convo' = convo /\ calls' = calls
        BY <1>7, <2>2, <3>3 DEF RunCall, Emit
      <4> QED
        BY <2>0, <3>2, <3>3, <4>1, <1>s DEF ResultsTold
    <3>4. CASE ~(ok /\ Head(calls).tool = "propose")
      <4>1. engine' = "calling" /\ convo' = Append(convo, ToolMessage(Head(calls), ok))
        BY <1>7, <2>2, <3>4 DEF RunCall, Emit, Answer
      <4>2. Cardinality(Replies(Len(convo)))' = R + 1
        BY <2>0, <4>1, <1>m, <1>r DEF ToolMessage
      <4> QED
        BY <2>0, <3>2, <4>1, <4>2 DEF ResultsTold
    <3> QED
      BY <3>3, <3>4
  <2> QED
    BY <2>1, <2>2
<1>8. CASE Propose
  <2>0. engine = "proposing" /\ calls # <<>> /\ S = R + 1 /\ Head(calls) \in Call
    BY <1>8, <1>h, <1>i DEF Propose
  <2>1. CASE client # "there"
    BY <1>8, <2>1 DEF Propose, Emit, ResultsTold
  <2>2. CASE client = "there"
    <3>1. /\ events' = Append(events, Told("action", Head(calls))) /\ engine' = "calling"
          /\ convo' = Append(convo, ToolMessage(Head(calls), TRUE))
      BY <1>8, <2>2 DEF Propose, Emit, Answer
    <3>2. Cardinality(Results(Len(events)))' = S
      BY <2>0, <3>1, <1>m, <1>e DEF Told
    <3>3. Cardinality(Replies(Len(convo)))' = R + 1
      BY <2>0, <3>1, <1>m, <1>r DEF ToolMessage
    <3> QED
      BY <2>0, <3>1, <3>2, <3>3 DEF ResultsTold
  <2> QED
    BY <2>1, <2>2
<1>9. CASE AskAgain
  <2>1. CASE engine' = "reading"
    <3>1. events' = events /\ convo' = convo /\ engine = "calling"
      BY <1>9, <2>1 DEF AskAgain, Emit
    <3> QED
      BY <2>1, <3>1, <1>i, <1>s, <1>u DEF ResultsTold
  <2>2. CASE engine' # "reading"
    <3>1. engine' = "ended"
      BY <1>9, <2>2 DEF AskAgain, Emit
    <3> QED
      BY <3>1 DEF ResultsTold
  <2> QED
    BY <2>1, <2>2
<1>10. CASE UNCHANGED chatVars
  BY <1>10 DEF chatVars, ResultsTold, Results, Replies
<1> QED
  BY <1>1, <1>2, <1>3, <1>4, <1>5, <1>6, <1>7, <1>8, <1>9, <1>10, SMTT(30) DEF ChatNext

\* A message that a step adds is a turn, or tells of the result that was sent last.
LEMMA ChatToldStep ==
  ASSUME ChatTypeOK, ResultsTold, [ChatNext]_chatVars
  PROVE  \/ convo' = convo
         \/ \E x \in Message : x.role # "tool" /\ convo' = Append(convo, x)
         \/ \E ok \in BOOLEAN :
              /\ calls # <<>> /\ engine = "running"
              /\ convo' = Append(convo, ToolMessage(Head(calls), ok))
              /\ events' = Append(events, Result(Head(calls), ok))
         \/ /\ engine = "proposing"
            /\ convo' = Append(convo, ToolMessage(Head(calls), TRUE))
<1>1. CASE ClientLeaves
  BY <1>1 DEF ClientLeaves
<1>2. CASE ReadToken
  BY <1>2 DEF ReadToken
<1>3. ASSUME NEW c \in Call, ReadCall(c) PROVE convo' = convo
  BY <1>3 DEF ReadCall
<1>4. CASE ModelFails
  BY <1>4 DEF ModelFails
<1>5. CASE EndOfAnswer
  <2>1. AssistantMessage(answer.calls) \in Message /\ AssistantMessage(answer.calls).role # "tool"
    BY ChatMessages DEF ChatTypeOK, AssistantMessage
  <2> QED
    BY <1>5, <2>1 DEF EndOfAnswer, Emit
<1>6. CASE AnnounceCall
  BY <1>6 DEF AnnounceCall
<1>7. ASSUME NEW ok \in BOOLEAN, RunCall(ok)
      PROVE  \/ convo' = convo
             \/ /\ calls # <<>> /\ engine = "running"
                /\ convo' = Append(convo, ToolMessage(Head(calls), ok))
                /\ events' = Append(events, Result(Head(calls), ok))
  BY <1>7 DEF RunCall, Emit, Answer, ResultsTold
<1>8. CASE Propose
  BY <1>8 DEF Propose, Answer
<1>9. CASE AskAgain
  BY <1>9 DEF AskAgain
<1>10. CASE UNCHANGED chatVars
  BY <1>10 DEF chatVars
<1> QED
  BY <1>1, <1>2, <1>3, <1>4, <1>5, <1>6, <1>7, <1>8, <1>9, <1>10 DEF ChatNext

\* A step keeps what the model was told what the client was.
LEMMA ToldAlikeStep ==
  ASSUME ChatTypeOK, ResultsTold, ToldAlike, [ChatNext]_chatVars
  PROVE  ToldAlike'
<1>1. PICK m \in Nat, n \in Nat : m = Len(convo) /\ n = Len(events)
  BY ChatLengths
<1>2. /\ Cardinality(Replies(m)) \in Nat /\ Cardinality(Results(n)) \in Nat
      /\ n <= Len(events')
      /\ \A e \in 1 .. n : events'[e] = events[e] /\ Results(e)' = Results(e)
  <2>0. Cardinality(Replies(m)) \in Nat /\ Cardinality(Results(n)) \in Nat
    BY ChatCounts
  <2>1. CASE events' = events
    <3>1. n <= Len(events') /\ \A e \in 1 .. n : events'[e] = events[e]
      BY <1>1, <2>1
    <3>2. \A e \in 1 .. n : Results(e)' = Results(e)
      BY <2>1 DEF Results
    <3> QED
      BY <2>0, <3>1, <3>2
  <2>2. ASSUME NEW t \in Event, events' = Append(events, t)
        PROVE  n <= Len(events') /\ \A e \in 1 .. n : events'[e] = events[e] /\ Results(e)' = Results(e)
    <3>1. Len(events') = n + 1
      BY <1>1, <2>2, ResultsGrow
    <3> QED
      BY <1>1, <2>2, <3>1, ResultsGrow
  <2> QED
    BY <2>0, <2>1, <2>2, ChatEventsStep
\* What was told of the messages there are.
<1>3. ASSUME NEW i \in 1 .. m, convo'[i].role = "tool", convo'[i] = convo[i],
             Replies(i)' = Replies(i)
      PROVE  \E e \in Results(Len(events))' :
               /\ Cardinality(Results(e)') = Cardinality(Replies(i)')
               /\ events'[e].call = convo'[i].call /\ events'[e].ok = convo'[i].ok
  <2>1. i \in Replies(Len(convo))
    BY <1>1, <1>3 DEF Replies
  <2>2. PICK e \in Results(Len(events)) :
          /\ Cardinality(Results(e)) = Cardinality(Replies(i))
          /\ events[e].call = convo[i].call /\ events[e].ok = convo[i].ok
    BY <2>1 DEF ToldAlike
  <2>3. e \in 1 .. n /\ events[e].type = "tool_result"
    BY <1>1 DEF Results
  <2>4. e \in Results(Len(events))'
    BY <1>1, <1>2, <2>3 DEF Results
  <2> QED
    BY <1>2, <1>3, <2>2, <2>3, <2>4
<1>4. CASE convo' = convo
  <2>1. \A i \in 1 .. m : Replies(i)' = Replies(i)
    BY <1>4 DEF Replies
  <2>2. \A i \in Replies(Len(convo))' : i \in 1 .. m /\ convo'[i].role = "tool"
    BY <1>1, <1>4 DEF Replies
  <2> QED
    BY <1>3, <1>4, <2>1, <2>2 DEF ToldAlike
<1>5. ASSUME NEW x \in Message, convo' = Append(convo, x),
             x.role = "tool" => \E e \in Results(Len(events))' :
               /\ Cardinality(Results(e)') = Cardinality(Replies(m)) + 1
               /\ events'[e].call = x.call /\ events'[e].ok = x.ok
      PROVE  ToldAlike'
  <2>1. Len(convo') = m + 1 /\ convo'[m + 1] = x
    BY <1>1, <1>5, RepliesGrow
  <2>2. \A i \in 1 .. m : convo'[i] = convo[i] /\ Replies(i)' = Replies(i)
    BY <1>1, <1>5, RepliesGrow
  <2>3. x.role = "tool" => Cardinality(Replies(m + 1)') = Cardinality(Replies(m)) + 1
    BY <1>1, <1>5, RepliesGrow
  <2>4. ASSUME NEW i \in Replies(Len(convo))'
        PROVE  \E e \in Results(Len(events))' :
                 /\ Cardinality(Results(e)') = Cardinality(Replies(i)')
                 /\ events'[e].call = convo'[i].call /\ events'[e].ok = convo'[i].ok
    <3>1. i \in 1 .. m + 1 /\ convo'[i].role = "tool"
      BY <2>1 DEF Replies
    <3>2. CASE i \in 1 .. m
      BY <1>3, <2>2, <3>1, <3>2
    <3>3. CASE i = m + 1
      BY <1>5, <2>1, <2>3, <3>1, <3>3
    <3> QED
      BY <3>1, <3>2, <3>3
  <2> QED
    BY <2>4 DEF ToldAlike
<1>6. ASSUME NEW ok \in BOOLEAN, calls # <<>>, engine = "running",
             convo' = Append(convo, ToolMessage(Head(calls), ok)),
             events' = Append(events, Result(Head(calls), ok))
      PROVE  ToldAlike'
  <2>1. /\ ToolMessage(Head(calls), ok) \in Message
        /\ Result(Head(calls), ok) \in Event /\ Result(Head(calls), ok).type = "tool_result"
    BY <1>6, ChatMessages, ChatSequences DEF ChatTypeOK, Result
  <2>2. Len(events') = n + 1 /\ events'[n + 1] = Result(Head(calls), ok)
    BY <1>1, <1>6, <2>1, ResultsGrow
  <2>3. Cardinality(Results(n + 1)') = Cardinality(Results(n)) + 1
    BY <1>1, <1>6, <2>1, ResultsGrow
  <2>4. n + 1 \in Results(Len(events))'
    BY <2>1, <2>2 DEF Results
  <2>5. Cardinality(Results(n)) = Cardinality(Replies(m))
    BY <1>1, <1>6 DEF ResultsTold
  <2>6. \E e \in Results(Len(events))' :
          /\ Cardinality(Results(e)') = Cardinality(Replies(m)) + 1
          /\ events'[e].call = ToolMessage(Head(calls), ok).call
          /\ events'[e].ok = ToolMessage(Head(calls), ok).ok
    BY <2>2, <2>3, <2>4, <2>5 DEF Result, ToolMessage
  <2> QED
    BY <1>5, <1>6, <2>1, <2>6
<1>7. CASE engine = "proposing" /\ convo' = Append(convo, ToolMessage(Head(calls), TRUE))
  <2>1. /\ n > 0 /\ events[n] = Result(Head(calls), TRUE) /\ calls # <<>>
        /\ Cardinality(Results(n)) = Cardinality(Replies(m)) + 1
    BY <1>1, <1>7, ChatLengths DEF ResultsTold
  <2>2. ToolMessage(Head(calls), TRUE) \in Message
    BY <2>1, ChatMessages, ChatSequences DEF ChatTypeOK
  <2>3. n \in Results(Len(events))'
    BY <1>1, <1>2, <2>1 DEF Results, Result
  <2>4. \E e \in Results(Len(events))' :
          /\ Cardinality(Results(e)') = Cardinality(Replies(m)) + 1
          /\ events'[e].call = ToolMessage(Head(calls), TRUE).call
          /\ events'[e].ok = ToolMessage(Head(calls), TRUE).ok
    <3>1. n \in 1 .. n
      BY <2>1
    <3>2. Results(n)' = Results(n)
      BY <1>2, <3>1
    <3>3. events'[n] = events[n]
      BY <1>2, <3>1
    <3>4. Cardinality(Results(n)') = Cardinality(Replies(m)) + 1
      BY <2>1, <3>2
    <3>5. events'[n].call = Head(calls) /\ events'[n].ok = TRUE
      BY <2>1, <3>3 DEF Result
    <3> QED
      BY <2>3, <3>4, <3>5 DEF ToolMessage
  <2> QED
    BY <1>5, <1>7, <2>2, <2>4
<1> QED
  BY <1>4, <1>5, <1>6, <1>7, ChatToldStep

\* What the client was sent, whatever the step.
LEMMA EventsToldStep ==
  ASSUME ChatTypeOK, ResultsTold, ButtonsDue, ButtonsShown, EndTold, [ChatNext]_chatVars
  PROVE  ButtonsDue' /\ ButtonsShown' /\ EndTold'
<1>1. PICK n \in Nat : n = Len(events)
  BY ChatLengths
<1>d. DOMAIN events = 1 .. n
  BY <1>1, ChatLengths
<1>2. CASE /\ events' = events
           /\ engine = "proposing" => engine' = "proposing" \/ client' # "there"
           /\ client # "there" => client' # "there"
           /\ engine = "ended" => engine' = "ended" /\ calls' = calls
           /\ engine # "ended" /\ engine' = "ended" /\ client' = "there" =>
                calls' = calls /\ calls # <<>> /\ Head(calls).args = "broken"
  <2>1. ButtonsDue'
    BY <1>2 DEF ButtonsDue, Proposed
  <2>2. ButtonsShown'
    BY <1>2, <2>1, <1>1, <1>d DEF ButtonsDue, ButtonsShown, Proposed
  <2>3. calls # <<>> => 1 \in DOMAIN calls /\ Head(calls) = calls[1]
    BY DEF ChatTypeOK
  <2>4. EndTold'
    BY <1>2, <2>3 DEF EndTold, EndsAnswer
  <2> QED
    BY <2>1, <2>2, <2>4
<1>3. ASSUME NEW t \in Event,
             client = "there", client' = "there", engine # "ended",
             events' = Append(events, t),
             t.type \in {"done", "error"} <=> engine' = "ended",
             t.type = "tool_result" /\ t.ok /\ t.call.tool = "propose" => engine' = "proposing",
             t.type = "action" <=> engine = "proposing",
             engine = "proposing" => t = Told("action", Head(calls))
      PROVE  ButtonsDue' /\ ButtonsShown' /\ EndTold'
  <2>1. Len(events') = n + 1 /\ events'[n + 1] = t /\ \A e \in 1 .. n : events'[e] = events[e]
    BY <1>1, <1>3, ResultsGrow
  <2>2. DOMAIN events' = 1 .. n + 1
    BY <1>3, <2>1, ChatSequences DEF ChatTypeOK
  <2>3. engine = "proposing" => n > 0 /\ Proposed(n) /\ events[n].call = Head(calls)
    BY <1>1, ChatLengths DEF ResultsTold, Proposed, Result
  <2>4. ASSUME NEW e \in DOMAIN events', Proposed(e)'
        PROVE  \/ e + 1 \in DOMAIN events' /\ events'[e + 1] = Told("action", events'[e].call)
               \/ e = Len(events') /\ engine' = "proposing"
    <3>1. CASE e = n + 1
      BY <1>3, <2>1, <2>4, <3>1 DEF Proposed
    <3>2. CASE e \in 1 .. n
      <4>1. Proposed(e) /\ events'[e].call = events[e].call
        BY <2>1, <2>4, <3>2 DEF Proposed
      <4>2. CASE e + 1 \in DOMAIN events /\ events[e + 1] = Told("action", events[e].call)
        BY <1>d, <2>1, <2>2, <4>1, <4>2
      <4>3. CASE e = n /\ engine = "proposing"
        BY <1>3, <2>1, <2>2, <2>3, <4>1, <4>3
      <4> QED
        BY <1>1, <1>3, <1>d, <3>2, <4>1, <4>2, <4>3 DEF ButtonsDue
    <3> QED
      BY <2>2, <3>1, <3>2
  <2>5. ButtonsDue'
    BY <2>4 DEF ButtonsDue
  <2>6. ASSUME NEW e \in DOMAIN events', events'[e].type = "action"
        PROVE  e > 1 /\ Proposed(e - 1)' /\ events'[e - 1].call = events'[e].call
    <3>1. CASE e = n + 1
      BY <1>3, <2>1, <2>3, <2>6, <3>1 DEF Proposed, Told
    <3>2. CASE e \in 1 .. n
      <4>1. e > 1 /\ Proposed(e - 1) /\ events[e - 1].call = events[e].call
        BY <1>d, <2>1, <2>6, <3>2 DEF ButtonsShown
      <4> QED
        BY <2>1, <3>2, <4>1 DEF Proposed
    <3> QED
      BY <2>2, <3>1, <3>2
  <2>7. ButtonsShown'
    BY <2>4, <2>6, <2>1, <2>2 DEF ButtonsShown
  <2>8. \A e \in DOMAIN events : ~EndsAnswer(e)
    BY <1>3 DEF EndTold
  <2>9. \A e \in DOMAIN events' : EndsAnswer(e)' => e = n + 1 /\ engine' = "ended"
    BY <1>3, <1>d, <2>1, <2>2, <2>8 DEF EndsAnswer
  <2>10. engine' = "ended" => events' # <<>> /\ EndsAnswer(Len(events))'
    BY <1>3, <2>1, <2>2 DEF EndsAnswer
  <2>11. EndTold'
    BY <2>1, <2>9, <2>10 DEF EndTold
  <2> QED
    BY <2>5, <2>7, <2>11
<1> QED
  BY <1>2, <1>3, ChatEventsStep

\* The invariant of a turn of the assistant.
LEMMA ChatInvHolds == ChatSpec => []ChatInv
<1>1. ChatInit => ChatInv
  <2> SUFFICES ASSUME ChatInit PROVE ChatInv
    OBVIOUS
  <2>0. convo = <<[role |-> "user"]>> /\ events = <<>> /\ calls = <<>> /\ engine = "reading"
        /\ client = "there" /\ answer = NoAnswer
    BY DEF ChatInit
  <2>1. ChatTypeOK
    <3>1. [role |-> "user"] \in Message
      BY DEF Message
    <3>2. convo \in Seq(Message) /\ convo # <<>>
      BY <2>0, <3>1
    <3>3. answer \in [frames : 0 .. MaxFrames, calls : Seq(Call)]
      BY <2>0, ChatAssumption DEF NoAnswer
    <3> QED
      BY <2>0, <3>2, <3>3 DEF ChatTypeOK
  <2>2. DOMAIN convo = {1} /\ convo[1].role = "user" /\ Len(convo) = 1
    BY <2>0
  <2>3. DOMAIN events = {} /\ Len(events) = 0
    BY <2>0
  <2>4. Replies(Len(convo)) = {} /\ Results(Len(events)) = {}
    BY <2>2, <2>3 DEF Replies, Results
  <2>5. TurnsKept
    BY <2>0, <2>2 DEF TurnsKept, Turn, Busy
  <2>6. ResultsTold
    BY <2>0, <2>4 DEF ResultsTold
  <2>7. ToldAlike
    BY <2>4 DEF ToldAlike
  <2>8. ButtonsDue /\ ButtonsShown /\ EndTold
    BY <2>0, <2>3 DEF ButtonsDue, ButtonsShown, EndTold
  <2> QED
    BY <2>1, <2>5, <2>6, <2>7, <2>8 DEF ChatInv
<1>2. ChatInv /\ [ChatNext]_chatVars => ChatInv'
  <2> SUFFICES ASSUME ChatInv, [ChatNext]_chatVars PROVE ChatInv'
    OBVIOUS
  <2>1. ChatTypeOK'
    BY ChatTypeStep DEF ChatInv
  <2>2. TurnsKept'
    BY <2>1, TurnsKeptStep DEF ChatInv
  <2>3. ResultsTold'
    BY ResultsToldStep DEF ChatInv
  <2>4. ToldAlike'
    BY ToldAlikeStep DEF ChatInv
  <2>5. ButtonsDue' /\ ButtonsShown' /\ EndTold'
    BY EventsToldStep DEF ChatInv
  <2> QED
    BY <2>1, <2>2, <2>3, <2>4, <2>5 DEF ChatInv
<1> QED
  BY <1>1, <1>2, PTL DEF ChatSpec

\* The engine keeps its types, whatever the model answers (engine.go, Run).
THEOREM ChatTypeCorrect == ChatSpec => []ChatTypeOK
<1>1. ChatInv => ChatTypeOK
  BY DEF ChatInv
<1> QED
  BY <1>1, ChatInvHolds, PTL

\* Every call of every turn is answered before the model is asked again, with what the
\* client was told, a button follows each action that was proposed, and a client that
\* stays is told the end, for any number of rounds and any answers (engine.go, Run).
THEOREM TurnsAreAnswered == ChatSpec => []ChatSound
<1>1. ChatInv => ChatSound
  <2> SUFFICES ASSUME ChatInv PROVE ChatSound
    OBVIOUS
  <2>1. ASSUME engine = "reading", NEW i \in DOMAIN convo, Turn(i)
        PROVE  i + Rest(i) <= Len(convo) /\ TurnKept(i)
    BY <2>1 DEF ChatInv, TurnsKept
  <2>2. ASSUME engine = "reading", NEW i \in DOMAIN convo, Turn(i), NEW k \in 1 .. Rest(i)
        PROVE  convo[i + k].role = "tool" /\ convo[i + k].call = convo[i].calls[k]
    <3>1. i \in Nat /\ Len(convo) \in Nat
      BY ChatLengths DEF ChatInv
    <3>2. Rest(i) \in Nat
      <4>1. convo[i] \in Message
        BY ChatSequences DEF ChatInv, ChatTypeOK
      <4>2. convo[i].calls \in Seq(Call)
        BY <2>2, <4>1 DEF Turn, Message
      <4> QED
        BY <4>2 DEF Rest
    <3>3. i + k <= Len(convo)
      BY <2>1, <2>2, <3>1, <3>2
    <3> QED
      BY <2>1, <2>2, <3>3 DEF TurnKept
  <2>3. CallsAnswered
    BY <2>1, <2>2 DEF CallsAnswered, Turn, Rest, TurnKept
  <2> QED
    BY <2>3 DEF ChatInv, ChatSound
<1> QED
  BY <1>1, ChatInvHolds, PTL

-----------------------------------------------------------------------------
(* Calibration *)

\* The sums of the first of some numbers are natural numbers and add up.
LEMMA SumsAddUp ==
  ASSUME NEW N \in Nat, NEW v \in [1 .. N -> Nat]
  PROVE  /\ PartialSums(v) \in [0 .. N -> Nat]
         /\ PartialSums(v)[0] = 0
         /\ \A i \in 1 .. N : PartialSums(v)[i] = PartialSums(v)[i - 1] + v[i]
<1> DEFINE Adds(s, k) == /\ s \in [0 .. k -> Nat] /\ s[0] = 0
                         /\ \A i \in 1 .. k : s[i] = s[i - 1] + v[i]
           Bad == {k \in 0 .. N : ~\E s : Adds(s, k)}
<1>1. Bad = {}
  <2> SUFFICES ASSUME Bad # {} PROVE FALSE
    OBVIOUS
  <2>1. PICK k \in Bad : \A n \in Bad : k <= n
    BY LeastNatural, Bad \in SUBSET Nat
  <2>2. k # 0
    <3>1. Adds([i \in 0 .. 0 |-> 0], 0)
      OBVIOUS
    <3> QED
      BY <2>1, <3>1
  <2>3. k - 1 \in 0 .. N /\ k - 1 \notin Bad /\ k \in 1 .. N
    <3>1. k \in 0 .. N
      BY <2>1
    <3> HIDE DEF Bad
    <3> QED
      BY <2>1, <2>2, <3>1
  <2>4. PICK s : Adds(s, k - 1)
    BY <2>3
  <2> DEFINE t == [i \in 0 .. k |-> IF i = k THEN s[k - 1] + v[k] ELSE s[i]]
  <2>5. Adds(t, k)
    <3>1. t \in [0 .. k -> Nat]
      BY <2>3, <2>4
    <3>2. t[0] = 0
      BY <2>3, <2>4
    <3>3. ASSUME NEW i \in 1 .. k PROVE t[i] = t[i - 1] + v[i]
      BY <2>3, <2>4, SMTT(30)
    <3> QED
      BY <3>1, <3>2, <3>3
  <2> QED
    BY <2>1, <2>5
<1>2. PICK s : Adds(s, N)
  <2>1. N \in 0 .. N
    OBVIOUS
  <2> HIDE DEF Adds
  <2> QED
    BY <1>1, <2>1
<1>3. Len(v) = N
  OBVIOUS
<1> DEFINE Rec(f) == f = [i \in 0 .. N |-> IF i = 0 THEN 0 ELSE f[i - 1] + v[i]]
<1>4. Rec(s)
  <2> DEFINE t == [i \in 0 .. N |-> IF i = 0 THEN 0 ELSE s[i - 1] + v[i]]
  <2>1. \A i \in 0 .. N : s[i] = t[i]
    BY <1>2
  <2> QED
    BY <1>2, <2>1
<1>5. PartialSums(v) = CHOOSE f : Rec(f)
  BY <1>3 DEF PartialSums
<1>6. Rec(PartialSums(v))
  BY <1>4, <1>5
<1> DEFINE p == PartialSums(v)
<1> HIDE DEF p
<1>7. p = [i \in 0 .. N |-> IF i = 0 THEN 0 ELSE p[i - 1] + v[i]]
  BY <1>6 DEF p
<1>8. \A k \in 0 .. N : p[k] = s[k]
  <2> DEFINE Off == {k \in 0 .. N : p[k] # s[k]}
  <2> SUFFICES ASSUME Off # {} PROVE FALSE
    OBVIOUS
  <2>1. PICK k \in Off : \A n \in Off : k <= n
    BY LeastNatural, Off \in SUBSET Nat
  <2>2. k # 0
    BY <1>2, <1>7, <2>1
  <2>3. k - 1 \in 0 .. N /\ k - 1 \notin Off
    BY <2>1, <2>2
  <2> QED
    BY <1>2, <1>7, <2>1, <2>2, <2>3
<1>9. p = s
  BY <1>2, <1>7, <1>8
<1> QED
  BY <1>2, <1>9 DEF p

\* Samples can be put in order.
LEMMA OrderExists ==
  ASSUME NEW S, IsFiniteSet(S), \A s \in S : s.secs \in Nat
  PROVE  Sorted(S, InOrder(S))
<1> DEFINE Orderly(T) == \E pts : Sorted(T, pts)
           Bad == {n \in Nat : \E T \in SUBSET S : Cardinality(T) = n /\ ~Orderly(T)}
<1>1. Bad = {}
  <2> SUFFICES ASSUME Bad # {} PROVE FALSE
    OBVIOUS
  <2>1. PICK n \in Bad : \A k \in Bad : n <= k
    BY LeastNatural, Bad \in SUBSET Nat
  <2>2. PICK T \in SUBSET S : Cardinality(T) = n /\ ~Orderly(T)
    BY <2>1
  <2>3. IsFiniteSet(T)
    BY FS_Subset
  <2>4. T # {}
    <3> SUFFICES ASSUME T = {} PROVE FALSE
      OBVIOUS
    <3>1. Cardinality(T) = 0
      BY FS_EmptySet
    <3>2. Sorted(T, [i \in 1 .. 0 |-> i])
      BY <3>1 DEF Sorted
    <3> QED
      BY <2>2, <3>2
  <2>5. PICK m \in T : \A s \in T : m.secs <= s.secs
    <3> DEFINE Lengths == {s.secs : s \in T}
    <3>1. Lengths \in SUBSET Nat /\ Lengths # {}
      BY <2>4
    <3>2. PICK l \in Lengths : \A k \in Lengths : l <= k
      BY <3>1, LeastNatural
    <3> QED
      BY <3>2
  <2>6. /\ n \in Nat \ {0} /\ IsFiniteSet(T \ {m})
        /\ Cardinality(T \ {m}) = n - 1
    <3>1. Cardinality(T) \in Nat /\ Cardinality(T) # 0
      BY <2>3, <2>4, FS_CardinalityType, FS_EmptySet
    <3>2. IsFiniteSet(T \ {m}) /\ Cardinality(T \ {m}) = Cardinality(T) - 1
      BY <2>3, FS_RemoveElement
    <3> QED
      BY <2>2, <3>1, <3>2
  <2>7. n - 1 \in Nat /\ n - 1 \notin Bad
    <3>1. n \in Nat
      BY <2>6
    <3> HIDE DEF Bad
    <3> QED
      BY <2>1, <2>6
  <2>8. PICK q : Sorted(T \ {m}, q)
    BY <2>6, <2>7
  <2> DEFINE pts == [i \in 1 .. n |-> IF i = 1 THEN m ELSE q[i - 1]]
  <2>9. q \in [1 .. n - 1 -> T \ {m}]
        /\ \A i, j \in 1 .. n - 1 : i < j => q[i] # q[j] /\ q[i].secs <= q[j].secs
    BY <2>6, <2>8 DEF Sorted
  <2>10. \A i \in 2 .. n : pts[i] = q[i - 1] /\ i - 1 \in 1 .. n - 1 /\ q[i - 1] \in T \ {m}
    BY <2>6, <2>9
  <2>11. pts \in [1 .. n -> T] /\ DOMAIN pts = 1 .. n /\ pts[1] = m
    <3>1. \A i \in 1 .. n : (IF i = 1 THEN m ELSE q[i - 1]) \in T
      BY <2>6, <2>9
    <3> QED
      BY <2>6, <3>1
  <2> HIDE DEF pts
  <2>12. ASSUME NEW i \in 1 .. n, NEW j \in 1 .. n, i < j
         PROVE  pts[i] # pts[j] /\ pts[i].secs <= pts[j].secs
    <3>1. j \in 2 .. n
      BY <2>6, <2>12
    <3>2. CASE i = 1
      BY <2>5, <2>10, <2>11, <3>1, <3>2
    <3>3. CASE i # 1
      <4>1. i \in 2 .. n /\ i - 1 < j - 1
        BY <2>6, <2>12, <3>3
      <4>2. i - 1 \in 1 .. n - 1 /\ j - 1 \in 1 .. n - 1 /\ pts[i] = q[i - 1] /\ pts[j] = q[j - 1]
        BY <2>10, <3>1, <4>1
      <4> QED
        BY <2>9, <4>1, <4>2
    <3> QED
      BY <3>2, <3>3
  <2>13. Sorted(T, pts)
    BY <2>2, <2>11, <2>12 DEF Sorted
  <2> QED
    BY <2>2, <2>13
<1>2. Orderly(S)
  <2>1. Cardinality(S) \in Nat
    BY FS_CardinalityType
  <2> HIDE DEF Orderly
  <2> QED
    BY <1>1, <2>1
<1>3. PICK pts : Sorted(S, pts)
  BY <1>2
<1>4. pts \in [1 .. Cardinality(S) -> S]
  BY <1>3 DEF Sorted
<1> QED
  BY <1>3, <1>4 DEF InOrder

\* Rounding a quotient between two whole numbers stays between them, and does not
\* change their order.
LEMMA RoundBetween ==
  ASSUME NEW b \in Nat \ {0}, NEW a \in Nat, NEW low \in Nat, NEW high \in Nat,
         low * b <= a, a <= high * b
  PROVE  Round(a, b) \in Nat /\ low <= Round(a, b) /\ Round(a, b) <= high
<1> DEFINE q == (2 * a + b) \div (2 * b)
<1>1. q \in Int /\ 2 * b * q <= 2 * a + b /\ 2 * a + b < 2 * b * (q + 1)
  BY SMTT(30)
<1>2. q >= low
  <2> SUFFICES ASSUME q + 1 <= low PROVE FALSE
    BY <1>1
  <2>1. 2 * b * (q + 1) <= 2 * b * low
    BY <1>1, SMTT(30)
  <2> QED
    BY <1>1, <2>1, SMTT(30)
<1>3. q <= high
  <2> SUFFICES ASSUME high + 1 <= q PROVE FALSE
    BY <1>1
  <2>1. 2 * b * (high + 1) <= 2 * b * q
    BY <1>1, SMTT(30)
  <2> QED
    BY <1>1, <2>1, SMTT(30)
<1> QED
  BY <1>1, <1>2, <1>3 DEF Round

LEMMA RoundInOrder ==
  ASSUME NEW b \in Nat \ {0}, NEW a \in Nat, NEW c \in Nat, a <= c
  PROVE  Round(a, b) <= Round(c, b)
<1> DEFINE q == (2 * a + b) \div (2 * b)
           r == (2 * c + b) \div (2 * b)
<1>1. q \in Int /\ 2 * b * q <= 2 * a + b /\ 2 * a + b < 2 * b * (q + 1)
  BY SMTT(30)
<1>2. r \in Int /\ 2 * b * r <= 2 * c + b /\ 2 * c + b < 2 * b * (r + 1)
  BY SMTT(30)
<1>3. q <= r
  <2> HIDE DEF q, r
  <2> SUFFICES ASSUME r + 1 <= q PROVE FALSE
    BY <1>1, <1>2
  <2>1. 2 * b * (r + 1) <= 2 * b * q
    BY <1>1, <1>2, SMTT(30)
  <2> QED
    BY <1>1, <1>2, <2>1, SMTT(30)
<1> QED
  BY <1>3 DEF Round

Points(pts, N) ==
  /\ N \in Nat \ {0} /\ DOMAIN pts = 1 .. N /\ Len(pts) = N
  /\ \A i \in 1 .. N : pts[i].pr \in PR /\ pts[i].secs \in Nat
  /\ \A i, j \in 1 .. N : i <= j => pts[i].secs <= pts[j].secs

\* The middles of the points of a curve follow each other.
LEMMA RanksRise ==
  ASSUME NEW pts, NEW N, Points(pts, N)
  PROVE  /\ Weight(pts) \in Nat \ {0}
         /\ \A i \in 1 .. N : MidRank(pts, i) \in Nat
         /\ \A i \in 2 .. N : MidRank(pts, i - 1) < MidRank(pts, i)
<1>1. WeightsOf(pts) \in [1 .. N -> Nat \ {0}]
  BY CalibrationAssumption DEF WeightsOf, Points
<1> DEFINE w == WeightsOf(pts)
           sum == PartialSums(w)
<1> HIDE DEF w
<1>2. /\ sum \in [0 .. N -> Nat] /\ sum[0] = 0
      /\ \A i \in 1 .. N : sum[i] = sum[i - 1] + w[i]
  BY <1>1, SumsAddUp DEF Points, w
<1> HIDE DEF sum
<1>3. \A i \in 1 .. N : MidRank(pts, i) = 2 * sum[i - 1] + w[i] /\ w[i] \in Nat \ {0}
  BY <1>1 DEF MidRank, sum, w, WeightsOf, Points
<1>4. Weight(pts) = sum[N] /\ N \in 1 .. N /\ N - 1 \in 0 .. N
  BY DEF Weight, sum, w, Points
<1>5. Weight(pts) \in Nat \ {0}
  BY <1>2, <1>3, <1>4
<1>6. \A i \in 1 .. N : MidRank(pts, i) \in Nat
  <2> SUFFICES ASSUME NEW i \in 1 .. N PROVE MidRank(pts, i) \in Nat
    OBVIOUS
  <2>1. i - 1 \in 0 .. N
    BY DEF Points
  <2>2. sum[i - 1] \in Nat
    BY <1>2, <2>1
  <2> QED
    BY <1>3, <2>2
<1>7. ASSUME NEW i \in 2 .. N PROVE MidRank(pts, i - 1) < MidRank(pts, i)
  <2>1. i \in 1 .. N /\ i - 1 \in 1 .. N /\ i - 2 \in 0 .. N /\ i - 1 \in 0 .. N
        /\ (i - 1) - 1 = i - 2
    BY DEF Points
  <2>2. sum[i - 1] = sum[i - 2] + w[i - 1]
    BY <1>2, <2>1
  <2>3. sum[i - 2] \in Nat /\ sum[i - 1] \in Nat
    BY <1>2, <2>1
  <2> QED
    BY <1>3, <2>1, <2>2, <2>3
<1> QED
  BY <1>5, <1>6, <1>7

Reached(pts, quarter) == {i \in DOMAIN pts : 2 * MidRank(pts, i) >= quarter * Weight(pts)}

\* The first point whose middle is reached.
LEMMA FirstReached ==
  ASSUME NEW pts, NEW N, Points(pts, N), NEW q \in Nat, Reached(pts, q) # {}
  PROVE  /\ Min(Reached(pts, q)) \in Reached(pts, q)
         /\ Min(Reached(pts, q)) \in 1 .. N
         /\ \A i \in Reached(pts, q) : Min(Reached(pts, q)) <= i
<1>1. Reached(pts, q) \in SUBSET Nat /\ Reached(pts, q) \subseteq 1 .. N
  BY DEF Reached, Points
<1>2. PICK m \in Reached(pts, q) : \A n \in Reached(pts, q) : m <= n
  BY <1>1, LeastNatural
<1> QED
  BY <1>1, <1>2 DEF Min

\* What is interpolated between two points.
Interpolated(pts, i, target) ==
  (2 * MidRank(pts, i) - 2 * MidRank(pts, i - 1)) * pts[i - 1].secs
    + (target - 2 * MidRank(pts, i - 1)) * (pts[i].secs - pts[i - 1].secs)
SpanBefore(pts, i) == 2 * MidRank(pts, i) - 2 * MidRank(pts, i - 1)

LEMMA QuantileIs ==
  ASSUME NEW pts, NEW N, Points(pts, N), NEW q \in Nat
  PROVE  Quantile(pts, q) =
           IF Reached(pts, q) = {} THEN pts[N].secs
           ELSE IF Min(Reached(pts, q)) = 1 THEN pts[1].secs
           ELSE Round(Interpolated(pts, Min(Reached(pts, q)), q * Weight(pts)),
                      SpanBefore(pts, Min(Reached(pts, q))))
BY DEF Quantile, Reached, Interpolated, SpanBefore, Points

LEMMA ProductGrows ==
  ASSUME NEW a \in Nat, NEW b \in Nat, NEW c \in Nat, a <= b
  PROVE  a * c \in Nat /\ b * c \in Nat /\ a * c <= b * c
OBVIOUS

\* Between the middles of two points the quantile is between their lengths, and the
\* further on the longer.
LEMMA InterpolatedBetween ==
  ASSUME NEW pts, NEW N, Points(pts, N), NEW i \in 2 .. N,
         NEW t \in Nat, 2 * MidRank(pts, i - 1) <= t, t <= 2 * MidRank(pts, i)
  PROVE  /\ SpanBefore(pts, i) \in Nat \ {0}
         /\ Interpolated(pts, i, t) \in Nat
         /\ pts[i - 1].secs * SpanBefore(pts, i) <= Interpolated(pts, i, t)
         /\ Interpolated(pts, i, t) <= pts[i].secs * SpanBefore(pts, i)
         /\ \A u \in Nat : t <= u /\ u <= 2 * MidRank(pts, i) =>
              Interpolated(pts, i, t) <= Interpolated(pts, i, u)
<1>1. i \in 1 .. N /\ i - 1 \in 1 .. N
  BY DEF Points
<1>2. PICK a \in Nat, b \in Nat : a = 2 * MidRank(pts, i - 1) /\ b = 2 * MidRank(pts, i) /\ a < b
  <2>1. MidRank(pts, i - 1) \in Nat /\ MidRank(pts, i) \in Nat
        /\ MidRank(pts, i - 1) < MidRank(pts, i)
    BY <1>1, RanksRise
  <2> QED
    BY <2>1
<1>3. PICK x \in Nat, y \in Nat : x = pts[i - 1].secs /\ y = pts[i].secs /\ x <= y
  <2>1. i - 1 <= i
    OBVIOUS
  <2> QED
    BY <1>1, <2>1 DEF Points
<1>4. SpanBefore(pts, i) = b - a
      /\ \A u \in Nat : Interpolated(pts, i, u) = (b - a) * x + (u - a) * (y - x)
  BY <1>2, <1>3 DEF SpanBefore, Interpolated
<1>5. \A u, v \in Nat : a <= u /\ u <= v => (u - a) * (y - x) <= (v - a) * (y - x)
                                          /\ (u - a) * (y - x) \in Nat /\ (v - a) * (y - x) \in Nat
  <2> SUFFICES ASSUME NEW u \in Nat, NEW v \in Nat, a <= u, u <= v
               PROVE  (u - a) * (y - x) <= (v - a) * (y - x)
                      /\ (u - a) * (y - x) \in Nat /\ (v - a) * (y - x) \in Nat
    OBVIOUS
  <2>1. u - a \in Nat /\ v - a \in Nat /\ y - x \in Nat /\ u - a <= v - a
    BY <1>2, <1>3
  <2> QED
    BY <2>1, ProductGrows
<1>6. (b - a) * x \in Nat /\ b - a \in Nat \ {0}
  <2>1. b - a \in Nat \ {0}
    BY <1>2
  <2> QED
    BY <2>1, ProductGrows
<1>7. (b - a) * x + (b - a) * (y - x) = y * (b - a) /\ x * (b - a) = (b - a) * x
  BY SMTT(30)
<1>8. Interpolated(pts, i, t) \in Nat /\ (b - a) * x <= Interpolated(pts, i, t)
  <2>1. (t - a) * (y - x) \in Nat
    BY <1>2, <1>5
  <2>2. Interpolated(pts, i, t) = (b - a) * x + (t - a) * (y - x)
    BY <1>4
  <2> QED
    BY <1>6, <2>1, <2>2
<1>9. Interpolated(pts, i, t) <= y * (b - a)
  <2>1. (t - a) * (y - x) <= (b - a) * (y - x)
        /\ (t - a) * (y - x) \in Nat /\ (b - a) * (y - x) \in Nat
    BY <1>2, <1>5
  <2>2. Interpolated(pts, i, t) = (b - a) * x + (t - a) * (y - x)
    BY <1>4
  <2> QED
    BY <1>6, <1>7, <2>1, <2>2
<1>10. ASSUME NEW u \in Nat, t <= u
       PROVE  Interpolated(pts, i, t) <= Interpolated(pts, i, u)
  <2>1. (t - a) * (y - x) <= (u - a) * (y - x)
        /\ (t - a) * (y - x) \in Nat /\ (u - a) * (y - x) \in Nat
    BY <1>2, <1>5, <1>10
  <2>2. Interpolated(pts, i, t) = (b - a) * x + (t - a) * (y - x)
        /\ Interpolated(pts, i, u) = (b - a) * x + (u - a) * (y - x)
    BY <1>4
  <2> QED
    BY <1>6, <2>1, <2>2
<1> QED
  BY <1>2, <1>3, <1>4, <1>6, <1>7, <1>8, <1>9, <1>10

LEMMA QuantileAt ==
  ASSUME NEW pts, NEW N, Points(pts, N), NEW q \in Nat,
         NEW i, i = Min(Reached(pts, q)), Reached(pts, q) # {}, i # 1
  PROVE  /\ i \in 2 .. N
         /\ q * Weight(pts) \in Nat
         /\ 2 * MidRank(pts, i - 1) <= q * Weight(pts)
         /\ q * Weight(pts) <= 2 * MidRank(pts, i)
         /\ Quantile(pts, q) = Round(Interpolated(pts, i, q * Weight(pts)), SpanBefore(pts, i))
         /\ Quantile(pts, q) \in Nat
         /\ pts[i - 1].secs <= Quantile(pts, q)
         /\ Quantile(pts, q) <= pts[i].secs
<1>1. i \in Reached(pts, q) /\ i \in 1 .. N /\ \A j \in Reached(pts, q) : i <= j
  BY FirstReached
<1>2. i \in 2 .. N /\ i - 1 \in 1 .. N
  BY <1>1 DEF Points
<1>3. q * Weight(pts) \in Nat /\ MidRank(pts, i) \in Nat /\ MidRank(pts, i - 1) \in Nat
  BY <1>1, <1>2, RanksRise, ProductGrows
<1>4. q * Weight(pts) <= 2 * MidRank(pts, i)
  BY <1>1, <1>3 DEF Reached
<1>5. i - 1 \notin Reached(pts, q)
  BY <1>1
<1>6. 2 * MidRank(pts, i - 1) <= q * Weight(pts)
  BY <1>2, <1>3, <1>5 DEF Reached, Points
<1>7. Quantile(pts, q) = Round(Interpolated(pts, i, q * Weight(pts)), SpanBefore(pts, i))
  BY QuantileIs
<1>8. /\ SpanBefore(pts, i) \in Nat \ {0}
      /\ Interpolated(pts, i, q * Weight(pts)) \in Nat
      /\ pts[i - 1].secs * SpanBefore(pts, i) <= Interpolated(pts, i, q * Weight(pts))
      /\ Interpolated(pts, i, q * Weight(pts)) <= pts[i].secs * SpanBefore(pts, i)
  BY <1>2, <1>3, <1>4, <1>6, InterpolatedBetween
<1>9. PICK b \in Nat \ {0}, a \in Nat, low \in Nat, high \in Nat :
        /\ b = SpanBefore(pts, i) /\ a = Interpolated(pts, i, q * Weight(pts))
        /\ low = pts[i - 1].secs /\ high = pts[i].secs
  BY <1>1, <1>2, <1>8 DEF Points
<1>10. Round(a, b) \in Nat /\ low <= Round(a, b) /\ Round(a, b) <= high
  BY <1>8, <1>9, RoundBetween
<1> QED
  BY <1>2, <1>3, <1>4, <1>6, <1>7, <1>9, <1>10

\* A quantile is between the shortest and the longest.
LEMMA QuantileWithin ==
  ASSUME NEW pts, NEW N, Points(pts, N), NEW q \in Nat
  PROVE  Quantile(pts, q) \in Nat /\ pts[1].secs <= Quantile(pts, q)
         /\ Quantile(pts, q) <= pts[N].secs
<1>1. 1 \in 1 .. N /\ N \in 1 .. N /\ pts[1].secs \in Nat /\ pts[N].secs \in Nat
      /\ pts[1].secs <= pts[N].secs
  BY DEF Points
<1>2. CASE Reached(pts, q) = {}
  BY <1>1, <1>2, QuantileIs
<1>3. CASE Reached(pts, q) # {} /\ Min(Reached(pts, q)) = 1
  BY <1>1, <1>3, QuantileIs
<1>4. CASE Reached(pts, q) # {} /\ Min(Reached(pts, q)) # 1
  <2>1. PICK i \in 2 .. N : i = Min(Reached(pts, q))
    BY <1>4, QuantileAt
  <2>2. Quantile(pts, q) \in Nat /\ pts[i - 1].secs <= Quantile(pts, q)
        /\ Quantile(pts, q) <= pts[i].secs
    BY <1>4, <2>1, QuantileAt
  <2>3. i \in 1 .. N /\ i - 1 \in 1 .. N /\ 1 <= i - 1 /\ i <= N
    BY DEF Points
  <2>4. pts[1].secs <= pts[i - 1].secs /\ pts[i].secs <= pts[N].secs
        /\ pts[i - 1].secs \in Nat /\ pts[i].secs \in Nat
    BY <1>1, <2>3 DEF Points
  <2> QED
    BY <1>1, <2>2, <2>4
<1> QED
  BY <1>2, <1>3, <1>4

\* A later quantile is not shorter.
LEMMA QuantilesInOrder ==
  ASSUME NEW pts, NEW N, Points(pts, N), NEW q \in Nat, NEW r \in Nat, q <= r
  PROVE  Quantile(pts, q) <= Quantile(pts, r)
<1>1. q * Weight(pts) \in Nat /\ r * Weight(pts) \in Nat /\ q * Weight(pts) <= r * Weight(pts)
  BY RanksRise, ProductGrows
<1>2. Reached(pts, r) \subseteq Reached(pts, q)
  <2> SUFFICES ASSUME NEW i \in Reached(pts, r) PROVE i \in Reached(pts, q)
    OBVIOUS
  <2>1. i \in DOMAIN pts /\ 2 * MidRank(pts, i) >= r * Weight(pts) /\ i \in 1 .. N
    BY DEF Reached, Points
  <2>2. MidRank(pts, i) \in Nat
    BY <2>1, RanksRise
  <2> QED
    BY <1>1, <2>1, <2>2 DEF Reached
<1>3. CASE Reached(pts, r) = {}
  BY <1>3, QuantileWithin, QuantileIs
<1>4. CASE Reached(pts, q) # {} /\ Min(Reached(pts, q)) = 1
  BY <1>4, QuantileWithin, QuantileIs
<1>5. CASE Reached(pts, r) # {} /\ Reached(pts, q) # {} /\ Min(Reached(pts, q)) # 1
  <2>1. PICK i \in 2 .. N : i = Min(Reached(pts, q))
    BY <1>5, QuantileAt
  <2>2. PICK j \in 1 .. N : j = Min(Reached(pts, r)) /\ j \in Reached(pts, r)
    BY <1>5, FirstReached
  <2>3. i <= j /\ j # 1
    BY <1>2, <1>5, <2>1, <2>2, FirstReached
  <2>4. Quantile(pts, q) \in Nat /\ Quantile(pts, r) \in Nat
    BY QuantileWithin
  <2>5. CASE i = j
    <3>1. /\ SpanBefore(pts, i) \in Nat \ {0}
          /\ Interpolated(pts, i, q * Weight(pts)) \in Nat
          /\ Interpolated(pts, i, r * Weight(pts)) \in Nat
          /\ Interpolated(pts, i, q * Weight(pts)) <= Interpolated(pts, i, r * Weight(pts))
      <4>1. /\ 2 * MidRank(pts, i - 1) <= q * Weight(pts)
            /\ q * Weight(pts) <= 2 * MidRank(pts, i)
        BY <1>5, <2>1, QuantileAt
      <4>2. /\ 2 * MidRank(pts, i - 1) <= r * Weight(pts)
            /\ r * Weight(pts) <= 2 * MidRank(pts, i)
        BY <1>5, <2>2, <2>3, <2>5, QuantileAt
      <4> QED
        BY <1>1, <4>1, <4>2, InterpolatedBetween
    <3>2. Quantile(pts, q) = Round(Interpolated(pts, i, q * Weight(pts)), SpanBefore(pts, i))
      BY <1>5, <2>1, QuantileAt
    <3>3. Quantile(pts, r) = Round(Interpolated(pts, i, r * Weight(pts)), SpanBefore(pts, i))
      BY <1>5, <2>2, <2>3, <2>5, QuantileAt
    <3> QED
      BY <3>1, <3>2, <3>3, RoundInOrder
  <2>6. CASE i # j
    <3>1. i \in 1 .. N /\ j - 1 \in 1 .. N /\ i <= j - 1
      BY <2>1, <2>2, <2>3, <2>6 DEF Points
    <3>2. Quantile(pts, q) <= pts[i].secs
      BY <1>5, <2>1, QuantileAt
    <3>3. pts[j - 1].secs <= Quantile(pts, r)
      BY <1>5, <2>2, <2>3, QuantileAt
    <3>4. pts[i].secs <= pts[j - 1].secs /\ pts[i].secs \in Nat /\ pts[j - 1].secs \in Nat
      BY <3>1 DEF Points
    <3> QED
      BY <2>4, <3>2, <3>3, <3>4
  <2> QED
    BY <2>5, <2>6
<1> QED
  BY <1>2, <1>3, <1>4, <1>5

\* The mean is between the shortest and the longest.
LEMMA MeanWithin ==
  ASSUME NEW pts, NEW N, Points(pts, N)
  PROVE  /\ Round(WeightedSum(pts), Weight(pts)) \in Nat
         /\ pts[1].secs <= Round(WeightedSum(pts), Weight(pts))
         /\ Round(WeightedSum(pts), Weight(pts)) <= pts[N].secs
<1> DEFINE w == WeightsOf(pts)
           v == [i \in DOMAIN pts |-> RecencyWeight[pts[i].pr] * pts[i].secs]
           sum == PartialSums(w)
           all == PartialSums(v)
<1>1. w \in [1 .. N -> Nat \ {0}] /\ v \in [1 .. N -> Nat]
      /\ \A i \in 1 .. N : v[i] = w[i] * pts[i].secs
  <2>1. \A i \in 1 .. N : RecencyWeight[pts[i].pr] \in Nat \ {0} /\ pts[i].secs \in Nat
    BY CalibrationAssumption DEF Points
  <2>2. \A i \in 1 .. N : RecencyWeight[pts[i].pr] * pts[i].secs \in Nat
    BY <2>1, ProductGrows
  <2> QED
    BY <2>1, <2>2 DEF WeightsOf, Points
<1>2. Weight(pts) = sum[N] /\ WeightedSum(pts) = all[N]
  BY DEF Weight, WeightedSum, Points
<1> HIDE DEF w, v
<1>3. /\ sum \in [0 .. N -> Nat] /\ sum[0] = 0
      /\ \A i \in 1 .. N : sum[i] = sum[i - 1] + w[i]
  BY <1>1, SumsAddUp DEF Points
<1>4. /\ all \in [0 .. N -> Nat] /\ all[0] = 0
      /\ \A i \in 1 .. N : all[i] = all[i - 1] + v[i]
  BY <1>1, SumsAddUp DEF Points
<1> HIDE DEF sum, all
<1>5. PICK low \in Nat, high \in Nat : low = pts[1].secs /\ high = pts[N].secs
  BY DEF Points
<1>6. \A i \in 1 .. N : low <= pts[i].secs /\ pts[i].secs <= high /\ pts[i].secs \in Nat
  BY <1>5 DEF Points
<1> DEFINE Fits(i) == low * sum[i] <= all[i] /\ all[i] <= high * sum[i]
           Off == {i \in 0 .. N : ~Fits(i)}
<1>7. Off = {}
  <2> SUFFICES ASSUME Off # {} PROVE FALSE
    OBVIOUS
  <2>1. PICK k \in Off : \A n \in Off : k <= n
    BY LeastNatural, Off \in SUBSET Nat
  <2>2. k # 0
    BY <1>3, <1>4, <2>1
  <2>3. k \in 1 .. N /\ k - 1 \in 0 .. N
    BY <2>1, <2>2 DEF Points
  <2>4. k - 1 \notin Off
    <3> HIDE DEF Off
    <3> QED
      BY <2>1, <2>3
  <2>5. PICK s \in Nat, a \in Nat, x \in Nat, y \in Nat :
          s = sum[k - 1] /\ a = all[k - 1] /\ x = w[k] /\ y = pts[k].secs
    BY <1>1, <1>3, <1>4, <1>6, <2>3
  <2>6. low * s <= a /\ a <= high * s
    BY <2>3, <2>4, <2>5
  <2>7. sum[k] = s + x /\ all[k] = a + x * y
    BY <1>1, <1>3, <1>4, <2>3, <2>5
  <2>8. low * x <= y * x /\ y * x <= high * x /\ y * x = x * y
    <3>1. low <= y /\ y <= high
      BY <1>6, <2>3, <2>5
    <3> QED
      BY <3>1, ProductGrows, SMTT(30)
  <2>9. low * (s + x) = low * s + low * x /\ high * (s + x) = high * s + high * x
    BY SMTT(30)
  <2>10. Fits(k)
    <3>1. low * s \in Nat /\ high * s \in Nat /\ low * x \in Nat /\ high * x \in Nat /\ x * y \in Nat
      BY ProductGrows
    <3> QED
      BY <2>6, <2>7, <2>8, <2>9, <3>1
  <2> QED
    BY <2>1, <2>10
<1>8. Fits(N)
  <2>1. N \in 0 .. N
    BY DEF Points
  <2> HIDE DEF Fits
  <2> QED
    BY <1>7, <2>1
<1>9. PICK b \in Nat \ {0}, a \in Nat : b = Weight(pts) /\ a = WeightedSum(pts)
  <2>1. N \in 0 .. N
    BY DEF Points
  <2> QED
    BY <1>2, <1>4, <2>1, RanksRise
<1>10. low * b <= a /\ a <= high * b
  BY <1>2, <1>8, <1>9
<1> QED
  BY <1>5, <1>9, <1>10, RoundBetween

\* A finite set of numbers that is not empty has a greatest one.
LEMMA FiniteHasMax ==
  ASSUME NEW S \in SUBSET Nat, IsFiniteSet(S), S # {}
  PROVE  Max(S) \in S /\ \A x \in S : x <= Max(S)
<1> DEFINE Topped(T) == \E m \in T : \A x \in T : x <= m
           Bad == {n \in Nat : \E T \in SUBSET S : Cardinality(T) = n /\ T # {} /\ ~Topped(T)}
<1>1. Bad = {}
  <2> SUFFICES ASSUME Bad # {} PROVE FALSE
    OBVIOUS
  <2>1. PICK n \in Bad : \A k \in Bad : n <= k
    BY LeastNatural, Bad \in SUBSET Nat
  <2>2. PICK T \in SUBSET S : Cardinality(T) = n /\ T # {} /\ ~Topped(T)
    BY <2>1
  <2>3. PICK x \in T : TRUE
    BY <2>2
  <2>4. IsFiniteSet(T) /\ IsFiniteSet(T \ {x}) /\ Cardinality(T \ {x}) = n - 1
        /\ n \in Nat /\ n - 1 \in Nat
    <3>1. IsFiniteSet(T)
      BY FS_Subset
    <3>2. IsFiniteSet(T \ {x}) /\ Cardinality(T \ {x}) = Cardinality(T) - 1
      BY <2>3, <3>1, FS_RemoveElement
    <3>3. Cardinality(T) \in Nat /\ Cardinality(T \ {x}) \in Nat
      BY <3>1, <3>2, FS_CardinalityType
    <3> HIDE DEF Bad
    <3> QED
      BY <2>2, <3>1, <3>2, <3>3
  <2>5. n - 1 \notin Bad
    <3> HIDE DEF Bad
    <3> QED
      BY <2>1, <2>4
  <2>6. T \ {x} = {} \/ Topped(T \ {x})
    BY <2>4, <2>5
  <2>7. x \in Nat /\ T \subseteq Nat
    BY <2>3
  <2>8. Topped(T)
    <3>1. CASE T \ {x} = {}
      BY <2>3, <2>7, <3>1
    <3>2. CASE Topped(T \ {x})
      <4>1. PICK m \in T \ {x} : \A y \in T \ {x} : y <= m
        BY <3>2
      <4>2. CASE m <= x
        <5>1. \A y \in T : y <= x
          BY <2>7, <4>1, <4>2
        <5> QED
          BY <5>1
      <4>3. CASE x <= m
        <5>1. \A y \in T : y <= m
          BY <2>7, <4>1, <4>3
        <5> QED
          BY <4>1, <5>1
      <4> QED
        BY <2>7, <4>1, <4>2, <4>3
    <3> QED
      BY <2>6, <3>1, <3>2
  <2> QED
    BY <2>2, <2>8
<1>2. Topped(S)
  <2>1. Cardinality(S) \in Nat
    BY FS_CardinalityType
  <2> HIDE DEF Topped
  <2> QED
    BY <1>1, <2>1
<1> QED
  BY <1>2 DEF Max

\* The lead times that count: of the pull requests that took some.
Timed == {p \in PR : merged[p] > 0}

LEMMA LeadTimesFinite ==
  ASSUME merged \in [PR -> Secs \cup {Null}]
  PROVE  /\ Timed \subseteq PR /\ IsFiniteSet(Timed)
         /\ LeadTimes \in SUBSET Nat /\ IsFiniteSet(LeadTimes)
<1>1. Timed \subseteq PR /\ IsFiniteSet(Timed)
  BY CalibrationAssumption, FS_Subset DEF Timed
<1>2. LeadTimes \in SUBSET Nat
  BY CalibrationAssumption DEF LeadTimes, Secs, Null
<1>3. [p \in Timed |-> merged[p]] \in Surjection(Timed, LeadTimes)
  BY DEF Surjection, LeadTimes, Timed
<1> QED
  BY <1>1, <1>2, <1>3, FS_Surjection

\* A value lies among the lead times.
Among(v) == \E low, high \in LeadTimes : low <= v /\ v <= high

\* What a curve says, where there is one.
CurveHolds(cell) ==
  cell # NoCell =>
    /\ cell.n <= Cardinality(Timed)
    /\ cell.p25 <= cell.median /\ cell.median <= cell.p75
    /\ \A v \in {cell.p25, cell.p75, cell.mean} : Among(v)

\* Samples are of merged pull requests, at their lead times, and one of each.
SamplesHold(samples) ==
  /\ samples \subseteq Sample
  /\ \A s \in samples : s.secs = merged[s.pr]
  /\ \A s, t \in samples : s.pr = t.pr => s = t

LEMMA CurveOfSamples ==
  ASSUME NEW samples, SamplesHold(samples), merged \in [PR -> Secs \cup {Null}],
         NEW c, NEW group, group = Group(samples, c), group # {}
  PROVE  /\ WeightedQuantiles(InOrder(group)) \in Cell
         /\ CurveHolds(WeightedQuantiles(InOrder(group)))
<1>1. /\ group \subseteq Sample
      /\ \A s \in group : s.pr \in Timed /\ s.secs = merged[s.pr] /\ s.secs \in LeadTimes
      /\ \A s, t \in group : s.pr = t.pr => s = t
  BY DEF Group, SamplesHold, Sample, Timed, LeadTimes
<1>2. /\ IsFiniteSet(group) /\ Cardinality(group) <= Cardinality(Timed)
      /\ Cardinality(group) \in Nat \ {0} /\ Cardinality(Timed) \in Nat
  <2>1. [s \in group |-> s.pr] \in Injection(group, Timed)
    BY <1>1 DEF Injection, IsInjective
  <2>2. IsFiniteSet(Timed) /\ IsFiniteSet(group) /\ Cardinality(group) <= Cardinality(Timed)
    BY <2>1, LeadTimesFinite, FS_Injection
  <2> QED
    BY <2>2, FS_CardinalityType, FS_EmptySet
<1>3. \A s \in group : s.pr \in PR /\ s.secs \in Nat
  BY <1>1, LeadTimesFinite
<1> DEFINE pts == InOrder(group)
           N == Cardinality(group)
<1>4. Sorted(group, pts)
  BY <1>2, <1>3, OrderExists
<1> HIDE DEF pts
<1>5. pts \in [1 .. N -> group] /\ \A i, j \in 1 .. N : i < j => pts[i].secs <= pts[j].secs
  BY <1>4 DEF Sorted
<1>6. Points(pts, N)
  <2>1. Len(pts) = N
    BY <1>2, <1>5
  <2>2. \A i, j \in 1 .. N : i <= j => pts[i].secs <= pts[j].secs
    <3> SUFFICES ASSUME NEW i \in 1 .. N, NEW j \in 1 .. N, i <= j
                 PROVE  pts[i].secs <= pts[j].secs
      OBVIOUS
    <3>1. CASE i = j
      BY <1>3, <1>5, <3>1
    <3>2. CASE i < j
      BY <1>5, <3>2
    <3> QED
      BY <1>2, <3>1, <3>2
  <2> QED
    BY <1>2, <1>3, <1>5, <2>1, <2>2 DEF Points
<1>7. pts[1].secs \in LeadTimes /\ pts[N].secs \in LeadTimes
  BY <1>1, <1>2, <1>5
<1> DEFINE cell == WeightedQuantiles(pts)
<1>8. /\ cell.n = N /\ cell.p25 = Quantile(pts, 1) /\ cell.median = Quantile(pts, 2)
      /\ cell.p75 = Quantile(pts, 3) /\ cell.mean = Round(WeightedSum(pts), Weight(pts))
  BY <1>6 DEF WeightedQuantiles, Points
<1>9. /\ cell.p25 \in Nat /\ cell.median \in Nat /\ cell.p75 \in Nat /\ cell.mean \in Nat
      /\ cell.p25 <= cell.median /\ cell.median <= cell.p75
      /\ \A v \in {cell.p25, cell.p75, cell.mean} : pts[1].secs <= v /\ v <= pts[N].secs
  <2> HIDE DEF cell
  <2> QED
    BY <1>6, <1>8, QuantileWithin, QuantilesInOrder, MeanWithin
<1>10. cell \in Cell
  BY <1>2, <1>8, <1>9 DEF Cell, WeightedQuantiles
<1> HIDE DEF cell
<1>11. CurveHolds(cell)
  <2>1. \A v \in {cell.p25, cell.p75, cell.mean} : Among(v)
    BY <1>7, <1>9 DEF Among
  <2> QED
    BY <1>2, <1>8, <1>9, <2>1 DEF CurveHolds
<1> QED
  BY <1>10, <1>11 DEF cell, pts

\* The rows of estimates: numbered apart, at the lead time if at any.
RowsHold(rows) ==
  /\ rows \in [PR -> SUBSET Row]
  /\ \A p \in PR :
       /\ IsFiniteSet(rows[p]) /\ Cardinality(rows[p]) <= MaxEstimates[p]
       /\ \A e, f \in rows[p] : e.row = f.row => e = f
       /\ \A e \in rows[p] : e.actual # Null => e.actual = merged[p]

FillsHold(fills) == fills \subseteq Fill /\ \A f \in fills : f.secs = merged[f.pr]
CycleHolds == \A p \in PR : cycle[p] # Null => cycle[p] = merged[p]
ReadsHold ==
  \A r \in MetricsRun : recompute[r].step = "read" =>
    FillsHold(recompute[r].fills) /\ SamplesHold(recompute[r].samples)
CellsHold == \A c \in Cohort : CurveHolds(cells[c])

CalibrationInv ==
  CalibrationTypeOK /\ RowsHold(estimates) /\ CycleHolds /\ ReadsHold /\ CellsHold

LEMMA CalibrationInitially == CalibrationInit => CalibrationInv
<1> SUFFICES ASSUME CalibrationInit PROVE CalibrationInv
  OBVIOUS
<1>1. CalibrationTypeOK
  BY CalibrationAssumption, FS_EmptySet DEF CalibrationInit, CalibrationTypeOK
<1>2. RowsHold(estimates)
  BY CalibrationAssumption, FS_EmptySet DEF CalibrationInit, RowsHold
<1>3. CycleHolds /\ ReadsHold /\ CellsHold
  BY DEF CalibrationInit, CycleHolds, ReadsHold, CellsHold, CurveHolds
<1> QED
  BY <1>1, <1>2, <1>3 DEF CalibrationInv

\* A row that is filled in keeps its number.
LEMMA FilledRowIs ==
  ASSUME NEW p \in PR, NEW e \in Row, NEW fills, FillsHold(fills),
         e.actual # Null => e.actual = merged[p]
  PROVE  /\ FilledRow(p, e, fills) \in Row
         /\ FilledRow(p, e, fills).row = e.row
         /\ FilledRow(p, e, fills).actual # Null => FilledRow(p, e, fills).actual = merged[p]
<1> DEFINE now == {f \in fills : f.pr = p /\ f.row = e.row}
<1>1. CASE now = {}
  <2>1. FilledRow(p, e, fills) = e
    BY <1>1 DEF FilledRow
  <2> QED
    BY <2>1
<1>2. CASE now # {}
  <2>1. PICK f \in now : f = CHOOSE g \in now : TRUE
    BY <1>2
  <2>2. FilledRow(p, e, fills) = [e EXCEPT !.actual = f.secs]
    BY <1>2, <2>1 DEF FilledRow
  <2>3. f.secs \in Secs /\ f.secs = merged[p]
    BY <2>1 DEF FillsHold, Fill
  <2> QED
    BY <2>2, <2>3 DEF Row
<1> QED
  BY <1>1, <1>2

LEMMA FilledHolds ==
  ASSUME RowsHold(estimates), NEW fills, FillsHold(fills)
  PROVE  RowsHold(Filled(fills))
<1>1. \A p \in PR : /\ estimates[p] \subseteq Row /\ IsFiniteSet(estimates[p])
                    /\ Cardinality(estimates[p]) <= MaxEstimates[p]
                    /\ \A e, f \in estimates[p] : e.row = f.row => e = f
                    /\ \A e \in estimates[p] : e.actual # Null => e.actual = merged[p]
  BY DEF RowsHold
<1> SUFFICES ASSUME NEW p \in PR
             PROVE  /\ Filled(fills)[p] \subseteq Row /\ IsFiniteSet(Filled(fills)[p])
                    /\ Cardinality(Filled(fills)[p]) <= MaxEstimates[p]
                    /\ \A e, f \in Filled(fills)[p] : e.row = f.row => e = f
                    /\ \A e \in Filled(fills)[p] : e.actual # Null => e.actual = merged[p]
  BY DEF RowsHold, Filled
<1> DEFINE now == {FilledRow(p, e, fills) : e \in estimates[p]}
<1>2. Filled(fills)[p] = now
  BY DEF Filled
<1>3. \A e \in estimates[p] :
        /\ FilledRow(p, e, fills) \in Row
        /\ FilledRow(p, e, fills).row = e.row
        /\ FilledRow(p, e, fills).actual # Null => FilledRow(p, e, fills).actual = merged[p]
  BY <1>1, FilledRowIs
<1>4. [e \in estimates[p] |-> FilledRow(p, e, fills)] \in Surjection(estimates[p], now)
  BY DEF Surjection
<1>5. IsFiniteSet(now) /\ Cardinality(now) <= Cardinality(estimates[p])
      /\ Cardinality(now) \in Nat /\ Cardinality(estimates[p]) \in Nat
  <2>1. IsFiniteSet(now) /\ Cardinality(now) <= Cardinality(estimates[p])
    BY <1>1, <1>4, FS_Surjection
  <2> QED
    BY <1>1, <2>1, FS_CardinalityType
<1>6. Cardinality(now) <= MaxEstimates[p]
  BY <1>1, <1>5, CalibrationAssumption
<1>7. \A e, f \in now : e.row = f.row => e = f
  BY <1>1, <1>3
<1>8. now \subseteq Row /\ \A e \in now : e.actual # Null => e.actual = merged[p]
  BY <1>3
<1> QED
  BY <1>2, <1>5, <1>6, <1>7, <1>8

LEMMA BackfillHolds ==
  ASSUME CalibrationTypeOK, CycleHolds
  PROVE  FillsHold(Backfill)
<1> SUFFICES ASSUME NEW f \in Backfill PROVE f \in Fill /\ f.secs = merged[f.pr]
  BY DEF FillsHold
<1>1. PICK p \in PR : \E e \in estimates[p] :
        f = [pr |-> p, row |-> e.row, secs |-> cycle[p]] /\ cycle[p] # Null
  BY DEF Backfill
<1>2. PICK e \in estimates[p] :
        f = [pr |-> p, row |-> e.row, secs |-> cycle[p]] /\ cycle[p] # Null
  BY <1>1
<1> QED
  BY <1>2 DEF CalibrationTypeOK, CycleHolds, Row, Fill

LEMMA SamplesOfRows ==
  ASSUME NEW rows, RowsHold(rows)
  PROVE  SamplesHold(Samples(rows))
<1>1. ASSUME NEW s \in Samples(rows)
      PROVE  /\ s \in Sample /\ s.secs = merged[s.pr]
             /\ \E e \in Latest(rows, s.pr) :
                  s = [pr |-> s.pr, row |-> e.row, cohort |-> e.cohort, secs |-> e.actual]
  <2>1. PICK p \in PR : \E e \in Latest(rows, p) :
          s = [pr |-> p, row |-> e.row, cohort |-> e.cohort, secs |-> e.actual]
    BY DEF Samples
  <2>2. PICK e \in Latest(rows, p) :
          s = [pr |-> p, row |-> e.row, cohort |-> e.cohort, secs |-> e.actual]
    BY <2>1
  <2>3. e \in rows[p] /\ e \in Row /\ e.actual # Null /\ e.actual = merged[p]
    BY DEF Latest, Known, RowsHold
  <2> QED
    BY <2>2, <2>3 DEF Row, Sample
<1>2. ASSUME NEW s \in Samples(rows), NEW t \in Samples(rows), s.pr = t.pr PROVE s = t
  <2>1. PICK e \in Latest(rows, s.pr), f \in Latest(rows, s.pr) :
          /\ s = [pr |-> s.pr, row |-> e.row, cohort |-> e.cohort, secs |-> e.actual]
          /\ t = [pr |-> s.pr, row |-> f.row, cohort |-> f.cohort, secs |-> f.actual]
    BY <1>1, <1>2
  <2>2. s.pr \in PR
    BY <1>1 DEF Sample
  <2>3. /\ e \in rows[s.pr] /\ f \in rows[s.pr] /\ e.row <= f.row /\ f.row <= e.row
        /\ e.row \in Nat /\ f.row \in Nat
    BY <2>2 DEF Latest, Known, RowsHold, Row
  <2>4. e = f
    BY <2>2, <2>3 DEF RowsHold
  <2> QED
    BY <2>1, <2>4
<1> QED
  BY <1>1, <1>2 DEF SamplesHold

LEMMA NextRowIs ==
  ASSUME NEW rows \in SUBSET Row, IsFiniteSet(rows)
  PROVE  NextRow(rows) \in Nat \ {0} /\ \A e \in rows : e.row < NextRow(rows)
<1> DEFINE numbers == {e.row : e \in rows}
<1>1. CASE rows = {}
  BY <1>1 DEF NextRow
<1>2. CASE rows # {}
  <2>1. numbers \in SUBSET Nat /\ numbers # {} /\ \A x \in numbers : x \in Nat
    BY <1>2 DEF Row
  <2>2. [e \in rows |-> e.row] \in Surjection(rows, numbers)
    BY DEF Surjection
  <2>3. IsFiniteSet(numbers)
    BY <2>2, FS_Surjection
  <2>4. Max(numbers) \in numbers /\ \A x \in numbers : x <= Max(numbers)
    BY <2>1, <2>3, FiniteHasMax
  <2>5. NextRow(rows) = 1 + Max(numbers)
    BY <1>2 DEF NextRow
  <2>6. \A e \in rows : e.row \in numbers
    OBVIOUS
  <2>7. Max(numbers) \in Nat
    BY <2>1, <2>4
  <2>8. ASSUME NEW e \in rows PROVE e.row < 1 + Max(numbers)
    <3>1. e.row <= Max(numbers) /\ e.row \in Nat
      BY <2>1, <2>4, <2>6
    <3> QED
      BY <2>7, <3>1
  <2> QED
    BY <2>5, <2>7, <2>8
<1> QED
  BY <1>1, <1>2

\* One more row, with the next number.
LEMMA RowAdded ==
  ASSUME NEW p \in PR, NEW rows \in SUBSET Row, IsFiniteSet(rows),
         Cardinality(rows) < MaxEstimates[p],
         \A e, f \in rows : e.row = f.row => e = f,
         NEW added \in Row, added.row = NextRow(rows)
  PROVE  /\ rows \cup {added} \subseteq Row /\ IsFiniteSet(rows \cup {added})
         /\ Cardinality(rows \cup {added}) <= MaxEstimates[p]
         /\ \A e, f \in rows \cup {added} : e.row = f.row => e = f
<1>1. NextRow(rows) \in Nat \ {0} /\ \A e \in rows : e.row < NextRow(rows)
  BY NextRowIs
<1>2. added \in Row /\ added.row = NextRow(rows)
  OBVIOUS
<1>3. IsFiniteSet(rows \cup {added}) /\ Cardinality(rows \cup {added}) <= Cardinality(rows) + 1
      /\ Cardinality(rows) \in Nat
  <2>1. Cardinality(rows) \in Nat
    BY FS_CardinalityType
  <2>2. /\ IsFiniteSet(rows \cup {added})
        /\ Cardinality(rows \cup {added}) = Cardinality(rows)
             \/ Cardinality(rows \cup {added}) = Cardinality(rows) + 1
    BY FS_AddElement
  <2> QED
    BY <2>1, <2>2
<1>4. Cardinality(rows \cup {added}) \in Nat
  BY <1>3, FS_CardinalityType
<1>5. \A e \in rows : e.row \in Nat /\ e.row # added.row
  BY <1>1, <1>2 DEF Row
<1> QED
  BY <1>2, <1>3, <1>4, <1>5, CalibrationAssumption

LEMMA ReadsLast ==
  ASSUME ReadsHold, merged' = merged,
         \A r \in MetricsRun : recompute'[r] = recompute[r] \/ recompute'[r].step # "read"
  PROVE  ReadsHold'
BY DEF ReadsHold, FillsHold, SamplesHold

LEMMA RowsLast ==
  ASSUME RowsHold(estimates), merged' = merged, estimates' = estimates
  PROVE  RowsHold(estimates)'
BY DEF RowsHold

LEMMA CyclesLast ==
  ASSUME CycleHolds, merged' = merged, cycle' = cycle
  PROVE  CycleHolds'
BY DEF CycleHolds

\* A curve lasts while pull requests are merged.
LEMMA CurveLasts ==
  ASSUME Timed \subseteq Timed', LeadTimes \subseteq LeadTimes',
         NEW cell \in Cell \cup {NoCell}, CurveHolds(cell)
  PROVE  CurveHolds(cell)'
<1>1. Cardinality(Timed) <= Cardinality(Timed') /\ Cardinality(Timed) \in Nat
      /\ Cardinality(Timed') \in Nat
  <2>1. Timed' \subseteq PR
    BY DEF Timed
  <2>2. IsFiniteSet(Timed')
    BY <2>1, CalibrationAssumption, FS_Subset
  <2>3. IsFiniteSet(Timed) /\ Cardinality(Timed) <= Cardinality(Timed')
    BY <2>2, FS_Subset
  <2> QED
    BY <2>2, <2>3, FS_CardinalityType
<1>2. CASE cell = NoCell
  BY <1>2 DEF CurveHolds
<1>3. CASE cell # NoCell
  <2>1. cell.n \in Nat
    BY <1>3 DEF Cell
  <2>2. ASSUME NEW v, Among(v) PROVE Among(v)'
    BY <2>2 DEF Among
  <2>3. cell.n <= Cardinality(Timed) /\ cell.p25 <= cell.median /\ cell.median <= cell.p75
        /\ Among(cell.p25) /\ Among(cell.p75) /\ Among(cell.mean)
    BY <1>3 DEF CurveHolds
  <2>4. Among(cell.p25)' /\ Among(cell.p75)' /\ Among(cell.mean)'
    BY <2>2, <2>3
  <2>5. cell.n <= Cardinality(Timed')
    BY <1>1, <2>1, <2>3
  <2> QED
    BY <2>3, <2>4, <2>5 DEF CurveHolds
<1> QED
  BY <1>2, <1>3

LEMMA CellsLast ==
  ASSUME CalibrationTypeOK, CellsHold, cells' = cells,
         Timed \subseteq Timed', LeadTimes \subseteq LeadTimes'
  PROVE  CellsHold'
<1> SUFFICES ASSUME NEW c \in Cohort PROVE CurveHolds(cells[c])'
  BY DEF CellsHold
<1>1. PICK cell : cell = cells[c]
  OBVIOUS
<1>2. cell \in Cell \cup {NoCell} /\ CurveHolds(cell)
  BY <1>1 DEF CalibrationTypeOK, CellsHold
<1>3. CurveHolds(cell)'
  BY <1>2, CurveLasts
<1>4. cells'[c] = cell
  BY <1>1
<1> QED
  BY <1>3, <1>4 DEF CurveHolds, Among

LEMMA TimedLast ==
  ASSUME merged' = merged
  PROVE  Timed \subseteq Timed' /\ LeadTimes \subseteq LeadTimes'
BY DEF Timed, LeadTimes

LEMMA MergeStep ==
  ASSUME CalibrationInv, NEW p \in PR, NEW lead \in LeadTime[p], Merge(p, lead)
  PROVE  CalibrationInv'
<1>1. CalibrationTypeOK /\ RowsHold(estimates) /\ CycleHolds /\ ReadsHold /\ CellsHold
  BY DEF CalibrationInv
<1>2. /\ merged[p] = Null /\ merged' = [merged EXCEPT ![p] = lead]
      /\ UNCHANGED <<demo, cycle, estimates, cells, recompute, asking>>
  BY DEF Merge
<1>3. lead \in Secs /\ lead \in Nat
  BY CalibrationAssumption DEF Secs
<1>4. merged' \in [PR -> Secs \cup {Null}] /\ merged'[p] = lead
      /\ \A q \in PR \ {p} : merged'[q] = merged[q]
  BY <1>1, <1>2, <1>3 DEF CalibrationTypeOK
<1>5. \A s \in Secs : s # Null
  BY CalibrationAssumption DEF Secs, Null
<1>6. CalibrationTypeOK'
  BY <1>1, <1>2, <1>4 DEF CalibrationTypeOK
<1>7. RowsHold(estimates)'
  <2>1. ASSUME NEW q \in PR, NEW e \in estimates[q], e.actual # Null
        PROVE  e.actual = merged'[q]
    BY <1>1, <1>2, <1>4, <2>1 DEF RowsHold
  <2> QED
    BY <1>1, <1>2, <2>1 DEF RowsHold
<1>8. CycleHolds'
  BY <1>1, <1>2, <1>4 DEF CycleHolds
<1>9. ReadsHold'
  <2>1. ASSUME NEW r \in MetricsRun, recompute[r].step = "read"
        PROVE  /\ \A f \in recompute[r].fills : f.secs = merged'[f.pr]
               /\ \A s \in recompute[r].samples : s.secs = merged'[s.pr]
    <3>1. FillsHold(recompute[r].fills) /\ SamplesHold(recompute[r].samples)
      BY <1>1, <2>1 DEF ReadsHold
    <3>2. \A f \in recompute[r].fills : f.pr \in PR /\ f.secs \in Secs /\ f.secs = merged[f.pr]
      BY <3>1 DEF FillsHold, Fill
    <3>3. \A s \in recompute[r].samples : s.pr \in PR /\ s.secs \in Secs /\ s.secs = merged[s.pr]
      BY <3>1 DEF SamplesHold, Sample
    <3> QED
      BY <1>2, <1>4, <1>5, <3>2, <3>3
  <2> QED
    BY <1>1, <1>2, <2>1 DEF ReadsHold, FillsHold, SamplesHold
<1>10. CellsHold'
  <2>1. \A q \in PR : merged[q] > 0 => merged'[q] = merged[q]
    BY <1>2, <1>4 DEF Null
  <2>2. Timed \subseteq Timed' /\ LeadTimes \subseteq LeadTimes'
    BY <2>1 DEF Timed, LeadTimes
  <2> QED
    BY <1>1, <1>2, <2>2, CellsLast
<1> QED
  BY <1>6, <1>7, <1>8, <1>9, <1>10 DEF CalibrationInv

LEMMA JudgedCohort ==
  ASSUME NEW p \in PR, NEW areas, areas \in {{}} \cup {{a} : a \in Area}
  PROVE  CalibratedCohort(CohortCandidates(p, areas)) \in Cohort
<1> DEFINE candidates == CohortCandidates(p, areas)
<1>1. /\ RepoCohort(RepoOf[p]) \in Cohort /\ TypeCohort(TypeOf[p]) \in Cohort
      /\ GlobalCohort \in Cohort
      /\ \A a \in Area : AreaCohort(RepoOf[p], a) \in Cohort
  BY DEF Cohort, Repo
<1>2. PICK n \in Nat : candidates \in [1 .. n -> Cohort]
  <2>1. CASE areas = {}
    <3>1. candidates = <<RepoCohort(RepoOf[p]), TypeCohort(TypeOf[p]), GlobalCohort>>
      BY <2>1 DEF CohortCandidates
    <3> HIDE DEF candidates
    <3> QED
      BY <1>1, <3>1
  <2>2. CASE areas # {}
    <3>1. PICK a \in Area : a = CHOOSE x \in areas : TRUE
      BY <2>2
    <3>2. PICK c1, c2, c3, c4 \in Cohort :
            /\ c1 = AreaCohort(RepoOf[p], a) /\ c2 = RepoCohort(RepoOf[p])
            /\ c3 = TypeCohort(TypeOf[p]) /\ c4 = GlobalCohort
      BY <1>1
    <3>3. candidates = <<c1, c2, c3, c4>>
      BY <2>2, <3>1, <3>2 DEF CohortCandidates
    <3> HIDE DEF candidates
    <3>4. candidates \in [1 .. 4 -> Cohort]
      BY <3>3
    <3> QED
      BY <3>4
  <2> QED
    BY <2>1, <2>2
<1> HIDE DEF candidates
<1> DEFINE learned == {i \in DOMAIN candidates :
                         cells[candidates[i]] # NoCell /\ cells[candidates[i]].median > 0}
<1>3. CASE learned = {}
  <2>1. CalibratedCohort(candidates) = GlobalCohort
    BY <1>3 DEF CalibratedCohort
  <2> QED
    BY <1>1, <2>1 DEF candidates
<1>4. CASE learned # {}
  <2>1. CalibratedCohort(candidates) = candidates[Min(learned)]
    BY <1>4 DEF CalibratedCohort
  <2>2. learned \in SUBSET Nat /\ learned \subseteq 1 .. n
    BY <1>2
  <2> HIDE DEF learned
  <2>3. PICK m \in learned : \A i \in learned : m <= i
    BY <1>4, <2>2, LeastNatural
  <2>4. Min(learned) \in learned
    BY <2>3 DEF Min
  <2> QED
    BY <1>2, <2>1, <2>2, <2>4 DEF candidates
<1> QED
  BY <1>3, <1>4

LEMMA AskingStep ==
  ASSUME CalibrationInv, NEW e \in Estimator,
         (\E p \in PR : Judge(e, p)) \/ LoseEstimate(e)
  PROVE  CalibrationInv'
<1>1. CalibrationTypeOK /\ RowsHold(estimates) /\ CycleHolds /\ ReadsHold /\ CellsHold
  BY DEF CalibrationInv
<1>2. UNCHANGED <<demo, merged, cycle, estimates, cells, recompute>>
  BY DEF Judge, LoseEstimate
<1>3. \E now \in [step : {"idle"}] \cup [step : {"judged"}, pr : PR, cohort : Cohort] :
        asking' = [asking EXCEPT ![e] = now]
  <2>1. CASE LoseEstimate(e)
    <3>1. asking' = [asking EXCEPT ![e] = [step |-> "idle"]]
      BY <2>1 DEF LoseEstimate
    <3>2. PICK now \in [step : {"idle"}] : now = [step |-> "idle"]
      OBVIOUS
    <3> QED
      BY <3>1, <3>2
  <2>2. ASSUME NEW p \in PR, Judge(e, p)
        PROVE  \E now \in [step : {"judged"}, pr : PR, cohort : Cohort] :
                 asking' = [asking EXCEPT ![e] = now]
    <3>1. PICK areas \in {{}} \cup {{a} : a \in Area} :
            asking' = [asking EXCEPT ![e] =
              [step |-> "judged", pr |-> p, cohort |-> CalibratedCohort(CohortCandidates(p, areas))]]
      BY <2>2 DEF Judge
    <3>2. PICK c \in Cohort : c = CalibratedCohort(CohortCandidates(p, areas))
      BY JudgedCohort
    <3> QED
      BY <3>1, <3>2
  <2> QED
    BY <2>1, <2>2
<1>4. CalibrationTypeOK'
  BY <1>1, <1>2, <1>3 DEF CalibrationTypeOK
<1>5. RowsHold(estimates)' /\ CycleHolds' /\ ReadsHold'
  BY <1>1, <1>2, RowsLast, CyclesLast, ReadsLast
<1>6. CellsHold'
  BY <1>1, <1>2, TimedLast, CellsLast
<1> QED
  BY <1>4, <1>5, <1>6 DEF CalibrationInv

LEMMA SaveStep ==
  ASSUME CalibrationInv, NEW e \in Estimator, SaveEstimate(e)
  PROVE  CalibrationInv'
<1>1. CalibrationTypeOK /\ RowsHold(estimates) /\ CycleHolds /\ ReadsHold /\ CellsHold
  BY DEF CalibrationInv
<1>2. /\ asking[e].step = "judged"
      /\ asking' = [asking EXCEPT ![e] = [step |-> "idle"]]
      /\ UNCHANGED <<demo, merged, cycle, cells, recompute>>
  BY DEF SaveEstimate
<1>3. PICK p \in PR, c \in Cohort : asking[e].pr = p /\ asking[e].cohort = c
  BY <1>1, <1>2 DEF CalibrationTypeOK
<1>4. PICK rows \in SUBSET Row : rows = estimates[p]
  BY <1>1 DEF CalibrationTypeOK
<1>5. PICK added : added = [row |-> NextRow(rows), cohort |-> c, actual |-> Null,
                            seeded |-> FALSE]
  OBVIOUS
<1>6. Cardinality(rows) < MaxEstimates[p] /\ estimates' = [estimates EXCEPT ![p] = rows \cup {added}]
  BY <1>3, <1>4, <1>5 DEF SaveEstimate
<1>7. /\ rows \cup {added} \subseteq Row /\ IsFiniteSet(rows \cup {added})
      /\ Cardinality(rows \cup {added}) <= MaxEstimates[p]
      /\ \A x, y \in rows \cup {added} : x.row = y.row => x = y
  <2>1. IsFiniteSet(rows) /\ \A x, y \in rows : x.row = y.row => x = y
    BY <1>1, <1>4 DEF RowsHold
  <2>2. added \in Row /\ added.row = NextRow(rows)
    BY <1>5, <2>1, NextRowIs DEF Row
  <2> QED
    BY <1>6, <2>1, <2>2, RowAdded
<1>8. /\ estimates' \in [PR -> SUBSET Row]
      /\ estimates'[p] = rows \cup {added}
      /\ \A q \in PR \ {p} : estimates'[q] = estimates[q]
  BY <1>1, <1>6, <1>7 DEF CalibrationTypeOK
<1>9. RowsHold(estimates)'
  <2>1. \A x \in rows \cup {added} : x.actual # Null => x.actual = merged[p]
    BY <1>1, <1>4, <1>5 DEF RowsHold
  <2>2. ASSUME NEW q \in PR
        PROVE  /\ IsFiniteSet(estimates'[q]) /\ Cardinality(estimates'[q]) <= MaxEstimates[q]
               /\ \A x, y \in estimates'[q] : x.row = y.row => x = y
               /\ \A x \in estimates'[q] : x.actual # Null => x.actual = merged[q]
    <3>1. CASE q = p
      BY <1>7, <1>8, <2>1, <3>1
    <3>2. CASE q # p
      BY <1>1, <1>8, <3>2 DEF RowsHold
    <3> QED
      BY <3>1, <3>2
  <2> QED
    BY <1>2, <1>8, <2>2 DEF RowsHold
<1>10. CalibrationTypeOK'
  <2>1. asking' \in [Estimator ->
          [step : {"idle"}] \cup [step : {"judged"}, pr : PR, cohort : Cohort]]
    BY <1>1, <1>2 DEF CalibrationTypeOK
  <2>2. \A q \in PR : Cardinality(estimates'[q]) <= MaxEstimates[q]
    BY <1>9 DEF RowsHold
  <2> QED
    BY <1>1, <1>2, <1>8, <2>1, <2>2 DEF CalibrationTypeOK
<1>11. CycleHolds' /\ ReadsHold' /\ CellsHold'
  BY <1>1, <1>2, CyclesLast, ReadsLast, TimedLast, CellsLast
<1> QED
  BY <1>9, <1>10, <1>11 DEF CalibrationInv

LEMMA ComputeStep ==
  ASSUME CalibrationInv, NEW r \in MetricsRun, ComputeCycleTimes(r)
  PROVE  CalibrationInv'
<1>1. CalibrationTypeOK /\ RowsHold(estimates) /\ CycleHolds /\ ReadsHold /\ CellsHold
  BY DEF CalibrationInv
<1>2. /\ recompute' = [recompute EXCEPT ![r] = [step |-> "timed"]]
      /\ UNCHANGED <<demo, merged, estimates, cells, asking>>
  BY DEF ComputeCycleTimes
<1>3. /\ cycle' \in [PR -> Secs \cup {Null}]
      /\ \A p \in PR : cycle'[p] # Null => cycle'[p] = merged[p]
  <2>1. CASE UNCHANGED cycle
    BY <1>1, <2>1 DEF CalibrationTypeOK, CycleHolds
  <2>2. ASSUME NEW bots \in SUBSET PR,
               cycle' = [p \in PR |-> IF merged[p] = Null THEN cycle[p]
                                      ELSE IF p \in bots THEN Null ELSE merged[p]]
        PROVE  /\ cycle' \in [PR -> Secs \cup {Null}]
               /\ \A p \in PR : cycle'[p] # Null => cycle'[p] = merged[p]
    BY <1>1, <2>2 DEF CalibrationTypeOK, CycleHolds
  <2> QED
    BY <2>1, <2>2 DEF ComputeCycleTimes
<1>4. CycleHolds'
  BY <1>2, <1>3 DEF CycleHolds
<1>5. CalibrationTypeOK'
  BY <1>1, <1>2, <1>3 DEF CalibrationTypeOK
<1>6. ReadsHold'
  <2>1. \A o \in MetricsRun : recompute'[o] = recompute[o] \/ recompute'[o].step # "read"
    BY <1>1, <1>2 DEF CalibrationTypeOK
  <2> QED
    BY <1>1, <1>2, <2>1, ReadsLast
<1>7. RowsHold(estimates)' /\ CellsHold'
  BY <1>1, <1>2, RowsLast, TimedLast, CellsLast
<1> QED
  BY <1>4, <1>5, <1>6, <1>7 DEF CalibrationInv

LEMMA SampleStep ==
  ASSUME CalibrationInv, NEW r \in MetricsRun, ReadSamples(r)
  PROVE  CalibrationInv'
<1>1. CalibrationTypeOK /\ RowsHold(estimates) /\ CycleHolds /\ ReadsHold /\ CellsHold
  BY DEF CalibrationInv
<1>2. PICK fills, samples : fills = Backfill /\ samples = Samples(Filled(fills))
  OBVIOUS
<1>3. /\ recompute' = [recompute EXCEPT ![r] =
           [step |-> "read", fills |-> fills, samples |-> samples]]
      /\ UNCHANGED <<demo, merged, cycle, estimates, cells, asking>>
  BY <1>2 DEF ReadSamples
<1>4. FillsHold(fills)
  BY <1>1, <1>2, BackfillHolds
<1>5. SamplesHold(samples)
  BY <1>1, <1>2, <1>4, FilledHolds, SamplesOfRows
<1>6. CalibrationTypeOK'
  <2>1. [step |-> "read", fills |-> fills, samples |-> samples]
          \in [step : {"read"}, fills : SUBSET Fill, samples : SUBSET Sample]
    BY <1>4, <1>5 DEF FillsHold, SamplesHold
  <2> QED
    BY <1>1, <1>3, <2>1 DEF CalibrationTypeOK
<1>7. ReadsHold'
  <2>1. ASSUME NEW o \in MetricsRun, recompute'[o].step = "read"
        PROVE  FillsHold(recompute[o].fills)' /\ SamplesHold(recompute[o].samples)'
    <3>1. CASE o = r
      <4>1. recompute'[o].fills = fills /\ recompute'[o].samples = samples
        BY <1>1, <1>3, <3>1 DEF CalibrationTypeOK
      <4> QED
        BY <1>3, <1>4, <1>5, <4>1 DEF FillsHold, SamplesHold
    <3>2. CASE o # r
      <4>1. recompute'[o] = recompute[o]
        BY <1>1, <1>3, <3>2 DEF CalibrationTypeOK
      <4> QED
        BY <1>1, <1>3, <2>1, <4>1 DEF ReadsHold, FillsHold, SamplesHold
    <3> QED
      BY <3>1, <3>2
  <2> QED
    BY <2>1 DEF ReadsHold
<1>8. RowsHold(estimates)' /\ CycleHolds' /\ CellsHold'
  BY <1>1, <1>3, RowsLast, CyclesLast, TimedLast, CellsLast
<1> QED
  BY <1>6, <1>7, <1>8 DEF CalibrationInv

LEMMA CommitStep ==
  ASSUME CalibrationInv, NEW r \in MetricsRun, CommitCurves(r)
  PROVE  CalibrationInv'
<1>1. CalibrationTypeOK /\ RowsHold(estimates) /\ CycleHolds /\ ReadsHold /\ CellsHold
  BY DEF CalibrationInv
<1>2. PICK fills, samples : recompute[r].fills = fills /\ recompute[r].samples = samples
  OBVIOUS
<1>3. FillsHold(fills) /\ SamplesHold(samples)
  BY <1>1, <1>2 DEF ReadsHold, CommitCurves
<1>4. PICK rows : rows = Filled(fills)
  OBVIOUS
<1>5. /\ cells' = [c \in Cohort |-> IF Group(samples, c) = {} THEN cells[c]
                                    ELSE WeightedQuantiles(InOrder(Group(samples, c)))]
      /\ estimates' = rows
      /\ recompute' = [recompute EXCEPT ![r] = [step |-> "idle"]]
      /\ UNCHANGED <<demo, merged, cycle, asking>>
  BY <1>2, <1>4 DEF CommitCurves
<1>6. RowsHold(rows)
  BY <1>1, <1>3, <1>4, FilledHolds
<1>7. RowsHold(estimates)'
  BY <1>5, <1>6 DEF RowsHold
<1>8. merged \in [PR -> Secs \cup {Null}]
  BY <1>1 DEF CalibrationTypeOK
<1>9. ASSUME NEW c \in Cohort
      PROVE  /\ cells'[c] \in Cell \cup {NoCell}
             /\ CurveHolds(cells'[c])
  <2>1. PICK group, cell : group = Group(samples, c) /\ cell = cells[c]
    OBVIOUS
  <2>2. CASE group = {}
    <3>1. cells'[c] = cell
      BY <1>5, <2>1, <2>2
    <3> QED
      BY <1>1, <2>1, <3>1 DEF CalibrationTypeOK, CellsHold
  <2>3. CASE group # {}
    <3>1. cells'[c] = WeightedQuantiles(InOrder(group))
      BY <1>5, <2>1, <2>3
    <3>2. /\ WeightedQuantiles(InOrder(group)) \in Cell
          /\ CurveHolds(WeightedQuantiles(InOrder(group)))
      BY <1>3, <1>8, <2>1, <2>3, CurveOfSamples
    <3> QED
      BY <3>1, <3>2
  <2> QED
    BY <2>2, <2>3
<1>10. CalibrationTypeOK'
  <2>1. cells' \in [Cohort -> Cell \cup {NoCell}]
    BY <1>5, <1>9
  <2>2. estimates' \in [PR -> SUBSET Row] /\ \A p \in PR : Cardinality(estimates'[p]) <= MaxEstimates[p]
    BY <1>5, <1>6 DEF RowsHold
  <2>3. recompute' \in [MetricsRun ->
          [step : {"idle", "timed"}]
            \cup [step : {"read"}, fills : SUBSET Fill, samples : SUBSET Sample]]
    BY <1>1, <1>5 DEF CalibrationTypeOK
  <2> QED
    BY <1>1, <1>5, <2>1, <2>2, <2>3 DEF CalibrationTypeOK
<1>11. CellsHold'
  <2> SUFFICES ASSUME NEW c \in Cohort PROVE CurveHolds(cells[c])'
    BY DEF CellsHold
  <2>1. Timed' = Timed /\ LeadTimes' = LeadTimes
    BY <1>5 DEF Timed, LeadTimes
  <2>2. CurveHolds(cells'[c])
    BY <1>9
  <2> QED
    BY <2>1, <2>2 DEF CurveHolds, Among
<1>12. ReadsHold'
  <2>1. \A o \in MetricsRun : recompute'[o] = recompute[o] \/ recompute'[o].step # "read"
    BY <1>1, <1>5 DEF CalibrationTypeOK
  <2> QED
    BY <1>1, <1>5, <2>1, ReadsLast
<1>13. CycleHolds'
  BY <1>1, <1>5, CyclesLast
<1> QED
  BY <1>7, <1>10, <1>11, <1>12, <1>13 DEF CalibrationInv

LEMMA RollBackStep ==
  ASSUME CalibrationInv, NEW r \in MetricsRun, RollBackCurves(r)
  PROVE  CalibrationInv'
<1>1. CalibrationTypeOK /\ RowsHold(estimates) /\ CycleHolds /\ ReadsHold /\ CellsHold
  BY DEF CalibrationInv
<1>2. /\ recompute' = [recompute EXCEPT ![r] = [step |-> "idle"]]
      /\ UNCHANGED <<demo, merged, cycle, estimates, cells, asking>>
  BY DEF RollBackCurves
<1>3. CalibrationTypeOK'
  BY <1>1, <1>2 DEF CalibrationTypeOK
<1>4. ReadsHold'
  <2>1. \A o \in MetricsRun : recompute'[o] = recompute[o] \/ recompute'[o].step # "read"
    BY <1>1, <1>2 DEF CalibrationTypeOK
  <2> QED
    BY <1>1, <1>2, <2>1, ReadsLast
<1>5. RowsHold(estimates)' /\ CycleHolds' /\ CellsHold'
  BY <1>1, <1>2, RowsLast, CyclesLast, TimedLast, CellsLast
<1> QED
  BY <1>3, <1>4, <1>5 DEF CalibrationInv

LEMMA SeedStep ==
  ASSUME CalibrationInv, NEW r \in MetricsRun, SeedCalibration(r)
  PROVE  CalibrationInv'
<1>1. CalibrationTypeOK /\ RowsHold(estimates) /\ CycleHolds /\ ReadsHold /\ CellsHold
  BY DEF CalibrationInv
<1>2. /\ recompute' = [recompute EXCEPT ![r] = [step |-> "timed"]]
      /\ UNCHANGED <<demo, merged, cycle, cells, asking>>
  BY DEF SeedCalibration
<1> DEFINE Kept(p) == {e \in estimates[p] : ~e.seeded}
           Seeded(p, a) == [row |-> NextRow(Kept(p)), cohort |-> AreaCohort(RepoOf[p], a),
                            actual |-> cycle[p], seeded |-> TRUE]
<1>3. PICK area \in [PR -> Area] :
        estimates' = [p \in PR |-> IF cycle[p] > 0 /\ Cardinality(Kept(p)) < MaxEstimates[p]
                                   THEN Kept(p) \cup {Seeded(p, area[p])} ELSE Kept(p)]
  BY DEF SeedCalibration
<1>4. ASSUME NEW p \in PR
      PROVE  /\ estimates'[p] \subseteq Row /\ IsFiniteSet(estimates'[p])
             /\ Cardinality(estimates'[p]) <= MaxEstimates[p]
             /\ \A x, y \in estimates'[p] : x.row = y.row => x = y
             /\ \A x \in estimates'[p] : x.actual # Null => x.actual = merged[p]
  <2>1. PICK kept, secs : kept = Kept(p) /\ secs = cycle[p]
    OBVIOUS
  <2>2. PICK added : added = [row |-> NextRow(kept), cohort |-> AreaCohort(RepoOf[p], area[p]),
                              actual |-> secs, seeded |-> TRUE]
    OBVIOUS
  <2>3. /\ kept \in SUBSET Row /\ IsFiniteSet(kept) /\ Cardinality(kept) <= MaxEstimates[p]
        /\ \A x, y \in kept : x.row = y.row => x = y
        /\ \A x \in kept : x.actual # Null => x.actual = merged[p]
    <3>1. kept \subseteq estimates[p] /\ IsFiniteSet(estimates[p])
          /\ Cardinality(estimates[p]) <= MaxEstimates[p]
      BY <1>1, <2>1 DEF RowsHold
    <3>2. IsFiniteSet(kept) /\ Cardinality(kept) <= Cardinality(estimates[p])
      BY <3>1, FS_Subset
    <3>3. Cardinality(kept) \in Nat /\ Cardinality(estimates[p]) \in Nat
      BY <3>1, <3>2, FS_CardinalityType
    <3>4. Cardinality(kept) <= MaxEstimates[p]
      BY <3>1, <3>2, <3>3, CalibrationAssumption
    <3> QED
      BY <1>1, <3>1, <3>2, <3>4 DEF RowsHold
  <2>4. CASE secs > 0 /\ Cardinality(kept) < MaxEstimates[p]
    <3>1. estimates'[p] = kept \cup {added}
      BY <1>3, <2>1, <2>2, <2>4
    <3>2. secs \in Secs \cup {Null} /\ (secs # Null => secs = merged[p])
      BY <1>1, <2>1 DEF CalibrationTypeOK, CycleHolds
    <3>3. AreaCohort(RepoOf[p], area[p]) \in Cohort
      BY DEF Cohort, Repo
    <3>4. PICK c \in Cohort : c = AreaCohort(RepoOf[p], area[p])
      BY <3>3
    <3>5. /\ kept \cup {added} \subseteq Row /\ IsFiniteSet(kept \cup {added})
          /\ Cardinality(kept \cup {added}) <= MaxEstimates[p]
          /\ \A x, y \in kept \cup {added} : x.row = y.row => x = y
      <4>1. added \in Row /\ added.row = NextRow(kept)
        BY <2>2, <2>3, <3>2, <3>4, NextRowIs DEF Row
      <4> QED
        BY <2>3, <2>4, <4>1, RowAdded
    <3>6. \A x \in kept \cup {added} : x.actual # Null => x.actual = merged[p]
      BY <2>2, <2>3, <3>2
    <3> QED
      BY <3>1, <3>5, <3>6
  <2>5. CASE ~(secs > 0 /\ Cardinality(kept) < MaxEstimates[p])
    <3>1. estimates'[p] = kept
      BY <1>3, <2>1, <2>5
    <3> QED
      BY <2>3, <3>1
  <2> QED
    BY <2>4, <2>5
<1>5. estimates' \in [PR -> SUBSET Row]
  BY <1>3, <1>4
<1>6. RowsHold(estimates)'
  BY <1>2, <1>4, <1>5 DEF RowsHold
<1>7. CalibrationTypeOK'
  <2>1. recompute' \in [MetricsRun ->
          [step : {"idle", "timed"}]
            \cup [step : {"read"}, fills : SUBSET Fill, samples : SUBSET Sample]]
    BY <1>1, <1>2 DEF CalibrationTypeOK
  <2> QED
    BY <1>1, <1>2, <1>4, <1>5, <2>1 DEF CalibrationTypeOK
<1>8. ReadsHold'
  <2>1. \A o \in MetricsRun : recompute'[o] = recompute[o] \/ recompute'[o].step # "read"
    BY <1>1, <1>2 DEF CalibrationTypeOK
  <2> QED
    BY <1>1, <1>2, <2>1, ReadsLast
<1>9. CycleHolds' /\ CellsHold'
  BY <1>1, <1>2, CyclesLast, TimedLast, CellsLast
<1> QED
  BY <1>6, <1>7, <1>8, <1>9 DEF CalibrationInv

LEMMA CalibrationInvLasts ==
  CalibrationInv /\ [CalibrationNext]_calibrationVars => CalibrationInv'
<1> SUFFICES ASSUME CalibrationInv, [CalibrationNext]_calibrationVars PROVE CalibrationInv'
  OBVIOUS
<1>1. ASSUME NEW p \in PR, NEW lead \in LeadTime[p], Merge(p, lead) PROVE CalibrationInv'
  BY <1>1, MergeStep
<1>2. ASSUME NEW e \in Estimator, (\E p \in PR : Judge(e, p)) \/ LoseEstimate(e)
      PROVE  CalibrationInv'
  BY <1>2, AskingStep
<1>3. ASSUME NEW e \in Estimator, SaveEstimate(e) PROVE CalibrationInv'
  BY <1>3, SaveStep
<1>4. ASSUME NEW r \in MetricsRun,
             \/ ComputeCycleTimes(r) \/ ReadSamples(r) \/ CommitCurves(r) \/ RollBackCurves(r)
             \/ SeedCalibration(r)
      PROVE  CalibrationInv'
  BY <1>4, ComputeStep, SampleStep, CommitStep, RollBackStep, SeedStep
<1>5. CASE UNCHANGED calibrationVars
  <2>1. UNCHANGED <<demo, merged, cycle, estimates, cells, recompute, asking>>
    BY <1>5 DEF calibrationVars
  <2>2. CalibrationTypeOK /\ RowsHold(estimates) /\ CycleHolds /\ ReadsHold /\ CellsHold
    BY DEF CalibrationInv
  <2>3. CalibrationTypeOK'
    BY <2>1, <2>2 DEF CalibrationTypeOK
  <2>4. RowsHold(estimates)' /\ CycleHolds' /\ ReadsHold' /\ CellsHold'
    BY <2>1, <2>2, RowsLast, CyclesLast, ReadsLast, TimedLast, CellsLast
  <2> QED
    BY <2>3, <2>4 DEF CalibrationInv
<1> QED
  BY <1>1, <1>2, <1>3, <1>4, <1>5 DEF CalibrationNext

LEMMA CurvesOfInv == CalibrationInv => CurveSound
<1> SUFFICES ASSUME CalibrationInv, NEW c \in Cohort, cells[c] # NoCell
             PROVE  /\ cells[c].n <= Cardinality({p \in PR : merged[p] > 0})
                    /\ cells[c].p25 <= cells[c].median /\ cells[c].median <= cells[c].p75
                    /\ \A v \in {cells[c].p25, cells[c].p75, cells[c].mean} :
                         v \in Min(LeadTimes) .. Max(LeadTimes)
  BY DEF CurveSound
<1>1. PICK cell : cell = cells[c]
  OBVIOUS
<1>2. cell \in Cell /\ CurveHolds(cell) /\ cell # NoCell
  BY <1>1 DEF CalibrationInv, CalibrationTypeOK, CellsHold
<1>3. ASSUME NEW v \in Nat, Among(v) PROVE v \in Min(LeadTimes) .. Max(LeadTimes)
  <2>1. PICK low \in LeadTimes, high \in LeadTimes : low <= v /\ v <= high
    BY <1>3 DEF Among
  <2>2. LeadTimes \in SUBSET Nat /\ IsFiniteSet(LeadTimes) /\ LeadTimes # {}
    BY <2>1, LeadTimesFinite DEF CalibrationInv, CalibrationTypeOK
  <2>3. Max(LeadTimes) \in LeadTimes /\ high <= Max(LeadTimes)
    BY <2>1, <2>2, FiniteHasMax
  <2>4. PICK least \in LeadTimes : \A x \in LeadTimes : least <= x
    BY <2>2, LeastNatural
  <2>5. Min(LeadTimes) \in LeadTimes /\ Min(LeadTimes) <= low
    BY <2>1, <2>4 DEF Min
  <2>6. Min(LeadTimes) \in Nat /\ Max(LeadTimes) \in Nat /\ low \in Nat /\ high \in Nat
    BY <2>1, <2>2, <2>3, <2>5
  <2> QED
    BY <2>1, <2>3, <2>5, <2>6
<1>4. /\ cell.p25 \in Nat /\ cell.p75 \in Nat /\ cell.mean \in Nat
      /\ Among(cell.p25) /\ Among(cell.p75) /\ Among(cell.mean)
      /\ cell.n <= Cardinality(Timed) /\ cell.p25 <= cell.median /\ cell.median <= cell.p75
  BY <1>2 DEF CurveHolds, Cell
<1>5. \A v \in {cell.p25, cell.p75, cell.mean} : v \in Min(LeadTimes) .. Max(LeadTimes)
  BY <1>3, <1>4
<1> QED
  BY <1>1, <1>4, <1>5 DEF Timed

\* However pull requests are judged, measured, seeded and recomputed, each counts once
\* in a curve, and the quartiles and the mean of a curve are those of lead times.
THEOREM CurvesAreSound == CalibrationSpec => []CurveSound
<1>1. CalibrationInit => CalibrationInv
  BY CalibrationInitially
<1>2. CalibrationInv /\ [CalibrationNext]_calibrationVars => CalibrationInv'
  BY CalibrationInvLasts
<1>3. CalibrationInv => CurveSound
  BY CurvesOfInv
<1> QED
  BY <1>1, <1>2, <1>3, PTL DEF CalibrationSpec

\* The state of the calibration keeps its type.
THEOREM CalibrationTypeCorrect == CalibrationSpec => []CalibrationTypeOK
<1>1. CalibrationInit => CalibrationInv
  BY CalibrationInitially
<1>2. CalibrationInv /\ [CalibrationNext]_calibrationVars => CalibrationInv'
  BY CalibrationInvLasts
<1>3. CalibrationInv => CalibrationTypeOK
  BY DEF CalibrationInv
<1> QED
  BY <1>1, <1>2, <1>3, PTL DEF CalibrationSpec
=============================================================================
