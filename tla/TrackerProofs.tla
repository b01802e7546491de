---------------------------- MODULE TrackerProofs ----------------------------
(***************************************************************************)
(* What holds of passes and deliveries for any number of issues, pull      *)
(* requests, commits, instants, faults and deliveries.                     *)
(***************************************************************************)
EXTENDS Tracker, TLAPS

USE SyncStoreAssumption, RepoSyncAssumption, TrackerAssumption

(***************************************************************************)
(* The operators that write rows.                                          *)
(***************************************************************************)
LEMMA UpsertIssuesType ==
  ASSUME NEW rows, issueRow \in [Issues \X Key -> Derived], UpsertIssues(rows)
  PROVE  issueRow' \in [Issues \X Key -> Derived]
BY DEF UpsertIssues, Derived

LEMMA SetDerivedType ==
  ASSUME NEW rows, NEW state \in [Issues -> Derived],
         issueRow \in [Issues \X Key -> Derived], SetDerivedState(rows, state)
  PROVE  issueRow' \in [Issues \X Key -> Derived]
BY DEF SetDerivedState, Derived, Key

LEMMA UpsertPRsType ==
  ASSUME NEW state \in [PRs -> PRState], prRow \in [PRs -> PRState], UpsertPRs(state)
  PROVE  prRow' \in [PRs -> PRState]
BY DEF UpsertPRs

LEMMA ProgressType == Progress \in [Issues -> Derived]
BY DEF Progress, ListedFor, Derived

LEMMA MissType ==
  ASSUME NEW why \in {"late", "branch", "unstored"}, NEW cs \in SUBSET Commits,
         missed \in [{"late", "branch", "unstored"} -> SUBSET Commits], Miss(why, cs)
  PROVE  missed' \in [{"late", "branch", "unstored"} -> SUBSET Commits]
BY DEF Miss

LEMMA RecentType ==
  ASSUME NEW cs \in SUBSET Commits
  PROVE  Recent(cs) \in SUBSET Commits
BY DEF Recent

LEMMA RowsOfType ==
  ASSUME NEW S \in SUBSET Issues
  PROVE  RowsOf(S) \subseteq Issues \X Key
BY DEF RowsOf

(***************************************************************************)
(* The steps of a pass.                                                    *)
(***************************************************************************)
LEMMA SyncTypeStep ==
  ASSUME SyncTypeOK, SyncStep
  PROVE  SyncTypeOK'
<1> USE DEF SyncTypeOK, StoreTypeOK
<1>1. CASE Begin
  BY <1>1 DEF Begin, Step, Steps, storeVars, remoteVars, rowVars
<1>2. CASE SyncIssues
  <2>1. issueRow' \in [Issues \X Key -> Derived]
    BY <1>2, UpsertIssuesType DEF SyncIssues
  <2>2. settled' \in {"no", "pass", "yes"} /\ faults' \in 0..MaxFaults
    BY <1>2 DEF SyncIssues, Fault
  <2> QED
    BY <1>2, <2>1, <2>2 DEF SyncIssues, Step, Steps, remoteVars
<1>3. CASE ListPRs
  BY <1>3 DEF ListPRs, Step, Steps, storeVars, remoteVars, rowVars, histVars
<1>4. CASE StorePRs
  <2>1. prRow' \in [PRs -> PRState]
    BY <1>4, UpsertPRsType DEF StorePRs
  <2> QED
    BY <1>4, <2>1 DEF StorePRs, Step, Steps, remoteVars, Fault
<1>5. CASE SyncReviewsAndDeployments
  <2>1. complete' \in BOOLEAN
    BY <1>5 DEF SyncReviewsAndDeployments, Fault
  <2>2. settled' \in {"no", "pass", "yes"} /\ faults' \in 0..MaxFaults
    BY <1>5 DEF SyncReviewsAndDeployments, Fault
  <2>3. StoreTypeOK'
    BY <1>5 DEF SyncReviewsAndDeployments, storeVars, remoteVars, rowVars
  <2> QED
    BY <1>5, <2>1, <2>2, <2>3 DEF SyncReviewsAndDeployments, Step, Steps
<1>6. CASE ListRows
  <2>1. todo' \subseteq Issues \X Key
    BY <1>6, RowsOfType DEF ListRows, Linked
  <2> QED
    BY <1>6, <2>1 DEF ListRows, Step, Steps, storeVars, remoteVars, rowVars, Fault
<1>7. CASE \E r \in todo : SetDerived(r)
  <2> PICK r \in todo : SetDerived(r)
    BY <1>7
  <2>1. issueRow' \in [Issues \X Key -> Derived]
    BY SetDerivedType, ProgressType DEF SetDerived
  <2> QED
    BY <2>1 DEF SetDerived, remoteVars, Fault
<1>8. CASE DerivedDone
  BY <1>8 DEF DerivedDone, Step, Steps, storeVars, remoteVars, rowVars, histVars, Nothing, PRState
<1>9. CASE Walk
  <2>1. fetched' \subseteq Commits
    BY <1>9, RecentType DEF Walk
  <2> QED
    BY <1>9, <2>1 DEF Walk, Steps, storeVars, remoteVars, rowVars, Fault
<1>10. CASE StoreWalk
  BY <1>10 DEF StoreWalk, Steps, UpsertCommits, remoteVars, Fault
<1>11. CASE FetchCommits
  <2>1. fetched' \subseteq Commits
    BY <1>11, RecentType DEF FetchCommits
  <2>2. complete' \in BOOLEAN /\ pc' \in Steps
    BY <1>11 DEF FetchCommits, Fault, Steps
  <2>3. settled' \in {"no", "pass", "yes"} /\ faults' \in 0..MaxFaults
    BY <1>11 DEF FetchCommits, Fault
  <2> QED
    BY <1>11, <2>1, <2>2, <2>3 DEF FetchCommits, storeVars, remoteVars, rowVars
<1>12. CASE StoreCommits
  <2>1. missed' \in [{"late", "branch", "unstored"} -> SUBSET Commits]
    BY <1>12, MissType, RecentType DEF StoreCommits
  <2> QED
    BY <1>12, <2>1 DEF StoreCommits, Step, Steps, UpsertCommits, remoteVars, Fault
<1>13. CASE Stamp
  <2>1. missed' \in [{"late", "branch", "unstored"} -> SUBSET Commits]
    BY <1>13, MissType DEF Stamp
  <2>2. cutoff' \in Time /\ 0 \in Time
    BY <1>13 DEF Stamp, UpdateRepoSyncedAt, Time
  <2>3. Nothing \in [PRs -> PRState]
    BY DEF Nothing, PRState
  <2>4. settled' \in {"no", "pass", "yes"} /\ faults' \in 0..MaxFaults
    BY <1>13 DEF Stamp, Fault
  <2> QED
    BY <1>13, <2>1, <2>2, <2>3, <2>4 DEF Stamp, Step, Steps, Return, remoteVars
<1>14. CASE Abandon
  <2>1. Nothing \in [PRs -> PRState] /\ 0 \in Time
    BY DEF Nothing, PRState, Time
  <2> QED
    BY <1>14, <2>1 DEF Abandon, Steps, Return, storeVars, remoteVars, rowVars, Fault
<1> QED
  BY <1>1, <1>2, <1>3, <1>4, <1>5, <1>6, <1>7, <1>8, <1>9, <1>10, <1>11, <1>12, <1>13, <1>14
     DEF SyncStep

LEMMA PlatformTypeStep ==
  ASSUME SyncTypeOK,
         \/ \E p \in PRs, s \in PRState : MovePR(p, s)
         \/ \E c \in Commits, d \in Time : PushCommit(c, d)
         \/ Tick
  PROVE  SyncTypeOK'
<1> USE DEF SyncTypeOK, StoreTypeOK
<1>1. CASE \E p \in PRs, s \in PRState : MovePR(p, s)
  BY <1>1 DEF MovePR, rowVars, jobVars
<1>2. ASSUME NEW c \in Commits, NEW d \in Time, PushCommit(c, d)
      PROVE  SyncTypeOK'
  <2>1. missed' \in [{"late", "branch", "unstored"} -> SUBSET Commits]
    BY <1>2, MissType DEF PushCommit
  <2> QED
    BY <1>2, <2>1 DEF PushCommit, Push, rowVars, jobVars
<1>3. CASE Tick
  BY <1>3 DEF Tick, Time, remoteVars, rowVars, jobVars, histVars
<1> QED
  BY <1>1, <1>2, <1>3

(***************************************************************************)
(* The steps of a delivery.                                                *)
(***************************************************************************)
LEMMA ApplyType ==
  ASSUME SyncTypeOK, NEW d \in Payload, Apply(d)
  PROVE  /\ issueRow' \in [Issues \X Key -> Derived]
         /\ prRow' \in [PRs -> PRState]
         /\ stored' \subseteq Commits
<1> USE DEF SyncTypeOK, StoreTypeOK
<1>1. CASE d.kind = "pull_request"
  <2>1. d.of \in PRs /\ d.state \in PRState
    BY <1>1 DEF Payload
  <2>2. [Nothing EXCEPT ![d.of] = d.state] \in [PRs -> PRState]
    BY <2>1 DEF Nothing, PRState
  <2> QED
    BY <1>1, <2>2, UpsertPRsType DEF Apply
<1>2. CASE d.kind = "push"
  BY <1>2 DEF Apply, Payload, UpsertCommits
<1>3. CASE d.kind = "issues"
  BY <1>3, UpsertIssuesType DEF Apply, Payload
<1> QED
  BY <1>1, <1>2, <1>3 DEF Payload

LEMMA SendType ==
  ASSUME sent \in Seq(Payload), Len(sent) <= MaxDeliveries, NEW d \in Payload, Send(d)
  PROVE  sent' \in Seq(Payload) /\ Len(sent') <= MaxDeliveries
BY DEF Send

LEMMA TypeStep ==
  ASSUME TypeOK, [Next]_vars
  PROVE  TypeOK'
<1> USE DEF TypeOK
<1>1. ASSUME NEW p \in PRs, NEW s \in PRState, PREvent(p, s)
      PROVE  TypeOK'
  <2>1. [kind |-> "pull_request", of |-> p, state |-> s] \in Payload
    BY DEF Payload
  <2> QED
    BY <1>1, <2>1, PlatformTypeStep, SendType DEF PREvent, Send
<1>2. ASSUME NEW c \in Commits, NEW d \in Time, PushEvent(c, d)
      PROVE  TypeOK'
  <2>1. [kind |-> "push", of |-> c] \in Payload
    BY DEF Payload
  <2> QED
    BY <1>2, <2>1, PlatformTypeStep, SendType DEF PushEvent, Send
<1>3. ASSUME NEW i \in Issues, IssueEvent(i)
      PROVE  TypeOK'
  <2>1. [kind |-> "issues", of |-> i] \in Payload
    BY DEF Payload
  <2>2. SyncTypeOK'
    BY <1>3 DEF IssueEvent, SyncTypeOK, StoreTypeOK, syncVars, storeVars, remoteVars,
                rowVars, jobVars, histVars
  <2> QED
    BY <1>3, <2>1, <2>2, SendType DEF IssueEvent, Send
<1>4. ASSUME NEW n \in Id, Redeliver(n)
      PROVE  TypeOK'
  <2>1. settled' \in {"no", "pass", "yes"} /\ faults' \in 0..MaxFaults
    BY <1>4 DEF Redeliver, Fault, SyncTypeOK
  <2>2. SyncTypeOK'
    BY <1>4, <2>1 DEF Redeliver, SyncTypeOK, StoreTypeOK, storeVars, remoteVars, rowVars,
                      jobVars
  <2> QED
    BY <1>4, <2>2 DEF Redeliver, Goto, Phase
<1>5. CASE Tick /\ UNCHANGED hookVars
  BY <1>5, PlatformTypeStep DEF hookVars
<1>6. CASE SyncStep /\ UNCHANGED hookVars
  BY <1>6, SyncTypeStep DEF hookVars
<1>7. ASSUME NEW n \in Id, Receive(n)
      PROVE  TypeOK'
  <2>1. SyncTypeOK'
    BY <1>7 DEF Receive, SyncTypeOK, StoreTypeOK, syncVars, storeVars, remoteVars,
                rowVars, jobVars, histVars
  <2> QED
    BY <1>7, <2>1 DEF Receive, Goto, Phase
<1>8. ASSUME NEW n \in Id, ProcessDelivery(n)
      PROVE  TypeOK'
  <2>1. sent[n] \in Payload
    BY <1>8 DEF ProcessDelivery, At, Id
  <2>2. /\ issueRow' \in [Issues \X Key -> Derived]
        /\ prRow' \in [PRs -> PRState]
        /\ stored' \subseteq Commits
    BY <1>8, <2>1, ApplyType DEF ProcessDelivery
  <2>3. SyncTypeOK'
    BY <1>8, <2>2 DEF ProcessDelivery, SyncTypeOK, StoreTypeOK, remoteVars, jobVars
  <2> QED
    BY <1>8, <2>3 DEF ProcessDelivery, Goto, Phase
<1>9. ASSUME NEW n \in Id, ProcessFails(n)
      PROVE  TypeOK'
  <2>1. SyncTypeOK'
    BY <1>9 DEF ProcessFails, Fault, SyncTypeOK, StoreTypeOK, storeVars, remoteVars,
                rowVars, jobVars
  <2> QED
    BY <1>9, <2>1 DEF ProcessFails, Goto, Phase
<1>10. ASSUME NEW n \in Id, ApplyIssueAutoProgress(n)
       PROVE  TypeOK'
  <2>1. issueRow' \in [Issues \X Key -> Derived]
    <3>1. \A state \in {"done", "in_progress"} : [i \in Issues |-> state] \in [Issues -> Derived]
      BY DEF Derived
    <3> QED
      BY <1>10, <3>1, SetDerivedType DEF ApplyIssueAutoProgress, SyncTypeOK, StoreTypeOK
  <2>2. faults' \in 0..MaxFaults
    BY <1>10 DEF ApplyIssueAutoProgress, SyncTypeOK
  <2>3. SyncTypeOK'
    BY <1>10, <2>1, <2>2 DEF ApplyIssueAutoProgress, SyncTypeOK, StoreTypeOK, remoteVars, jobVars
  <2> QED
    BY <1>10, <2>3 DEF ApplyIssueAutoProgress, Goto, Phase
<1>11. ASSUME NEW n \in Id, Forget(n)
       PROVE  TypeOK'
  BY <1>11 DEF Forget, Fault, SyncTypeOK, StoreTypeOK, storeVars, remoteVars, rowVars,
               jobVars
<1>12. CASE Restart
  <2>1. Nothing \in [PRs -> PRState] /\ 0 \in Time
    BY DEF Nothing, PRState, Time
  <2>2. SyncTypeOK'
    BY <1>12, <2>1 DEF Restart, Fault, Return, SyncTypeOK, StoreTypeOK, storeVars,
                       remoteVars, rowVars, Steps
  <2> QED
    BY <1>12, <2>2 DEF Restart, Phase
<1>13. CASE UNCHANGED vars
  BY <1>13 DEF vars, syncVars, hookVars, SyncTypeOK, StoreTypeOK, storeVars, remoteVars,
               rowVars, jobVars, histVars
<1> QED
  BY <1>1, <1>2, <1>3, <1>4, <1>5, <1>6, <1>7, <1>8, <1>9, <1>10, <1>11, <1>12, <1>13
     DEF Next, Platform, Hook

LEMMA TypeInit == Init => TypeOK
<1> SUFFICES ASSUME Init PROVE TypeOK
  OBVIOUS
<1>1. StoreTypeOK
  BY DEF Init, SyncInit, StoreInit, StoreTypeOK, PRState, Derived, Time
<1>2. SyncTypeOK
  BY <1>1 DEF Init, SyncInit, SyncTypeOK, Steps, Nothing, PRState, Time
<1> QED
  BY <1>2 DEF Init, TypeOK, Phase

\* Every row, every variable of a pass and every delivery is of its type.
THEOREM TrackerTypeCorrect == Spec => []TypeOK
BY TypeInit, TypeStep, PTL DEF Spec


(***************************************************************************)
(* Done issues.  What says that a pull request is merged (the listing of a *)
(* pass, a delivery) was true when it was read, and a merge is final.      *)
(***************************************************************************)
Merged(p) == remotePR[p] = "merged"
MergedNow(p) == remotePR'[p] = "merged"

SaysMerged(d) == d.kind = "pull_request" /\ d.state = "merged"

MergeIsSo ==
  /\ \A p \in PRs : listed[p] = "merged" => Merged(p)
  /\ \A n \in 1..Len(sent) : SaysMerged(sent[n]) => Merged(sent[n].of)
  /\ \A n \in Id : phase[n] = "progress" =>
       n \in 1..Len(sent) /\ sent[n].kind = "pull_request"

DoneInv == TypeOK /\ MergeIsSo /\ DoneIsBacked

\* What a step must do to the parts.
Keeps ==
  /\ \A p \in PRs : Merged(p) => MergedNow(p)
  /\ \A p \in PRs : listed'[p] = "merged" => MergedNow(p)

SentGrows ==
  /\ \A n \in 1..Len(sent) : n \in 1..Len(sent') /\ sent'[n] = sent[n]
  /\ \A n \in 1..Len(sent') :
       n \in 1..Len(sent) \/ (SaysMerged(sent'[n]) => MergedNow(sent'[n].of))

Progresses ==
  \A n \in Id : phase'[n] = "progress" =>
    phase[n] = "progress" \/ (n \in 1..Len(sent) /\ sent[n].kind = "pull_request")

RowsBacked ==
  \A r \in Issues \X Key : issueRow'[r] = "done" =>
    issueRow[r] = "done" \/ \E p \in PRs : r[1] \in Refs[p] /\ MergedNow(p)

LEMMA DoneKept ==
  ASSUME DoneInv, TypeOK', Keeps, SentGrows, Progresses, RowsBacked
  PROVE  DoneInv'
<1>1. \A n \in 1..Len(sent) : SaysMerged(sent[n]) => sent[n].of \in PRs
  BY DEF DoneInv, TypeOK, Payload, SaysMerged
<1>2. \A n \in 1..Len(sent') : SaysMerged(sent'[n]) => MergedNow(sent'[n].of)
  BY <1>1 DEF DoneInv, MergeIsSo, Keeps, SentGrows
<1>3. \A n \in Id : phase'[n] = "progress" =>
        n \in 1..Len(sent') /\ sent'[n].kind = "pull_request"
  BY DEF DoneInv, MergeIsSo, SentGrows, Progresses
<1>4. MergeIsSo'
  BY <1>2, <1>3 DEF MergeIsSo, Keeps, SaysMerged, Merged, MergedNow
<1>5. DoneIsBacked'
  BY DEF DoneInv, DoneIsBacked, Merged, MergedNow, RowsBacked, Keeps
<1> QED
  BY <1>4, <1>5 DEF DoneInv

LEMMA SendGrows ==
  ASSUME sent \in Seq(Payload), NEW d \in Payload, Send(d), SaysMerged(d) => MergedNow(d.of)
  PROVE  SentGrows
<1>1. CASE sent' = sent
  BY <1>1 DEF SentGrows
<1>2. CASE sent' = Append(sent, d)
  <2>1. /\ Len(sent') = Len(sent) + 1 /\ Len(sent) \in Nat
        /\ \A n \in 1..Len(sent) : sent'[n] = sent[n]
        /\ sent'[Len(sent) + 1] = d
    BY <1>2
  <2>2. \A n \in 1..Len(sent') : n = Len(sent) + 1 \/ n \in 1..Len(sent)
    BY <2>1
  <2> QED
    BY <2>1, <2>2 DEF SentGrows
<1> QED
  BY <1>1, <1>2 DEF Send

LEMMA UpsertBacked ==
  ASSUME NEW rows, issueRow \in [Issues \X Key -> Derived], UpsertIssues(rows)
  PROVE  RowsBacked
BY DEF UpsertIssues, RowsBacked

LEMMA SetBacked ==
  ASSUME NEW rows, NEW state, issueRow \in [Issues \X Key -> Derived],
         SetDerivedState(rows, state),
         \A r \in Issues \X Key : (r \in rows /\ state[r[1]] = "done") =>
           \E p \in PRs : r[1] \in Refs[p] /\ MergedNow(p)
  PROVE  RowsBacked
BY DEF SetDerivedState, RowsBacked

\* A step of a pass.
LEMMA DoneSyncStep ==
  ASSUME DoneInv, TypeOK', SyncStep, UNCHANGED hookVars
  PROVE  DoneInv'
<1>a. issueRow \in [Issues \X Key -> Derived] /\ listed \in [PRs -> PRState]
  BY DEF DoneInv, TypeOK, SyncTypeOK, StoreTypeOK
<1>b. SentGrows /\ Progresses
  BY DEF hookVars, SentGrows, Progresses
<1>c. \A p \in PRs : listed[p] = "merged" => Merged(p)
  BY DEF DoneInv, MergeIsSo
<1>d. \A p \in PRs : Nothing[p] # "merged"
  BY DEF Nothing
<1>1. remotePR' = remotePR
  BY DEF SyncStep, Begin, SyncIssues, ListPRs, StorePRs, SyncReviewsAndDeployments,
         ListRows, SetDerived, DerivedDone, Walk, StoreWalk, FetchCommits, StoreCommits,
         Stamp, Abandon, storeVars, remoteVars
<1>2. \/ listed' = listed \/ listed' = remotePR \/ listed' = Nothing
  BY DEF SyncStep, Begin, SyncIssues, ListPRs, StorePRs, SyncReviewsAndDeployments,
         ListRows, SetDerived, DerivedDone, Walk, StoreWalk, FetchCommits, StoreCommits,
         Stamp, Abandon, Return
<1>3. Keeps
  BY <1>1, <1>2, <1>c, <1>d DEF Keeps, Merged, MergedNow
<1>4. CASE issueRow' = issueRow
  BY <1>4, <1>3, <1>b, DoneKept DEF RowsBacked
<1>5. CASE SyncIssues
  BY <1>5, <1>a, <1>3, <1>b, UpsertBacked, DoneKept DEF SyncIssues
<1>6. ASSUME NEW r \in todo, SetDerived(r)
      PROVE  DoneInv'
  <2>1. CASE SetDerivedState({r}, Progress)
    <3>1. \A s \in Issues \X Key : (s \in {r} /\ Progress[s[1]] = "done") =>
            \E p \in PRs : s[1] \in Refs[p] /\ MergedNow(p)
      BY <1>1, <1>c DEF Progress, ListedFor, Merged, MergedNow
    <3> QED
      BY <2>1, <3>1, <1>a, <1>3, <1>b, SetBacked, DoneKept
  <2>2. CASE UNCHANGED issueRow
    BY <2>2, <1>4
  <2> QED
    BY <1>6, <2>1, <2>2 DEF SetDerived
<1> QED
  BY <1>4, <1>5, <1>6
     DEF SyncStep, Begin, ListPRs, StorePRs, SyncReviewsAndDeployments, ListRows,
         DerivedDone, Walk, StoreWalk, FetchCommits, StoreCommits, Stamp, Abandon,
         storeVars, rowVars

LEMMA DoneStep ==
  ASSUME DoneInv, [Next]_vars
  PROVE  DoneInv'
<1>t. TypeOK'
  BY TypeStep DEF DoneInv
<1>a. /\ issueRow \in [Issues \X Key -> Derived] /\ listed \in [PRs -> PRState]
      /\ remotePR \in [PRs -> PRState] /\ phase \in [Id -> Phase] /\ sent \in Seq(Payload)
      /\ Len(sent) <= MaxDeliveries
  BY DEF DoneInv, TypeOK, SyncTypeOK, StoreTypeOK
<1>b. \A p \in PRs : listed[p] = "merged" => Merged(p)
  BY DEF DoneInv, MergeIsSo
<1>c. UNCHANGED sent => SentGrows
  BY DEF SentGrows
<1>d. UNCHANGED phase => Progresses
  BY DEF Progresses
<1>e. UNCHANGED issueRow => RowsBacked
  BY DEF RowsBacked
<1>f. UNCHANGED <<remotePR, listed>> => Keeps
  BY <1>b DEF Keeps, Merged, MergedNow
<1>1. ASSUME NEW p \in PRs, NEW s \in PRState, PREvent(p, s)
      PROVE  DoneInv'
  <2> DEFINE d == [kind |-> "pull_request", of |-> p, state |-> s]
  <2>1. remotePR' = [remotePR EXCEPT ![p] = s] /\ remotePR[p] # "merged"
        /\ UNCHANGED <<listed, issueRow, phase>> /\ Send(d) /\ d \in Payload
    BY <1>1 DEF PREvent, MovePR, Moves, jobVars, rowVars, Send, Payload
  <2>2. Keeps
    BY <1>a, <1>b, <2>1 DEF Keeps, Merged, MergedNow
  <2>3. SaysMerged(d) => MergedNow(d.of)
    BY <1>a, <2>1 DEF Merged, MergedNow, SaysMerged
  <2> QED
    BY <1>t, <1>a, <1>d, <1>e, <2>1, <2>2, <2>3, SendGrows, DoneKept
<1>2. ASSUME NEW d \in Payload, ~SaysMerged(d), Send(d),
             UNCHANGED <<remotePR, listed, issueRow>>
      PROVE  DoneInv'
  <2>1. UNCHANGED phase
    BY <1>2 DEF Send
  <2> QED
    BY <1>2, <2>1, <1>t, <1>a, <1>d, <1>e, <1>f, SendGrows, DoneKept
<1>3. ASSUME NEW c \in Commits, NEW e \in Time, PushEvent(c, e)
      PROVE  DoneInv'
  <2>1. [kind |-> "push", of |-> c] \in Payload /\ ~SaysMerged([kind |-> "push", of |-> c])
    BY DEF Payload, SaysMerged
  <2> QED
    BY <1>2, <1>3, <2>1 DEF PushEvent, PushCommit, rowVars, jobVars
<1>4. ASSUME NEW i \in Issues, IssueEvent(i)
      PROVE  DoneInv'
  <2>1. [kind |-> "issues", of |-> i] \in Payload /\ ~SaysMerged([kind |-> "issues", of |-> i])
    BY DEF Payload, SaysMerged
  <2> QED
    BY <1>2, <1>4, <2>1 DEF IssueEvent, syncVars, storeVars, remoteVars, rowVars, jobVars
<1>5. ASSUME NEW n \in Id, Goto(n, "process") \/ Goto(n, "sent") \/ Goto(n, "duplicate")
                             \/ Goto(n, "failed") \/ Goto(n, "answered")
      PROVE  Progresses
  BY <1>5, <1>a DEF Goto, Progresses
<1>6. ASSUME NEW n \in Id, Redeliver(n) \/ Receive(n) \/ ProcessFails(n) \/ Forget(n)
      PROVE  DoneInv'
  <2>1. UNCHANGED <<remotePR, listed, issueRow, sent>>
    BY <1>6 DEF Redeliver, Receive, ProcessFails, Forget, syncVars, storeVars, remoteVars,
                rowVars, jobVars
  <2>2. Progresses
    BY <1>6, <1>5, <1>d DEF Redeliver, Receive, ProcessFails, Forget
  <2> QED
    BY <2>1, <2>2, <1>t, <1>c, <1>e, <1>f, DoneKept
<1>7. ASSUME NEW n \in Id, ProcessDelivery(n)
      PROVE  DoneInv'
  <2>1. UNCHANGED <<remotePR, listed, sent>> /\ Apply(sent[n])
    BY <1>7 DEF ProcessDelivery, remoteVars, jobVars
  <2>2. Progresses
    BY <1>7, <1>a DEF ProcessDelivery, Progresses, Goto, At
  <2>3. RowsBacked
    <3>1. CASE UNCHANGED issueRow
      BY <3>1, <1>e
    <3>2. ASSUME NEW rows, UpsertIssues(rows)
          PROVE  RowsBacked
      BY <3>2, <1>a, UpsertBacked
    <3> QED
      BY <2>1, <3>1, <3>2 DEF Apply
  <2> QED
    BY <2>1, <2>2, <2>3, <1>t, <1>c, <1>f, DoneKept
<1>8. ASSUME NEW n \in Id, ApplyIssueAutoProgress(n)
      PROVE  DoneInv'
  <2> DEFINE derived == IF sent[n].state = "merged" THEN "done" ELSE "in_progress"
             rows    == IF sent[n].state = "closed" THEN {} ELSE RowsOf(Refs[sent[n].of])
  <2>1. UNCHANGED <<remotePR, listed, sent>> /\ n \in 1..Len(sent)
    BY <1>8 DEF ApplyIssueAutoProgress, remoteVars, jobVars, At
  <2>2. Progresses
    BY <1>8, <1>5 DEF ApplyIssueAutoProgress
  <2>3. sent[n].kind = "pull_request" /\ sent[n] \in Payload
    BY <1>8, <1>a, <2>1 DEF DoneInv, MergeIsSo, ApplyIssueAutoProgress, At
  <2>4. sent[n].of \in PRs
    BY <2>3 DEF Payload
  <2>5. sent[n].state = "merged" => MergedNow(sent[n].of)
    BY <2>1, <2>3 DEF DoneInv, MergeIsSo, SaysMerged, Merged, MergedNow
  <2>6. \E S \in SUBSET rows : SetDerivedState(S, [i \in Issues |-> derived])
    BY <1>8 DEF ApplyIssueAutoProgress
  <2>7. PICK S \in SUBSET rows : SetDerivedState(S, [i \in Issues |-> derived])
    BY <2>6
  <2>8. \A r \in S : r[1] \in Refs[sent[n].of]
    BY DEF RowsOf
  <2>9. \A r \in Issues \X Key : (r \in S /\ [i \in Issues |-> derived][r[1]] = "done") =>
          \E p \in PRs : r[1] \in Refs[p] /\ MergedNow(p)
    BY <2>4, <2>5, <2>8
  <2>10. RowsBacked
    BY <2>7, <2>9, <1>a, SetBacked
  <2> QED
    BY <2>1, <2>2, <2>10, <1>t, <1>c, <1>f, DoneKept
<1>9. CASE Restart
  <2>1. UNCHANGED <<remotePR, issueRow, sent>> /\ listed' = Nothing
    BY <1>9 DEF Restart, Return, storeVars, remoteVars, rowVars
  <2>2. Progresses
    BY <1>9, <1>a DEF Restart, Progresses
  <2>3. Keeps
    BY <2>1 DEF Keeps, Merged, MergedNow, Nothing
  <2> QED
    BY <2>1, <2>2, <2>3, <1>t, <1>c, <1>e, DoneKept
<1>10. CASE UNCHANGED vars \/ (Tick /\ UNCHANGED hookVars)
  <2>1. UNCHANGED <<remotePR, listed, issueRow, sent, phase>>
    BY <1>10 DEF vars, Tick, syncVars, hookVars, storeVars, remoteVars, rowVars, jobVars
  <2> QED
    BY <2>1, <1>t, <1>c, <1>d, <1>e, <1>f, DoneKept
<1> QED
  BY <1>t, <1>1, <1>3, <1>4, <1>6, <1>7, <1>8, <1>9, <1>10, DoneSyncStep
     DEF Next, Platform, Hook

\* An issue is done only once a pull request that refers to it was merged, for any
\* number of deliveries in any order beside the passes.
THEOREM DoneHasMerge == Spec => []DoneIsBacked
<1>1. Init => DoneInv
  <2> SUFFICES ASSUME Init PROVE DoneInv
    OBVIOUS
  <2>1. TypeOK
    BY TypeInit
  <2>2. MergeIsSo
    BY DEF Init, SyncInit, MergeIsSo, Nothing, Phase
  <2> QED
    BY <2>1, <2>2 DEF Init, SyncInit, StoreInit, DoneInv, DoneIsBacked
<1> QED
  BY <1>1, DoneStep, PTL DEF Spec, DoneInv


(***************************************************************************)
(* The cutoff.  A pass reads what is dated from the cutoff on; when it     *)
(* stamps, whatever it saw and did not store is named, and whatever it did *)
(* not see is late.                                                        *)
(***************************************************************************)
Missed(c) == \E why \in DOMAIN missed : c \in missed[why]
MissedNow(c) == \E why \in DOMAIN missed' : c \in missed'[why]

ReadIsHeld ==
  /\ there \subseteq pushed
  /\ pc # "idle" => since = cutoff
  /\ pc = "tree" => Recent(there) \subseteq fetched
  /\ pc = "page" => Recent(there \cap MainBranch) \subseteq fetched
  /\ (pc = "stamp" /\ complete) =>
       \A c \in there \ stored : dated[c] < since \/ Missed(c)

CutoffInv == TypeOK /\ ReadIsHeld /\ CutoffCovers

LEMMA MissGrows ==
  ASSUME missed \in [{"late", "branch", "unstored"} -> SUBSET Commits],
         NEW why \in {"late", "branch", "unstored"}, NEW cs \in SUBSET Commits, Miss(why, cs)
  PROVE  /\ \A c \in Commits : Missed(c) => MissedNow(c)
         /\ \A c \in cs : MissedNow(c)
<1>1. DOMAIN missed = {"late", "branch", "unstored"}
      /\ DOMAIN missed' = {"late", "branch", "unstored"}
  BY DEF Miss
<1>2. \A w \in DOMAIN missed : missed[w] \subseteq missed'[w]
  BY <1>1 DEF Miss
<1>3. cs \subseteq missed'[why]
  BY <1>1 DEF Miss
<1> QED
  BY <1>1, <1>2, <1>3 DEF Missed, MissedNow

\* A step beside the pass: commits are pushed or stored.
LEMMA BesideKept ==
  ASSUME CutoffInv, TypeOK',
         UNCHANGED <<pc, since, complete, fetched, there, cutoff>>,
         pushed \subseteq pushed', stored \subseteq stored',
         \A c \in pushed : dated'[c] = dated[c],
         \A c \in Commits : Missed(c) => MissedNow(c),
         \A c \in pushed' \ pushed : dated'[c] < cutoff => MissedNow(c)
  PROVE  CutoffInv'
<1>1. there \subseteq Commits /\ pushed \subseteq Commits /\ stored \subseteq Commits
  BY DEF CutoffInv, TypeOK, SyncTypeOK, StoreTypeOK
<1>2. ReadIsHeld'
  BY <1>1 DEF CutoffInv, ReadIsHeld, Recent, Missed, MissedNow
<1>3. CutoffCovers'
  BY <1>1 DEF CutoffInv, CutoffCovers, Missed, MissedNow
<1> QED
  BY <1>2, <1>3 DEF CutoffInv

\* A step of the pass that reads and stores no commit.
LEMMA ElseKept ==
  ASSUME CutoffInv, TypeOK', UNCHANGED <<remoteVars, stored, cutoff, missed, there>>,
         \/ pc' \notin {"idle", "tree", "page", "stamp"} /\ since' = cutoff
         \/ pc' = "idle"
         \/ pc' = "stamp" /\ ~complete' /\ since' = cutoff
  PROVE  CutoffInv'
<1>1. ReadIsHeld'
  BY DEF CutoffInv, ReadIsHeld, remoteVars
<1>2. CutoffCovers'
  BY DEF CutoffInv, CutoffCovers, remoteVars
<1> QED
  BY <1>1, <1>2 DEF CutoffInv

\* As above, but what was read is read anew or forgotten.
LEMMA ReadKept ==
  ASSUME CutoffInv, TypeOK', UNCHANGED <<remoteVars, stored, cutoff, missed>>,
         there' = pushed \/ there' = {},
         \/ pc' \notin {"idle", "tree", "page", "stamp"} /\ since' = cutoff
         \/ pc' = "idle"
         \/ pc' = "tree" /\ since' = cutoff /\ since' = since /\ fetched' = Recent(pushed)
         \/ pc' = "page" /\ since' = cutoff /\ since' = since
                         /\ fetched' = Recent(pushed \cap MainBranch)
         \/ pc' = "stamp" /\ ~complete' /\ since' = cutoff
  PROVE  CutoffInv'
<1>1. ReadIsHeld'
  BY DEF ReadIsHeld, remoteVars, Recent
<1>2. CutoffCovers'
  BY DEF CutoffInv, CutoffCovers, remoteVars
<1> QED
  BY <1>1, <1>2 DEF CutoffInv

LEMMA CutoffSyncStep ==
  ASSUME CutoffInv, TypeOK', SyncStep, UNCHANGED hookVars
  PROVE  CutoffInv'
<1>a. /\ since \in Int /\ cutoff \in Int /\ now \in Int /\ dated \in [Commits -> Int]
      /\ there \subseteq Commits /\ pushed \subseteq Commits /\ stored \subseteq Commits
      /\ missed \in [{"late", "branch", "unstored"} -> SUBSET Commits]
      /\ complete \in BOOLEAN
  BY DEF CutoffInv, TypeOK, SyncTypeOK, StoreTypeOK, Time
<1>b. pc # "idle" => since = cutoff
  BY DEF CutoffInv, ReadIsHeld
<1>1. CASE Begin
  BY <1>1, <1>b, ElseKept DEF Begin, Step, storeVars, rowVars
<1>2. CASE SyncIssues \/ ListPRs \/ StorePRs \/ SyncReviewsAndDeployments \/ ListRows
           \/ (\E r \in todo : SetDerived(r)) \/ DerivedDone
  <2>1. UNCHANGED <<remoteVars, stored, cutoff, missed, there, since>>
    BY <1>2 DEF SyncIssues, ListPRs, StorePRs, SyncReviewsAndDeployments, ListRows,
                SetDerived, DerivedDone, storeVars, rowVars, histVars
  <2>2. pc # "idle" /\ pc' \notin {"idle", "tree", "page", "stamp"}
    BY <1>2 DEF SyncIssues, ListPRs, StorePRs, SyncReviewsAndDeployments, ListRows,
                SetDerived, DerivedDone, Step
  <2> QED
    BY <1>b, <2>1, <2>2, ElseKept
<1>3. CASE Walk
  BY <1>3, <1>b, ReadKept DEF Walk, storeVars, rowVars
<1>4. CASE StoreWalk
  <2>1. CASE pc' = "api" /\ UNCHANGED stored
    BY <1>4, <2>1, <1>b, ElseKept DEF StoreWalk
  <2>2. CASE pc' = "stamp" /\ UpsertCommits(fetched)
    <3>1. /\ UNCHANGED <<remoteVars, cutoff, missed, there, since, complete>>
          /\ Recent(there) \subseteq fetched /\ pc = "tree"
      BY <1>4, <2>2 DEF StoreWalk, CutoffInv, ReadIsHeld
    <3>2. stored' = stored \cup fetched
      BY <2>2 DEF UpsertCommits
    <3>3. \A c \in there \ stored' : dated[c] < since
      BY <1>a, <3>1, <3>2 DEF Recent
    <3>4. ReadIsHeld'
      BY <1>b, <2>2, <3>1, <3>3 DEF CutoffInv, ReadIsHeld, remoteVars
    <3>5. CutoffCovers'
      BY <3>1, <3>2 DEF CutoffInv, CutoffCovers, remoteVars
    <3> QED
      BY <3>4, <3>5 DEF CutoffInv
  <2> QED
    BY <1>4, <2>1, <2>2 DEF StoreWalk
<1>5. CASE FetchCommits
  <2>1. UNCHANGED <<remoteVars, stored, cutoff, missed, since>> /\ there' = pushed /\ pc = "api"
    BY <1>5 DEF FetchCommits, storeVars, rowVars
  <2>2. \/ pc' = "page" /\ fetched' = Recent(pushed \cap MainBranch)
        \/ pc' = "stamp" /\ ~complete'
    BY <1>5 DEF FetchCommits
  <2> QED
    BY <2>1, <2>2, <1>b, ReadKept
<1>6. CASE StoreCommits
  <2>1. /\ UNCHANGED <<remoteVars, cutoff, there, since, complete>>
        /\ Recent(there \cap MainBranch) \subseteq fetched /\ pc = "page" /\ pc' = "stamp"
    BY <1>6 DEF StoreCommits, Step, CutoffInv, ReadIsHeld
  <2>2. stored \subseteq stored'
    BY <1>6 DEF StoreCommits, UpsertCommits
  <2>3. /\ \A c \in Commits : Missed(c) => MissedNow(c)
        /\ \A c \in there \ stored' : dated[c] < since \/ MissedNow(c)
    <3>1. CASE UpsertCommits(fetched) /\ Miss("branch", Recent(there \ MainBranch))
      <4>1. stored' = stored \cup fetched
        BY <3>1 DEF UpsertCommits
      <4>2. Recent(there \ MainBranch) \in SUBSET Commits
        BY <1>a, RecentType
      <4>3. /\ \A c \in Commits : Missed(c) => MissedNow(c)
            /\ \A c \in Recent(there \ MainBranch) : MissedNow(c)
        BY <1>a, <3>1, <4>2, MissGrows
      <4>4. \A c \in there : c \in Recent(there \ MainBranch) \/ dated[c] < since
                             \/ c \in Recent(there \cap MainBranch)
        BY <1>a DEF Recent
      <4> QED
        BY <2>1, <4>1, <4>3, <4>4
    <3>2. CASE Miss("unstored", Recent(there))
      <4>1. Recent(there) \in SUBSET Commits
        BY <1>a, RecentType
      <4>2. /\ \A c \in Commits : Missed(c) => MissedNow(c)
            /\ \A c \in Recent(there) : MissedNow(c)
        BY <1>a, <3>2, <4>1, MissGrows
      <4>3. \A c \in there : c \in Recent(there) \/ dated[c] < since
        BY <1>a DEF Recent
      <4> QED
        BY <4>2, <4>3
    <3> QED
      BY <1>6, <3>1, <3>2 DEF StoreCommits
  <2>4. ReadIsHeld'
    BY <1>b, <2>1, <2>3 DEF CutoffInv, ReadIsHeld, remoteVars, Missed, MissedNow
  <2>5. CutoffCovers'
    BY <1>a, <2>1, <2>2, <2>3 DEF CutoffInv, CutoffCovers, remoteVars, Missed, MissedNow
  <2> QED
    BY <2>4, <2>5 DEF CutoffInv
<1>7. CASE Stamp
  <2>1. UNCHANGED <<remoteVars, stored>> /\ there' = {} /\ pc = "stamp" /\ pc' = "idle"
    BY <1>7 DEF Stamp, Step, Return
  <2>2. CASE UNCHANGED <<cutoff, missed>>
    BY <2>1, <2>2, ReadKept
  <2>3. CASE complete /\ UpdateRepoSyncedAt
             /\ Miss("late", {c \in pushed \ there : dated[c] < now})
    <3> DEFINE late == {c \in pushed \ there : dated[c] < now}
    <3>1. late \in SUBSET Commits
      BY <1>a
    <3>2. /\ \A c \in Commits : Missed(c) => MissedNow(c)
          /\ \A c \in late : MissedNow(c)
      BY <1>a, <2>3, <3>1, MissGrows
    <3>3. \A c \in there \ stored : dated[c] < cutoff \/ Missed(c)
      BY <1>b, <2>1, <2>3 DEF CutoffInv, ReadIsHeld
    <3>4. \A c \in pushed \ stored : dated[c] < now => MissedNow(c)
      BY <1>a, <3>2, <3>3 DEF CutoffInv, CutoffCovers, Missed
    <3>5. CutoffCovers'
      BY <2>1, <2>3, <3>4 DEF CutoffCovers, UpdateRepoSyncedAt, remoteVars, MissedNow
    <3>6. ReadIsHeld'
      BY <2>1 DEF ReadIsHeld
    <3> QED
      BY <3>5, <3>6 DEF CutoffInv
  <2> QED
    BY <1>7, <2>2, <2>3 DEF Stamp
<1>8. CASE Abandon
  BY <1>8, ReadKept DEF Abandon, Return, storeVars, rowVars
<1> QED
  BY <1>1, <1>2, <1>3, <1>4, <1>5, <1>6, <1>7, <1>8 DEF SyncStep

LEMMA CutoffStep ==
  ASSUME CutoffInv, [Next]_vars
  PROVE  CutoffInv'
<1>t. TypeOK'
  BY TypeStep DEF CutoffInv
<1>a. /\ pushed \subseteq Commits /\ dated \in [Commits -> Time]
      /\ missed \in [{"late", "branch", "unstored"} -> SUBSET Commits]
  BY DEF CutoffInv, TypeOK, SyncTypeOK, StoreTypeOK
<1>b. UNCHANGED missed => \A c \in Commits : Missed(c) => MissedNow(c)
  BY DEF Missed, MissedNow
<1>1. ASSUME NEW c \in Commits, NEW d \in Time, PushEvent(c, d)
      PROVE  CutoffInv'
  <2>1. /\ UNCHANGED <<pc, since, complete, fetched, there, cutoff, stored>>
        /\ c \notin pushed /\ pushed' = pushed \cup {c} /\ dated' = [dated EXCEPT ![c] = d]
    BY <1>1 DEF PushEvent, PushCommit, Push, jobVars, rowVars
  <2>2. /\ \A e \in Commits : Missed(e) => MissedNow(e)
        /\ d < cutoff => MissedNow(c)
    <3>1. CASE d < cutoff
      <4>1. Miss("late", {c})
        BY <1>1, <3>1 DEF PushEvent, PushCommit
      <4> QED
        BY <4>1, <1>a, MissGrows
    <3>2. CASE ~(d < cutoff)
      BY <1>1, <3>2, <1>b DEF PushEvent, PushCommit
    <3> QED
      BY <3>1, <3>2
  <2> QED
    BY <2>1, <2>2, <1>t, <1>a, BesideKept
<1>2. ASSUME UNCHANGED <<pushed, dated, pc, since, complete, fetched, there, cutoff,
                         missed>>,
             stored \subseteq stored'
      PROVE  CutoffInv'
  BY <1>2, <1>t, <1>b, BesideKept
<1>3. CASE \E p \in PRs, s \in PRState : PREvent(p, s)
  BY <1>3, <1>2 DEF PREvent, MovePR, rowVars, jobVars
<1>4. CASE \E i \in Issues : IssueEvent(i)
  BY <1>4, <1>2 DEF IssueEvent, syncVars, storeVars, remoteVars, rowVars, jobVars, histVars
<1>5. CASE \E n \in Id : Redeliver(n) \/ Receive(n) \/ ProcessFails(n) \/ Forget(n)
  BY <1>5, <1>2 DEF Redeliver, Receive, ProcessFails, Forget, syncVars, storeVars,
                    remoteVars, rowVars, jobVars, histVars
<1>6. CASE Tick /\ UNCHANGED hookVars
  BY <1>6, <1>2 DEF Tick, remoteVars, rowVars, jobVars, histVars
<1>7. CASE \E n \in Id : ProcessDelivery(n)
  <2> PICK n \in Id : ProcessDelivery(n)
    BY <1>7
  <2>1. stored \subseteq stored'
    BY DEF ProcessDelivery, Apply, UpsertCommits
  <2> QED
    BY <2>1, <1>2 DEF ProcessDelivery, remoteVars, jobVars
<1>8. CASE \E n \in Id : ApplyIssueAutoProgress(n)
  BY <1>8, <1>2 DEF ApplyIssueAutoProgress, remoteVars, jobVars
<1>9. CASE Restart
  BY <1>9, <1>t, ReadKept DEF Restart, Return, storeVars, rowVars
<1>10. CASE UNCHANGED vars
  BY <1>10, <1>2 DEF vars, syncVars, storeVars, remoteVars, rowVars, jobVars, histVars
<1> QED
  BY <1>t, <1>1, <1>3, <1>4, <1>5, <1>6, <1>7, <1>8, <1>9, <1>10, CutoffSyncStep
     DEF Next, Platform, Hook

\* However passes fail and pushes fall between their steps, a commit the cutoff skips
\* was pushed late, or lost to a failed clone or a failed transaction.
THEOREM CutoffSkipsOnlyNamed == Spec => []CutoffCovers
<1>1. Init => CutoffInv
  <2> SUFFICES ASSUME Init PROVE CutoffInv
    OBVIOUS
  <2>1. TypeOK
    BY TypeInit
  <2> QED
    BY <2>1 DEF Init, SyncInit, StoreInit, CutoffInv, ReadIsHeld, CutoffCovers
<1> QED
  BY <1>1, CutoffStep, PTL DEF Spec, CutoffInv


(***************************************************************************)
(* A pass that nothing interferes with.  What it listed is what the        *)
(* platform has, each part it wrote agrees with that, and the next passes  *)
(* write the same again.                                                   *)
(***************************************************************************)
Opened(p) == remotePR[p] # "none"
OpenedNow(p) == remotePR'[p] # "none"

\* What gitstate has heard of has been opened.
OnlyOpened ==
  /\ \A p \in PRs : listed[p] # "none" \/ prRow[p] # "none" => Opened(p)
  /\ \A n \in 1..Len(sent) : sent[n].kind = "pull_request" => Opened(sent[n].of)

PRsAgree == \A p \in PRs : prRow[p] = remotePR[p]
IssuesKnown == \A i \in Issues : issueRow[<<i, "id">>] # "absent"
DerivedSoFar == \A r \in RowsOf(Linked) \ todo : issueRow[r] = Progress[r[1]]

\* An issue some pull request in this state refers to, and the state that gives it.
LinkedBy(i, state) == \E p \in PRs : i \in Refs[p] /\ remotePR[p] = state
RightState(i, derived) ==
  /\ LinkedBy(i, "merged") => derived = "done"
  /\ LinkedBy(i, "open") /\ ~LinkedBy(i, "merged") => derived = "in_progress"
Untouched(i) == ~LinkedBy(i, "merged") /\ ~LinkedBy(i, "open")

PassHolds ==
  settled # "no" =>
    /\ pc = "idle" => settled = "yes"
    /\ pc \in {"prs", "reviews", "rows", "derive"} => listed = remotePR
    /\ pc \notin {"idle", "issues"} => IssuesKnown
    /\ pc \in {"reviews", "rows", "derive"} => PRsAgree
    /\ pc = "derive" => DerivedSoFar
    /\ pc \in {"walk", "tree", "api", "page", "stamp"} => Agrees
    /\ settled = "yes" => Agrees

PassInv == TypeOK /\ OnlyOpened /\ PassHolds

\* The derived states are those of the listing.
LEMMA ProgressOf ==
  ASSUME listed = remotePR, NEW i \in Issues
  PROVE  Progress[i] # "absent" /\ RightState(i, Progress[i]) /\ (i \notin Linked => Untouched(i))
BY DEF Progress, ListedFor, RightState, Untouched, LinkedBy, Linked

LEMMA AgreesMeans ==
  Agrees <=> /\ PRsAgree /\ IssuesKnown
             /\ \A i \in Issues : \A r \in RowsOf({i}) : RightState(i, issueRow[r])
BY DEF Agrees, PRsAgree, IssuesKnown, RightState, LinkedBy

LEMMA AgreesNow ==
  Agrees' <=> /\ PRsAgree' /\ IssuesKnown'
              /\ \A i \in Issues : \A r \in RowsOf({i})' : RightState(i, issueRow[r])'
BY DEF Agrees, PRsAgree, IssuesKnown, RightState, LinkedBy

LEMMA AllDerived ==
  ASSUME listed = remotePR, PRsAgree, IssuesKnown, DerivedSoFar, todo = {}
  PROVE  Agrees
<1> SUFFICES ASSUME NEW i \in Issues, NEW r \in RowsOf({i})
             PROVE  RightState(i, issueRow[r])
  BY AgreesMeans
<1>1. r[1] = i /\ r \in Issues \X Key /\ issueRow[r] # "absent"
  BY DEF RowsOf
<1>2. i \in Linked => issueRow[r] = Progress[i]
  BY <1>1 DEF DerivedSoFar, RowsOf
<1> QED
  BY <1>2, ProgressOf DEF RightState, Untouched

\* Writing a derived state disturbs no row that agrees.
LEMMA DerivedAgrees ==
  ASSUME issueRow \in [Issues \X Key -> Derived], listed = remotePR,
         NEW r \in Issues \X Key, SetDerivedState({r}, Progress), UNCHANGED <<prRow, remotePR>>
  PROVE  /\ IssuesKnown => IssuesKnown'
         /\ Agrees => Agrees'
<1>1. issueRow' = [issueRow EXCEPT ![r] = Progress[r[1]]]
  BY DEF SetDerivedState
<1>2. Progress[r[1]] # "absent"
  BY ProgressOf
<1>3. IssuesKnown => IssuesKnown'
  <2>1. \A i \in Issues : <<i, "id">> \in Issues \X Key
    BY DEF Key
  <2>2. \A s \in Issues \X Key : issueRow[s] # "absent" => issueRow'[s] # "absent"
    BY <1>1, <1>2
  <2> QED
    BY <2>1, <2>2 DEF IssuesKnown
<1>4. ASSUME Agrees PROVE Agrees'
  <2>1. IssuesKnown /\ IssuesKnown'
    BY <1>3, <1>4 DEF Agrees, IssuesKnown
  <2>2. ASSUME NEW i \in Issues, NEW s \in RowsOf({i})'
        PROVE  RightState(i, issueRow'[s])
    <3>1. s \in Issues \X Key /\ s[1] = i /\ issueRow'[s] # "absent"
      BY <2>2 DEF RowsOf
    <3>2. CASE s = r
      BY <1>1, <3>1, <3>2, ProgressOf
    <3>3. CASE s # r
      <4>1. issueRow'[s] = issueRow[s] /\ s \in RowsOf({i})
        BY <1>1, <2>2, <3>1, <3>3 DEF RowsOf
      <4> QED
        BY <1>4, <4>1, AgreesMeans
    <3> QED
      BY <3>2, <3>3
  <2>3. \A i \in Issues : \A s \in RowsOf({i})' : RightState(i, issueRow[s])'
    BY <2>2 DEF RightState, LinkedBy
  <2>4. PRsAgree'
    BY <1>4, AgreesMeans DEF PRsAgree
  <2> QED
    BY <2>1, <2>3, <2>4, AgreesNow
<1> QED
  BY <1>3, <1>4

LEMMA OpenedStep ==
  ASSUME PassInv, [Next]_vars
  PROVE  OnlyOpened'
<1>a. /\ remotePR \in [PRs -> PRState] /\ listed \in [PRs -> PRState]
      /\ prRow \in [PRs -> PRState] /\ sent \in Seq(Payload)
  BY DEF PassInv, TypeOK, SyncTypeOK, StoreTypeOK
<1>b. \A n \in 1..Len(sent) : sent[n].kind = "pull_request" => sent[n].of \in PRs
  BY <1>a DEF Payload
<1>1. ASSUME NEW p \in PRs, NEW s \in PRState, PREvent(p, s)
      PROVE  OnlyOpened'
  <2> DEFINE d == [kind |-> "pull_request", of |-> p, state |-> s]
  <2>1. /\ remotePR' = [remotePR EXCEPT ![p] = s] /\ s # "none"
        /\ UNCHANGED <<listed, prRow>> /\ Send(d)
    BY <1>1, <1>a DEF PREvent, MovePR, Moves, jobVars, rowVars, PRState
  <2>2. \A q \in PRs : Opened(q) => OpenedNow(q)
    BY <1>a, <2>1 DEF Opened, OpenedNow
  <2>3. CASE sent' = sent
    BY <1>b, <2>1, <2>2, <2>3 DEF PassInv, OnlyOpened, Opened, OpenedNow
  <2>4. CASE sent' = Append(sent, d)
    <3>1. /\ Len(sent') = Len(sent) + 1 /\ Len(sent) \in Nat
          /\ \A n \in 1..Len(sent) : sent'[n] = sent[n]
          /\ sent'[Len(sent) + 1] = d
      BY <1>a, <2>4
    <3>2. \A n \in 1..Len(sent') : n = Len(sent) + 1 \/ n \in 1..Len(sent)
      BY <3>1
    <3>3. OpenedNow(p) /\ d.of = p
      BY <1>a, <2>1 DEF OpenedNow
    <3> QED
      BY <1>b, <2>1, <2>2, <3>1, <3>2, <3>3 DEF PassInv, OnlyOpened, Opened, OpenedNow
  <2> QED
    BY <2>1, <2>3, <2>4 DEF Send
<1>2. ASSUME NEW d \in Payload, d.kind # "pull_request", Send(d),
             UNCHANGED <<remotePR, listed, prRow>>
      PROVE  OnlyOpened'
  <2>1. CASE sent' = sent
    BY <1>2, <2>1 DEF PassInv, OnlyOpened, Opened
  <2>2. CASE sent' = Append(sent, d)
    <3>1. /\ Len(sent') = Len(sent) + 1 /\ Len(sent) \in Nat
          /\ \A n \in 1..Len(sent) : sent'[n] = sent[n]
          /\ sent'[Len(sent) + 1] = d
      BY <1>a, <2>2
    <3>2. \A n \in 1..Len(sent') : n = Len(sent) + 1 \/ n \in 1..Len(sent)
      BY <3>1
    <3> QED
      BY <1>2, <3>1, <3>2 DEF PassInv, OnlyOpened, Opened
  <2> QED
    BY <1>2, <2>1, <2>2 DEF Send
<1>3. ASSUME NEW c \in Commits, NEW e \in Time, PushEvent(c, e)
      PROVE  OnlyOpened'
  <2>1. [kind |-> "push", of |-> c] \in Payload
    BY DEF Payload
  <2> QED
    BY <1>2, <1>3, <2>1 DEF PushEvent, PushCommit, rowVars, jobVars
<1>4. ASSUME NEW i \in Issues, IssueEvent(i)
      PROVE  OnlyOpened'
  <2>1. [kind |-> "issues", of |-> i] \in Payload
    BY DEF Payload
  <2> QED
    BY <1>2, <1>4, <2>1 DEF IssueEvent, syncVars, storeVars, remoteVars, rowVars, jobVars
<1>5. ASSUME UNCHANGED <<remotePR, sent>>,
             listed' \in {listed, remotePR, Nothing},
             prRow' = prRow \/ UpsertPRs(listed)
      PROVE  OnlyOpened'
  <2>1. \A p \in PRs : listed'[p] # "none" => Opened(p)
    BY <1>5 DEF PassInv, OnlyOpened, Opened, Nothing
  <2>2. \A p \in PRs : prRow'[p] # "none" => Opened(p)
    BY <1>5 DEF PassInv, OnlyOpened, UpsertPRs
  <2> QED
    BY <1>5, <2>1, <2>2 DEF PassInv, OnlyOpened, Opened
<1>6. ASSUME NEW n \in Id, ProcessDelivery(n)
      PROVE  OnlyOpened'
  <2>1. UNCHANGED <<remotePR, listed, sent>> /\ Apply(sent[n]) /\ n \in 1..Len(sent)
    BY <1>6 DEF ProcessDelivery, remoteVars, jobVars, At
  <2>2. ASSUME NEW p \in PRs, prRow'[p] # "none" PROVE Opened(p)
    <3>1. CASE prRow' = prRow
      BY <2>2, <3>1 DEF PassInv, OnlyOpened
    <3>2. CASE sent[n].kind = "pull_request"
      <4>1. Opened(sent[n].of) /\ sent[n].of \in PRs
        BY <1>b, <2>1, <3>2 DEF PassInv, OnlyOpened
      <4>2. prRow'[p] = IF [Nothing EXCEPT ![sent[n].of] = sent[n].state][p] = "none"
                        THEN prRow[p] ELSE [Nothing EXCEPT ![sent[n].of] = sent[n].state][p]
        BY <2>1, <3>2 DEF Apply, UpsertPRs
      <4>3. p # sent[n].of => prRow'[p] = prRow[p]
        BY <4>2 DEF Nothing
      <4> QED
        BY <2>2, <4>1, <4>3 DEF PassInv, OnlyOpened
    <3> QED
      BY <2>1, <3>1, <3>2 DEF Apply
  <2> QED
    BY <2>1, <2>2 DEF PassInv, OnlyOpened, Opened
<1>7. CASE SyncStep /\ UNCHANGED hookVars
  <2>1. UNCHANGED <<remotePR, sent>>
    BY <1>7 DEF SyncStep, Begin, SyncIssues, ListPRs, StorePRs, SyncReviewsAndDeployments,
           ListRows, SetDerived, DerivedDone, Walk, StoreWalk, FetchCommits, StoreCommits,
           Stamp, Abandon, storeVars, remoteVars, hookVars
  <2>2. listed' \in {listed, remotePR, Nothing}
    BY <1>7 DEF SyncStep, Begin, SyncIssues, ListPRs, StorePRs, SyncReviewsAndDeployments,
           ListRows, SetDerived, DerivedDone, Walk, StoreWalk, FetchCommits, StoreCommits,
           Stamp, Abandon, Return
  <2>3. prRow' = prRow \/ UpsertPRs(listed)
    BY <1>7 DEF SyncStep, Begin, SyncIssues, ListPRs, StorePRs, SyncReviewsAndDeployments,
           ListRows, SetDerived, DerivedDone, Walk, StoreWalk, FetchCommits, StoreCommits,
           Stamp, Abandon, storeVars, rowVars
  <2> QED
    BY <1>5, <2>1, <2>2, <2>3
<1>8. ASSUME NEW n \in Id, \/ Redeliver(n) \/ Receive(n) \/ ProcessFails(n) \/ Forget(n)
                           \/ ApplyIssueAutoProgress(n)
      PROVE  OnlyOpened'
  BY <1>8, <1>5 DEF Redeliver, Receive, ProcessFails, Forget, ApplyIssueAutoProgress,
                    syncVars, storeVars, remoteVars, rowVars, jobVars
<1>9. CASE Restart \/ UNCHANGED vars \/ (Tick /\ UNCHANGED hookVars)
  BY <1>9, <1>5 DEF Restart, Return, Tick, vars, syncVars, hookVars, storeVars, remoteVars,
                    rowVars, jobVars
<1> QED
  BY <1>1, <1>3, <1>4, <1>6, <1>7, <1>8, <1>9 DEF Next, Platform, Hook

\* The steps of a pass that write no row of an issue or a pull request.
LEMMA RowsKept ==
  ASSUME PassInv, UNCHANGED <<remotePR, prRow, issueRow>>,
         settled' # "no" =>
           /\ settled' = "yes" => Agrees
           /\ pc' = "idle" => settled' = "yes"
           /\ pc' \in {"prs", "reviews", "rows", "derive"} => listed' = remotePR
           /\ pc' \notin {"idle", "issues"} => IssuesKnown
           /\ pc' \in {"reviews", "rows", "derive"} => PRsAgree
           /\ pc' = "derive" => DerivedSoFar'
           /\ pc' \in {"walk", "tree", "api", "page", "stamp"} => Agrees
  PROVE  PassHolds'
<1>1. (Agrees' <=> Agrees) /\ (IssuesKnown' <=> IssuesKnown) /\ (PRsAgree' <=> PRsAgree)
  BY DEF Agrees, IssuesKnown, PRsAgree, RowsOf
<1> QED
  BY <1>1 DEF PassHolds

LEMMA PassSyncStep ==
  ASSUME PassInv, SyncStep
  PROVE  PassHolds'
<1>a. /\ issueRow \in [Issues \X Key -> Derived] /\ prRow \in [PRs -> PRState]
      /\ remotePR \in [PRs -> PRState] /\ settled \in {"no", "pass", "yes"}
      /\ todo \subseteq Issues \X Key
  BY DEF PassInv, TypeOK, SyncTypeOK, StoreTypeOK
<1>1. CASE Begin
  BY <1>1, <1>a, RowsKept DEF Begin, Step, storeVars, remoteVars, rowVars, PassInv, PassHolds
<1>2. CASE SyncIssues
  <2>1. CASE settled' = "no"
    BY <2>1 DEF PassHolds
  <2>2. CASE settled' # "no"
    <3>1. /\ UpsertIssues(Issues \X {"id"}) /\ pc = "issues" /\ pc' = "list"
          /\ UNCHANGED <<settled, remotePR, prRow>>
      BY <1>2, <2>2 DEF SyncIssues, Fault, Step, remoteVars
    <3>2. \A r \in Issues \X Key :
            issueRow'[r] = IF r \in Issues \X {"id"} /\ issueRow[r] = "absent"
                           THEN "none" ELSE issueRow[r]
      BY <1>a, <3>1 DEF UpsertIssues
    <3>3. IssuesKnown'
      BY <3>2 DEF IssuesKnown, Key
    <3>4. ASSUME Agrees PROVE Agrees'
      <4>1. IssuesKnown
        BY <3>4 DEF Agrees, IssuesKnown
      <4>2. \A r \in Issues \X Key : issueRow'[r] = issueRow[r]
        <5>1. \A r \in Issues \X {"id"} : r[1] \in Issues /\ r = <<r[1], "id">>
          OBVIOUS
        <5>2. \A r \in Issues \X {"id"} : issueRow[r] # "absent"
          BY <4>1, <5>1 DEF IssuesKnown
        <5> QED
          BY <3>2, <5>2
      <4>3. \A i \in Issues : RowsOf({i})' = RowsOf({i})
        BY <4>2 DEF RowsOf
      <4>4. \A i \in Issues : \A r \in RowsOf({i}) : issueRow'[r] = issueRow[r]
        BY <4>2 DEF RowsOf
      <4> QED
        BY <3>1, <3>3, <3>4, <4>3, <4>4 DEF Agrees, IssuesKnown
    <3> QED
      BY <3>1, <3>3, <3>4, <2>2 DEF PassInv, PassHolds
  <2> QED
    BY <2>1, <2>2
<1>3. CASE ListPRs
  BY <1>3, <1>a, RowsKept DEF ListPRs, Step, storeVars, remoteVars, rowVars, histVars, PassInv, PassHolds
<1>4. CASE StorePRs
  <2>1. CASE settled' = "no"
    BY <2>1 DEF PassHolds
  <2>2. CASE settled' # "no"
    <3>1. /\ UpsertPRs(listed) /\ pc = "prs" /\ pc' = "reviews"
          /\ UNCHANGED <<settled, remotePR, issueRow, listed>>
      BY <1>4, <2>2 DEF StorePRs, Fault, Step, remoteVars
    <3>2. listed = remotePR /\ IssuesKnown
      BY <3>1, <2>2 DEF PassInv, PassHolds
    <3>3. PRsAgree'
      BY <1>a, <3>1, <3>2 DEF PRsAgree, UpsertPRs, PassInv, OnlyOpened, Opened
    <3>4. IssuesKnown' /\ (Agrees => Agrees')
      BY <3>1, <3>2, <3>3 DEF IssuesKnown, Agrees, PRsAgree, RowsOf
    <3> QED
      BY <3>1, <3>2, <3>3, <3>4, <2>2 DEF PassInv, PassHolds
  <2> QED
    BY <2>1, <2>2
<1>5. CASE SyncReviewsAndDeployments
  BY <1>5, <1>a, RowsKept
  DEF SyncReviewsAndDeployments, Step, Fault, storeVars, remoteVars, rowVars, PassInv, PassHolds
<1>6. CASE ListRows
  <2>1. CASE settled' = "no"
    BY <2>1 DEF PassHolds
  <2>2. CASE settled' # "no"
    <3>1. /\ todo' = RowsOf(Linked) /\ pc = "rows" /\ pc' = "derive"
          /\ UNCHANGED <<settled, remotePR, prRow, issueRow, listed>>
      BY <1>6, <2>2 DEF ListRows, Fault, Step, storeVars, remoteVars, rowVars
    <3>2. DerivedSoFar'
      BY <3>1 DEF DerivedSoFar, RowsOf, Linked, Progress, ListedFor
    <3> QED
      BY <3>1, <3>2, <2>2, RowsKept DEF PassInv, PassHolds
  <2> QED
    BY <2>1, <2>2
<1>7. ASSUME NEW r \in todo, SetDerived(r)
      PROVE  PassHolds'
  <2>1. CASE settled' = "no"
    BY <2>1 DEF PassHolds
  <2>2. CASE settled' # "no"
    <3>1. /\ SetDerivedState({r}, Progress) /\ todo' = todo \ {r} /\ pc = "derive"
          /\ UNCHANGED <<pc, settled, remotePR, prRow, listed>> /\ r \in Issues \X Key
      BY <1>7, <1>a, <2>2 DEF SetDerived, Fault, remoteVars
    <3>2. listed = remotePR /\ IssuesKnown /\ PRsAgree /\ DerivedSoFar
      BY <3>1, <2>2 DEF PassInv, PassHolds
    <3>3. IssuesKnown' /\ (Agrees => Agrees')
      BY <1>a, <3>1, <3>2, DerivedAgrees
    <3>4. Progress' = Progress /\ Linked' = Linked
      BY <3>1 DEF Progress, ListedFor, Linked
    <3>5. issueRow' = [issueRow EXCEPT ![r] = Progress[r[1]]]
      BY <1>a, <3>1 DEF SetDerivedState
    <3>6. ASSUME NEW s \in RowsOf(Linked)', s \notin todo'
          PROVE  issueRow'[s] = Progress[s[1]]
      <4>1. s \in Issues \X Key /\ s[1] \in Linked /\ issueRow'[s] # "absent"
        BY <3>4, <3>6 DEF RowsOf, Linked
      <4>2. CASE s = r
        BY <1>a, <3>1, <3>5, <4>2
      <4>3. CASE s # r
        <5>1. issueRow'[s] = issueRow[s] /\ s \notin todo
          BY <1>a, <3>1, <3>5, <3>6, <4>1, <4>3
        <5>2. s \in RowsOf(Linked)
          BY <4>1, <5>1 DEF RowsOf
        <5> QED
          BY <3>2, <5>1, <5>2 DEF DerivedSoFar
      <4> QED
        BY <4>2, <4>3
    <3>7. DerivedSoFar'
      BY <3>4, <3>6 DEF DerivedSoFar
    <3>8. PRsAgree'
      BY <3>1, <3>2 DEF PRsAgree
    <3> QED
      BY <3>1, <3>2, <3>3, <3>7, <3>8, <2>2 DEF PassInv, PassHolds
  <2> QED
    BY <2>1, <2>2
<1>8. CASE DerivedDone
  <2>1. CASE settled = "no"
    BY <1>8, <2>1 DEF PassHolds, DerivedDone, histVars
  <2>2. CASE settled # "no"
    <3>1. /\ pc = "derive" /\ pc' = "walk" /\ todo = {}
          /\ UNCHANGED <<settled, remotePR, prRow, issueRow>>
      BY <1>8 DEF DerivedDone, Step, storeVars, remoteVars, rowVars, histVars
    <3>2. Agrees /\ IssuesKnown
      BY <3>1, <2>2, AllDerived DEF PassInv, PassHolds
    <3> QED
      BY <3>1, <3>2, RowsKept
  <2> QED
    BY <2>1, <2>2
<1>9. CASE Walk \/ StoreWalk \/ FetchCommits \/ StoreCommits
  <2>1. CASE settled' = "no"
    BY <2>1 DEF PassHolds
  <2>2. CASE settled' # "no"
    <3>1. /\ pc \in {"walk", "tree", "api", "page"} /\ pc' \in {"tree", "api", "page", "stamp"}
          /\ UNCHANGED <<settled, remotePR, prRow, issueRow>>
      BY <1>9, <2>2 DEF Walk, StoreWalk, FetchCommits, StoreCommits, Step, Fault, storeVars,
                        remoteVars, rowVars
    <3> QED
      BY <3>1, <2>2, RowsKept DEF PassInv, PassHolds
  <2> QED
    BY <2>1, <2>2
<1>10. CASE Stamp
  <2>1. CASE settled' = "no"
    BY <2>1 DEF PassHolds
  <2>2. CASE settled' # "no"
    <3>1. /\ pc = "stamp" /\ pc' = "idle" /\ UNCHANGED <<remotePR, prRow, issueRow>>
          /\ settled' = IF settled = "pass" THEN "yes" ELSE settled
      BY <1>10, <2>2 DEF Stamp, Step, Fault, remoteVars
    <3>2. Agrees /\ settled' = "yes"
      BY <1>a, <3>1, <2>2 DEF PassInv, PassHolds
    <3> QED
      BY <3>1, <3>2, RowsKept
  <2> QED
    BY <2>1, <2>2
<1>11. CASE Abandon
  BY <1>11 DEF Abandon, Fault, PassHolds
<1> QED
  BY <1>1, <1>2, <1>3, <1>4, <1>5, <1>6, <1>7, <1>8, <1>9, <1>10, <1>11 DEF SyncStep

LEMMA PassStep == PassInv /\ [Next]_vars => PassInv'
<1> SUFFICES ASSUME PassInv, [Next]_vars PROVE PassHolds'
  BY TypeStep, OpenedStep DEF PassInv
<1>1. CASE UNCHANGED <<pc, remotePR, prRow, issueRow, listed, todo, settled>>
  <2>1. (Agrees' <=> Agrees) /\ (IssuesKnown' <=> IssuesKnown) /\ (PRsAgree' <=> PRsAgree)
    BY <1>1 DEF Agrees, IssuesKnown, PRsAgree, RowsOf
  <2>2. Progress' = Progress
    BY <1>1 DEF Progress, ListedFor
  <2>3. RowsOf(Linked)' = RowsOf(Linked)
    BY <1>1, <2>2 DEF Linked, RowsOf
  <2>4. DerivedSoFar' <=> DerivedSoFar
    BY <1>1, <2>2, <2>3 DEF DerivedSoFar
  <2> QED
    BY <1>1, <2>1, <2>4 DEF PassInv, PassHolds
<1>2. CASE settled' = "no"
  BY <1>2 DEF PassHolds
<1>3. CASE \E p \in PRs, s \in PRState : PREvent(p, s)
  BY <1>2, <1>3 DEF PREvent, MovePR
<1>4. CASE \E n \in Id : ProcessDelivery(n) \/ ProcessFails(n) \/ ApplyIssueAutoProgress(n) \/ Forget(n)
  BY <1>2, <1>4 DEF ProcessDelivery, ProcessFails, ApplyIssueAutoProgress, Forget, Fault
<1>5. CASE Restart
  BY <1>2, <1>5 DEF Restart, Fault
<1>6. CASE \E c \in Commits, d \in Time : PushEvent(c, d)
  BY <1>1, <1>6 DEF PushEvent, PushCommit, rowVars, jobVars
<1>7. CASE \/ UNCHANGED vars \/ (Tick /\ UNCHANGED hookVars)
           \/ (\E i \in Issues : IssueEvent(i)) \/ (\E n \in Id : Receive(n))
  BY <1>1, <1>7 DEF Tick, IssueEvent, Receive, vars, syncVars, hookVars, storeVars, remoteVars,
                    rowVars, jobVars, histVars
<1>8. CASE \E n \in Id : Redeliver(n)
  BY <1>1, <1>2, <1>8 DEF Redeliver, Fault, storeVars, remoteVars, rowVars, jobVars
<1> QED
  BY <1>3, <1>4, <1>5, <1>6, <1>7, <1>8, PassSyncStep DEF Next, Platform, Hook

\* After a pass that nothing interfered with the rows agree with the platform, and the
\* passes that follow leave it so, for any number of pull requests, issues and rows of
\* an issue (SyncRepo, deriveStatesForSync).
THEOREM UndisturbedPassSettles == Spec => []PassSettles
<1>1. Init => PassInv
  <2> SUFFICES ASSUME Init PROVE PassInv
    OBVIOUS
  <2>1. TypeOK
    BY TypeInit
  <2> QED
    BY <2>1 DEF Init, SyncInit, StoreInit, PassInv, OnlyOpened, PassHolds, Nothing
<1>2. PassInv => PassSettles
  BY DEF PassInv, PassHolds, PassSettles
<1> QED
  BY <1>1, <1>2, PassStep, PTL DEF Spec

=============================================================================
