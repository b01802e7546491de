---------------------------- MODULE Calibration ----------------------------
(***************************************************************************)
(* The self-calibrating effort estimates of an organisation.  An estimate  *)
(* of a pull request is turned into seconds by the curve of a cohort the   *)
(* pull request belongs to (EstimateForPR in                               *)
(* src/internal/metrics/compute.go, CalibratedSecs in                      *)
(* src/internal/calibration/curve.go); after every sync the observed lead  *)
(* times are written beside the estimates and the curves are computed anew *)
(* (ComputeCycleTimes; src/internal/calibration/recompute.go).  A demo     *)
(* organisation has its history seeded (src/cmd/seedgit/main.go).          *)
(*                                                                         *)
(* Estimates are of one difficulty bucket: buckets share nothing.  A       *)
(* sample counts 0.5^(age / half-life); what a quantile depends on is the  *)
(* ratio of two weights, which time does not change, so a pull request     *)
(* carries a constant one.  The predicted seconds and the accuracy summary *)
(* computed from them are left out.                                        *)
(***************************************************************************)
EXTENDS Integers, Sequences, FiniteSets, FiniteSetsExt, SequencesExt

CONSTANTS
  PR,          \* pull requests
  RepoOf,      \* [PR -> its repository]
  TypeOf,      \* [PR -> its change type]
  RecencyWeight, \* [PR -> Nat]: what a sample of it counts
  Area,        \* top-level directories
  LeadTime,    \* [PR -> seconds it may take from the first commit to the merge]
  MetricsRun,  \* syncs that have come to their metrics
  Estimator,   \* requests for an estimate
  MaxEstimates \* [PR -> Nat]: effort_estimates rows of a pull request (bound)

ASSUME CalibrationAssumption ==
  /\ IsFiniteSet(PR)
  /\ RecencyWeight \in [PR -> Nat \ {0}]
  /\ LeadTime \in [PR -> SUBSET Nat]
  /\ MaxEstimates \in [PR -> Nat]

VARIABLES
  demo,        \* whether the organisation is one that is seeded
  merged,      \* [PR -> its lead time, or Null before its merge]
  cycle,       \* [PR -> cycle_times.lead_time_secs, or Null]
  estimates,   \* [PR -> effort_estimates, numbered by age]
  cells,       \* [Cohort -> effort_calibration]
  recompute,   \* [MetricsRun -> where it stands]
  asking       \* [Estimator -> where it stands]

calibrationVars == <<demo, merged, cycle, estimates, cells, recompute, asking>>

Null == -1
Secs == UNION {LeadTime[p] : p \in PR}
Repo == {RepoOf[p] : p \in PR}
GlobalCohort == <<"global">>
TypeCohort(t) == <<"type", t>>
RepoCohort(r) == <<"repo", r>>
AreaCohort(r, a) == <<"repo", r, "area", a>>
Cohort == {GlobalCohort} \cup {TypeCohort(TypeOf[p]) : p \in PR}
            \cup {RepoCohort(r) : r \in Repo} \cup {AreaCohort(r, a) : r \in Repo, a \in Area}

NoCell == [n |-> 0]
Cell == [n : Nat \ {0}, p25 : Nat, median : Nat, p75 : Nat, mean : Nat]
Row == [row : Nat \ {0}, cohort : Cohort, actual : Secs \cup {Null}, seeded : BOOLEAN]
Sample == [pr : PR, row : Nat \ {0}, cohort : Cohort, secs : Secs]
Fill == [pr : PR, row : Nat \ {0}, secs : Secs]

CalibrationTypeOK ==
  /\ demo \in BOOLEAN
  /\ merged \in [PR -> Secs \cup {Null}]
  /\ cycle \in [PR -> Secs \cup {Null}]
  /\ estimates \in [PR -> SUBSET Row]
  /\ \A p \in PR : Cardinality(estimates[p]) <= MaxEstimates[p]
  /\ cells \in [Cohort -> Cell \cup {NoCell}]
  /\ recompute \in [MetricsRun ->
       [step : {"idle", "timed"}]
         \cup [step : {"read"}, fills : SUBSET Fill, samples : SUBSET Sample]]
  /\ asking \in [Estimator ->
       [step : {"idle"}] \cup [step : {"judged"}, pr : PR, cohort : Cohort]]

CalibrationInit ==
  /\ demo \in BOOLEAN
  /\ merged = [p \in PR |-> Null]
  /\ cycle = [p \in PR |-> Null]
  /\ estimates = [p \in PR |-> {}]
  /\ cells = [c \in Cohort |-> NoCell]
  /\ recompute = [r \in MetricsRun |-> [step |-> "idle"]]
  /\ asking = [e \in Estimator |-> [step |-> "idle"]]

-----------------------------------------------------------------------------
\* The curve of some samples.

\* The sums of the first of some numbers.
PartialSums(v) ==
  LET sum[i \in 0 .. Len(v)] == IF i = 0 THEN 0 ELSE sum[i - 1] + v[i] IN sum

\* Shortest first; of equal ones, any.
Sorted(samples, pts) ==
  /\ pts \in [1 .. Cardinality(samples) -> samples]
  /\ \A i, j \in DOMAIN pts : i < j => pts[i] # pts[j] /\ pts[i].secs <= pts[j].secs
InOrder(samples) ==
  CHOOSE pts \in [1 .. Cardinality(samples) -> samples] : Sorted(samples, pts)

WeightsOf(pts) == [i \in DOMAIN pts |-> RecencyWeight[pts[i].pr]]
Weight(pts) == PartialSums(WeightsOf(pts))[Len(pts)]
WeightedSum(pts) ==
  PartialSums([i \in DOMAIN pts |-> RecencyWeight[pts[i].pr] * pts[i].secs])[Len(pts)]

\* Twice the share of the weight up to the middle of the i-th point, in units of
\* the whole weight.
MidRank(pts, i) == 2 * PartialSums(WeightsOf(pts))[i - 1] + RecencyWeight[pts[i].pr]

Round(a, b) == (2 * a + b) \div (2 * b)

\* Where the given quarter of the weight lies, between the middles of two points.
Quantile(pts, quarter) ==
  LET target == quarter * Weight(pts)
      reached == {i \in DOMAIN pts : 2 * MidRank(pts, i) >= target}
      i == Min(reached)
      before == 2 * MidRank(pts, i - 1)
      span == 2 * MidRank(pts, i) - before
  IN IF reached = {} THEN pts[Len(pts)].secs
     ELSE IF i = 1 THEN pts[1].secs
     ELSE Round(span * pts[i - 1].secs
                  + (target - before) * (pts[i].secs - pts[i - 1].secs), span)

WeightedQuantiles(pts) ==
  [n |-> Len(pts),
   p25 |-> Quantile(pts, 1), median |-> Quantile(pts, 2), p75 |-> Quantile(pts, 3),
   mean |-> Round(WeightedSum(pts), Weight(pts))]

-----------------------------------------------------------------------------
\* A sync finds a pull request merged.
Merge(p, lead) ==
  /\ merged[p] = Null
  /\ merged' = [merged EXCEPT ![p] = lead]
  /\ UNCHANGED <<demo, cycle, estimates, cells, recompute, asking>>

\* The cohorts a pull request belongs to, richest first; one that is in no
\* directory the diff shows has no area.
CohortCandidates(p, areas) ==
  LET rest == <<RepoCohort(RepoOf[p]), TypeCohort(TypeOf[p]), GlobalCohort>>
  IN IF areas = {} THEN rest
     ELSE <<AreaCohort(RepoOf[p], CHOOSE a \in areas : TRUE), rest[1], rest[2], rest[3]>>

\* The first of them that has a curve, however few its samples, or the global one.
CalibratedCohort(candidates) ==
  LET learned == {i \in DOMAIN candidates :
                    cells[candidates[i]] # NoCell /\ cells[candidates[i]].median > 0}
  IN IF learned = {} THEN GlobalCohort ELSE candidates[Min(learned)]

\* The model judges the difficulty and the curve is read.
Judge(e, p) ==
  /\ asking[e].step = "idle"
  /\ Cardinality(estimates[p]) < MaxEstimates[p]
  /\ \E areas \in {{}} \cup {{a} : a \in Area} :
       asking' = [asking EXCEPT ![e] =
         [step |-> "judged", pr |-> p, cohort |-> CalibratedCohort(CohortCandidates(p, areas))]]
  /\ UNCHANGED <<demo, merged, cycle, estimates, cells, recompute>>

NextRow(rows) == IF rows = {} THEN 1 ELSE 1 + Max({e.row : e \in rows})

\* The estimate is stored with the cohort it was computed from.
SaveEstimate(e) ==
  /\ asking[e].step = "judged"
  /\ LET p == asking[e].pr
     IN /\ Cardinality(estimates[p]) < MaxEstimates[p]
        /\ estimates' = [estimates EXCEPT ![p] =
             @ \cup {[row |-> NextRow(@), cohort |-> asking[e].cohort, actual |-> Null,
                     seeded |-> FALSE]}]
  /\ asking' = [asking EXCEPT ![e] = [step |-> "idle"]]
  /\ UNCHANGED <<demo, merged, cycle, cells, recompute>>

\* The transaction that would store it fails.
LoseEstimate(e) ==
  /\ asking[e].step = "judged"
  /\ asking' = [asking EXCEPT ![e] = [step |-> "idle"]]
  /\ UNCHANGED <<demo, merged, cycle, estimates, cells, recompute>>

-----------------------------------------------------------------------------
\* ComputeCycleTimes: the lead time of each merged pull request replaces the one
\* measured before; those of authors whose commits are all an agent's are deleted.
\* Whether it fails or not, the curves come next.
ComputeCycleTimes(r) ==
  /\ recompute[r].step = "idle"
  /\ recompute' = [recompute EXCEPT ![r] = [step |-> "timed"]]
  /\ \/ \E bots \in SUBSET PR :
          cycle' = [p \in PR |-> IF merged[p] = Null THEN cycle[p]
                                 ELSE IF p \in bots THEN Null ELSE merged[p]]
     \/ UNCHANGED cycle
  /\ UNCHANGED <<demo, merged, estimates, cells, asking>>

\* BackfillActualSecs: the rows whose lead time is missing or another.
Backfill ==
  UNION {{[pr |-> p, row |-> e.row, secs |-> cycle[p]] :
            e \in {x \in estimates[p] : cycle[p] # Null /\ x.actual # cycle[p]}} : p \in PR}

\* A statement waits for the rows another transaction has written.
RowsLocked(r, fills) ==
  \E o \in MetricsRun \ {r} :
    /\ recompute[o].step = "read"
    /\ \E f \in fills, g \in recompute[o].fills : f.pr = g.pr /\ f.row = g.row

FilledRow(p, e, fills) ==
  LET now == {f \in fills : f.pr = p /\ f.row = e.row}
  IN IF now = {} THEN e ELSE [e EXCEPT !.actual = (CHOOSE f \in now : TRUE).secs]
Filled(fills) == [p \in PR |-> {FilledRow(p, e, fills) : e \in estimates[p]}]

Known(rows, p) == {e \in rows[p] : e.actual # Null}

\* Every estimate of it counts: a plausible slip.
MutantLatest(rows, p) == Known(rows, p)

\* ListCohortSamples: of each pull request the newest estimate with a lead time.
Latest(rows, p) == {e \in Known(rows, p) : \A o \in Known(rows, p) : o.row <= e.row}

Samples(rows) ==
  UNION {{[pr |-> p, row |-> e.row, cohort |-> e.cohort, secs |-> e.actual] :
            e \in Latest(rows, p)} : p \in PR}

\* The transaction of a recompute fills in the lead times and lists the samples.
ReadSamples(r) ==
  /\ recompute[r].step = "timed"
  /\ ~RowsLocked(r, Backfill)
  /\ recompute' = [recompute EXCEPT ![r] =
       [step |-> "read", fills |-> Backfill, samples |-> Samples(Filled(Backfill))]]
  /\ UNCHANGED <<demo, merged, cycle, estimates, cells, asking>>

\* expandCohorts: the cohorts that can be told from a stored one.
ExpandCohorts(stored) ==
  {GlobalCohort} \cup IF Len(stored) = 4 THEN {stored, RepoCohort(stored[2])} ELSE {stored}

\* buildCurves: the samples of a cohort, those of no length left out.
Group(samples, c) == {s \in samples : s.secs > 0 /\ c \in ExpandCohorts(s.cohort)}

\* It writes the cells that have samples, and commits.
CommitCurves(r) ==
  /\ recompute[r].step = "read"
  /\ LET group == [c \in Cohort |-> Group(recompute[r].samples, c)]
     IN cells' = [c \in Cohort |-> IF group[c] = {} THEN cells[c]
                                   ELSE WeightedQuantiles(InOrder(group[c]))]
  /\ estimates' = Filled(recompute[r].fills)
  /\ recompute' = [recompute EXCEPT ![r] = [step |-> "idle"]]
  /\ UNCHANGED <<demo, merged, cycle, asking>>

\* It fails, and all it wrote is undone; two that write the same cells in
\* another order may end so.
RollBackCurves(r) ==
  /\ recompute[r].step \in {"timed", "read"}
  /\ recompute' = [recompute EXCEPT ![r] = [step |-> "idle"]]
  /\ UNCHANGED <<demo, merged, cycle, estimates, cells, asking>>

\* seedCalibration: the seeded estimates of the organisation are replaced by one
\* for each measured pull request, in some area, and the curves are recomputed.
SeedCalibration(r) ==
  /\ demo
  /\ recompute[r].step = "idle"
  /\ \A o \in MetricsRun : recompute[o].step # "read"
  /\ \E area \in [PR -> Area] :
       LET kept == [p \in PR |-> {e \in estimates[p] : ~e.seeded}]
           Seeded(p) == [row |-> NextRow(kept[p]), cohort |-> AreaCohort(RepoOf[p], area[p]),
                        actual |-> cycle[p], seeded |-> TRUE]
       IN estimates' =
            [p \in PR |-> IF cycle[p] > 0 /\ Cardinality(kept[p]) < MaxEstimates[p]
                          THEN kept[p] \cup {Seeded(p)} ELSE kept[p]]
  /\ recompute' = [recompute EXCEPT ![r] = [step |-> "timed"]]
  /\ UNCHANGED <<demo, merged, cycle, cells, asking>>

CalibrationNext ==
  \/ \E p \in PR : \E lead \in LeadTime[p] : Merge(p, lead)
  \/ \E e \in Estimator, p \in PR : Judge(e, p)
  \/ \E e \in Estimator : SaveEstimate(e) \/ LoseEstimate(e)
  \/ \E r \in MetricsRun :
       \/ ComputeCycleTimes(r)
       \/ ReadSamples(r)
       \/ CommitCurves(r)
       \/ RollBackCurves(r)
       \/ SeedCalibration(r)

CalibrationSpec == CalibrationInit /\ [][CalibrationNext]_calibrationVars

-----------------------------------------------------------------------------
LeadTimes == {merged[p] : p \in {q \in PR : merged[q] > 0}}

\* However often a pull request was estimated, measured, seeded and recomputed, it
\* counts once in a curve, and a curve is one: its quartiles are in order and lie,
\* like its mean, among the lead times of the merged pull requests.
CurveSound ==
  \A c \in Cohort : cells[c] # NoCell =>
    /\ cells[c].n <= Cardinality({p \in PR : merged[p] > 0})
    /\ cells[c].p25 <= cells[c].median /\ cells[c].median <= cells[c].p75
    /\ \A v \in {cells[c].p25, cells[c].p75, cells[c].mean} : v \in Min(LeadTimes) .. Max(LeadTimes)

\* What the comment of expandCohorts (recompute.go:63) says: an estimate whose
\* lead time is known feeds the curve of its repository, besides the global one.
\* False of the code: the cohort stored is the one the estimate was computed from,
\* which is the global one as long as no other has a curve.
EstimatesFeedTheirRepo ==
  \A p \in PR :
    (\E e \in estimates[p] : ~e.seeded /\ e.actual > 0)
      => cells[RepoCohort(RepoOf[p])] # NoCell
=============================================================================
