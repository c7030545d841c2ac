----------------------------- MODULE Evaluation -----------------------------
(***************************************************************************)
(* materializer/evaluation.py: what /predictions/performance computes from *)
(* the rows of predictions LEFT JOIN outcomes.  A row is a record; a       *)
(* column that is NULL, missing or unreadable has the value None, and      *)
(* `version' stands for the version and the run of a model.  The baseline  *)
(* series, the drift note and what only labels the numbers are left out.   *)
(***************************************************************************)
EXTENDS Masks, SequencesExt, FiniteSetsExt

CONSTANTS
  MinSamples,     \* fewest volatilities for an adaptive threshold: 50
  Percentile,     \* adaptive_percentile, out of 100
  MaxChartPoints, \* MAX_CHART_POINTS
  MinPositives,   \* min_positives
  FallbackTau     \* FALLBACK_TAU

ASSUME EvaluationAssumption ==
  /\ MinSamples \in Nat \ {0} /\ Percentile \in 1 .. 100
  /\ MaxChartPoints \in Nat \ {0} /\ MinPositives \in Nat \ {0}

None == -1

\* [row.column for row in rows]
Column(rows, f(_)) == [i \in DOMAIN rows |-> f(rows[i])]
Count(rows, test(_)) == Cardinality({i \in DOMAIN rows : test(rows[i])})
\* [row for row in rows if test(row)]
Where(rows, test(_)) == Masked(rows, {i \in DOMAIN rows : test(rows[i])})
-----------------------------------------------------------------------------
(***************************************************************************)
(* tie_aware_average_precision: the scores in descending order, one step   *)
(* for all the rows of a score.  The result is a numerator over            *)
(* Positives * Whole, with Whole a multiple of every possible count.       *)
(***************************************************************************)
Positives(labels) == Count(labels, LAMBDA l : l # 0)
Whole(n) == FoldLeft(LAMBDA p, k : p * k, 1, [k \in 1 .. n |-> k])

DescendingScores(scores) == SetToSortSeq(ToSet(scores), LAMBDA a, b : a > b)

\* Slip: the precision before the tied rows.
ApStepByRow(scores, labels, acc, s) ==
  LET group == {i \in DOMAIN scores : scores[i] = s}
      hits == Cardinality({i \in group : labels[i] # 0})
      n == acc.n + Cardinality(group)
  IN  [tp |-> acc.tp + hits, n |-> n,
       ap |-> acc.ap + hits * acc.tp * (Whole(Len(scores)) \div n)]

ApStep(scores, labels, acc, s) ==
  LET group == {i \in DOMAIN scores : scores[i] = s}
      hits == Cardinality({i \in group : labels[i] # 0})
      tp == acc.tp + hits
      n == acc.n + Cardinality(group)
  IN  [tp |-> tp, n |-> n,
       ap |-> acc.ap + hits * tp * (Whole(Len(scores)) \div n)]

TieAwareAveragePrecision(scores, labels) ==
  IF Positives(labels) = 0 THEN None
  ELSE FoldLeft(LAMBDA acc, s : ApStep(scores, labels, acc, s),
                [tp |-> 0, n |-> 0, ap |-> 0], DescendingScores(scores)).ap

\* confusion, and the ratios it derives.
Confusion(scores, labels, threshold) ==
  LET cell(alert, spike) ==
        Cardinality({i \in DOMAIN scores :
          (scores[i] >= threshold) = alert /\ (labels[i] # 0) = spike})
  IN  [tp |-> cell(TRUE, TRUE), fp |-> cell(TRUE, FALSE),
       fn |-> cell(FALSE, TRUE), tn |-> cell(FALSE, FALSE)]

\* adaptive_threshold: the nearest rank, one-based here.
AdaptiveThreshold(vols) ==
  LET n == Len(vols)
      rank == (Percentile * n + 99) \div 100
  IN  IF n < MinSamples THEN None
      ELSE SortSeq(vols, LAMBDA a, b : a < b)[rank]
-----------------------------------------------------------------------------
(***************************************************************************)
(* _split_graded: a row is graded when it was scored before its outcome    *)
(* was written, late otherwise; rows that are malformed are in neither.    *)
(***************************************************************************)
HasOutcome(r) == r.writtenAt # None
WellFormed(r) == HasOutcome(r) /\ r.score # None /\ r.apiTs # None
IsGraded(r) == WellFormed(r) /\ r.apiTs < r.writtenAt
IsLate(r) == WellFormed(r) /\ ~IsGraded(r)

SplitGraded(rows) ==
  [graded |-> Where(rows, IsGraded),
   late |-> Count(rows, IsLate),
   unmatched |-> Count(rows, LAMBDA r : ~HasOutcome(r))]

\* _group_key and _group_tau: the most common tau, the first of equals.
GroupKey(r) == <<r.variant, r.version>>

GroupTau(rows) ==
  LET taus == Where(Column(rows, LAMBDA r : r.tau), LAMBDA x : x # None)
      times(i) == Count(taus, LAMBDA x : x = taus[i])
  IN  IF taus = <<>> THEN FallbackTau
      ELSE taus[CHOOSE i \in DOMAIN taus :
                  \A j \in DOMAIN taus :
                    \/ times(j) < times(i)
                    \/ times(j) = times(i) /\ i <= j]

\* _build_ml_series with _finalize_series_pr_auc.
MlSeries(rows, labels) ==
  LET scores == Column(rows, LAMBDA r : r.score)
      tau == GroupTau(rows)
  IN  [key |-> GroupKey(rows[1]), n |-> Len(rows), tau |-> tau,
       confusion |-> Confusion(scores, labels, tau),
       prAuc |-> IF Positives(labels) >= MinPositives
                 THEN TieAwareAveragePrecision(scores, labels) ELSE None]

\* _build_mode: a series for each model whose rows are graded, each paired
\* with its label, whatever that is a label of.
Mode(pairs) ==
  LET keys == {GroupKey(p.row) : p \in ToSet(pairs)}
      of(k) == Where(pairs, LAMBDA p : GroupKey(p.row) = k)
  IN  {MlSeries(Column(of(k), LAMBDA p : p.row), Column(of(k), LAMBDA p : p.label)) :
         k \in {x \in keys : x[1] = "ml"}}

\* The labels of the two modes.
OfficialLabel(r) == IF r.spike = None THEN 0 ELSE r.spike
OfficialMode(graded) ==
  Mode(Column(graded, LAMBDA r : [row |-> r, label |-> OfficialLabel(r)]))
AdaptiveMode(graded) ==
  LET vols == Where(Column(graded, LAMBDA r : r.vol), LAMBDA v : v # None)
      threshold == AdaptiveThreshold(vols)
  IN  IF threshold = None THEN {}
      ELSE Mode(Column(graded, LAMBDA r :
             [row |-> r, label |-> IF r.vol > threshold THEN 1 ELSE 0]))
-----------------------------------------------------------------------------
(***************************************************************************)
(* _downsample_chart_rows: the spikes, the first and the last row stay; of *)
(* the others as many as fit, at even steps.                               *)
(***************************************************************************)
MustKeep(rows) ==
  {1, Len(rows)} \cup {i \in DOMAIN rows : rows[i].spiked}

EvenSteps(fillable, budget) ==
  {fillable[((k * Len(fillable)) \div budget) + 1] : k \in 0 .. budget - 1}

DownsampleChartRows(rows) ==
  LET keep == MustKeep(rows)
      fillable == Ascending(DOMAIN rows \ keep)
      budget == MaxChartPoints - Cardinality(keep)
  IN  IF Len(rows) <= MaxChartPoints THEN rows
      ELSE IF budget <= 0 THEN Masked(rows, keep)
      ELSE Masked(rows, keep \cup EvenSteps(fillable, budget))

\* _chart_rows: sorted by feature time; what marks a row as a spike.  The rows
\* it is given are of one stream_id, so all have the epoch it selects.
ChartRows(rows, threshold) ==
  LET sorted == SortSeq(rows, LAMBDA a, b : a.fts < b.fts)
      spiked(r) == /\ HasOutcome(r)
                   /\ \/ r.spike = 1
                      \/ threshold # None /\ r.vol # None /\ r.vol > threshold
  IN  DownsampleChartRows(
        Column(sorted, LAMBDA r : [id |-> r.id, spiked |-> spiked(r)]))
=============================================================================
