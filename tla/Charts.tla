------------------------------- MODULE Charts -------------------------------
(***************************************************************************)
(* The computations of Evaluation and Timeline against definitions of what *)
(* they are for.  A sample of joined rows grows row by row; the properties *)
(* hold of every sample.                                                   *)
(***************************************************************************)
EXTENDS Timeline

CONSTANTS
  SampleScores,  \* the scores of the rows, None among them
  MaxSample      \* bound: rows

ASSUME ChartsAssumption == SampleScores \subseteq Nat \cup {None}

VARIABLE sample

ChartsInit == sample = <<>>

\* Rows come ordered by feature time, two to an instant.
SampleRow(i, score, spike) ==
  [id |-> i, fts |-> 2 * (i \div 2), apiTs |-> 0, writtenAt |-> 1,
   score |-> score, tau |-> 1, variant |-> "ml", version |-> 1, vol |-> score,
   price |-> score, spike |-> spike]

AddRow ==
  /\ Len(sample) < MaxSample
  /\ \E s \in SampleScores, l \in {0, 1} :
       sample' = Append(sample, SampleRow(Len(sample) + 1, s, l))

ChartsNext == AddRow
ChartsSpec == ChartsInit /\ [][ChartsNext]_sample
-----------------------------------------------------------------------------
ScoredRows == Where(sample, LAMBDA r : r.score # None)
SampledScores == Column(ScoredRows, LAMBDA r : r.score)
SampledLabels == Column(ScoredRows, LAMBDA r : r.spike)

(***************************************************************************)
(* The average precision is the mean, over the spikes, of the precision of *)
(* alerting at the spike's own score: whatever order ties come in.  The    *)
(* adaptive threshold is the smallest volatility that Percentile percent   *)
(* of the rows do not exceed.                                              *)
(***************************************************************************)
PrecisionAt(i, whole) ==
  LET alerts == {j \in DOMAIN SampledScores : SampledScores[j] >= SampledScores[i]}
      spikes == {j \in alerts : SampledLabels[j] = 1}
  IN  Cardinality(spikes) * (whole \div Cardinality(alerts))

RankingRight ==
  LET n == Len(SampledScores)
      ap == TieAwareAveragePrecision(SampledScores, SampledLabels)
      spikes == Ascending({i \in 1 .. n : SampledLabels[i] = 1})
      t == AdaptiveThreshold(SampledScores)
  IN  /\ IF spikes = <<>> THEN ap = None
         ELSE ap = Total(Column(spikes, LAMBDA i : PrecisionAt(i, Whole(n))))
      /\ (t = None) = (n < MinSamples)
      /\ t # None =>
           /\ Count(SampledScores, LAMBDA s : s <= t) * 100 >= Percentile * n
           /\ Count(SampledScores, LAMBDA s : s < t) * 100 < Percentile * n

(***************************************************************************)
(* The view by activity is self-normalising: at most 100 - Percentile      *)
(* percent of the graded rows are spikes there, and every graded row is in *)
(* one cell of one model's matrix.                                         *)
(***************************************************************************)
SelfNormalising ==
  \A m \in AdaptiveMode(SplitGraded(sample).graded) :
    LET c == m.confusion
    IN  /\ (c.tp + c.fn) * 100 <= (100 - Percentile) * m.n
        /\ c.tp + c.fp + c.fn + c.tn = Len(ScoredRows)

(***************************************************************************)
(* The thinned chart has every spike of either view and both ends, in      *)
(* order, and as many rows as may be shown, unless the rows it must keep   *)
(* are more.                                                               *)
(***************************************************************************)
ChartKeeps ==
  \A t \in {None, AdaptiveThreshold(SampledScores)} :
    LET chart == ChartRows(sample, t)
        ids == {r.id : r \in ToSet(chart)}
        spiked(r) == r.spike = 1 \/ (t # None /\ r.vol > t)
        must == {r.id : r \in {x \in ToSet(sample) : spiked(x)}}
                  \cup {1, Len(sample)}
        fits == IF Len(sample) < MaxChartPoints THEN Len(sample)
                ELSE MaxChartPoints
    IN  /\ must \subseteq ids
        /\ \A i \in 2 .. Len(chart) : chart[i - 1].id < chart[i].id
        /\ Len(chart) = IF Cardinality(must) > fits THEN Cardinality(must)
                        ELSE fits

(***************************************************************************)
(* For every range and resolution the endpoint accepts, the timeline has   *)
(* at most MaxTimelinePoints points, in order, none covering an instant of *)
(* another, and each row is counted in one of them, in one class.          *)
(***************************************************************************)
TimelineWhole ==
  \A to \in 1 .. MaxRange, res \in {None} \cup 1 .. MaxRange :
    LET rows == Where(sample, LAMBDA r : r.fts < to)
        points == BuildTimeline(rows, 0, to, None, res)
        used == IF res = None THEN AutoResolution(to) ELSE res
        raw == res = None /\ Len(rows) <= MaxTimelinePoints
        counted(p) == FoldFunction(LAMBDA a, b : a + b, 0, p.classes)
    IN  ValidRange(0, to, res) =>
          /\ Len(points) <= MaxTimelinePoints
          /\ \A i \in 2 .. Len(points) :
               points[i].ts >= points[i - 1].ts + (IF raw THEN 0 ELSE used)
          /\ \A i \in DOMAIN points :
               counted(points[i]) =
                 IF raw THEN 1
                 ELSE Count(rows, LAMBDA r :
                        r.fts \in points[i].ts .. points[i].ts + used - 1)
          /\ Total(Column(points, counted)) = Len(rows)

\* The invariant of the computations.
ChartsInv ==
  sample # <<>> =>
    RankingRight /\ SelfNormalising /\ ChartKeeps /\ TimelineWhole
=============================================================================
