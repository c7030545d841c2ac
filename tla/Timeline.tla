------------------------------ MODULE Timeline ------------------------------
(***************************************************************************)
(* materializer/timeline.py: the chart of /predictions/timeline, and the   *)
(* check of its parameters (materializer.py: validate_timeline_range).     *)
(***************************************************************************)
EXTENDS Evaluation

CONSTANTS
  LabelHorizon,      \* LABEL_HORIZON_SECONDS
  MaxTimelinePoints, \* MAX_TIMELINE_POINTS
  ResolutionSteps,   \* _RESOLUTION_STEPS, ascending
  MaxRange           \* TIMELINE_RANGE_MAX_SECONDS

ASSUME TimelineAssumption ==
  /\ LabelHorizon \in Nat \ {0} /\ MaxTimelinePoints \in Nat \ {0}
  /\ ResolutionSteps \in Seq(Nat \ {0}) /\ ResolutionSteps # <<>>
  /\ MaxRange \in Nat \ {0}

\* _auto_resolution: the first step that gives few enough buckets.
AutoResolution(range) ==
  LET fits == {i \in DOMAIN ResolutionSteps :
                 range <= MaxTimelinePoints * ResolutionSteps[i]}
  IN  IF fits = {} THEN Last(ResolutionSteps) ELSE ResolutionSteps[Min(fits)]

\* validate_timeline_range
ValidRange(from, to, resolution) ==
  /\ to > from /\ to - from <= MaxRange
  /\ resolution # None =>
       resolution >= 1 /\ to - from <= MaxTimelinePoints * resolution

\* classify_row, with the anchor being the newest feature time there is.
CallClass(alerted, spiked) ==
  CASE alerted /\ spiked -> "correct_call"
    [] alerted /\ ~spiked -> "false_alarm"
    [] ~alerted /\ spiked -> "missed_spike"
    [] OTHER -> "correct_quiet"

\* Slip: the instant of the outcome counts as before it.
ScoredInTime(r) == r.apiTs # None /\ r.apiTs <= r.writtenAt

ScoredOnTime(r) == r.apiTs # None /\ r.apiTs < r.writtenAt
Usable(r) == r.score # None /\ r.tau # None /\ r.spike # None

ClassifyRow(r, anchor) ==
  IF ~HasOutcome(r)
  THEN IF anchor # None /\ anchor - r.fts \in 0 .. LabelHorizon - 1
       THEN "pending" ELSE "unavailable"
  ELSE IF ScoredOnTime(r) /\ Usable(r)
  THEN CallClass(r.score >= r.tau, r.spike = 1)
  ELSE "unavailable"

Classes == {"correct_call", "false_alarm", "missed_spike", "correct_quiet",
            "pending", "unavailable"}

(***************************************************************************)
(* _bucket_points: for each bucket the rows of each class, the best score  *)
(* with the tau of the row that has it, and the last price.                *)
(***************************************************************************)
BestScore(bucket) ==
  LET scores == {r.score : r \in ToSet(bucket)} \ {None}
  IN  IF scores = {} THEN None ELSE Max(scores)

LastPrice(bucket) ==
  LET priced == Where(bucket, LAMBDA r : r.price # None)
  IN  FoldLeft(LAMBDA p, r : IF p.at = None \/ r.fts >= p.at
                             THEN [at |-> r.fts, price |-> r.price] ELSE p,
               [at |-> None, price |-> None], priced).price

TauOfBest(bucket) ==
  LET best == {i \in DOMAIN bucket : bucket[i].score = BestScore(bucket)}
  IN  IF BestScore(bucket) = None THEN None ELSE bucket[Min(best)].tau

BucketPoint(bucket, start, anchor) ==
  [ts |-> start, price |-> LastPrice(bucket), score |-> BestScore(bucket),
   tau |-> TauOfBest(bucket),
   classes |-> [c \in Classes |->
                  Count(bucket, LAMBDA r : ClassifyRow(r, anchor) = c)]]

BucketKey(r, from, resolution) == (r.fts - from) \div resolution

BucketPoints(rows, from, resolution, anchor) ==
  LET keys == Ascending({BucketKey(r, from, resolution) : r \in ToSet(rows)})
      bucket(k) == Where(rows, LAMBDA r : BucketKey(r, from, resolution) = k)
  IN  Column(keys, LAMBDA k : BucketPoint(bucket(k), from + k * resolution,
                                          anchor))

RawPoint(r, anchor) ==
  [ts |-> r.fts, price |-> r.price, score |-> r.score, tau |-> r.tau,
   classes |-> [c \in Classes |-> IF c = ClassifyRow(r, anchor) THEN 1 ELSE 0]]

\* build_timeline
BuildTimeline(rows, from, to, anchor, resolution) ==
  IF resolution = None /\ Len(rows) <= MaxTimelinePoints
  THEN Column(rows, LAMBDA r : RawPoint(r, anchor))
  ELSE BucketPoints(rows, from,
         IF resolution = None THEN AutoResolution(to - from) ELSE resolution,
         anchor)
=============================================================================
