------------------------------- MODULE Grading -------------------------------
(***************************************************************************)
(* From a feature row to its grade: the bridge has a row scored, the       *)
(* featurizer learns and publishes its label, the two consumers of the     *)
(* materializer store them, and the endpoints choose a stream segment,     *)
(* join, and grade (materializer/materializer.py with evaluation.py and    *)
(* timeline.py).  What the consumers do about faults is ReadModel's; here  *)
(* are the moments a row is scored, its label known and its outcome        *)
(* written, and what the queries make of them.                             *)
(***************************************************************************)
EXTENDS Timeline

CONSTANTS
  Features,     \* ticks.features: stream_id, feature_ts, label and score of
                \* each row
  Tau,          \* the tau of the model that scores
  KeepRows,     \* PRUNE_KEEP_ROWS
  PruneEvery,   \* PRUNE_EVERY_N_INSERTS
  WindowSpan,   \* window_minutes, in feature time
  MaxGradeClock, \* bound: ticks of the wall clock
  MaxRescored,  \* bound: rows the bridge scores again
  MaxRebuilds   \* bound: times the database is rebuilt

ASSUME GradingAssumption ==
  /\ Features \in Seq(ToSet(Features))
  /\ \A i \in DOMAIN Features : Features[i].ts \in Nat
  /\ KeepRows \in Nat \ {0} /\ PruneEvery \in Nat \ {0}
  /\ WindowSpan \in Nat /\ MaxGradeClock \in Nat
  /\ MaxRescored \in Nat /\ MaxRebuilds \in Nat

VARIABLES
  gradeClock,
  predTopic,   \* ticks.predictions: which feature, and when it was scored
  labels,      \* ticks.outcomes: how many labels are on it, in feature order
  predPos, outPos,     \* positions of the two consumers
  predRows,    \* predictions: feature -> its event, for those in the table
  outRows,     \* outcomes: feature -> written_at
  inserted, outInserted, \* inserted_since_prune of the two consumers
  rescored, rebuilt

gradeVars == <<gradeClock, predTopic, labels, predPos, outPos, predRows,
               outRows, inserted, outInserted, rescored, rebuilt>>

GradeInit ==
  /\ gradeClock = 0 /\ predTopic = <<>> /\ labels = 0
  /\ predPos = 0 /\ outPos = 0
  /\ predRows = <<>> /\ outRows = <<>> /\ inserted = 0 /\ outInserted = 0
  /\ rescored = 0 /\ rebuilt = 0
-----------------------------------------------------------------------------
\* The feature whose turn it is; the bridge goes through them in order.
Scored == IF predTopic = <<>> THEN 0 ELSE Last(predTopic).feature

ScoreFeature(i) ==
  predTopic' = Append(predTopic, [feature |-> i, at |-> gradeClock])

\* The bridge scores the next row.
ScoreNext ==
  /\ Scored < Len(Features)
  /\ ScoreFeature(Scored + 1)
  /\ UNCHANGED <<gradeClock, labels, predPos, outPos, predRows, outRows,
                 inserted, outInserted, rescored, rebuilt>>

\* It died between publishing and committing, and scores its last row again.
ScoreAgain ==
  /\ Scored > 0 /\ rescored < MaxRescored
  /\ rescored' = rescored + 1
  /\ ScoreFeature(Scored)
  /\ UNCHANGED <<gradeClock, labels, predPos, outPos, predRows, outRows,
                 inserted, outInserted, rebuilt>>

\* The featurizer publishes the label of the next row.
PublishLabel ==
  /\ labels < Len(Features)
  /\ labels' = labels + 1
  /\ UNCHANGED <<gradeClock, predTopic, predPos, outPos, predRows, outRows,
                 inserted, outInserted, rescored, rebuilt>>

\* NEWEST_ORDER_SQL on the rows of a table: the latest scored first, then the
\* one with the larger source_offset.
Newer(rows, i, j) ==
  rows[i].at > rows[j].at \/ (rows[i].at = rows[j].at /\ i > j)

Newest(rows) ==
  CHOOSE i \in DOMAIN rows : \A j \in DOMAIN rows \ {i} : Newer(rows, i, j)

\* Slip: the rows scored last go.
PruneRowsNewest(rows) ==
  LET rank(i) == Cardinality({j \in DOMAIN rows : Newer(rows, i, j)})
  IN  Restrict(rows, {i \in DOMAIN rows : rank(i) < KeepRows})

\* Slip: the rows of the earliest feature times stay.
PruneRowsEarliest(rows) ==
  LET earlier(j, i) == \/ Features[j].ts < Features[i].ts
                       \/ Features[j].ts = Features[i].ts /\ j < i
      rank(i) == Cardinality({j \in DOMAIN rows : earlier(j, i)})
  IN  Restrict(rows, {i \in DOMAIN rows : rank(i) < KeepRows})

\* maybe_prune, and what the consumer does to its counter.
PruneRows(rows) ==
  LET rank(i) == Cardinality({j \in DOMAIN rows : Newer(rows, j, i)})
  IN  Restrict(rows, {i \in DOMAIN rows : rank(i) < KeepRows})

\* INSERT OR IGNORE: a row with a key that is there is left as it is.
Insert(rows, i, row) ==
  IF i \in DOMAIN rows THEN rows
  ELSE [j \in DOMAIN rows \cup {i} |-> IF j = i THEN row ELSE rows[j]]

\* insert_events: INSERT OR IGNORE by event_id, which names the feature row.
StorePrediction ==
  LET event == predTopic[predPos + 1]
      known == event.feature \in DOMAIN predRows
      rows == Insert(predRows, event.feature, event)
      n == inserted + (IF known THEN 0 ELSE 1)
  IN  /\ predPos < Len(predTopic)
      /\ predPos' = predPos + 1
      /\ predRows' = IF n >= PruneEvery THEN PruneRows(rows) ELSE rows
      /\ inserted' = n % PruneEvery
      /\ UNCHANGED <<gradeClock, predTopic, labels, outPos, outRows,
                     outInserted, rescored, rebuilt>>

\* Slip: the outcomes written first stay.
PruneOutcomesWritten(rows) ==
  LET later(j, i) == rows[j] < rows[i] \/ (rows[j] = rows[i] /\ j < i)
      rank(i) == Cardinality({j \in DOMAIN rows : later(j, i)})
  IN  Restrict(rows, {i \in DOMAIN rows : rank(i) < KeepRows})

\* maybe_prune_outcomes: what stays are the outcomes of the latest feature
\* times.  Rows of one time are kept in any order; the model takes the order
\* of the topic.
PruneOutcomes(rows) ==
  LET later(j, i) == \/ Features[j].ts > Features[i].ts
                     \/ Features[j].ts = Features[i].ts /\ j > i
      rank(i) == Cardinality({j \in DOMAIN rows : later(j, i)})
  IN  Restrict(rows, {i \in DOMAIN rows : rank(i) < KeepRows})

\* insert_outcomes: written_at is the moment of the insert.
StoreOutcome ==
  LET i == outPos + 1
      known == i \in DOMAIN outRows
      rows == Insert(outRows, i, gradeClock)
      n == outInserted + (IF known THEN 0 ELSE 1)
  IN  /\ outPos < labels
      /\ outPos' = i
      /\ outRows' = IF n >= PruneEvery THEN PruneOutcomes(rows) ELSE rows
      /\ outInserted' = n % PruneEvery
      /\ UNCHANGED <<gradeClock, predTopic, labels, predPos, predRows,
                     inserted, rescored, rebuilt>>

\* The database was not usable: both tables are rebuilt from their topics.
RebuildTables ==
  /\ rebuilt < MaxRebuilds
  /\ rebuilt' = rebuilt + 1
  /\ predRows' = <<>> /\ outRows' = <<>> /\ inserted' = 0 /\ outInserted' = 0
  /\ predPos' = 0 /\ outPos' = 0
  /\ UNCHANGED <<gradeClock, predTopic, labels, rescored>>

GradeTick ==
  /\ gradeClock < MaxGradeClock
  /\ gradeClock' = gradeClock + 1
  /\ UNCHANGED <<predTopic, labels, predPos, outPos, predRows, outRows,
                 inserted, outInserted, rescored, rebuilt>>

GradeNext ==
  \/ ScoreNext \/ ScoreAgain \/ PublishLabel \/ StorePrediction
  \/ StoreOutcome \/ RebuildTables \/ GradeTick

GradeSpec == GradeInit /\ [][GradeNext]_gradeVars
-----------------------------------------------------------------------------
\* _current_stream_segment
Segment(rows) ==
  IF DOMAIN rows = {} THEN "none" ELSE Features[Newest(rows)].stream

InSegment == {i \in DOMAIN predRows : Features[i].stream = Segment(predRows)}

\* _newest_predictions_feature_ts and the oldest, within the segment.
NewestTs == Max({Features[i].ts : i \in InSegment})
OldestTs == Min({Features[i].ts : i \in InSegment})

\* PERFORMANCE_JOIN_SQL and TIMELINE_JOIN_SQL, ordered by feature time.
JoinedRow(i) ==
  [id |-> i, fts |-> Features[i].ts, apiTs |-> predRows[i].at,
   writtenAt |-> IF i \in DOMAIN outRows THEN outRows[i] ELSE None,
   score |-> Features[i].score, tau |-> Tau, variant |-> "ml", version |-> 1,
   vol |-> Features[i].spike, price |-> 1,
   spike |-> IF i \in DOMAIN outRows THEN Features[i].spike ELSE None]

Joined(ids) ==
  LET before(j, i) == \/ Features[j].ts < Features[i].ts
                      \/ Features[j].ts = Features[i].ts /\ j < i
  IN  [k \in 1 .. Cardinality(ids) |->
         JoinedRow(CHOOSE i \in ids : Cardinality({j \in ids : before(j, i)}) = k - 1)]

\* performance_window and _build_performance_payload.
Cutoff == NewestTs - WindowSpan
WindowRows == Joined({i \in InSegment : Features[i].ts >= Cutoff})
Complete == InSegment = {} \/ OldestTs <= Cutoff

\* _build_timeline_payload for the same stretch of time.
TimelinePoints == BuildTimeline(WindowRows, Cutoff, NewestTs + 1, NewestTs, None)
-----------------------------------------------------------------------------
GradeTypeOK ==
  /\ labels \in 0 .. Len(Features)
  /\ predPos \in 0 .. Len(predTopic) /\ outPos \in 0 .. labels
  /\ DOMAIN predRows \subseteq 1 .. Len(Features)
  /\ DOMAIN outRows \subseteq 1 .. Len(Features)

(***************************************************************************)
(* The two endpoints tell one story.  A segment has rows and a chart; over *)
(* the same rows the calls on the timeline are exactly the confusion       *)
(* matrix of the performance page, and graded, late and unmatched rows add *)
(* up to what was joined.                                                  *)
(***************************************************************************)
OneStory ==
  InSegment # {} =>
    LET rows == WindowRows
        points == TimelinePoints
        split == SplitGraded(rows)
        calls(c) == Total(Column(points, LAMBDA p : p.classes[c]))
    IN  /\ rows # <<>> /\ points # <<>>
        /\ Len(split.graded) + split.late + split.unmatched = Len(rows)
        /\ \A m \in OfficialMode(split.graded) :
             m.confusion = [tp |-> calls("correct_call"),
                            fp |-> calls("false_alarm"),
                            fn |-> calls("missed_spike"),
                            tn |-> calls("correct_quiet")]
        /\ calls("pending") + calls("unavailable")
             = split.late + split.unmatched

(***************************************************************************)
(* A payload that calls itself complete lacks no row of its window that    *)
(* was ever stored, however the table was pruned and rebuilt, but for rows *)
(* of the very instant of its cutoff.                                      *)
(***************************************************************************)
CompleteMeansWhole ==
  Complete =>
    \A k \in 1 .. predPos :
      LET i == predTopic[k].feature
      IN  /\ DOMAIN predRows # {}
          /\ Features[i].stream = Segment(predRows)
          /\ Features[i].ts > Cutoff
          => i \in DOMAIN predRows

\* The invariant of the two tables.
GradingInv == GradeTypeOK /\ CompleteMeansWhole

(***************************************************************************)
(* The two tables keep step: a stored prediction of one of the last        *)
(* KeepRows features that either consumer has seen still has the outcome   *)
(* that was stored for it, unless a feature before it has a later time,    *)
(* which is how a replay of old data looks.                                *)
(***************************************************************************)
MatchedStay ==
  \A i \in DOMAIN predRows :
    /\ \A j \in DOMAIN predRows \cup {outPos} : j < i + KeepRows
    /\ i <= outPos
    /\ \A j \in 1 .. i - 1 : Features[j].ts <= Features[i].ts
    => i \in DOMAIN outRows

(***************************************************************************)
(* The active segment only changes hands to the stream of the row that was *)
(* just stored, which was scored no earlier than every row stored so far:  *)
(* neither pruning nor a row that is delivered again brings an earlier     *)
(* stream back, be the clock of its ticks ahead of the new one's.          *)
(***************************************************************************)
SegmentMovesOn ==
  [][Segment(predRows') # Segment(predRows) /\ rebuilt' = rebuilt =>
       /\ Segment(predRows') = Features[predTopic[predPos'].feature].stream
       /\ \A j \in DOMAIN predRows :
            predTopic[predPos'].at >= predRows[j].at]_gradeVars
=============================================================================
