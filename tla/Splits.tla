-------------------------------- MODULE Splits --------------------------------
(***************************************************************************)
(* How the rows of a collected dataset are divided: what is accepted when  *)
(* the dataset is bound (btcspiker_ml/datasets.py), the expanding folds and *)
(* the holdout of the search (btcspiker_ml/splits.py), the rows a trial is  *)
(* calibrated and refitted on (scripts/run_experiments.py), the alerts a    *)
(* score raises (btcspiker_ml/metrics.py), and the holdout that qualification *)
(* cuts for itself (btcspiker_ml/qualification.py), which does not read the *)
(* search's plan: the two agree or the sealed rows have been trained on.   *)
(*                                                                         *)
(* The dataset grows row by row, so that every small one is looked at.     *)
(***************************************************************************)
EXTENDS Sequences, FiniteSetsExt, Functions, Masks

CONSTANTS
  Configs,          \* ValidationConfig: folds, final_holdout_fraction, which is
                    \* <<numerator, denominator>>
  CalibrationShare, \* CALIBRATION_FRACTION, likewise
  FeatureLookback,  \* max_feature_lookback_seconds
  LabelSeconds,     \* the 60 seconds a label looks ahead
  Cooldown,         \* cooldown_seconds of event_metrics
  MinClassCount,    \* MIN_CLASS_COUNT
  RowGaps,          \* bound: seconds from a row of the file to the next
  MaxRows           \* bound: rows

Proper(share) == share \in Nat \X Nat /\ 0 < share[1] /\ share[1] < share[2]
ASSUME SplitsAssumption ==
  /\ \A c \in Configs : c.folds \in Nat \ {0} /\ Proper(c.share)
  /\ Proper(CalibrationShare)
  /\ FeatureLookback \in Nat /\ LabelSeconds \in Nat /\ Cooldown \in Nat
  /\ MinClassCount \in Nat /\ RowGaps \subseteq Int /\ MaxRows \in Nat

VARIABLES
  rows,         \* the file: [ts, target]
  plan,         \* the SplitPlan of its rows, or <<>> if there is none
  config        \* the ValidationConfig

splitVars == <<rows, plan, config>>
-----------------------------------------------------------------------------
Ceil(n, part) == (n * part[1] + part[2] - 1) \div part[2]
DevelopmentEnd(file, validation) ==
  Len(file) - Ceil(Len(file), validation.share)

Monotonic == \A i \in 1 .. Len(rows) - 1 : rows[i].ts <= rows[i + 1].ts
BothClasses(file, where) == {file[i].target : i \in where} = {0, 1}

\* inspect_existing_dataset: in order of time, both classes, enough of each.
Inspected ==
  /\ Monotonic /\ BothClasses(rows, DOMAIN rows)
  /\ \A class \in {0, 1} :
       Cardinality({i \in DOMAIN rows : rows[i].target = class}) >= MinClassCount

\* lexsort by time, then by the place in the file: which row comes k-th.
OrderOf(file) ==
  LET before(i) == {j \in DOMAIN file :
        file[j].ts < file[i].ts \/ (file[j].ts = file[i].ts /\ j < i)}
  IN  [k \in DOMAIN file |-> CHOOSE i \in DOMAIN file : Cardinality(before(i)) = k - 1]

Embargo == FeatureLookback + LabelSeconds

\* searchsorted, left: how many rows are older than two embargoes after the
\* first; or an equal block of the development rows.  Positions start at 1.
FirstValidation(file, validation) ==
  LET oldest == Min({file[i].ts : i \in DOMAIN file})
      floor == Cardinality({i \in DOMAIN file : file[i].ts < oldest + 2 * Embargo})
  IN  1 + Max({floor, DevelopmentEnd(file, validation) \div (validation.folds + 1)})

\* Slip: only the horizon of the label is left out before a validation row.
BoundaryOfLabel(ts) == ts - LabelSeconds

\* Up to when a row may be trained on, for a first validation row of time ts.
Boundary(ts) == ts - Embargo

\* make_temporal_splits: the plan, or a ValueError.
MakeTemporalSplits(file, validation) ==
  LET order == OrderOf(file)
      end == DevelopmentEnd(file, validation)
      first == FirstValidation(file, validation)
      chunk == (end - first + 1) \div validation.folds
      start(k) == first + (k - 1) * chunk
      last(k) == IF k = validation.folds THEN end ELSE start(k + 1) - 1
      fold(k) ==
        [validation |-> SubSeq(order, start(k), last(k)),
         train |-> Masked(order, {p \in 1 .. start(k) - 1 :
                     file[order[p]].ts <= Boundary(file[order[start(k)]].ts)})]
      both(which) == BothClasses(file, Range(which))
  IN  IF /\ first > 1 /\ end >= first /\ chunk >= 1
         /\ \A k \in 1 .. validation.folds : both(fold(k).train) /\ both(fold(k).validation)
      THEN <<[folds |-> [k \in 1 .. validation.folds |-> fold(k)], first |-> first,
              holdout |-> SubSeq(order, end + 1, Len(file))]>>
      ELSE <<>>

SplitsInit ==
  /\ rows = <<>> /\ plan = <<>>
  /\ config \in Configs

GrowFile ==
  /\ Len(rows) < MaxRows
  /\ \E gap \in RowGaps, target \in {0, 1} :
       rows' = Append(rows, [ts |-> IF rows = <<>> THEN 0 ELSE rows[Len(rows)].ts + gap,
                             target |-> target])
  /\ plan' = MakeTemporalSplits(rows', config)
  /\ UNCHANGED config

SplitsNext == GrowFile
SplitsSpec == SplitsInit /\ [][SplitsNext]_splitVars
-----------------------------------------------------------------------------
Planned == plan # <<>>
Fold(k) == plan[1].folds[k]
Folds == 1 .. config.folds
Train(k) == Range(Fold(k).train)
Validation(k) == Range(Fold(k).validation)

\* _TemporalCalibrationSplit: the rows a calibrated model is fitted on, and
\* those it is calibrated on.
FitCount(fitted) == Len(fitted) - Ceil(Len(fitted), CalibrationShare)
FitRows(fitted) == SubSeq(fitted, 1, FitCount(fitted))
CalibrationRows(fitted) == SubSeq(fitted, FitCount(fitted) + 1, Len(fitted))

\* development_rows: what the candidate is refitted on, in the file's order.
RefitRows == UNION {Train(k) \cup Validation(k) : k \in Folds}
Refitted == Masked([i \in DOMAIN rows |-> i], RefitRows)

\* _derive_evidence, which cuts the rows as they lie in the file.
Holdout == DevelopmentEnd(rows, config) + 1 .. Len(rows)
Qualifies == Monotonic /\ DevelopmentEnd(rows, config) > 0 /\ BothClasses(rows, Holdout)

\* event_metrics of the rows whose score reaches the threshold: the last alert
\* once the loop has been through k rows, 0 if there is none.
LastAlert(hits) ==
  LET order == OrderOf(rows)
      last[k \in 0 .. Len(rows)] ==
        IF k = 0 THEN 0
        ELSE LET i == order[k]
                 before == last[k - 1]
             IN  IF i \in hits /\ (before = 0 \/ rows[i].ts - rows[before].ts >= Cooldown)
                 THEN i ELSE before
  IN  last
Alerts(hits) == Range(LastAlert(hits)) \ {0}
-----------------------------------------------------------------------------
\* What the row's features and its label were made of.
SeesFrom(i) == rows[i].ts - FeatureLookback
SeesTo(i) == rows[i].ts + LabelSeconds

(***************************************************************************)
(* No fold is scored on what it was trained with: no label of a training   *)
(* row reaches past the oldest price behind a validation row, whatever the *)
(* spacing of the rows, their order in the file, and equal times.          *)
(***************************************************************************)
NoLeak ==
  Planned =>
    \A k \in Folds : \A t \in Train(k), v \in Validation(k) :
      SeesTo(t) <= SeesFrom(v)

(***************************************************************************)
(* The folds validate every development row from the first one on, once,   *)
(* and each trains on what the one before it trained on.                   *)
(***************************************************************************)
FoldsExpand ==
  Planned =>
    /\ \A j, k \in Folds : j < k =>
         Train(j) \subseteq Train(k) /\ Validation(j) \cap Validation(k) = {}
    /\ UNION {Validation(k) : k \in Folds} =
         {OrderOf(rows)[p] : p \in plan[1].first .. DevelopmentEnd(rows, config)}

(***************************************************************************)
(* What qualification opens was never fitted on: of a dataset that both    *)
(* accept, its holdout is the search's, and no trial was trained,          *)
(* validated or refitted on a row of it.  The rows next to it have labels  *)
(* that reach into it: unlike the folds it has no embargo before it.       *)
(***************************************************************************)
HoldoutSealed ==
  Planned /\ Qualifies => Holdout = Range(plan[1].holdout) /\ Holdout \cap RefitRows = {}

(***************************************************************************)
(* A model is calibrated on rows no older than those it is fitted on, on   *)
(* every fold, and in the refit if the dataset passed the inspection: the  *)
(* refit takes the rows in the order of the file, and neither the search   *)
(* nor the plan asks for the inspection.                                   *)
(***************************************************************************)
CalibratedLater ==
  LET later(fitted) ==
        \A i \in Range(FitRows(fitted)), j \in Range(CalibrationRows(fitted)) :
          rows[i].ts <= rows[j].ts
  IN  Planned =>
        /\ \A k \in Folds : later(Fold(k).train)
        /\ Inspected => later(Refitted)

(***************************************************************************)
(* Alerts are a cooldown apart, and every row that reaches the threshold   *)
(* is one or comes less than a cooldown after one.  (The rows above the    *)
(* threshold are here the positive ones: the alerts do not depend on it.)  *)
(***************************************************************************)
AlertsCool ==
  LET hits == {i \in DOMAIN rows : rows[i].target = 1}
      alerts == Alerts(hits)
  IN  /\ alerts \subseteq hits
      /\ \A i, j \in alerts : i # j =>
           rows[i].ts - rows[j].ts >= Cooldown \/ rows[j].ts - rows[i].ts >= Cooldown
      /\ \A h \in hits : \E a \in alerts :
           h = a \/ rows[h].ts - rows[a].ts \in 0 .. Cooldown - 1

\* The invariant of the splits.
SplitsInv ==
  /\ NoLeak /\ FoldsExpand /\ HoldoutSealed /\ CalibratedLater /\ AlertsCool
=============================================================================
