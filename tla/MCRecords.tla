------------------------------ MODULE MCRecords ------------------------------
(***************************************************************************)
(* One instance for each component that makes or judges records: the       *)
(* featurizer with its offline twin, the grading of predictions and the    *)
(* charts, and the three parts of the history download.  A behaviour is    *)
(* one of a single component, chosen at the start; the others stay in an   *)
(* initial state.                                                          *)
(***************************************************************************)
EXTENDS Featurizer, Grading, Charts, TradePages, Book, History

VARIABLE part

vars == <<part, featVars, gradeVars, sample, pagesVars, bookVars, histVars>>

\* Components that start anywhere start somewhere when they are not the part.
Init ==
  /\ part \in {"features", "grades", "charts", "pages", "book", "history"}
  /\ FeatInit /\ GradeInit /\ ChartsInit /\ HistoryInit
  /\ part # "pages" => tape = <<>> /\ covers = TRUE
  /\ PagesInit
  /\ part # "book" => firstAnchor = 0 /\ gaps = {<<0, 0>>}
  /\ BookInit

Next ==
  /\ UNCHANGED part
  /\ \/ /\ part = "features" /\ FeatNext
        /\ UNCHANGED <<gradeVars, sample, pagesVars, bookVars, histVars>>
     \/ /\ part = "grades" /\ GradeNext
        /\ UNCHANGED <<featVars, sample, pagesVars, bookVars, histVars>>
     \/ /\ part = "charts" /\ ChartsNext
        /\ UNCHANGED <<featVars, gradeVars, pagesVars, bookVars, histVars>>
     \/ /\ part = "pages" /\ PagesNext
        /\ UNCHANGED <<featVars, gradeVars, sample, bookVars, histVars>>
     \/ /\ part = "book" /\ BookNext
        /\ UNCHANGED <<featVars, gradeVars, sample, pagesVars, histVars>>
     \/ /\ part = "history" /\ HistoryNext
        /\ UNCHANGED <<featVars, gradeVars, sample, pagesVars, bookVars>>

Spec == Init /\ [][Next]_vars

\* Back, a repeat, one second, past the age limit of the buffer.
MCSteps == {-2, 0, 1, 4}
MCResolutions == <<1, 2, 4>>
MCScores == {None, 0, 1}

\* A stream and the one after a restart from an older offset: its ticks are a
\* little behind.  The second is longer than the table.
FeatureRow(of, at, label, scored) ==
  [stream |-> of, ts |-> at, spike |-> label, score |-> scored]
MCFeatures == <<FeatureRow("a", 2, 1, 0), FeatureRow("a", 3, 0, 1),
                FeatureRow("b", 1, 0, 1), FeatureRow("b", 2, 1, 1),
                FeatureRow("b", 3, 1, 0), FeatureRow("b", 4, 0, 0)>>
=============================================================================
