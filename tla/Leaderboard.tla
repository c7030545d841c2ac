----------------------------- MODULE Leaderboard -----------------------------
(***************************************************************************)
(* The MLflow file store of the tournament: a stage of                     *)
(* btcspiker_ml/search.py writes a run per trial through                   *)
(* btcspiker_ml/tracking.py, file by file, while materializer/tournament.py*)
(* reads the same directory, file by file, for the Tournament page.        *)
(* Neither knows of the other.                                             *)
(*                                                                         *)
(* A run is a sequence number, which is also the order of its id; its      *)
(* files are kept as the set of those written, for each is written once.   *)
(* A stage may be killed (nothing more is written) or interrupted from the *)
(* keyboard, and is resumed later.                                         *)
(***************************************************************************)
EXTENDS Integers, Sequences, FiniteSets

CONSTANTS
  TrialScore,   \* a sequence: aggregate_pr_auc of each trial of the stage
  CanWin,       \* the trials _selection_eligible lets win
  MaxBreaks,    \* bound: kills and interrupts
  MaxFails      \* bound: failed evaluations and calls of MLflow

ASSUME LeaderboardAssumption ==
  /\ TrialScore \in Seq(Nat)
  /\ CanWin \subseteq DOMAIN TrialScore
  /\ MaxBreaks \in Nat /\ MaxFails \in Nat

VARIABLES
  runs,      \* the store: [trial, status, has, verdict], oldest first
  writer,    \* the stage: where it is, its run, its copy of the state
  record,    \* the state file: trials done, failures, best score
  reader,    \* a request: what it reads, the runs left, the rows read
  breaks, fails

boardVars == <<runs, writer, record, reader, breaks, fails>>

TrialIds == DOMAIN TrialScore
Parent == 0
NoScore == -1
NewRecord == [done |-> {}, failures |-> 0, best |-> NoScore, completed |-> FALSE]
NoStage == [at |-> "idle", run |-> 0, skip |-> FALSE, mem |-> NewRecord]
NoRequest == [for |-> "none", at |-> "meta", left |-> {}, row |-> <<>>, rows |-> {}]

BoardInit ==
  /\ runs = <<>> /\ writer = NoStage /\ record = NewRecord
  /\ reader = NoRequest
  /\ breaks = 0 /\ fails = 0
-----------------------------------------------------------------------------
(***************************************************************************)
(* The writer.  What a finished trial logs, in this order; the other       *)
(* metrics, of folds, resources and latency, are one item, with the model  *)
(* and the lineage artifacts between them, which the page does not open.   *)
(***************************************************************************)
NextItem == [tags |-> "params", params |-> "aggregate", aggregate |-> "others",
             others |-> "verdict"]
Logged == DOMAIN NextItem

Read == UNCHANGED reader
StepsTo(at) == writer' = [writer EXCEPT !.at = at]
Trial == runs[writer.run].trial
Breaks == breaks < MaxBreaks /\ breaks' = breaks + 1 /\ UNCHANGED fails
Fails == fails < MaxFails /\ fails' = fails + 1 /\ UNCHANGED breaks
Works == UNCHANGED <<breaks, fails>>
NewRun(trial) == [trial |-> trial, status |-> "RUNNING", has |-> {}, verdict |-> "none"]

\* Load the record and take its copy; start_run for the parent, resumed if the
\* store has one.
OpenStage ==
  /\ writer.at = "idle" /\ ~record.completed
  /\ IF runs = <<>>
     THEN runs' = <<[NewRun(Parent) EXCEPT !.has = {"tags"}, !.verdict = "running"]>>
     ELSE runs' = [runs EXCEPT ![1].status = "RUNNING", ![1].verdict = "running"]
  /\ writer' = [NoStage EXCEPT !.at = "next", !.mem = record]
  /\ UNCHANGED record /\ Works /\ Read

\* The next pending trial: its evaluation is over, and its run is started.  It
\* is skipped if its backend is not installed or the budget was spent.
StartTrial ==
  /\ writer.at = "next" /\ writer.mem.done # TrialIds
  /\ LET pending == TrialIds \ writer.mem.done
         trial == CHOOSE t \in pending : \A u \in pending : t <= u
     IN  runs' = Append(runs, NewRun(trial))
  /\ \E skip \in BOOLEAN :
       writer' = [writer EXCEPT !.at = "tags", !.run = Len(runs) + 1, !.skip = skip]
  /\ UNCHANGED record /\ Works /\ Read

\* set_tags, log_params, log_metrics and the rest; a skipped trial has nothing
\* to log after its parameters.
LogItem ==
  /\ writer.at \in Logged
  /\ runs' = [runs EXCEPT ![writer.run].has = @ \cup {writer.at},
                          ![writer.run].verdict = "running"]
  /\ StepsTo(IF writer.at = "params" /\ writer.skip
          THEN "verdict" ELSE NextItem[writer.at])
  /\ UNCHANGED record /\ Works /\ Read

\* start_run fails at its tags, outside the try block of the trial: the stage
\* ends the run as FAILED and raises, and the exit ends the parent's.
StartFails ==
  /\ writer.at = "tags" /\ Fails
  /\ runs' = [runs EXCEPT ![writer.run].status = "FAILED",
                          ![writer.run].verdict = "failed",
                          ![1].status = "FINISHED"]
  /\ record' = writer.mem /\ writer' = NoStage
  /\ Read

\* The evaluation had failed, or a call of MLflow fails: log_failure.
TrialFails ==
  /\ writer.at \in (Logged \ {"tags"}) \cup {"verdict", "end"}
  /\ Fails
  /\ runs' = [runs EXCEPT ![writer.run].verdict = "failed"]
  /\ StepsTo("fail")
  /\ UNCHANGED record /\ Read

Verdict == IF writer.skip THEN "skipped" ELSE "finished"

\* end_run: the tag run_status first, the status in meta.yaml after it.
SetVerdict ==
  /\ writer.at = "verdict"
  /\ runs' = [runs EXCEPT ![writer.run].verdict = Verdict]
  /\ StepsTo("end")
  /\ UNCHANGED record /\ Works /\ Read

Wins == Trial \in CanWin /\ ~writer.skip /\ TrialScore[Trial] > writer.mem.best

EndRun ==
  /\ writer.at = "end"
  /\ runs' = [runs EXCEPT ![writer.run].status = "FINISHED"]
  /\ writer' = [writer EXCEPT
       !.at = "save", !.mem.done = @ \cup {Trial},
       !.mem.best = IF Wins THEN TrialScore[Trial] ELSE @]
  /\ UNCHANGED record /\ Works /\ Read

EndFailed ==
  /\ writer.at = "fail"
  /\ runs' = [runs EXCEPT ![writer.run].status = "FAILED"]
  /\ writer' = [writer EXCEPT !.at = "save", !.mem.done = @ \cup {Trial},
                              !.mem.failures = @ + 1]
  /\ UNCHANGED record /\ Works /\ Read

\* Every trial is saved; with more than a fifth of failures the stage raises.
SaveTrial ==
  /\ writer.at = "save"
  /\ record' = writer.mem
  /\ StepsTo(IF 5 * writer.mem.failures > Len(TrialScore) THEN "raise" ELSE "next")
  /\ UNCHANGED runs /\ Works /\ Read

EndStage ==
  /\ \/ writer.at = "raise"
     \/ writer.at = "next" /\ writer.mem.done = TrialIds
  /\ LET ended == IF writer.at = "raise" THEN "FAILED" ELSE "FINISHED"
     IN  runs' = [runs EXCEPT ![1].status = ended, ![1].verdict = "ended"]
  /\ writer' = [writer EXCEPT !.at = "close", !.mem.completed = (writer.at = "next")]
  /\ UNCHANGED record /\ Works /\ Read

\* The finally clause.
CloseStage ==
  /\ writer.at = "close"
  /\ record' = writer.mem /\ writer' = NoStage
  /\ UNCHANGED runs /\ Works /\ Read

\* SIGKILL, power: the runs stay as they are.
KillStage ==
  /\ writer.at # "idle" /\ Breaks
  /\ writer' = NoStage
  /\ UNCHANGED <<runs, record>> /\ Read

\* KeyboardInterrupt is no Exception: only the finally clause runs, which saves
\* the copy.  External: the exit of the interpreter ends the run that is active
\* in MLflow as FINISHED, whatever it has.
InterruptStage ==
  /\ writer.at \in Logged \cup {"verdict", "end", "fail", "save"} /\ Breaks
  /\ record' = writer.mem
  /\ runs' = [runs EXCEPT
       ![IF writer.at = "save" THEN 1 ELSE writer.run].status = "FINISHED"]
  /\ writer' = NoStage
  /\ Read
-----------------------------------------------------------------------------
(***************************************************************************)
(* The reader: list_runs or get_run of one run.  A run's meta.yaml is read *)
(* first, then params and tags, in one step here, then the metrics.        *)
(***************************************************************************)
Wrote == UNCHANGED <<runs, writer, record>> /\ Works

\* Slip: the status is read last.
NextPartStatusLast == [tags |-> "metrics", metrics |-> "meta", meta |-> "row"]

NextPart == [meta |-> "tags", tags |-> "metrics", metrics |-> "row"]
InPart(part) ==
  CASE part = "tags" -> {"params", "tags"}
    [] part = "metrics" -> {"aggregate", "others"}
    [] OTHER -> {}
FirstPart == CHOOSE p \in DOMAIN NextPart : \A q \in DOMAIN NextPart : NextPart[q] # p

Ask(for, which) ==
  /\ reader.for = "none"
  /\ reader' = [NoRequest EXCEPT !.for = for, !.left = which, !.at = FirstPart]
  /\ Wrote

\* Without a store both answer 503, without such a run get_run 404.
AskList == runs # <<>> /\ Ask("list", DOMAIN runs)
\* Bound: the single run asked for is the one being written.
AskRun == writer.at \in Logged /\ Ask("run", {writer.run})

\* The oldest id of those left; what has been read of it is the row.
Current == CHOOSE r \in reader.left : \A s \in reader.left : r <= s
RowSoFar == IF reader.row = <<>>
            THEN [run |-> Current, status |-> "UNKNOWN", has |-> {}]
            ELSE reader.row

ReadPart ==
  /\ reader.for # "none" /\ reader.left # {}
  /\ LET run == runs[Current]
         row == IF reader.at = "meta"
                THEN [RowSoFar EXCEPT !.status = run.status]
                ELSE [RowSoFar EXCEPT !.has = @ \cup (run.has \cap InPart(reader.at))]
     IN  reader' =
           IF NextPart[reader.at] # "row"
           THEN [reader EXCEPT !.at = NextPart[@], !.row = row]
           ELSE [reader EXCEPT !.at = FirstPart, !.row = <<>>,
                               !.left = @ \ {Current}, !.rows = @ \cup {row}]
  /\ Wrote

ScoreOf(row) ==
  IF "aggregate" \in row.has THEN TrialScore[runs[row.run].trial] ELSE NoScore

\* The key of the sort: no score, less the score, the id.
Ahead(a, b) ==
  LET none(row) == ScoreOf(row) = NoScore
  IN  \/ ~none(a) /\ none(b)
      \/ /\ none(a) = none(b)
         /\ \/ ScoreOf(a) > ScoreOf(b)
            \/ ScoreOf(a) = ScoreOf(b) /\ a.run < b.run

\* The response, once every run has been read.
Responds == reader.for # "none" /\ reader.left = {}
PlaceOf(row) == Cardinality({other \in reader.rows : Ahead(other, row)}) + 1
Listing ==
  [i \in 1 .. Cardinality(reader.rows) |->
     CHOOSE row \in reader.rows : PlaceOf(row) = i]

Answer ==
  /\ Responds
  /\ reader' = NoRequest
  /\ Wrote

BoardNext ==
  \/ OpenStage \/ StartTrial \/ StartFails \/ LogItem \/ TrialFails
  \/ SetVerdict \/ EndRun \/ EndFailed \/ SaveTrial \/ EndStage \/ CloseStage
  \/ KillStage \/ InterruptStage
  \/ AskList \/ AskRun \/ ReadPart \/ Answer

BoardSpec == BoardInit /\ [][BoardNext]_boardVars
-----------------------------------------------------------------------------
BoardTypeOK ==
  /\ \A r \in DOMAIN runs :
       /\ runs[r].trial \in TrialIds \cup {Parent} /\ runs[r].has \subseteq Logged
       /\ runs[r].status \in {"RUNNING", "FINISHED", "FAILED"}
  /\ record.done \subseteq TrialIds /\ writer.mem.done \subseteq TrialIds
  /\ reader.left \subseteq DOMAIN runs

Finished(r) == runs[r].status = "FINISHED" /\ runs[r].verdict = "finished"

(***************************************************************************)
(* A finished run is shown with every metric, parameter and tag it was     *)
(* logged with, however the page's reads fall between the writes: a run    *)
(* shown as FINISHED lacks some only if its trial was skipped or the       *)
(* interpreter's exit ended it half way.                                   *)
(***************************************************************************)
FinishedIsWhole ==
  \A row \in reader.rows :
    row.status = "FINISHED" /\ runs[row.run].verdict = "finished"
      => Logged \subseteq row.has

(***************************************************************************)
(* The leaderboard has the best score first and the runs without a score   *)
(* last, one that scored nothing included: a score of zero is a score.     *)
(***************************************************************************)
BestFirst ==
  Responds =>
    LET list == Listing
    IN  \A i \in 1 .. Len(list) - 1 :
          /\ ScoreOf(list[i]) = NoScore => ScoreOf(list[i + 1]) = NoScore
          /\ ScoreOf(list[i]) >= ScoreOf(list[i + 1])

(***************************************************************************)
(* What the record calls done has a run that ended with a verdict, and the *)
(* best score it holds is that of a finished run, wherever the stage broke *)
(* off: the page shows the winner that qualification will look for.        *)
(***************************************************************************)
RecordHasRuns ==
  /\ \A t \in record.done : \E r \in DOMAIN runs :
       /\ runs[r].trial = t /\ runs[r].status # "RUNNING"
       /\ runs[r].verdict \in {"finished", "failed", "skipped"}
  /\ record.best # NoScore => \E r \in DOMAIN runs :
       /\ Finished(r) /\ runs[r].trial \in CanWin
       /\ TrialScore[runs[r].trial] = record.best

(***************************************************************************)
(* Conversely, no finished run that may win beats the record's best once   *)
(* its trial is done, unless that trial was run again after a break and    *)
(* failed or was skipped then: the page's first run is not the winner.     *)
(* A trial has two finished runs only after a break.                       *)
(***************************************************************************)
RunsHaveRecord ==
  /\ \A r \in DOMAIN runs :
       Finished(r) /\ runs[r].trial \in CanWin \cap record.done
         => \/ TrialScore[runs[r].trial] <= record.best
            \/ \E s \in DOMAIN runs : s > r /\ runs[s].trial = runs[r].trial
                                     /\ runs[s].verdict \in {"failed", "skipped"}
  /\ \A r, s \in DOMAIN runs :
       Finished(r) /\ Finished(s) /\ runs[r].trial = runs[s].trial
         => r = s \/ breaks > 0 \/ fails > 0

\* The invariant of the leaderboard.
BoardInv ==
  /\ BoardTypeOK /\ FinishedIsWhole /\ BestFirst /\ RecordHasRuns /\ RunsHaveRecord
=============================================================================
