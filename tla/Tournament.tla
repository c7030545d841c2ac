----------------------------- MODULE Tournament -----------------------------
(***************************************************************************)
(* The model tournament: btcspiker_ml/search.py runs one stage of trials   *)
(* per process and saves the whole SearchState, a JSON file, after every   *)
(* trial; btcspiker_ml/qualification.py and scripts/qualify_candidate.py   *)
(* open the sealed final holdout for the strongest winner, write the       *)
(* verdict and register the model.  A process is an invocation of either   *)
(* script; it works on a copy of the state it loaded when it began, and    *)
(* may die anywhere.                                                       *)
(*                                                                         *)
(* A save replaces the file by a rename, so a reader sees a whole state.   *)
(* A trial is its number in the plan of its stage; the winner of a stage   *)
(* is the trial whose run it is.                                           *)
(***************************************************************************)
EXTENDS Integers, FiniteSets

CONSTANTS
  Procs,        \* processes
  NoProc,       \* none of them
  Stages,       \* VALID_STAGES
  Required,     \* the stages open_final_holdout requires
  Baseline,     \* the reference stage
  Neural,       \* the stage that may be ineligible
  NeuralNeeds,  \* the stages it needs completed
  Plan,         \* Plan[s]: number of trials of stage s
  Score,        \* Score[s][t]: aggregate_pr_auc of trial t, were it to finish
  Eligible,     \* Eligible[s]: trials _selection_eligible lets win
  Overlap       \* whether the operator runs a stage beside another process

ASSUME ProcsAssumption == NoProc \notin Procs
ASSUME StagesAssumption ==
  /\ Baseline \in Stages /\ Neural \in Stages
  /\ Required \subseteq Stages /\ Required # {}
  /\ NeuralNeeds \subseteq Stages
ASSUME PlanAssumption ==
  /\ Plan \in [Stages -> Nat]
  /\ \A s \in Stages : \A t \in 1..Plan[s] : Score[s][t] \in Nat
  /\ \A s \in Stages : Eligible[s] \subseteq 1..Plan[s]
ASSUME OverlapAssumption == Overlap \in BOOLEAN

VARIABLES
  saved,        \* the state file exists
  file,         \* its content, a SearchState
  lock,         \* who holds the .qualification.lock
  pc,           \* pc[p]: where process p is
  job,          \* job[p]: its stage, and the trial it qualifies (0: none)
  mem,          \* mem[p]: its copy of the state
  parents,      \* parents[s]: runs tagged in MLflow as parent of stage s
  looks,        \* times the final holdout was evaluated
  verdict,      \* verdict[s][t]: the qualification.json of a candidate
  registered,   \* candidates with a registered version
  staged        \* candidates whose version is in Staging

disk == <<saved, file>>
outcome == <<verdict, registered, staged>>
vars == <<disk, lock, pc, job, mem, parents, looks, outcome>>

Candidates == {c \in Stages \X UNION {1..Plan[s] : s \in Stages} : c[2] <= Plan[c[1]]}

-----------------------------------------------------------------------------
States ==
  [completed : SUBSET Stages,
   parent    : SUBSET Stages,
   done      : [Stages -> SUBSET Nat],
   failures  : [Stages -> Nat],
   best      : [Stages -> Nat],
   opened    : BOOLEAN]

\* SearchState.new: nothing done, the holdout sealed.
Fresh ==
  [completed |-> {},
   parent    |-> {},
   done      |-> [s \in Stages |-> {}],
   failures  |-> [s \in Stages |-> 0],
   best      |-> [s \in Stages |-> 0],
   opened    |-> FALSE]

Stage(p) == job[p][1]
InStage(p) == pc[p] \in {"loaded", "parented", "started", "running", "raising"}
Qualifying(p) == pc[p] \in {"locked", "sealed"}
Judging(p) == pc[p] \in {"evaluated", "passed", "registered"}
Nothing == <<Baseline, 0>>
Pending(st, s) == (1..Plan[s]) \ st.done[s]

Init ==
  /\ saved = FALSE
  /\ file = Fresh
  /\ lock = NoProc
  /\ pc = [p \in Procs |-> "idle"]
  /\ job = [p \in Procs |-> Nothing]
  /\ mem = [p \in Procs |-> Fresh]
  /\ parents = [s \in Stages |-> 0]
  /\ looks = 0
  /\ verdict = [c \in Candidates |-> "none"]
  /\ registered = {}
  /\ staged = {}

\* SearchState.save of the copy st.
Save(st) == saved' = TRUE /\ file' = st

\* Process p moves on with the copy st; a process that ends forgets all.
Goes(p, to, st) ==
  /\ pc' = [pc EXCEPT ![p] = to]
  /\ mem' = [mem EXCEPT ![p] = IF to = "idle" THEN Fresh ELSE st]
  /\ job' = [job EXCEPT ![p] = IF to = "idle" THEN Nothing ELSE @]

-----------------------------------------------------------------------------
\* Slip: a stage that resumes looks no further than its state file.
KnownParent(s) == s \in file.parent

\* The parent run of the stage: its recorded id, or a search of MLflow.
HasParent(s) == s \in file.parent \/ parents[s] > 0

\* Slip: a stage starts from a new state.
LoadedFresh(s) == IF HasParent(s) THEN [Fresh EXCEPT !.parent = {s}] ELSE Fresh

\* SearchState.load_or_create, with a recovered parent.  The file does not
\* exist before the first save, and then a new state is what it would hold.
Loaded(s) == IF HasParent(s) THEN [file EXCEPT !.parent = @ \cup {s}] ELSE file

\* run_stage up to the parent run: load, record the contract and a recovered
\* parent.  A stage that is complete returns.  (Without --resume, or with
\* another contract, it raises before it writes anything.)
BeginStage(p, s) ==
  /\ pc[p] = "idle"
  /\ Overlap \/ \A q \in Procs : ~InStage(q) /\ ~Qualifying(q)
  /\ Save(Loaded(s))
  /\ IF Pending(file, s) = {} /\ s \in file.completed /\ HasParent(s)
     THEN UNCHANGED <<pc, mem, job>>
     ELSE /\ pc' = [pc EXCEPT ![p] = "loaded"]
          /\ mem' = [mem EXCEPT ![p] = Loaded(s)]
          /\ job' = [job EXCEPT ![p] = <<s, 0>>]
  /\ UNCHANGED <<lock, parents, looks, outcome>>

\* tracker.start_run: the known parent is resumed, or a new one started and
\* tagged.  (A run whose process dies before the tags is nobody's parent.)
StartParent(p) ==
  /\ pc[p] = "loaded"
  /\ IF Stage(p) \in mem[p].parent
     THEN Goes(p, "started", mem[p]) /\ UNCHANGED parents
     ELSE /\ Goes(p, "parented", mem[p])
          /\ parents' = [parents EXCEPT ![Stage(p)] = @ + 1]
  /\ UNCHANGED <<disk, lock, looks, outcome>>

\* The copy of p becomes st, and so does the file.
GoesSaving(p, to, st) ==
  /\ Goes(p, to, st)
  /\ Save(st)
  /\ UNCHANGED <<lock, parents, looks, outcome>>

SaveParent(p) ==
  /\ pc[p] = "parented"
  /\ GoesSaving(p, "started", [mem[p] EXCEPT !.parent = @ \cup {Stage(p)}])

Ineligible(p) == Stage(p) = Neural /\ ~(NeuralNeeds \subseteq mem[p].completed)

\* Process p is at its trials.
AtTrials(p) == pc[p] \in {"started", "running"} /\ ~Ineligible(p)

WithStage(p) == [mem[p] EXCEPT !.completed = @ \cup {Stage(p)}]

\* The neural stage lacks a stage, rows, events or a plateau (only the first
\* is in the state): it counts as complete.
SkipStage(p) ==
  /\ pc[p] = "started"
  /\ Stage(p) = Neural
  /\ GoesSaving(p, "idle", WithStage(p))

\* A trial is done: best_run_ids keeps the first eligible trial of the
\* highest score, failure_counts the failures.
WithTrial(st, s, t, result) ==
  LET wins == /\ result = "finished" /\ t \in Eligible[s]
              /\ st.best[s] = 0 \/ Score[s][t] > Score[s][st.best[s]]
  IN [st EXCEPT !.done[s] = @ \cup {t},
                !.failures[s] = IF result = "failed" THEN @ + 1 ELSE @,
                !.best[s] = IF wins THEN t ELSE @]

\* failure_counts[stage] / len(trials) > 0.20
TooManyFailures(st, s) == 5 * st.failures[s] > Plan[s]

\* The next pending trial is logged and the state saved.  Beyond the failure
\* threshold the stage raises.
RunTrial(p) ==
  /\ AtTrials(p)
  /\ \E t \in Pending(mem[p], Stage(p)), result \in {"finished", "failed", "other"} :
       /\ \A u \in Pending(mem[p], Stage(p)) : t <= u
       /\ LET st == WithTrial(mem[p], Stage(p), t, result)
          IN GoesSaving(p, IF TooManyFailures(st, Stage(p)) THEN "raising" ELSE "running", st)

\* No trial is left.
CompleteStage(p) ==
  /\ AtTrials(p)
  /\ Pending(mem[p], Stage(p)) = {}
  /\ GoesSaving(p, "idle", WithStage(p))

\* That exception, or another, leaves the loop: finally saves the copy.
StageRaises(p) ==
  /\ AtTrials(p) \/ pc[p] = "raising"
  /\ GoesSaving(p, "idle", mem[p])

-----------------------------------------------------------------------------
\* qualify_recorded_candidate takes the lock and loads the state.
BeginQualification(p, c) ==
  /\ pc[p] = "idle" /\ saved
  /\ Overlap \/ \A q \in Procs : ~InStage(q)
  /\ lock = NoProc
  /\ lock' = p
  /\ pc' = [pc EXCEPT ![p] = "locked"]
  /\ mem' = [mem EXCEPT ![p] = file]
  /\ job' = [job EXCEPT ![p] = c]
  /\ UNCHANGED <<disk, parents, looks, outcome>>

\* _validate_authorities: c is the recorded winner of its stage, no recorded
\* winner is stronger, and there is a baseline.
Strongest(st, c) ==
  /\ st.best[c[1]] = c[2]
  /\ st.best[Baseline] # 0
  /\ \A s \in Stages : st.best[s] # 0 => Score[s][st.best[s]] <= Score[c[1]][c[2]]

\* open_final_holdout(requesting_stage="qualification")
MayOpen(st) == ~st.opened /\ Required \subseteq st.completed

\* Slip: the seal is broken in memory only.
SealUnsaved(p) ==
  /\ pc[p] = "locked"
  /\ Strongest(mem[p], job[p]) /\ MayOpen(mem[p])
  /\ Goes(p, "sealed", [mem[p] EXCEPT !.opened = TRUE])
  /\ UNCHANGED <<disk, lock, parents, looks, outcome>>

\* The seal is broken in the file before the holdout is read.
Seal(p) ==
  /\ pc[p] = "locked"
  /\ Strongest(mem[p], job[p]) /\ MayOpen(mem[p])
  /\ GoesSaving(p, "sealed", [mem[p] EXCEPT !.opened = TRUE])

\* _derive_evidence evaluates the holdout; the lock is released.
Evaluate(p) ==
  /\ pc[p] = "sealed"
  /\ Goes(p, "evaluated", Fresh)
  /\ looks' = looks + 1
  /\ lock' = NoProc
  /\ UNCHANGED <<disk, parents, outcome>>

\* Slip: the model is registered whatever the verdict.
WriteAnyVerdict(p) ==
  /\ pc[p] = "evaluated"
  /\ verdict[job[p]] = "none"
  /\ \E v \in {"passed", "failed"} : verdict' = [verdict EXCEPT ![job[p]] = v]
  /\ Goes(p, "passed", Fresh)
  /\ UNCHANGED <<disk, lock, parents, looks, registered, staged>>

\* qualification.json is written, once for a run; only a pass goes on.
WriteVerdict(p) ==
  /\ pc[p] = "evaluated"
  /\ verdict[job[p]] = "none"
  /\ \E v \in {"passed", "failed"} :
       /\ verdict' = [verdict EXCEPT ![job[p]] = v]
       /\ Goes(p, IF v = "passed" THEN "passed" ELSE "idle", Fresh)
  /\ UNCHANGED <<disk, lock, parents, looks, registered, staged>>

Register(p) ==
  /\ pc[p] = "passed"
  /\ Goes(p, "registered", Fresh)
  /\ registered' = registered \cup {job[p]}
  /\ UNCHANGED <<disk, lock, parents, looks, verdict, staged>>

Transition(p) ==
  /\ pc[p] = "registered"
  /\ Goes(p, "idle", Fresh)
  /\ staged' = staged \cup {job[p]}
  /\ UNCHANGED <<disk, lock, parents, looks, verdict, registered>>

\* A process is killed, refused, or raises where nothing is left to save; the
\* system frees its lock.
Die(p) ==
  /\ pc[p] # "idle"
  /\ Goes(p, "idle", Fresh)
  /\ lock' = IF lock = p THEN NoProc ELSE lock
  /\ UNCHANGED <<disk, parents, looks, outcome>>

-----------------------------------------------------------------------------
Search(p) ==
  \/ \E s \in Stages : BeginStage(p, s)
  \/ StartParent(p) \/ SaveParent(p) \/ SkipStage(p)
  \/ RunTrial(p) \/ CompleteStage(p) \/ StageRaises(p)

Qualify(p) ==
  \/ \E c \in Candidates : BeginQualification(p, c)
  \/ Seal(p) \/ Evaluate(p) \/ WriteVerdict(p) \/ Register(p) \/ Transition(p)

Next == \E p \in Procs : Search(p) \/ Qualify(p) \/ Die(p)

Spec == Init /\ [][Next]_vars

-----------------------------------------------------------------------------
Phases == {"idle", "loaded", "parented", "started", "running", "raising",
           "locked", "sealed", "evaluated", "passed", "registered"}

\* A state, whose trials are those of the plan.
StateType(st) ==
  /\ st \in States
  /\ \A s \in Stages : st.done[s] \subseteq 1..Plan[s] /\ st.best[s] \in 0..Plan[s]

ProcsType ==
  /\ pc \in [Procs -> Phases]
  /\ job \in [Procs -> Candidates \cup (Stages \X {0})]
  /\ mem \in [Procs -> States]
  /\ \A p \in Procs : StateType(mem[p])
  /\ \A p \in Procs : Qualifying(p) \/ Judging(p) => job[p] \in Candidates

OutcomeType ==
  /\ lock \in Procs \cup {NoProc}
  /\ parents \in [Stages -> Nat]
  /\ looks \in Nat
  /\ verdict \in [Candidates -> {"none", "passed", "failed"}]
  /\ registered \subseteq Candidates
  /\ staged \subseteq Candidates

\* The type of every variable; a copy is as good as the state file, and a
\* qualifier has a candidate.
TypeOK == saved \in BOOLEAN /\ StateType(file) /\ ProcsType /\ OutcomeType

\* docs/runbook.md, qualify_recorded_candidate: the final holdout is
\* evaluated once.
HoldoutSpentOnce == looks <= 1

\* docs/goals/prediction-quality-goal.md: a stage stops after failures exceed
\* 20% of its trial budget.  It runs no other trial and is not completed.
Stops(s) ==
  /\ file'.done[s] = file.done[s]
  /\ s \in file'.completed => s \in file.completed
FailedStageStops == [][\A s \in Stages : TooManyFailures(file, s) => Stops(s)]_file

\* At most one candidate is ever registered, one whose evaluation of the
\* untouched holdout passed, and only a registered one is in Staging, with
\* whatever qualifiers racing or dying.
StagedIsSound ==
  /\ \A c \in registered : verdict[c] = "passed"
  /\ \A c, d \in registered : c = d
  /\ staged \subseteq registered

\* A process that dies between starting a parent run and saving its id leaves
\* a run the next one finds: a stage has one parent run.
OneParent == \A s \in Stages : parents[s] <= 1

\* The resume record only grows: no trial, failure, completed stage or broken
\* seal is forgotten, and no winner yields to a weaker one.
Grows ==
  /\ file.completed \subseteq file'.completed
  /\ file.parent \subseteq file'.parent
  /\ \A s \in Stages :
       /\ file.done[s] \subseteq file'.done[s]
       /\ file.failures[s] <= file'.failures[s]
       /\ file.best[s] # 0 => /\ file'.best[s] # 0
                              /\ Score[s][file.best[s]] <= Score[s][file'.best[s]]
  /\ file.opened => file'.opened
StateGrows == [][Grows]_file

-----------------------------------------------------------------------------
\* Why, as long as no stage runs beside another process: its copy is the
\* file, and of the qualifiers only the one with the lock has a copy.
Alone ==
  /\ \A p, q \in Procs : InStage(p) /\ q # p => ~InStage(q) /\ ~Qualifying(q)
  /\ \A p \in Procs : InStage(p) => mem[p] = file
  /\ \A p \in Procs : Qualifying(p) => mem[p] = file /\ lock = p

\* The seal goes before the look, and a second qualifier finds it broken.
Sealed ==
  /\ file.opened => Required \subseteq file.completed
  /\ looks \in {0, 1}
  /\ looks = 1 => file.opened
  /\ \A p \in Procs : pc[p] = "sealed" => file.opened /\ looks = 0

\* The holdout was looked at for one candidate, by one process.
OneJudged ==
  /\ \A p \in Procs : Judging(p) => looks = 1 /\ \A q \in Procs : Judging(q) => p = q
  /\ \A c \in Candidates : verdict[c] # "none" =>
       /\ looks = 1
       /\ \A d \in Candidates : verdict[d] # "none" => c = d
       /\ \A p \in Procs : Judging(p) => pc[p] # "evaluated" /\ job[p] = c
  /\ \A p \in Procs : pc[p] \in {"passed", "registered"} => verdict[job[p]] = "passed"
  /\ \A p \in Procs : pc[p] = "registered" => job[p] \in registered

ParentsFound ==
  /\ OneParent
  /\ \A p \in Procs : pc[p] = "loaded" /\ Stage(p) \notin mem[p].parent
                        => parents[Stage(p)] = 0

IInv == TypeOK /\ Alone /\ Sealed /\ OneJudged /\ ParentsFound /\ StagedIsSound

\* The tournament keeps the promise of Holdout.
Abstract == INSTANCE Holdout WITH
  searched <- Required \subseteq file.completed,
  opened <- file.opened

\* Every step searches, opens the sealed holdout, looks at it for the first
\* time, or leaves it alone.
ImplementsHoldout == Abstract!Spec
=============================================================================
