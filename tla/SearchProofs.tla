---------------------------- MODULE SearchProofs ----------------------------
(***************************************************************************)
(* Proofs about the search: the state file and the holdout while processes *)
(* race and die (Tournament), what the page shows while a stage writes its *)
(* runs and its state file (Leaderboard), and how the rows of a dataset    *)
(* are divided (Splits), for any stages, trials, runs, failures, datasets  *)
(* and shares.                                                             *)
(***************************************************************************)
EXTENDS Tournament, Leaderboard, Splits, MaskProofs

-----------------------------------------------------------------------------
(***************************************************************************)
(* Tournament, as long as no stage runs beside a process that holds a copy *)
(* of the state file: the holdout is looked at once, and only what passed  *)
(* on it is registered, whatever process dies where and however many       *)
(* qualifiers race.                                                        *)
(***************************************************************************)
LEMMA JobStage ==
  ASSUME ProcsType, NEW p \in Procs
  PROVE  Stage(p) \in Stages
  BY DEF ProcsType, Stage, Candidates

LEMMA FreshType == StateType(Fresh)
<1>1. Fresh \in States
  BY DEF Fresh, States
<1>2. \A s \in Stages : Plan[s] \in Nat
  BY PlanAssumption
<1> QED
  BY <1>1, <1>2 DEF StateType, Fresh

-----------------------------------------------------------------------------
\* What the steps of a stage write is a state, and no less than before.

\* The step from the state st to the state new loses nothing.
Keeps(st, new) ==
  /\ st.completed \subseteq new.completed
  /\ st.parent \subseteq new.parent
  /\ \A s \in Stages :
       /\ st.done[s] \subseteq new.done[s]
       /\ st.failures[s] <= new.failures[s]
       /\ st.best[s] # 0 => /\ new.best[s] # 0
                            /\ Score[s][st.best[s]] <= Score[s][new.best[s]]
  /\ new.opened = st.opened

LEMMA KeepsItself ==
  ASSUME NEW st, StateType(st)
  PROVE  Keeps(st, st)
<1>1. \A s \in Stages : st.best[s] # 0 => Score[s][st.best[s]] \in Nat
  BY PlanAssumption DEF StateType
<1>2. \A s \in Stages : st.failures[s] \in Nat
  BY DEF StateType, States
<1> QED
  BY <1>1, <1>2 DEF Keeps

LEMMA StageAdded ==
  ASSUME NEW st, StateType(st), NEW s \in Stages
  PROVE  LET new == [st EXCEPT !.completed = @ \cup {s}]
         IN StateType(new) /\ Keeps(st, new)
<1> DEFINE new == [st EXCEPT !.completed = @ \cup {s}]
<1>1. new \in States
  BY DEF StateType, States
<1>2. /\ new.completed = st.completed \cup {s}
      /\ new.parent = st.parent /\ new.done = st.done /\ new.failures = st.failures
      /\ new.best = st.best /\ new.opened = st.opened
  BY DEF StateType, States
<1>3. StateType(new)
  BY <1>1, <1>2 DEF StateType
<1> QED
  BY <1>2, <1>3, KeepsItself DEF Keeps

LEMMA ParentAdded ==
  ASSUME NEW st, StateType(st), NEW s \in Stages
  PROVE  LET new == [st EXCEPT !.parent = @ \cup {s}]
         IN StateType(new) /\ Keeps(st, new)
<1> DEFINE new == [st EXCEPT !.parent = @ \cup {s}]
<1>1. new \in States
  BY DEF StateType, States
<1>2. /\ new.parent = st.parent \cup {s}
      /\ new.completed = st.completed /\ new.done = st.done /\ new.failures = st.failures
      /\ new.best = st.best /\ new.opened = st.opened
  BY DEF StateType, States
<1>3. StateType(new)
  BY <1>1, <1>2 DEF StateType
<1> QED
  BY <1>2, <1>3, KeepsItself DEF Keeps

LEMMA TrialAdded ==
  ASSUME NEW st, StateType(st), NEW s \in Stages, NEW t \in 1..Plan[s], NEW result
  PROVE  StateType(WithTrial(st, s, t, result)) /\ Keeps(st, WithTrial(st, s, t, result))
<1> DEFINE wins == /\ result = "finished" /\ t \in Eligible[s]
                   /\ st.best[s] = 0 \/ Score[s][t] > Score[s][st.best[s]]
           failed == IF result = "failed" THEN st.failures[s] + 1 ELSE st.failures[s]
           best == IF wins THEN t ELSE st.best[s]
           new == WithTrial(st, s, t, result)
<1>0. Plan[s] \in Nat /\ t \in Nat
  BY PlanAssumption
<1>1. /\ st.done \in [Stages -> SUBSET Nat]
      /\ st.failures \in [Stages -> Nat] /\ st.best \in [Stages -> Nat]
      /\ st.completed \subseteq Stages /\ st.parent \subseteq Stages /\ st.opened \in BOOLEAN
  BY DEF StateType, States
<1>2. /\ new.completed = st.completed /\ new.parent = st.parent /\ new.opened = st.opened
      /\ new.done = [st.done EXCEPT ![s] = @ \cup {t}]
      /\ new.failures = [st.failures EXCEPT ![s] = failed]
      /\ new.best = [st.best EXCEPT ![s] = best]
  BY DEF WithTrial, StateType, States
<1>3. failed \in Nat /\ st.failures[s] <= failed
  BY <1>1
<1>4. best \in 0..Plan[s] /\ best \in Nat
  BY <1>0 DEF StateType
<1>5. new \in States
  <2>1. new.done \in [Stages -> SUBSET Nat]
    BY <1>0, <1>1, <1>2
  <2>2. new.failures \in [Stages -> Nat] /\ new.best \in [Stages -> Nat]
    BY <1>1, <1>2, <1>3, <1>4
  <2>3. new = [st EXCEPT !.done = [st.done EXCEPT ![s] = @ \cup {t}],
                         !.failures = [st.failures EXCEPT ![s] = failed],
                         !.best = [st.best EXCEPT ![s] = best]]
    BY DEF WithTrial
  <2> QED
    <3>1. st \in States
      BY DEF StateType
    <3>2. new = [st EXCEPT !.done = new.done, !.failures = new.failures, !.best = new.best]
      BY <1>2, <2>3
    <3> HIDE DEF new
    <3>3. [st EXCEPT !.done = new.done, !.failures = new.failures, !.best = new.best] \in States
      BY <2>1, <2>2, <3>1 DEF States
    <3> QED
      BY <3>2, <3>3
<1>6. StateType(new)
  <2> SUFFICES ASSUME NEW u \in Stages
               PROVE  new.done[u] \subseteq 1..Plan[u] /\ new.best[u] \in 0..Plan[u]
    BY <1>5 DEF StateType
  <2> QED
    BY <1>1, <1>2, <1>4 DEF StateType
<1>7. Keeps(st, new)
  <2>1. Keeps(st, st)
    BY KeepsItself
  <2> SUFFICES ASSUME NEW u \in Stages
               PROVE  /\ st.done[u] \subseteq new.done[u]
                      /\ st.failures[u] <= new.failures[u]
                      /\ st.best[u] # 0 => /\ new.best[u] # 0
                                           /\ Score[u][st.best[u]] <= Score[u][new.best[u]]
    BY <1>2 DEF Keeps
  <2>2. CASE u # s
    BY <1>1, <1>2, <2>1, <2>2 DEF Keeps
  <2>3. CASE u = s
    <3>1. st.done[u] \subseteq new.done[u] /\ st.failures[u] <= new.failures[u]
      BY <1>1, <1>2, <1>3, <2>3
    <3>2. ASSUME st.best[s] # 0
          PROVE  best # 0 /\ Score[s][st.best[s]] <= Score[s][best]
      <4>1. st.best[s] \in 1..Plan[s]
        BY <3>2, <1>0 DEF StateType
      <4>2. Score[s][st.best[s]] \in Nat /\ Score[s][t] \in Nat
        BY <4>1, PlanAssumption
      <4> QED
        BY <3>2, <4>2, <1>0
    <3> QED
      BY <1>1, <1>2, <2>3, <3>1, <3>2
  <2> QED
    BY <2>2, <2>3
<1> QED
  BY <1>6, <1>7

LEMMA LoadedType ==
  ASSUME TypeOK, NEW s \in Stages
  PROVE  StateType(Loaded(s)) /\ Keeps(file, Loaded(s))
  BY ParentAdded, KeepsItself DEF Loaded, TypeOK

LEMMA SealType ==
  ASSUME NEW st, StateType(st)
  PROVE  LET new == [st EXCEPT !.opened = TRUE]
         IN /\ StateType(new)
            /\ new.completed = st.completed
            /\ new.opened = TRUE
            /\ Keeps(st, [new EXCEPT !.opened = st.opened])
<1> DEFINE new == [st EXCEPT !.opened = TRUE]
<1>1. /\ new \in States
      /\ new.parent = st.parent
      /\ new.completed = st.completed /\ new.done = st.done /\ new.failures = st.failures
      /\ new.best = st.best /\ new.opened = TRUE
  BY DEF StateType, States
<1>2. [new EXCEPT !.opened = st.opened] = st
  BY DEF StateType, States
<1> QED
  BY <1>1, <1>2, KeepsItself DEF StateType

-----------------------------------------------------------------------------
LEMMA InitType == Init => TypeOK
<1> SUFFICES ASSUME Init PROVE TypeOK
  OBVIOUS
<1>1. Nothing \in Stages \X {0}
  BY StagesAssumption DEF Nothing
<1>2. ProcsType
  <2>1. Fresh \in States /\ \A p \in Procs : StateType(mem[p])
    BY FreshType DEF Init, StateType
  <2> QED
    BY <1>1, <2>1 DEF Init, ProcsType, Phases, Qualifying, Judging
<1>3. OutcomeType
  BY DEF Init, OutcomeType
<1> QED
  BY <1>2, <1>3, FreshType DEF Init, TypeOK

LEMMA GoesType ==
  ASSUME ProcsType, NEW p \in Procs, NEW to \in Phases, NEW st, StateType(st),
         Goes(p, to, st),
         to \in {"locked", "sealed", "evaluated", "passed", "registered"}
           => job[p] \in Candidates
  PROVE  ProcsType'
<1>1. pc' = [pc EXCEPT ![p] = to] /\ pc' \in [Procs -> Phases]
  BY DEF Goes, ProcsType
<1>2. Nothing \in Stages \X {0}
  BY StagesAssumption DEF Nothing
<1>3. /\ job' = [job EXCEPT ![p] = IF to = "idle" THEN Nothing ELSE job[p]]
      /\ job' \in [Procs -> Candidates \cup (Stages \X {0})]
  BY <1>2 DEF Goes, ProcsType
<1>4. /\ mem' = [mem EXCEPT ![p] = IF to = "idle" THEN Fresh ELSE st]
      /\ StateType(IF to = "idle" THEN Fresh ELSE st)
  BY FreshType DEF Goes
<1>5. mem' \in [Procs -> States] /\ \A q \in Procs : StateType(mem'[q])
  BY <1>4 DEF StateType, ProcsType
<1>6. \A q \in Procs : (Qualifying(q) \/ Judging(q))' => job'[q] \in Candidates
  <2> SUFFICES ASSUME NEW q \in Procs, (Qualifying(q) \/ Judging(q))'
               PROVE  job'[q] \in Candidates
    OBVIOUS
  <2>1. CASE q = p
    BY <1>1, <1>3, <2>1 DEF ProcsType, Qualifying, Judging
  <2>2. CASE q # p
    BY <1>1, <1>3, <2>2 DEF ProcsType, Qualifying, Judging
  <2> QED
    BY <2>1, <2>2
<1>7. \A q \in Procs : StateType(mem[q])'
  BY <1>5 DEF StateType
<1> QED
  BY <1>1, <1>3, <1>5, <1>6, <1>7 DEF ProcsType

\* What a step of a process that works on st writes.
LEMMA SaveType ==
  ASSUME TypeOK, NEW p \in Procs, NEW to \in Phases, NEW st, StateType(st),
         GoesSaving(p, to, st),
         to \in {"locked", "sealed", "evaluated", "passed", "registered"}
           => job[p] \in Candidates
  PROVE  TypeOK'
<1>1. ProcsType'
  BY GoesType DEF GoesSaving, TypeOK
<1>2. saved' = TRUE /\ StateType(file)'
  BY DEF GoesSaving, Save, StateType
<1>3. OutcomeType'
  BY DEF GoesSaving, TypeOK, OutcomeType, outcome
<1> QED
  BY <1>1, <1>2, <1>3 DEF TypeOK

\* The copy that process p saves next, where it is at its trials.
LEMMA TrialType ==
  ASSUME TypeOK, NEW p \in Procs, NEW t \in Pending(mem[p], Stage(p)), NEW result
  PROVE  /\ StateType(WithTrial(mem[p], Stage(p), t, result))
         /\ Keeps(mem[p], WithTrial(mem[p], Stage(p), t, result))
<1>1. StateType(mem[p]) /\ Stage(p) \in Stages /\ t \in 1..Plan[Stage(p)]
  BY JobStage DEF TypeOK, ProcsType, Pending
<1> QED
  BY <1>1, TrialAdded

LEMMA StageType ==
  ASSUME TypeOK, NEW p \in Procs
  PROVE  StateType(WithStage(p)) /\ Keeps(mem[p], WithStage(p))
<1>1. StateType(mem[p]) /\ Stage(p) \in Stages
  BY JobStage DEF TypeOK, ProcsType
<1> QED
  BY <1>1, StageAdded DEF WithStage

LEMMA ParentType ==
  ASSUME TypeOK, NEW p \in Procs
  PROVE  LET new == [mem[p] EXCEPT !.parent = @ \cup {Stage(p)}]
         IN StateType(new) /\ Keeps(mem[p], new)
<1>1. StateType(mem[p]) /\ Stage(p) \in Stages
  BY JobStage DEF TypeOK, ProcsType
<1> QED
  BY <1>1, ParentAdded

LEMMA SearchType ==
  ASSUME TypeOK, NEW p \in Procs, Search(p)
  PROVE  TypeOK'
<1>0. StateType(mem[p]) /\ Stage(p) \in Stages /\ pc[p] \in Phases
  BY JobStage DEF TypeOK, ProcsType
<1>1. ASSUME NEW s \in Stages, BeginStage(p, s)
      PROVE  TypeOK'
  <2>1. StateType(Loaded(s))
    BY LoadedType
  <2>2. saved' = TRUE /\ StateType(file)'
    BY <1>1, <2>1 DEF BeginStage, Save, StateType
  <2>3. OutcomeType'
    BY <1>1 DEF BeginStage, TypeOK, OutcomeType, outcome
  <2>4. CASE UNCHANGED <<pc, mem, job>>
    BY <2>2, <2>3, <2>4 DEF TypeOK, ProcsType, Qualifying, Judging, StateType
  <2>5. CASE /\ pc' = [pc EXCEPT ![p] = "loaded"]
             /\ mem' = [mem EXCEPT ![p] = Loaded(s)]
             /\ job' = [job EXCEPT ![p] = <<s, 0>>]
    <3>1. pc' \in [Procs -> Phases]
      BY <2>5 DEF TypeOK, ProcsType, Phases
    <3>2. <<s, 0>> \in Stages \X {0}
      OBVIOUS
    <3>3. job' \in [Procs -> Candidates \cup (Stages \X {0})]
      BY <2>5, <3>2 DEF TypeOK, ProcsType
    <3>4. mem' \in [Procs -> States] /\ \A q \in Procs : StateType(mem[q])'
      BY <2>1, <2>5 DEF TypeOK, ProcsType, StateType
    <3>5. \A q \in Procs : (Qualifying(q) \/ Judging(q))' => job'[q] \in Candidates
      <4> SUFFICES ASSUME NEW q \in Procs, (Qualifying(q) \/ Judging(q))'
                   PROVE  job'[q] \in Candidates
        OBVIOUS
      <4>1. q # p
        BY <2>5 DEF Qualifying, Judging, TypeOK, ProcsType
      <4> QED
        BY <2>5, <4>1 DEF Qualifying, Judging, TypeOK, ProcsType
    <3> QED
      BY <2>2, <2>3, <3>1, <3>3, <3>4, <3>5 DEF TypeOK, ProcsType
  <2> QED
    BY <1>1, <2>4, <2>5 DEF BeginStage
<1>2. CASE StartParent(p)
  <2>1. PICK to \in {"started", "parented"} : Goes(p, to, mem[p])
    BY <1>2 DEF StartParent
  <2>2. ProcsType'
    BY <1>0, <2>1, GoesType DEF TypeOK, Phases
  <2>3. parents' \in [Stages -> Nat]
    BY <1>0, <1>2 DEF StartParent, TypeOK, OutcomeType
  <2> QED
    BY <1>2, <2>2, <2>3 DEF StartParent, TypeOK, OutcomeType, disk, outcome, StateType
<1>3. CASE SaveParent(p)
  <2>1. StateType([mem[p] EXCEPT !.parent = @ \cup {Stage(p)}])
    BY ParentType
  <2> QED
    BY <1>3, <2>1, SaveType DEF SaveParent, Phases
<1>4. CASE SkipStage(p)
  BY <1>4, StageType, SaveType DEF SkipStage, Phases
<1>5. CASE RunTrial(p)
  <2>1. PICK t \in Pending(mem[p], Stage(p)), result \in {"finished", "failed", "other"} :
          LET st == WithTrial(mem[p], Stage(p), t, result)
          IN GoesSaving(p, IF TooManyFailures(st, Stage(p)) THEN "raising" ELSE "running", st)
    BY <1>5 DEF RunTrial
  <2> DEFINE st == WithTrial(mem[p], Stage(p), t, result)
  <2>2. StateType(st)
    BY TrialType
  <2>3. PICK to \in {"raising", "running"} : GoesSaving(p, to, st)
    BY <2>1
  <2> HIDE DEF st
  <2> QED
    BY <2>2, <2>3, SaveType DEF Phases
<1>6. CASE CompleteStage(p)
  BY <1>6, StageType, SaveType DEF CompleteStage, Phases
<1>7. CASE StageRaises(p)
  BY <1>0, <1>7, SaveType DEF StageRaises, Phases
<1> QED
  BY <1>1, <1>2, <1>3, <1>4, <1>5, <1>6, <1>7 DEF Search

LEMMA QualifyType ==
  ASSUME TypeOK, NEW p \in Procs, Qualify(p)
  PROVE  TypeOK'
<1>0. /\ StateType(mem[p]) /\ pc[p] \in Phases
      /\ Qualifying(p) \/ Judging(p) => job[p] \in Candidates
  BY DEF TypeOK, ProcsType
<1>1. ASSUME NEW c \in Candidates, BeginQualification(p, c)
      PROVE  TypeOK'
  <2>1. pc' \in [Procs -> Phases]
    BY <1>1 DEF BeginQualification, TypeOK, ProcsType, Phases
  <2>2. job' \in [Procs -> Candidates \cup (Stages \X {0})]
    BY <1>1 DEF BeginQualification, TypeOK, ProcsType
  <2>3. mem' \in [Procs -> States] /\ \A q \in Procs : StateType(mem[q])'
    BY <1>1 DEF BeginQualification, TypeOK, ProcsType, StateType
  <2>4. \A q \in Procs : (Qualifying(q) \/ Judging(q))' => job'[q] \in Candidates
    BY <1>1 DEF BeginQualification, Qualifying, Judging, TypeOK, ProcsType
  <2>5. OutcomeType'
    BY <1>1 DEF BeginQualification, TypeOK, OutcomeType, outcome
  <2>6. saved' = saved /\ StateType(file)'
    BY <1>1 DEF BeginQualification, TypeOK, disk, StateType
  <2> QED
    BY <2>1, <2>2, <2>3, <2>4, <2>5, <2>6 DEF TypeOK, ProcsType
<1>2. CASE Seal(p)
  <2>1. StateType([mem[p] EXCEPT !.opened = TRUE])
    BY <1>0, SealType
  <2> QED
    BY <1>0, <1>2, <2>1, SaveType DEF Seal, Phases, Qualifying
<1>3. CASE Evaluate(p)
  <2>1. ProcsType'
    BY <1>0, <1>3, GoesType, FreshType DEF Evaluate, TypeOK, Phases, Qualifying
  <2> QED
    BY <1>3, <2>1 DEF Evaluate, TypeOK, OutcomeType, disk, outcome, StateType
<1>4. CASE WriteVerdict(p)
  <2>1. PICK v \in {"passed", "failed"} :
          /\ verdict' = [verdict EXCEPT ![job[p]] = v]
          /\ Goes(p, IF v = "passed" THEN "passed" ELSE "idle", Fresh)
    BY <1>4 DEF WriteVerdict
  <2>2. PICK to \in {"passed", "idle"} : Goes(p, to, Fresh)
    BY <2>1
  <2>3. ProcsType'
    BY <1>0, <1>4, <2>2, GoesType, FreshType DEF WriteVerdict, TypeOK, Phases, Judging
  <2>4. verdict' \in [Candidates -> {"none", "passed", "failed"}]
    BY <1>0, <1>4, <2>1 DEF WriteVerdict, TypeOK, OutcomeType, Judging
  <2> QED
    BY <1>4, <2>3, <2>4 DEF WriteVerdict, TypeOK, OutcomeType, disk, StateType
<1>5. CASE Register(p)
  <2>1. ProcsType'
    BY <1>0, <1>5, GoesType, FreshType DEF Register, TypeOK, Phases, Judging
  <2> QED
    BY <1>0, <1>5, <2>1 DEF Register, TypeOK, OutcomeType, disk, StateType, Judging
<1>6. CASE Transition(p)
  <2>1. ProcsType'
    BY <1>0, <1>6, GoesType, FreshType DEF Transition, TypeOK, Phases, Judging
  <2> QED
    BY <1>0, <1>6, <2>1 DEF Transition, TypeOK, OutcomeType, disk, StateType, Judging
<1> QED
  BY <1>1, <1>2, <1>3, <1>4, <1>5, <1>6 DEF Qualify

LEMMA DieType ==
  ASSUME TypeOK, NEW p \in Procs, Die(p)
  PROVE  TypeOK'
<1>1. ProcsType'
  BY GoesType, FreshType DEF Die, TypeOK, Phases
<1> QED
  BY <1>1 DEF Die, TypeOK, OutcomeType, disk, outcome, StateType

LEMMA TypeStep == TypeOK /\ [Next]_vars => TypeOK'
<1> SUFFICES ASSUME TypeOK, [Next]_vars PROVE TypeOK'
  OBVIOUS
<1>1. CASE UNCHANGED vars
  BY <1>1 DEF vars, disk, outcome, TypeOK, ProcsType, OutcomeType, StateType, Qualifying, Judging
<1>2. CASE Next
  BY <1>2, SearchType, QualifyType, DieType DEF Next
<1> QED
  BY <1>1, <1>2

\* Whatever is started beside what, the variables keep their types.
THEOREM TypeCorrect == Spec => []TypeOK
  BY InitType, TypeStep, PTL DEF Spec

-----------------------------------------------------------------------------
Step(p) == Search(p) \/ Qualify(p) \/ Die(p)

\* A process moves nobody but itself.
LEMMA OthersSame ==
  ASSUME TypeOK, NEW p \in Procs, Step(p), NEW q \in Procs, q # p
  PROVE  pc'[q] = pc[q] /\ job'[q] = job[q] /\ mem'[q] = mem[q]
<1>1. CASE \E to, st : Goes(p, to, st)
  BY <1>1 DEF Goes, TypeOK, ProcsType
<1>2. CASE \E s \in Stages : BeginStage(p, s)
  BY <1>2 DEF BeginStage, TypeOK, ProcsType
<1>3. CASE \E c \in Candidates : BeginQualification(p, c)
  BY <1>3 DEF BeginQualification, TypeOK, ProcsType
<1> QED
  BY <1>1, <1>2, <1>3
     DEF Step, Search, Qualify, StartParent, SaveParent, SkipStage, RunTrial,
         CompleteStage, StageRaises, Seal, Evaluate, WriteVerdict, Register, Transition,
         Die, GoesSaving

LEMMA GoesTo ==
  ASSUME TypeOK, NEW p \in Procs, NEW to, NEW st, Goes(p, to, st)
  PROVE  pc'[p] = to /\ (to # "idle" => mem'[p] = st /\ job'[p] = job[p])
  BY DEF Goes, TypeOK, ProcsType

\* A stage has the state file for itself, and writes no less than was there.
LEMMA StageStep ==
  ASSUME TypeOK, Alone, ~Overlap, NEW p \in Procs, Search(p)
  PROVE  /\ Keeps(file, file')
         /\ \A q \in Procs : q # p => ~InStage(q) /\ ~Qualifying(q)
         /\ pc[p] = "idle" \/ InStage(p)
         /\ pc'[p] # "idle" => InStage(p)' /\ mem'[p] = file'
         /\ UNCHANGED <<lock, looks, outcome>>
<1>0. StateType(mem[p]) /\ Stage(p) \in Stages /\ Keeps(file, file)
  BY JobStage, KeepsItself DEF TypeOK, ProcsType
<1>1. ASSUME NEW s \in Stages, BeginStage(p, s)
      PROVE  /\ Keeps(file, file')
             /\ \A q \in Procs : q # p => ~InStage(q) /\ ~Qualifying(q)
             /\ pc[p] = "idle"
             /\ pc'[p] # "idle" => InStage(p)' /\ mem'[p] = file'
             /\ UNCHANGED <<lock, looks, outcome>>
  <2>1. file' = Loaded(s)
    BY <1>1 DEF BeginStage, Save
  <2> QED
    BY <1>1, <2>1, LoadedType DEF BeginStage, TypeOK, ProcsType, InStage
<1>2. ASSUME InStage(p)
      PROVE  /\ mem[p] = file
             /\ \A q \in Procs : q # p => ~InStage(q) /\ ~Qualifying(q)
  BY <1>2 DEF Alone
<1>3. ASSUME InStage(p), NEW to, NEW st, GoesSaving(p, to, st), Keeps(mem[p], st),
             to \in {"idle", "started", "running", "raising"}
      PROVE  /\ Keeps(file, file')
             /\ pc'[p] # "idle" => InStage(p)' /\ mem'[p] = file'
             /\ UNCHANGED <<lock, looks, outcome>>
  BY <1>2, <1>3, GoesTo DEF GoesSaving, Save, InStage
<1>4. CASE StartParent(p)
  <2>1. PICK to \in {"started", "parented"} : Goes(p, to, mem[p])
    BY <1>4 DEF StartParent
  <2>2. InStage(p) /\ file' = file /\ UNCHANGED <<lock, looks, outcome>>
    BY <1>4 DEF StartParent, InStage, disk
  <2>3. InStage(p)' /\ mem'[p] = mem[p]
    BY <2>1, GoesTo DEF InStage
  <2> QED
    BY <1>0, <1>2, <2>2, <2>3
<1>5. CASE SaveParent(p)
  BY <1>2, <1>3, <1>5, ParentType DEF SaveParent, InStage
<1>6. CASE SkipStage(p)
  BY <1>2, <1>3, <1>6, StageType DEF SkipStage, InStage
<1>7. CASE RunTrial(p)
  <2>1. PICK t \in Pending(mem[p], Stage(p)), result \in {"finished", "failed", "other"} :
          LET st == WithTrial(mem[p], Stage(p), t, result)
          IN GoesSaving(p, IF TooManyFailures(st, Stage(p)) THEN "raising" ELSE "running", st)
    BY <1>7 DEF RunTrial
  <2> DEFINE st == WithTrial(mem[p], Stage(p), t, result)
  <2>2. Keeps(mem[p], st)
    BY TrialType
  <2>3. PICK to \in {"raising", "running"} : GoesSaving(p, to, st)
    BY <2>1
  <2>4. InStage(p)
    BY <1>7 DEF RunTrial, AtTrials, InStage
  <2> HIDE DEF st
  <2> QED
    BY <1>2, <1>3, <2>2, <2>3, <2>4
<1>8. CASE CompleteStage(p)
  BY <1>2, <1>3, <1>8, StageType DEF CompleteStage, AtTrials, InStage
<1>9. CASE StageRaises(p)
  BY <1>0, <1>2, <1>3, <1>9, KeepsItself DEF StageRaises, AtTrials, InStage
<1> QED
  BY <1>1, <1>2, <1>4, <1>5, <1>6, <1>7, <1>8, <1>9 DEF Search

\* A qualifier changes the file when it breaks the seal, and no more of it.
LEMMA SealStep ==
  ASSUME TypeOK, Alone, NEW p \in Procs, Seal(p)
  PROVE  /\ file' = [file EXCEPT !.opened = TRUE] /\ mem'[p] = file' /\ pc'[p] = "sealed"
         /\ file'.opened /\ file'.completed = file.completed
         /\ Required \subseteq file.completed /\ ~file.opened
         /\ Qualifying(p) /\ lock = p
         /\ UNCHANGED <<lock, parents, looks, outcome>>
<1>1. Qualifying(p) /\ mem[p] = file /\ lock = p
  BY DEF Seal, Qualifying, Alone
<1>2. GoesSaving(p, "sealed", [file EXCEPT !.opened = TRUE]) /\ MayOpen(file)
  BY <1>1 DEF Seal
<1>3. file' = [file EXCEPT !.opened = TRUE] /\ mem'[p] = file' /\ pc'[p] = "sealed"
  BY <1>2, GoesTo DEF GoesSaving, Save
<1>4. file'.opened /\ file'.completed = file.completed
  BY <1>3, SealType DEF TypeOK
<1> QED
  BY <1>1, <1>2, <1>3, <1>4 DEF GoesSaving, MayOpen

\* What the other steps of a qualifier, and the death of a process, leave.
LEMMA QuietStep ==
  ASSUME TypeOK, Alone, NEW p \in Procs, (Qualify(p) /\ ~Seal(p)) \/ Die(p)
  PROVE  /\ UNCHANGED <<file, parents>>
         /\ ~InStage(p)'
         /\ Qualifying(p)' => /\ mem'[p] = file' /\ lock' = p /\ lock = NoProc
                              /\ pc'[p] = "locked" /\ UNCHANGED looks
                              /\ (~Overlap => \A q \in Procs : ~InStage(q))
         /\ \A q \in Procs \ {p} : Qualifying(q) => lock' = lock
<1>1. ASSUME NEW c \in Candidates, BeginQualification(p, c)
      PROVE  /\ UNCHANGED <<file, parents>>
             /\ ~InStage(p)'
             /\ Qualifying(p)' => /\ mem'[p] = file' /\ lock' = p /\ lock = NoProc
                                  /\ pc'[p] = "locked" /\ UNCHANGED looks
                                  /\ (~Overlap => \A q \in Procs : ~InStage(q))
             /\ \A q \in Procs : ~Qualifying(q)
  BY <1>1, ProcsAssumption DEF BeginQualification, TypeOK, ProcsType, InStage, disk, Alone
<1>2. CASE Evaluate(p)
  <2>1. pc'[p] = "evaluated" /\ UNCHANGED <<file, parents>>
    BY <1>2, GoesTo DEF Evaluate, disk
  <2>2. \A q \in Procs \ {p} : ~Qualifying(q)
    BY <1>2 DEF Evaluate, Alone, Qualifying
  <2> QED
    BY <2>1, <2>2 DEF InStage, Qualifying
<1>3. CASE WriteVerdict(p)
  <2>1. pc'[p] \in {"passed", "idle"}
    BY <1>3, GoesTo DEF WriteVerdict
  <2> QED
    BY <1>3, <2>1 DEF WriteVerdict, disk, InStage, Qualifying
<1>4. CASE Register(p) \/ Transition(p)
  <2>1. pc'[p] \in {"registered", "idle"}
    BY <1>4, GoesTo DEF Register, Transition
  <2> QED
    BY <1>4, <2>1 DEF Register, Transition, disk, InStage, Qualifying
<1>5. CASE Die(p)
  <2>1. pc'[p] = "idle" /\ UNCHANGED <<file, parents>>
    BY <1>5, GoesTo DEF Die, disk
  <2>2. \A q \in Procs \ {p} : Qualifying(q) => lock' = lock
    BY <1>5 DEF Die, Alone
  <2> QED
    BY <2>1, <2>2 DEF InStage, Qualifying
<1> QED
  BY <1>1, <1>2, <1>3, <1>4, <1>5 DEF Qualify

-----------------------------------------------------------------------------
LEMMA AloneStep ==
  ASSUME IInv, ~Overlap, NEW p \in Procs, Step(p)
  PROVE  Alone'
<1>0. TypeOK /\ Alone
  BY DEF IInv
<1>1. \A q \in Procs : q # p => /\ InStage(q)' = InStage(q)
                               /\ Qualifying(q)' = Qualifying(q)
                               /\ mem'[q] = mem[q]
  BY <1>0, OthersSame DEF InStage, Qualifying
<1>2. CASE Search(p)
  <2>1. /\ \A q \in Procs : q # p => ~InStage(q)' /\ ~Qualifying(q)'
        /\ InStage(p)' => mem'[p] = file'
        /\ ~Qualifying(p)'
    BY <1>0, <1>1, <1>2, StageStep DEF InStage, Qualifying
  <2> QED
    BY <2>1 DEF Alone
<1>3. CASE Seal(p)
  <2>1. /\ Qualifying(p) /\ lock = p /\ lock' = lock
        /\ ~InStage(p)' /\ mem'[p] = file'
    BY <1>0, <1>3, SealStep DEF InStage
  <2>2. \A q \in Procs : q # p => ~InStage(q) /\ ~Qualifying(q)
    BY <1>0, <2>1 DEF Alone
  <2> QED
    BY <1>1, <2>1, <2>2 DEF Alone
<1>4. CASE (Qualify(p) /\ ~Seal(p)) \/ Die(p)
  <2>1. file' = file /\ ~InStage(p)'
    BY <1>0, <1>4, QuietStep
  <2>2. Qualifying(p)' => /\ mem'[p] = file' /\ lock' = p /\ lock = NoProc
                         /\ \A q \in Procs : ~InStage(q)
    BY <1>0, <1>4, QuietStep
  <2>3. \A q \in Procs \ {p} : Qualifying(q) => lock' = lock
    BY <1>0, <1>4, QuietStep
  <2>4. \A q, r \in Procs : InStage(q)' /\ r # q => ~InStage(r)' /\ ~Qualifying(r)'
    BY <1>0, <1>1, <2>1, <2>2 DEF Alone
  <2>5. \A q \in Procs : InStage(q)' => mem'[q] = file'
    BY <1>0, <1>1, <2>1 DEF Alone
  <2>6. \A q \in Procs : Qualifying(q)' => mem'[q] = file' /\ lock' = q
    BY <1>0, <1>1, <2>1, <2>2, <2>3 DEF Alone
  <2> QED
    BY <2>4, <2>5, <2>6 DEF Alone
<1> QED
  BY <1>2, <1>3, <1>4 DEF Step

LEMMA LooksStep ==
  ASSUME TypeOK, NEW p \in Procs, Step(p), ~Evaluate(p)
  PROVE  looks' = looks
  BY DEF Step, Search, Qualify, BeginStage, StartParent, SaveParent, SkipStage, RunTrial,
     CompleteStage, StageRaises, BeginQualification, Seal, WriteVerdict, Register,
     Transition, Die, GoesSaving

LEMMA SealedStep ==
  ASSUME IInv, ~Overlap, NEW p \in Procs, Step(p)
  PROVE  Sealed'
<1>0. TypeOK /\ Alone /\ Sealed
  BY DEF IInv
<1>1. \A q \in Procs : q # p => (pc'[q] = "sealed" <=> pc[q] = "sealed")
  BY <1>0, OthersSame
<1>2. CASE Search(p)
  <2>1. Keeps(file, file') /\ looks' = looks
    BY <1>0, <1>2, StageStep
  <2>2. \A q \in Procs : pc'[q] # "sealed"
    BY <1>0, <1>1, <1>2, StageStep DEF InStage, Qualifying
  <2> QED
    BY <1>0, <2>1, <2>2 DEF Sealed, Keeps
<1>3. CASE Seal(p)
  <2>1. /\ file'.opened /\ Required \subseteq file'.completed /\ ~file.opened
        /\ looks' = looks
    BY <1>0, <1>3, SealStep
  <2> QED
    BY <1>0, <2>1 DEF Sealed
<1>4. CASE Evaluate(p)
  <2>1. /\ pc[p] = "sealed" /\ looks' = looks + 1 /\ file' = file
        /\ pc'[p] = "evaluated"
    BY <1>0, <1>4, GoesTo DEF Evaluate, disk
  <2>2. \A q \in Procs : pc'[q] # "sealed"
    BY <1>0, <1>1, <2>1 DEF Alone, Qualifying
  <2> QED
    BY <1>0, <2>1, <2>2 DEF Sealed
<1>5. CASE (Qualify(p) /\ ~Seal(p) /\ ~Evaluate(p)) \/ Die(p)
  <2>1. looks' = looks
    BY <1>0, <1>5, LooksStep DEF Step, Die, Evaluate
  <2>2. file' = file /\ pc'[p] # "sealed"
    BY <1>0, <1>5, QuietStep DEF Qualifying
  <2> QED
    BY <1>0, <1>1, <2>1, <2>2 DEF Sealed
<1> QED
  BY <1>2, <1>3, <1>4, <1>5 DEF Step

\* Only four steps touch what is decided of a candidate.
LEMMA Undecided ==
  ASSUME IInv, ~Overlap, NEW p \in Procs, Step(p),
         ~Evaluate(p), ~WriteVerdict(p), ~Register(p), ~Transition(p)
  PROVE  /\ UNCHANGED <<looks, outcome>>
         /\ \A q \in Procs : Judging(q)' => /\ Judging(q) /\ pc'[q] = pc[q]
                                           /\ job'[q] = job[q]
<1>0. TypeOK /\ Alone
  BY DEF IInv
<1>1. UNCHANGED outcome
  BY DEF Step, Search, Qualify, BeginStage, StartParent, SaveParent, SkipStage, RunTrial,
     CompleteStage, StageRaises, BeginQualification, Seal, Die, GoesSaving
<1>2. ~Judging(p)' \/ (pc'[p] = pc[p] /\ job'[p] = job[p])
  <2>1. CASE Search(p)
    BY <1>0, <2>1, StageStep DEF InStage, Judging
  <2>2. CASE \E c \in Candidates : BeginQualification(p, c)
    BY <1>0, <2>2 DEF BeginQualification, Judging, TypeOK, ProcsType
  <2>3. CASE Seal(p)
    BY <1>0, <2>3, SealStep DEF Judging
  <2>4. CASE Die(p)
    BY <1>0, <2>4, GoesTo DEF Die, Judging
  <2> QED
    BY <2>1, <2>2, <2>3, <2>4 DEF Step, Qualify
<1>3. \A q \in Procs : Judging(q)' => pc'[q] = pc[q] /\ job'[q] = job[q]
  BY <1>0, <1>2, OthersSame
<1> QED
  BY <1>0, <1>1, <1>3, LooksStep DEF Judging

\* OneJudged and StagedIsSound, after one of those four steps or another.
LEMMA JudgedStep ==
  ASSUME IInv, ~Overlap, NEW p \in Procs, Step(p)
  PROVE  OneJudged' /\ StagedIsSound'
<1>0. TypeOK /\ Alone /\ Sealed /\ OneJudged /\ StagedIsSound
  BY DEF IInv
<1>1. \A q \in Procs : q # p => pc'[q] = pc[q] /\ job'[q] = job[q]
  BY <1>0, OthersSame
<1>2. Judging(p) => job[p] \in Candidates
  BY <1>0 DEF TypeOK, ProcsType
<1>3. CASE Evaluate(p)
  <2>1. looks = 0 /\ looks' = 1 /\ pc'[p] = "evaluated" /\ UNCHANGED outcome
    BY <1>0, <1>3, GoesTo DEF Evaluate, Sealed
  <2>2. /\ \A q \in Procs : ~Judging(q)
        /\ \A c \in Candidates : verdict[c] = "none"
    BY <1>0, <2>1 DEF OneJudged
  <2>3. \A q \in Procs : Judging(q)' => q = p
    BY <1>1, <2>2 DEF Judging
  <2>4. \A q \in Procs : pc'[q] \notin {"passed", "registered"}
    BY <2>1, <2>3 DEF Judging
  <2> QED
    BY <1>0, <2>1, <2>2, <2>3, <2>4 DEF OneJudged, StagedIsSound, outcome
<1>4. CASE WriteVerdict(p)
  <2>1. PICK v \in {"passed", "failed"} :
          /\ verdict' = [verdict EXCEPT ![job[p]] = v]
          /\ Goes(p, IF v = "passed" THEN "passed" ELSE "idle", Fresh)
    BY <1>4 DEF WriteVerdict
  <2>2. /\ pc[p] = "evaluated" /\ Judging(p) /\ looks = 1
        /\ UNCHANGED <<looks, registered, staged>>
    BY <1>0, <1>4 DEF WriteVerdict, Judging, OneJudged
  <2>3. pc'[p] = "idle" \/ (pc'[p] = "passed" /\ v = "passed" /\ job'[p] = job[p])
    BY <1>0, <2>1, GoesTo
  <2>4. \A c \in Candidates : verdict[c] = "none"
    BY <1>0, <2>2 DEF OneJudged
  <2>5. \A c \in Candidates : verdict'[c] = IF c = job[p] THEN v ELSE "none"
    BY <1>0, <1>2, <2>1, <2>2, <2>4 DEF TypeOK, OutcomeType
  <2>6. registered = {} /\ staged = {}
    BY <1>0, <2>4 DEF StagedIsSound, TypeOK, OutcomeType
  <2>7. \A q \in Procs : Judging(q)' => q = p
    BY <1>0, <1>1, <2>2 DEF OneJudged, Judging
  <2>8. \A q \in Procs : pc'[q] \in {"passed", "registered"} =>
          q = p /\ pc'[q] = "passed" /\ v = "passed" /\ job'[q] = job[p]
    BY <2>3, <2>7 DEF Judging
  <2>9. pc'[p] # "evaluated" /\ pc'[p] # "registered"
    BY <2>3
  <2>10. StagedIsSound'
    BY <2>2, <2>6 DEF StagedIsSound
  <2>11. \A q \in Procs : Judging(q)' => job'[q] = job[p]
    BY <2>3, <2>7 DEF Judging
  <2>12. \A q \in Procs : pc'[q] \in {"passed", "registered"} => verdict'[job'[q]] = "passed"
    BY <1>2, <2>2, <2>5, <2>8
  <2> QED
    BY <2>2, <2>5, <2>7, <2>8, <2>9, <2>10, <2>11, <2>12 DEF OneJudged
<1>5. CASE Register(p)
  <2>1. /\ pc[p] = "passed" /\ pc'[p] = "registered" /\ job'[p] = job[p]
        /\ registered' = registered \cup {job[p]}
        /\ UNCHANGED <<looks, verdict, staged>>
    BY <1>0, <1>5, GoesTo DEF Register
  <2>2. job[p] \in Candidates /\ verdict[job[p]] = "passed" /\ Judging(p)
    BY <1>0, <1>2, <2>1 DEF OneJudged, Judging
  <2>3. \A c \in registered : c = job[p]
    BY <1>0, <2>2 DEF StagedIsSound, OneJudged, TypeOK, OutcomeType
  <2>4. StagedIsSound'
    BY <1>0, <2>1, <2>2, <2>3 DEF StagedIsSound
  <2>5. \A q \in Procs : Judging(q)' <=> Judging(q)
    BY <1>1, <2>1 DEF Judging
  <2>6. \A q \in Procs : pc'[q] = "evaluated" <=> pc[q] = "evaluated"
    BY <1>1, <2>1
  <2>7. \A q \in Procs : job'[q] = job[q]
    BY <1>1, <2>1
  <2> QED
    BY <1>0, <1>1, <2>1, <2>2, <2>4, <2>5, <2>6, <2>7 DEF OneJudged
<1>6. CASE Transition(p)
  <2>1. /\ pc[p] = "registered" /\ pc'[p] = "idle"
        /\ staged' = staged \cup {job[p]}
        /\ UNCHANGED <<looks, verdict, registered>>
    BY <1>0, <1>6, GoesTo DEF Transition
  <2>2. StagedIsSound'
    BY <1>0, <2>1 DEF StagedIsSound, OneJudged
  <2>3. \A q \in Procs : Judging(q)' => Judging(q) /\ pc'[q] = pc[q] /\ job'[q] = job[q]
    BY <1>1, <2>1 DEF Judging
  <2>4. \A q \in Procs : pc'[q] \in {"passed", "registered"} => Judging(q)'
    BY DEF Judging
  <2> QED
    BY <1>0, <2>1, <2>2, <2>3, <2>4 DEF OneJudged
<1>7. CASE ~Evaluate(p) /\ ~WriteVerdict(p) /\ ~Register(p) /\ ~Transition(p)
  <2>1. UNCHANGED <<looks, outcome>>
    BY <1>7, Undecided
  <2>2. \A q \in Procs : Judging(q)' => Judging(q) /\ pc'[q] = pc[q] /\ job'[q] = job[q]
    BY <1>7, Undecided
  <2>3. \A q \in Procs : pc'[q] \in {"passed", "registered"} => Judging(q)'
    BY DEF Judging
  <2> QED
    BY <1>0, <2>1, <2>2, <2>3 DEF OneJudged, StagedIsSound, outcome
<1> QED
  BY <1>3, <1>4, <1>5, <1>6, <1>7

LEMMA ParentsStep ==
  ASSUME IInv, ~Overlap, NEW p \in Procs, Step(p)
  PROVE  ParentsFound'
<1>0. TypeOK /\ Alone /\ ParentsFound
  BY DEF IInv
<1>1. \A q \in Procs : q # p => /\ pc'[q] = pc[q] /\ mem'[q] = mem[q]
                               /\ Stage(q)' = Stage(q)
  BY <1>0, OthersSame DEF Stage
<1>2. CASE \E s \in Stages : BeginStage(p, s)
  <2>1. PICK s \in Stages : BeginStage(p, s)
    BY <1>2
  <2>2. parents' = parents /\ pc[p] = "idle"
    BY <2>1 DEF BeginStage
  <2>3. CASE pc'[p] = "loaded"
    <3>1. mem'[p] = Loaded(s) /\ Stage(p)' = s
      BY <1>0, <2>1, <2>2, <2>3 DEF BeginStage, TypeOK, ProcsType, Stage
    <3>2. HasParent(s) => s \in Loaded(s).parent
      BY <1>0 DEF Loaded, TypeOK, StateType, States
    <3>3. ~HasParent(s) => parents[s] = 0
      BY <1>0 DEF HasParent, TypeOK, OutcomeType
    <3> QED
      BY <1>0, <1>1, <2>2, <3>1, <3>2, <3>3 DEF ParentsFound, OneParent
  <2> QED
    BY <1>0, <1>1, <2>2, <2>3 DEF ParentsFound, OneParent
<1>3. CASE StartParent(p)
  <2>1. pc[p] = "loaded" /\ Stage(p) \in Stages /\ pc'[p] # "loaded"
    BY <1>0, <1>3, JobStage, GoesTo DEF StartParent, TypeOK
  <2>2. \A q \in Procs : pc'[q] # "loaded"
    BY <1>0, <1>1, <2>1 DEF Alone, InStage
  <2>3. OneParent'
    BY <1>0, <1>3, <2>1 DEF StartParent, ParentsFound, OneParent, TypeOK, OutcomeType
  <2> QED
    BY <2>2, <2>3 DEF ParentsFound
<1>4. CASE parents' = parents /\ pc'[p] # "loaded"
  BY <1>0, <1>1, <1>4 DEF ParentsFound, OneParent
<1>5. \/ parents' = parents /\ pc'[p] # "loaded"
      \/ StartParent(p)
      \/ \E s \in Stages : BeginStage(p, s)
  <2>1. CASE SaveParent(p) \/ SkipStage(p) \/ CompleteStage(p) \/ StageRaises(p)
    BY <1>0, <2>1, GoesTo
       DEF SaveParent, SkipStage, CompleteStage, StageRaises, GoesSaving
  <2>2. CASE RunTrial(p)
    <3>1. \E to \in {"raising", "running"} : \E st : GoesSaving(p, to, st)
      BY <2>2 DEF RunTrial
    <3> QED
      BY <1>0, <3>1, GoesTo DEF GoesSaving
  <2>3. CASE Seal(p)
    BY <1>0, <2>3, SealStep
  <2>4. CASE (Qualify(p) /\ ~Seal(p)) \/ Die(p)
    BY <1>0, <2>4, QuietStep DEF InStage
  <2> QED
    BY <2>1, <2>2, <2>3, <2>4 DEF Step, Search
<1> QED
  BY <1>2, <1>3, <1>4, <1>5

-----------------------------------------------------------------------------
LEMMA InitInv == Init => IInv
  BY InitType DEF Init, IInv, Alone, Sealed, OneJudged, ParentsFound, StagedIsSound,
     OneParent, InStage, Qualifying, Judging, Fresh

LEMMA InvStep == ~Overlap /\ IInv /\ [Next]_vars => IInv'
<1> SUFFICES ASSUME ~Overlap, IInv, [Next]_vars PROVE IInv'
  OBVIOUS
<1>1. TypeOK'
  BY TypeStep DEF IInv
<1>2. CASE UNCHANGED vars
  BY <1>1, <1>2
     DEF vars, disk, outcome, IInv, Alone, Sealed, OneJudged, ParentsFound, StagedIsSound,
         OneParent, InStage, Qualifying, Judging, Stage
<1>3. CASE Next
  <2>1. PICK p \in Procs : Step(p)
    BY <1>3 DEF Next, Step
  <2> QED
    BY <1>1, <2>1, AloneStep, SealedStep, JudgedStep, ParentsStep DEF IInv
<1> QED
  BY <1>2, <1>3

\* Where no stage runs beside a process that holds a copy, that copy is the
\* state file, the seal goes before the only look, and one candidate is judged.
THEOREM InductiveInvariant ==
  ASSUME ~Overlap
  PROVE  Spec => []IInv
<1>1. IInv /\ [Next]_vars => IInv'
  BY InvStep
<1> QED
  BY <1>1, InitInv, PTL DEF Spec

\* However many qualifiers race and die, one candidate at most is registered,
\* and it passed the holdout.
THEOREM OnlySoundStaged ==
  ASSUME ~Overlap
  PROVE  Spec => []StagedIsSound
<1>1. IInv => StagedIsSound
  BY DEF IInv
<1> QED
  BY <1>1, InductiveInvariant, PTL

\* A stage has one parent run, wherever its processes died.
THEOREM OneParentEach ==
  ASSUME ~Overlap
  PROVE  Spec => []OneParent
<1>1. IInv => OneParent
  BY DEF IInv, ParentsFound
<1> QED
  BY <1>1, InductiveInvariant, PTL

\* No invocation forgets what the state file recorded.
LEMMA GrowsStep == ~Overlap /\ IInv /\ [Next]_vars => [Grows]_file
<1> SUFFICES ASSUME ~Overlap, IInv, [Next]_vars, file' # file PROVE Grows
  OBVIOUS
<1>0. TypeOK /\ Alone
  BY DEF IInv
<1>1. PICK p \in Procs : Step(p)
  BY DEF Next, Step, vars, disk
<1>2. CASE Search(p)
  BY <1>0, <1>2, StageStep DEF Keeps, Grows
<1>3. CASE Seal(p)
  <2>1. /\ file' = [file EXCEPT !.opened = TRUE] /\ ~file.opened
    BY <1>0, <1>3, SealStep
  <2>2. Keeps(file, [file' EXCEPT !.opened = file.opened])
    BY <1>0, <2>1, SealType DEF TypeOK
  <2>3. file \in States
    BY <1>0 DEF TypeOK, StateType
  <2> QED
    BY <2>1, <2>2, <2>3 DEF Keeps, Grows, States
<1>4. CASE (Qualify(p) /\ ~Seal(p)) \/ Die(p)
  BY <1>0, <1>4, QuietStep
<1> QED
  BY <1>1, <1>2, <1>3, <1>4 DEF Step

\* No step of run_stage or of a qualification takes a finished trial, a
\* failure, a completed stage or the broken seal out of the saved record.
THEOREM RecordGrows ==
  ASSUME ~Overlap
  PROVE  Spec => StateGrows
<1>1. IInv /\ [Next]_vars => [Grows]_file
  BY GrowsStep
<1> QED
  BY <1>1, InductiveInvariant, PTL DEF Spec, StateGrows

-----------------------------------------------------------------------------
LEMMA AbstractInit == Init => Abstract!Init
  BY StagesAssumption DEF Init, Fresh, Abstract!Init

LEMMA AbstractStep == ~Overlap /\ IInv /\ [Next]_vars => [Abstract!Next]_Abstract!vars
<1> SUFFICES ASSUME ~Overlap, IInv, [Next]_vars PROVE [Abstract!Next]_Abstract!vars
  OBVIOUS
<1>0. TypeOK /\ Alone /\ Sealed
  BY DEF IInv
<1>1. CASE UNCHANGED vars
  BY <1>1 DEF vars, disk, Abstract!vars
<1>2. ASSUME NEW p \in Procs, Step(p)
      PROVE  [Abstract!Next]_Abstract!vars
  <2>1. CASE Search(p)
    <3>1. Keeps(file, file') /\ looks' = looks
      BY <1>0, <2>1, StageStep
    <3> QED
      BY <3>1 DEF Keeps, Abstract!Next, Abstract!Search, Abstract!vars
  <2>2. CASE Seal(p)
    <3>1. /\ file'.opened /\ ~file.opened /\ Required \subseteq file.completed
          /\ file'.completed = file.completed /\ looks' = looks
      BY <1>0, <2>2, SealStep
    <3>2. file'.opened = TRUE
      BY <3>1, <1>0, TypeStep DEF TypeOK, StateType, States
    <3> QED
      BY <3>1, <3>2 DEF Abstract!Next, Abstract!Open
  <2>3. CASE Evaluate(p)
    BY <1>0, <2>3 DEF Evaluate, disk, Sealed, Abstract!Next, Abstract!Look
  <2>4. CASE (Qualify(p) /\ ~Seal(p) /\ ~Evaluate(p)) \/ Die(p)
    <3>1. looks' = looks
      BY <1>0, <2>4, LooksStep DEF Step, Die, Evaluate
    <3>2. file' = file
      BY <1>0, <2>4, QuietStep
    <3> QED
      BY <3>1, <3>2 DEF Abstract!vars
  <2> QED
    BY <1>2, <2>1, <2>2, <2>3, <2>4 DEF Step
<1> QED
  BY <1>1, <1>2 DEF Next, Step

\* The holdout is opened once, after the required stages, and looked at once,
\* after it was opened.
THEOREM Refinement ==
  ASSUME ~Overlap
  PROVE  Spec => ImplementsHoldout
<1>1. IInv /\ [Next]_vars => [Abstract!Next]_Abstract!vars
  BY AbstractStep
<1>2. Init => Abstract!Init
  BY AbstractInit
<1> QED
  BY <1>1, <1>2, InductiveInvariant, PTL DEF Spec, ImplementsHoldout, Abstract!Spec

-----------------------------------------------------------------------------
(***************************************************************************)
(* Leaderboard: the run store and the page.                                *)
(***************************************************************************)
Judged == {"finished", "failed", "skipped"}
Runs == [trial : TrialIds \cup {Parent}, status : {"RUNNING", "FINISHED", "FAILED"},
         has : SUBSET Logged, verdict : Judged \cup {"none", "running", "ended"}]
Records == [done : SUBSET TrialIds, failures : Nat, best : Nat \cup {NoScore},
            completed : BOOLEAN]
OnRun == Logged \cup {"verdict", "end", "fail", "save"}

StoreTyped ==
  /\ runs \in Seq(Runs)
  /\ writer \in [at : OnRun \cup {"idle", "next", "raise", "close"}, run : Nat,
                 skip : BOOLEAN, mem : Records]
  /\ record \in Records
  /\ breaks \in Nat /\ fails \in Nat

\* What holds of a store rs: the first run is the parent's, and no other is; a
\* run with the verdict has all its items.
ParentFirst(rs) ==
  \A r \in DOMAIN rs :
    IF r = 1 THEN /\ rs[r].trial = Parent /\ rs[r].verdict \in {"running", "ended"}
                  /\ rs[r].has = {"tags"}
             ELSE rs[r].trial \in TrialIds
FinishedHas(rs) ==
  \A r \in DOMAIN rs : rs[r].verdict = "finished" => Logged \subseteq rs[r].has
FinishedIn(rs, r) == rs[r].status = "FINISHED" /\ rs[r].verdict = "finished"

\* The record rec has its runs in the store, and the best of them.
HasRuns(rs, rec) ==
  /\ \A t \in rec.done : \E r \in DOMAIN rs :
       rs[r].trial = t /\ rs[r].status # "RUNNING" /\ rs[r].verdict \in Judged
  /\ rec.best # NoScore => \E r \in DOMAIN rs :
       /\ FinishedIn(rs, r) /\ rs[r].trial \in CanWin
       /\ TrialScore[rs[r].trial] = rec.best
Beaten(rs, rec) ==
  \A r \in DOMAIN rs :
    FinishedIn(rs, r) /\ rs[r].trial \in CanWin \cap rec.done
      => \/ TrialScore[rs[r].trial] <= rec.best
         \/ \E s \in DOMAIN rs : s > r /\ rs[s].trial = rs[r].trial
                                /\ rs[s].verdict \in {"failed", "skipped"}

\* What the run of the stage has, by where the stage is.
Before == [tags |-> {}, params |-> {"tags"}, aggregate |-> {"tags", "params"},
           others |-> {"tags", "params", "aggregate"}]
RunInHand ==
  writer.at \in OnRun =>
    LET run == runs[writer.run] IN
    /\ writer.run = Len(runs) /\ writer.run > 1
    /\ IF writer.at = "save"
       THEN run.verdict \in Judged /\ run.status # "RUNNING"
       ELSE run.status = "RUNNING" /\ run.trial \notin writer.mem.done
    /\ writer.at \in Logged =>
         /\ run.verdict \in {"none", "running"}
         /\ Before[writer.at] \subseteq run.has
    /\ writer.at = "verdict" =>
         /\ run.verdict \in {"none", "running"}
         /\ writer.skip \/ Logged \subseteq run.has
    /\ writer.at = "end" => run.verdict = Verdict
    /\ writer.at = "fail" => run.verdict = "failed"

\* The copy of the record is ahead of the file.
CopyAhead == writer.at # "idle" => runs # <<>> /\ record.done \subseteq writer.mem.done

\* Until something breaks, a finished run's trial is done, and has no other.
DoneNow == IF writer.at = "idle" THEN record.done ELSE writer.mem.done
FinishedDone ==
  breaks = 0 /\ fails = 0 =>
    \A r \in DOMAIN runs : FinishedIn(runs, r) => runs[r].trial \in DoneNow
FinishedOnce ==
  breaks = 0 /\ fails = 0 =>
    \A r, s \in DOMAIN runs :
      FinishedIn(runs, r) /\ FinishedIn(runs, s) /\ runs[r].trial = runs[s].trial => r = s

RecordsHold(rs) ==
  /\ HasRuns(rs, record) /\ HasRuns(rs, writer.mem)
  /\ Beaten(rs, record) /\ Beaten(rs, writer.mem)

StoreInv ==
  /\ StoreTyped /\ ParentFirst(runs) /\ FinishedHas(runs) /\ RunInHand
  /\ RecordsHold(runs) /\ CopyAhead /\ FinishedDone /\ FinishedOnce

\* The reader.  A row shown as FINISHED is that of a run nobody writes to, and
\* has what was read of it.
ReadBefore == [meta |-> {}, tags |-> {}, metrics |-> {"params", "tags"}]
RowOk(rs, row, items) ==
  /\ row.run \in DOMAIN rs /\ row.has \subseteq rs[row.run].has
  /\ row.status = "FINISHED" /\ row.run # 1 =>
       /\ rs[row.run].status = "FINISHED"
       /\ rs[row.run].has \cap items \subseteq row.has
Rows == [run : Nat, status : {"UNKNOWN", "RUNNING", "FINISHED", "FAILED"}, has : SUBSET Logged]
Requests == [for : {"none", "list", "run"}, at : {"meta", "tags", "metrics"},
             left : SUBSET Nat, row : {<<>>} \cup Rows, rows : SUBSET Rows]
ReaderInv ==
  /\ reader \in Requests /\ reader.left \subseteq DOMAIN runs
  /\ IsFiniteSet(reader.rows)
  /\ \A row \in reader.rows : RowOk(runs, row, Logged) /\ row.run \notin reader.left
  /\ \A a, b \in reader.rows : a.run = b.run => a = b
  /\ reader.at = "meta" => reader.row = <<>>
  /\ reader.at # "meta" =>
       /\ reader.row # <<>> /\ reader.left # {} /\ reader.row.run = Current
       /\ RowOk(runs, reader.row, ReadBefore[reader.at])

-----------------------------------------------------------------------------
\* A later store rt of rs: runs are added, and but for the parent's only a
\* running one changes; a run that failed or was skipped stays so.
Later(rs, rt) ==
  \A r \in DOMAIN rs :
    /\ r \in DOMAIN rt
    /\ rt[r].trial = rs[r].trial /\ rs[r].has \subseteq rt[r].has
    /\ r # 1 /\ rs[r].status # "RUNNING" => rt[r] = rs[r]
    /\ rs[r].verdict \in {"failed", "skipped"} => rt[r].verdict \in {"failed", "skipped"}

\* The runs finished in rt alone are of no trial in done.
FreshOnly(rs, rt, done) ==
  \A r \in DOMAIN rt : FinishedIn(rt, r) =>
    (r \in DOMAIN rs /\ FinishedIn(rs, r)) \/ rt[r].trial \notin done

LEMMA LogLast == DOMAIN NextItem = Logged /\ Logged = {"tags", "params", "aggregate", "others"}
  BY DEF Logged, NextItem

LEMMA LaterHas ==
  ASSUME NEW rs, NEW rt, NEW rec, ParentFirst(rs), Later(rs, rt), HasRuns(rs, rec)
  PROVE  HasRuns(rt, rec)
<1>1. ASSUME NEW t \in rec.done
      PROVE  \E r \in DOMAIN rt :
               rt[r].trial = t /\ rt[r].status # "RUNNING" /\ rt[r].verdict \in Judged
  <2>1. PICK r \in DOMAIN rs :
          rs[r].trial = t /\ rs[r].status # "RUNNING" /\ rs[r].verdict \in Judged
    BY DEF HasRuns
  <2>2. r # 1
    BY <2>1 DEF ParentFirst, Judged
  <2>3. r \in DOMAIN rt /\ rt[r] = rs[r]
    BY <2>1, <2>2 DEF Later
  <2> QED
    BY <2>1, <2>3
<1>2. ASSUME rec.best # NoScore
      PROVE  \E r \in DOMAIN rt :
               /\ FinishedIn(rt, r) /\ rt[r].trial \in CanWin
               /\ TrialScore[rt[r].trial] = rec.best
  <2>1. PICK r \in DOMAIN rs :
          /\ FinishedIn(rs, r) /\ rs[r].trial \in CanWin
          /\ TrialScore[rs[r].trial] = rec.best
    BY <1>2 DEF HasRuns
  <2>2. r # 1
    BY <2>1 DEF ParentFirst, FinishedIn
  <2>3. r \in DOMAIN rt /\ rt[r] = rs[r]
    BY <2>1, <2>2 DEF Later, FinishedIn
  <2> QED
    BY <2>1, <2>3 DEF FinishedIn
<1> QED
  BY <1>1, <1>2 DEF HasRuns

LEMMA LaterBeaten ==
  ASSUME NEW rs, NEW rt, NEW rec, ParentFirst(rs), Later(rs, rt), Beaten(rs, rec),
         FreshOnly(rs, rt, rec.done)
  PROVE  Beaten(rt, rec)
<1> SUFFICES ASSUME NEW r \in DOMAIN rt, FinishedIn(rt, r),
                    rt[r].trial \in CanWin \cap rec.done
             PROVE  \/ TrialScore[rt[r].trial] <= rec.best
                    \/ \E s \in DOMAIN rt : s > r /\ rt[s].trial = rt[r].trial
                                           /\ rt[s].verdict \in {"failed", "skipped"}
  BY DEF Beaten
<1>1. r \in DOMAIN rs /\ FinishedIn(rs, r) /\ rt[r].trial = rs[r].trial
  BY DEF FreshOnly, Later
<1>2. \/ TrialScore[rs[r].trial] <= rec.best
      \/ \E s \in DOMAIN rs : s > r /\ rs[s].trial = rs[r].trial
                             /\ rs[s].verdict \in {"failed", "skipped"}
  BY <1>1 DEF Beaten
<1> QED
  BY <1>1, <1>2 DEF Later

LEMMA LaterRow ==
  ASSUME NEW rs, NEW rt, NEW row, NEW items, Later(rs, rt), RowOk(rs, row, items)
  PROVE  RowOk(rt, row, items)
  BY DEF Later, RowOk

\* Both records hold of a later store whose new finished runs are not done.
LEMMA RecordsStay ==
  ASSUME StoreInv, NEW rt, Later(runs, rt), FreshOnly(runs, rt, writer.mem.done \cup record.done)
  PROVE  RecordsHold(rt)
<1>1. FreshOnly(runs, rt, record.done) /\ FreshOnly(runs, rt, writer.mem.done)
  BY DEF FreshOnly
<1>2. /\ ParentFirst(runs) /\ HasRuns(runs, record) /\ HasRuns(runs, writer.mem)
      /\ Beaten(runs, record) /\ Beaten(runs, writer.mem)
  BY DEF StoreInv, RecordsHold
<1> QED
  BY <1>1, <1>2, LaterHas, LaterBeaten DEF RecordsHold

\* Only run w is rewritten, as run.
Edited(w, run) ==
  /\ runs' \in Seq(Runs) /\ DOMAIN runs' = DOMAIN runs /\ Len(runs') = Len(runs)
  /\ w \in DOMAIN runs /\ runs'[w] = run
  /\ \A r \in DOMAIN runs : r # w => runs'[r] = runs[r]

LEMMA EditedIf ==
  ASSUME runs \in Seq(Runs), NEW w \in DOMAIN runs, NEW run \in Runs,
         runs' = [runs EXCEPT ![w] = run]
  PROVE  Edited(w, run)
  BY DEF Edited

\* The run in hand.
LEMMA Hand ==
  ASSUME StoreInv, writer.at \in OnRun
  PROVE  /\ writer.run \in DOMAIN runs /\ writer.run # 1 /\ 1 \in DOMAIN runs
         /\ writer.run = Len(runs) /\ Len(runs) \in Nat
         /\ runs[writer.run] \in Runs /\ runs[1] \in Runs
         /\ runs[writer.run].trial \in TrialIds
<1>1. runs \in Seq(Runs) /\ Len(runs) \in Nat /\ writer.run = Len(runs) /\ Len(runs) > 1
  BY DEF StoreInv, StoreTyped, RunInHand
<1>2. writer.run \in DOMAIN runs /\ 1 \in DOMAIN runs /\ writer.run # 1
  BY <1>1
<1> QED
  BY <1>1, <1>2 DEF StoreInv, ParentFirst

\* What rewriting the run in hand keeps of the store.
LEMMA EditKeeps ==
  ASSUME StoreInv, writer.at \in OnRun \ {"save"}, NEW run \in Runs,
         Edited(writer.run, run), run.trial = runs[writer.run].trial,
         runs[writer.run].has \subseteq run.has,
         runs[writer.run].verdict \in {"failed", "skipped"}
           => run.verdict \in {"failed", "skipped"},
         run.verdict = "finished" => Logged \subseteq run.has
  PROVE  /\ Later(runs, runs') /\ ParentFirst(runs') /\ FinishedHas(runs')
         /\ FreshOnly(runs, runs', writer.mem.done \cup record.done)
         /\ ~(run.status = "FINISHED" /\ run.verdict = "finished")
              => \A r \in DOMAIN runs' : FinishedIn(runs', r) => FinishedIn(runs, r)
<1> DEFINE w == writer.run
<1>0. /\ w \in DOMAIN runs /\ w # 1 /\ runs[w].trial \in TrialIds
      /\ runs[w].status = "RUNNING" /\ runs[w].trial \notin writer.mem.done \cup record.done
  BY Hand, LogLast DEF StoreInv, RunInHand, CopyAhead, OnRun
<1>1. Later(runs, runs')
  BY <1>0 DEF Later, Edited
<1>2. ParentFirst(runs')
  BY <1>0 DEF StoreInv, ParentFirst, Edited
<1>3. FinishedHas(runs')
  BY <1>0 DEF StoreInv, FinishedHas, Edited
<1>4. FreshOnly(runs, runs', writer.mem.done \cup record.done)
  BY <1>0 DEF FreshOnly, Edited, FinishedIn
<1>5. ~(run.status = "FINISHED" /\ run.verdict = "finished")
        => \A r \in DOMAIN runs' : FinishedIn(runs', r) => FinishedIn(runs, r)
  BY <1>0 DEF Edited, FinishedIn
<1> QED
  BY <1>1, <1>2, <1>3, <1>4, <1>5

\* While nothing more is finished, finished runs are done and single as before.
LEMMA FinishedStays ==
  ASSUME StoreInv, Later(runs, runs'), DoneNow \subseteq DoneNow',
         \A r \in DOMAIN runs' : FinishedIn(runs', r) => r \in DOMAIN runs /\ FinishedIn(runs, r),
         breaks' = 0 /\ fails' = 0 => breaks = 0 /\ fails = 0
  PROVE  FinishedDone' /\ FinishedOnce'
<1>1. FinishedDone'
  BY DEF StoreInv, FinishedDone, Later
<1>2. FinishedOnce'
  BY DEF StoreInv, FinishedOnce, Later
<1> QED
  BY <1>1, <1>2

\* After a break or a failure nothing is claimed of them.
LEMMA FinishedFree ==
  ASSUME StoreInv, Breaks \/ Fails
  PROVE  FinishedDone' /\ FinishedOnce' /\ breaks' \in Nat /\ fails' \in Nat
<1>1. breaks' \in Nat /\ fails' \in Nat /\ ~(breaks' = 0 /\ fails' = 0)
  BY DEF StoreInv, StoreTyped, Breaks, Fails
<1> QED
  BY <1>1 DEF FinishedDone, FinishedOnce
-----------------------------------------------------------------------------
LEMMA LogItemKeeps == StoreInv /\ LogItem => StoreInv' /\ Later(runs, runs')
<1> SUFFICES ASSUME StoreInv, LogItem PROVE StoreInv' /\ Later(runs, runs')
  OBVIOUS
<1> DEFINE w == writer.run
           run == [runs[w] EXCEPT !.has = @ \cup {writer.at}, !.verdict = "running"]
           next == IF writer.at = "params" /\ writer.skip
                   THEN "verdict" ELSE NextItem[writer.at]
<1>0. /\ writer.at \in Logged /\ writer.at \in OnRun \ {"save"}
      /\ runs[w] \in Runs /\ w \in DOMAIN runs
      /\ w = Len(runs) /\ w > 1
      /\ runs \in Seq(Runs) /\ writer.mem \in Records
  BY Hand, LogLast DEF LogItem, StoreInv, StoreTyped, OnRun, RunInHand
<1>1. /\ run \in Runs /\ run.trial = runs[w].trial /\ run.verdict = "running"
      /\ run.status = runs[w].status /\ run.has = runs[w].has \cup {writer.at}
  BY <1>0 DEF Runs
<1>2. Edited(w, run)
  <2>1. runs' = [runs EXCEPT ![w] = run]
    BY <1>0 DEF LogItem
  <2> QED
    BY <1>0, <1>1, <2>1, EditedIf
<1>3. /\ writer.at \in Logged /\ runs[w].verdict \in {"none", "running"}
      /\ Before[writer.at] \subseteq runs[w].has
      /\ runs[w].status = "RUNNING" /\ runs[w].trial \notin writer.mem.done
  BY <1>0, LogLast DEF StoreInv, RunInHand, OnRun
<1> HIDE DEF run
<1>4. /\ Later(runs, runs') /\ ParentFirst(runs') /\ FinishedHas(runs')
      /\ FreshOnly(runs, runs', writer.mem.done \cup record.done)
      /\ \A r \in DOMAIN runs' : FinishedIn(runs', r) => FinishedIn(runs, r)
  BY <1>0, <1>1, <1>2, <1>3, EditKeeps
<1>5. /\ writer' = [writer EXCEPT !.at = next] /\ record' = record
      /\ breaks' = breaks /\ fails' = fails
  BY DEF LogItem, StepsTo, Works
<1>6. /\ writer'.at = next /\ writer'.run = w /\ writer'.skip = writer.skip
      /\ writer'.mem = writer.mem /\ next \in OnRun \ {"save", "end", "fail", "tags"}
      /\ writer' \in [at : OnRun \cup {"idle", "next", "raise", "close"}, run : Nat,
                      skip : BOOLEAN, mem : Records]
  <2>1. next \in OnRun \ {"save", "end", "fail", "tags"}
    BY <1>0, LogLast DEF NextItem, OnRun
  <2> HIDE DEF next
  <2> QED
    BY <1>5, <2>1 DEF StoreInv, StoreTyped
<1>7. StoreTyped'
  BY <1>2, <1>5, <1>6 DEF StoreInv, StoreTyped, Edited
<1>8. RunInHand'
  <2>1. /\ next \in Logged => Before[next] \subseteq runs[w].has \cup {writer.at}
        /\ next = "verdict" => writer.skip \/ Logged \subseteq runs[w].has \cup {writer.at}
    BY <1>0, <1>3, LogLast DEF NextItem, Before
  <2> HIDE DEF next
  <2> QED
    BY <1>0, <1>1, <1>2, <1>3, <1>5, <1>6, <2>1, LogLast DEF RunInHand, Edited
<1>9. RecordsHold(runs)'
  <2>1. RecordsHold(runs')
    BY <1>4, RecordsStay
  <2> QED
    BY <1>5, <1>6, <2>1 DEF RecordsHold
<1>10. CopyAhead'
  <2>1. runs' # <<>>
    BY <1>0, <1>2 DEF Edited
  <2>2. writer.at # "idle"
    BY <1>0, LogLast
  <2> QED
    BY <1>5, <1>6, <2>1, <2>2 DEF StoreInv, CopyAhead
<1>11. FinishedDone' /\ FinishedOnce'
  <2>1. writer.at # "idle" /\ writer'.at # "idle"
    BY <1>0, <1>6, LogLast DEF OnRun
  <2>2. DoneNow' = DoneNow
    BY <1>5, <1>6, <2>1 DEF DoneNow
  <2> QED
    BY <1>2, <1>4, <1>5, <2>2, FinishedStays DEF Edited
<1> QED
  BY <1>4, <1>7, <1>8, <1>9, <1>10, <1>11 DEF StoreInv

\* The run in hand is rewritten: the store after it, and the records on it.
LEMMA Rewritten ==
  ASSUME StoreInv, writer.at \in OnRun \ {"save"}, NEW run \in Runs,
         runs' = [runs EXCEPT ![writer.run] = run], run.trial = runs[writer.run].trial,
         runs[writer.run].has \subseteq run.has,
         runs[writer.run].verdict \in {"failed", "skipped"}
           => run.verdict \in {"failed", "skipped"},
         run.verdict = "finished" => Logged \subseteq run.has
  PROVE  /\ Edited(writer.run, run) /\ runs' # <<>>
         /\ Later(runs, runs') /\ ParentFirst(runs') /\ FinishedHas(runs')
         /\ RecordsHold(runs')
         /\ ~(run.status = "FINISHED" /\ run.verdict = "finished")
              => \A r \in DOMAIN runs' : r \in DOMAIN runs
                   /\ (FinishedIn(runs', r) => FinishedIn(runs, r))
<1>1. writer.run \in DOMAIN runs /\ Len(runs) > 1 /\ runs \in Seq(Runs)
  BY Hand DEF StoreInv, StoreTyped, RunInHand
<1>2. Edited(writer.run, run)
  BY <1>1, EditedIf
<1>3. runs' # <<>>
  BY <1>1, <1>2 DEF Edited
<1>4. /\ Later(runs, runs') /\ ParentFirst(runs') /\ FinishedHas(runs')
      /\ FreshOnly(runs, runs', writer.mem.done \cup record.done)
      /\ ~(run.status = "FINISHED" /\ run.verdict = "finished")
           => \A r \in DOMAIN runs' : FinishedIn(runs', r) => FinishedIn(runs, r)
  BY <1>2, EditKeeps
<1>5. RecordsHold(runs')
  BY <1>4, RecordsStay
<1> QED
  BY <1>2, <1>3, <1>4, <1>5 DEF Edited

WriterType == [at : OnRun \cup {"idle", "next", "raise", "close"}, run : Nat,
               skip : BOOLEAN, mem : Records]

\* The type of the stage after it moves on alone.
LEMMA MovedOn ==
  ASSUME StoreInv, NEW at \in OnRun \cup {"idle", "next", "raise", "close"}, StepsTo(at)
  PROVE  /\ writer'.at = at /\ writer'.run = writer.run /\ writer'.skip = writer.skip
         /\ writer'.mem = writer.mem /\ writer' \in WriterType
  BY DEF StepsTo, StoreInv, StoreTyped, WriterType

LEMMA SetVerdictKeeps == StoreInv /\ SetVerdict => StoreInv' /\ Later(runs, runs')
<1> SUFFICES ASSUME StoreInv, SetVerdict PROVE StoreInv' /\ Later(runs, runs')
  OBVIOUS
<1> DEFINE w == writer.run
           run == [runs[w] EXCEPT !.verdict = Verdict]
<1>0. /\ writer.at = "verdict" /\ writer.at \in OnRun \ {"save"} /\ "verdict" \notin Logged
      /\ runs[w] \in Runs /\ w = Len(runs) /\ w > 1
      /\ runs[w].status = "RUNNING" /\ runs[w].trial \notin writer.mem.done
      /\ runs[w].verdict \in {"none", "running"}
      /\ writer.skip \/ Logged \subseteq runs[w].has
  BY Hand, LogLast DEF SetVerdict, StoreInv, OnRun, RunInHand
<1>1. /\ run \in Runs /\ run.trial = runs[w].trial /\ run.verdict = Verdict
      /\ run.status = "RUNNING" /\ run.has = runs[w].has
      /\ Verdict \in Judged /\ (Verdict = "finished" => ~writer.skip)
  BY <1>0 DEF Runs, Verdict, Judged
<1>2. runs' = [runs EXCEPT ![w] = run]
  BY <1>0 DEF SetVerdict
<1> HIDE DEF run
<1>3. /\ Edited(w, run) /\ runs' # <<>>
      /\ Later(runs, runs') /\ ParentFirst(runs') /\ FinishedHas(runs')
      /\ RecordsHold(runs')
      /\ \A r \in DOMAIN runs' : r \in DOMAIN runs
           /\ (FinishedIn(runs', r) => FinishedIn(runs, r))
  BY <1>0, <1>1, <1>2, Rewritten
<1>4. record' = record /\ breaks' = breaks /\ fails' = fails
  BY DEF SetVerdict, Works
<1>5. /\ writer'.at = "end" /\ writer'.run = w /\ writer'.skip = writer.skip
      /\ writer'.mem = writer.mem /\ writer' \in WriterType
  BY MovedOn DEF SetVerdict, OnRun
<1>6. StoreTyped'
  BY <1>3, <1>4, <1>5 DEF StoreInv, StoreTyped, Edited, WriterType
<1>7. RunInHand'
  BY <1>0, <1>1, <1>3, <1>5, LogLast DEF RunInHand, Edited, Verdict
<1>8. RecordsHold(runs)' /\ CopyAhead'
  BY <1>0, <1>3, <1>4, <1>5 DEF RecordsHold, StoreInv, CopyAhead
<1>9. FinishedDone' /\ FinishedOnce'
  <2>1. DoneNow' = DoneNow
    BY <1>0, <1>4, <1>5 DEF DoneNow
  <2> QED
    BY <1>3, <1>4, <2>1, FinishedStays
<1> QED
  BY <1>3, <1>6, <1>7, <1>8, <1>9 DEF StoreInv

LEMMA TrialFailsKeeps == StoreInv /\ TrialFails => StoreInv' /\ Later(runs, runs')
<1> SUFFICES ASSUME StoreInv, TrialFails PROVE StoreInv' /\ Later(runs, runs')
  OBVIOUS
<1> DEFINE w == writer.run
           run == [runs[w] EXCEPT !.verdict = "failed"]
<1>0. /\ writer.at \in OnRun \ {"save"} /\ writer.at # "idle" /\ "fail" \notin Logged
      /\ runs[w] \in Runs /\ w = Len(runs) /\ w > 1
      /\ runs[w].status = "RUNNING" /\ runs[w].trial \notin writer.mem.done
  BY Hand, LogLast DEF TrialFails, StoreInv, OnRun, RunInHand
<1>1. /\ run \in Runs /\ run.trial = runs[w].trial /\ run.verdict = "failed"
      /\ run.status = "RUNNING" /\ run.has = runs[w].has
  BY <1>0 DEF Runs, Judged
<1>2. runs' = [runs EXCEPT ![w] = run]
  BY <1>0 DEF TrialFails
<1> HIDE DEF run
<1>3. /\ Edited(w, run) /\ runs' # <<>>
      /\ Later(runs, runs') /\ ParentFirst(runs') /\ FinishedHas(runs')
      /\ RecordsHold(runs')
  BY <1>0, <1>1, <1>2, Rewritten
<1>4. record' = record /\ breaks' = breaks
  BY DEF TrialFails, Fails
<1>5. /\ writer'.at = "fail" /\ writer'.run = w /\ writer'.skip = writer.skip
      /\ writer'.mem = writer.mem /\ writer' \in WriterType
  BY MovedOn DEF TrialFails, OnRun
<1>6. FinishedDone' /\ FinishedOnce' /\ breaks' \in Nat /\ fails' \in Nat
  BY FinishedFree DEF TrialFails
<1>7. StoreTyped'
  BY <1>3, <1>4, <1>5, <1>6 DEF StoreInv, StoreTyped, Edited, WriterType
<1>8. RunInHand'
  BY <1>0, <1>1, <1>3, <1>5, LogLast DEF RunInHand, Edited
<1>9. RecordsHold(runs)' /\ CopyAhead'
  BY <1>0, <1>3, <1>4, <1>5 DEF RecordsHold, StoreInv, CopyAhead
<1> QED
  BY <1>3, <1>6, <1>7, <1>8, <1>9 DEF StoreInv

LEMMA EndFailedKeeps == StoreInv /\ EndFailed => StoreInv' /\ Later(runs, runs')
<1> SUFFICES ASSUME StoreInv, EndFailed PROVE StoreInv' /\ Later(runs, runs')
  OBVIOUS
<1> DEFINE w == writer.run
           run == [runs[w] EXCEPT !.status = "FAILED"]
           t == runs[w].trial
<1>0. /\ writer.at = "fail" /\ writer.at \in OnRun \ {"save"}
      /\ "save" \notin Logged
      /\ runs[w] \in Runs /\ w = Len(runs) /\ w > 1 /\ w \in DOMAIN runs
      /\ runs[w].verdict = "failed" /\ t \in TrialIds /\ t \notin writer.mem.done
      /\ runs \in Seq(Runs) /\ writer.mem \in Records /\ writer \in WriterType
  BY Hand, LogLast DEF EndFailed, StoreInv, StoreTyped, OnRun, RunInHand, WriterType
<1>1. /\ run \in Runs /\ run.trial = t /\ run.verdict = "failed"
      /\ run.status = "FAILED" /\ run.has = runs[w].has
  BY <1>0 DEF Runs, Judged
<1>2. runs' = [runs EXCEPT ![w] = run]
  BY <1>0 DEF EndFailed
<1> HIDE DEF run
<1>3. /\ Edited(w, run) /\ runs' # <<>>
      /\ Later(runs, runs') /\ ParentFirst(runs') /\ FinishedHas(runs')
      /\ RecordsHold(runs')
      /\ \A r \in DOMAIN runs' : r \in DOMAIN runs
           /\ (FinishedIn(runs', r) => FinishedIn(runs, r))
  BY <1>0, <1>1, <1>2, Rewritten
<1>4. record' = record /\ breaks' = breaks /\ fails' = fails
  BY DEF EndFailed, Works
<1>5. /\ writer'.at = "save" /\ writer'.run = w /\ writer'.skip = writer.skip
      /\ writer'.mem = [writer.mem EXCEPT !.done = @ \cup {t}, !.failures = @ + 1]
  BY <1>0 DEF EndFailed, WriterType, OnRun, Trial, Records
<1>6. /\ writer'.mem.done = writer.mem.done \cup {t} /\ writer'.mem.best = writer.mem.best
      /\ writer'.mem \in Records
  <2>1. writer.mem.done \cup {t} \in SUBSET TrialIds /\ writer.mem.failures + 1 \in Nat
    BY <1>0 DEF Records
  <2> HIDE DEF t
  <2> QED
    BY <1>0, <1>5, <2>1 DEF Records
<1>7. StoreTyped'
  <2>1. writer' \in WriterType
    <3>1. writer' = [writer EXCEPT !.at = "save", !.mem = writer'.mem]
      BY <1>0 DEF EndFailed, WriterType
    <3> QED
      BY <1>0, <1>6, <3>1 DEF WriterType, OnRun
  <2> QED
    BY <1>3, <1>4, <2>1 DEF StoreInv, StoreTyped, Edited, WriterType
<1>8. RunInHand'
  BY <1>0, <1>1, <1>3, <1>5, LogLast DEF RunInHand, Edited, Judged
<1>9. RecordsHold(runs)'
  <2>1. HasRuns(runs', writer'.mem)
    BY <1>0, <1>1, <1>3, <1>6 DEF RecordsHold, HasRuns, Edited, Judged
  <2>2. Beaten(runs', writer'.mem)
    <3> SUFFICES ASSUME NEW r \in DOMAIN runs', FinishedIn(runs', r),
                        runs'[r].trial \in CanWin \cap (writer.mem.done \cup {t})
                 PROVE  \/ TrialScore[runs'[r].trial] <= writer.mem.best
                        \/ \E s \in DOMAIN runs' : s > r /\ runs'[s].trial = runs'[r].trial
                                         /\ runs'[s].verdict \in {"failed", "skipped"}
      BY <1>6 DEF Beaten
    <3>1. CASE runs'[r].trial \in writer.mem.done
      BY <1>3, <3>1 DEF RecordsHold, Beaten
    <3>2. CASE runs'[r].trial = t
      <4>1. r # w /\ r \in DOMAIN runs
        BY <1>1, <1>3 DEF Edited, FinishedIn
      <4>2. r < w
        BY <1>0, <4>1
      <4> QED
        BY <1>0, <1>1, <1>3, <3>2, <4>2 DEF Edited
    <3> QED
      BY <3>1, <3>2
  <2> QED
    BY <1>3, <1>4, <2>1, <2>2 DEF RecordsHold
<1>10. CopyAhead'
  BY <1>0, <1>3, <1>4, <1>5, <1>6 DEF StoreInv, CopyAhead
<1>11. FinishedDone' /\ FinishedOnce'
  <2>1. DoneNow \subseteq DoneNow'
    BY <1>0, <1>5, <1>6 DEF DoneNow
  <2> QED
    BY <1>3, <1>4, <2>1, FinishedStays
<1> QED
  BY <1>3, <1>7, <1>8, <1>9, <1>10, <1>11 DEF StoreInv

LEMMA EndRunKeeps == StoreInv /\ EndRun => StoreInv' /\ Later(runs, runs')
<1> SUFFICES ASSUME StoreInv, EndRun PROVE StoreInv' /\ Later(runs, runs')
  OBVIOUS
<1> DEFINE w == writer.run
           run == [runs[w] EXCEPT !.status = "FINISHED"]
           t == runs[w].trial
           best == IF Wins THEN TrialScore[t] ELSE writer.mem.best
<1>0. /\ writer.at = "end" /\ writer.at \in OnRun \ {"save"}
      /\ "save" \notin Logged
      /\ runs[w] \in Runs /\ w = Len(runs) /\ w > 1 /\ w \in DOMAIN runs
      /\ runs[w].verdict = Verdict /\ t \in TrialIds /\ t \notin writer.mem.done
      /\ runs \in Seq(Runs) /\ writer.mem \in Records /\ writer \in WriterType
      /\ FinishedHas(runs)
  BY Hand, LogLast DEF EndRun, StoreInv, StoreTyped, OnRun, RunInHand, WriterType
<1>1. /\ run \in Runs /\ run.trial = t /\ run.verdict = Verdict
      /\ run.status = "FINISHED" /\ run.has = runs[w].has
      /\ Verdict = IF writer.skip THEN "skipped" ELSE "finished"
  BY <1>0 DEF Runs, Judged, Verdict
<1>2. runs' = [runs EXCEPT ![w] = run]
  BY <1>0 DEF EndRun
<1> HIDE DEF run
<1>3. /\ Edited(w, run) /\ runs' # <<>>
      /\ Later(runs, runs') /\ ParentFirst(runs') /\ FinishedHas(runs')
      /\ RecordsHold(runs')
  BY <1>0, <1>1, <1>2, Rewritten DEF FinishedHas
<1>4. record' = record /\ breaks' = breaks /\ fails' = fails
  BY DEF EndRun, Works
<1>5. best \in Nat \cup {NoScore} /\ (Wins <=> t \in CanWin /\ ~writer.skip /\ TrialScore[t] > writer.mem.best)
      /\ TrialScore[t] \in Nat
  BY <1>0, LeaderboardAssumption DEF TrialIds, Records, Wins, Trial
<1>6. /\ writer'.at = "save" /\ writer'.run = w /\ writer'.skip = writer.skip
      /\ writer'.mem = [writer.mem EXCEPT !.done = @ \cup {t}, !.best = best]
  BY <1>0 DEF EndRun, WriterType, OnRun, Trial, Records
<1> HIDE DEF best
<1>7. /\ writer'.mem.done = writer.mem.done \cup {t} /\ writer'.mem.best = best
      /\ writer'.mem \in Records
  <2>1. best \in Nat \cup {NoScore}
    BY <1>5
  <2>2. writer'.mem = [writer.mem EXCEPT !.done = @ \cup {t}, !.best = best]
    BY <1>6
  <2>3. writer.mem.done \cup {t} \in SUBSET TrialIds
    BY <1>0 DEF Records
  <2> HIDE DEF t
  <2> QED
    BY <1>0, <2>1, <2>2, <2>3 DEF Records
<1>8. StoreTyped'
  <2>1. writer' \in WriterType
    <3>1. writer' = [writer EXCEPT !.at = "save", !.mem = writer'.mem]
      BY <1>0 DEF EndRun, WriterType
    <3> QED
      BY <1>0, <1>7, <3>1 DEF WriterType, OnRun
  <2> QED
    BY <1>3, <1>4, <2>1 DEF StoreInv, StoreTyped, Edited, WriterType
<1>9. RunInHand'
  BY <1>0, <1>1, <1>3, <1>6, LogLast DEF RunInHand, Edited, Judged
<1>10. best = IF t \in CanWin /\ ~writer.skip /\ TrialScore[t] > writer.mem.best
              THEN TrialScore[t] ELSE writer.mem.best
  BY <1>5 DEF best
<1>11. RecordsHold(runs)'
  <2>1. HasRuns(runs', writer'.mem)
    <3>1. ASSUME NEW u \in writer.mem.done \cup {t}
          PROVE  \E r \in DOMAIN runs' :
                   runs'[r].trial = u /\ runs'[r].status # "RUNNING" /\ runs'[r].verdict \in Judged
      BY <1>0, <1>1, <1>3 DEF RecordsHold, HasRuns, Edited, Judged
    <3>2. ASSUME best # NoScore
          PROVE  \E r \in DOMAIN runs' :
                   /\ FinishedIn(runs', r) /\ runs'[r].trial \in CanWin
                   /\ TrialScore[runs'[r].trial] = best
      <4>1. CASE best = writer.mem.best
        BY <1>3, <3>2, <4>1 DEF RecordsHold, HasRuns
      <4>2. CASE best # writer.mem.best
        BY <1>0, <1>1, <1>3, <1>10, <4>2 DEF Edited, FinishedIn
      <4> QED
        BY <4>1, <4>2
    <3> QED
      BY <1>7, <3>1, <3>2 DEF HasRuns
  <2>2. Beaten(runs', writer'.mem)
    <3> SUFFICES ASSUME NEW r \in DOMAIN runs', FinishedIn(runs', r),
                        runs'[r].trial \in CanWin \cap (writer.mem.done \cup {t})
                 PROVE  \/ TrialScore[runs'[r].trial] <= best
                        \/ \E s \in DOMAIN runs' : s > r /\ runs'[s].trial = runs'[r].trial
                                         /\ runs'[s].verdict \in {"failed", "skipped"}
      BY <1>7 DEF Beaten
    <3>0. writer.mem.best \in Int /\ writer.mem.best <= best /\ best \in Int
      BY <1>0, <1>5, <1>10 DEF Records, NoScore
    <3>1. CASE runs'[r].trial \in writer.mem.done
      <4>1. TrialScore[runs'[r].trial] \in Nat
        BY <1>3, LeaderboardAssumption
      <4> QED
        BY <1>3, <3>0, <3>1, <4>1 DEF RecordsHold, Beaten
    <3>2. CASE runs'[r].trial = t /\ ~writer.skip
      BY <1>5, <1>10, <3>0, <3>2
    <3>3. CASE runs'[r].trial = t /\ writer.skip
      <4>1. r # w /\ r \in DOMAIN runs
        BY <1>1, <1>3, <3>3 DEF Edited, FinishedIn
      <4>2. r < w
        BY <1>0, <4>1
      <4> QED
        BY <1>0, <1>1, <1>3, <3>3, <4>2 DEF Edited
    <3> QED
      BY <3>1, <3>2, <3>3
  <2> QED
    BY <1>3, <1>4, <2>1, <2>2 DEF RecordsHold
<1>12. CopyAhead'
  BY <1>0, <1>3, <1>4, <1>6, <1>7 DEF StoreInv, CopyAhead
<1>13. FinishedDone' /\ FinishedOnce'
  <2>1. DoneNow = writer.mem.done /\ DoneNow' = writer.mem.done \cup {t}
    BY <1>0, <1>6, <1>7 DEF DoneNow
  <2>2. ASSUME NEW r \in DOMAIN runs', FinishedIn(runs', r), r # w
        PROVE  r \in DOMAIN runs /\ FinishedIn(runs, r) /\ runs'[r].trial = runs[r].trial
    BY <1>3, <2>2 DEF Edited, FinishedIn
  <2>3. runs'[w].trial = t
    BY <1>1, <1>3 DEF Edited
  <2>4. FinishedDone'
    BY <1>4, <2>1, <2>2, <2>3 DEF StoreInv, FinishedDone
  <2>5. FinishedOnce'
    BY <1>0, <1>4, <2>1, <2>2, <2>3 DEF StoreInv, FinishedDone, FinishedOnce
  <2> QED
    BY <2>4, <2>5
<1> QED
  BY <1>3, <1>8, <1>9, <1>11, <1>12, <1>13 DEF StoreInv

LEMMA NewHolds ==
  ASSUME NEW rs
  PROVE  /\ NewRecord \in Records /\ NewRecord.done = {}
         /\ HasRuns(rs, NewRecord) /\ Beaten(rs, NewRecord)
<1>1. NewRecord \in Records
  BY DEF NewRecord, Records
<1>2. NewRecord.done = {} /\ NewRecord.best = NoScore
  BY DEF NewRecord
<1> QED
  BY <1>1, <1>2 DEF HasRuns, Beaten

\* The stage is over: it keeps nothing.
LEMMA Over ==
  ASSUME StoreInv, writer' = NoStage, runs' \in Seq(Runs), ParentFirst(runs'), FinishedHas(runs'),
         HasRuns(runs', record'), Beaten(runs', record'), record' \in Records,
         breaks' \in Nat, fails' \in Nat, FinishedDone', FinishedOnce'
  PROVE  StoreInv'
<1>1. /\ writer'.at = "idle" /\ writer'.mem = NewRecord /\ "idle" \notin OnRun
      /\ writer' \in WriterType
  BY NewHolds, LogLast DEF NoStage, OnRun, WriterType
<1>2. StoreTyped'
  BY <1>1 DEF StoreTyped, WriterType
<1>3. RecordsHold(runs)'
  BY <1>1, NewHolds DEF RecordsHold
<1>4. RunInHand' /\ CopyAhead'
  BY <1>1 DEF RunInHand, CopyAhead
<1> QED
  BY <1>2, <1>3, <1>4 DEF StoreInv

\* The parent's run is rewritten.
LEMMA ParentRewritten ==
  ASSUME StoreInv, runs # <<>>, NEW run \in Runs, runs' = [runs EXCEPT ![1] = run],
         run.trial = runs[1].trial, run.has = runs[1].has,
         run.verdict \in {"running", "ended"}
  PROVE  /\ Edited(1, run) /\ runs' # <<>>
         /\ Later(runs, runs') /\ ParentFirst(runs') /\ FinishedHas(runs')
         /\ RecordsHold(runs')
         /\ \A r \in DOMAIN runs' : r \in DOMAIN runs
              /\ (FinishedIn(runs', r) => FinishedIn(runs, r))
<1>1. 1 \in DOMAIN runs /\ runs \in Seq(Runs) /\ Len(runs) # 0
  BY DEF StoreInv, StoreTyped
<1>2. Edited(1, run) /\ runs' # <<>>
  <2>1. Edited(1, run)
    BY <1>1, EditedIf
  <2> QED
    BY <1>1, <2>1 DEF Edited
<1>3. runs[1].verdict \in {"running", "ended"} /\ runs[1].trial = Parent
  BY <1>1 DEF StoreInv, ParentFirst
<1>4. Later(runs, runs')
  BY <1>2, <1>3 DEF Later, Edited
<1>5. ParentFirst(runs') /\ FinishedHas(runs')
  BY <1>2, <1>3 DEF StoreInv, ParentFirst, FinishedHas, Edited
<1>6. \A r \in DOMAIN runs' : r \in DOMAIN runs
        /\ (FinishedIn(runs', r) => FinishedIn(runs, r))
  BY <1>2 DEF FinishedIn, Edited
<1>7. RecordsHold(runs')
  BY <1>4, <1>6, RecordsStay DEF FreshOnly
<1> QED
  BY <1>2, <1>4, <1>5, <1>6, <1>7

LEMMA StartFailsKeeps == StoreInv /\ StartFails => StoreInv' /\ Later(runs, runs')
<1> SUFFICES ASSUME StoreInv, StartFails PROVE StoreInv' /\ Later(runs, runs')
  OBVIOUS
<1> DEFINE w == writer.run
<1>0. /\ writer.at = "tags" /\ writer.at \in OnRun \ {"save"}
      /\ runs \in Seq(Runs) /\ w \in DOMAIN runs /\ w # 1 /\ 1 \in DOMAIN runs
      /\ runs[w] \in Runs /\ runs[1] \in Runs
      /\ runs[w].status = "RUNNING" /\ runs[w].trial \notin writer.mem.done
      /\ writer.mem \in Records
      /\ ParentFirst(runs) /\ FinishedHas(runs)
  BY Hand, LogLast DEF StartFails, StoreInv, StoreTyped, RunInHand, OnRun
<1>1. /\ runs' \in Seq(Runs) /\ DOMAIN runs' = DOMAIN runs
      /\ runs'[w] = [runs[w] EXCEPT !.status = "FAILED", !.verdict = "failed"]
      /\ runs'[1] = [runs[1] EXCEPT !.status = "FINISHED"]
      /\ \A r \in DOMAIN runs \ {1, w} : runs'[r] = runs[r]
  <2> DEFINE failed == [runs[w] EXCEPT !.status = "FAILED", !.verdict = "failed"]
             parent == [runs[1] EXCEPT !.status = "FINISHED"]
  <2>1. failed \in Runs /\ parent \in Runs
    BY <1>0 DEF Runs, Judged
  <2>2. runs' = [[runs EXCEPT ![w] = failed] EXCEPT ![1] = parent]
    BY <1>0 DEF StartFails
  <2> HIDE DEF failed, parent
  <2>3. runs' \in Seq(Runs) /\ DOMAIN runs' = DOMAIN runs
        /\ runs'[w] = failed /\ runs'[1] = parent
        /\ \A r \in DOMAIN runs \ {1, w} : runs'[r] = runs[r]
    BY <1>0, <2>1, <2>2
  <2> QED
    BY <2>3 DEF failed, parent
<1>2. /\ runs'[w].status = "FAILED" /\ runs'[w].verdict = "failed"
      /\ runs'[w].trial = runs[w].trial /\ runs'[1].trial = runs[1].trial
      /\ runs'[1].verdict = runs[1].verdict
      /\ runs'[w].has = runs[w].has /\ runs'[1].has = runs[1].has
  BY <1>0, <1>1 DEF Runs
<1>3. ParentFirst(runs') /\ FinishedHas(runs')
  BY <1>0, <1>1, <1>2 DEF ParentFirst, FinishedHas
<1>4. Later(runs, runs')
  BY <1>0, <1>1, <1>2 DEF Later, ParentFirst
<1>5. \A r \in DOMAIN runs' : FinishedIn(runs', r) => r \in DOMAIN runs /\ FinishedIn(runs, r)
  <2>1. ~FinishedIn(runs', w) /\ ~FinishedIn(runs', 1)
    BY <1>0, <1>2 DEF FinishedIn, ParentFirst
  <2> QED
    BY <1>1, <2>1 DEF FinishedIn
<1>6. RecordsHold(runs')
  BY <1>4, <1>5, RecordsStay DEF FreshOnly
<1>7. record' = writer.mem /\ writer' = NoStage
  BY DEF StartFails
<1>8. FinishedDone' /\ FinishedOnce' /\ breaks' \in Nat /\ fails' \in Nat
  BY FinishedFree DEF StartFails
<1>9. StoreInv'
  BY <1>0, <1>1, <1>3, <1>6, <1>7, <1>8, Over DEF RecordsHold
<1> QED
  BY <1>4, <1>9

LEMMA InterruptKeeps == StoreInv /\ InterruptStage => StoreInv' /\ Later(runs, runs')
<1> SUFFICES ASSUME StoreInv, InterruptStage PROVE StoreInv' /\ Later(runs, runs')
  OBVIOUS
<1>0. /\ record' = writer.mem /\ writer' = NoStage /\ writer.mem \in Records
      /\ writer.at \in OnRun
  BY DEF InterruptStage, OnRun, StoreInv, StoreTyped
<1>1. FinishedDone' /\ FinishedOnce' /\ breaks' \in Nat /\ fails' \in Nat
  BY FinishedFree DEF InterruptStage
<1>2. CASE writer.at = "save"
  <2> DEFINE run == [runs[1] EXCEPT !.status = "FINISHED"]
  <2>1. runs[1] \in Runs /\ 1 \in DOMAIN runs /\ runs # <<>>
        /\ runs[1].verdict \in {"running", "ended"}
    BY <1>0, Hand DEF StoreInv, ParentFirst, CopyAhead, OnRun
  <2>2. /\ run \in Runs /\ run.trial = runs[1].trial /\ run.verdict = runs[1].verdict
        /\ run.has = runs[1].has
    BY <2>1 DEF Runs
  <2>3. runs' = [runs EXCEPT ![1] = run]
    BY <1>2, <2>1 DEF InterruptStage
  <2> HIDE DEF run
  <2>4. /\ Edited(1, run) /\ Later(runs, runs') /\ ParentFirst(runs') /\ FinishedHas(runs')
        /\ RecordsHold(runs')
    BY <2>1, <2>2, <2>3, ParentRewritten
  <2> QED
    BY <1>0, <1>1, <2>4, Over DEF RecordsHold, Edited
<1>3. CASE writer.at # "save"
  <2> DEFINE w == writer.run
             run == [runs[w] EXCEPT !.status = "FINISHED"]
  <2>1. runs[w] \in Runs /\ w \in DOMAIN runs /\ FinishedHas(runs)
    BY <1>0, Hand DEF StoreInv
  <2>2. /\ run \in Runs /\ run.trial = runs[w].trial /\ run.verdict = runs[w].verdict
        /\ run.has = runs[w].has
    BY <2>1 DEF Runs
  <2>3. runs' = [runs EXCEPT ![w] = run]
    BY <1>3, <2>1 DEF InterruptStage
  <2>4. run.verdict = "finished" => Logged \subseteq run.has
    BY <2>1, <2>2 DEF FinishedHas
  <2> HIDE DEF run
  <2>5. /\ Edited(w, run) /\ Later(runs, runs') /\ ParentFirst(runs') /\ FinishedHas(runs')
        /\ RecordsHold(runs')
    BY <1>0, <1>3, <2>1, <2>2, <2>3, <2>4, Rewritten
  <2> QED
    BY <1>0, <1>1, <2>5, Over DEF RecordsHold, Edited
<1> QED
  BY <1>2, <1>3

LEMMA OpenStageKeeps == StoreInv /\ OpenStage => StoreInv' /\ Later(runs, runs')
<1> SUFFICES ASSUME StoreInv, OpenStage PROVE StoreInv' /\ Later(runs, runs')
  OBVIOUS
<1>0. /\ record \in Records /\ record' = record /\ writer.at = "idle"
      /\ breaks' = breaks /\ fails' = fails /\ runs \in Seq(Runs)
  BY DEF OpenStage, Works, StoreInv, StoreTyped
<1>1. /\ writer'.at = "next" /\ writer'.mem = record /\ "next" \notin OnRun
      /\ writer' \in WriterType
  BY <1>0, LogLast DEF OpenStage, NoStage, NewRecord, WriterType, OnRun
<1>2. /\ runs' \in Seq(Runs) /\ runs' # <<>> /\ ParentFirst(runs') /\ FinishedHas(runs')
      /\ Later(runs, runs') /\ RecordsHold(runs')
      /\ \A r \in DOMAIN runs' : FinishedIn(runs', r) => r \in DOMAIN runs /\ FinishedIn(runs, r)
  <2>1. CASE runs = <<>>
    <3> DEFINE run == [NewRun(Parent) EXCEPT !.has = {"tags"}, !.verdict = "running"]
    <3>1. /\ run \in Runs /\ run.trial = Parent /\ run.verdict = "running"
          /\ run.has = {"tags"}
      BY LogLast DEF Runs, NewRun
    <3>2. runs' = <<run>>
      BY <2>1 DEF OpenStage
    <3> HIDE DEF run
    <3>3. runs' \in Seq(Runs) /\ DOMAIN runs' = {1} /\ runs'[1] = run /\ runs' # <<>>
      BY <3>1, <3>2
    <3>4. Later(runs, runs') /\ ParentFirst(runs') /\ FinishedHas(runs')
      BY <2>1, <3>1, <3>3 DEF Later, ParentFirst, FinishedHas
    <3>5. \A r \in DOMAIN runs' : ~FinishedIn(runs', r)
      BY <3>1, <3>3 DEF FinishedIn
    <3>6. RecordsHold(runs')
      BY <3>4, <3>5, RecordsStay DEF FreshOnly
    <3> QED
      BY <3>3, <3>4, <3>5, <3>6
  <2>2. CASE runs # <<>>
    <3> DEFINE run == [runs[1] EXCEPT !.status = "RUNNING", !.verdict = "running"]
    <3>1. 1 \in DOMAIN runs /\ runs[1] \in Runs
      BY <1>0, <2>2
    <3>2. /\ run \in Runs /\ run.trial = runs[1].trial /\ run.verdict = "running"
          /\ run.has = runs[1].has
      BY <3>1 DEF Runs
    <3>3. runs' = [runs EXCEPT ![1] = run]
      BY <2>2, <3>1, <1>0 DEF OpenStage
    <3> HIDE DEF run
    <3> QED
      BY <2>2, <3>2, <3>3, ParentRewritten DEF Edited
  <2> QED
    BY <2>1, <2>2
<1>3. StoreTyped'
  BY <1>0, <1>1, <1>2 DEF StoreInv, StoreTyped, WriterType
<1>4. RecordsHold(runs)' /\ RunInHand' /\ CopyAhead'
  BY <1>0, <1>1, <1>2 DEF RecordsHold, RunInHand, CopyAhead
<1>5. FinishedDone' /\ FinishedOnce'
  <2>1. DoneNow' = DoneNow
    BY <1>0, <1>1 DEF DoneNow
  <2> QED
    BY <1>0, <1>2, <2>1, FinishedStays
<1> QED
  BY <1>2, <1>3, <1>4, <1>5 DEF StoreInv

LEMMA LeastOf ==
  ASSUME NEW S \in SUBSET Nat, S # {}
  PROVE  \E least \in S : \A n \in S : least <= n
<1> DEFINE R == OpToRel(<, Nat)
<1>1. PICK least \in S : \A n \in S : <<n, least>> \notin R
  BY NatLessThanWellFounded, WFMin
<1>2. \A n \in S : ~(n < least)
  BY <1>1 DEF OpToRel
<1> QED
  BY <1>2

LEMMA StartTrialKeeps == StoreInv /\ StartTrial => StoreInv' /\ Later(runs, runs')
<1> SUFFICES ASSUME StoreInv, StartTrial PROVE StoreInv' /\ Later(runs, runs')
  OBVIOUS
<1>0. /\ record' = record /\ writer.at = "next" /\ runs \in Seq(Runs)
      /\ breaks' = breaks /\ fails' = fails /\ runs # <<>> /\ writer.mem \in Records
      /\ writer \in WriterType /\ writer.mem.done # TrialIds
      /\ record.done \subseteq writer.mem.done
  BY DEF StartTrial, Works, StoreInv, StoreTyped, CopyAhead, WriterType
<1> DEFINE pending == TrialIds \ writer.mem.done
           trial == CHOOSE t \in pending : \A u \in pending : t <= u
           n == Len(runs) + 1
<1>1. trial \in TrialIds /\ trial \notin writer.mem.done
  <2>1. pending \in SUBSET Nat /\ pending # {}
    <3>1. TrialIds \subseteq Nat
      BY LeaderboardAssumption DEF TrialIds
    <3>2. writer.mem.done \subseteq TrialIds
      BY <1>0 DEF Records
    <3> QED
      BY <1>0, <3>1, <3>2
  <2>2. \E t \in pending : \A u \in pending : t <= u
    BY <2>1, LeastOf
  <2> QED
    BY <2>2
<1>2. runs' = Append(runs, NewRun(trial))
  BY DEF StartTrial
<1> HIDE DEF trial
<1>3. NewRun(trial) \in Runs /\ NewRun(trial).trial = trial /\ NewRun(trial).status = "RUNNING"
      /\ NewRun(trial).verdict = "none" /\ NewRun(trial).has = {}
  BY <1>1 DEF NewRun, Runs
<1>4. /\ runs' \in Seq(Runs) /\ Len(runs') = n /\ n > 1 /\ runs' # <<>>
      /\ DOMAIN runs' = DOMAIN runs \cup {n} /\ n \notin DOMAIN runs /\ runs'[n] = NewRun(trial)
      /\ n \in Nat
      /\ \A r \in DOMAIN runs : runs'[r] = runs[r]
  BY <1>0, <1>2, <1>3
<1> HIDE DEF n
<1>5. PICK skip \in BOOLEAN :
        writer' = [writer EXCEPT !.at = "tags", !.run = n, !.skip = skip]
  BY DEF StartTrial, n
<1>6. /\ writer'.at = "tags" /\ writer'.run = n /\ writer'.mem = writer.mem
      /\ writer' \in WriterType
  BY <1>0, <1>4, <1>5, LogLast DEF WriterType, OnRun
<1>7. Later(runs, runs') /\ ParentFirst(runs') /\ FinishedHas(runs')
  BY <1>1, <1>3, <1>4 DEF Later, ParentFirst, FinishedHas, StoreInv
<1>8. \A r \in DOMAIN runs' : FinishedIn(runs', r) => r \in DOMAIN runs /\ FinishedIn(runs, r)
  BY <1>3, <1>4 DEF FinishedIn
<1>9. RecordsHold(runs')
  BY <1>7, <1>8, RecordsStay DEF FreshOnly
<1>10. StoreTyped'
  BY <1>0, <1>4, <1>6 DEF StoreInv, StoreTyped, WriterType
<1>11. RecordsHold(runs)' /\ CopyAhead'
  BY <1>0, <1>4, <1>6, <1>9 DEF RecordsHold, CopyAhead
<1>12. RunInHand'
  BY <1>1, <1>3, <1>4, <1>6, LogLast DEF RunInHand, Before
<1>13. FinishedDone' /\ FinishedOnce'
  <2>1. DoneNow' = DoneNow
    BY <1>0, <1>6 DEF DoneNow
  <2> QED
    BY <1>0, <1>7, <1>8, <2>1, FinishedStays
<1> QED
  BY <1>7, <1>10, <1>11, <1>12, <1>13 DEF StoreInv

\* The steps that write no run.
LEMMA SaveKeeps == StoreInv /\ (SaveTrial \/ CloseStage \/ KillStage) => StoreInv' /\ Later(runs, runs')
<1> SUFFICES ASSUME StoreInv, SaveTrial \/ CloseStage \/ KillStage
             PROVE  StoreInv' /\ Later(runs, runs')
  OBVIOUS
<1>0. /\ runs' = runs /\ writer.mem \in Records /\ record \in Records /\ writer.at # "idle"
      /\ runs # <<>> /\ record.done \subseteq writer.mem.done
      /\ runs \in Seq(Runs) /\ ParentFirst(runs) /\ FinishedHas(runs) /\ RecordsHold(runs)
      /\ breaks \in Nat /\ fails \in Nat /\ FinishedDone /\ FinishedOnce
  BY DEF SaveTrial, CloseStage, KillStage, StoreInv, StoreTyped, CopyAhead
<1>1. Later(runs, runs')
  BY <1>0 DEF Later
<1>2. CASE KillStage
  <2>1. FinishedDone' /\ FinishedOnce' /\ breaks' \in Nat /\ fails' \in Nat
    BY <1>2, FinishedFree DEF KillStage
  <2>2. record' = record /\ writer' = NoStage
    BY <1>2 DEF KillStage
  <2> QED
    BY <1>0, <1>1, <2>1, <2>2, Over DEF RecordsHold
<1>3. CASE CloseStage
  <2>1. record' = writer.mem /\ writer' = NoStage /\ breaks' = breaks /\ fails' = fails
    BY <1>3 DEF CloseStage, Works
  <2>2. DoneNow' = DoneNow
    BY <1>0, <2>1 DEF DoneNow, NoStage
  <2>3. FinishedDone' /\ FinishedOnce'
    BY <1>0, <2>1, <2>2 DEF FinishedDone, FinishedOnce
  <2> QED
    BY <1>0, <1>1, <2>1, <2>3, Over DEF RecordsHold
<1>4. CASE SaveTrial
  <2>1. /\ record' = writer.mem /\ breaks' = breaks /\ fails' = fails
        /\ \E at \in {"raise", "next"} : StepsTo(at)
    BY <1>4 DEF SaveTrial, Works
  <2>2. /\ writer'.at \in {"raise", "next"} /\ writer'.mem = writer.mem /\ writer' \in WriterType
    BY <2>1, MovedOn
  <2>3. writer'.at \notin OnRun /\ writer'.at # "idle"
    BY <2>2, LogLast DEF OnRun
  <2>4. StoreTyped' /\ RunInHand' /\ RecordsHold(runs)' /\ CopyAhead'
    BY <1>0, <2>1, <2>2, <2>3
       DEF StoreInv, StoreTyped, WriterType, RunInHand, RecordsHold, CopyAhead
  <2>5. DoneNow' = DoneNow
    BY <1>0, <2>2, <2>3 DEF DoneNow
  <2>6. FinishedDone' /\ FinishedOnce'
    BY <1>0, <2>1, <2>5 DEF FinishedDone, FinishedOnce
  <2> QED
    BY <1>0, <1>1, <2>4, <2>6 DEF StoreInv
<1> QED
  BY <1>2, <1>3, <1>4

LEMMA EndStageKeeps == StoreInv /\ EndStage => StoreInv' /\ Later(runs, runs')
<1> SUFFICES ASSUME StoreInv, EndStage PROVE StoreInv' /\ Later(runs, runs')
  OBVIOUS
<1>0. /\ writer.mem \in Records /\ writer.at # "idle" /\ runs # <<>> /\ runs \in Seq(Runs)
      /\ writer \in WriterType
      /\ record' = record /\ breaks' = breaks /\ fails' = fails
  BY DEF EndStage, Works, StoreInv, StoreTyped, CopyAhead, WriterType
<1> DEFINE ended == IF writer.at = "raise" THEN "FAILED" ELSE "FINISHED"
           run == [runs[1] EXCEPT !.status = ended, !.verdict = "ended"]
           kept == [writer.mem EXCEPT !.completed = (writer.at = "next")]
<1>1. 1 \in DOMAIN runs /\ runs[1] \in Runs
  BY <1>0
<1>2. /\ run \in Runs /\ run.trial = runs[1].trial /\ run.verdict = "ended"
      /\ run.has = runs[1].has
  <2>1. ended \in {"RUNNING", "FINISHED", "FAILED"}
    OBVIOUS
  <2> HIDE DEF ended
  <2> QED
    BY <1>1, <2>1 DEF Runs
<1>3. runs' = [runs EXCEPT ![1] = run]
  BY <1>0, <1>1 DEF EndStage
<1> HIDE DEF run
<1>4. /\ Edited(1, run) /\ runs' # <<>>
      /\ Later(runs, runs') /\ ParentFirst(runs') /\ FinishedHas(runs')
      /\ RecordsHold(runs')
      /\ \A r \in DOMAIN runs' : r \in DOMAIN runs
           /\ (FinishedIn(runs', r) => FinishedIn(runs, r))
  BY <1>0, <1>2, <1>3, ParentRewritten
<1>5. kept \in Records /\ kept.done = writer.mem.done /\ kept.best = writer.mem.best
  BY <1>0 DEF Records
<1>6. writer' = [writer EXCEPT !.at = "close", !.mem = kept]
  BY <1>0 DEF EndStage, WriterType
<1> HIDE DEF kept
<1>7. /\ writer'.at = "close" /\ writer'.mem = kept /\ "close" \notin OnRun
      /\ writer' \in WriterType
  BY <1>0, <1>5, <1>6, LogLast DEF WriterType, OnRun
<1>8. StoreTyped' /\ RunInHand' /\ CopyAhead'
  BY <1>0, <1>4, <1>5, <1>7
     DEF StoreInv, StoreTyped, WriterType, RunInHand, CopyAhead, Edited
<1>9. RecordsHold(runs)'
  BY <1>0, <1>4, <1>5, <1>7 DEF RecordsHold, HasRuns, Beaten
<1>10. FinishedDone' /\ FinishedOnce'
  <2>1. DoneNow' = DoneNow
    BY <1>0, <1>5, <1>7 DEF DoneNow
  <2> QED
    BY <1>0, <1>4, <2>1, FinishedStays
<1> QED
  BY <1>4, <1>8, <1>9, <1>10 DEF StoreInv

LEMMA StoreInit == BoardInit => StoreInv /\ ReaderInv
<1> SUFFICES ASSUME BoardInit PROVE StoreInv /\ ReaderInv
  OBVIOUS
<1>0. /\ runs = <<>> /\ DOMAIN runs = {} /\ runs \in Seq(Runs)
      /\ writer.at = "idle" /\ writer.mem = NewRecord /\ record = NewRecord
      /\ writer \in WriterType /\ "idle" \notin OnRun
      /\ breaks = 0 /\ fails = 0 /\ NewRecord \in Records
  BY NewHolds, LogLast DEF BoardInit, NoStage, WriterType, OnRun
<1>1. StoreTyped
  BY <1>0 DEF StoreTyped, WriterType
<1>2. RecordsHold(runs)
  BY <1>0, NewHolds DEF RecordsHold
<1>3. /\ ParentFirst(runs) /\ FinishedHas(runs) /\ RunInHand /\ CopyAhead
      /\ FinishedDone /\ FinishedOnce
  BY <1>0 DEF ParentFirst, FinishedHas, RunInHand, CopyAhead, FinishedDone, FinishedOnce
<1>4. ReaderInv
  BY <1>0, FS_EmptySet DEF BoardInit, NoRequest, ReaderInv, Requests
<1> QED
  BY <1>1, <1>2, <1>3, <1>4 DEF StoreInv
-----------------------------------------------------------------------------
\* The reader.
LEMMA FirstIsMeta == FirstPart = "meta" /\ DOMAIN NextPart = {"meta", "tags", "metrics"}
<1>1. /\ DOMAIN NextPart = {"meta", "tags", "metrics"}
      /\ NextPart["meta"] = "tags" /\ NextPart["tags"] = "metrics" /\ NextPart["metrics"] = "row"
  BY DEF NextPart
<1>2. \A p \in DOMAIN NextPart : (\A q \in DOMAIN NextPart : NextPart[q] # p) <=> p = "meta"
  BY <1>1
<1> QED
  BY <1>1, <1>2 DEF FirstPart

\* Writing leaves the reader's rows good.
LEMMA WriterLeavesReader ==
  ASSUME StoreInv, ReaderInv, Later(runs, runs'), reader' = reader
  PROVE  ReaderInv'
<1>1. \A r \in DOMAIN runs : r \in DOMAIN runs'
  BY DEF Later
<1>2. \A row \in reader.rows : RowOk(runs', row, Logged)
  BY LaterRow DEF ReaderInv
<1>3. reader.at # "meta" => RowOk(runs', reader.row, ReadBefore[reader.at])
  BY LaterRow DEF ReaderInv
<1>4. Current' = Current
  BY DEF Current
<1> QED
  BY <1>1, <1>2, <1>3, <1>4 DEF ReaderInv

LEMMA CurrentLeft ==
  ASSUME StoreInv, ReaderInv, reader.left # {}
  PROVE  Current \in reader.left /\ Current \in DOMAIN runs
<1>1. reader.left \subseteq Nat
  BY DEF ReaderInv, StoreInv, StoreTyped
<1>2. \E r \in reader.left : \A s \in reader.left : r <= s
  BY <1>1, LeastOf
<1> QED
  BY <1>2 DEF Current, ReaderInv

LEMMA AskKeeps ==
  ASSUME StoreInv, ReaderInv, NEW for \in {"list", "run"}, NEW which \in SUBSET DOMAIN runs, Ask(for, which)
  PROVE  ReaderInv'
<1>1. /\ reader'.at = "meta" /\ reader'.left = which /\ reader'.rows = {} /\ reader'.row = <<>>
      /\ runs' = runs /\ reader' \in Requests
  <2>1. which \subseteq Nat
    BY DEF StoreInv, StoreTyped
  <2> QED
    BY <2>1, FirstIsMeta DEF Ask, NoRequest, Wrote, Requests
<1> QED
  BY <1>1, FS_EmptySet DEF ReaderInv

LEMMA AnswerKeeps == ASSUME StoreInv, ReaderInv, Answer PROVE ReaderInv'
<1>1. /\ reader'.at = "meta" /\ reader'.left = {} /\ reader'.rows = {} /\ reader'.row = <<>>
      /\ runs' = runs /\ reader' \in Requests
  BY DEF Answer, NoRequest, Wrote, Requests
<1> QED
  BY <1>1, FS_EmptySet DEF ReaderInv

LEMMA ReadPartKeeps == ASSUME StoreInv, ReaderInv, ReadPart PROVE ReaderInv'
<1> DEFINE c == Current
           row == IF reader.at = "meta"
                  THEN [RowSoFar EXCEPT !.status = runs[c].status]
                  ELSE [RowSoFar EXCEPT !.has = @ \cup (runs[c].has \cap InPart(reader.at))]
<1>0. /\ c \in reader.left /\ c \in DOMAIN runs /\ c \in Nat /\ runs[c] \in Runs
      /\ runs' = runs /\ reader \in Requests
      /\ reader.at \in {"meta", "tags", "metrics"}
  <2>1. runs \in Seq(Runs) /\ runs' = runs /\ reader \in Requests
    BY DEF ReadPart, Wrote, StoreInv, StoreTyped, ReaderInv
  <2>2. c \in reader.left /\ c \in DOMAIN runs
    BY CurrentLeft DEF ReadPart
  <2> HIDE DEF c
  <2> QED
    BY <2>1, <2>2 DEF Requests
<1>1. /\ NextPart["meta"] = "tags" /\ NextPart["tags"] = "metrics" /\ NextPart["metrics"] = "row"
      /\ FirstPart = "meta"
  BY FirstIsMeta DEF NextPart
<1>2. reader' = IF NextPart[reader.at] # "row"
                THEN [reader EXCEPT !.at = NextPart[reader.at], !.row = row]
                ELSE [reader EXCEPT !.at = FirstPart, !.row = <<>>,
                                    !.left = @ \ {c}, !.rows = @ \cup {row}]
  BY <1>0 DEF ReadPart, Requests
<1>3. CASE reader.at = "meta"
  <2>1. RowSoFar = [run |-> c, status |-> "UNKNOWN", has |-> {}]
    BY <1>3 DEF RowSoFar, ReaderInv
  <2>2. row = [run |-> c, status |-> runs[c].status, has |-> {}]
    BY <1>3, <2>1
  <2> HIDE DEF row, c
  <2>3. /\ row \in Rows /\ row.run = c /\ row.status = runs[c].status /\ row.has = {}
        /\ row # <<>>
    BY <1>0, <2>2 DEF Rows, Runs
  <2>4. reader' = [reader EXCEPT !.at = "tags", !.row = row]
    BY <1>1, <1>2, <1>3
  <2>5. /\ reader'.at = "tags" /\ reader'.row = row /\ reader'.left = reader.left
        /\ reader'.rows = reader.rows /\ reader' \in Requests
    BY <1>0, <2>3, <2>4 DEF Requests
  <2>6. RowOk(runs, row, ReadBefore["tags"])
    BY <1>0, <2>3 DEF RowOk, ReadBefore
  <2>7. Current' = c
    BY <2>5 DEF Current, c
  <2> QED
    BY <1>0, <2>3, <2>5, <2>6, <2>7 DEF ReaderInv
<1>4. CASE reader.at # "meta"
  <2>1. /\ RowSoFar = reader.row /\ reader.row \in Rows /\ reader.row.run = c
        /\ RowOk(runs, reader.row, ReadBefore[reader.at])
    BY <1>0, <1>4 DEF RowSoFar, ReaderInv, Requests
  <2>2. row = [reader.row EXCEPT !.has = @ \cup (runs[c].has \cap InPart(reader.at))]
    BY <1>4, <2>1
  <2> HIDE DEF row, c
  <2>3. /\ row \in Rows /\ row.run = c /\ row.status = reader.row.status
        /\ row.has = reader.row.has \cup (runs[c].has \cap InPart(reader.at))
    BY <1>0, <2>1, <2>2 DEF Rows, Runs
  <2>4. row # <<>>
    BY <2>1, <2>2 DEF Rows
  <2>5. CASE reader.at = "tags"
    <3>1. reader' = [reader EXCEPT !.at = "metrics", !.row = row]
      BY <1>1, <1>2, <2>5
    <3>2. /\ reader'.at = "metrics" /\ reader'.row = row /\ reader'.left = reader.left
          /\ reader'.rows = reader.rows /\ reader' \in Requests
      BY <1>0, <2>3, <3>1 DEF Requests
    <3>3. RowOk(runs, row, ReadBefore["metrics"])
      BY <1>0, <2>1, <2>3, <2>5 DEF RowOk, ReadBefore, InPart
    <3>4. Current' = c
      BY <3>2 DEF Current, c
    <3> QED
      BY <1>0, <2>3, <2>4, <3>2, <3>3, <3>4 DEF ReaderInv
  <2>6. CASE reader.at = "metrics"
    <3>1. reader' = [reader EXCEPT !.at = "meta", !.row = <<>>,
                                   !.left = @ \ {c}, !.rows = @ \cup {row}]
      BY <1>1, <1>2, <2>6
    <3>2. /\ reader'.at = "meta" /\ reader'.row = <<>> /\ reader'.left = reader.left \ {c}
          /\ reader'.rows = reader.rows \cup {row} /\ reader' \in Requests
      BY <1>0, <2>3, <3>1 DEF Requests
    <3>3. RowOk(runs, row, Logged)
      BY <1>0, <2>1, <2>3, <2>6, LogLast DEF RowOk, ReadBefore, InPart
    <3>4. /\ IsFiniteSet(reader.rows \cup {row})
          /\ \A other \in reader.rows : other.run # row.run
      BY <1>0, <2>3, FS_AddElement DEF ReaderInv
    <3> QED
      BY <1>0, <2>3, <3>2, <3>3, <3>4 DEF ReaderInv
  <2> QED
    BY <1>0, <1>4, <2>5, <2>6
<1> QED
  BY <1>3, <1>4

LEMMA BoardStep == StoreInv /\ ReaderInv /\ [BoardNext]_boardVars => StoreInv' /\ ReaderInv'
<1> SUFFICES ASSUME StoreInv, ReaderInv, [BoardNext]_boardVars PROVE StoreInv' /\ ReaderInv'
  OBVIOUS
<1>1. ASSUME StoreInv', Later(runs, runs'), reader' = reader PROVE StoreInv' /\ ReaderInv'
  BY <1>1, WriterLeavesReader
<1>2. CASE OpenStage \/ StartTrial \/ StartFails \/ LogItem \/ TrialFails
           \/ SetVerdict \/ EndRun \/ EndFailed \/ SaveTrial \/ EndStage \/ CloseStage
           \/ KillStage \/ InterruptStage
  <2>1. reader' = reader
    BY <1>2 DEF OpenStage, StartTrial, StartFails, LogItem, TrialFails, SetVerdict, EndRun,
       EndFailed, SaveTrial, EndStage, CloseStage, KillStage, InterruptStage, Read
  <2>2. StoreInv' /\ Later(runs, runs')
    BY <1>2, OpenStageKeeps, StartTrialKeeps, StartFailsKeeps, LogItemKeeps, TrialFailsKeeps,
       SetVerdictKeeps, EndRunKeeps, EndFailedKeeps, SaveKeeps, EndStageKeeps, InterruptKeeps
  <2> QED
    BY <1>1, <2>1, <2>2
<1>3. ASSUME Wrote PROVE StoreInv'
  BY <1>3 DEF Wrote, Works, StoreInv, StoreTyped, RunInHand, Verdict, RecordsHold, CopyAhead,
              DoneNow, FinishedDone, FinishedOnce
<1>4. CASE AskList \/ AskRun
  <2>1. CASE AskList
    <3>1. Ask("list", DOMAIN runs)
      BY <2>1 DEF AskList
    <3> QED
      BY <1>3, <3>1, AskKeeps DEF Ask
  <2>2. CASE AskRun
    <3>1. Ask("run", {writer.run}) /\ writer.run \in DOMAIN runs
      BY <2>2, Hand, LogLast DEF AskRun, OnRun
    <3> QED
      BY <1>3, <3>1, AskKeeps DEF Ask
  <2> QED
    BY <1>4, <2>1, <2>2
<1>5. CASE ReadPart
  BY <1>3, <1>5, ReadPartKeeps DEF ReadPart
<1>6. CASE Answer
  BY <1>3, <1>6, AnswerKeeps DEF Answer
<1>7. CASE UNCHANGED boardVars
  <2>1. Wrote /\ reader' = reader /\ runs' = runs
    BY <1>7 DEF boardVars, Wrote, Works
  <2>2. Later(runs, runs')
    BY <2>1 DEF Later
  <2> QED
    BY <1>1, <1>3, <2>1, <2>2
<1> QED
  BY <1>2, <1>4, <1>5, <1>6, <1>7 DEF BoardNext
-----------------------------------------------------------------------------
\* The order of the listing.
LEMMA ScoreTyped ==
  ASSUME StoreInv, ReaderInv, NEW row \in reader.rows
  PROVE  ScoreOf(row) \in Int /\ row.run \in Int
<1>1. row \in Rows /\ row.run \in DOMAIN runs /\ row.has \subseteq runs[row.run].has
  BY DEF ReaderInv, Requests, RowOk
<1>2. CASE "aggregate" \in row.has
  <2>1. row.run # 1
    BY <1>1, <1>2 DEF StoreInv, ParentFirst
  <2>2. runs[row.run].trial \in TrialIds
    BY <1>1, <2>1 DEF StoreInv, ParentFirst
  <2>3. TrialScore[runs[row.run].trial] \in Nat
    BY <2>2, LeaderboardAssumption DEF TrialIds
  <2> QED
    BY <1>1, <1>2, <2>3 DEF ScoreOf, Rows
<1>3. CASE "aggregate" \notin row.has
  BY <1>1, <1>3 DEF ScoreOf, NoScore, Rows
<1> QED
  BY <1>2, <1>3

LEMMA AheadOrders ==
  ASSUME StoreInv, ReaderInv, NEW a \in reader.rows, NEW b \in reader.rows
  PROVE  /\ ~Ahead(a, a)
         /\ a # b => Ahead(a, b) \/ Ahead(b, a)
         /\ \A d \in reader.rows : Ahead(a, b) /\ Ahead(b, d) => Ahead(a, d)
<1>1. \A x \in reader.rows : ScoreOf(x) \in Int /\ x.run \in Int
  BY ScoreTyped
<1>2. NoScore \in Int
  BY DEF NoScore
<1>3. a # b => a.run # b.run
  BY DEF ReaderInv
<1>4. ~Ahead(a, a)
  BY <1>1 DEF Ahead
<1>5. a # b => Ahead(a, b) \/ Ahead(b, a)
  BY <1>1, <1>2, <1>3 DEF Ahead
<1>6. ASSUME NEW d \in reader.rows, Ahead(a, b), Ahead(b, d) PROVE Ahead(a, d)
  BY <1>1, <1>2, <1>6 DEF Ahead
<1> QED
  BY <1>4, <1>5, <1>6

\* Who is ahead has the lower place.
LEMMA PlaceLower ==
  ASSUME StoreInv, ReaderInv, NEW a \in reader.rows, NEW b \in reader.rows, Ahead(a, b)
  PROVE  PlaceOf(a) < PlaceOf(b)
<1> DEFINE A == {other \in reader.rows : Ahead(other, a)}
           B == {other \in reader.rows : Ahead(other, b)}
<1>1. A \subseteq B /\ a \in B /\ a \notin A
  BY AheadOrders
<1>2. IsFiniteSet(A) /\ IsFiniteSet(B) /\ Cardinality(A) \in Nat /\ Cardinality(B) \in Nat
  <2>1. IsFiniteSet(reader.rows) /\ A \in SUBSET reader.rows /\ B \in SUBSET reader.rows
    BY DEF ReaderInv
  <2> QED
    BY <2>1, FS_Subset, FS_CardinalityType
<1>3. Cardinality(A) <= Cardinality(B) /\ Cardinality(A) # Cardinality(B)
  BY <1>1, <1>2, FS_Subset
<1> QED
  BY <1>2, <1>3 DEF PlaceOf

\* Every place is taken.
LEMMA PlacesTaken ==
  ASSUME StoreInv, ReaderInv
  PROVE  /\ Cardinality(reader.rows) \in Nat
         /\ \A i \in 1 .. Cardinality(reader.rows) : \E row \in reader.rows : PlaceOf(row) = i
<1> DEFINE n == Cardinality(reader.rows)
           place == [row \in reader.rows |-> PlaceOf(row)]
<1>1. IsFiniteSet(reader.rows) /\ n \in Nat
  BY FS_CardinalityType DEF ReaderInv
<1>2. ASSUME NEW row \in reader.rows PROVE PlaceOf(row) \in 1 .. n
  <2> DEFINE A == {other \in reader.rows : Ahead(other, row)}
  <2>1. A \in SUBSET reader.rows /\ A # reader.rows
    BY AheadOrders
  <2>2. IsFiniteSet(A) /\ Cardinality(A) <= n /\ Cardinality(A) # n /\ Cardinality(A) \in Nat
    BY <1>1, <2>1, FS_Subset, FS_CardinalityType
  <2> QED
    BY <1>1, <2>2 DEF PlaceOf
<1>3. \A a, b \in reader.rows : PlaceOf(a) = PlaceOf(b) => a = b
  BY <1>2, AheadOrders, PlaceLower
<1>4. place \in Injection(reader.rows, 1 .. n)
  BY <1>2, <1>3 DEF Injection, IsInjective
<1>5. IsFiniteSet(1 .. n) /\ Cardinality(1 .. n) = n
  BY <1>1, FS_Interval
<1>6. place \in Surjection(reader.rows, 1 .. n)
  BY <1>1, <1>4, <1>5, FS_Injection
<1> QED
  BY <1>1, <1>6 DEF Surjection

LEMMA ListingSorted == StoreInv /\ ReaderInv => BestFirst
<1> SUFFICES ASSUME StoreInv, ReaderInv, NEW i \in 1 .. Len(Listing) - 1
             PROVE  /\ ScoreOf(Listing[i]) = NoScore => ScoreOf(Listing[i + 1]) = NoScore
                    /\ ScoreOf(Listing[i]) >= ScoreOf(Listing[i + 1])
  BY DEF BestFirst
<1> DEFINE n == Cardinality(reader.rows)
           a == Listing[i]
           b == Listing[i + 1]
<1>1. n \in Nat /\ \A j \in 1 .. n : \E row \in reader.rows : PlaceOf(row) = j
  BY PlacesTaken
<1>2. Len(Listing) = n
  BY <1>1 DEF Listing
<1>3. i \in 1 .. n /\ i + 1 \in 1 .. n
  BY <1>1, <1>2
<1>4. \A j \in 1 .. n : Listing[j] \in reader.rows /\ PlaceOf(Listing[j]) = j
  BY <1>1 DEF Listing
<1>5. a \in reader.rows /\ b \in reader.rows /\ PlaceOf(a) = i /\ PlaceOf(b) = i + 1
  BY <1>3, <1>4
<1> HIDE DEF a, b
<1>6. a # b /\ ~Ahead(b, a)
  BY <1>3, <1>5, PlaceLower
<1>7. Ahead(a, b)
  BY <1>5, <1>6, AheadOrders
<1>8. ScoreOf(a) \in Int /\ ScoreOf(b) \in Int
  BY <1>5, ScoreTyped
<1>9. ScoreOf(b) = NoScore \/ ScoreOf(b) \in Nat
  <2>1. b.run \in DOMAIN runs /\ b.has \subseteq runs[b.run].has
    BY <1>5 DEF ReaderInv, RowOk
  <2>2. "aggregate" \in b.has => TrialScore[runs[b.run].trial] \in Nat
    BY <2>1, LeaderboardAssumption DEF StoreInv, ParentFirst, TrialIds
  <2> QED
    BY <2>2 DEF ScoreOf
<1>10. ScoreOf(a) = NoScore \/ ScoreOf(a) \in Nat
  <2>1. a.run \in DOMAIN runs /\ a.has \subseteq runs[a.run].has
    BY <1>5 DEF ReaderInv, RowOk
  <2>2. "aggregate" \in a.has => TrialScore[runs[a.run].trial] \in Nat
    BY <2>1, LeaderboardAssumption DEF StoreInv, ParentFirst, TrialIds
  <2> QED
    BY <2>2 DEF ScoreOf
<1>11. (ScoreOf(a) = NoScore => ScoreOf(b) = NoScore) /\ ScoreOf(a) >= ScoreOf(b)
  BY <1>7, <1>8, <1>9, <1>10 DEF Ahead, NoScore
<1> QED
  BY <1>11 DEF a, b
-----------------------------------------------------------------------------
LEMMA StoreSays == StoreInv /\ ReaderInv => BoardInv
<1> SUFFICES ASSUME StoreInv, ReaderInv PROVE BoardInv
  OBVIOUS
<1>1. BoardTypeOK
  <2>1. ASSUME NEW r \in DOMAIN runs
        PROVE  /\ runs[r].trial \in TrialIds \cup {Parent} /\ runs[r].has \subseteq Logged
               /\ runs[r].status \in {"RUNNING", "FINISHED", "FAILED"}
    <3>1. runs[r] \in Runs
      BY DEF StoreInv, StoreTyped
    <3> QED
      BY <3>1 DEF Runs
  <2>2. record.done \subseteq TrialIds /\ writer.mem.done \subseteq TrialIds
    BY DEF StoreInv, StoreTyped, Records
  <2> QED
    BY <2>1, <2>2 DEF BoardTypeOK, ReaderInv
<1>2. FinishedIsWhole
  <2> SUFFICES ASSUME NEW row \in reader.rows, row.status = "FINISHED",
                      runs[row.run].verdict = "finished"
               PROVE  Logged \subseteq row.has
    BY DEF FinishedIsWhole
  <2>1. RowOk(runs, row, Logged) /\ row.run \in DOMAIN runs
    BY DEF ReaderInv, RowOk
  <2>2. row.run # 1 /\ Logged \subseteq runs[row.run].has
    BY <2>1 DEF StoreInv, ParentFirst, FinishedHas
  <2> QED
    BY <2>1, <2>2 DEF RowOk
<1>3. BestFirst
  BY ListingSorted
<1>4. RecordHasRuns
  BY DEF StoreInv, RecordsHold, HasRuns, FinishedIn, RecordHasRuns, Finished, Judged
<1>5. RunsHaveRecord
  <2>1. Beaten(runs, record)
    BY DEF StoreInv, RecordsHold
  <2>2. breaks \in Nat /\ fails \in Nat
    BY DEF StoreInv, StoreTyped
  <2>3. ASSUME NEW r \in DOMAIN runs, NEW s \in DOMAIN runs, Finished(r), Finished(s),
               runs[r].trial = runs[s].trial
        PROVE  r = s \/ breaks > 0 \/ fails > 0
    BY <2>2, <2>3 DEF StoreInv, FinishedOnce, FinishedIn, Finished
  <2> QED
    BY <2>1, <2>3 DEF RunsHaveRecord, Beaten, FinishedIn, Finished
<1> QED
  BY <1>1, <1>2, <1>3, <1>4, <1>5 DEF BoardInv

(***************************************************************************)
(* Whenever the page reads and wherever the stage is killed, interrupted   *)
(* or fails: a finished run is shown whole, the listing has the best score *)
(* first, what the state file calls done has its run and the best of them, *)
(* and no finished run that may win beats the record unseen.               *)
(***************************************************************************)
THEOREM BoardHolds == BoardSpec => []BoardInv
<1>1. BoardSpec => [](StoreInv /\ ReaderInv)
  BY StoreInit, BoardStep, PTL DEF BoardSpec
<1> QED
  BY <1>1, StoreSays, PTL

-----------------------------------------------------------------------------
(***************************************************************************)
(* Splits: the plan of a dataset.                                          *)
(***************************************************************************)
SplitRow == [ts : Int, target : {0, 1}]
Files == Seq(SplitRow)

\* The plan is that of the rows, whatever they are.
SplitIInv ==
  /\ rows \in Files /\ config \in Configs
  /\ plan \in {<<>>, MakeTemporalSplits(rows, config)}

LEMMA SplitStart == SplitsInit => SplitIInv
  BY DEF SplitsInit, SplitIInv, Files

LEMMA SplitGrows == SplitIInv /\ GrowFile => SplitIInv'
<1> SUFFICES ASSUME SplitIInv, GrowFile PROVE SplitIInv'
  OBVIOUS
<1>1. PICK gap \in RowGaps, target \in {0, 1} :
        rows' = Append(rows, [ts |-> IF rows = <<>> THEN 0 ELSE rows[Len(rows)].ts + gap,
                              target |-> target])
  BY DEF GrowFile
<1>2. rows \in Files /\ gap \in Int
  BY SplitsAssumption DEF SplitIInv
<1>3. (IF rows = <<>> THEN 0 ELSE rows[Len(rows)].ts + gap) \in Int
  <2>1. CASE rows # <<>>
    <3>1. Len(rows) \in 1 .. Len(rows)
      BY <1>2, <2>1 DEF Files
    <3>2. rows[Len(rows)] \in SplitRow
      BY <1>2, <3>1 DEF Files
    <3> QED
      BY <1>2, <3>2 DEF SplitRow
  <2> QED
    BY <2>1
<1>4. rows' \in Files
  BY <1>1, <1>2, <1>3 DEF Files, SplitRow
<1>5. config' = config /\ plan' = MakeTemporalSplits(rows', config)
  BY DEF GrowFile
<1> QED
  BY <1>4, <1>5 DEF SplitIInv

-----------------------------------------------------------------------------
\* What the order of a file is: every row in it, once, by time and then place.
Sorts(order, table) ==
  /\ order \in [DOMAIN table -> DOMAIN table]
  /\ \A j, k \in DOMAIN table : j < k =>
       \/ table[order[j]].ts < table[order[k]].ts
       \/ table[order[j]].ts = table[order[k]].ts /\ order[j] < order[k]
  /\ \A i \in DOMAIN table : \E k \in DOMAIN table : order[k] = i

LEMMA FileTyped ==
  ASSUME NEW table \in Files
  PROVE  /\ Len(table) \in Nat /\ DOMAIN table = 1 .. Len(table)
         /\ \A i \in DOMAIN table : table[i].ts \in Int /\ table[i].target \in {0, 1}
         /\ IsFiniteSet(DOMAIN table) /\ Cardinality(DOMAIN table) = Len(table)
<1>1. Len(table) \in Nat /\ DOMAIN table = 1 .. Len(table)
  BY DEF Files
<1>2. \A i \in DOMAIN table : table[i] \in SplitRow
  BY DEF Files
<1>3. 1 \in Int /\ Len(table) \in Int
  BY <1>1
<1> DEFINE n == Len(table)
<1> HIDE DEF n
<1>4. IsFiniteSet(1 .. n) /\ Cardinality(1 .. n) = IF 1 > n THEN 0 ELSE n - 1 + 1
  BY <1>1, <1>3, FS_Interval DEF n
<1>5. IsFiniteSet(1 .. n) /\ Cardinality(1 .. n) = n
  BY <1>1, <1>4 DEF n
<1> QED
  BY <1>1, <1>2, <1>5 DEF SplitRow, n

\* Lexsort puts the rows in order.
LEMMA OrderSorts ==
  ASSUME NEW table \in Files
  PROVE  Sorts(OrderOf(table), table)
<1> DEFINE S == DOMAIN table
           Earlier(j, i) == \/ table[j].ts < table[i].ts
                            \/ table[j].ts = table[i].ts /\ j < i
           R == {p \in S \X S : Earlier(p[1], p[2])}
           at == ByRank(S, R)
<1>1. IsFiniteSet(S) /\ Cardinality(S) = Len(table) /\ Len(table) \in Nat /\ S = 1 .. Len(table)
  BY FileTyped
<1>2. \A i \in S : i \in Int /\ table[i].ts \in Int
  BY FileTyped, <1>1
<1>3. \A a, b \in S : <<a, b>> \in R <=> Earlier(a, b)
  OBVIOUS
<1> HIDE DEF R
<1>4. \A a \in S : <<a, a>> \notin R
  BY <1>2, <1>3
<1>5. \A a, b \in S : a # b => <<a, b>> \in R \/ <<b, a>> \in R
  BY <1>2, <1>3
<1>6. \A a, b, c \in S : <<a, b>> \in R /\ <<b, c>> \in R => <<a, c>> \in R
  BY <1>2, <1>3
<1> HIDE DEF S
<1>7. /\ at \in [1 .. Cardinality(S) -> S]
      /\ \A j, k \in 1 .. Cardinality(S) : j < k => <<at[j], at[k]>> \in R
      /\ \A a \in S : \E k \in 1 .. Cardinality(S) : at[k] = a
  <2>1. IsFiniteSet(S) BY <1>1
  <2> QED BY ONLY <2>1, <1>4, <1>5, <1>6, RankedInOrder
<1>8. at = OrderOf(table)
  <2>1. \A a \in S : {b \in S : <<b, a>> \in R} = {b \in S : Earlier(b, a)}
    BY <1>3
  <2>2. 1 .. Cardinality(S) = S
    BY <1>1
  <2>4. at = [k \in 1 .. Cardinality(S) |->
           CHOOSE a \in S : Cardinality({b \in S : <<b, a>> \in R}) = k - 1]
    BY DEF ByRank
  <2>3. OrderOf(table) = [k \in S |->
           CHOOSE a \in S : Cardinality({b \in S : Earlier(b, a)}) = k - 1]
    BY DEF OrderOf, S
  <2> DEFINE one(k) == CHOOSE a \in S : Cardinality({b \in S : <<b, a>> \in R}) = k - 1
             two(k) == CHOOSE a \in S : Cardinality({b \in S : Earlier(b, a)}) = k - 1
  <2>5. \A k \in S : one(k) = two(k)
    BY <2>1
  <2> HIDE DEF one, two
  <2>6. at = [k \in S |-> one(k)] /\ OrderOf(table) = [k \in S |-> two(k)]
    BY <2>2, <2>3, <2>4 DEF one, two
  <2> QED
    BY <2>5, <2>6
<1>9. 1 .. Cardinality(S) = S
  BY <1>1
<1> HIDE DEF at
<1>10. OrderOf(table) \in [S -> S]
  BY <1>7, <1>8, <1>9
<1>11. \A j, k \in S : j < k => Earlier(OrderOf(table)[j], OrderOf(table)[k])
  BY <1>3, <1>7, <1>8, <1>9, <1>10
<1> QED
  BY <1>7, <1>8, <1>9, <1>10, <1>11 DEF Sorts, S

-----------------------------------------------------------------------------
LEMMA Quotient ==
  ASSUME NEW a \in Int, NEW b \in Nat \ {0}
  PROVE  a \div b \in Int /\ b * (a \div b) <= a /\ a < b * (a \div b) + b
  OBVIOUS

LEMMA QuotientUp ==
  ASSUME NEW n \in Nat, NEW p \in Nat, NEW q \in Nat, 0 < p, p < q
  PROVE  (n * p + q - 1) \div q \in 0 .. n
  OBVIOUS

LEMMA TimesMonotone ==
  ASSUME NEW a \in Int, NEW b \in Int, a <= b, NEW c \in Nat
  PROVE  a * c <= b * c
  OBVIOUS

\* A share of n rows, rounded up, is some of them.
LEMMA CeilOf ==
  ASSUME NEW n \in Nat, NEW part, Proper(part)
  PROVE  Ceil(n, part) \in 0 .. n
<1>1. part[1] \in Nat /\ part[2] \in Nat /\ 0 < part[1] /\ part[1] < part[2]
  BY DEF Proper
<1> QED
  BY <1>1, QuotientUp DEF Ceil

-----------------------------------------------------------------------------
(***************************************************************************)
(* The plan of the rows: the blocks that are validated, each of Chunk rows *)
(* but the last, and the places of the rows each fold is trained on.       *)
(***************************************************************************)
Sorted == OrderOf(rows)
End == DevelopmentEnd(rows, config)
First == FirstValidation(rows, config)
Chunk == (End - First + 1) \div config.folds
BlockStart(k) == First + (k - 1) * Chunk
BlockEnd(k) == IF k = config.folds THEN End ELSE BlockStart(k + 1) - 1
Trained(k) == {p \in 1 .. BlockStart(k) - 1 :
                 rows[Sorted[p]].ts <= Boundary(rows[Sorted[BlockStart(k)]].ts)}

LEMMA EndOf ==
  ASSUME SplitIInv
  PROVE  /\ End \in 0 .. Len(rows) /\ Len(rows) \in Nat
         /\ config.folds \in Nat \ {0}
<1>1. config.folds \in Nat \ {0} /\ Proper(config.share)
  BY SplitsAssumption DEF SplitIInv
<1>2. Len(rows) \in Nat
  BY FileTyped DEF SplitIInv
<1>3. Ceil(Len(rows), config.share) \in 0 .. Len(rows)
  BY <1>1, <1>2, CeilOf
<1> QED
  BY <1>1, <1>2, <1>3 DEF End, DevelopmentEnd

LEMMA LargerOf ==
  ASSUME NEW a \in Int, NEW b \in Int
  PROVE  Max({a, b}) \in Int
<1> DEFINE ok(x) == x \in {a, b} /\ \A y \in {a, b} : x >= y
<1>1. ok(a) \/ ok(b)
  OBVIOUS
<1>2. Max({a, b}) = CHOOSE x \in {a, b} : \A y \in {a, b} : x >= y
  BY DEF Max
<1>3. Max({a, b}) \in {a, b}
  BY <1>1, <1>2
<1> QED
  BY <1>3

LEMMA FirstOf ==
  ASSUME SplitIInv
  PROVE  First \in Int
<1> DEFINE oldest == Min({rows[i].ts : i \in DOMAIN rows})
           older == {i \in DOMAIN rows : rows[i].ts < oldest + 2 * Embargo}
           floor == Cardinality(older)
           block == End \div (config.folds + 1)
<1>1. older \subseteq DOMAIN rows /\ IsFiniteSet(DOMAIN rows)
  BY FileTyped DEF SplitIInv
<1> HIDE DEF older
<1>2. floor \in Nat
  <2>1. IsFiniteSet(older)
    BY <1>1, FS_Subset
  <2> QED
    BY <2>1, FS_CardinalityType
<1>3. block \in Int
  BY EndOf, Quotient
<1>4. First = 1 + Max({floor, block})
  BY DEF First, FirstValidation, End, older
<1> HIDE DEF floor, block
<1> QED
  BY <1>2, <1>3, <1>4, LargerOf

LEMMA PlanShape ==
  ASSUME SplitIInv, Planned
  PROVE  /\ 1 < First /\ First <= End /\ 1 <= Chunk
         /\ plan[1].first = First
         /\ plan[1].holdout = SubSeq(Sorted, End + 1, Len(rows))
         /\ \A k \in Folds :
              /\ Fold(k).validation = SubSeq(Sorted, BlockStart(k), BlockEnd(k))
              /\ Fold(k).train = Masked(Sorted, Trained(k))
<1> DEFINE fold(k) == [validation |-> SubSeq(Sorted, BlockStart(k), BlockEnd(k)),
                       train |-> Masked(Sorted, Trained(k))]
           both(which) == BothClasses(rows, Range(which))
           found == /\ First > 1 /\ End >= First /\ Chunk >= 1
                    /\ \A k \in 1 .. config.folds :
                         both(fold(k).train) /\ both(fold(k).validation)
           blocks == [k \in 1 .. config.folds |-> fold(k)]
           sealed == SubSeq(Sorted, End + 1, Len(rows))
           made == [folds |-> blocks, first |-> First, holdout |-> sealed]
<1>1. MakeTemporalSplits(rows, config) = IF found THEN <<made>> ELSE <<>>
  BY DEF MakeTemporalSplits, Sorted, End, First, Chunk, BlockStart, BlockEnd, Trained
<1>2. plan = MakeTemporalSplits(rows, config) /\ plan # <<>>
  BY DEF SplitIInv, Planned
<1> HIDE DEF found, made
<1>3. found /\ plan = <<made>>
  BY <1>1, <1>2
<1>4. plan[1] = made
  BY <1>3
<1>5. First > 1 /\ End >= First /\ Chunk >= 1
  BY <1>3 DEF found
<1>6. First \in Int /\ End \in Int
  BY EndOf, FirstOf
<1>7. Chunk \in Int
  BY <1>6, EndOf, Quotient DEF Chunk
<1>8. /\ plan[1].first = First
      /\ plan[1].holdout = sealed
      /\ plan[1].folds = blocks
  <2> HIDE DEF blocks, sealed
  <2> QED
    BY <1>4 DEF made
<1> HIDE DEF fold
<1>9. \A k \in Folds : Fold(k) = fold(k)
  BY <1>8 DEF Fold, Folds, blocks
<1>10. \A k \in Folds :
         /\ Fold(k).validation = SubSeq(Sorted, BlockStart(k), BlockEnd(k))
         /\ Fold(k).train = Masked(Sorted, Trained(k))
  BY <1>9 DEF fold
<1> QED
  BY <1>5, <1>6, <1>7, <1>8, <1>10 DEF sealed

\* The blocks follow one another from the first to the last development row.
LEMMA BlocksFollow ==
  ASSUME SplitIInv, Planned
  PROVE  /\ First \in Int /\ End \in Int /\ Chunk \in Int
         /\ \A k \in Folds :
              /\ BlockStart(k) \in Int /\ BlockEnd(k) \in Int
              /\ First <= BlockStart(k) /\ BlockStart(k) <= BlockEnd(k)
              /\ BlockEnd(k) <= End
         /\ \A j, k \in Folds : j < k => BlockEnd(j) < BlockStart(k)
         /\ \A p \in First .. End : \E k \in Folds : p \in BlockStart(k) .. BlockEnd(k)
<1> DEFINE F == config.folds
           c == Chunk
<1>1. F \in Nat \ {0} /\ End \in Int /\ First \in Int
  BY EndOf, FirstOf
<1>2. c \in Nat \ {0} /\ F * c <= End - First + 1
  <2>1. End - First + 1 \in Int /\ 1 <= c
    BY <1>1, PlanShape
  <2>2. c \in Int /\ F * c <= End - First + 1
    BY <1>1, <2>1, Quotient DEF Chunk
  <2> QED
    BY <2>1, <2>2
<1>3. First <= End
  BY PlanShape
<1> HIDE DEF F, c
<1>4. \A k \in 1 .. F : (k - 1) * c \in Int /\ k * c \in Int /\ k * c = (k - 1) * c + c
  BY <1>1, <1>2
<1>5. \A k \in 1 .. F : 0 <= (k - 1) * c /\ k * c <= F * c
  <2> TAKE k \in 1 .. F
  <2>1. k \in Int /\ F \in Int /\ k <= F /\ 0 <= k - 1 /\ k - 1 \in Int
    BY <1>1
  <2>2. 0 * c <= (k - 1) * c
    BY <1>2, <2>1, TimesMonotone
  <2>3. k * c <= F * c
    BY <1>2, <2>1, TimesMonotone
  <2> QED
    BY <1>2, <2>2, <2>3
<1>6. F * c \in Int
  BY <1>1, <1>2
<1>7. \A k \in 1 .. F : /\ BlockStart(k) = First + (k - 1) * c
                        /\ BlockEnd(k) = IF k = F THEN End ELSE First + k * c - 1
  <2> TAKE k \in 1 .. F
  <2>1. (k + 1) - 1 = k
    BY <1>1
  <2> QED
    BY <1>1, <1>2, <2>1 DEF BlockStart, BlockEnd, F, c
<1>8. ASSUME NEW k \in 1 .. F
      PROVE  /\ BlockStart(k) \in Int /\ BlockEnd(k) \in Int
             /\ First <= BlockStart(k) /\ BlockStart(k) <= BlockEnd(k)
             /\ BlockEnd(k) <= End
  BY <1>1, <1>2, <1>4, <1>5, <1>6, <1>7
<1>9. ASSUME NEW j \in 1 .. F, NEW k \in 1 .. F, j < k PROVE BlockEnd(j) < BlockStart(k)
  <2>1. j \in Int /\ k - 1 \in Int /\ j <= k - 1 /\ j # F
    BY <1>1, <1>9
  <2>2. j * c <= (k - 1) * c
    BY <1>2, <2>1, TimesMonotone
  <2> QED
    BY <1>1, <1>4, <1>7, <2>1, <2>2
<1>10. ASSUME NEW p \in First .. End
       PROVE  \E k \in 1 .. F : p \in BlockStart(k) .. BlockEnd(k)
  <2> DEFINE q == (p - First) \div c
  <2>1. p - First \in Int /\ 0 <= p - First
    BY <1>1
  <2>2. q \in Int /\ c * q <= p - First /\ p - First < c * q + c
    BY <1>2, <2>1, Quotient
  <2>3. 0 <= q
    BY <1>2, <2>1
  <2> HIDE DEF q
  <2>4. c * q \in Int /\ c * q = q * c /\ q * c \in Int
    BY <1>2, <2>2
  <2>5. CASE q + 1 < F
    <3>1. q + 1 \in 1 .. F /\ (q + 1) - 1 = q /\ q + 1 # F
      BY <1>1, <2>2, <2>3, <2>5
    <3>2. BlockStart(q + 1) = First + q * c /\ BlockEnd(q + 1) = First + (q + 1) * c - 1
      BY <1>7, <3>1
    <3>3. (q + 1) * c = q * c + c
      BY <1>4, <3>1
    <3>4. p \in BlockStart(q + 1) .. BlockEnd(q + 1)
      BY <1>1, <1>2, <2>2, <2>4, <3>2, <3>3
    <3> QED
      BY <3>1, <3>4
  <2>6. CASE F <= q + 1
    <3>1. F \in 1 .. F /\ F - 1 \in Int /\ F - 1 <= q
      BY <1>1, <2>2, <2>6
    <3>2. (F - 1) * c <= q * c
      BY <1>2, <2>2, <3>1, TimesMonotone
    <3>3. BlockStart(F) = First + (F - 1) * c /\ BlockEnd(F) = End
      BY <1>7, <3>1
    <3>4. (F - 1) * c \in Int
      BY <1>4, <3>1
    <3>5. p \in BlockStart(F) .. BlockEnd(F)
      BY <1>1, <2>2, <2>4, <3>2, <3>3, <3>4
    <3> QED
      BY <3>1, <3>5
  <2> QED
    BY <1>1, <2>2, <2>5, <2>6
<1> QED
  BY <1>1, <1>2, <1>8, <1>9, <1>10 DEF F, c, Folds

\* The rows in order: each at one place, none younger than the ones after it.
LEMMA InPlace ==
  ASSUME SplitIInv
  PROVE  LET n == Len(rows)
         IN  /\ n \in Nat /\ DOMAIN rows = 1 .. n /\ Sorted \in [1 .. n -> 1 .. n]
             /\ \A i \in 1 .. n : rows[i].ts \in Int
             /\ \A p, q \in 1 .. n : p <= q => rows[Sorted[p]].ts <= rows[Sorted[q]].ts
             /\ \A p, q \in 1 .. n : Sorted[p] = Sorted[q] => p = q
             /\ \A i \in 1 .. n : \E p \in 1 .. n : Sorted[p] = i
<1> DEFINE n == Len(rows)
<1>1. n \in Nat /\ DOMAIN rows = 1 .. n /\ \A i \in 1 .. n : rows[i].ts \in Int
  BY FileTyped DEF SplitIInv
<1>2. Sorts(Sorted, rows)
  BY OrderSorts DEF SplitIInv, Sorted
<1> HIDE DEF n
<1>3. /\ Sorted \in [1 .. n -> 1 .. n]
      /\ \A j, k \in 1 .. n : j < k =>
           \/ rows[Sorted[j]].ts < rows[Sorted[k]].ts
           \/ rows[Sorted[j]].ts = rows[Sorted[k]].ts /\ Sorted[j] < Sorted[k]
      /\ \A i \in 1 .. n : \E k \in 1 .. n : Sorted[k] = i
  BY <1>1, <1>2 DEF Sorts
<1>7. \A p \in 1 .. n : Sorted[p] \in 1 .. n
  BY <1>3
<1>8. \A p \in 1 .. n : p \in Int
  OBVIOUS
<1>4. \A p \in 1 .. n : rows[Sorted[p]].ts \in Int /\ p \in Int /\ Sorted[p] \in Int
  BY <1>1, <1>7, <1>8
<1>5. \A p, q \in 1 .. n : p <= q => rows[Sorted[p]].ts <= rows[Sorted[q]].ts
  <2> SUFFICES ASSUME NEW p \in 1 .. n, NEW q \in 1 .. n, p <= q
               PROVE  rows[Sorted[p]].ts <= rows[Sorted[q]].ts
    OBVIOUS
  <2>1. p = q \/ p < q
    BY <1>8
  <2>2. rows[Sorted[p]].ts \in Int /\ rows[Sorted[q]].ts \in Int
    BY <1>4
  <2>3. CASE p < q
    <3>1. \/ rows[Sorted[p]].ts < rows[Sorted[q]].ts
          \/ rows[Sorted[p]].ts = rows[Sorted[q]].ts /\ Sorted[p] < Sorted[q]
      BY <1>3, <2>3
    <3> QED
      BY <2>2, <3>1
  <2> QED
    BY <2>1, <2>2, <2>3
<1>6. \A p, q \in 1 .. n : Sorted[p] = Sorted[q] => p = q
  <2> SUFFICES ASSUME NEW p \in 1 .. n, NEW q \in 1 .. n, p < q
               PROVE  Sorted[p] # Sorted[q]
    BY <1>8
  <2>1. \/ rows[Sorted[p]].ts < rows[Sorted[q]].ts
        \/ rows[Sorted[p]].ts = rows[Sorted[q]].ts /\ Sorted[p] < Sorted[q]
    BY <1>3
  <2>2. /\ rows[Sorted[p]].ts \in Int /\ rows[Sorted[q]].ts \in Int
        /\ Sorted[p] \in Int /\ Sorted[q] \in Int
    BY <1>4
  <2> QED
    BY <2>1, <2>2
<1> QED
  BY <1>1, <1>3, <1>5, <1>6 DEF n

\* What a fold is trained on and validated on, by the places in the order.
LEMMA FoldRows ==
  ASSUME SplitIInv, Planned, NEW k \in Folds
  PROVE  /\ Trained(k) \subseteq 1 .. BlockStart(k) - 1
         /\ Trained(k) \subseteq 1 .. Len(rows)
         /\ Train(k) = {Sorted[p] : p \in Trained(k)}
         /\ Validation(k) = {Sorted[p] : p \in BlockStart(k) .. BlockEnd(k)}
<1> DEFINE n == Len(rows)
<1>1. /\ BlockStart(k) \in Int /\ BlockEnd(k) \in Int /\ 1 <= BlockStart(k)
      /\ BlockStart(k) <= BlockEnd(k) /\ BlockEnd(k) <= n /\ n \in Nat
  BY BlocksFollow, EndOf, PlanShape
<1>2. Trained(k) \subseteq 1 .. BlockStart(k) - 1
  BY DEF Trained
<1>3. Trained(k) \subseteq 1 .. n
  BY <1>1, <1>2
<1>4. Sorted \in [1 .. n -> 1 .. n]
  BY InPlace
<1>5. Fold(k).validation = SubSeq(Sorted, BlockStart(k), BlockEnd(k))
      /\ Fold(k).train = Masked(Sorted, Trained(k))
  BY PlanShape
<1> HIDE DEF n
<1>6. Train(k) = {Sorted[p] : p \in Trained(k)}
  BY <1>1, <1>3, <1>5, MaskedRange DEF Train
<1>7. BlockStart(k) <= BlockEnd(k) + 1
  BY <1>1
<1>8. Range(SubSeq(Sorted, BlockStart(k), BlockEnd(k)))
        = {Sorted[p] : p \in BlockStart(k) .. BlockEnd(k)}
  <2> DEFINE a == BlockStart(k)
             b == BlockEnd(k)
  <2>1. Sorted \in [1 .. n -> Int]
    BY <1>4
  <2>2. a \in Int /\ b \in Int /\ 1 <= a /\ a <= b + 1 /\ b <= n /\ n \in Nat
    BY <1>1, <1>7
  <2> HIDE DEF a, b
  <2>3. Range(SubSeq(Sorted, a, b)) = {Sorted[p] : p \in a .. b}
    BY ONLY <2>1, <2>2, Subsequence
  <2> QED
    BY <2>3 DEF a, b
<1>9. Validation(k) = {Sorted[p] : p \in BlockStart(k) .. BlockEnd(k)}
  BY <1>5, <1>8 DEF Validation
<1> QED
  BY <1>2, <1>3, <1>6, <1>9 DEF n

-----------------------------------------------------------------------------
LEMMA NothingLeaks == SplitIInv => NoLeak
<1> SUFFICES ASSUME SplitIInv, Planned, NEW k \in Folds, NEW t \in Train(k),
                    NEW v \in Validation(k)
             PROVE  SeesTo(t) <= SeesFrom(v)
  BY DEF NoLeak
<1> DEFINE n == Len(rows)
           s == BlockStart(k)
<1>1. PICK p \in Trained(k) : t = Sorted[p]
  BY FoldRows
<1>2. PICK q \in s .. BlockEnd(k) : v = Sorted[q]
  BY FoldRows
<1>3. s \in Int /\ BlockEnd(k) \in Int /\ 1 <= s /\ s <= BlockEnd(k) /\ BlockEnd(k) <= n
      /\ n \in Nat
  BY BlocksFollow, EndOf, PlanShape
<1> HIDE DEF n, s
<1>4. s \in 1 .. n /\ q \in 1 .. n /\ s <= q
  BY <1>2, <1>3
<1>5. p \in 1 .. n
  BY FoldRows DEF n
<1>6. rows[Sorted[s]].ts <= rows[v].ts
  BY <1>2, <1>4, InPlace DEF n
<1>7. rows[t].ts <= rows[Sorted[s]].ts - (FeatureLookback + LabelSeconds)
  BY <1>1 DEF Trained, Boundary, Embargo, s
<1>8. rows[t].ts \in Int /\ rows[v].ts \in Int /\ rows[Sorted[s]].ts \in Int
  BY <1>1, <1>2, <1>4, <1>5, InPlace DEF n
<1>9. FeatureLookback \in Int /\ LabelSeconds \in Int
  BY SplitsAssumption
<1> QED
  BY <1>6, <1>7, <1>8, <1>9 DEF SeesTo, SeesFrom

LEMMA FoldsGrow == SplitIInv => FoldsExpand
<1> SUFFICES ASSUME SplitIInv, Planned
             PROVE  /\ \A j, k \in Folds : j < k =>
                         /\ Train(j) \subseteq Train(k)
                         /\ Validation(j) \cap Validation(k) = {}
                    /\ UNION {Validation(k) : k \in Folds} =
                         {Sorted[p] : p \in First .. End}
  BY PlanShape DEF FoldsExpand, Sorted, End
<1> DEFINE n == Len(rows)
<1>1. /\ n \in Nat /\ Sorted \in [1 .. n -> 1 .. n]
      /\ \A i \in 1 .. n : rows[i].ts \in Int
      /\ \A p, q \in 1 .. n : p <= q => rows[Sorted[p]].ts <= rows[Sorted[q]].ts
      /\ \A p, q \in 1 .. n : Sorted[p] = Sorted[q] => p = q
  BY InPlace
<1>2. \A k \in Folds : /\ BlockStart(k) \in Int /\ BlockEnd(k) \in Int
                       /\ First <= BlockStart(k) /\ BlockStart(k) <= BlockEnd(k)
                       /\ BlockEnd(k) <= End
  BY BlocksFollow
<1>3. First \in Int /\ End \in Int /\ 1 < First /\ End <= n
  BY BlocksFollow, PlanShape, EndOf
<1> HIDE DEF n
<1>9. n \in Int /\ First \in Int /\ End \in Int /\ 1 < First /\ End <= n
  BY <1>1, <1>3
<1>4. ASSUME NEW k \in Folds PROVE BlockStart(k) .. BlockEnd(k) \subseteq 1 .. n
  <2>1. /\ BlockStart(k) \in Int /\ BlockEnd(k) \in Int
        /\ First <= BlockStart(k) /\ BlockEnd(k) <= End
    BY <1>2
  <2>2. 1 <= BlockStart(k) /\ BlockEnd(k) <= n
    BY <1>9, <2>1
  <2> QED
    BY <1>9, <2>1, <2>2
<1>5. ASSUME NEW j \in Folds, NEW k \in Folds, j < k
      PROVE  Train(j) \subseteq Train(k) /\ Validation(j) \cap Validation(k) = {}
  <2>1. BlockEnd(j) < BlockStart(k)
    BY <1>5, BlocksFollow
  <2> DEFINE s == BlockStart(j)
             t == BlockStart(k)
             a == rows[Sorted[s]].ts
             b == rows[Sorted[t]].ts
             e == FeatureLookback + LabelSeconds
  <2>2. s \in 1 .. n /\ t \in 1 .. n /\ s <= t
    <3>1. s \in Int /\ t \in Int /\ First <= s /\ s <= BlockEnd(j) /\ t <= BlockEnd(k)
          /\ BlockEnd(k) <= End /\ BlockEnd(j) \in Int /\ BlockEnd(k) \in Int
      BY <1>2
    <3>2. BlockEnd(j) < t
      BY <2>1
    <3> HIDE DEF s, t
    <3> QED
      BY <1>9, <3>1, <3>2
  <2>3. a \in Int /\ b \in Int /\ a <= b /\ e \in Int
    BY <1>1, <2>2, SplitsAssumption
  <2>4. Trained(j) = {p \in 1 .. s - 1 : rows[Sorted[p]].ts <= a - e}
    BY DEF Trained, Boundary, Embargo
  <2>5. Trained(k) = {p \in 1 .. t - 1 : rows[Sorted[p]].ts <= b - e}
    BY DEF Trained, Boundary, Embargo
  <2> HIDE DEF s, t, a, b, e
  <2>6. ASSUME NEW p \in Trained(j) PROVE p \in Trained(k)
    <3>1. p \in 1 .. s - 1 /\ rows[Sorted[p]].ts <= a - e
      BY <2>4
    <3>2. p \in 1 .. t - 1 /\ p \in 1 .. n
      BY <2>2, <3>1, <1>1
    <3>3. rows[Sorted[p]].ts \in Int
      BY <1>1, <3>2
    <3>4. rows[Sorted[p]].ts <= b - e
      BY <2>3, <3>1, <3>3
    <3> QED
      BY <2>5, <3>2, <3>4
  <2>7. Train(j) \subseteq Train(k)
    BY <2>6, FoldRows
  <2>8. \A p \in BlockStart(j) .. BlockEnd(j), q \in BlockStart(k) .. BlockEnd(k) :
          Sorted[p] # Sorted[q]
    <3> SUFFICES ASSUME NEW p \in BlockStart(j) .. BlockEnd(j),
                        NEW q \in BlockStart(k) .. BlockEnd(k)
                 PROVE  Sorted[p] # Sorted[q]
      OBVIOUS
    <3>1. p \in 1 .. n /\ q \in 1 .. n
      BY <1>4
    <3>2. p < q
      BY <1>2, <2>1
    <3> QED
      BY <1>1, <3>1, <3>2
  <2>9. Validation(j) \cap Validation(k) = {}
    BY <2>8, FoldRows
  <2> QED
    BY <2>7, <2>9
<1>6. ASSUME NEW i \in UNION {Validation(k) : k \in Folds}
      PROVE  i \in {Sorted[p] : p \in First .. End}
  <2>1. PICK k \in Folds : i \in Validation(k)
    OBVIOUS
  <2>2. PICK p \in BlockStart(k) .. BlockEnd(k) : i = Sorted[p]
    BY <2>1, FoldRows
  <2>3. p \in First .. End
    BY <1>2, <1>3, <2>2
  <2> QED
    BY <2>2, <2>3
<1>7. ASSUME NEW i \in {Sorted[p] : p \in First .. End}
      PROVE  i \in UNION {Validation(k) : k \in Folds}
  <2>1. PICK p \in First .. End : i = Sorted[p]
    OBVIOUS
  <2>2. PICK k \in Folds : p \in BlockStart(k) .. BlockEnd(k)
    BY BlocksFollow
  <2>3. i \in Validation(k)
    BY <2>1, <2>2, FoldRows
  <2> QED
    BY <2>3
<1>8. UNION {Validation(k) : k \in Folds} = {Sorted[p] : p \in First .. End}
  BY <1>6, <1>7
<1> QED
  BY <1>5, <1>8

-----------------------------------------------------------------------------
\* Neighbours in order: all are.
LEMMA AllMonotonic ==
  ASSUME SplitIInv, Monotonic,
         NEW i \in 1 .. Len(rows), NEW j \in 1 .. Len(rows), i <= j
  PROVE  rows[i].ts <= rows[j].ts
<1> DEFINE n == Len(rows)
           S == {k \in Nat : k \in i .. n /\ ~(rows[i].ts <= rows[k].ts)}
<1>1. n \in Nat /\ \A k \in 1 .. n : rows[k].ts \in Int
  BY InPlace
<1>2. SUFFICES ASSUME ~(rows[i].ts <= rows[j].ts) PROVE FALSE
  OBVIOUS
<1>3. S \in SUBSET Nat /\ S # {}
  BY <1>1, <1>2
<1>4. PICK k \in S : \A l \in S : k <= l
  BY <1>3, SmallestOf
<1>5. k \in i .. n /\ ~(rows[i].ts <= rows[k].ts)
  OBVIOUS
<1> HIDE DEF n
<1>6. k # i
  BY <1>1, <1>5 DEF n
<1>7. k - 1 \in 1 .. n /\ k - 1 \in i .. n /\ k \in 1 .. n /\ k - 1 \in Nat
  BY <1>1, <1>5, <1>6 DEF n
<1>8. k - 1 \notin S
  BY <1>4, <1>5, <1>7
<1> DEFINE p == k - 1
<1>9. p \in 1 .. n - 1 /\ p + 1 = k
  BY <1>1, <1>5, <1>7
<1>10. rows[p].ts <= rows[p + 1].ts
  BY <1>9 DEF Monotonic, n
<1>11. rows[i].ts <= rows[p].ts
  BY <1>7, <1>8
<1>12. rows[i].ts \in Int /\ rows[p].ts \in Int /\ rows[k].ts \in Int
  BY <1>1, <1>7 DEF n
<1> QED
  BY <1>5, <1>9, <1>10, <1>11, <1>12

\* A file already in order stays as it is.
LEMMA StaysInOrder ==
  ASSUME SplitIInv, Monotonic, NEW k \in 1 .. Len(rows)
  PROVE  Sorted[k] = k
<1> DEFINE n == Len(rows)
           before(i) == {j \in DOMAIN rows :
             rows[j].ts < rows[i].ts \/ (rows[j].ts = rows[i].ts /\ j < i)}
<1>1. n \in Nat /\ DOMAIN rows = 1 .. n /\ \A i \in 1 .. n : rows[i].ts \in Int
  BY InPlace
<1>2. Sorted[k] = CHOOSE i \in DOMAIN rows : Cardinality(before(i)) = k - 1
  BY <1>1 DEF Sorted, OrderOf
<1>3. ASSUME NEW i \in 1 .. n PROVE before(i) = 1 .. i - 1
  <2>1. ASSUME NEW j \in 1 .. n
        PROVE  (rows[j].ts < rows[i].ts \/ (rows[j].ts = rows[i].ts /\ j < i)) <=> j < i
    <3>1. rows[i].ts \in Int /\ rows[j].ts \in Int
      BY <1>1
    <3>2. j <= i => rows[j].ts <= rows[i].ts
      BY AllMonotonic
    <3>3. i <= j => rows[i].ts <= rows[j].ts
      BY AllMonotonic
    <3> QED
      BY <3>1, <3>2, <3>3
  <2>2. \A j \in 1 .. n : j \in before(i) <=> j < i
    BY <1>1, <2>1
  <2>3. before(i) \subseteq 1 .. n
    BY <1>1
  <2>4. 1 .. i - 1 \subseteq 1 .. n /\ \A j \in 1 .. n : j \in 1 .. i - 1 <=> j < i
    BY <1>1
  <2> HIDE DEF before, n
  <2> QED
    BY <2>2, <2>3, <2>4
<1> HIDE DEF before, n
<1>4. ASSUME NEW i \in 1 .. n PROVE Cardinality(before(i)) = i - 1
  <2>1. 1 \in Int /\ i - 1 \in Int /\ 1 <= i
    BY <1>1
  <2>2. Cardinality(1 .. i - 1) = IF 1 > i - 1 THEN 0 ELSE (i - 1) - 1 + 1
    BY <2>1, FS_Interval
  <2>3. Cardinality(1 .. i - 1) = i - 1
    BY <2>1, <2>2
  <2> QED
    BY <1>3, <2>3
<1>5. \A i \in 1 .. n : Cardinality(before(i)) = k - 1 <=> i = k
  <2> TAKE i \in 1 .. n
  <2>1. Cardinality(before(i)) = i - 1 /\ i \in Int /\ k \in Int
    BY <1>1, <1>4 DEF n
  <2> QED
    BY <2>1
<1>6. k \in 1 .. n
  BY DEF n
<1> QED
  BY <1>1, <1>2, <1>5, <1>6

\* No fold touches a row after the last development row.
LEMMA RefitIsDevelopment ==
  ASSUME SplitIInv, Planned
  PROVE  RefitRows \subseteq {Sorted[p] : p \in 1 .. End}
<1> SUFFICES ASSUME NEW k \in Folds, NEW i \in Train(k) \cup Validation(k)
             PROVE  i \in {Sorted[p] : p \in 1 .. End}
  BY DEF RefitRows
<1>1. /\ BlockStart(k) \in Int /\ BlockEnd(k) \in Int /\ First <= BlockStart(k)
      /\ BlockStart(k) <= BlockEnd(k) /\ BlockEnd(k) <= End
      /\ First \in Int /\ End \in Int /\ 1 < First
  BY BlocksFollow, PlanShape
<1>2. \A p \in 1 .. BlockStart(k) - 1 : p \in 1 .. End
  BY <1>1
<1>3. \A p \in BlockStart(k) .. BlockEnd(k) : p \in 1 .. End
  BY <1>1
<1>4. CASE i \in Train(k)
  BY <1>2, <1>4, FoldRows
<1>5. CASE i \in Validation(k)
  BY <1>3, <1>5, FoldRows
<1> QED
  BY <1>4, <1>5

LEMMA HoldoutUntouched == SplitIInv => HoldoutSealed
<1> SUFFICES ASSUME SplitIInv, Planned, Qualifies
             PROVE  /\ Holdout = Range(plan[1].holdout)
                    /\ Holdout \cap RefitRows = {}
  BY DEF HoldoutSealed
<1> DEFINE n == Len(rows)
<1>1. n \in Nat /\ End \in 0 .. n /\ Holdout = End + 1 .. n
  BY EndOf DEF Holdout, End
<1>2. \A p \in 1 .. n : Sorted[p] = p
  BY StaysInOrder DEF Qualifies
<1>3. Sorted \in [1 .. n -> 1 .. n]
  BY InPlace
<1>4. plan[1].holdout = SubSeq(Sorted, End + 1, n)
  BY PlanShape
<1> HIDE DEF n
<1>5. Range(SubSeq(Sorted, End + 1, n)) = {Sorted[p] : p \in End + 1 .. n}
  <2> DEFINE a == End + 1
  <2>1. Sorted \in [1 .. n -> Int]
    BY <1>3
  <2>2. a \in Int /\ n \in Int /\ 1 <= a /\ a <= n + 1 /\ n <= n
    BY <1>1
  <2> HIDE DEF a
  <2>3. Range(SubSeq(Sorted, a, n)) = {Sorted[p] : p \in a .. n}
    BY <1>1, <2>1, <2>2, Subsequence
  <2> QED
    BY <2>3 DEF a
<1>6. \A p \in End + 1 .. n : p \in 1 .. n /\ Sorted[p] = p
  BY <1>1, <1>2
<1>7. {Sorted[p] : p \in End + 1 .. n} = End + 1 .. n
  <2> DEFINE H == End + 1 .. n
  <2>1. \A p \in H : Sorted[p] = p
    BY <1>6
  <2> HIDE DEF H
  <2>2. {Sorted[p] : p \in H} = H
    BY <2>1
  <2> QED
    BY <2>2 DEF H
<1>8. \A p \in 1 .. End : p \in 1 .. n /\ Sorted[p] = p
  BY <1>1, <1>2
<1>9. RefitRows \subseteq 1 .. End
  BY <1>8, RefitIsDevelopment
<1>10. (End + 1 .. n) \cap (1 .. End) = {}
  BY <1>1
<1> QED
  BY <1>1, <1>4, <1>5, <1>7, <1>9, <1>10

\* Of rows in order of time, the first are fitted on and the last calibrated on.
LEMMA CalibrationAfter ==
  ASSUME SplitIInv, NEW m \in Nat, NEW fitted \in [1 .. m -> 1 .. Len(rows)],
         \A p, q \in 1 .. m : p < q => rows[fitted[p]].ts <= rows[fitted[q]].ts
  PROVE  \A i \in Range(FitRows(fitted)), j \in Range(CalibrationRows(fitted)) :
           rows[i].ts <= rows[j].ts
<1> DEFINE c == FitCount(fitted)
<1>1. Len(fitted) = m
  OBVIOUS
<1>2. Ceil(m, CalibrationShare) \in 0 .. m
  BY CeilOf, SplitsAssumption
<1>3. c \in 0 .. m
  BY <1>1, <1>2 DEF FitCount
<1>4. fitted \in [1 .. m -> Int]
  OBVIOUS
<1> HIDE DEF c
<1>5. Range(SubSeq(fitted, 1, c)) = {fitted[p] : p \in 1 .. c}
  <2>1. 1 \in Int /\ c \in Int /\ 1 <= 1 /\ 1 <= c + 1 /\ c <= m
    BY <1>3
  <2> QED
    BY <1>4, <2>1, Subsequence
<1>6. Range(SubSeq(fitted, c + 1, m)) = {fitted[p] : p \in c + 1 .. m}
  <2> DEFINE a == c + 1
  <2>1. a \in Int /\ m \in Int /\ 1 <= a /\ a <= m + 1 /\ m <= m
    BY <1>3
  <2> HIDE DEF a
  <2>2. Range(SubSeq(fitted, a, m)) = {fitted[p] : p \in a .. m}
    BY <1>4, <2>1, Subsequence
  <2> QED
    BY <2>2 DEF a
<1>7. \A p \in 1 .. c, q \in c + 1 .. m : p \in 1 .. m /\ q \in 1 .. m /\ p < q
  BY <1>3
<1>8. /\ FitRows(fitted) = SubSeq(fitted, 1, c)
      /\ CalibrationRows(fitted) = SubSeq(fitted, c + 1, m)
  BY <1>1 DEF FitRows, CalibrationRows, c
<1> SUFFICES ASSUME NEW i \in Range(FitRows(fitted)),
                    NEW j \in Range(CalibrationRows(fitted))
             PROVE  rows[i].ts <= rows[j].ts
  OBVIOUS
<1>9. PICK p \in 1 .. c : i = fitted[p]
  BY <1>5, <1>8
<1>10. PICK q \in c + 1 .. m : j = fitted[q]
  BY <1>6, <1>8
<1> QED
  BY <1>7, <1>9, <1>10

LEMMA CalibratedAfter == SplitIInv => CalibratedLater
<1> DEFINE later(fitted) ==
             \A i \in Range(FitRows(fitted)), j \in Range(CalibrationRows(fitted)) :
               rows[i].ts <= rows[j].ts
<1> SUFFICES ASSUME SplitIInv, Planned
             PROVE  /\ \A k \in Folds : later(Fold(k).train)
                    /\ Inspected => later(Refitted)
  BY DEF CalibratedLater
<1> DEFINE n == Len(rows)
<1>1. /\ n \in Nat /\ Sorted \in [1 .. n -> 1 .. n] /\ DOMAIN rows = 1 .. n
      /\ \A p, q \in 1 .. n : p <= q => rows[Sorted[p]].ts <= rows[Sorted[q]].ts
  BY InPlace
<1> HIDE DEF later
<1>2. ASSUME NEW k \in Folds PROVE later(Fold(k).train)
  <2> DEFINE kept == Trained(k)
             m == Cardinality(kept)
  <2>1. kept \subseteq 1 .. n /\ Fold(k).train = Masked(Sorted, kept)
    BY FoldRows, PlanShape
  <2> HIDE DEF kept, n
  <2>2. m \in Nat
    BY <1>1, <2>1, MaskedPlaces
  <2>3. PICK at : Picks(at, Sorted, kept)
    BY <1>1, <2>1, MaskedPlaces
  <2> DEFINE fitted == [i \in 1 .. m |-> Sorted[at[i]]]
  <2>4. /\ at \in [1 .. m -> kept] /\ Masked(Sorted, kept) = fitted
        /\ \A i, j \in 1 .. m : i < j => at[i] < at[j]
    BY <2>3 DEF Picks
  <2> HIDE DEF m
  <2>5. \A i \in 1 .. m : at[i] \in 1 .. n
    BY <2>1, <2>4
  <2>6. fitted \in [1 .. m -> 1 .. n]
    BY <1>1, <2>5
  <2>7. ASSUME NEW i \in 1 .. m, NEW j \in 1 .. m, i < j
        PROVE  rows[fitted[i]].ts <= rows[fitted[j]].ts
    <3>1. at[i] \in 1 .. n /\ at[j] \in 1 .. n /\ at[i] < at[j]
      BY <2>4, <2>5, <2>7
    <3>2. at[i] <= at[j]
      BY <1>1, <3>1
    <3> QED
      BY <1>1, <3>1, <3>2
  <2> HIDE DEF fitted
  <2>8. later(fitted)
    BY <2>2, <2>6, <2>7, CalibrationAfter DEF later, n
  <2> QED
    BY <2>1, <2>4, <2>8
<1>3. ASSUME Inspected PROVE later(Refitted)
  <2> DEFINE kept == RefitRows
             m == Cardinality(kept)
             all == [i \in DOMAIN rows |-> i]
  <2>1. kept \subseteq 1 .. n
    <3>1. \A p \in 1 .. End : p \in 1 .. n
      BY <1>1, EndOf
    <3>2. {Sorted[p] : p \in 1 .. End} \subseteq 1 .. n
      BY <1>1, <3>1
    <3> QED
      BY <3>2, RefitIsDevelopment
  <2>9. Refitted = Masked(all, kept)
    BY DEF Refitted
  <2> HIDE DEF kept, n, all
  <2>2. m \in Nat
    BY <1>1, <2>1, MaskedPlaces
  <2>3. PICK at : Picks(at, all, kept)
    BY <1>1, <2>1, MaskedPlaces
  <2>4. /\ at \in [1 .. m -> kept] /\ Masked(all, kept) = [i \in 1 .. m |-> all[at[i]]]
        /\ \A i, j \in 1 .. m : i < j => at[i] < at[j]
    BY <2>3 DEF Picks
  <2> HIDE DEF m
  <2>5. \A i \in 1 .. m : at[i] \in 1 .. n
    BY <2>1, <2>4
  <2>6. at \in [1 .. m -> 1 .. n]
    BY <2>4, <2>5
  <2>10. Masked(all, kept) = at
    BY <1>1, <2>4, <2>5 DEF all
  <2>7. ASSUME NEW i \in 1 .. m, NEW j \in 1 .. m, i < j
        PROVE  rows[at[i]].ts <= rows[at[j]].ts
    <3>1. at[i] \in 1 .. n /\ at[j] \in 1 .. n /\ at[i] < at[j]
      BY <2>4, <2>5, <2>7
    <3>2. at[i] <= at[j]
      BY <1>1, <3>1
    <3> QED
      BY <1>3, <3>1, <3>2, AllMonotonic DEF Inspected, n
  <2>8. later(at)
    BY <2>2, <2>6, <2>7, CalibrationAfter DEF later, n
  <2> QED
    BY <2>8, <2>9, <2>10
<1> QED
  BY <1>2, <1>3

-----------------------------------------------------------------------------
\* What the loop of event_metrics does with each row.
Alerting(last, hits) ==
  LET n == Len(rows)
  IN  /\ last \in [0 .. n -> 0 .. n] /\ last[0] = 0
      /\ \A k \in 1 .. n :
           last[k] = IF /\ Sorted[k] \in hits
                        /\ \/ last[k - 1] = 0
                           \/ rows[Sorted[k]].ts - rows[last[k - 1]].ts >= Cooldown
                     THEN Sorted[k] ELSE last[k - 1]

LEMMA AlertsRun ==
  ASSUME SplitIInv, NEW hits
  PROVE  Alerting(LastAlert(hits), hits)
<1> DEFINE n == Len(rows)
           raised(k, b) == /\ Sorted[k] \in hits
                           /\ b = 0 \/ rows[Sorted[k]].ts - rows[b].ts >= Cooldown
           next(k, b) == IF raised(k, b) THEN Sorted[k] ELSE b
           V == 0 .. n
           step == [x \in (1 .. n) \X V |-> next(x[1], x[2])]
           loop(f) == [k \in 0 .. n |-> IF k = 0 THEN 0 ELSE next(k, f[k - 1])]
<1>1. n \in Nat /\ Sorted \in [1 .. n -> 1 .. n]
  BY InPlace
<1>2. LastAlert(hits) = CHOOSE f : f = loop(f)
  BY DEF LastAlert, Sorted
<1> HIDE DEF raised, n
<1>3. \A k \in 1 .. n, b \in V : next(k, b) \in V
  <2>1. \A k \in 1 .. n : Sorted[k] \in V
    BY <1>1
  <2> QED
    BY <2>1
<1>4. step \in [(1 .. n) \X V -> V]
  <2> HIDE DEF next, V
  <2> QED
    BY <1>3
<1>5. 0 \in V
  BY <1>1
<1>6. \A k \in 1 .. n, b \in V : step[<<k, b>>] = next(k, b)
  <2> HIDE DEF next, V
  <2> QED
    OBVIOUS
<1> HIDE DEF step, next
<1>7. PICK g \in [0 .. n -> V] :
        g[0] = 0 /\ \A k \in 1 .. n : g[k] = step[<<k, g[k - 1]>>]
  <2> HIDE DEF V
  <2>1. n \in Nat
    BY <1>1
  <2>2. \A k \in 1 .. n, b \in V : step[<<k, b>>] \in V
    BY <1>4
  <2>3. \E g : Loops(g, n, V, 0, step)
    BY <1>5, <2>1, <2>2, LoopRuns
  <2> QED
    BY <2>3 DEF Loops
<1>8. \A k \in 0 .. n : k # 0 => k \in 1 .. n /\ k - 1 \in 0 .. n
  BY <1>1
<1>9. \A k \in 0 .. n : g[k] = IF k = 0 THEN 0 ELSE next(k, g[k - 1])
  <2> TAKE k \in 0 .. n
  <2>1. CASE k = 0
    BY <1>7, <2>1
  <2>2. CASE k # 0
    <3>1. k \in 1 .. n /\ g[k - 1] \in V
      BY <1>7, <1>8, <2>2
    <3> QED
      BY <1>6, <1>7, <2>2, <3>1
  <2> QED
    BY <2>1, <2>2
<1>10. g = loop(g)
  BY <1>7, <1>9
<1>11. LastAlert(hits) = loop(LastAlert(hits))
  <2> HIDE DEF loop
  <2> QED
    BY <1>2, <1>10
<1> DEFINE f == LastAlert(hits)
           T == {k \in Nat : k \in 0 .. n /\ f[k] \notin V}
<1> HIDE DEF f
<1>12. DOMAIN f = 0 .. n /\ \A k \in 0 .. n : f[k] = IF k = 0 THEN 0 ELSE next(k, f[k - 1])
  BY <1>11 DEF f
<1>13. T = {}
  <2>1. SUFFICES ASSUME T # {} PROVE FALSE
    OBVIOUS
  <2>2. PICK k \in T : \A l \in T : k <= l
    BY <2>1, SmallestOf
  <2>3. k \in 0 .. n /\ f[k] \notin V
    OBVIOUS
  <2>4. k # 0
    BY <1>5, <1>12, <2>3
  <2>5. k - 1 \in Nat /\ k - 1 \in 0 .. n /\ k - 1 < k /\ k \in 1 .. n
    BY <1>1, <2>3, <2>4
  <2>6. f[k - 1] \in V
    BY <2>2, <2>5
  <2>7. next(k, f[k - 1]) \in V
    BY <1>3, <2>5, <2>6 DEF next
  <2> QED
    BY <1>12, <2>3, <2>4, <2>7
<1>14. \A k \in 0 .. n : f[k] \in V
  <2> HIDE DEF V
  <2>1. \A k \in 0 .. n : k \in Nat
    BY <1>1
  <2> QED
    BY <1>13, <2>1
<1>15. f = [k \in 0 .. n |-> f[k]]
  BY <1>11, <1>12 DEF f
<1>16. f \in [0 .. n -> V]
  BY <1>14, <1>15
<1>17. f[0] = 0 /\ \A k \in 1 .. n : f[k] = next(k, f[k - 1])
  <2>1. 0 \in 0 .. n /\ \A k \in 1 .. n : k \in 0 .. n /\ k # 0
    BY <1>1
  <2> QED
    BY <1>12, <2>1
<1>18. \A k \in 1 .. n :
         f[k] = IF /\ Sorted[k] \in hits
                   /\ f[k - 1] = 0 \/ rows[Sorted[k]].ts - rows[f[k - 1]].ts >= Cooldown
                THEN Sorted[k] ELSE f[k - 1]
  BY <1>17 DEF next, raised
<1> QED
  BY <1>16, <1>17, <1>18 DEF Alerting, f, n

LEMMA AlertsApart == SplitIInv => AlertsCool
<1> DEFINE hits == {i \in DOMAIN rows : rows[i].target = 1}
           last == LastAlert(hits)
           n == Len(rows)
           at(i) == rows[i].ts
<1> SUFFICES ASSUME SplitIInv
             PROVE  /\ Alerts(hits) \subseteq hits
                    /\ \A i, j \in Alerts(hits) : i # j =>
                         at(i) - at(j) >= Cooldown \/ at(j) - at(i) >= Cooldown
                    /\ \A h \in hits : \E a \in Alerts(hits) :
                         h = a \/ at(h) - at(a) \in 0 .. Cooldown - 1
  BY DEF AlertsCool
<1>1. /\ n \in Nat /\ DOMAIN rows = 1 .. n /\ Sorted \in [1 .. n -> 1 .. n]
      /\ \A i \in 1 .. n : at(i) \in Int
      /\ \A p, q \in 1 .. n : p <= q => at(Sorted[p]) <= at(Sorted[q])
      /\ \A i \in 1 .. n : \E p \in 1 .. n : Sorted[p] = i
  BY InPlace
<1>2. Cooldown \in Nat
  BY SplitsAssumption
<1>3. hits \subseteq 1 .. n
  BY <1>1
<1> HIDE DEF hits
<1>4. /\ last \in [0 .. n -> 0 .. n] /\ last[0] = 0
      /\ \A k \in 1 .. n :
           last[k] = IF /\ Sorted[k] \in hits
                        /\ last[k - 1] = 0 \/ at(Sorted[k]) - at(last[k - 1]) >= Cooldown
                     THEN Sorted[k] ELSE last[k - 1]
  BY AlertsRun DEF Alerting
<1>5. Alerts(hits) = {last[k] : k \in 0 .. n} \ {0}
  <2>1. DOMAIN last = 0 .. n
    BY <1>4
  <2>2. Range(last) = {last[k] : k \in DOMAIN last}
    BY DEF Range
  <2> HIDE DEF last
  <2> QED
    BY <2>1, <2>2 DEF Alerts, last
<1> HIDE DEF last, n, at
\* The last alert is a hit, and one that the loop has been through.
<1> DEFINE hit(k) == last[k] # 0 =>
             last[k] \in hits /\ \E p \in 1 .. k : last[k] = Sorted[p]
<1>6. \A k \in 0 .. n : hit(k)
  <2> DEFINE S == {k \in Nat : k \in 0 .. n /\ ~hit(k)}
  <2>0. \A k \in 0 .. n : k \in Nat
    BY <1>1
  <2>1. SUFFICES ASSUME S # {} PROVE FALSE
    BY <2>0
  <2>2. PICK k \in S : \A l \in S : k <= l
    BY <2>1, SmallestOf
  <2>3. k \in 0 .. n /\ ~hit(k)
    OBVIOUS
  <2>4. k # 0
    BY <1>4, <2>3
  <2>5. k - 1 \in Nat /\ k - 1 \in 0 .. n /\ k - 1 < k /\ k \in 1 .. n /\ k \in 1 .. k
    BY <1>1, <2>3, <2>4
  <2>6. hit(k - 1)
    BY <2>2, <2>5
  <2>7. \A p \in 1 .. k - 1 : p \in 1 .. k
    BY <2>5
  <2>8. last[k] = last[k - 1] \/ (last[k] = Sorted[k] /\ Sorted[k] \in hits)
    BY <1>4, <2>5
  <2>9. CASE last[k] = last[k - 1]
    BY <2>3, <2>6, <2>7, <2>9
  <2>10. CASE last[k] = Sorted[k] /\ Sorted[k] \in hits
    BY <2>3, <2>5, <2>10
  <2> QED
    BY <2>8, <2>9, <2>10
<1>7. \A k \in 0 .. n : last[k] # 0 => last[k] \in hits /\ last[k] \in 1 .. n /\ at(last[k]) \in Int
  BY <1>1, <1>3, <1>6
\* Every alert before it is a cooldown older.
<1> DEFINE apart(j, k) == \/ last[j] = 0 \/ last[j] = last[k]
                          \/ last[k] # 0 /\ at(last[k]) - at(last[j]) >= Cooldown
<1>8. ASSUME NEW j \in 0 .. n, NEW m \in j .. n PROVE apart(j, m)
  <2> DEFINE S == {k \in Nat : k \in j .. n /\ ~apart(j, k)}
  <2>0. \A k \in 0 .. n : k \in Nat
    BY <1>1
  <2>1. SUFFICES ASSUME S # {} PROVE FALSE
    BY <2>0
  <2>2. PICK k \in S : \A l \in S : k <= l
    BY <2>1, SmallestOf
  <2>3. k \in j .. n /\ ~apart(j, k)
    OBVIOUS
  <2>4. k # j
    BY <2>3
  <2>5. k - 1 \in Nat /\ k - 1 \in j .. n /\ k - 1 < k /\ k \in 1 .. n
        /\ k \in 0 .. n /\ k - 1 \in 0 .. n
    BY <1>1, <2>3, <2>4
  <2>6. apart(j, k - 1)
    BY <2>2, <2>5
  <2>7. CASE last[k] = last[k - 1]
    BY <2>3, <2>6, <2>7
  <2>8. CASE /\ last[k] = Sorted[k] /\ Sorted[k] \in hits
             /\ last[k - 1] = 0 \/ at(Sorted[k]) - at(last[k - 1]) >= Cooldown
    <3>1. last[k] # 0 /\ last[k] \in 1 .. n
      BY <1>1, <1>3, <2>8
    <3>2. last[j] # 0 /\ last[j] # last[k] /\ ~(at(last[k]) - at(last[j]) >= Cooldown)
      BY <2>3, <3>1
    <3>3. last[k - 1] # 0
      BY <2>6, <3>2
    <3>4. at(last[k]) - at(last[k - 1]) >= Cooldown
      BY <2>8, <3>3
    <3>5. at(last[k]) \in Int /\ at(last[k - 1]) \in Int /\ at(last[j]) \in Int
      BY <1>7, <2>5, <3>1, <3>2, <3>3
    <3>6. CASE last[j] = last[k - 1]
      BY <3>2, <3>4, <3>6
    <3>7. CASE at(last[k - 1]) - at(last[j]) >= Cooldown
      BY <1>2, <3>2, <3>4, <3>5, <3>7
    <3> QED
      BY <2>6, <3>2, <3>6, <3>7
  <2> QED
    BY <1>4, <2>5, <2>7, <2>8
<1>9. Alerts(hits) \subseteq hits
  BY <1>5, <1>7
<1>10. ASSUME NEW a \in Alerts(hits), NEW b \in Alerts(hits), a # b
       PROVE  at(a) - at(b) >= Cooldown \/ at(b) - at(a) >= Cooldown
  <2>1. PICK j \in 0 .. n : a = last[j] /\ a # 0
    BY <1>5
  <2>2. PICK k \in 0 .. n : b = last[k] /\ b # 0
    BY <1>5
  <2>3. k \in j .. n \/ j \in k .. n
    BY <1>1
  <2>4. CASE k \in j .. n
    BY <1>8, <1>10, <2>1, <2>2, <2>4
  <2>5. CASE j \in k .. n
    BY <1>8, <1>10, <2>1, <2>2, <2>5
  <2> QED
    BY <2>3, <2>4, <2>5
<1>11. ASSUME NEW h \in hits
       PROVE  \E a \in Alerts(hits) : h = a \/ at(h) - at(a) \in 0 .. Cooldown - 1
  <2>1. PICK p \in 1 .. n : h = Sorted[p]
    BY <1>1, <1>3
  <2>2. p \in 0 .. n /\ p - 1 \in 0 .. n
    BY <1>1
  <2>3. CASE last[p - 1] = 0 \/ at(h) - at(last[p - 1]) >= Cooldown
    <3>1. last[p] = h
      BY <1>4, <2>1, <2>3
    <3>2. h # 0
      BY <1>1, <1>3
    <3> QED
      BY <1>5, <2>2, <3>1, <3>2
  <2>4. CASE last[p - 1] # 0 /\ ~(at(h) - at(last[p - 1]) >= Cooldown)
    <3> DEFINE a == last[p - 1]
    <3>1. a \in Alerts(hits)
      BY <1>5, <2>2, <2>4
    <3>2. PICK q \in 1 .. p - 1 : a = Sorted[q]
      BY <1>6, <2>2, <2>4
    <3>3. q \in 1 .. n /\ q <= p
      BY <1>1, <2>1, <3>2
    <3>4. at(a) <= at(h)
      BY <1>1, <2>1, <3>2, <3>3
    <3>5. at(a) \in Int /\ at(h) \in Int
      BY <1>1, <1>3, <1>7, <2>2, <2>4
    <3> HIDE DEF a
    <3>6. ~(at(h) - at(a) >= Cooldown)
      BY <2>4 DEF a
    <3>7. at(h) - at(a) \in 0 .. Cooldown - 1
      BY <1>2, <3>4, <3>5, <3>6
    <3> QED
      BY <3>1, <3>7
  <2> QED
    BY <2>3, <2>4
<1> QED
  BY <1>9, <1>10, <1>11

-----------------------------------------------------------------------------
(***************************************************************************)
(* However the rows are spaced, ordered and labelled, of the plan that     *)
(* make_temporal_splits makes of them: no fold leaks, the folds expand,    *)
(* the holdout is sealed, calibration comes after the fit, and the alerts  *)
(* are a cooldown apart.                                                   *)
(***************************************************************************)
THEOREM SplitsHold == SplitsSpec => []SplitsInv
<1>1. SplitIInv /\ [SplitsNext]_splitVars => SplitIInv'
  <2> SUFFICES ASSUME SplitIInv, [SplitsNext]_splitVars PROVE SplitIInv'
    OBVIOUS
  <2>1. CASE GrowFile
    BY <2>1, SplitGrows
  <2>2. CASE UNCHANGED splitVars
    BY <2>2 DEF SplitIInv, splitVars
  <2> QED
    BY <2>1, <2>2 DEF SplitsNext
<1>2. SplitIInv => SplitsInv
  BY NothingLeaks, FoldsGrow, HoldoutUntouched, CalibratedAfter, AlertsApart DEF SplitsInv
<1> QED
  BY SplitStart, <1>1, <1>2, PTL DEF SplitsSpec
=============================================================================
