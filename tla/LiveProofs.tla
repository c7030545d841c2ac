----------------------------- MODULE LiveProofs -----------------------------
(***************************************************************************)
(* Proofs about what stays up around the pipeline: the live ingestion      *)
(* (WsIngest), the performance cache (PerfCache) and the health (Health)   *)
(* of the materializer, and the polling of the UI (Polling), for any       *)
(* topic, threads, windows and bounds.                                     *)
(***************************************************************************)
EXTENDS WsIngest, PerfCache, Health, Polling, WellFoundedInduction, FiniteSetTheorems, TLAPS

-----------------------------------------------------------------------------
(***************************************************************************)
(* WsIngest: the exit of the ingestion.                                    *)
(***************************************************************************)
IngPlaces == {"connecting", "streaming", "backoffInner", "backoffOuter", "left", "dead"}

IngTyped ==
  /\ task \in [Tasks -> IngPlaces]
  /\ fails \in [Tasks -> 0 .. MaxFailures + 1]
  /\ stopEvent \in BOOLEAN /\ circuitBroken \in BOOLEAN /\ leftOnMessage \in BOOLEAN
  /\ main \in {"waiting", "cancelling", "exited"} /\ exitCode \in {-1, 0, 1}
  /\ produced \in 0 .. MaxTicks
  /\ queued \in Nat /\ buffered \in Nat /\ mirrored \in Nat
  /\ unmirrored \in Nat /\ diskFaults \in Nat

\* A task that still runs has a failure left before its breaker trips.
FewFails == \A t \in Tasks : ~Ended(t) => fails[t] < MaxFailures

\* A tick that was produced is on disk, in the buffer, or was cut off.
TicksKept == mirrored + buffered + unmirrored = produced

\* A ticker that backs off or is gone leaves an empty buffer, unless the disk
\* failed or it returned on a message.
MirrorEmptied ==
  /\ task["ticker"] \in {"backoffInner", "backoffOuter"} => buffered = 0
  /\ task["ticker"] = "left" => buffered = 0 \/ leftOnMessage
  /\ task["ticker"] = "dead" => diskFaults > 0

\* The exit code is set with the exit, after every task has ended.
ExitLast ==
  /\ main # "exited" => exitCode = -1
  /\ main = "exited" => (\A t \in Tasks : Ended(t)) /\ exitCode # -1
  /\ main = "exited" => (exitCode = 1 <=> circuitBroken)

\* The inductive invariant of the ingester.
IngIInv ==
  IngTyped /\ FewFails /\ TicksKept /\ MirrorEmptied /\ ExitLast /\ ExitAccounts
-----------------------------------------------------------------------------
LEMMA IngInitInv == IngInit => IngIInv
<1> SUFFICES ASSUME IngInit PROVE IngIInv
  OBVIOUS
<1>1. IngTyped
  <2>1. task \in [Tasks -> IngPlaces] /\ fails \in [Tasks -> 0 .. MaxFailures + 1]
    BY IngestAssumption DEF IngInit, IngPlaces
  <2>2. /\ main \in {"waiting", "cancelling", "exited"}
        /\ exitCode \in {-1, 0, 1} /\ produced \in 0 .. MaxTicks
    BY IngestAssumption DEF IngInit
  <2> QED
    BY <2>1, <2>2 DEF IngInit, IngTyped
<1>2. FewFails /\ MirrorEmptied
  BY IngestAssumption DEF IngInit, FewFails, MirrorEmptied, Tasks
<1>3. TicksKept /\ ExitLast /\ ExitAccounts
  BY DEF IngInit, TicksKept, ExitLast, ExitAccounts
<1> QED
  BY <1>1, <1>2, <1>3 DEF IngIInv

\* What one round of exception handling does to the task and the mirror.
Handled(t, lines) ==
  /\ task' \in [Tasks -> IngPlaces] /\ fails' \in [Tasks -> 0 .. MaxFailures + 1]
  /\ stopEvent' \in BOOLEAN /\ circuitBroken' \in BOOLEAN
  /\ \A u \in Tasks \ {t} : task'[u] = task[u] /\ fails'[u] = fails[u]
  /\ ~Ended(t)' => fails'[t] < MaxFailures
  /\ buffered' \in Nat /\ mirrored' \in Nat /\ diskFaults' \in Nat
  /\ t = "ticker" => mirrored' + buffered' = mirrored + lines
  /\ t # "ticker" => UNCHANGED mirrorVars
  /\ t = "ticker" =>
       /\ task'[t] \in {"backoffInner", "backoffOuter", "left"} => buffered' = 0
       /\ task'[t] = "dead" => diskFaults' > 0
       /\ task'[t] \in {"backoffInner", "backoffOuter", "left", "dead"}

LEMMA FailureHandled ==
  ASSUME IngTyped, NEW t \in Tasks, NEW n \in Nat, n <= MaxFailures + 1,
         NEW lines \in Nat, NEW b \in {"backoffInner", "backoffOuter"},
         t # "ticker" => UNCHANGED mirrorVars,
         t = "ticker" => /\ mirrored' = mirrored + lines /\ buffered' = 0
                         /\ diskFaults' \in Nat,
         Failure(t, n, b)
  PROVE  Handled(t, lines)
<1>1. task' = [task EXCEPT ![t] = IF n >= MaxFailures THEN "left" ELSE b]
  BY DEF Failure
<1>2. fails' = [fails EXCEPT ![t] = n]
  BY DEF Failure
<1>3. stopEvent' \in BOOLEAN /\ circuitBroken' \in BOOLEAN
  BY DEF Failure, IngTyped
<1>4. ~Ended(t)' => n < MaxFailures
  BY <1>1, IngestAssumption DEF IngTyped, Ended
<1>5. /\ task' \in [Tasks -> IngPlaces] /\ task'[t] \in {"left", b}
      /\ fails' \in [Tasks -> 0 .. MaxFailures + 1] /\ fails'[t] = n
      /\ \A u \in Tasks \ {t} : task'[u] = task[u] /\ fails'[u] = fails[u]
  BY <1>1, <1>2, IngestAssumption DEF IngTyped, IngPlaces
<1>6. /\ buffered' \in Nat /\ mirrored' \in Nat /\ diskFaults' \in Nat
      /\ t = "ticker" => mirrored' + buffered' = mirrored + lines
  BY DEF IngTyped, mirrorVars
<1> QED
  BY <1>3, <1>4, <1>5, <1>6 DEF Handled

LEMMA DiesHandled ==
  ASSUME IngTyped, NEW t \in Tasks, NEW n \in Nat, n <= MaxFailures + 1,
         NEW lines \in Nat, NEW times \in Nat \ {0}, t = "ticker",
         FlushFails(lines, times), Dies(t, n)
  PROVE  Handled(t, lines)
BY IngestAssumption DEF IngTyped, FlushFails, Dies, Handled, Ended, mirrorVars, IngPlaces, Tasks

LEMMA ErrorHandled ==
  ASSUME IngTyped, NEW t \in Tasks, NEW n \in Nat, n <= MaxFailures + 1,
         NEW lines \in Nat, NEW before \in Nat,
         t # "ticker" => before = 0,
         UnexpectedError(t, n, lines, before)
  PROVE  Handled(t, lines)
<1>1. CASE before = 0 /\ FlushOf(t, lines) /\ Failure(t, n, "backoffOuter")
  <2>1. t = "ticker" => /\ mirrored' = mirrored + lines /\ buffered' = 0
                        /\ diskFaults' \in Nat
    BY <1>1 DEF FlushOf, Flushed, IngTyped
  <2>2. t # "ticker" => UNCHANGED mirrorVars
    BY <1>1 DEF FlushOf
  <2> QED
    BY <1>1, <2>1, <2>2, FailureHandled
<1>2. CASE /\ before > 0 /\ FlushedAfter(lines, before)
           /\ Failure(t, n, "backoffOuter")
  <2>1. t = "ticker"
    BY <1>2
  <2>2. mirrored' = mirrored + lines /\ buffered' = 0 /\ diskFaults' \in Nat
    BY <1>2 DEF FlushedAfter, IngTyped
  <2> QED
    BY <1>2, <2>1, <2>2, FailureHandled
<1>3. CASE t = "ticker" /\ FlushFails(lines, before + 1) /\ Dies(t, n)
  BY <1>3, DiesHandled
<1> QED
  BY <1>1, <1>2, <1>3 DEF UnexpectedError

\* A handled error keeps the invariant when the counts it does not touch agree.
LEMMA HandledKeeps ==
  ASSUME IngIInv, NEW t \in Tasks, NEW lines \in Nat, Handled(t, lines),
         main \in {"waiting", "cancelling"},
         UNCHANGED <<main, exitCode, leftOnMessage>>,
         queued' \in Nat, produced' \in 0 .. MaxTicks, unmirrored' \in Nat,
         t = "ticker" => mirrored + lines + unmirrored' = produced',
         t # "ticker" => UNCHANGED <<produced, unmirrored>>
  PROVE  IngIInv'
<1>1. IngTyped'
  BY DEF IngIInv, IngTyped, Handled, mirrorVars
<1>2. FewFails'
  BY DEF IngIInv, FewFails, Handled, Ended
<1>3. TicksKept'
  BY DEF IngIInv, TicksKept, Handled, mirrorVars, IngTyped
<1>4. MirrorEmptied'
  BY DEF IngIInv, MirrorEmptied, Handled, mirrorVars, IngTyped, Tasks
<1>5. ExitLast' /\ ExitAccounts'
  BY DEF IngIInv, ExitLast, ExitAccounts
<1> QED
  BY <1>1, <1>2, <1>3, <1>4, <1>5 DEF IngIInv

LEMMA TickKeeps == IngIInv /\ Tick => IngIInv'
<1> SUFFICES ASSUME IngIInv, Tick PROVE IngIInv'
  OBVIOUS
<1>0. /\ "ticker" \in Tasks /\ ~Ended("ticker") /\ fails["ticker"] \in Nat
      /\ fails["ticker"] + 1 \in Nat /\ fails["ticker"] + 1 <= MaxFailures + 1
      /\ buffered \in Nat /\ buffered + 1 \in Nat /\ main = "waiting"
      /\ produced' \in 0 .. MaxTicks /\ produced' = produced + 1 /\ queued' \in Nat
      /\ UNCHANGED <<main, exitCode, leftOnMessage>>
  BY IngestAssumption DEF Tick, Tasks, Ended, IngIInv, IngTyped, FewFails
<1>1. CASE /\ UnexpectedError("ticker", fails["ticker"] + 1, buffered, 0)
           /\ unmirrored' = unmirrored + 1
  <2>1. Handled("ticker", buffered)
    BY <1>0, <1>1, ErrorHandled DEF IngIInv
  <2>2. mirrored + buffered + unmirrored' = produced' /\ unmirrored' \in Nat
    BY <1>0, <1>1 DEF IngIInv, IngTyped, TicksKept
  <2> QED
    BY <1>0, <2>1, <2>2, HandledKeeps
<1>2. CASE /\ UNCHANGED unmirrored
           /\ UnexpectedError("ticker", fails["ticker"] + 1, buffered + 1, 1)
  <2>1. Handled("ticker", buffered + 1)
    BY <1>0, <1>2, ErrorHandled DEF IngIInv
  <2>2. mirrored + (buffered + 1) + unmirrored' = produced' /\ unmirrored' \in Nat
    BY <1>0, <1>2 DEF IngIInv, IngTyped, TicksKept
  <2> QED
    BY <1>0, <2>1, <2>2, HandledKeeps
<1>3. CASE /\ UNCHANGED <<unmirrored, taskVars, diskFaults>>
           /\ mirrored' + buffered' = mirrored + buffered + 1
           /\ mirrored' \in Nat /\ buffered' \in Nat
  <2>1. IngTyped'
    BY <1>0, <1>3 DEF IngIInv, IngTyped, taskVars
  <2>2. FewFails' /\ TicksKept'
    <3>1. FewFails'
      BY <1>3 DEF IngIInv, FewFails, taskVars, Ended
    <3>2. TicksKept'
      <4>1. mirrored \in Nat /\ buffered \in Nat /\ unmirrored \in Nat /\ produced \in Nat
        BY IngestAssumption DEF IngIInv, IngTyped
      <4>2. unmirrored' = unmirrored /\ unmirrored' \in Nat
        BY <1>3, <4>1
      <4>3. /\ mirrored' \in Nat /\ buffered' \in Nat
            /\ mirrored' + buffered' = mirrored + buffered + 1
        BY <1>3
      <4>4. mirrored + buffered + unmirrored = produced
        BY DEF IngIInv, TicksKept
      <4>6. produced' = produced + 1 /\ produced' \in Nat
        BY <1>0, <4>1
      <4> DEFINE m == mirrored b == buffered u == unmirrored p == produced
                 m1 == mirrored' b1 == buffered'
      <4> HIDE DEF m, b, u, p, m1, b1
      <4>5. /\ m \in Nat /\ b \in Nat /\ u \in Nat /\ p \in Nat
            /\ m1 \in Nat /\ b1 \in Nat
            /\ m + b + u = p /\ m1 + b1 = m + b + 1
        BY <4>1, <4>3, <4>4 DEF m, b, u, p, m1, b1
      <4>7. m1 + b1 + u = p + 1
        BY ONLY <4>5
      <4> QED
        BY <4>2, <4>6, <4>7 DEF TicksKept, m, b, u, p, m1, b1
    <3> QED
      BY <3>1, <3>2
  <2>3. MirrorEmptied'
    BY <1>0, <1>3 DEF IngIInv, MirrorEmptied, Tick, taskVars
  <2>4. ExitLast' /\ ExitAccounts'
    BY <1>0, <1>3 DEF IngIInv, ExitLast, ExitAccounts, taskVars
  <2> QED
    BY <2>1, <2>2, <2>3, <2>4 DEF IngIInv
<1>4. CASE UNCHANGED unmirrored /\ buffered' = buffered + 1 /\ UNCHANGED <<mirrored, diskFaults, taskVars>>
  BY <1>3, <1>4 DEF IngIInv, IngTyped
<1>5. CASE UNCHANGED unmirrored /\ Flushed(buffered + 1) /\ UNCHANGED taskVars
  BY <1>3, <1>5 DEF IngIInv, IngTyped, Flushed
<1> QED
  BY <1>1, <1>2, <1>4, <1>5 DEF Tick

LEMMA ErrorsKeep ==
  ASSUME IngIInv, NEW t \in Tasks, ConnectionClosed(t) \/ OtherError(t)
  PROVE  IngIInv'
<1>0. /\ ~Ended(t) /\ fails[t] \in Nat /\ fails[t] + 1 \in Nat /\ fails[t] + 2 \in Nat
      /\ fails[t] + 2 <= MaxFailures + 1 /\ fails[t] + 1 <= MaxFailures + 1
      /\ MirrorOf(t) \in Nat /\ buffered \in Nat /\ main = "waiting"
      /\ UNCHANGED <<main, exitCode, produced, queued, unmirrored, leftOnMessage>>
      /\ t = "ticker" => MirrorOf(t) = buffered
  BY IngestAssumption
     DEF ConnectionClosed, OtherError, Running, Ended, IngIInv, IngTyped, FewFails, MirrorOf
<1>1. Handled(t, MirrorOf(t))
  <2>1. CASE FlushOf(t, MirrorOf(t)) /\ Failure(t, fails[t] + 1, "backoffInner")
    <3>1. t = "ticker" => /\ mirrored' = mirrored + MirrorOf(t) /\ buffered' = 0
                          /\ diskFaults' \in Nat
      BY <2>1 DEF FlushOf, Flushed, IngIInv, IngTyped
    <3>2. t # "ticker" => UNCHANGED mirrorVars
      BY <2>1 DEF FlushOf
    <3> QED
      BY <1>0, <2>1, <3>1, <3>2, FailureHandled DEF IngIInv
  <2>2. CASE t = "ticker" /\ UnexpectedError(t, fails[t] + 2, buffered, 1)
    BY <1>0, <2>2, ErrorHandled DEF IngIInv
  <2>3. CASE UnexpectedError(t, fails[t] + 1, MirrorOf(t), 0)
    BY <1>0, <2>3, ErrorHandled DEF IngIInv
  <2> QED
    BY <2>1, <2>2, <2>3 DEF ConnectionClosed, OtherError
<1>2. t = "ticker" => mirrored + MirrorOf(t) + unmirrored' = produced'
  BY <1>0 DEF IngIInv, TicksKept
<1>3. queued' \in Nat /\ produced' \in 0 .. MaxTicks /\ unmirrored' \in Nat
  BY <1>0 DEF IngIInv, IngTyped
<1> QED
  BY <1>0, <1>1, <1>2, <1>3, HandledKeeps

LEMMA CancelledKeeps ==
  ASSUME IngIInv, NEW t \in Tasks, Cancelled(t)
  PROVE  IngIInv'
<1>0. /\ ~Ended(t) /\ fails[t] \in Nat /\ fails[t] < MaxFailures
      /\ MirrorOf(t) \in Nat /\ buffered \in Nat /\ main = "cancelling"
      /\ UNCHANGED <<main, exitCode, produced, queued, unmirrored, leftOnMessage>>
      /\ t = "ticker" => MirrorOf(t) = buffered
  BY IngestAssumption DEF Cancelled, IngIInv, IngTyped, FewFails, MirrorOf
<1>1. Handled(t, MirrorOf(t))
  <2>1. CASE /\ FlushOf(t, MirrorOf(t))
             /\ task' = [task EXCEPT ![t] = "left"]
             /\ UNCHANGED <<fails, stopEvent, circuitBroken>>
    BY <1>0, <2>1
       DEF FlushOf, Flushed, Handled, Ended, IngIInv, IngTyped, mirrorVars, IngPlaces, Tasks
  <2>2. CASE t = "ticker" /\ FlushFails(buffered, 1) /\ Dies(t, fails[t])
    BY <1>0, <2>2, DiesHandled, IngestAssumption DEF IngIInv
  <2> QED
    BY <2>1, <2>2 DEF Cancelled
<1>2. t = "ticker" => mirrored + MirrorOf(t) + unmirrored' = produced'
  BY <1>0 DEF IngIInv, TicksKept
<1>3. queued' \in Nat /\ produced' \in 0 .. MaxTicks /\ unmirrored' \in Nat
  BY <1>0 DEF IngIInv, IngTyped
<1> QED
  BY <1>0, <1>1, <1>2, <1>3, HandledKeeps

LEMMA TaskStepsKeep ==
  ASSUME IngIInv, NEW t \in Tasks,
         Connected(t) \/ ClosedOk(t) \/ MessageAfterStop(t) \/ Wake(t)
  PROVE  IngIInv'
<1>1. CASE Connected(t)
  BY <1>1, IngestAssumption
     DEF Connected, mirrorVars, IngIInv, IngTyped, FewFails, TicksKept, MirrorEmptied,
         ExitLast, ExitAccounts, Ended, IngPlaces, Tasks
<1>2. CASE ClosedOk(t)
  BY <1>2
     DEF ClosedOk, mirrorVars, IngIInv, IngTyped, FewFails, TicksKept, MirrorEmptied,
         ExitLast, ExitAccounts, Ended, IngPlaces, Tasks
<1>3. CASE MessageAfterStop(t)
  BY <1>3
     DEF MessageAfterStop, mirrorVars, IngIInv, IngTyped, FewFails, TicksKept,
         MirrorEmptied, ExitLast, ExitAccounts, Ended, IngPlaces, Tasks
<1>4. CASE Wake(t)
  BY <1>4
     DEF Wake, mirrorVars, IngIInv, IngTyped, FewFails, TicksKept, MirrorEmptied,
         ExitLast, ExitAccounts, Ended, IngPlaces, Tasks
<1> QED
  BY <1>1, <1>2, <1>3, <1>4

LEMMA MainKeeps ==
  ASSUME IngIInv, Signal \/ StopTasks \/ Exit \/ Delivered
  PROVE  IngIInv'
<1> USE DEF IngIInv, IngTyped, FewFails, TicksKept, MirrorEmptied, ExitLast,
            ExitAccounts, Ended, mirrorVars, taskVars
<1>1. CASE Signal
  BY <1>1 DEF Signal
<1>2. CASE StopTasks
  BY <1>2 DEF StopTasks
<1>3. CASE Exit
  <2>1. PICK remaining \in 0 .. queued :
          /\ queued' = remaining
          /\ circuitBroken' = ExitBroken(remaining)
          /\ exitCode' = IF ExitBroken(remaining) THEN 1 ELSE 0
    BY <1>3 DEF Exit
  <2>2. /\ queued' \in Nat /\ exitCode' \in {0, 1}
        /\ exitCode' = 1 <=> circuitBroken'
        /\ exitCode' = 0 => queued' = 0
    <3>1. CASE ExitBroken(remaining)
      <4>1. circuitBroken' /\ exitCode' = 1 /\ queued' \in Nat
        BY <2>1, <3>1
      <4> QED
        BY <4>1
    <3>2. CASE ~ExitBroken(remaining)
      <4>1. ~circuitBroken' /\ exitCode' = 0 /\ queued' \in Nat
        BY <2>1, <3>2
      <4>2. queued' = 0
        BY <2>1, <3>2 DEF ExitBroken
      <4> QED
        BY <4>1, <4>2
    <3> QED
      BY <3>1, <3>2
  <2>3. circuitBroken' \in BOOLEAN
    BY <2>1 DEF ExitBroken
  <2>4. "ticker" \in Tasks
    BY DEF Tasks
  <2>5. /\ main' = "exited" /\ \A t \in Tasks : Ended(t)
        /\ UNCHANGED <<task, fails, stopEvent, mirrorVars, produced, unmirrored,
                       leftOnMessage>>
    BY <1>3 DEF Exit
  <2>6. IngTyped'
    BY <2>2, <2>3, <2>5
  <2>8. FewFails' /\ TicksKept' /\ MirrorEmptied'
    BY <2>5
  <2>9. ExitLast'
    BY <2>2, <2>5
  <2>7. ExitAccounts'
    BY <2>2, <2>4, <2>5, IngestAssumption
  <2> QED
    BY <2>6, <2>7, <2>8, <2>9
<1>4. CASE Delivered
  BY <1>4 DEF Delivered
<1> QED
  BY <1>1, <1>2, <1>3, <1>4

LEMMA IngNextInv == IngIInv /\ [IngNext]_ingVars => IngIInv'
<1> SUFFICES ASSUME IngIInv, [IngNext]_ingVars PROVE IngIInv'
  OBVIOUS
<1>1. CASE UNCHANGED ingVars
  BY <1>1 DEF ingVars, taskVars, mirrorVars, IngIInv, IngTyped, FewFails, TicksKept,
              MirrorEmptied, ExitLast, ExitAccounts, Ended
<1> QED
  BY <1>1, TickKeeps, ErrorsKeep, CancelledKeeps, TaskStepsKeep, MainKeeps DEF IngNext

LEMMA IngIInvSays == IngIInv => IngestInv
BY IngestAssumption DEF IngIInv, IngTyped, TicksKept, IngestInv, IngTypeOK, IngPlaces

(***************************************************************************)
(* ws_ingest exits with code 0 only when every tick it produced has left   *)
(* the queue, and then every one is in the mirror on disk, but for a disk  *)
(* that failed, a return between the stop and the cancellation, and the    *)
(* backlog check: for any number of ticks, failures and signals.           *)
(***************************************************************************)
THEOREM IngestAccounts == IngSpec => []IngestInv
<1>1. IngSpec => []IngIInv
  BY IngInitInv, IngNextInv, PTL DEF IngSpec
<1> QED
  BY <1>1, IngIInvSays, PTL

-----------------------------------------------------------------------------
(***************************************************************************)
(* PerfCache: one computation at a time.                                   *)
(***************************************************************************)
Places == {"idle", "computing", "computed", "storing", "waiting"}
Handlers ==
  [at : Places, window : PerfWindows, event : Nat, read : Int, reply : Int,
   warm : BOOLEAN]

Typed ==
  /\ perfClock \in Nat /\ perfEvent \in Nat
  /\ perfCache \in [PerfWindows -> [at : Int, read : Int]]
  /\ inflight \in [PerfWindows -> Nat]
  /\ handler \in [PerfThreads -> Handlers]

AtWork(t) == handler[t].at \in {"computing", "computed"}

\* The slot of a window has the event of the one thread at work on it.
Slots ==
  /\ \A t \in PerfThreads :
       AtWork(t) => /\ handler[t].event # 0
                    /\ inflight[handler[t].window] = handler[t].event
  /\ \A t, u \in PerfThreads :
       AtWork(t) /\ AtWork(u) /\ handler[t].window = handler[u].window => t = u
  /\ \A w \in PerfWindows :
       inflight[w] # 0 =>
         \E t \in PerfThreads : AtWork(t) /\ handler[t].window = w

\* Read times are moments; what a thread has read or the cache holds is one.
Moments ==
  /\ \A w \in PerfWindows : IsCached(w) => perfCache[w].read >= 0
  /\ \A t \in PerfThreads :
       handler[t].at \in {"computed", "storing"} => handler[t].read >= 0

\* A thread that found a payload when it began to wait still finds one.
StillCached ==
  \A t \in PerfThreads :
    handler[t].at = "waiting" /\ handler[t].warm => IsCached(handler[t].window)

\* The inductive invariant of the cache.
PerfIInv == Typed /\ Slots /\ Moments /\ StillCached /\ RefusalExplained

-----------------------------------------------------------------------------
LEMMA PerfInitInv == PerfInit => PerfIInv
<1> SUFFICES ASSUME PerfInit PROVE PerfIInv
  OBVIOUS
<1>1. PICK w \in PerfWindows :
        handler = [t \in PerfThreads |-> IdleHandler(w, NoReply, FALSE)]
  BY DEF PerfInit
<1>2. IdleHandler(w, NoReply, FALSE) \in Handlers
  BY DEF IdleHandler, Handlers, Places, NoReply
<1>3. \A t \in PerfThreads :
        handler[t].at = "idle" /\ handler[t].reply # Refused
  BY <1>1 DEF IdleHandler, NoReply, Refused
<1>4. Typed
  <2>1. NothingCached \in [at : Int, read : Int]
    BY DEF NothingCached
  <2>2. perfCache \in [PerfWindows -> [at : Int, read : Int]]
    BY <2>1 DEF PerfInit
  <2>3. handler \in [PerfThreads -> Handlers]
    BY <1>1, <1>2
  <2> QED
    BY <2>2, <2>3 DEF Typed, PerfInit
<1>5. Slots /\ Moments /\ StillCached /\ RefusalExplained
  BY <1>3 DEF PerfInit, Slots, AtWork, Moments, StillCached, RefusalExplained,
              IsCached
<1> QED
  BY <1>4, <1>5 DEF PerfIInv

\* What a step of one thread that leaves the tables alone must respect.
LEMMA HandlerStep ==
  ASSUME PerfIInv, NEW t \in PerfThreads, NEW h \in Handlers,
         handler' = [handler EXCEPT ![t] = h],
         UNCHANGED <<perfClock, perfCache, inflight, perfEvent, perfFaults>>,
         h.at \in {"computing", "computed"} <=> AtWork(t),
         AtWork(t) => h.window = handler[t].window /\ h.event = handler[t].event,
         h.at \in {"computed", "storing"} => h.read >= 0,
         h.at = "waiting" /\ h.warm => IsCached(h.window),
         h.at = "idle" /\ h.reply = Refused /\ h.window \notin perfFaults => ~h.warm
  PROVE  PerfIInv'
<1>1. /\ handler' \in [PerfThreads -> Handlers] /\ handler'[t] = h
      /\ \A u \in PerfThreads \ {t} : handler'[u] = handler[u]
  BY DEF PerfIInv, Typed
<1>2. Typed'
  BY <1>1 DEF PerfIInv, Typed
<1>3. Slots'
  BY <1>1 DEF PerfIInv, Slots, AtWork
<1>4. Moments' /\ StillCached'
  BY <1>1 DEF PerfIInv, Moments, StillCached, IsCached
<1>5. RefusalExplained'
  BY <1>1 DEF PerfIInv, RefusalExplained
<1> QED
  BY <1>2, <1>3, <1>4, <1>5 DEF PerfIInv

LEMMA ReplyTyped ==
  ASSUME Typed, NEW t \in PerfThreads, NEW w \in PerfWindows, NEW r \in Int
  PROVE  /\ IdleHandler(w, r, handler[t].warm) \in Handlers
         /\ Reply(t, w, r) =>
              handler' = [handler EXCEPT ![t] = IdleHandler(w, r, handler[t].warm)]
  BY DEF Typed, Handlers, Places, IdleHandler, Reply

LEMMA HitPreserves ==
  ASSUME PerfIInv, NEW t \in PerfThreads, NEW w \in PerfWindows, Hit(t, w)
  PROVE  PerfIInv'
<1> DEFINE h == IdleHandler(w, perfCache[w].read, handler[t].warm)
<1>1. perfCache[w].read \in Int /\ perfCache[w].read >= 0
  BY DEF Hit, IsFresh, PerfIInv, Typed, Moments
<1>2. h \in Handlers /\ handler' = [handler EXCEPT ![t] = h]
  BY <1>1, ReplyTyped DEF Hit, PerfIInv
<1>3. h.at = "idle" /\ h.reply # Refused /\ ~AtWork(t)
  BY <1>1 DEF IdleHandler, Refused, Hit, AtWork
<1> HIDE DEF h
<1> QED
  BY <1>2, <1>3, HandlerStep DEF Hit

LEMMA OwnerPreserves ==
  ASSUME PerfIInv, NEW t \in PerfThreads, NEW w \in PerfWindows,
         BecomeOwner(t, w)
  PROVE  PerfIInv'
<1> DEFINE e == perfEvent + 1
<1>1. /\ inflight' = [inflight EXCEPT ![w] = e] /\ inflight[w] = 0
      /\ e \in Nat /\ e # 0 /\ perfEvent' = e
      /\ UNCHANGED <<perfClock, perfCache, perfFaults>>
  BY DEF BecomeOwner, PerfIInv, Typed
<1>2. /\ handler' \in [PerfThreads -> Handlers]
      /\ handler'[t].at = "computing" /\ handler'[t].window = w
      /\ handler'[t].event = e
      /\ \A u \in PerfThreads \ {t} : handler'[u] = handler[u]
      /\ handler[t].at = "idle"
  <2> DEFINE h == [handler[t] EXCEPT !.at = "computing", !.window = w,
                                     !.event = e, !.warm = IsCached(w)]
  <2>1. handler[t] \in Handlers /\ IsCached(w) \in BOOLEAN
    BY DEF PerfIInv, Typed, IsCached
  <2>2. h \in Handlers
    BY <1>1, <2>1 DEF Handlers, Places
  <2>3. h.at = "computing" /\ h.window = w /\ h.event = e
    BY <2>1 DEF Handlers
  <2>4. handler' = [handler EXCEPT ![t] = h] /\ handler[t].at = "idle"
    BY DEF BecomeOwner
  <2> HIDE DEF h
  <2> QED
    BY <2>2, <2>3, <2>4 DEF PerfIInv, Typed
<1>3. Typed'
  BY <1>1, <1>2 DEF PerfIInv, Typed
<1>4. Slots'
  <2>1. \A u \in PerfThreads : AtWork(u) => handler[u].window # w
    BY <1>1 DEF PerfIInv, Slots
  <2>2. /\ inflight'[w] = e /\ \A v \in PerfWindows \ {w} : inflight'[v] = inflight[v]
        /\ \A u \in PerfThreads : handler[u].window \in PerfWindows
    BY <1>1 DEF PerfIInv, Typed, Handlers
  <2>3. /\ \A u \in PerfThreads : AtWork(u)' <=> AtWork(u) \/ u = t
        /\ ~AtWork(t)
    BY <1>2 DEF AtWork
  <2>4. \A u \in PerfThreads :
          AtWork(u)' => /\ handler'[u].event # 0
                        /\ inflight'[handler'[u].window] = handler'[u].event
    BY <1>1, <1>2, <2>1, <2>2, <2>3 DEF PerfIInv, Slots
  <2>5. \A u, v \in PerfThreads :
          AtWork(u)' /\ AtWork(v)' /\ handler'[u].window = handler'[v].window
            => u = v
    BY <1>2, <2>1, <2>3 DEF PerfIInv, Slots
  <2>6. ASSUME NEW v \in PerfWindows, inflight'[v] # 0
        PROVE  \E u \in PerfThreads : AtWork(u)' /\ handler'[u].window = v
    <3>1. CASE v = w
      BY <1>2, <2>3, <3>1
    <3>2. CASE v # w
      <4>1. PICK u \in PerfThreads : AtWork(u) /\ handler[u].window = v
        BY <2>2, <2>6, <3>2 DEF PerfIInv, Slots
      <4> QED
        BY <1>2, <2>3, <4>1
    <3> QED
      BY <3>1, <3>2
  <2> QED
    BY <2>4, <2>5, <2>6 DEF Slots, AtWork
<1>5. Moments' /\ StillCached'
  BY <1>1, <1>2 DEF PerfIInv, Moments, StillCached, IsCached
<1>6. RefusalExplained'
  BY <1>1, <1>2 DEF PerfIInv, RefusalExplained
<1> QED
  BY <1>3, <1>4, <1>5, <1>6 DEF PerfIInv

LEMMA WaiterPreserves ==
  ASSUME PerfIInv, NEW t \in PerfThreads, NEW w \in PerfWindows,
         BecomeWaiter(t, w)
  PROVE  PerfIInv'
<1> DEFINE h == [handler[t] EXCEPT !.at = "waiting", !.window = w,
                                   !.event = inflight[w], !.warm = IsCached(w)]
<1>1. handler[t] \in Handlers /\ inflight[w] \in Nat /\ IsCached(w) \in BOOLEAN
  BY DEF PerfIInv, Typed, IsCached
<1>2. /\ h \in Handlers /\ h.at = "waiting" /\ h.window = w
      /\ h.warm = IsCached(w)
  BY <1>1 DEF Handlers, Places
<1>3. handler' = [handler EXCEPT ![t] = h] /\ ~AtWork(t)
  BY DEF BecomeWaiter, AtWork
<1> HIDE DEF h
<1> QED
  BY <1>2, <1>3, HandlerStep DEF BecomeWaiter

LEMMA ComputePreserves ==
  ASSUME PerfIInv, NEW t \in PerfThreads, Compute(t)
  PROVE  PerfIInv'
<1> DEFINE h == [handler[t] EXCEPT !.at = "computed", !.read = perfClock]
<1>1. handler[t] \in Handlers /\ perfClock \in Int /\ perfClock >= 0
  BY DEF PerfIInv, Typed
<1>2. /\ h \in Handlers /\ h.at = "computed" /\ h.read >= 0
      /\ h.window = handler[t].window /\ h.event = handler[t].event
  <2>1. h \in Handlers
    BY <1>1 DEF Handlers, Places
  <2>2. h.at = "computed" /\ h.read = perfClock
    BY <1>1 DEF Handlers
  <2>3. h.window = handler[t].window /\ h.event = handler[t].event
    BY <1>1 DEF Handlers
  <2> QED
    BY <1>1, <2>1, <2>2, <2>3
<1>3. handler' = [handler EXCEPT ![t] = h] /\ AtWork(t)
  BY DEF Compute, AtWork
<1> HIDE DEF h
<1> QED
  BY <1>2, <1>3, HandlerStep DEF Compute

\* A thread that stops working on a window frees its slot.
LEMMA LeavingFrees ==
  ASSUME PerfIInv, NEW t \in PerfThreads, AtWork(t),
         inflight' = [inflight EXCEPT ![handler[t].window] = 0],
         \A u \in PerfThreads \ {t} : handler'[u] = handler[u],
         handler'[t].at \notin {"computing", "computed"}
  PROVE  Slots'
<1>1. /\ inflight'[handler[t].window] = 0
      /\ \A v \in PerfWindows \ {handler[t].window} : inflight'[v] = inflight[v]
      /\ \A u \in PerfThreads : handler[u].window \in PerfWindows
  BY DEF PerfIInv, Typed, Handlers
<1>2. \A u \in PerfThreads : AtWork(u)' <=> AtWork(u) /\ u # t
  BY DEF AtWork
<1>3. \A u \in PerfThreads \ {t} :
        AtWork(u) => handler[u].window # handler[t].window
  BY DEF PerfIInv, Slots
<1> QED
  BY <1>1, <1>2, <1>3 DEF PerfIInv, Slots

LEMMA ReleasePreserves ==
  ASSUME PerfIInv, NEW t \in PerfThreads, Release(t)
  PROVE  PerfIInv'
<1>1. /\ inflight' = [inflight EXCEPT ![handler[t].window] = 0]
      /\ handler' = [handler EXCEPT ![t].at = "storing"]
      /\ UNCHANGED <<perfClock, perfCache, perfEvent, perfFaults>>
      /\ AtWork(t) /\ handler[t].at = "computed"
  BY DEF Release, FreeSlot, AtWork
<1>2. /\ handler' \in [PerfThreads -> Handlers]
      /\ handler'[t].at = "storing" /\ handler'[t].read = handler[t].read
      /\ \A u \in PerfThreads \ {t} : handler'[u] = handler[u]
  BY <1>1 DEF PerfIInv, Typed, Handlers, Places
<1>3. Typed'
  BY <1>1, <1>2 DEF PerfIInv, Typed
<1>4. Slots'
  BY <1>1, <1>2, LeavingFrees
<1>5. Moments' /\ StillCached' /\ RefusalExplained'
  BY <1>1, <1>2 DEF PerfIInv, Moments, StillCached, RefusalExplained, IsCached
<1> QED
  BY <1>3, <1>4, <1>5 DEF PerfIInv

LEMMA FailurePreserves ==
  ASSUME PerfIInv, NEW t \in PerfThreads, ComputeFails(t)
  PROVE  PerfIInv'
<1> DEFINE w == handler[t].window
<1>1. /\ inflight' = [inflight EXCEPT ![w] = 0] /\ perfFaults' = perfFaults \cup {w}
      /\ UNCHANGED <<perfClock, perfCache, perfEvent>>
      /\ AtWork(t) /\ w \in PerfWindows /\ Refused \in Int
  BY DEF ComputeFails, FreeSlot, AtWork, PerfIInv, Typed, Handlers, Refused
<1>2. /\ handler' = [handler EXCEPT ![t] = IdleHandler(w, Refused, handler[t].warm)]
      /\ IdleHandler(w, Refused, handler[t].warm) \in Handlers
  BY <1>1, ReplyTyped DEF ComputeFails, PerfIInv
<1>3. /\ handler' \in [PerfThreads -> Handlers]
      /\ handler'[t].at = "idle" /\ handler'[t].window = w
      /\ \A u \in PerfThreads \ {t} : handler'[u] = handler[u]
  BY <1>2 DEF PerfIInv, Typed, IdleHandler
<1>4. Typed'
  BY <1>1, <1>3 DEF PerfIInv, Typed
<1>5. Slots'
  BY <1>1, <1>3, LeavingFrees
<1>6. Moments' /\ StillCached' /\ RefusalExplained'
  BY <1>1, <1>3 DEF PerfIInv, Moments, StillCached, RefusalExplained, IsCached
<1> QED
  BY <1>4, <1>5, <1>6 DEF PerfIInv

LEMMA StorePreserves ==
  ASSUME PerfIInv, NEW t \in PerfThreads, StorePayload(t)
  PROVE  PerfIInv'
<1>0. PICK w \in PerfWindows, r \in Int :
        w = handler[t].window /\ r = handler[t].read
  BY DEF PerfIInv, Typed, Handlers
<1>1. /\ perfCache' = [perfCache EXCEPT ![w] = [at |-> perfClock, read |-> r]]
      /\ UNCHANGED <<perfClock, inflight, perfEvent, perfFaults>>
      /\ ~AtWork(t) /\ r >= 0 /\ perfClock \in Nat
  BY <1>0 DEF StorePayload, AtWork, PerfIInv, Typed, Handlers, Moments
<1>2. /\ handler' = [handler EXCEPT ![t] = IdleHandler(w, r, handler[t].warm)]
      /\ IdleHandler(w, r, handler[t].warm) \in Handlers
  BY <1>0, <1>1, ReplyTyped DEF StorePayload, PerfIInv
<1>3. /\ handler' \in [PerfThreads -> Handlers]
      /\ handler'[t].at = "idle" /\ handler'[t].reply = r
      /\ \A u \in PerfThreads \ {t} : handler'[u] = handler[u]
  BY <1>2 DEF PerfIInv, Typed, IdleHandler
<1>4. /\ perfCache' \in [PerfWindows -> [at : Int, read : Int]]
      /\ perfCache'[w].read = r /\ IsCached(w)'
      /\ \A v \in PerfWindows \ {w} : perfCache'[v] = perfCache[v]
  <2> DEFINE p == [at |-> perfClock, read |-> r]
  <2>1. p \in [at : Int, read : Int] /\ p.at # -1 /\ p.read = r
    BY <1>1
  <2>2. p # NothingCached
    BY <2>1 DEF NothingCached
  <2>3. perfCache' = [perfCache EXCEPT ![w] = p]
    BY <1>1
  <2> HIDE DEF p
  <2>4. /\ perfCache' \in [PerfWindows -> [at : Int, read : Int]]
        /\ perfCache'[w] = p
        /\ \A v \in PerfWindows \ {w} : perfCache'[v] = perfCache[v]
    BY <1>1, <2>1, <2>3 DEF PerfIInv, Typed
  <2>5. IsCached(w)'
    BY <2>2, <2>4 DEF IsCached, NothingCached
  <2> QED
    BY <2>1, <2>4, <2>5
<1>5. Typed' /\ Slots'
  <2>1. Typed'
    BY <1>1, <1>3, <1>4 DEF PerfIInv, Typed
  <2>2. /\ \A u \in PerfThreads : AtWork(u)' <=> AtWork(u)
        /\ \A u \in PerfThreads : AtWork(u) => handler'[u] = handler[u]
    BY <1>1, <1>3 DEF AtWork
  <2>3. Slots'
    BY <1>1, <2>2 DEF PerfIInv, Slots
  <2> QED
    BY <2>1, <2>3
<1>6. \A v \in PerfWindows : IsCached(v) => IsCached(v)'
  BY <1>1, <1>4 DEF IsCached, NothingCached
<1>7. Moments'
  BY <1>1, <1>3, <1>4 DEF PerfIInv, Moments, IsCached
<1>8. StillCached'
  <2>1. \A u \in PerfThreads : handler[u].window \in PerfWindows
    BY DEF PerfIInv, Typed, Handlers
  <2> QED
    BY <1>3, <1>6, <2>1 DEF PerfIInv, StillCached
<1>9. RefusalExplained'
  BY <1>1, <1>3 DEF PerfIInv, RefusalExplained, Refused
<1> QED
  BY <1>5, <1>7, <1>8, <1>9 DEF PerfIInv

LEMMA ReturnPreserves ==
  ASSUME PerfIInv, NEW t \in PerfThreads, WaiterReturns(t)
  PROVE  PerfIInv'
<1> DEFINE w == handler[t].window
           r == WaiterAnswer(w)
           h == IdleHandler(w, r, handler[t].warm)
<1>1. w \in PerfWindows /\ r \in Int /\ (r = Refused => ~IsCached(w))
  BY DEF PerfIInv, Typed, Handlers, Moments, WaiterAnswer, Refused
<1>2. h \in Handlers /\ handler' = [handler EXCEPT ![t] = h]
  BY <1>1, ReplyTyped DEF WaiterReturns, PerfIInv
<1>3. /\ h.at = "idle" /\ h.reply = r /\ h.warm = handler[t].warm /\ ~AtWork(t)
      /\ handler[t].warm => IsCached(w)
  BY DEF IdleHandler, WaiterReturns, AtWork, PerfIInv, StillCached
<1> HIDE DEF h, r
<1> QED
  BY <1>1, <1>2, <1>3, HandlerStep DEF WaiterReturns

LEMMA TimeoutPreserves ==
  ASSUME PerfIInv, NEW t \in PerfThreads, WaitTimesOut(t)
  PROVE  PerfIInv'
<1> DEFINE w == handler[t].window
<1>1. /\ perfFaults' = perfFaults \cup {w} /\ ~AtWork(t)
      /\ UNCHANGED <<perfClock, perfCache, inflight, perfEvent>>
      /\ w \in PerfWindows /\ Refused \in Int
  BY DEF WaitTimesOut, AtWork, PerfIInv, Typed, Handlers, Refused
<1>2. /\ handler' = [handler EXCEPT ![t] = IdleHandler(w, Refused, handler[t].warm)]
      /\ IdleHandler(w, Refused, handler[t].warm) \in Handlers
  BY <1>1, ReplyTyped DEF WaitTimesOut, PerfIInv
<1>3. /\ handler' \in [PerfThreads -> Handlers]
      /\ handler'[t].at = "idle" /\ handler'[t].window = w
      /\ \A u \in PerfThreads \ {t} : handler'[u] = handler[u]
  BY <1>2 DEF PerfIInv, Typed, IdleHandler
<1>4. Typed' /\ Slots'
  BY <1>1, <1>3 DEF PerfIInv, Typed, Slots, AtWork
<1>5. Moments' /\ StillCached' /\ RefusalExplained'
  BY <1>1, <1>3 DEF PerfIInv, Moments, StillCached, RefusalExplained, IsCached
<1> QED
  BY <1>4, <1>5 DEF PerfIInv

\* The clock moves on, or nothing does.
LEMMA RestPreserves ==
  ASSUME PerfIInv, PerfTick \/ UNCHANGED perfVars
  PROVE  PerfIInv'
<1>1. /\ UNCHANGED <<perfCache, inflight, perfEvent, handler, perfFaults>>
      /\ perfClock' \in Nat
  BY DEF PerfTick, perfVars, PerfIInv, Typed
<1> QED
  BY <1>1 DEF PerfIInv, Typed, Slots, AtWork, Moments, StillCached,
              RefusalExplained, IsCached

LEMMA PerfNextInv == PerfIInv /\ [PerfNext]_perfVars => PerfIInv'
<1> SUFFICES ASSUME PerfIInv, [PerfNext]_perfVars PROVE PerfIInv'
  OBVIOUS
<1>1. CASE PerfTick \/ UNCHANGED perfVars
  BY <1>1, RestPreserves
<1>2. ASSUME NEW t \in PerfThreads, NEW w \in PerfWindows,
             Hit(t, w) \/ BecomeOwner(t, w) \/ BecomeWaiter(t, w)
      PROVE  PerfIInv'
  BY <1>2, HitPreserves, OwnerPreserves, WaiterPreserves
<1>3. ASSUME NEW t \in PerfThreads, Compute(t) \/ Release(t) \/ ComputeFails(t)
      PROVE  PerfIInv'
  BY <1>3, ComputePreserves, ReleasePreserves, FailurePreserves
<1>4. ASSUME NEW t \in PerfThreads,
             StorePayload(t) \/ WaiterReturns(t) \/ WaitTimesOut(t)
      PROVE  PerfIInv'
  BY <1>4, StorePreserves, ReturnPreserves, TimeoutPreserves
<1> QED
  BY <1>1, <1>2, <1>3, <1>4 DEF PerfNext

LEMMA OneComputes == PerfIInv => SingleFlight
<1> SUFFICES ASSUME PerfIInv, NEW w \in PerfWindows
             PROVE  /\ Cardinality(Computing(w)) <= 1
                    /\ inflight[w] = 0 <=> Computing(w) = {}
                    /\ \A t \in Computing(w) : inflight[w] = handler[t].event
  BY DEF SingleFlight
<1>1. /\ \A t \in Computing(w) :
            /\ t \in PerfThreads /\ AtWork(t) /\ handler[t].window = w
      /\ \A t \in PerfThreads : AtWork(t) /\ handler[t].window = w => t \in Computing(w)
  BY DEF Computing, AtWork
<1>2. /\ inflight[w] = 0 <=> Computing(w) = {}
      /\ \A t \in Computing(w) : inflight[w] = handler[t].event
  BY <1>1 DEF PerfIInv, Slots
<1>3. CASE Computing(w) = {}
  BY <1>2, <1>3, FS_EmptySet
<1>4. CASE Computing(w) # {}
  <2>1. PICK t \in Computing(w) : TRUE
    BY <1>4
  <2>2. Computing(w) = {t}
    BY <1>1, <2>1 DEF PerfIInv, Slots
  <2>3. Cardinality({t}) = 1
    BY FS_Singleton
  <2> QED
    BY <1>2, <2>2, <2>3
<1> QED
  BY <1>3, <1>4

-----------------------------------------------------------------------------
LEMMA PerfAlways == PerfSpec => []PerfIInv
<1>1. PerfSpec => PerfInit /\ [][PerfNext]_perfVars
  BY DEF PerfSpec
<1> QED
  BY <1>1, PerfInitInv, PerfNextInv, PTL

(* One handler thread at a time computes the payload of a window, and the  *)
(* slot in _perf_inflight is taken exactly while it does, whatever fails.  *)
THEOREM OneComputation == PerfSpec => []SingleFlight
  BY PerfAlways, OneComputes, PTL

(* While nothing fails and no wait runs out, a 503 only goes to a request  *)
(* that came before the first payload of its window was stored.            *)
THEOREM RefusalsAlwaysExplained == PerfSpec => []RefusalExplained
<1>1. PerfIInv => RefusalExplained
  BY DEF PerfIInv
<1> QED
  BY <1>1, PerfAlways, PTL

-----------------------------------------------------------------------------
(***************************************************************************)
(* Health: what the reports mean.                                          *)
(***************************************************************************)
\* What a batch needs to leave the table without holes: the table is the
\* beginning of the topic, and all that was polled is in it or in the batch.
Positions == 1 .. Len(scored)
Contiguous ==
  /\ batch \subseteq 1 .. offset
  /\ 1 .. offset \subseteq table \cup batch
  /\ \A i \in table : 1 .. i \subseteq table

\* Events are scored in the order of the topic, none in the future.
InOrderOfScoring ==
  /\ scored \in Seq(0 .. healthClock)
  /\ \A i, j \in Positions : i <= j => scored[i] <= scored[j]

\* What last_event_ts says: rows scored before it are in the table.
Witnessed ==
  \/ lastEvent = Never
  \/ \A i \in Positions : scored[i] < lastEvent => i \in table

Stamps ==
  /\ healthClock \in Nat
  /\ lastEvent \in Never .. lastWrite
  /\ lastWrite \in Never .. healthClock

\* The inductive invariant of the health reports.
HealthIInv ==
  /\ HealthTypeOK /\ Contiguous /\ InOrderOfScoring /\ Witnessed /\ Stamps

-----------------------------------------------------------------------------
\* A non-empty set of positions has a last one.
LEMMA LastPosition ==
  ASSUME NEW n \in Nat, NEW S \in SUBSET (1 .. n), S # {}
  PROVE  \E m \in S : \A k \in S : k <= m
<1> DEFINE B == {b \in Nat : \A k \in S : k <= b}
<1>1. B \in SUBSET Nat /\ n \in B
  OBVIOUS
<1>2. PICK b \in B : \A c \in B : <<c, b>> \notin OpToRel(<, Nat)
  BY <1>1, NatLessThanWellFounded, WFMin
<1>3. b \in S
  <2> SUFFICES ASSUME b \notin S PROVE FALSE
    OBVIOUS
  <2>1. PICK s \in S : TRUE
    OBVIOUS
  <2>2. b - 1 \in B
    BY <2>1
  <2>3. <<b - 1, b>> \in OpToRel(<, Nat)
    <3>1. <<b - 1, b>> \in Nat \X Nat /\ <<b - 1, b>>[1] < <<b - 1, b>>[2]
      BY <2>2
    <3> QED
      BY <3>1 DEF OpToRel
  <2> QED
    BY <1>2, <2>2, <2>3
<1> QED
  BY <1>3

LEMMA MaxIs ==
  ASSUME NEW S \in SUBSET Int, NEW x \in S, \A y \in S : x >= y
  PROVE  Max(S) = x
<1>1. \A z \in S : (\A y \in S : z >= y) => z = x
  <2> SUFFICES ASSUME NEW z \in S, \A y \in S : z >= y PROVE z = x
    OBVIOUS
  <2>1. z >= x /\ x >= z /\ x \in Int /\ z \in Int
    OBVIOUS
  <2> QED
    BY <2>1
<1> QED
  BY <1>1 DEF Max

\* An event is not scored in the future.
LEMMA ScoredBefore ==
  ASSUME InOrderOfScoring
  PROVE  \A i \in 1 .. Len(scored) : scored[i] \in 0 .. healthClock
<1>1. ASSUME NEW T, NEW s \in Seq(T), NEW i \in 1 .. Len(s)
      PROVE  s[i] \in T
  OBVIOUS
<1> QED
  BY <1>1 DEF InOrderOfScoring

\* Without holes, the newest event of a batch that goes in is the newest of
\* the table, and what was scored before it is in the table too.
LEMMA NewestIsLast ==
  ASSUME HealthIInv, batch # {}
  PROVE  LET rows == table \cup batch
         IN  /\ \A i \in rows : 1 .. i \subseteq rows
             /\ NewestScored(rows) \in 0 .. healthClock
             /\ \A i \in Positions :
                  scored[i] < NewestScored(rows) => i \in rows
<1> DEFINE rows == table \cup batch
           N == {scored[i] : i \in rows}
<1>1. rows \in SUBSET Positions /\ Len(scored) \in Nat /\ rows # {}
  BY DEF HealthIInv, HealthTypeOK, Positions, InOrderOfScoring
<1>2. \A i \in rows : 1 .. i \subseteq rows
  BY <1>1 DEF HealthIInv, HealthTypeOK, Contiguous
<1>3. PICK m \in rows : \A k \in rows : k <= m
  BY <1>1, LastPosition DEF Positions
<1>4. /\ scored[m] \in N /\ \A x \in N : scored[m] >= x
      /\ \A i \in Positions : scored[i] \in 0 .. healthClock
  <2>1. scored[m] \in N
    OBVIOUS
  <2>2. \A k \in rows : scored[k] <= scored[m]
    BY <1>1, <1>3 DEF HealthIInv, InOrderOfScoring
  <2>3. \A i \in Positions : scored[i] \in 0 .. healthClock
    BY ScoredBefore DEF HealthIInv, Positions
  <2>4. \A x \in N : scored[m] >= x
    BY <1>1, <2>2, <2>3 DEF HealthIInv, Stamps
  <2> QED
    BY <2>1, <2>3, <2>4
<1>5. N \in SUBSET Int
  BY <1>1, <1>4
<1>6. Max(N) = scored[m]
  BY <1>4, <1>5, MaxIs
<1>7. \A i \in Positions : scored[i] < scored[m] => i \in rows
  <2> SUFFICES ASSUME NEW i \in Positions, scored[i] < scored[m]
               PROVE  i \in rows
    OBVIOUS
  <2>1. i <= m
    BY <1>1, <1>4 DEF HealthIInv, InOrderOfScoring, Positions
  <2> QED
    BY <1>1, <1>2, <2>1 DEF Positions
<1> QED
  BY <1>1, <1>2, <1>4, <1>6, <1>7 DEF NewestScored
-----------------------------------------------------------------------------
LEMMA HealthInitInv == HealthInit => HealthIInv
<1> SUFFICES ASSUME HealthInit PROVE HealthIInv
  OBVIOUS
<1>1. HealthTypeOK /\ Stamps /\ Witnessed /\ Contiguous
  BY DEF HealthInit, HealthTypeOK, Stamps, Witnessed, Contiguous, Never
<1>2. InOrderOfScoring
  BY DEF HealthInit, InOrderOfScoring, Positions
<1> QED
  BY <1>1, <1>2 DEF HealthIInv

\* A step that leaves the topic, the table and the timestamps alone.
LEMMA QuietStep ==
  ASSUME HealthIInv,
         UNCHANGED <<healthClock, scored, table, lastEvent, lastWrite>>,
         offset' \in 0 .. Len(scored), batch' \subseteq 1 .. offset',
         1 .. offset' \subseteq table \cup batch'
  PROVE  HealthIInv'
<1>1. HealthTypeOK'
  BY DEF HealthIInv, HealthTypeOK, InOrderOfScoring
<1>2. Contiguous' /\ InOrderOfScoring' /\ Witnessed' /\ Stamps'
  BY DEF HealthIInv, Contiguous, InOrderOfScoring, Witnessed, Stamps, Positions
<1> QED
  BY <1>1, <1>2 DEF HealthIInv

\* A step that does not concern the batch and the table either.
LEMMA OtherStep ==
  ASSUME HealthIInv,
         UNCHANGED <<healthClock, scored, offset, batch, table, lastEvent,
                     lastWrite>>
  PROVE  HealthIInv'
<1>1. /\ offset' \in 0 .. Len(scored) /\ batch' \subseteq 1 .. offset'
      /\ 1 .. offset' \subseteq table \cup batch'
  BY DEF HealthIInv, HealthTypeOK, Contiguous
<1> QED
  BY <1>1, QuietStep

LEMMA ScorePreserves == HealthIInv /\ Score => HealthIInv'
<1> SUFFICES ASSUME HealthIInv, Score PROVE HealthIInv'
  OBVIOUS
<1> USE DEF HealthIInv
<1>1. /\ Len(scored) \in Nat /\ Len(scored') = Len(scored) + 1
      /\ \A i \in 1 .. Len(scored) : scored'[i] = scored[i]
      /\ scored'[Len(scored) + 1] = healthClock
      /\ scored' \in Seq(0 .. healthClock)
  BY DEF Score, InOrderOfScoring, Stamps
<1>2. /\ UNCHANGED <<healthClock, offset, batch, table, lastEvent, lastWrite>>
  BY DEF Score, stateVars
<1>3. HealthTypeOK' /\ Contiguous' /\ Stamps'
  BY <1>1, <1>2 DEF HealthTypeOK, Contiguous, Stamps
<1>4. \A i \in 1 .. Len(scored) : scored[i] \in 0 .. healthClock
  BY ScoredBefore
<1>5. InOrderOfScoring'
  BY <1>1, <1>2, <1>4 DEF InOrderOfScoring, Positions, Stamps
<1>6. Witnessed'
  BY <1>1, <1>2 DEF Witnessed, Positions, Stamps, Never
<1> QED
  BY <1>3, <1>5, <1>6

LEMMA PollPreserves == HealthIInv /\ PollBatch => HealthIInv'
<1> SUFFICES ASSUME HealthIInv, PollBatch PROVE HealthIInv'
  OBVIOUS
<1>1. PICK n \in 1 .. BatchMax :
        /\ offset + n <= Len(scored)
        /\ batch' = offset + 1 .. offset + n /\ offset' = offset + n
  BY DEF PollBatch
<1>2. /\ offset \in 0 .. Len(scored) /\ Len(scored) \in Nat
      /\ 1 .. offset \subseteq table
  BY DEF HealthIInv, HealthTypeOK, Contiguous, PollBatch, InOrderOfScoring
<1>3. /\ offset' \in 0 .. Len(scored) /\ batch' \subseteq 1 .. offset'
      /\ 1 .. offset' \subseteq table \cup batch'
  BY <1>1, <1>2, HealthAssumption
<1> QED
  BY <1>3, QuietStep DEF PollBatch, stateVars

LEMMA InsertPreserves == HealthIInv /\ InsertBatch => HealthIInv'
<1> SUFFICES ASSUME HealthIInv, InsertBatch PROVE HealthIInv'
  OBVIOUS
<1> DEFINE rows == table \cup batch
<1>1. /\ table' = rows /\ batch' = {}
      /\ UNCHANGED <<healthClock, scored, offset>>
  BY DEF InsertBatch
<1>2. /\ \A i \in rows : 1 .. i \subseteq rows
      /\ NewestScored(rows) \in 0 .. healthClock
      /\ \A i \in Positions : scored[i] < NewestScored(rows) => i \in rows
  BY NewestIsLast DEF InsertBatch
<1>3. HealthTypeOK' /\ Contiguous' /\ InOrderOfScoring' /\ Witnessed' /\ Stamps'
  <2>1. /\ offset \in 0 .. Len(scored) /\ rows \subseteq 1 .. Len(scored)
        /\ 1 .. offset \subseteq rows /\ healthClock \in Nat
    BY DEF HealthIInv, HealthTypeOK, Contiguous, Stamps
  <2>2. Contiguous' /\ InOrderOfScoring'
    BY <1>1, <1>2, <2>1 DEF HealthIInv, Contiguous, InOrderOfScoring, Positions
  <2>3. CASE rows = table
    <3>1. UNCHANGED <<lastEvent, lastWrite>>
      BY <2>3 DEF InsertBatch, RecordWrite
    <3> QED
      BY <1>1, <2>1, <2>2, <2>3, <3>1
         DEF HealthIInv, HealthTypeOK, Witnessed, Stamps, Positions
  <2>4. CASE rows # table
    <3>1. lastEvent' = NewestScored(rows) /\ lastWrite' = healthClock
      BY <2>4 DEF InsertBatch, RecordWrite
    <3>2. HealthTypeOK' /\ Stamps'
      BY <1>1, <1>2, <2>1, <3>1 DEF HealthTypeOK, Stamps, Never
    <3>3. Witnessed'
      BY <1>1, <1>2, <3>1 DEF Witnessed, Positions
    <3> QED
      BY <2>2, <3>2, <3>3
  <2> QED
    BY <2>3, <2>4
<1> QED
  BY <1>3 DEF HealthIInv

LEMMA DeathPreserves == HealthIInv /\ ConsumerDies => HealthIInv'
<1> SUFFICES ASSUME HealthIInv, ConsumerDies PROVE HealthIInv'
  OBVIOUS
<1>1. /\ offset' \in 0 .. offset /\ 1 .. offset' \subseteq table /\ batch' = {}
      /\ UNCHANGED <<healthClock, scored, table, lastEvent, lastWrite>>
  BY DEF ConsumerDies
<1>2. /\ offset' \in 0 .. Len(scored) /\ batch' \subseteq 1 .. offset'
      /\ 1 .. offset' \subseteq table \cup batch'
  BY <1>1 DEF HealthIInv, HealthTypeOK, InOrderOfScoring
<1> QED
  BY <1>1, <1>2, QuietStep

LEMMA TickPreserves == HealthIInv /\ HealthTick => HealthIInv'
<1> SUFFICES ASSUME HealthIInv, HealthTick PROVE HealthIInv'
  OBVIOUS
<1>1. /\ healthClock \in Nat /\ healthClock' = healthClock + 1
      /\ UNCHANGED <<scored, offset, batch, table, lastEvent, lastWrite>>
  BY DEF HealthIInv, Stamps, HealthTick, stateVars
<1>2. HealthTypeOK' /\ Stamps' /\ Contiguous' /\ Witnessed'
  BY <1>1 DEF HealthIInv, HealthTypeOK, Stamps, Contiguous, Witnessed, Positions
<1>3. scored \in Seq(0 .. healthClock')
  BY <1>1 DEF HealthIInv, InOrderOfScoring
<1>4. InOrderOfScoring'
  BY <1>1, <1>3 DEF HealthIInv, InOrderOfScoring, Positions
<1> QED
  BY <1>2, <1>4 DEF HealthIInv

LEMMA HealthNextInv == HealthIInv /\ [HealthNext]_healthVars => HealthIInv'
<1> SUFFICES ASSUME HealthIInv, [HealthNext]_healthVars PROVE HealthIInv'
  OBVIOUS
<1>1. CASE Score
  BY <1>1, ScorePreserves
<1>2. CASE PollBatch
  BY <1>2, PollPreserves
<1>3. CASE InsertBatch
  BY <1>3, InsertPreserves
<1>4. CASE ConsumerDies
  BY <1>4, DeathPreserves
<1>5. CASE ConsumerStarts \/ OutcomesConsumer
  BY <1>5, OtherStep DEF ConsumerStarts, OutcomesConsumer
<1>6. CASE Broker \/ ProbeBroker
  BY <1>6, OtherStep DEF Broker, ProbeBroker, stateVars
<1>7. CASE HealthTick
  BY <1>7, TickPreserves
<1>8. CASE UNCHANGED healthVars
  BY <1>8, OtherStep DEF healthVars
<1> QED
  BY <1>1, <1>2, <1>3, <1>4, <1>5, <1>6, <1>7, <1>8 DEF HealthNext

\* The reports say what the invariant of the runs says of them.
LEMMA ReportsRight == HealthIInv => HealthInv
<1> SUFFICES ASSUME HealthIInv PROVE HealthInv
  OBVIOUS
<1> USE HealthAssumption
<1>1. OkMeansCaughtUp
  <2> SUFFICES ASSUME HealthOk, NEW i \in 1 .. Len(scored),
                      healthClock - scored[i] > StaleSeconds
               PROVE  i \in table
    BY DEF OkMeansCaughtUp
  <2>1. scored[i] \in 0 .. healthClock /\ healthClock \in Nat
    BY DEF HealthIInv, InOrderOfScoring, Stamps
  <2>2. /\ lastEvent # Never /\ healthClock - lastEvent <= StaleSeconds
        /\ lastEvent \in Int
    BY DEF HealthOk, IsRecent, HealthIInv, HealthTypeOK, Never
  <2> QED
    BY <2>1, <2>2 DEF HealthIInv, Witnessed, Positions
<1>2. NeverDegraded
  BY DEF NeverDegraded, Degraded, PipelineRunning, IsRecent, HealthIInv, Stamps,
         Never
<1> QED
  BY <1>1, <1>2 DEF HealthInv, HealthIInv

-----------------------------------------------------------------------------
(* health_snapshot says ok only while every event scored more than         *)
(* StaleSeconds ago is in the table, and _check_materializer never says    *)
(* "degraded", through dead consumers, replays and failed batches.         *)
THEOREM HealthReportsRight == HealthSpec => []HealthInv
<1>1. HealthSpec => []HealthIInv
  BY HealthInitInv, HealthNextInv, PTL DEF HealthSpec
<1> QED
  BY <1>1, ReportsRight, PTL

-----------------------------------------------------------------------------
(***************************************************************************)
(* Polling: one chain of requests.                                         *)
(***************************************************************************)
\* What a page says, and what a request carries.
Shown == [param : Params \cup {"none"}, order : Nat]
Pages ==
  [param : Params, mount : Nat, gen : Nat, timer : BOOLEAN, data : Shown,
   failed : BOOLEAN, loading : BOOLEAN, refreshing : BOOLEAN, paused : BOOLEAN,
   latest : Nat]
Flights == [mount : Nat, gen : Nat, param : Params, order : Nat \ {0}]

PollTyped ==
  /\ visible \in BOOLEAN /\ page \in Pages
  /\ flights \subseteq Flights
  /\ sent \in 0 .. MaxSent /\ hides \in Nat

\* A request is of this page or one before, and one of this page asked for
\* its parameter.
FromThePast ==
  \A f \in flights :
    /\ f.mount <= page.mount
    /\ f.mount = page.mount => f.gen <= page.gen /\ f.param = page.param

\* The current request is the last one sent, so its answer is the newest.
LastSent ==
  /\ page.latest <= sent
  /\ \A f \in flights : IsCurrent(f) => f.order = sent

\* One chain, without counting: a request, or a timer, or a hidden page.
Chain ==
  \/ visible /\ ~page.timer /\ \E f \in flights : InFlight = {f}
  \/ visible /\ page.timer /\ InFlight = {}
  \/ ~visible /\ ~page.timer /\ InFlight = {}

Flags ==
  /\ page.refreshing = (InFlight # {})
  /\ page.paused = ~visible
  /\ page.data = Nothing /\ ~page.failed => page.loading

\* The inductive invariant of usePolling.
PollIInv == PollTyped /\ FromThePast /\ LastSent /\ ShownIsSelected /\ Chain /\ Flags
-----------------------------------------------------------------------------
\* A request that leaves is the one current request of the page it leaves from,
\* whatever that page was: an earlier generation is no longer current.
LEMMA TickLeaves ==
  ASSUME NEW from \in Pages, PollTyped, visible',
         \A f \in flights : /\ f.mount <= from.mount
                            /\ f.mount = from.mount => f.gen <= from.gen /\ f.param = from.param,
         from.latest <= sent,
         from.data # Nothing => from.data.param = from.param /\ from.data.order = from.latest,
         ~from.paused,
         from.data = Nothing /\ ~from.failed => from.loading,
         hides' \in Nat, visible' \in BOOLEAN,
         SendTick(from)
  PROVE  PollIInv'
<1>1. /\ page' = [from EXCEPT !.gen = @ + 1, !.timer = FALSE, !.refreshing = TRUE]
      /\ flights' = flights \cup {Leaves(from)}
      /\ sent' = sent + 1 /\ sent' \in 0 .. MaxSent /\ sent \in Nat /\ sent' \in Nat
  BY PollingAssumption DEF SendTick, Ticked, PollTyped
<1>2. /\ Leaves(from).mount = from.mount /\ Leaves(from).gen = from.gen + 1
      /\ Leaves(from).param = from.param /\ Leaves(from).order = sent + 1
      /\ Leaves(from) \in Flights
  BY <1>1 DEF Leaves, Flights, Pages
<1>3. /\ page' \in Pages
      /\ page'.mount = from.mount /\ page'.gen = from.gen + 1
      /\ page'.param = from.param /\ page'.timer = FALSE
      /\ page'.refreshing = TRUE /\ page'.data = from.data
      /\ page'.latest = from.latest /\ page'.paused = from.paused
      /\ page'.failed = from.failed /\ page'.loading = from.loading
      /\ from.mount \in Nat /\ from.gen \in Nat /\ from.latest \in Nat
  <2>1. from.gen + 1 \in Nat
    BY DEF Pages
  <2> QED
    BY <1>1, <2>1 DEF Pages
<1>4. PollTyped'
  BY <1>1, <1>2, <1>3 DEF PollTyped
<1>5. \A f \in flights : f.mount \in Nat /\ f.gen \in Nat
  BY DEF PollTyped, Flights
<1>6. \A f \in flights' : (f.mount = page'.mount /\ f.gen = page'.gen) <=> f = Leaves(from)
  BY <1>1, <1>2, <1>3, <1>5
<1>7. InFlight' = {Leaves(from)}
  BY <1>1, <1>6 DEF InFlight, IsCurrent
<1>8. FromThePast'
  BY <1>1, <1>2, <1>3, <1>5 DEF FromThePast
<1>9. LastSent'
  BY <1>1, <1>2, <1>3, <1>6 DEF LastSent, IsCurrent
<1>10. ShownIsSelected'
  BY <1>3 DEF ShownIsSelected
<1>11. Chain'
  BY <1>1, <1>3, <1>7 DEF Chain
<1>12. Flags'
  BY <1>3, <1>7 DEF Flags, Pages
<1> QED
  BY <1>4, <1>8, <1>9, <1>10, <1>11, <1>12 DEF PollIInv

LEMMA PollInitInv == PollingInit => PollIInv
<1> SUFFICES ASSUME PollingInit PROVE PollIInv
  OBVIOUS
<1>0. PICK param \in Params :
        IF visible
        THEN /\ page = Ticked(Mounted(param, 0))
             /\ flights = {[mount |-> 0, gen |-> 1, param |-> param, order |-> 1]}
             /\ sent = 1
        ELSE page = Mounted(param, 0) /\ flights = {} /\ sent = 0
  BY DEF PollingInit
<1> DEFINE blank == Mounted(param, 0)
<1>1. /\ blank \in Pages /\ blank.mount = 0 /\ blank.gen = 0 /\ blank.timer = FALSE
      /\ blank.param = param /\ blank.data = Nothing /\ blank.failed = FALSE
      /\ blank.loading = TRUE /\ blank.refreshing = FALSE /\ blank.paused = ~visible
      /\ blank.latest = 0
  BY DEF PollingInit, Mounted, Pages, Shown, Nothing
<1> HIDE DEF blank
<1>2. CASE ~visible
  <2>1. page = blank /\ flights = {} /\ sent = 0
    BY <1>0, <1>2 DEF blank
  <2>2. InFlight = {}
    BY <2>1 DEF InFlight
  <2>3. PollTyped
    BY <1>1, <2>1, PollingAssumption DEF PollTyped, PollingInit
  <2>4. FromThePast /\ LastSent /\ ShownIsSelected
    BY <1>1, <2>1 DEF FromThePast, LastSent, ShownIsSelected
  <2>5. Chain /\ Flags
    BY <1>1, <1>2, <2>1, <2>2 DEF Chain, Flags
  <2> QED
    BY <2>3, <2>4, <2>5 DEF PollIInv
<1>3. CASE visible
  <2> DEFINE first == [mount |-> 0, gen |-> 1, param |-> param, order |-> 1]
  <2>1. page = Ticked(blank) /\ flights = {first} /\ sent = 1
    BY <1>0, <1>3 DEF blank
  <2>2. first \in Flights /\ first.mount = 0 /\ first.gen = 1 /\ first.param = param
        /\ first.order = 1
    BY DEF Flights
  <2> HIDE DEF first
  <2>3. /\ page \in Pages /\ page.mount = 0 /\ page.gen = 1 /\ page.timer = FALSE
        /\ page.param = param /\ page.data = Nothing /\ page.failed = FALSE
        /\ page.loading = TRUE /\ page.refreshing = TRUE /\ page.paused = ~visible
        /\ page.latest = 0
    <3>1. blank.gen + 1 = 1
      BY <1>1
    <3>2. page = [blank EXCEPT !.gen = 1, !.timer = FALSE, !.refreshing = TRUE]
      BY <2>1, <3>1 DEF Ticked
    <3> QED
      BY <1>1, <3>2 DEF Pages
  <2>4. InFlight = {first}
    BY <2>1, <2>2, <2>3 DEF InFlight, IsCurrent
  <2>5. PollTyped
    BY <2>1, <2>2, <2>3, PollingAssumption DEF PollTyped, PollingInit
  <2>6. FromThePast /\ LastSent /\ ShownIsSelected
    BY <2>1, <2>2, <2>3 DEF FromThePast, LastSent, ShownIsSelected
  <2>7. Chain /\ Flags
    BY <1>3, <2>1, <2>3, <2>4 DEF Chain, Flags
  <2> QED
    BY <2>5, <2>6, <2>7 DEF PollIInv
<1> QED
  BY <1>2, <1>3

\* A request that has come back was at most the current one.
LEMMA LandedLeaves ==
  ASSUME PollIInv, NEW f \in flights, Lands(f),
         page'.mount = page.mount, page'.gen = page.gen, page'.param = page.param
  PROVE  /\ FromThePast' /\ InFlight' = InFlight \ {f}
         /\ page'.latest = page.latest => LastSent'
         /\ \A g \in flights' : IsCurrent(g)' => g.order = sent'
BY DEF PollIInv, FromThePast, InFlight, IsCurrent, Lands, LastSent

\* The finally clause of the one current request.
LEMMA SettledKeeps ==
  ASSUME PollIInv, NEW f \in flights, Lands(f), IsCurrent(f),
         NEW shown \in Pages, page' = Settled(shown),
         shown.mount = page.mount, shown.gen = page.gen, shown.param = page.param,
         shown.paused = page.paused,
         shown.latest <= sent,
         shown.data # Nothing => shown.data.param = page.param /\ shown.data.order = shown.latest,
         shown.data # Nothing \/ shown.failed
  PROVE  PollIInv'
<1>1. visible /\ ~page.timer /\ InFlight = {f}
  BY DEF PollIInv, Chain, InFlight
<1>2. /\ page' \in Pages /\ page'.mount = page.mount /\ page'.gen = page.gen
      /\ page'.param = page.param /\ page'.paused = page.paused
      /\ page'.loading = FALSE /\ page'.refreshing = FALSE /\ page'.timer = visible
      /\ page'.latest = shown.latest /\ page'.data = shown.data
      /\ page'.failed = shown.failed
  BY DEF Settled, Pages, PollIInv, PollTyped
<1>3. InFlight' = {}
  BY <1>1, <1>2, LandedLeaves
<1>4. PollTyped'
  BY <1>2 DEF PollIInv, PollTyped, Lands
<1>5. FromThePast' /\ LastSent'
  BY <1>2, LandedLeaves DEF LastSent, Lands
<1>6. ShownIsSelected'
  BY <1>2 DEF ShownIsSelected
<1>7. Chain'
  BY <1>1, <1>2, <1>3 DEF Chain, Lands
<1>8. Flags'
  BY <1>1, <1>2, <1>3 DEF Flags, Lands, PollIInv
<1> QED
  BY <1>4, <1>5, <1>6, <1>7, <1>8 DEF PollIInv

LEMMA AnswerKeeps ==
  ASSUME PollIInv, NEW f \in flights, AnswerComes(f)
  PROVE  PollIInv'
<1> DEFINE shown == [page EXCEPT !.data = [param |-> f.param, order |-> f.order],
                                 !.failed = FALSE,
                                 !.latest = IF f.order > @ THEN f.order ELSE @]
<1>1. Lands(f) /\ IsCurrent(f) /\ page' = Settled(shown)
  BY DEF AnswerComes
<1>2. /\ f.order = sent /\ f.param = page.param /\ f.param \in Params /\ f.order \in Nat \ {0}
      /\ page \in Pages /\ page.latest \in Nat /\ page.latest <= sent /\ sent \in Nat
  BY <1>1, PollingAssumption
     DEF PollIInv, PollTyped, FromThePast, LastSent, IsCurrent, Flights, Pages
<1>3. (IF f.order > page.latest THEN f.order ELSE page.latest) = sent
  BY <1>2
<1>4. shown \in Pages
  BY <1>2, <1>3 DEF Pages, Shown
<1>5. /\ shown.mount = page.mount /\ shown.gen = page.gen /\ shown.param = page.param
      /\ shown.paused = page.paused /\ shown.latest = sent
      /\ shown.data = [param |-> page.param, order |-> sent] /\ ~shown.failed
  BY <1>2, <1>3 DEF Pages
<1>6. sent # 0
  BY <1>2
<1>7. shown.data # Nothing
  BY <1>5, <1>6 DEF Nothing
<1> HIDE DEF shown
<1> QED
  BY <1>1, <1>2, <1>4, <1>5, <1>7, SettledKeeps

LEMMA FailKeeps ==
  ASSUME PollIInv, NEW f \in flights, RequestFails(f)
  PROVE  PollIInv'
<1> DEFINE shown == [page EXCEPT !.failed = TRUE]
<1>1. Lands(f) /\ IsCurrent(f) /\ page' = Settled(shown)
  BY DEF RequestFails
<1>2. page \in Pages /\ page.latest <= sent
  BY DEF PollIInv, PollTyped, LastSent
<1>3. /\ shown \in Pages
      /\ shown.mount = page.mount /\ shown.gen = page.gen /\ shown.param = page.param
      /\ shown.paused = page.paused /\ shown.latest = page.latest
      /\ shown.data = page.data /\ shown.failed
  BY <1>2 DEF Pages
<1>4. shown.data # Nothing => shown.data.param = page.param /\ shown.data.order = shown.latest
  BY <1>3 DEF PollIInv, ShownIsSelected
<1> HIDE DEF shown
<1> QED
  BY <1>1, <1>2, <1>3, <1>4, SettledKeeps

LEMMA DroppedKeeps ==
  ASSUME PollIInv, NEW f \in flights, Dropped(f)
  PROVE  PollIInv'
<1>1. InFlight' = InFlight
  BY LandedLeaves DEF Dropped, InFlight
<1>2. FromThePast' /\ LastSent'
  BY LandedLeaves DEF Dropped
<1>3. PollTyped'
  BY DEF Dropped, Lands, PollIInv, PollTyped
<1>4. Chain'
  <2>1. \A g : InFlight = {g} => g \in flights'
    BY <1>1 DEF InFlight
  <2> QED
    BY <1>1, <2>1 DEF PollIInv, Chain, Dropped, Lands
<1>5. ShownIsSelected' /\ Flags'
  BY <1>1 DEF PollIInv, ShownIsSelected, Flags, Dropped, Lands
<1> QED
  BY <1>1, <1>2, <1>3, <1>4, <1>5 DEF PollIInv

LEMMA SelectKeeps == ASSUME PollIInv, Select PROVE PollIInv'
<1>1. PICK param \in Params : SendTick(Mounted(param, page.mount + 1))
  BY DEF Select
<1> DEFINE fresh == Mounted(param, page.mount + 1)
<1>2. page.mount \in Nat /\ visible /\ visible' = visible /\ hides' = hides
  BY DEF PollIInv, PollTyped, Pages, Select
<1>3. /\ fresh \in Pages /\ fresh.mount = page.mount + 1 /\ fresh.latest = 0
      /\ fresh.data = Nothing /\ ~fresh.paused /\ fresh.loading
  <2>1. Nothing \in Shown /\ page.mount + 1 \in Nat
    BY <1>2 DEF Shown, Nothing
  <2>2. fresh = [param |-> param, mount |-> page.mount + 1, gen |-> 0,
                 timer |-> FALSE, data |-> Nothing, failed |-> FALSE,
                 loading |-> TRUE, refreshing |-> FALSE, paused |-> FALSE,
                 latest |-> 0]
    BY <1>2 DEF Mounted
  <2> HIDE DEF fresh
  <2> QED
    BY <2>1, <2>2 DEF Pages
<1>4. SendTick(fresh)
  BY <1>1
<1> HIDE DEF fresh
<1>5. \A f \in flights : f.mount <= fresh.mount /\ f.mount # fresh.mount
  <2>1. \A f \in flights : f.mount \in Nat /\ f.mount <= page.mount
    BY DEF PollIInv, PollTyped, Flights, FromThePast
  <2> QED
    BY <1>2, <1>3, <2>1
<1>6. sent \in Nat /\ hides' \in Nat /\ visible' \in BOOLEAN /\ 0 <= sent
  BY <1>2, PollingAssumption DEF PollIInv, PollTyped
<1> QED
  BY <1>2, <1>3, <1>4, <1>5, <1>6, TickLeaves DEF PollIInv

LEMMA TimerKeeps == ASSUME PollIInv, TimerFires PROVE PollIInv'
<1>1. /\ page \in Pages /\ visible /\ visible' = visible /\ hides' \in Nat
      /\ SendTick(page) /\ ~page.paused /\ visible' \in BOOLEAN
  BY DEF PollIInv, PollTyped, TimerFires, Chain, Flags
<1> QED
  BY <1>1, TickLeaves
     DEF PollIInv, FromThePast, LastSent, ShownIsSelected, Flags

LEMMA ShowKeeps == ASSUME PollIInv, Show PROVE PollIInv'
<1> DEFINE again == [page EXCEPT !.paused = FALSE]
<1>1. /\ page \in Pages /\ visible' = TRUE /\ hides' \in Nat /\ SendTick(again)
  BY DEF PollIInv, PollTyped, Show
<1>2. /\ again \in Pages /\ again.mount = page.mount /\ again.gen = page.gen
      /\ again.param = page.param /\ again.data = page.data /\ ~again.paused
      /\ again.latest = page.latest /\ again.failed = page.failed
      /\ again.loading = page.loading
  BY <1>1 DEF Pages
<1> HIDE DEF again
<1> QED
  BY <1>1, <1>2, TickLeaves
     DEF PollIInv, FromThePast, LastSent, ShownIsSelected, Flags

LEMMA HideKeeps == ASSUME PollIInv, Hide PROVE PollIInv'
<1>1. page' = [page EXCEPT !.gen = @ + 1, !.timer = FALSE, !.paused = TRUE,
                           !.refreshing = FALSE]
      /\ visible' = FALSE /\ hides' = hides + 1 /\ UNCHANGED <<flights, sent>>
  BY DEF Hide
<1>2. page \in Pages /\ page.gen \in Nat /\ page.gen + 1 \in Nat
  BY DEF PollIInv, PollTyped, Pages
<1>3. /\ page' \in Pages /\ page'.mount = page.mount /\ page'.gen = page.gen + 1
      /\ page'.param = page.param /\ page'.timer = FALSE /\ page'.paused = TRUE
      /\ page'.refreshing = FALSE /\ page'.data = page.data
      /\ page'.latest = page.latest /\ page'.failed = page.failed
      /\ page'.loading = page.loading
  BY <1>1, <1>2 DEF Pages
<1>4. \A f \in flights : /\ f.gen \in Nat
                         /\ f.mount = page.mount => f.gen <= page.gen
  BY DEF PollIInv, PollTyped, Flights, FromThePast
<1>5. \A f \in flights : ~IsCurrent(f)'
  BY <1>2, <1>3, <1>4 DEF IsCurrent
<1>6. InFlight' = {}
  BY <1>1, <1>5 DEF InFlight
<1>7. PollTyped'
  <2>1. hides + 1 \in Nat
    BY DEF PollIInv, PollTyped
  <2> QED
    BY <1>1, <1>3, <2>1 DEF PollIInv, PollTyped
<1>8. FromThePast'
  BY <1>1, <1>2, <1>3, <1>4 DEF PollIInv, FromThePast
<1>9. LastSent' /\ ShownIsSelected'
  BY <1>1, <1>3, <1>5 DEF PollIInv, LastSent, ShownIsSelected
<1>10. Chain' /\ Flags'
  BY <1>1, <1>3, <1>6 DEF PollIInv, Chain, Flags
<1> QED
  BY <1>7, <1>8, <1>9, <1>10 DEF PollIInv

LEMMA PollNextInv == PollIInv /\ [PollingNext]_pollVars => PollIInv'
<1> SUFFICES ASSUME PollIInv, [PollingNext]_pollVars PROVE PollIInv'
  OBVIOUS
<1>1. CASE UNCHANGED pollVars
  <2>1. InFlight' = InFlight
    BY <1>1 DEF pollVars, InFlight, IsCurrent
  <2> QED
    BY <1>1, <2>1
       DEF pollVars, PollIInv, PollTyped, FromThePast, LastSent, ShownIsSelected,
           Chain, Flags, IsCurrent
<1> QED
  BY <1>1, SelectKeeps, TimerKeeps, HideKeeps, ShowKeeps, AnswerKeeps, FailKeeps,
     DroppedKeeps DEF PollingNext

\* Counted, the chain has one link on a visible page and none on a hidden one.
LEMMA PollIInvSays == PollIInv => PollingInv
<1> SUFFICES ASSUME PollIInv PROVE PollingInv
  OBVIOUS
<1>1. PollingTypeOK
  BY DEF PollIInv, PollTyped, Pages, PollingTypeOK
<1>2. Cardinality(InFlight) + (IF page.timer THEN 1 ELSE 0) = IF visible THEN 1 ELSE 0
  <2>1. CASE visible /\ ~page.timer /\ \E f \in flights : InFlight = {f}
    <3>1. Cardinality(InFlight) = 1
      BY <2>1, FS_Singleton
    <3> QED
      BY <2>1, <3>1
  <2>2. CASE visible /\ page.timer /\ InFlight = {}
    <3>1. Cardinality(InFlight) = 0
      BY <2>2, FS_EmptySet
    <3> QED
      BY <2>2, <3>1
  <2>3. CASE ~visible /\ ~page.timer /\ InFlight = {}
    <3>1. Cardinality(InFlight) = 0
      BY <2>3, FS_EmptySet
    <3> QED
      BY <2>3, <3>1
  <2> QED
    BY <2>1, <2>2, <2>3 DEF PollIInv, Chain
<1> QED
  BY <1>1, <1>2 DEF PollIInv, PollingInv, OneChain, Flags

(***************************************************************************)
(* A page shows the newest answer to what it asks for and never loses or   *)
(* doubles its chain of requests, however its answers are delayed, its tab *)
(* hidden and its parameter changed.                                       *)
(***************************************************************************)
THEOREM PollingHolds == PollingSpec => []PollingInv
<1>1. PollingSpec => []PollIInv
  BY PollInitInv, PollNextInv, PTL DEF PollingSpec
<1> QED
  BY <1>1, PollIInvSays, PTL
=============================================================================
