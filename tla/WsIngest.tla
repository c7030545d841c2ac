------------------------------ MODULE WsIngest ------------------------------
(***************************************************************************)
(* scripts/ws_ingest.py: two asyncio tasks, "ticker" and "heartbeats",     *)
(* each with a websocket it reconnects, a circuit breaker and a stop event *)
(* they share with the main coroutine, which cancels them, flushes the     *)
(* Kafka producer and sets the exit code.  Ticks are counted; what a tick  *)
(* says, and the sequence gaps that are only logged, are left out.         *)
(*                                                                         *)
(* The event loop runs one task at a time between awaits, so every action  *)
(* is what one task does from one await to the next.                       *)
(***************************************************************************)
EXTENDS Integers

CONSTANTS
  MaxFailures,     \* MAX_CONSECUTIVE_FAILURES
  MirrorFlushSize, \* MIRROR_FLUSH_SIZE
  PollInterval,    \* poll_interval
  MaxQueued,       \* MAX_QUEUED_MESSAGES
  MaxTicks,        \* bound: ticks of the feed
  MaxDiskFaults    \* bound: mirror flushes that fail

ASSUME IngestAssumption ==
  /\ MaxFailures \in Nat \ {0} /\ MirrorFlushSize \in Nat \ {0}
  /\ PollInterval \in Nat \ {0} /\ MaxQueued \in Nat
  /\ MaxTicks \in Nat /\ MaxDiskFaults \in Nat

Tasks == {"ticker", "heartbeats"}

VARIABLES
  task,          \* where each task is
  fails,         \* consecutive_failures of each task
  stopEvent,     \* stop_event
  circuitBroken, \* circuit_broken
  main,          \* "waiting", "cancelling", "exited"
  exitCode,
  produced,      \* msg_count: ticks produced
  queued,        \* messages in the producer's queue
  buffered,      \* lines in the mirror's buffer
  mirrored,      \* lines in its segments on disk
  unmirrored,    \* ghost: ticks produced that the backlog check cut off
  leftOnMessage, \* ghost: the ticker returned from its message loop
  diskFaults     \* mirror flushes that failed so far

taskVars == <<task, fails, stopEvent, circuitBroken>>
mirrorVars == <<buffered, mirrored, diskFaults>>
ingVars == <<taskVars, mirrorVars, main, exitCode, produced, queued,
             unmirrored, leftOnMessage>>

IngInit ==
  /\ task = [t \in Tasks |-> "connecting"] /\ fails = [t \in Tasks |-> 0]
  /\ stopEvent = FALSE /\ circuitBroken = FALSE
  /\ main = "waiting" /\ exitCode = -1
  /\ produced = 0 /\ queued = 0
  /\ buffered = 0 /\ mirrored = 0 /\ diskFaults = 0
  /\ unmirrored = 0 /\ leftOnMessage = FALSE
-----------------------------------------------------------------------------
\* MirrorWriter.flush: all of the buffer as one segment, or an exception that
\* leaves the buffer as it was.
Flushed(lines) ==
  /\ mirrored' = mirrored + lines /\ buffered' = 0 /\ UNCHANGED diskFaults
FlushFails(lines, times) ==
  /\ lines > 0 /\ diskFaults + times <= MaxDiskFaults
  /\ diskFaults' = diskFaults + times
  /\ buffered' = lines /\ UNCHANGED mirrored
FlushedAfter(lines, times) ==
  /\ lines > 0 /\ diskFaults + times <= MaxDiskFaults
  /\ diskFaults' = diskFaults + times
  /\ mirrored' = mirrored + lines /\ buffered' = 0

\* Only the ticker has a mirror.
MirrorOf(t) == IF t = "ticker" THEN buffered ELSE 0
FlushOf(t, lines) ==
  IF t = "ticker" THEN Flushed(lines) ELSE UNCHANGED mirrorVars

\* Slip: the other task is not told.
FailureUnsaid(t, n, backoff) ==
  /\ fails' = [fails EXCEPT ![t] = n]
  /\ IF n >= MaxFailures
     THEN /\ task' = [task EXCEPT ![t] = "left"]
          /\ circuitBroken' = TRUE /\ UNCHANGED stopEvent
     ELSE /\ task' = [task EXCEPT ![t] = backoff]
          /\ UNCHANGED <<circuitBroken, stopEvent>>

\* The n-th consecutive failure trips the breaker or backs off.
Failure(t, n, backoff) ==
  /\ fails' = [fails EXCEPT ![t] = n]
  /\ IF n >= MaxFailures
     THEN /\ task' = [task EXCEPT ![t] = "left"]
          /\ circuitBroken' = TRUE /\ stopEvent' = TRUE
     ELSE /\ task' = [task EXCEPT ![t] = backoff]
          /\ UNCHANGED <<circuitBroken, stopEvent>>

\* An exception that leaves the handler of the reconnect loop ends the task.
Dies(t, n) ==
  /\ task' = [task EXCEPT ![t] = "dead"]
  /\ fails' = [fails EXCEPT ![t] = n]
  /\ UNCHANGED <<stopEvent, circuitBroken>>

\* "except Exception": the mirror is flushed first, in the handler itself.
UnexpectedError(t, n, lines, before) ==
  \/ /\ before = 0 /\ FlushOf(t, lines) /\ Failure(t, n, "backoffOuter")
  \/ /\ before > 0 /\ FlushedAfter(lines, before)
     /\ Failure(t, n, "backoffOuter")
  \/ /\ t = "ticker" /\ FlushFails(lines, before + 1) /\ Dies(t, n)

Running(t) == main = "waiting" /\ task[t] \in {"connecting", "streaming"}

\* The subscription is sent on a new connection.
Connected(t) ==
  /\ main = "waiting" /\ task[t] = "connecting"
  /\ task' = [task EXCEPT ![t] = "streaming"]
  /\ fails' = [fails EXCEPT ![t] = 0]
  /\ UNCHANGED <<stopEvent, circuitBroken, mirrorVars, main, exitCode,
                 produced, queued, unmirrored, leftOnMessage>>

\* The server closes in good order: the loop takes the next connection.
ClosedOk(t) ==
  /\ main = "waiting" /\ task[t] = "streaming"
  /\ task' = [task EXCEPT ![t] = "connecting"]
  /\ UNCHANGED <<fails, stopEvent, circuitBroken, mirrorVars, main, exitCode,
                 produced, queued, unmirrored, leftOnMessage>>

\* ConnectionClosed, while subscribing or streaming.  A mirror that cannot be
\* flushed here lands in the outer handler, which counts and flushes again.
ConnectionClosed(t) ==
  /\ Running(t)
  /\ \/ FlushOf(t, MirrorOf(t)) /\ Failure(t, fails[t] + 1, "backoffInner")
     \/ /\ t = "ticker" /\ buffered > 0
        /\ UnexpectedError(t, fails[t] + 2, buffered, 1)
  /\ UNCHANGED <<main, exitCode, produced, queued, unmirrored, leftOnMessage>>

\* Any other exception of connecting, subscribing or handling a message.
OtherError(t) ==
  /\ Running(t)
  /\ UnexpectedError(t, fails[t] + 1, MirrorOf(t), 0)
  /\ UNCHANGED <<main, exitCode, produced, queued, unmirrored, leftOnMessage>>

(***************************************************************************)
(* A tick: produced, and every PollInterval ticks the backlog is checked,  *)
(* which may raise before the tick reaches the mirror.                     *)
(***************************************************************************)
Tick ==
  LET backlog == (produced + 1) % PollInterval = 0 /\ queued + 1 > MaxQueued
      lines == buffered + 1
  IN  /\ main = "waiting" /\ task["ticker"] = "streaming" /\ ~stopEvent
      /\ produced < MaxTicks
      /\ produced' = produced + 1 /\ queued' = queued + 1
      /\ IF backlog
         THEN /\ UnexpectedError("ticker", fails["ticker"] + 1, buffered, 0)
              /\ unmirrored' = unmirrored + 1
         ELSE /\ UNCHANGED unmirrored
              /\ \/ /\ lines < MirrorFlushSize
                    /\ buffered' = lines
                    /\ UNCHANGED <<mirrored, diskFaults, taskVars>>
                 \/ /\ lines >= MirrorFlushSize
                    /\ Flushed(lines) /\ UNCHANGED taskVars
                 \/ /\ lines >= MirrorFlushSize
                    /\ UnexpectedError("ticker", fails["ticker"] + 1, lines, 1)
      /\ UNCHANGED <<main, exitCode, leftOnMessage>>

\* A message that finds the stop event set: the task returns at once.
MessageAfterStop(t) ==
  /\ main = "waiting" /\ task[t] = "streaming" /\ stopEvent
  /\ task' = [task EXCEPT ![t] = "left"]
  /\ leftOnMessage' = (leftOnMessage \/ t = "ticker")
  /\ UNCHANGED <<fails, stopEvent, circuitBroken, mirrorVars, main, exitCode,
                 produced, queued, unmirrored>>

\* The back-off is over.  Only the outer loop looks at the stop event.
Wake(t) ==
  /\ main = "waiting" /\ task[t] \in {"backoffInner", "backoffOuter"}
  /\ task' = [task EXCEPT ![t] =
                IF stopEvent /\ @ = "backoffOuter" THEN "left" ELSE "connecting"]
  /\ UNCHANGED <<fails, stopEvent, circuitBroken, mirrorVars, main, exitCode,
                 produced, queued, unmirrored, leftOnMessage>>

\* SIGINT, SIGTERM.
Signal ==
  /\ main = "waiting" /\ ~stopEvent
  /\ stopEvent' = TRUE
  /\ UNCHANGED <<task, fails, circuitBroken, mirrorVars, main, exitCode,
                 produced, queued, unmirrored, leftOnMessage>>

\* The main coroutine: the event is set, or --minutes is over.
StopTasks ==
  /\ main = "waiting"
  /\ stopEvent' = TRUE
  /\ main' = "cancelling"
  /\ UNCHANGED <<task, fails, circuitBroken, mirrorVars, exitCode, produced,
                 queued, unmirrored, leftOnMessage>>

Ended(t) == task[t] \in {"left", "dead"}

\* CancelledError at whatever the task awaits; the ticker flushes its mirror.
Cancelled(t) ==
  /\ main = "cancelling" /\ ~Ended(t)
  /\ \/ /\ FlushOf(t, MirrorOf(t))
        /\ task' = [task EXCEPT ![t] = "left"]
        /\ UNCHANGED <<fails, stopEvent, circuitBroken>>
     \/ t = "ticker" /\ FlushFails(buffered, 1) /\ Dies(t, fails[t])
  /\ UNCHANGED <<main, exitCode, produced, queued, unmirrored, leftOnMessage>>

\* Slip: what the flush left in the queue is not looked at.
BreakerOnly(remaining) == circuitBroken

\* What counts as broken at the exit: a tick the flush left in the queue too.
ExitBroken(remaining) == circuitBroken \/ remaining > 0

\* All tasks gathered: producer.flush(10.0), then sys.exit.
Exit ==
  /\ main = "cancelling" /\ \A t \in Tasks : Ended(t)
  /\ \E remaining \in 0 .. queued :
       /\ queued' = remaining
       /\ circuitBroken' = ExitBroken(remaining)
       /\ exitCode' = IF ExitBroken(remaining) THEN 1 ELSE 0
  /\ main' = "exited"
  /\ UNCHANGED <<task, fails, stopEvent, mirrorVars, produced, unmirrored,
                 leftOnMessage>>

\* The broker acknowledges a message.
Delivered ==
  /\ main = "waiting" /\ queued > 0 /\ queued' = queued - 1
  /\ UNCHANGED <<taskVars, mirrorVars, main, exitCode, produced, unmirrored,
                 leftOnMessage>>

IngNext ==
  \/ Tick \/ Signal \/ StopTasks \/ Exit \/ Delivered
  \/ \E t \in Tasks :
       \/ Connected(t) \/ ClosedOk(t) \/ ConnectionClosed(t) \/ OtherError(t)
       \/ MessageAfterStop(t) \/ Wake(t) \/ Cancelled(t)

\* The event loop runs what is ready: the main coroutine once the event is
\* set, and each task once it is cancelled.  Nothing is assumed of the feed.
IngFairness ==
  /\ WF_ingVars(stopEvent /\ StopTasks)
  /\ \A t \in Tasks : WF_ingVars(Cancelled(t))
  /\ WF_ingVars(Exit)

IngSpec == IngInit /\ [][IngNext]_ingVars /\ IngFairness
-----------------------------------------------------------------------------
IngTypeOK ==
  /\ task \in [Tasks -> {"connecting", "streaming", "backoffInner",
                         "backoffOuter", "left", "dead"}]
  /\ fails \in [Tasks -> 0 .. MaxFailures + 1]
  /\ main \in {"waiting", "cancelling", "exited"} /\ exitCode \in {-1, 0, 1}
  /\ buffered \in 0 .. MaxTicks /\ mirrored \in 0 .. MaxTicks

(***************************************************************************)
(* A tripped breaker, of either task and whatever the other one is doing,  *)
(* ends the process with exit code 1.                                      *)
(***************************************************************************)
BreakerExits == circuitBroken ~> main = "exited" /\ exitCode = 1

(***************************************************************************)
(* Exit code 0 is only given when every tick that was produced has left    *)
(* the queue; and lines of the mirror are missing on disk then only if the *)
(* disk failed, the ticker returned on a message that arrived between the  *)
(* stop and its cancellation, or the backlog check had cut a tick off.     *)
(***************************************************************************)
ExitAccounts ==
  exitCode = 0 =>
    /\ queued = 0
    /\ mirrored = produced \/ diskFaults > 0 \/ leftOnMessage \/ unmirrored > 0

\* The invariant of the exit.
IngestInv == IngTypeOK /\ ExitAccounts
=============================================================================
