------------------------------- MODULE Health -------------------------------
(***************************************************************************)
(* The health of the materializer, as its own /health states it            *)
(* (materializer/materializer.py: health_snapshot, probe_loop and the      *)
(* counters consume_loop keeps) and as /system/status reads it             *)
(* (api/system.py: _check_materializer).                                   *)
(*                                                                         *)
(* `scored' is ticks.predictions: the moment each event was scored, in     *)
(* topic order.  The batches, commits and rebuilds of the consumer are     *)
(* ReadModel's; here a batch is inserted whole or fails.                   *)
(***************************************************************************)
EXTENDS Integers, Sequences, FiniteSets, FiniteSetsExt

CONSTANTS
  StaleSeconds,   \* SYSTEM_MATERIALIZER_STALE_SECONDS, of both processes
  BatchMax,       \* BATCH_MAX_SIZE
  MaxScored,      \* bound: events on the topic
  MaxHealthClock  \* bound: ticks of the clock the two processes share

ASSUME HealthAssumption ==
  /\ StaleSeconds \in Nat /\ BatchMax \in Nat \ {0}
  /\ MaxScored \in Nat /\ MaxHealthClock \in Nat

VARIABLES
  healthClock,
  scored,       \* ticks.predictions
  offset,       \* the consumer's position: events behind it were polled
  batch,        \* pending_events, as positions of the topic
  table,        \* the positions whose rows are in the table
  lastEvent,    \* last_event_ts
  lastWrite,    \* last_write_ts
  alive, outcomesAlive,
  brokerUp,     \* the broker answers
  brokerOk      \* broker_ok, as the probe thread last found it

healthVars == <<healthClock, scored, offset, batch, table, lastEvent,
                lastWrite, alive, outcomesAlive, brokerUp, brokerOk>>
stateVars == <<lastEvent, lastWrite, alive, outcomesAlive>>

Never == -1

HealthInit ==
  /\ healthClock = 0 /\ scored = <<>> /\ offset = 0 /\ batch = {} /\ table = {}
  /\ lastEvent = Never /\ lastWrite = Never
  /\ alive = TRUE /\ outcomesAlive = TRUE
  /\ brokerUp = TRUE /\ brokerOk = FALSE
-----------------------------------------------------------------------------
\* The bridge scores a row now and publishes it.
Score ==
  /\ brokerUp /\ Len(scored) < MaxScored
  /\ scored' = Append(scored, healthClock)
  /\ UNCHANGED <<healthClock, offset, batch, table, stateVars, brokerUp,
                 brokerOk>>

\* consume_loop collects a batch.
PollBatch ==
  /\ alive /\ brokerUp /\ batch = {}
  /\ \E n \in 1 .. BatchMax :
       /\ offset + n <= Len(scored)
       /\ batch' = offset + 1 .. offset + n
       /\ offset' = offset + n
  /\ UNCHANGED <<healthClock, scored, table, stateVars, brokerUp, brokerOk>>

\* Slip: the moment of the insert instead.
NewestInserted(rows) == healthClock

\* What the row read back after the insert says: the newest one scored.
NewestScored(rows) == Max({scored[i] : i \in rows})

\* insert_events and what follows it.  A batch that inserts nothing, all of it
\* being in the table, leaves both timestamps alone.
RecordWrite(rows) ==
  IF rows = table THEN UNCHANGED <<lastEvent, lastWrite>>
  ELSE /\ lastEvent' = NewestScored(rows)
       /\ lastWrite' = healthClock

InsertBatch ==
  /\ alive /\ batch # {}
  /\ table' = table \cup batch /\ batch' = {}
  /\ RecordWrite(table \cup batch)
  /\ UNCHANGED <<healthClock, scored, offset, alive, outcomesAlive, brokerUp,
                 brokerOk>>

\* The consumer thread dies and is restarted by its supervisor, from a
\* committed offset; what ConsumerState says of writes stays.
ConsumerDies ==
  /\ alive /\ alive' = FALSE /\ batch' = {}
  /\ \E o \in 0 .. offset : offset' = o /\ 1 .. o \subseteq table
  /\ UNCHANGED <<healthClock, scored, table, lastEvent, lastWrite,
                 outcomesAlive, brokerUp, brokerOk>>

ConsumerStarts ==
  /\ ~alive /\ brokerUp /\ alive' = TRUE
  /\ UNCHANGED <<healthClock, scored, offset, batch, table, lastEvent,
                 lastWrite, outcomesAlive, brokerUp, brokerOk>>

\* The same of the outcomes consumer.
OutcomesConsumer ==
  /\ outcomesAlive' = ~outcomesAlive
  /\ outcomesAlive \/ brokerUp
  /\ UNCHANGED <<healthClock, scored, offset, batch, table, lastEvent,
                 lastWrite, alive, brokerUp, brokerOk>>

\* External: the broker goes away and comes back.
Broker ==
  /\ brokerUp' = ~brokerUp
  /\ UNCHANGED <<healthClock, scored, offset, batch, table, stateVars,
                 brokerOk>>

\* One turn of probe_loop, on its own thread.
ProbeBroker ==
  /\ brokerOk' = brokerUp
  /\ UNCHANGED <<healthClock, scored, offset, batch, table, stateVars,
                 brokerUp>>

HealthTick ==
  /\ healthClock < MaxHealthClock
  /\ healthClock' = healthClock + 1
  /\ UNCHANGED <<scored, offset, batch, table, stateVars, brokerUp, brokerOk>>

HealthNext ==
  \/ Score \/ PollBatch \/ InsertBatch \/ ConsumerDies \/ ConsumerStarts
  \/ OutcomesConsumer \/ Broker \/ ProbeBroker \/ HealthTick

HealthSpec == HealthInit /\ [][HealthNext]_healthVars
-----------------------------------------------------------------------------
\* _is_fresh
IsRecent(ts) == ts # Never /\ healthClock - ts <= StaleSeconds

\* health_snapshot; the database answers.
HealthOk == alive /\ outcomesAlive /\ brokerOk /\ IsRecent(lastEvent)

\* _check_materializer: the reported ok, and the verdict "degraded".
PipelineRunning == HealthOk /\ IsRecent(lastEvent)
Degraded == PipelineRunning /\ ~IsRecent(lastWrite)
-----------------------------------------------------------------------------
HealthTypeOK ==
  /\ offset \in 0 .. Len(scored) /\ batch \subseteq 1 .. Len(scored)
  /\ table \subseteq 1 .. Len(scored)
  /\ lastEvent \in Never .. healthClock /\ lastWrite \in Never .. healthClock

(***************************************************************************)
(* ok = true means the table holds every event that was scored more than   *)
(* StaleSeconds ago, whatever died, was replayed or failed in between.     *)
(***************************************************************************)
OkMeansCaughtUp ==
  HealthOk =>
    \A i \in 1 .. Len(scored) :
      healthClock - scored[i] > StaleSeconds => i \in table

(***************************************************************************)
(* The verdict "degraded" (events arrive, nothing is written) is never     *)
(* given: last_event_ts is only set by a write, so it never is the newer   *)
(* of the two timestamps.                                                  *)
(***************************************************************************)
NeverDegraded == ~Degraded

\* The invariant of the health reports.
HealthInv == HealthTypeOK /\ OkMeansCaughtUp /\ NeverDegraded
=============================================================================
