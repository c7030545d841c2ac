------------------------------- MODULE Bridge -------------------------------
(***************************************************************************)
(* scripts/feature_to_predict_bridge.py: one consumer reads ticks.features *)
(* (one partition), POSTs each row to /predict until the API answers, and  *)
(* publishes the score to ticks.predictions until its delivery is known;   *)
(* only then it commits, asynchronously, the offset after the message.     *)
(*                                                                         *)
(* A prediction event is its event_id, the offset of its feature message.  *)
(* The message in hand is always the one before pos: a reassignment, which *)
(* moves pos, can happen only inside poll.                                 *)
(***************************************************************************)
EXTENDS Integers, Sequences, FiniteSets

CONSTANTS
  Feature,      \* the messages of ticks.features, by what _build_row makes
                \* of them
  FaultKinds,   \* the faults this instance admits
  MaxFaults     \* bound on the number of faults

Kinds == {"api", "reject", "flush", "drop", "commit", "evict", "raise",
          "kill", "stop"}

\* "row" is a JSON object; "malformed" raises one of the errors main catches;
\* "unreadable" is JSON but no object: _build_row raises AttributeError.
ASSUME FeatureAssumption == Feature \in Seq({"row", "malformed", "unreadable"})
ASSUME BoundsAssumption == FaultKinds \subseteq Kinds /\ MaxFaults \in Nat

VARIABLES
  committed,    \* the group's offset at the broker; none is 0 (earliest)
  commits,      \* asynchronous commits on their way
  joined,       \* the consumer is a member of its group
  pos,          \* next offset the consumer will poll
  pc,           \* where main is
  stop,         \* SIGTERM or SIGINT was seen
  queue,        \* the producer's queue of unconfirmed events
  ok,           \* delivered["ok"] of the current _publish_prediction
  topic,        \* ticks.predictions, oldest first; the copies after the
                \* first of an event carry its event_id and are left out
  skipped,      \* history: messages given up after a 4xx
  faults        \* number of faults so far

vars == <<committed, commits, joined, pos, pc, stop, queue, ok, topic,
          skipped, faults>>

Offsets == 0..(Len(Feature) - 1)
Kind(o) == Feature[o + 1]
InHand == pos - 1
Delivered == {topic[i] : i \in DOMAIN topic}

Fault(kind) ==
  /\ kind \in FaultKinds
  /\ faults < MaxFaults
  /\ faults' = faults + 1

Init ==
  /\ committed = 0
  /\ commits = {}
  /\ joined = FALSE
  /\ pos = 0
  /\ pc = "down"
  /\ stop = FALSE
  /\ queue = <<>>
  /\ ok = FALSE
  /\ topic = <<>>
  /\ skipped = {}
  /\ faults = 0

-----------------------------------------------------------------------------
\* Slip: a group without an offset starts at the latest message.
BootLatest ==
  /\ pc = "down"
  /\ joined' = TRUE
  /\ pos' = IF committed = 0 THEN Len(Feature) ELSE committed
  /\ pc' = "poll"
  /\ stop' = FALSE
  /\ UNCHANGED <<committed, commits, queue, ok, topic, skipped, faults>>

\* Compose starts the process: Kafka and the API answer, the group assigns.
Boot ==
  /\ pc = "down"
  /\ joined' = TRUE
  /\ pos' = committed
  /\ pc' = "poll"
  /\ stop' = FALSE
  /\ UNCHANGED <<committed, commits, queue, ok, topic, skipped, faults>>

\* consumer.commit(message=msg): asynchronous, its result is never read.
SendCommit(next) == commits' = commits \cup {next}

\* poll returns a message.  A malformed one is committed and skipped; one
\* that is no object raises out of the loop.
Poll ==
  /\ pc = "poll" /\ joined /\ ~stop
  /\ pos < Len(Feature)
  /\ pos' = pos + 1
  /\ \/ /\ Kind(pos) = "row"
        /\ pc' = "post"
        /\ UNCHANGED commits
     \/ /\ Kind(pos) = "malformed"
        /\ pc' = "poll"
        /\ SendCommit(pos + 1)
     \/ /\ Kind(pos) = "unreadable"
        /\ pc' = "closing"
        /\ UNCHANGED commits
  /\ UNCHANGED <<committed, joined, stop, queue, ok, topic, skipped, faults>>

\* _post_prediction gets a score.
PostScored ==
  /\ pc = "post" /\ ~stop
  /\ pc' = "publish"
  /\ UNCHANGED <<committed, commits, joined, pos, stop, queue, ok, topic,
                 skipped, faults>>

\* It gets a 4xx: the row is skipped.
PostRejected ==
  /\ pc = "post" /\ ~stop
  /\ Fault("reject")
  /\ skipped' = skipped \cup {InHand}
  /\ SendCommit(pos)
  /\ pc' = "poll"
  /\ UNCHANGED <<committed, joined, pos, stop, queue, ok, topic>>

\* It gets a 5xx, no connection or a malformed body: the row is sent again.
PostFails ==
  /\ pc = "post"
  /\ Fault("api")
  /\ UNCHANGED <<committed, commits, joined, pos, pc, stop, queue, ok, topic,
                 skipped>>

\* Slip: a retry starts from the last call's delivered["ok"].
ProduceStale ==
  /\ pc = "publish" /\ ~stop
  /\ queue' = Append(queue, InHand)
  /\ pc' = "flushing"
  /\ UNCHANGED <<committed, commits, joined, pos, stop, ok, topic, skipped, faults>>

\* _publish_prediction: produce, then flush.
Produce ==
  /\ pc = "publish" /\ ~stop
  /\ queue' = Append(queue, InHand)
  /\ ok' = FALSE
  /\ pc' = "flushing"
  /\ UNCHANGED <<committed, commits, joined, pos, stop, topic, skipped, faults>>

\* The broker takes the oldest queued event; when it is the last, it is the
\* event of the current call, whose callback notes it.
Deliver ==
  /\ queue # <<>>
  /\ topic' = IF Head(queue) \in Delivered THEN topic ELSE Append(topic, Head(queue))
  /\ queue' = Tail(queue)
  /\ ok' = (ok \/ (pc = "flushing" /\ Len(queue) = 1))
  /\ UNCHANGED <<committed, commits, joined, pos, pc, stop, skipped, faults>>

\* Delivery of the oldest queued event fails for good.
Drop ==
  /\ queue # <<>>
  /\ Fault("drop")
  /\ queue' = Tail(queue)
  /\ UNCHANGED <<committed, commits, joined, pos, pc, stop, ok, topic, skipped>>

\* flush returns and the event is known to be delivered: it is committed,
\* unless the bridge is stopping.
Published ==
  /\ pc = "flushing" /\ ok
  /\ IF stop
     THEN pc' = "closing" /\ UNCHANGED commits
     ELSE pc' = "poll" /\ SendCommit(pos)
  /\ UNCHANGED <<committed, joined, pos, stop, queue, ok, topic, skipped, faults>>

\* Slip: an unconfirmed event is committed and left behind.
LeaveUnconfirmed ==
  /\ pc = "flushing"
  /\ \/ queue = <<>> /\ ~ok /\ UNCHANGED faults
     \/ Fault("flush")
  /\ pc' = "poll"
  /\ SendCommit(pos)
  /\ UNCHANGED <<committed, joined, pos, stop, queue, ok, topic, skipped>>

\* flush returns without the event: its delivery failed, or the time is up
\* (the event may still be queued, or just have been delivered).
Unconfirmed ==
  /\ pc = "flushing"
  /\ \/ queue = <<>> /\ ~ok /\ UNCHANGED faults
     \/ Fault("flush")
  /\ pc' = "publish"
  /\ UNCHANGED <<committed, commits, joined, pos, stop, queue, ok, topic, skipped>>

\* while not stop: every loop of main ends.
StopSeen ==
  /\ stop /\ pc \in {"poll", "post", "publish"}
  /\ pc' = "closing"
  /\ UNCHANGED <<committed, commits, joined, pos, stop, queue, ok, topic,
                 skipped, faults>>

\* The finally block has flushed what it could; consumer.close commits
\* nothing, for enable.auto.commit is off.
Gone ==
  /\ pc' = "down"
  /\ joined' = FALSE
  /\ commits' = {}
  /\ queue' = <<>>
  /\ UNCHANGED <<committed, pos, stop, ok, topic, skipped>>

Exit == pc = "closing" /\ Gone /\ UNCHANGED faults

-----------------------------------------------------------------------------
\* A commit reaches the coordinator; librdkafka's retries let a commit
\* overtake another.
CommitArrives ==
  /\ joined
  /\ \E next \in commits :
       /\ committed' = next
       /\ commits' = commits \ {next}
  /\ UNCHANGED <<joined, pos, pc, stop, queue, ok, topic, skipped, faults>>

CommitLost ==
  /\ \E next \in commits : commits' = commits \ {next}
  /\ IF joined THEN Fault("commit") ELSE UNCHANGED faults
  /\ UNCHANGED <<committed, joined, pos, pc, stop, queue, ok, topic, skipped>>

\* The group drops the consumer, as when an outage of the API keeps main
\* from polling for max.poll.interval.ms; the next poll joins again.
Evict ==
  /\ joined
  /\ Fault("evict")
  /\ joined' = FALSE
  /\ UNCHANGED <<committed, commits, pos, pc, stop, queue, ok, topic, skipped>>

Rejoin ==
  /\ pc = "poll" /\ ~joined /\ ~stop
  /\ joined' = TRUE
  /\ pos' = committed
  /\ UNCHANGED <<committed, commits, pc, stop, queue, ok, topic, skipped, faults>>

\* An error main does not catch: a connection lost while the answer is read.
Raise ==
  /\ pc = "post"
  /\ Fault("raise")
  /\ pc' = "closing"
  /\ UNCHANGED <<committed, commits, joined, pos, stop, queue, ok, topic, skipped>>

Kill == pc # "down" /\ Gone /\ Fault("kill")

Stop ==
  /\ pc # "down" /\ ~stop
  /\ Fault("stop")
  /\ stop' = TRUE
  /\ UNCHANGED <<committed, commits, joined, pos, pc, queue, ok, topic, skipped>>

\* poll returns nothing.
Wait == pc = "poll" /\ UNCHANGED vars

Next ==
  \/ Boot \/ Poll \/ PostScored \/ PostRejected \/ PostFails
  \/ Produce \/ Deliver \/ Drop \/ Published \/ Unconfirmed \/ StopSeen \/ Exit
  \/ CommitArrives \/ CommitLost \/ Evict \/ Rejoin \/ Raise \/ Kill \/ Stop
  \/ Wait

Spec == Init /\ [][Next]_vars

\* The process runs and is started again; the broker delivers, the API scores.
Fairness ==
  /\ WF_vars(Boot) /\ WF_vars(Poll) /\ WF_vars(Rejoin) /\ WF_vars(PostScored)
  /\ WF_vars(Produce) /\ WF_vars(Deliver) /\ WF_vars(Published)
  /\ WF_vars(Unconfirmed) /\ WF_vars(StopSeen) /\ WF_vars(Exit)

FairSpec == Spec /\ Fairness

-----------------------------------------------------------------------------
\* The type of every variable.
TypeOK ==
  /\ committed \in 0..Len(Feature)
  /\ commits \subseteq 0..Len(Feature)
  /\ joined \in BOOLEAN
  /\ pos \in 0..Len(Feature)
  /\ pc \in {"down", "poll", "post", "publish", "flushing", "closing"}
  /\ stop \in BOOLEAN
  /\ queue \in Seq(Offsets)
  /\ ok \in BOOLEAN
  /\ topic \in Seq(Offsets)
  /\ skipped \subseteq Offsets
  /\ faults \in Nat
  /\ pc \in {"post", "publish", "flushing"} => InHand \in Offsets

Malformed == {o \in Offsets : Kind(o) = "malformed"}
\* A message that needs nothing more: its prediction is in ticks.predictions,
\* or it has none.
Settled == Delivered \cup Malformed \cup skipped

SettledBelow(n) == 0..(n - 1) \subseteq Settled

\* docker-compose.yaml: offsets are committed only after the API hop (and the
\* publish) succeeded, so no crash, stop, eviction, lost commit or
\* unconfirmed publish makes the group pass a message that is not settled.
CommittedIsSettled == SettledBelow(committed)

\* Why: commits on their way and the consumer's position have only settled
\* messages below them, and ok is set only by a delivery.
IInv ==
  /\ TypeOK
  /\ CommittedIsSettled
  /\ \A next \in commits : SettledBelow(next)
  /\ pc = "poll" => SettledBelow(pos)
  /\ pc \in {"post", "publish", "flushing"} => SettledBelow(InHand)
  /\ pc = "flushing" /\ ok => InHand \in Delivered
  /\ pc = "flushing" /\ queue # <<>> => queue[Len(queue)] = InHand

\* Events first enter ticks.predictions in the order of ticks.features; only
\* one the API rejected and, after a restart, scored may come late.
FirstsInOrder ==
  \A i, j \in DOMAIN topic :
    i < j => topic[i] < topic[j] \/ topic[j] \in skipped

\* Every message up to the first that crashes the bridge is settled in the
\* end: no error, retry or restart blocks the ones behind it for good.
EventuallySettled ==
  \A o \in Offsets :
    (\A q \in 0..o : Kind(q) # "unreadable") => <>(o \in Settled)

\* The bridge is a projection of ticks.features onto ticks.predictions.
Abstract == INSTANCE Projection WITH
  Streams <- {"features"},
  Partitions <- {0},
  Length <- [s \in {"features"} |-> [p \in {0} |-> Len(Feature)]],
  RowLess <- [s \in {"features"} |-> [p \in {0} |-> Malformed]],
  projected <- [s \in {"features"} |-> [p \in {0} |-> Settled]],
  acked <- [s \in {"features"} |-> [p \in {0} |-> committed]]

\* Events are only added to ticks.predictions, and only offsets with nothing
\* unsettled below them are committed.
ImplementsProjection == Abstract!Spec
=============================================================================
