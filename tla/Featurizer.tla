----------------------------- MODULE Featurizer -----------------------------
(***************************************************************************)
(* features/featurizer.py and features/parquet_sink.py: the process that   *)
(* consumes ticks.raw, publishes a feature row for every tick at once and  *)
(* its outcome one horizon later, and collects the labelled rows in a      *)
(* Parquet file.  One product, one partition.                              *)
(*                                                                         *)
(* `raw' is the topic; the message a poll returns is appended to it when   *)
(* the consumer first reads it, since nobody else looks.  The handling of  *)
(* one message is one step: the process is single threaded and only a      *)
(* crash can end it half way, which loses what the step had done anyway    *)
(* (the producer's queue, the sink's buffer, the memory).  A row that the  *)
(* producer's queue or the broker refuses is logged and given up, with no  *)
(* effect on the rest: `handed' has every row produce() was called with.   *)
(***************************************************************************)
EXTENDS Replay

CONSTANTS
  Window,      \* _DEDUPE_WINDOW
  FlushRows,   \* rows the sink buffers before it writes them out
  Steps,       \* how far the timestamp of the next message may move
  Prices,      \* the prices of the feed
  Kinds,       \* the kinds of message on it: TickKinds and "junk"
  MaxRaw,      \* bound: messages on the topic
  MaxBoots     \* bound: starts of the process

ASSUME FeaturizerAssumption ==
  /\ Window \in Nat \ {0}
  /\ FlushRows \in Nat \ {0}
  /\ Steps \subseteq Int
  /\ Prices \subseteq Nat
  /\ Kinds \subseteq TickKinds \cup {"junk"}
  /\ MaxRaw \in Nat
  /\ MaxBoots \in Nat \ {0}

VARIABLES
  raw,         \* ticks.raw
  committed,   \* the group's offset, advanced behind the consumer's back
  pos,         \* the consumer's position in this boot
  boot,        \* boot_id: one per process start
  mode,        \* "running", "closing", "stopped", "failed", "down"
  stream,      \* ProductStream without its engine
  engine,      \* its FeatureEngine
  sink,        \* AtomicParquetSink: buffer and temporary file
  target,      \* the Parquet file readers see
  handed,      \* ghost: rows produce() was called with
  labelled     \* ghost: labelled rows of this boot, in order

featVars == <<raw, committed, pos, boot, mode, stream, engine, sink, target,
          handed, labelled>>

\* What ws_ingest.py or replay_to_kafka.py may put on the topic next: a tick
\* some way before or after the last one.  Prices tell apart ticks of one
\* timestamp, so only a good tick that repeats one varies its price.
Messages ==
  LET last == IF raw = <<>> THEN 0 ELSE raw[Len(raw)].ts
      price(k, d) == IF k = "ok" /\ d = 0 THEN Prices ELSE {1}
  IN  {[ts |-> last + x[1], price |-> x[3], kind |-> x[2], off |-> pos + 1] :
         x \in {y \in Steps \X Kinds \X Prices :
                 last + y[1] >= 0 /\ y[3] \in price(y[2], y[1])}}

\* ProductStream.__init__
StreamInit == [epoch |-> 0, seq |-> 0, lastTs |-> -1, recent |-> <<>>]

\* AtomicParquetSink.__init__: the writer of the temporary file is opened by
\* the first flush.
SinkInit == [buf |-> <<>>, open |-> FALSE, tmp |-> <<>>]

FeatInit ==
  /\ raw = <<>>
  /\ committed = 0 /\ pos = 0
  /\ boot = 1 /\ mode = "running"
  /\ stream = StreamInit /\ engine = FeatureEngineInit
  /\ sink = SinkInit /\ target = <<>>
  /\ handed = {} /\ labelled = <<>>
-----------------------------------------------------------------------------
\* _flush and write of the sink.
FlushSink(s) ==
  IF s.buf = <<>> THEN s
  ELSE [buf |-> <<>>, open |-> TRUE,
        tmp |-> (IF s.open THEN s.tmp ELSE <<>>) \o s.buf]

WriteRow(s, row) ==
  LET more == [s EXCEPT !.buf = Append(@, row)]
  IN  IF Len(more.buf) >= FlushRows THEN FlushSink(more) ELSE more

\* close: what the target becomes, when the rename succeeds.
CloseSink(s) == FlushSink(s)

\* Slip: the epoch stays.
RegressInPlace(s, ts) ==
  IF s.lastTs # -1 /\ ts < s.lastTs
  THEN [epoch |-> s.epoch, seq |-> 0, lastTs |-> ts, recent |-> <<>>]
  ELSE [s EXCEPT !.lastTs = ts]

\* A timestamp before the last one starts a new epoch and forgets the keys.
Regress(s, ts) ==
  IF s.lastTs # -1 /\ ts < s.lastTs
  THEN [epoch |-> s.epoch + 1, seq |-> 0, lastTs |-> ts, recent |-> <<>>]
  ELSE [s EXCEPT !.lastTs = ts]

\* _is_redelivery: the keys of the last Window ticks, oldest first.
IsRedelivery(s, tick) == TickDedupeKey(tick) \in Range(s.recent)
\* Slip: only the last key is remembered.
RememberLast(s, tick) == [s EXCEPT !.recent = <<TickDedupeKey(tick)>>]

\* The tick's key is remembered, the oldest one forgotten.
Remember(s, tick) ==
  [s EXCEPT !.recent = Append(IF Len(@) = Window THEN Tail(@) ELSE @,
                              TickDedupeKey(tick))]

\* feature_id, with the boot and the epoch it is made of.
FeatureId(s) == <<boot, s.epoch, s.seq>>

Row(kind, id, off, ts, vol) ==
  [kind |-> kind, id |-> id, off |-> off, ts |-> ts, vol |-> vol]

Outcomes(drained) ==
  {Row("outcome", d.tag, d.off, d.ts, d.vol) : d \in Range(drained)}

(***************************************************************************)
(* ProductStream.ingest.  The stream has moved on (epoch, last timestamp,  *)
(* remembered key) when the engine raises; only `seq' has not.             *)
(***************************************************************************)
Ingest(tick) ==
  LET regressed == Regress(stream, tick.ts)
      remembered == Remember(regressed, tick)
      r == IngestWithTag(engine, tick, FeatureId(regressed))
  IN  IF IsRedelivery(regressed, tick)
      THEN [stream |-> regressed, engine |-> engine, rows |-> {},
            drained |-> <<>>]
      ELSE IF r.raised
      THEN [stream |-> remembered, engine |-> r.engine, rows |-> {},
            drained |-> <<>>]
      ELSE [stream |-> [remembered EXCEPT !.seq = @ + 1],
            engine |-> r.engine,
            rows |-> {Row("feature", FeatureId(regressed), tick.off, tick.ts,
                          {})},
            drained |-> r.drained]

\* The loop over the drained rows: each goes to the sink whether or not the
\* producer takes its outcome.
WriteRows(s, drained) ==
  LET written[k \in 0 .. Len(drained)] ==
        IF k = 0 THEN s ELSE WriteRow(written[k - 1], drained[k])
  IN  written[Len(drained)]

(***************************************************************************)
(* One turn of main's loop.  A message that is no JSON or has no usable    *)
(* timestamp is skipped.                                                   *)
(***************************************************************************)
HandleMessage(m) ==
  LET r == Ingest(m)
  IN  IF m.kind = "junk"
      THEN UNCHANGED <<stream, engine, sink, handed, labelled>>
      ELSE /\ stream' = r.stream
           /\ engine' = r.engine
           /\ sink' = WriteRows(sink, r.drained)
           /\ labelled' = labelled \o r.drained
           /\ handed' = handed \cup r.rows \cup Outcomes(r.drained)

Poll ==
  /\ mode = "running"
  /\ \/ /\ pos < Len(raw)
        /\ HandleMessage(raw[pos + 1])
        /\ UNCHANGED raw
     \/ /\ pos = Len(raw) /\ Len(raw) < MaxRaw
        /\ \E m \in Messages : raw' = Append(raw, m) /\ HandleMessage(m)
  /\ pos' = pos + 1
  /\ UNCHANGED <<committed, boot, mode, target>>

\* Slip: what is pending is not drained.
ShutdownUndrained ==
  /\ mode = "running"
  /\ committed' = pos /\ mode' = "closing"
  /\ UNCHANGED <<raw, pos, boot, stream, engine, sink, target, handed, labelled>>

\* A stop signal: drain what can still be labelled, flush the producer,
\* close the consumer, which commits its position.  A label that raises here
\* ends the process.
Shutdown ==
  /\ mode = "running"
  /\ LET r == DrainRemaining(engine)
     IN  /\ engine' = r.engine
         /\ sink' = WriteRows(sink, r.drained)
         /\ labelled' = labelled \o r.drained
         /\ handed' = handed \cup Outcomes(r.drained)
         /\ committed' = IF r.raised THEN committed ELSE pos
         /\ mode' = IF r.raised THEN "down" ELSE "closing"
  /\ UNCHANGED <<raw, pos, boot, stream, target>>

\* sink.close, the last thing main does.  Without rows the target is left
\* alone; a rename that fails keeps the temporary file and raises.
Close ==
  /\ mode = "closing"
  /\ \/ /\ sink.buf = <<>> /\ ~sink.open
        /\ mode' = "stopped"
        /\ UNCHANGED <<sink, target>>
     \/ /\ sink.buf # <<>> \/ sink.open
        /\ target' = CloseSink(sink).tmp
        /\ sink' = SinkInit
        /\ mode' = "stopped"
     \/ /\ sink.buf # <<>> \/ sink.open
        /\ sink' = CloseSink(sink)
        /\ mode' = "failed"
        /\ UNCHANGED target
  /\ UNCHANGED <<raw, committed, pos, boot, stream, engine, handed, labelled>>

\* The process dies.  The background commit has stored any position up to
\* that of the last message polled, which may not have been handled.
Crash ==
  /\ mode \in {"running", "closing"}
  /\ \E c \in committed .. Len(raw) :
       /\ c <= pos + 1
       /\ committed' = IF mode = "closing" THEN committed ELSE c
  /\ mode' = "down"
  /\ UNCHANGED <<raw, pos, boot, stream, engine, sink, target, handed,
                 labelled>>

\* A new process: a boot id of its own, everything in memory fresh, and the
\* position from the stable group's committed offset.
Start ==
  /\ mode \in {"down", "stopped", "failed"} /\ boot < MaxBoots
  /\ boot' = boot + 1
  /\ mode' = "running"
  /\ pos' = committed
  /\ stream' = StreamInit /\ engine' = FeatureEngineInit /\ sink' = SinkInit
  /\ labelled' = <<>>
  /\ UNCHANGED <<raw, committed, target, handed>>

FeatNext == Poll \/ Shutdown \/ Close \/ Crash \/ Start

FeatSpec == FeatInit /\ [][FeatNext]_featVars
-----------------------------------------------------------------------------
FeatTypeOK ==
  /\ committed \in 0 .. Len(raw) /\ pos \in 0 .. Len(raw)
  /\ boot \in 1 .. MaxBoots
  /\ mode \in {"running", "closing", "stopped", "failed", "down"}
  /\ stream.epoch \in Nat /\ stream.seq \in Nat
  /\ Len(stream.recent) <= Window
  /\ Len(sink.buf) <= FlushRows

(***************************************************************************)
(* A feature_id names one tick, over every restart, epoch, refused tick    *)
(* and redelivery of the topic: two rows handed to the producer under one  *)
(* id come from the same tick, and there is one feature and one outcome.   *)
(***************************************************************************)
IdentityHolds ==
  \A a, b \in handed :
    a.id = b.id => a.off = b.off /\ (a.kind = b.kind => a = b)

\* Where a price was zero it does not hold: a label that raises on it leaves
\* the tick in hand pending, and the next tick is given its id.
NoZeroPrice == \A k \in DOMAIN raw : raw[k].price # 0

\* No two feature rows share an id, whatever the prices were: the tick that is
\* left pending under the next one's id has no feature row.
FeatureIdsOwn ==
  \A a, b \in handed :
    a.kind = "feature" /\ b.kind = "feature" /\ a.id = b.id => a = b

\* The invariant of the stream's names.
StreamInv == FeatTypeOK /\ FeatureIdsOwn /\ (NoZeroPrice => IdentityHolds)

(***************************************************************************)
(* A label is computed from the ticks of its row's own horizon, all of     *)
(* them that the topic carried up to the last one used, the first Slack    *)
(* excepted, however the buffer was pruned, reset or drained by force.     *)
(***************************************************************************)
LabelWhole ==
  \A o \in {r \in handed : r.kind = "outcome"} :
    LET last == CHOOSE k \in o.vol : \A j \in o.vol : j <= k
    IN  /\ \A k \in o.vol : raw[k].ts \in o.ts .. o.ts + Horizon
        /\ raw[last].ts >= o.ts + Horizon - Slack
        /\ \A k \in o.off .. last :
             raw[k].kind = "ok" /\ raw[k].ts \in o.ts + Slack .. o.ts + Horizon
               => \E j \in o.vol : TickDedupeKey(raw[j]) = TickDedupeKey(raw[k])

(***************************************************************************)
(* Within one epoch a tick that is delivered twice gets one feature row,   *)
(* unless Window messages or more came between.                            *)
(***************************************************************************)
DedupeHolds ==
  \A a, b \in {r \in handed : r.kind = "feature"} :
    /\ a.off < b.off
    /\ <<a.id[1], a.id[2]>> = <<b.id[1], b.id[2]>>
    /\ TickDedupeKey(raw[a.off]) = TickDedupeKey(raw[b.off])
    => b.off - a.off > Window

(***************************************************************************)
(* The training file of a session that stopped cleanly has every row that  *)
(* was labelled, in order, whether or not its outcome could be published.  *)
(***************************************************************************)
CleanStopKeepsRows ==
  mode = "stopped" /\ labelled # <<>> => target = labelled

\* Every row is labelled whole, handed over once, and kept.
RowsInv == LabelWhole /\ DedupeHolds /\ CleanStopKeepsRows

(***************************************************************************)
(* Serving and training agree: the rows a clean first session labels are   *)
(* those replay.py builds from the same ticks in two mirror files, when    *)
(* the ticks came in order and no repeat lies further back than Window.    *)
(***************************************************************************)
InOrder == \A i \in 2 .. pos : raw[i - 1].ts <= raw[i].ts
RepeatsNear ==
  \A i, j \in 1 .. pos :
    i < j /\ TickDedupeKey(raw[i]) = TickDedupeKey(raw[j]) => j - i <= Window
Unlabelled(rows) == [i \in DOMAIN rows |-> [off |-> rows[i].off, vol |-> rows[i].vol]]

OfflineParity ==
  mode = "stopped" /\ boot = 1 /\ InOrder /\ RepeatsNear =>
    LET half == pos \div 2
        files == <<SubSeq(raw, 1, half), SubSeq(raw, half + 1, pos)>>
    IN  Unlabelled(labelled) = Unlabelled(OfflineRows(files))
=============================================================================
