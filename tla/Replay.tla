------------------------------ MODULE Replay ------------------------------
(***************************************************************************)
(* scripts/replay.py: the offline builder.  It merges NDJSON files by      *)
(* timestamp, drops the repeats of one timestamp and feeds the rest to the *)
(* same FeatureEngine as the live featurizer.  A file is a sequence of     *)
(* ticks; a line that is no tick has kind "junk".                          *)
(***************************************************************************)
EXTENDS FeatureEngine

\* tick_dedupe_key: what makes two ticks the same tick.
TickDedupeKey(tick) == <<tick.ts, tick.price, tick.kind>>

\* _iter_file_ticks: lines that do not parse are skipped.
FileTicks(file) == Masked(file, {i \in DOMAIN file : file[i].kind # "junk"})

(***************************************************************************)
(* iter_ticks: a heap holds the next tick of every file, keyed by its      *)
(* timestamp and then by the file's place in the sorted list.              *)
(***************************************************************************)
MergeInit(files) ==
  [next |-> [i \in DOMAIN files |-> 1], out |-> <<>>, ts |-> -1, seen |-> {}]

MergeStep(files, m) ==
  LET left == {i \in DOMAIN files : m.next[i] <= Len(files[i])}
      head(i) == files[i][m.next[i]]
      first == CHOOSE i \in left : \A j \in left \ {i} :
                 \/ head(i).ts < head(j).ts
                 \/ head(i).ts = head(j).ts /\ i < j
      tick == head(first)
      seen == IF m.ts = tick.ts THEN m.seen ELSE {}
      key == TickDedupeKey(tick)
  IN  [next |-> [m.next EXCEPT ![first] = @ + 1],
       out |-> IF key \in seen THEN m.out ELSE Append(m.out, tick),
       ts |-> tick.ts,
       seen |-> seen \cup {key}]

IterTicks(files) ==
  LET parsed == [i \in DOMAIN files |-> FileTicks(files[i])]
      total == Cardinality(UNION {{i} \X DOMAIN parsed[i] : i \in DOMAIN files})
      merged[k \in 0 .. total] ==
        IF k = 0 THEN MergeInit(files) ELSE MergeStep(parsed, merged[k - 1])
  IN  merged[total].out

\* main: every tick through the engine, a tick that raises is skipped.
BuildStep(b, tick) ==
  LET r == IngestWithTag(b.engine, tick, <<>>)
  IN  [engine |-> r.engine, rows |-> b.rows \o r.drained]

\* main's whole output: what is drained on the way, then what is left.
OfflineRows(files) ==
  LET ticks == IterTicks(files)
      built[k \in 0 .. Len(ticks)] ==
        IF k = 0 THEN [engine |-> FeatureEngineInit, rows |-> <<>>]
        ELSE BuildStep(built[k - 1], ticks[k])
      b == built[Len(ticks)]
  IN  b.rows \o DrainRemaining(b.engine).drained
=============================================================================
