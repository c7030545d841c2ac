--------------------------- MODULE FeatureEngine ---------------------------
(***************************************************************************)
(* btcspiker_ml/features.py with features/feature_funcs.py: the causal     *)
(* engine that turns ticks into feature rows and, one horizon later, into  *)
(* labelled rows.  It is shared by the live featurizer (Featurizer.tla)    *)
(* and the offline builder (OfflineRows there).                            *)
(*                                                                         *)
(* A tick keeps its timestamp, its price and its kind; `off' names it (its *)
(* position in the input) and stands for every other column.  A computed   *)
(* volatility is abstracted to the set of ticks it is computed from.       *)
(***************************************************************************)
EXTENDS Sequences, FiniteSetsExt, Functions, Masks

CONSTANTS
  Horizon,   \* horizon_seconds: the label looks this far ahead
  Slack,     \* the 2 s by which a label window may fall short of the horizon
  Lookback,  \* the rolling window of core_v1
  MaxAge     \* buffer_max_age: how long a price stays in the buffer

ASSUME EngineAssumption ==
  /\ Horizon \in Nat \ {0}
  /\ Slack \in 0 .. Horizon
  /\ Lookback \in Nat
  /\ MaxAge \in Nat

\* Kinds of tick, by where they make the engine raise: "ok" nowhere,
\* "missing" in _validate_tick (a column is absent), "text" in float(price),
\* after a reset but before anything is stored.
TickKinds == {"ok", "missing", "text"}

\* What compute_future_vol gives beside the ticks it used; no tick is number 0.
NoLabel == {}       \* None
MathError == {0}    \* math.log of zero raised

FeatureEngineInit == [prices |-> <<>>, pending |-> <<>>]

LastTs(prices) == prices[Len(prices)].ts

\* _reset: every buffer and the pending rows.
ResetEngine == FeatureEngineInit

\* A tick older than the newest one in the buffers resets the engine.
ResetOnRegression(e, ts) ==
  IF e.prices # <<>> /\ ts < LastTs(e.prices) THEN ResetEngine ELSE e

\* _prune: prices leave from the left up to the first that is not too old; the
\* newest is not.
Prune(prices, now) ==
  LET fresh == {i \in DOMAIN prices : prices[i].ts >= now - MaxAge}
  IN  SubSeq(prices, Min(fresh), Len(prices))

\* compute_return raises when a price of zero follows a positive one.
ReturnRaises(p, q) == q.price = 0 /\ p.price > 0
ReturnsRaise(w) == \E i \in 2 .. Len(w) : ReturnRaises(w[i - 1], w[i])

\* compute_rolling_stats and the log return of the newest tick, as
\* _feature_row asks for them.
RowRaises(prices) ==
  LET n == Len(prices)
  IN  \/ n > 1 /\ ReturnRaises(prices[n - 1], prices[n])
      \/ ReturnsRaise(Masked(prices,
           {i \in 1 .. n : prices[i].ts >= LastTs(prices) - Lookback}))

\* The slice _drain_tagged labels a row from, and compute_future_vol on it.
FutureWindow(prices, ts) ==
  Masked(prices, {i \in DOMAIN prices : prices[i].ts \in ts .. ts + Horizon})

\* compute_future_vol: None unless the window nearly spans the horizon.
FutureVol(w) ==
  IF Len(w) < 2 \/ w[Len(w)].ts < w[1].ts + Horizon - Slack THEN NoLabel
  ELSE IF ReturnsRaise(w) THEN MathError
  ELSE {w[i].off : i \in 1 .. Len(w)}

\* The rows the loop takes before it breaks: up to the first that is not due.
Due(pending, now, force) ==
  LET early == {i \in DOMAIN pending : ~force /\ now - pending[i].ts < Horizon}
  IN  IF early = {} THEN pending ELSE SubSeq(pending, 1, Min(early) - 1)

(***************************************************************************)
(* _drain_tagged: the due rows leave `pending' from the left.  One that    *)
(* gets no label is dropped; one whose label raises is dropped too, and    *)
(* takes with it what this call had collected.                             *)
(***************************************************************************)
DrainTagged(e, now, force) ==
  LET due == Due(e.pending, now, force)
      rows == [i \in DOMAIN due |->
                [tag |-> due[i].tag, ts |-> due[i].ts, off |-> due[i].off,
                 vol |-> FutureVol(FutureWindow(e.prices, due[i].ts))]]
      bad == {i \in DOMAIN due : rows[i].vol = MathError}
      popped == IF bad = {} THEN Len(due) ELSE Min(bad)
  IN  [raised |-> bad # {},
       engine |-> [e EXCEPT !.pending = SubSeq(@, popped + 1, Len(@))],
       drained |-> IF bad # {} THEN <<>>
                   ELSE Masked(rows, {i \in DOMAIN due : rows[i].vol # NoLabel})]

(***************************************************************************)
(* ingest_with_tag: validate, reset on a regression, store the tick, prune,*)
(* compute its row, make it pending, drain.  The engine keeps whatever it  *)
(* had stored when it raises.                                              *)
(***************************************************************************)
IngestWithTag(e, tick, tag) ==
  LET reset == ResetOnRegression(e, tick.ts)
      stored == [reset EXCEPT !.prices = Prune(Append(@,
                   [ts |-> tick.ts, price |-> tick.price, off |-> tick.off]),
                   tick.ts)]
      waiting == [stored EXCEPT !.pending = Append(@,
                   [ts |-> tick.ts, off |-> tick.off, tag |-> tag])]
      failed(after) == [raised |-> TRUE, engine |-> after, drained |-> <<>>]
  IN  IF tick.kind = "missing" THEN failed(e)
      ELSE IF tick.kind = "text" THEN failed(reset)
      ELSE IF RowRaises(stored.prices) THEN failed(stored)
      ELSE DrainTagged(waiting, tick.ts, FALSE)

\* drain_remaining_tagged, on shutdown.
DrainRemaining(e) ==
  IF e.prices = <<>> THEN [raised |-> FALSE, engine |-> e, drained |-> <<>>]
  ELSE DrainTagged(e, LastTs(e.prices), TRUE)
=============================================================================
