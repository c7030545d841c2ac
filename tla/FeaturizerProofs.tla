-------------------------- MODULE FeaturizerProofs --------------------------
(***************************************************************************)
(* Proofs about the featurizer: the rows it hands over and their labels    *)
(* (Featurizer), and the same rows built offline by replay.py (Replay),    *)
(* for any feed, prices, restarts and bounds.                              *)
(***************************************************************************)
EXTENDS Featurizer, MaskProofs

-----------------------------------------------------------------------------
(***************************************************************************)
(* Featurizer: identity, labels and the training file.                     *)
(***************************************************************************)
LEMMA MinOf ==
  ASSUME NEW S \in SUBSET Nat, S # {}
  PROVE  Min(S) \in S /\ \A n \in S : Min(S) <= n
BY SmallestOf DEF Min

Tick == [ts : Nat, price : Nat, kind : TickKinds \cup {"junk"}, off : Nat]
Tag == Nat \X Nat \X Nat
Priced == [ts : Nat, price : Nat, off : Nat]
Waiting == [ts : Nat, off : Nat, tag : Tag]
Drained == [tag : Tag, ts : Nat, off : Nat, vol : SUBSET Nat]
HandedRow == [kind : {"feature", "outcome"}, id : Tag, off : Nat, ts : Nat,
              vol : SUBSET Nat]

\* What is in the buffer: good ticks of the topic t up to place p, in order.
PricesTrue(t, prices, p) ==
  /\ prices \in Seq(Priced)
  /\ \A i \in 1 .. Len(prices) :
       LET k == prices[i].off
       IN  /\ k \in 1 .. p
           /\ t[k].kind = "ok" /\ t[k].ts = prices[i].ts /\ t[k].price = prices[i].price
  /\ \A i, j \in 1 .. Len(prices) :
       i < j => prices[i].ts <= prices[j].ts /\ prices[i].off < prices[j].off

\* No price of zero, in the buffer or on the topic: a return to one raises.
Positive(prices) == \A i \in 1 .. Len(prices) : prices[i].price # 0
NoZero(t) == \A k \in 1 .. Len(t) : t[k].price # 0

LEMMA PositiveOf ==
  ASSUME NEW t, NEW p \in Nat, NEW prices, PricesTrue(t, prices, p),
         Len(t) \in Nat, p <= Len(t), NoZero(t)
  PROVE  Positive(prices)
<1> SUFFICES ASSUME NEW i \in 1 .. Len(prices) PROVE prices[i].price # 0
  BY DEF Positive
<1>1. /\ prices[i].off \in 1 .. p
      /\ t[prices[i].off].price = prices[i].price
  BY DEF PricesTrue
<1>2. prices[i].off \in 1 .. Len(t)
  BY <1>1
<1> QED BY <1>1, <1>2 DEF NoZero

\* A tick of this time and price is in the buffer, or older than all of it.
HeldKey(prices, ts, price) ==
  \/ \E i \in 1 .. Len(prices) : prices[i].ts = ts /\ prices[i].price = price
  \/ \A i \in 1 .. Len(prices) : ts < prices[i].ts

\* The buffer still has what the label of a pending row will need.
PendingHeld(t, prices, pending, p) ==
  /\ pending \in Seq(Waiting)
  /\ pending # <<>> => prices # <<>>
  /\ \A r \in 1 .. Len(pending) :
       /\ pending[r].off \in 1 .. p
       /\ \A k \in 1 .. p :
            pending[r].off <= k /\ t[k].kind = "ok"
              => HeldKey(prices, t[k].ts, t[k].price)

\* The places of the window of a label that starts at ts.
Spanned(prices, ts) == {i \in 1 .. Len(prices) : prices[i].ts \in ts .. ts + Horizon}

LEMMA WindowOf ==
  ASSUME NEW prices \in Seq(Priced), NEW ts \in Nat
  PROVE  \E at : Picks(at, prices, Spanned(prices, ts))
                 /\ Cardinality(Spanned(prices, ts)) \in Nat
                 /\ FutureWindow(prices, ts) =
                      [k \in 1 .. Cardinality(Spanned(prices, ts)) |-> prices[at[k]]]
<1>1. Spanned(prices, ts) \subseteq 1 .. Len(prices) /\ Len(prices) \in Nat
  BY DEF Spanned
<1>2. FutureWindow(prices, ts) = Masked(prices, Spanned(prices, ts))
  <2>1. DOMAIN prices = 1 .. Len(prices) OBVIOUS
  <2> QED BY <2>1, Zenon DEF FutureWindow, Spanned
<1>3. Cardinality(Spanned(prices, ts)) \in Nat
      /\ \E at : Picks(at, prices, Spanned(prices, ts))
  BY <1>1, MaskedPlaces
<1> QED BY <1>2, <1>3 DEF Picks

(***************************************************************************)
(* A label raises on no positive prices; one that is computed is computed  *)
(* from the whole window, which nearly spans the horizon.                  *)
(***************************************************************************)
Spanning(prices, ts, first, last) ==
  LET kept == Spanned(prices, ts)
  IN  /\ first \in kept /\ last \in kept
      /\ \A i \in kept : first <= i /\ i <= last
      /\ prices[last].ts >= prices[first].ts + Horizon - Slack

LEMMA LabelOf ==
  ASSUME NEW t, NEW p \in Nat, NEW prices, PricesTrue(t, prices, p), NEW ts \in Nat
  PROVE  LET vol == FutureVol(FutureWindow(prices, ts))
         IN  /\ vol \in SUBSET Nat
             /\ Positive(prices) => vol # MathError
             /\ vol \notin {NoLabel, MathError} =>
                  /\ vol = {prices[i].off : i \in Spanned(prices, ts)}
                  /\ \E first, last : Spanning(prices, ts, first, last)
<1> DEFINE w == FutureWindow(prices, ts)
           kept == Spanned(prices, ts)
           n == Cardinality(kept)
           vol == FutureVol(w)
<1>0. prices \in Seq(Priced) /\ kept \subseteq 1 .. Len(prices)
  BY DEF PricesTrue, Spanned
<1>1. PICK at : Picks(at, prices, kept) /\ n \in Nat /\ w = [k \in 1 .. n |-> prices[at[k]]]
  BY <1>0, WindowOf
<1>2. /\ Len(w) = n
      /\ at \in [1 .. n -> kept]
      /\ \A k \in 1 .. n : w[k] = prices[at[k]] /\ at[k] \in kept /\ w[k] \in Priced
      /\ \A j, k \in 1 .. n : j < k => at[j] < at[k]
      /\ \A i \in kept : \E k \in 1 .. n : at[k] = i
  <2>1. at \in [1 .. n -> kept] BY <1>1 DEF Picks
  <2>2. \A j, k \in 1 .. n : j < k => at[j] < at[k] BY <1>1 DEF Picks
  <2>3. \A i \in kept : \E k \in 1 .. n : at[k] = i BY <1>1 DEF Picks
  <2> HIDE DEF w, n, kept
  <2>4. Len(w) = n BY <1>1
  <2>5. \A k \in 1 .. n : w[k] = prices[at[k]] /\ at[k] \in kept /\ w[k] \in Priced
    <3> SUFFICES ASSUME NEW k \in 1 .. n
                 PROVE  w[k] = prices[at[k]] /\ at[k] \in kept /\ w[k] \in Priced
      OBVIOUS
    <3>1. w[k] = prices[at[k]] BY <1>1
    <3>2. at[k] \in kept BY <2>1
    <3>3. at[k] \in 1 .. Len(prices) BY <1>0, <3>2
    <3>4. prices[at[k]] \in Priced BY <1>0, <3>3
    <3> QED BY <3>1, <3>2, <3>4
  <2> QED BY <2>1, <2>2, <2>3, <2>4, <2>5
<1>3. Positive(prices) => ~ReturnsRaise(w)
  <2>1. ASSUME Positive(prices) PROVE \A k \in 1 .. n : w[k].price # 0
    <3> HIDE DEF w, n, kept
    <3>1. \A k \in 1 .. n : w[k] = prices[at[k]] /\ at[k] \in 1 .. Len(prices)
      BY <1>0, <1>2
    <3> QED BY <2>1, <3>1 DEF Positive
  <2> HIDE DEF w, n, kept
  <2> QED BY ONLY <1>1, <1>2, <2>1 DEF ReturnsRaise, ReturnRaises
<1>4. \/ vol = NoLabel
      \/ ReturnsRaise(w) /\ vol = MathError
      \/ /\ n >= 2
         /\ w[n].ts >= w[1].ts + Horizon - Slack
         /\ vol = {w[i].off : i \in 1 .. n}
  <2> HIDE DEF w, n, kept
  <2>1. n < 2 => vol = NoLabel BY <1>1, <1>2 DEF FutureVol
  <2>2. n >= 2 => w[n] \in Priced /\ w[1] \in Priced BY <1>1, <1>2
  <2>3. n >= 2 => w[n].ts \in Nat /\ w[1].ts \in Nat BY <2>2 DEF Priced
  <2>4. Horizon \in Nat /\ Slack \in Nat BY EngineAssumption
  <2>5. vol = IF n < 2 \/ w[n].ts < w[1].ts + Horizon - Slack THEN NoLabel
             ELSE IF ReturnsRaise(w) THEN MathError
             ELSE {w[i].off : i \in 1 .. n}
    BY <1>2, Zenon DEF FutureVol
  <2> HIDE DEF vol
  <2> DEFINE short == n < 2 \/ w[n].ts < w[1].ts + Horizon - Slack
             all == {w[i].off : i \in 1 .. n}
             raises == ReturnsRaise(w)
  <2>6. ~short => n >= 2 /\ w[n].ts >= w[1].ts + Horizon - Slack
    BY <1>1, <2>3, <2>4
  <2>7. vol = IF short THEN NoLabel ELSE IF raises THEN MathError ELSE all
    BY <2>5, Zenon
  <2> HIDE DEF short, all, raises
  <2>8. vol = NoLabel \/ (raises /\ vol = MathError) \/ (~short /\ vol = all)
    BY <2>7
  <2>9. vol = NoLabel \/ (raises /\ vol = MathError)
        \/ (n >= 2 /\ w[n].ts >= w[1].ts + Horizon - Slack /\ vol = all)
    BY <2>6, <2>8
  <2> QED BY <2>9 DEF raises, all
<1>5. n >= 2 => {w[i].off : i \in 1 .. n} = {prices[i].off : i \in kept}
  <2> HIDE DEF w, n, kept
  <2> QED BY <1>1, <1>2
<1>6. \A i \in kept : prices[i].off \in Nat /\ prices[i].off # 0
  BY <1>0 DEF PricesTrue, Priced
<1>7. ASSUME n >= 2 PROVE {prices[i].off : i \in kept} # MathError
  <2> HIDE DEF w, n, kept, vol
  <2>1. at[1] \in kept BY <1>2, <1>7, <1>1
  <2>2. prices[at[1]].off # 0 BY <1>6, <2>1
  <2>3. prices[at[1]].off \in {prices[i].off : i \in kept} BY <2>1
  <2> QED BY <2>2, <2>3 DEF MathError
<1>8. ASSUME n >= 2, w[n].ts >= w[1].ts + Horizon - Slack
      PROVE  Spanning(prices, ts, at[1], at[n])
  <2> HIDE DEF w, n
  <2>1. at[1] \in kept /\ at[n] \in kept BY <1>1, <1>2, <1>8
  <2>2. w[1] = prices[at[1]] /\ w[n] = prices[at[n]] BY <1>1, <1>2, <1>8
  <2>3. ASSUME NEW i \in kept PROVE at[1] <= i /\ i <= at[n]
    <3>1. PICK k \in 1 .. n : at[k] = i BY <1>2
    <3>2. k = 1 \/ 1 < k BY <1>1
    <3>3. k = n \/ k < n BY <1>1
    <3>4. at[1] \in Nat /\ at[n] \in Nat /\ at[k] \in Nat
      BY <1>0, <1>2, <2>1, <3>1
    <3>5. 1 \in 1 .. n /\ n \in 1 .. n BY <1>1, <1>8
    <3> HIDE DEF kept
    <3> QED BY <1>2, <3>1, <3>2, <3>3, <3>4, <3>5
  <2> QED BY <1>8, <2>1, <2>2, <2>3 DEF Spanning
<1>9. vol \in SUBSET Nat
  <2>1. NoLabel \in SUBSET Nat /\ MathError \in SUBSET Nat BY DEF NoLabel, MathError
  <2> HIDE DEF w, n, kept, vol
  <2>2. {prices[i].off : i \in kept} \in SUBSET Nat BY <1>6
  <2> QED BY <1>1, <1>4, <1>5, <2>1, <2>2
<1>10. NoLabel # MathError BY DEF NoLabel, MathError
<1> HIDE DEF w, n, kept, vol
<1> QED
  <2>1. vol \notin {NoLabel, MathError} =>
          /\ vol = {prices[i].off : i \in kept}
          /\ \E first, last : Spanning(prices, ts, first, last)
    <3> SUFFICES ASSUME vol \notin {NoLabel, MathError}
                 PROVE  /\ vol = {prices[i].off : i \in kept}
                        /\ \E first, last : Spanning(prices, ts, first, last)
      OBVIOUS
    <3>0. vol # NoLabel /\ vol # MathError OBVIOUS
    <3>1. n >= 2 /\ w[n].ts >= w[1].ts + Horizon - Slack BY <1>4, <3>0
    <3>2. Spanning(prices, ts, at[1], at[n]) BY <1>8, <3>1
    <3>3. vol = {w[i].off : i \in 1 .. n} BY <1>4, <3>0, Zenon
    <3>4. {w[i].off : i \in 1 .. n} = {prices[i].off : i \in kept} BY <1>5, <3>1
    <3>5. vol = {prices[i].off : i \in kept} BY <3>3, <3>4
    <3>6. \E first, last : Spanning(prices, ts, first, last) BY <3>2
    <3> QED BY <3>5, <3>6
  <2>2. Positive(prices) => vol # MathError
    <3> SUFFICES ASSUME Positive(prices) PROVE vol # MathError
      OBVIOUS
    <3>1. CASE vol = NoLabel BY <1>10, <3>1
    <3>2. CASE vol # NoLabel
      <4>0. ~ReturnsRaise(w) BY <1>3
      <4>1. n >= 2 /\ vol = {w[i].off : i \in 1 .. n} BY <1>4, <3>2, <4>0, Zenon
      <4>2. {prices[i].off : i \in kept} # MathError BY <1>7, <4>1
      <4>3. {w[i].off : i \in 1 .. n} = {prices[i].off : i \in kept} BY <1>5, <4>1
      <4> QED BY <4>1, <4>2, <4>3
    <3> QED BY <3>1, <3>2
  <2> QED BY <1>9, <2>1, <2>2 DEF vol, w, kept

\* The labelled row of the i-th pending one.
LabelRow(prices, pending, i) ==
  [tag |-> pending[i].tag, ts |-> pending[i].ts, off |-> pending[i].off,
   vol |-> FutureVol(FutureWindow(prices, pending[i].ts))]

\* What a drain of the first n pending rows comes to.
Drains(r, prices, pending, n) ==
  /\ r.raised \in BOOLEAN /\ (r.raised => r.drained = <<>>)
  /\ Positive(prices) => r.raised = FALSE
  /\ r.engine = [prices |-> prices, pending |-> SubSeq(pending, n + 1, Len(pending))]
  /\ r.drained \in Seq(Drained)
  /\ \A x \in Range(r.drained) : \E i \in 1 .. n :
       x = LabelRow(prices, pending, i) /\ x.vol \notin {NoLabel, MathError}

LEMMA DueOf ==
  ASSUME NEW pending \in Seq(Waiting), NEW now \in Nat, NEW force \in BOOLEAN
  PROVE  \E n \in 0 .. Len(pending) :
           /\ Len(Due(pending, now, force)) = n
           /\ DOMAIN Due(pending, now, force) = 1 .. n
           /\ \A i \in 1 .. n : Due(pending, now, force)[i] = pending[i]
<1> DEFINE early == {i \in DOMAIN pending : ~force /\ now - pending[i].ts < Horizon}
           due == Due(pending, now, force)
<1>1. DOMAIN pending = 1 .. Len(pending) /\ Len(pending) \in Nat
  OBVIOUS
<1>2. due = IF early = {} THEN pending ELSE SubSeq(pending, 1, Min(early) - 1)
  BY DEF Due
<1>3. CASE early = {}
  <2> DEFINE n == Len(pending)
  <2>1. due = pending BY <1>2, <1>3
  <2> HIDE DEF due, early
  <2>2. Len(due) = n /\ DOMAIN due = 1 .. n /\ \A i \in 1 .. n : due[i] = pending[i]
    BY <1>1, <2>1
  <2>3. n \in 0 .. Len(pending) BY <1>1
  <2> HIDE DEF n
  <2> QED BY <2>2, <2>3 DEF due
<1>4. CASE early # {}
  <2>1. early \in SUBSET Nat /\ early \subseteq 1 .. Len(pending) BY <1>1
  <2>2. Min(early) \in 1 .. Len(pending) BY <1>4, <2>1, MinOf
  <2>3. due = SubSeq(pending, 1, Min(early) - 1) BY <1>2, <1>4
  <2> DEFINE n == Min(early) - 1
  <2> HIDE DEF early
  <2>4. n \in 0 .. Len(pending) BY <2>2
  <2> HIDE DEF n
  <2>5. /\ Len(SubSeq(pending, 1, n)) = n
        /\ DOMAIN SubSeq(pending, 1, n) = 1 .. n
        /\ \A i \in 1 .. n : SubSeq(pending, 1, n)[i] = pending[i]
    BY <2>4
  <2>6. due = SubSeq(pending, 1, n) BY <2>3 DEF n
  <2> QED BY <2>4, <2>5, <2>6 DEF due
<1> QED BY <1>3, <1>4

LEMMA LabelRowTyped ==
  ASSUME NEW t, NEW p \in Nat, NEW prices, PricesTrue(t, prices, p),
         NEW pending \in Seq(Waiting), NEW i \in 1 .. Len(pending)
  PROVE  /\ LabelRow(prices, pending, i) \in Drained
         /\ Positive(prices) => LabelRow(prices, pending, i).vol # MathError
<1>1. pending[i] \in Waiting
  OBVIOUS
<1>2. pending[i].ts \in Nat /\ pending[i].off \in Nat /\ pending[i].tag \in Tag
  BY <1>1 DEF Waiting
<1> DEFINE vol == FutureVol(FutureWindow(prices, pending[i].ts))
<1>3. vol \in SUBSET Nat /\ (Positive(prices) => vol # MathError)
  BY <1>2, LabelOf
<1> HIDE DEF vol
<1>4. LabelRow(prices, pending, i) =
        [tag |-> pending[i].tag, ts |-> pending[i].ts, off |-> pending[i].off,
         vol |-> vol]
  BY DEF LabelRow, vol
<1> QED BY <1>2, <1>3, <1>4 DEF Drained

LEMMA DrainOf ==
  ASSUME NEW t, NEW p \in Nat, NEW prices, PricesTrue(t, prices, p),
         NEW pending \in Seq(Waiting), NEW now \in Nat, NEW force \in BOOLEAN,
         NEW e, e = [prices |-> prices, pending |-> pending]
  PROVE  \E n \in 0 .. Len(pending) :
           Drains(DrainTagged(e, now, force), prices, pending, n)
<1> DEFINE due == Due(pending, now, force)
           rows == [i \in DOMAIN due |->
                     [tag |-> due[i].tag, ts |-> due[i].ts, off |-> due[i].off,
                      vol |-> FutureVol(FutureWindow(prices, due[i].ts))]]
           bad == {i \in DOMAIN due : rows[i].vol = MathError}
           good == {i \in DOMAIN due : rows[i].vol # NoLabel}
           r == DrainTagged(e, now, force)
<1>1. PICK n \in 0 .. Len(pending) :
        /\ Len(due) = n
        /\ DOMAIN due = 1 .. n
        /\ \A i \in 1 .. n : due[i] = pending[i]
  BY DueOf
<1>2. /\ DOMAIN rows = 1 .. n
      /\ \A i \in 1 .. n : /\ rows[i] = LabelRow(prices, pending, i)
                           /\ rows[i] \in Drained
                           /\ Positive(prices) => rows[i].vol # MathError
  <2>1. DOMAIN rows = 1 .. n BY <1>1
  <2>2. \A i \in 1 .. n : rows[i] = LabelRow(prices, pending, i)
    BY <1>1 DEF LabelRow
  <2> HIDE DEF rows
  <2>3. ASSUME NEW i \in 1 .. n
        PROVE  rows[i] \in Drained /\ (Positive(prices) => rows[i].vol # MathError)
    <3>1. i \in 1 .. Len(pending) BY <1>1
    <3> QED BY <2>2, <3>1, LabelRowTyped
  <2> QED BY <2>1, <2>2, <2>3
<1>3. Positive(prices) => bad = {}
  <2> HIDE DEF rows, due
  <2> QED BY <1>1, <1>2
<1>4. /\ r.raised = (bad # {})
      /\ r.engine = [e EXCEPT !.pending = SubSeq(@,
                       (IF bad = {} THEN Len(due) ELSE Min(bad)) + 1, Len(@))]
      /\ r.drained = IF bad # {} THEN <<>> ELSE Masked(rows, good)
  BY DEF DrainTagged
<1> HIDE DEF r
<1> DEFINE popped == IF bad = {} THEN n ELSE Min(bad)
<1>5. popped \in 0 .. n /\ popped \in 0 .. Len(pending)
  <2>1. bad \subseteq 1 .. n BY <1>1
  <2> HIDE DEF bad
  <2>2. n \in Nat /\ n <= Len(pending) /\ Len(pending) \in Nat BY <1>1
  <2>3. CASE bad = {} BY <2>2, <2>3
  <2>4. CASE bad # {}
    <3>1. bad \in SUBSET Nat BY <2>1
    <3>2. Min(bad) \in bad BY <2>4, <3>1, MinOf
    <3> DEFINE first == Min(bad)
    <3>3. popped = first BY <2>4
    <3>4. first \in 1 .. n BY <2>1, <3>2
    <3> HIDE DEF first, popped
    <3> QED BY <2>2, <3>3, <3>4
  <2> QED BY <2>3, <2>4
<1>6. r.engine = [prices |-> prices,
                  pending |-> SubSeq(pending, popped + 1, Len(pending))]
  <2> HIDE DEF bad, due
  <2> QED BY <1>1, <1>4
<1>7. good \subseteq 1 .. n
  BY <1>1
<1> DEFINE all == Masked(rows, good)
<1>8. all \in Seq(Drained)
  <2>1. n \in Nat BY <1>1
  <2> HIDE DEF good, rows
  <2>2. PICK at : Picks(at, rows, good) BY <1>7, <2>1, MaskedPlaces
  <2>3. Cardinality(good) \in Nat BY <1>7, <2>1, MaskedPlaces
  <2> DEFINE m == Cardinality(good)
  <2>4. at \in [1 .. m -> good] /\ all = [k \in 1 .. m |-> rows[at[k]]]
    BY <2>2 DEF Picks
  <2> HIDE DEF m, all
  <2>5. m \in Nat BY <2>3 DEF m
  <2>6. \A k \in 1 .. m : rows[at[k]] \in Drained
    BY <1>2, <1>7, <2>4
  <2>7. all \in [1 .. m -> Drained] BY <2>4, <2>6
  <2> QED BY <2>5, <2>7
<1>9. ASSUME bad = {}, NEW x \in Range(all)
      PROVE  \E i \in 1 .. n : x = LabelRow(prices, pending, i)
                              /\ x.vol \notin {NoLabel, MathError}
  <2>1. n \in Nat BY <1>1
  <2>2. Range(all) = {rows[i] : i \in good}
    <3> HIDE DEF good, rows
    <3> QED BY <1>7, <2>1, MaskedRange
  <2>3. PICK i \in good : x = rows[i]
    <3> HIDE DEF good, rows, all
    <3> QED BY <1>9, <2>2
  <2>4. rows[i].vol # NoLabel /\ i \in 1 .. n BY <1>1
  <2>5. rows[i].vol # MathError
    <3>1. i \in DOMAIN due BY <1>1, <2>4
    <3> HIDE DEF rows, due, good, all
    <3> QED BY <1>9, <3>1
  <2> HIDE DEF rows, good, all
  <2> QED BY <1>2, <2>3, <2>4, <2>5
<1>10. r.drained \in Seq(Drained)
  <2>1. r.drained = <<>> \/ r.drained = all
    <3> HIDE DEF bad, good, rows
    <3> QED BY <1>4
  <2>2. <<>> \in Seq(Drained) OBVIOUS
  <2> HIDE DEF all
  <2> QED BY <1>8, <2>1, <2>2
<1>11. ASSUME NEW x \in Range(r.drained)
       PROVE  \E i \in 1 .. popped : x = LabelRow(prices, pending, i)
                                    /\ x.vol \notin {NoLabel, MathError}
  <2> HIDE DEF bad, all
  <2>1. bad = {}
    <3> SUFFICES ASSUME bad # {} PROVE FALSE
      OBVIOUS
    <3>1. r.drained = <<>> BY <1>4
    <3> QED BY <1>11, <3>1 DEF Range
  <2>2. r.drained = all /\ popped = n BY <1>4, <2>1 DEF all
  <2> QED BY <1>9, <1>11, <2>1, <2>2
<1>12. /\ r.raised \in BOOLEAN /\ (r.raised => r.drained = <<>>)
       /\ Positive(prices) => r.raised = FALSE
  <2> HIDE DEF bad, good, rows
  <2> QED BY <1>3, <1>4
<1> HIDE DEF due, rows, bad, good, all, popped
<1>13. Drains(r, prices, pending, popped)
  BY <1>6, <1>10, <1>11, <1>12 DEF Drains
<1> QED BY <1>5, <1>13 DEF r

\* A tick that is not older than the buffer is stored, and what leaves on the
\* left is older than all that stays.
LEMMA PruneOf ==
  ASSUME NEW prices \in Seq(Priced), prices # <<>>,
         NEW now \in Nat, LastTs(prices) = now
  PROVE  \E a \in 1 .. Len(prices) :
           /\ Prune(prices, now) = SubSeq(prices, a, Len(prices))
           /\ \A i \in 1 .. Len(prices) : i < a => prices[i].ts < now - MaxAge
           /\ prices[a].ts >= now - MaxAge
<1> DEFINE fresh == {i \in DOMAIN prices : prices[i].ts >= now - MaxAge}
           n == Len(prices)
<1>1. n \in Nat /\ n >= 1 /\ DOMAIN prices = 1 .. n
  OBVIOUS
<1>2. n \in fresh
  <2>1. MaxAge \in Nat BY EngineAssumption
  <2>2. prices[n].ts = now BY DEF LastTs
  <2> QED BY <1>1, <2>1, <2>2
<1>3. fresh \in SUBSET Nat /\ fresh # {}
  <2>1. fresh \subseteq 1 .. n BY <1>1
  <2> HIDE DEF fresh
  <2> QED BY <1>1, <1>2, <2>1
<1>4. Min(fresh) \in fresh /\ \A i \in fresh : Min(fresh) <= i
  BY <1>3, MinOf
<1>5. Prune(prices, now) = SubSeq(prices, Min(fresh), n)
  BY DEF Prune
<1> DEFINE a == Min(fresh)
<1>6. a \in 1 .. n /\ prices[a].ts >= now - MaxAge
  <2> HIDE DEF a
  <2>1. a \in fresh BY <1>4 DEF a
  <2> QED BY <1>1, <2>1
<1>7. ASSUME NEW i \in 1 .. n, i < a PROVE prices[i].ts < now - MaxAge
  <2>1. i \notin fresh
    <3> HIDE DEF fresh
    <3> QED BY <1>4, <1>6, <1>7
  <2>2. ~(prices[i].ts >= now - MaxAge) BY <1>1, <2>1
  <2>3. prices[i] \in Priced OBVIOUS
  <2>4. prices[i].ts \in Nat BY <2>3 DEF Priced
  <2>5. MaxAge \in Nat BY EngineAssumption
  <2> QED BY <2>2, <2>4, <2>5
<1> HIDE DEF a, fresh
<1> QED BY <1>5, <1>6, <1>7 DEF a

\* The buffer once a tick of the topic has been stored in it.
Stores(t, p, m, prices, q) ==
  /\ PricesTrue(t, q, p + 1)
  /\ q # <<>> /\ LastTs(q) = m.ts
  /\ HeldKey(q, m.ts, m.price)
  /\ prices # <<>> =>
       \A ts, price \in Nat : HeldKey(prices, ts, price) => HeldKey(q, ts, price)

LEMMA StoreOf ==
  ASSUME NEW t, NEW p \in Nat, NEW prices, PricesTrue(t, prices, p),
         NEW m \in Tick, t[p + 1] = m, m.kind = "ok", m.off = p + 1,
         prices # <<>> => LastTs(prices) <= m.ts
  PROVE  Stores(t, p, m, prices,
                Prune(Append(prices, [ts |-> m.ts, price |-> m.price, off |-> m.off]),
                      m.ts))
<1> DEFINE x == [ts |-> m.ts, price |-> m.price, off |-> m.off]
           all == Append(prices, x)
           n == Len(prices)
           q == Prune(all, m.ts)
<1>1. /\ x.ts = m.ts /\ x.price = m.price /\ x.off = p + 1
      /\ m.ts \in Nat /\ m.price \in Nat /\ x \in Priced
  BY DEF Tick, Priced
<1>2. prices \in Seq(Priced) /\ n \in Nat
  <2>1. prices \in Seq(Priced) BY DEF PricesTrue
  <2> QED BY <2>1
<1> HIDE DEF x
<1>3. /\ all \in Seq(Priced) /\ Len(all) = n + 1 /\ all # <<>>
      /\ \A i \in 1 .. n : all[i] = prices[i]
      /\ all[n + 1] = x
  BY <1>1, <1>2
<1> HIDE DEF all
<1>4. LastTs(all) = m.ts
  BY <1>1, <1>3 DEF LastTs
<1>5. PICK a \in 1 .. n + 1 :
        /\ q = SubSeq(all, a, n + 1)
        /\ \A i \in 1 .. n + 1 : i < a => all[i].ts < m.ts - MaxAge
        /\ all[a].ts >= m.ts - MaxAge
  <2>1. \E a \in 1 .. Len(all) :
          /\ Prune(all, m.ts) = SubSeq(all, a, Len(all))
          /\ \A i \in 1 .. Len(all) : i < a => all[i].ts < m.ts - MaxAge
          /\ all[a].ts >= m.ts - MaxAge
    BY <1>1, <1>3, <1>4, PruneOf
  <2> QED BY <1>3, <2>1
<1> HIDE DEF q
<1>6. /\ q \in Seq(Priced) /\ Len(q) = n + 2 - a /\ Len(q) \in Nat /\ q # <<>>
      /\ \A i \in 1 .. Len(q) : a + i - 1 \in 1 .. n + 1 /\ q[i] = all[a + i - 1]
  <2>1. a \in Nat /\ 1 <= a /\ a <= n + 1 BY <1>2
  <2> DEFINE s == SubSeq(all, a, n + 1)
  <2>2. s \in Seq(Priced) /\ Len(s) = n + 2 - a BY <1>2, <1>3, <2>1
  <2>3. \A i \in 1 .. n + 2 - a : s[i] = all[a + i - 1] BY <1>2, <1>3, <2>1
  <2>4. \A i \in 1 .. n + 2 - a : a + i - 1 \in 1 .. n + 1 BY <1>2, <2>1
  <2>5. n + 2 - a \in Nat /\ n + 2 - a > 0 BY <1>2, <2>1
  <2>6. q = s BY <1>5
  <2> HIDE DEF s
  <2>7. Len(s) \in Nat /\ s # <<>> BY <2>2, <2>5
  <2> QED BY <2>2, <2>3, <2>4, <2>6, <2>7
<1>7. LastTs(q) = m.ts
  <2>1. q[Len(q)] = all[n + 1] BY <1>2, <1>3, <1>5, <1>6
  <2> QED BY <1>1, <1>3, <2>1 DEF LastTs
<1>8. \A i \in 1 .. n : prices[i] \in Priced
  BY <1>2
<1>9. \A i \in 1 .. n : prices[i].ts \in Nat /\ prices[i].off \in Nat /\ prices[i].price \in Nat
  BY <1>8 DEF Priced
<1>10. \A i \in 1 .. n :
         /\ prices[i].off \in 1 .. p
         /\ t[prices[i].off].kind = "ok"
         /\ t[prices[i].off].ts = prices[i].ts
         /\ t[prices[i].off].price = prices[i].price
  BY DEF PricesTrue
<1>11. \A i, j \in 1 .. n :
         i < j => prices[i].ts <= prices[j].ts /\ prices[i].off < prices[j].off
  BY DEF PricesTrue
<1>12. \A i \in 1 .. n : prices[i].ts <= m.ts
  <2> SUFFICES ASSUME NEW i \in 1 .. n PROVE prices[i].ts <= m.ts
    OBVIOUS
  <2>1. prices # <<>> /\ n >= 1 BY <1>2
  <2>2. prices[n].ts <= m.ts BY <2>1 DEF LastTs
  <2>3. i = n \/ i < n BY <1>2
  <2>4. i < n => prices[i].ts <= prices[n].ts BY <1>2, <1>11, <2>1
  <2>5. prices[n].ts \in Nat BY <1>2, <1>9, <2>1
  <2> QED BY <1>1, <1>9, <2>2, <2>3, <2>4, <2>5
<1>13. \A i \in 1 .. n + 1 :
         /\ all[i].off \in 1 .. p + 1
         /\ t[all[i].off].kind = "ok"
         /\ t[all[i].off].ts = all[i].ts
         /\ t[all[i].off].price = all[i].price
  <2> SUFFICES ASSUME NEW i \in 1 .. n + 1
               PROVE  /\ all[i].off \in 1 .. p + 1
                      /\ t[all[i].off].kind = "ok"
                      /\ t[all[i].off].ts = all[i].ts
                      /\ t[all[i].off].price = all[i].price
    OBVIOUS
  <2>1. CASE i \in 1 .. n
    <3>1. all[i] = prices[i] BY <1>3, <2>1
    <3>2. prices[i].off \in 1 .. p BY <1>10, <2>1
    <3>3. prices[i].off \in 1 .. p + 1 BY <3>2
    <3> QED BY <1>10, <2>1, <3>1, <3>3
  <2>2. CASE i = n + 1
    <3>1. all[i] = x BY <1>3, <2>2
    <3> QED BY <1>1, <3>1
  <2> QED BY <1>2, <2>1, <2>2
<1>14. \A i, j \in 1 .. n + 1 : i < j => all[i].ts <= all[j].ts /\ all[i].off < all[j].off
  <2> SUFFICES ASSUME NEW i \in 1 .. n + 1, NEW j \in 1 .. n + 1, i < j
               PROVE  all[i].ts <= all[j].ts /\ all[i].off < all[j].off
    OBVIOUS
  <2>1. i \in 1 .. n /\ all[i] = prices[i] BY <1>2, <1>3
  <2>2. CASE j \in 1 .. n
    <3>1. all[j] = prices[j] BY <1>3, <2>2
    <3> QED BY <1>11, <2>1, <2>2, <3>1
  <2>3. CASE j = n + 1
    <3>1. all[j] = x BY <1>3, <2>3
    <3>2. prices[i].off \in 1 .. p /\ prices[i].ts <= m.ts BY <1>10, <1>12, <2>1
    <3>3. prices[i].off < p + 1 BY <3>2
    <3> QED BY <1>1, <2>1, <3>1, <3>2, <3>3
  <2> QED BY <1>2, <2>2, <2>3
<1>15. PricesTrue(t, q, p + 1)
  <2>1. \A i \in 1 .. Len(q) :
          LET k == q[i].off
          IN  /\ k \in 1 .. p + 1
              /\ t[k].kind = "ok" /\ t[k].ts = q[i].ts /\ t[k].price = q[i].price
    BY <1>6, <1>13
  <2>2. ASSUME NEW i \in 1 .. Len(q), NEW j \in 1 .. Len(q), i < j
        PROVE  q[i].ts <= q[j].ts /\ q[i].off < q[j].off
    <3>1. a + i - 1 < a + j - 1 BY <1>5, <1>6, <2>2
    <3> QED BY <1>6, <1>14, <3>1
  <2> QED BY <1>6, <2>1, <2>2 DEF PricesTrue
<1>16. HeldKey(q, m.ts, m.price)
  <2>1. q[Len(q)] = x /\ Len(q) \in 1 .. Len(q) BY <1>2, <1>3, <1>5, <1>6
  <2> QED BY <1>1, <2>1 DEF HeldKey
<1>17. \A i \in 1 .. n + 1 : all[i] \in Priced /\ all[i].ts \in Nat
  <2>1. \A i \in 1 .. n + 1 : all[i] \in Priced BY <1>3
  <2> QED BY <2>1 DEF Priced
<1>18. \A i \in 1 .. Len(q) : q[i].ts \in Nat /\ q[i].ts >= m.ts - MaxAge
  <2> SUFFICES ASSUME NEW i \in 1 .. Len(q)
               PROVE  q[i].ts \in Nat /\ q[i].ts >= m.ts - MaxAge
    OBVIOUS
  <2> DEFINE j == a + i - 1
  <2>1. j \in 1 .. n + 1 /\ q[i] = all[j] BY <1>6
  <2>2. a = j \/ a < j BY <1>5, <1>6
  <2> HIDE DEF j
  <2>3. all[a].ts <= all[j].ts BY <1>14, <1>17, <2>1, <2>2
  <2>4. all[a].ts \in Nat /\ all[j].ts \in Nat BY <1>17, <2>1
  <2>5. MaxAge \in Nat BY EngineAssumption
  <2>6. all[a].ts >= m.ts - MaxAge BY <1>5
  <2>7. all[j].ts >= m.ts - MaxAge BY <1>1, <2>3, <2>4, <2>5, <2>6
  <2> QED BY <2>1, <2>4, <2>7
<1>19. ASSUME prices # <<>>, NEW ts \in Nat, NEW price \in Nat, HeldKey(prices, ts, price)
       PROVE  HeldKey(q, ts, price)
  <2>1. CASE \E i \in 1 .. n : prices[i].ts = ts /\ prices[i].price = price
    <3>1. PICK i \in 1 .. n : prices[i].ts = ts /\ prices[i].price = price BY <2>1
    <3>2. i \in 1 .. n + 1 /\ all[i] = prices[i] BY <1>2, <1>3
    <3>3. CASE i < a
      <4>1. ts < m.ts - MaxAge BY <1>5, <3>1, <3>2, <3>3
      <4>2. MaxAge \in Nat BY EngineAssumption
      <4>3. \A j \in 1 .. Len(q) : ts < q[j].ts
        BY <1>1, <1>18, <4>1, <4>2
      <4> QED BY <4>3 DEF HeldKey
    <3>4. CASE i >= a
      <4> DEFINE j == i - a + 1
      <4>0. Len(q) = n + 2 - a BY <1>6
      <4>1. j \in 1 .. Len(q) /\ a + j - 1 = i BY <1>2, <3>4, <4>0
      <4>2. q[j] = all[i] BY <1>6, <4>1
      <4> HIDE DEF j
      <4> QED BY <3>1, <3>2, <4>1, <4>2 DEF HeldKey
    <3> QED BY <1>2, <1>5, <3>3, <3>4
  <2>2. CASE \A i \in 1 .. n : ts < prices[i].ts
    <3>1. n \in 1 .. n BY <1>2, <1>19
    <3>2. prices[n].ts \in Nat /\ ts < prices[n].ts /\ prices[n].ts <= m.ts
      BY <1>9, <1>12, <2>2, <3>1
    <3>3. ts < m.ts BY <1>1, <3>2
    <3>4. \A i \in 1 .. n + 1 : ts < all[i].ts
      <4> SUFFICES ASSUME NEW i \in 1 .. n + 1 PROVE ts < all[i].ts
        OBVIOUS
      <4>1. i \in 1 .. n \/ i = n + 1 BY <1>2
      <4>2. i \in 1 .. n => all[i] = prices[i] BY <1>3
      <4>3. i = n + 1 => all[i] = x BY <1>3
      <4> QED BY <1>1, <2>2, <3>3, <4>1, <4>2, <4>3
    <3>5. \A i \in 1 .. Len(q) : ts < q[i].ts BY <1>6, <3>4
    <3> QED BY <3>5 DEF HeldKey
  <2>3. (\E i \in 1 .. n : prices[i].ts = ts /\ prices[i].price = price)
        \/ \A i \in 1 .. n : ts < prices[i].ts
    BY <1>19 DEF HeldKey
  <2> QED BY <2>1, <2>2, <2>3
<1>20. Stores(t, p, m, prices, q)
  BY <1>6, <1>7, <1>15, <1>16, <1>19 DEF Stores
<1> QED BY <1>20 DEF q, all, x

LEMMA RowTaken ==
  ASSUME NEW q \in Seq(Priced), Positive(q)
  PROVE  ~RowRaises(q)
<1> DEFINE n == Len(q)
           kept == {i \in 1 .. n : q[i].ts >= LastTs(q) - Lookback}
<1>1. n \in Nat /\ \A i \in 1 .. n : q[i] \in Priced
  OBVIOUS
<1>2. \A i \in 1 .. n : q[i].price # 0
  BY DEF Positive
<1>3. n > 1 => ~ReturnRaises(q[n - 1], q[n])
  BY <1>1, <1>2 DEF ReturnRaises
<1>4. ~ReturnsRaise(Masked(q, kept))
  <2>1. kept \subseteq 1 .. n OBVIOUS
  <2> HIDE DEF kept
  <2>2. Cardinality(kept) \in Nat /\ \E at : Picks(at, q, kept)
    BY <1>1, <2>1, MaskedPlaces
  <2>3. PICK at : Picks(at, q, kept) BY <2>2
  <2> DEFINE m == Cardinality(kept)
             w == Masked(q, kept)
  <2>4. at \in [1 .. m -> kept] /\ w = [k \in 1 .. m |-> q[at[k]]] BY <2>3 DEF Picks
  <2> HIDE DEF m, w
  <2>5. m \in Nat BY <2>2 DEF m
  <2>6. Len(w) = m BY <2>4, <2>5
  <2>7. \A k \in 1 .. m : w[k].price # 0 BY <1>2, <2>1, <2>4
  <2>8. ~ReturnsRaise(w) BY <2>5, <2>6, <2>7 DEF ReturnsRaise, ReturnRaises
  <2> QED BY <2>8 DEF w
<1> HIDE DEF kept
<1>5. RowRaises(q) =
        \/ n > 1 /\ ReturnRaises(q[n - 1], q[n])
        \/ ReturnsRaise(Masked(q, kept))
  BY Zenon DEF RowRaises, kept
<1> QED BY <1>3, <1>4, <1>5, Zenon

\* A row that is labelled from the whole of its horizon, as far as it is used.
WholeRow(t, p, o) ==
  /\ o.off \in 1 .. p
  /\ o.vol \subseteq 1 .. p
  /\ \A k \in o.vol : t[k].ts \in o.ts .. o.ts + Horizon
  /\ \E last \in o.vol :
       /\ \A j \in o.vol : j <= last
       /\ t[last].ts >= o.ts + Horizon - Slack
       /\ \A k \in o.off .. last :
            t[k].kind = "ok" /\ t[k].ts \in o.ts + Slack .. o.ts + Horizon
              => \E j \in o.vol : TickDedupeKey(t[j]) = TickDedupeKey(t[k])

LEMMA WholeLabels ==
  ASSUME NEW t, NEW p \in Nat, NEW prices, PricesTrue(t, prices, p),
         NEW pending, PendingHeld(t, prices, pending, p),
         \A k \in 1 .. p : t[k] \in Tick,
         NEW i \in 1 .. Len(pending), NEW o,
         o.ts = pending[i].ts, o.off = pending[i].off,
         o.vol = FutureVol(FutureWindow(prices, pending[i].ts)),
         o.vol \notin {NoLabel, MathError}
  PROVE  WholeRow(t, p, o)
<1>1. pending \in Seq(Waiting) /\ pending[i].off \in 1 .. p
  BY DEF PendingHeld
<1>2. o.ts \in Nat /\ o.off \in 1 .. p
  <2>1. pending[i] \in Waiting BY <1>1
  <2>2. pending[i].ts \in Nat BY <2>1 DEF Waiting
  <2> QED BY <1>1, <2>2
<1> DEFINE kept == Spanned(prices, o.ts)
<1>3. /\ o.vol = {prices[a].off : a \in kept}
      /\ \E first, last : Spanning(prices, o.ts, first, last)
  <2>1. o.vol = FutureVol(FutureWindow(prices, o.ts)) OBVIOUS
  <2> DEFINE vol == FutureVol(FutureWindow(prices, o.ts))
  <2>2. vol \notin {NoLabel, MathError} =>
          /\ vol = {prices[a].off : a \in Spanned(prices, o.ts)}
          /\ \E first, last : Spanning(prices, o.ts, first, last)
    BY <1>2, LabelOf
  <2>3. vol \notin {NoLabel, MathError} /\ o.vol = vol BY <2>1
  <2> HIDE DEF vol
  <2> QED BY <2>2, <2>3
<1>4. PICK first, last : Spanning(prices, o.ts, first, last)
  BY <1>3
<1>5. /\ first \in kept /\ last \in kept
      /\ \A a \in kept : first <= a /\ a <= last
      /\ prices[last].ts >= prices[first].ts + Horizon - Slack
  BY <1>4 DEF Spanning
<1>6. /\ kept \subseteq 1 .. Len(prices) /\ Len(prices) \in Nat
      /\ \A a \in 1 .. Len(prices) : prices[a] \in Priced
  <2>1. prices \in Seq(Priced) BY DEF PricesTrue
  <2> QED BY <2>1 DEF Spanned
<1>7. \A a \in kept : prices[a].ts \in o.ts .. o.ts + Horizon
  BY DEF Spanned
<1>8. \A a \in 1 .. Len(prices) :
        /\ prices[a].off \in 1 .. p
        /\ t[prices[a].off].kind = "ok"
        /\ t[prices[a].off].ts = prices[a].ts
        /\ t[prices[a].off].price = prices[a].price
  BY DEF PricesTrue
<1>9. \A a, b \in 1 .. Len(prices) : a < b => prices[a].off < prices[b].off
  BY DEF PricesTrue
<1> DEFINE top == prices[last].off
<1>10. top \in o.vol /\ \A j \in o.vol : j <= top
  <2>1. top \in o.vol BY <1>3, <1>5
  <2>2. ASSUME NEW j \in o.vol PROVE j <= top
    <3>1. PICK a \in kept : j = prices[a].off BY <1>3
    <3>2. a = last \/ a < last BY <1>5, <1>6
    <3>3. prices[a].off \in Nat /\ prices[last].off \in Nat BY <1>5, <1>6, <1>8
    <3> HIDE DEF kept
    <3>4. a < last => prices[a].off < prices[last].off BY <1>5, <1>6, <1>9
    <3> QED BY <3>1, <3>2, <3>3, <3>4
  <2> QED BY <2>1, <2>2
<1>11. o.vol \subseteq 1 .. p /\ \A k \in o.vol : t[k].ts \in o.ts .. o.ts + Horizon
  BY <1>3, <1>6, <1>7, <1>8
<1>12. Horizon \in Nat /\ Slack \in Nat
  BY EngineAssumption
<1>13. prices[first].ts \in Nat /\ prices[last].ts \in Nat
  BY <1>5, <1>6 DEF Priced
<1>14. t[top].ts >= o.ts + Horizon - Slack
  <2>1. t[top].ts = prices[last].ts BY <1>5, <1>6, <1>8
  <2>2. prices[first].ts >= o.ts BY <1>2, <1>5, <1>7, <1>12
  <2>3. prices[last].ts >= prices[first].ts + Horizon - Slack BY <1>5
  <2> QED BY <1>2, <1>12, <1>13, <2>1, <2>2, <2>3
<1>15. ASSUME NEW k \in o.off .. top, t[k].kind = "ok",
              t[k].ts \in o.ts + Slack .. o.ts + Horizon
       PROVE  \E j \in o.vol : TickDedupeKey(t[j]) = TickDedupeKey(t[k])
  <2>1. top \in 1 .. p BY <1>5, <1>6, <1>8
  <2>2. k \in 1 .. p /\ pending[i].off <= k BY <1>2, <2>1
  <2>3. HeldKey(prices, t[k].ts, t[k].price) BY <1>15, <2>2 DEF PendingHeld
  <2>4. t[k].ts \in Nat /\ t[k].ts >= o.ts + Slack /\ t[k].ts >= o.ts
        /\ t[k].ts <= o.ts + Horizon
    BY <1>2, <1>12, <1>15
  <2>5. CASE \E b \in 1 .. Len(prices) : prices[b].ts = t[k].ts /\ prices[b].price = t[k].price
    <3>1. PICK b \in 1 .. Len(prices) : prices[b].ts = t[k].ts /\ prices[b].price = t[k].price
      BY <2>5
    <3>2. b \in kept BY <1>2, <1>12, <2>4, <3>1 DEF Spanned
    <3>3. prices[b].off \in o.vol BY <1>3, <3>2
    <3>4. TickDedupeKey(t[prices[b].off]) = TickDedupeKey(t[k])
      BY <1>8, <1>15, <3>1 DEF TickDedupeKey
    <3> QED BY <3>3, <3>4
  <2>6. CASE \A b \in 1 .. Len(prices) : t[k].ts < prices[b].ts
    <3>1. t[k].ts < prices[first].ts BY <1>5, <1>6, <2>6
    <3>2. prices[last].ts <= o.ts + Horizon BY <1>2, <1>5, <1>7, <1>12
    <3>3. prices[last].ts >= prices[first].ts + Horizon - Slack BY <1>5
    <3> QED BY <1>2, <1>12, <1>13, <2>4, <3>1, <3>2, <3>3
  <2> QED BY <2>3, <2>5, <2>6 DEF HeldKey
<1> HIDE DEF top, kept
<1> QED BY <1>2, <1>10, <1>11, <1>14, <1>15 DEF WholeRow

\* What the engine has done when it has taken a good tick m, the p + 1st of t:
\* from `old' and `base', which a regression empties, to the buffer q and the
\* rows that wait, of which the first n leave.
Pends(base, m, tag) == Append(base, [ts |-> m.ts, off |-> m.off, tag |-> tag])

Takes(t, p, m, tag, prices, pending, old, base, q) ==
  /\ \/ old = prices /\ base = pending /\ (prices # <<>> => LastTs(prices) <= m.ts)
     \/ old = <<>> /\ base = <<>> /\ prices # <<>> /\ m.ts < LastTs(prices)
  /\ Stores(t, p, m, old, q)
  /\ PendingHeld(t, q, base, p + 1)
  /\ PendingHeld(t, q, Pends(base, m, tag), p + 1)

LEMMA PendsHeld ==
  ASSUME NEW t, NEW p \in Nat, NEW prices, NEW pending, NEW q,
         PendingHeld(t, prices, pending, p),
         NEW m \in Tick, t[p + 1] = m, m.kind = "ok", m.off = p + 1,
         Stores(t, p, m, prices, q),
         \A k \in 1 .. p : t[k] \in Tick,
         NEW tag \in Tag
  PROVE  PendingHeld(t, q, pending, p + 1)
         /\ PendingHeld(t, q, Pends(pending, m, tag), p + 1)
<1> DEFINE x == [ts |-> m.ts, off |-> m.off, tag |-> tag]
           all == Append(pending, x)
           n == Len(pending)
<1>1. x \in Waiting /\ x.off = p + 1
  BY DEF Tick, Waiting
<1>2. pending \in Seq(Waiting) /\ n \in Nat
  <2>1. pending \in Seq(Waiting) BY DEF PendingHeld
  <2> QED BY <2>1
<1> HIDE DEF x
<1>3. /\ all \in Seq(Waiting) /\ Len(all) = n + 1
      /\ \A i \in 1 .. n : all[i] = pending[i]
      /\ all[n + 1] = x
  BY <1>1, <1>2
<1> HIDE DEF all
<1>4. \A k \in 1 .. p + 1 : t[k] \in Tick
  <2>1. \A k \in 1 .. p + 1 : k \in 1 .. p \/ k = p + 1 OBVIOUS
  <2> QED BY <2>1
<1>5. \A k \in 1 .. p + 1 : t[k].ts \in Nat /\ t[k].price \in Nat
  BY <1>4 DEF Tick
<1>6. HeldKey(q, m.ts, m.price) /\ q # <<>>
  BY DEF Stores
<1>7. ASSUME NEW i \in 1 .. n + 1
      PROVE  /\ all[i].off \in 1 .. p + 1
             /\ \A k \in 1 .. p + 1 :
                  all[i].off <= k /\ t[k].kind = "ok" => HeldKey(q, t[k].ts, t[k].price)
  <2>1. CASE i \in 1 .. n
    <3>1. all[i] = pending[i] BY <1>3, <2>1
    <3>2. /\ pending[i].off \in 1 .. p
          /\ \A k \in 1 .. p :
               pending[i].off <= k /\ t[k].kind = "ok"
                 => HeldKey(prices, t[k].ts, t[k].price)
      BY <2>1 DEF PendingHeld
    <3>3. prices # <<>>
      <4>1. pending # <<>> BY <1>2, <2>1
      <4> QED BY <4>1 DEF PendingHeld
    <3>4. \A ts, price \in Nat : HeldKey(prices, ts, price) => HeldKey(q, ts, price)
      BY <3>3 DEF Stores
    <3>5. ASSUME NEW k \in 1 .. p + 1, pending[i].off <= k, t[k].kind = "ok"
          PROVE  HeldKey(q, t[k].ts, t[k].price)
      <4>1. CASE k \in 1 .. p
        <5>1. HeldKey(prices, t[k].ts, t[k].price) BY <3>2, <3>5, <4>1
        <5> QED BY <1>5, <3>4, <5>1
      <4>2. CASE k = p + 1
        BY <1>6, <4>2
      <4> QED BY <4>1, <4>2
    <3>6. pending[i].off \in 1 .. p + 1 BY <3>2
    <3> QED BY <3>1, <3>5, <3>6
  <2>2. CASE i = n + 1
    <3>1. all[i] = x BY <1>3, <2>2
    <3>2. ASSUME NEW k \in 1 .. p + 1, p + 1 <= k PROVE k = p + 1
      BY <3>2
    <3>3. p + 1 \in 1 .. p + 1 OBVIOUS
    <3> QED BY <1>1, <1>6, <3>1, <3>2, <3>3
  <2> QED BY <1>2, <2>1, <2>2
<1>8. PendingHeld(t, q, all, p + 1)
  BY <1>3, <1>6, <1>7 DEF PendingHeld
<1>9. PendingHeld(t, q, pending, p + 1)
  <2>1. \A i \in 1 .. n : i \in 1 .. n + 1 /\ all[i] = pending[i] BY <1>2, <1>3
  <2> QED BY <1>2, <1>6, <1>7, <2>1 DEF PendingHeld
<1> QED BY <1>8, <1>9 DEF Pends, all, x

\* Its row raises, for which there must have been a price of zero.
Unrowed(r, q, base) ==
  /\ ~Positive(q)
  /\ r = [raised |-> TRUE, engine |-> [prices |-> q, pending |-> base],
          drained |-> <<>>]

LEMMA IngestOf ==
  ASSUME NEW t, NEW p \in Nat, NEW e,
         NEW prices, PricesTrue(t, prices, p),
         NEW pending, PendingHeld(t, prices, pending, p),
         e = [prices |-> prices, pending |-> pending],
         NEW m \in Tick, t[p + 1] = m, m.kind = "ok", m.off = p + 1,
         \A k \in 1 .. p : t[k] \in Tick,
         NEW tag \in Tag
  PROVE  \E old, base, q :
           /\ Takes(t, p, m, tag, prices, pending, old, base, q)
           /\ \/ Unrowed(IngestWithTag(e, m, tag), q, base)
              \/ \E n \in 0 .. Len(Pends(base, m, tag)) :
                   Drains(IngestWithTag(e, m, tag), q, Pends(base, m, tag), n)
<1> DEFINE late == prices # <<>> /\ m.ts < LastTs(prices)
           old == IF late THEN <<>> ELSE prices
           base == IF late THEN <<>> ELSE pending
           x == [ts |-> m.ts, price |-> m.price, off |-> m.off]
           q == Prune(Append(old, x), m.ts)
           all == Pends(base, m, tag)
           waiting == [prices |-> q, pending |-> all]
<1>1. prices \in Seq(Priced) /\ pending \in Seq(Waiting) /\ m.ts \in Nat
  BY DEF PricesTrue, PendingHeld, Tick
<1>2. prices # <<>> => LastTs(prices) \in Nat
  <2> SUFFICES ASSUME prices # <<>> PROVE LastTs(prices) \in Nat
    OBVIOUS
  <2>1. prices[Len(prices)] \in Priced BY <1>1
  <2> QED BY <2>1 DEF LastTs, Priced
<1>3. PricesTrue(t, old, p) /\ PendingHeld(t, old, base, p)
  <2>1. PricesTrue(t, <<>>, p) BY DEF PricesTrue
  <2>2. PendingHeld(t, <<>>, <<>>, p) BY DEF PendingHeld
  <2> QED BY <2>1, <2>2
<1>4. /\ \/ old = prices /\ base = pending /\ (prices # <<>> => LastTs(prices) <= m.ts)
         \/ old = <<>> /\ base = <<>> /\ prices # <<>> /\ m.ts < LastTs(prices)
      /\ old # <<>> => LastTs(old) <= m.ts
  BY <1>1, <1>2
<1>5. ResetOnRegression(e, m.ts) = [prices |-> old, pending |-> base]
  BY DEF ResetOnRegression, ResetEngine, FeatureEngineInit
<1> HIDE DEF late, old, base
<1>6. Stores(t, p, m, old, q)
  BY <1>3, <1>4, StoreOf
<1>7. PendingHeld(t, q, base, p + 1) /\ PendingHeld(t, q, all, p + 1)
  <2> HIDE DEF q
  <2> QED BY <1>3, <1>6, PendsHeld
<1>8. q \in Seq(Priced) /\ all \in Seq(Waiting)
  <2> HIDE DEF q, all
  <2> QED BY <1>6, <1>7 DEF Stores, PricesTrue, PendingHeld
<1>9. \/ Unrowed(IngestWithTag(e, m, tag), q, base)
      \/ IngestWithTag(e, m, tag) = DrainTagged(waiting, m.ts, FALSE)
  <2> DEFINE reset == ResetOnRegression(e, m.ts)
             stored == [reset EXCEPT !.prices = Prune(Append(@, x), m.ts)]
             then == [stored EXCEPT !.pending = Append(@,
                        [ts |-> m.ts, off |-> m.off, tag |-> tag])]
  <2>1. reset = [prices |-> old, pending |-> base] BY <1>5
  <2> HIDE DEF x, reset
  <2>2. stored = [prices |-> q, pending |-> base] BY <2>1
  <2>3. stored.prices = q BY <2>2
  <2> HIDE DEF stored, q
  <2>4. then = waiting
    <3> DEFINE new == [ts |-> m.ts, off |-> m.off, tag |-> tag]
    <3> HIDE DEF new
    <3>1. [stored EXCEPT !.pending = Append(@, new)] =
            [prices |-> q, pending |-> Append(base, new)]
      BY <2>2
    <3> QED BY <3>1 DEF new, Pends
  <2>5. RowRaises(q) => ~Positive(q) BY <1>8, RowTaken
  <2>6. IngestWithTag(e, m, tag) =
          IF RowRaises(stored.prices)
          THEN [raised |-> TRUE, engine |-> stored, drained |-> <<>>]
          ELSE DrainTagged(then, m.ts, FALSE)
    BY DEF IngestWithTag, stored, reset, x
  <2> HIDE DEF then, waiting
  <2> QED BY <2>2, <2>3, <2>4, <2>5, <2>6 DEF Unrowed
<1>10. \E n \in 0 .. Len(all) : Drains(DrainTagged(waiting, m.ts, FALSE), q, all, n)
  <2>1. PricesTrue(t, q, p + 1) BY <1>6 DEF Stores
  <2> HIDE DEF q, all
  <2>2. p + 1 \in Nat OBVIOUS
  <2> QED BY <1>1, <1>8, <2>1, <2>2, DrainOf
<1> QED
  <2> HIDE DEF q
  <2>1. Takes(t, p, m, tag, prices, pending, old, base, q)
    BY <1>4, <1>6, <1>7 DEF Takes
  <2> QED BY <1>9, <1>10, <2>1

\* ProductStream without its engine.
Key == Nat \X Nat \X (TickKinds \cup {"junk"})
StreamTyped(s) ==
  /\ s \in [epoch : Nat, seq : Nat, lastTs : Nat \cup {-1}, recent : Seq(Key)]
  /\ Len(s.recent) <= Window

\* What becomes of it at a tick m: a new epoch, or only the last timestamp.
Stepped(s, m, rs) ==
  /\ StreamTyped(rs) /\ rs.lastTs = m.ts
  /\ \/ rs.epoch = s.epoch + 1 /\ rs.recent = <<>>
     \/ /\ rs.epoch = s.epoch /\ rs.seq = s.seq /\ rs.recent = s.recent
        /\ s.lastTs <= m.ts

LEMMA RegressOf ==
  ASSUME NEW s, StreamTyped(s), NEW m \in Tick
  PROVE  Stepped(s, m, Regress(s, m.ts))
<1>1. /\ s.epoch \in Nat /\ s.seq \in Nat /\ s.lastTs \in Nat \cup {-1}
      /\ s.recent \in Seq(Key) /\ Len(s.recent) <= Window
      /\ s \in [epoch : Nat, seq : Nat, lastTs : Nat \cup {-1}, recent : Seq(Key)]
  BY DEF StreamTyped
<1>2. m.ts \in Nat
  BY DEF Tick
<1>3. CASE s.lastTs # -1 /\ m.ts < s.lastTs
  <2> DEFINE rs == [epoch |-> s.epoch + 1, seq |-> 0, lastTs |-> m.ts, recent |-> <<>>]
  <2>1. Regress(s, m.ts) = rs BY <1>3 DEF Regress
  <2>2. Window \in Nat BY FeaturizerAssumption
  <2>3. <<>> \in Seq(Key) /\ Len(<<>>) <= Window BY <2>2
  <2>4. StreamTyped(rs) BY <1>1, <1>2, <2>3 DEF StreamTyped
  <2>5. rs.lastTs = m.ts /\ rs.epoch = s.epoch + 1 /\ rs.recent = <<>> OBVIOUS
  <2> HIDE DEF rs
  <2> QED BY <2>1, <2>4, <2>5 DEF Stepped
<1>4. CASE ~(s.lastTs # -1 /\ m.ts < s.lastTs)
  <2> DEFINE rs == [s EXCEPT !.lastTs = m.ts]
  <2>1. Regress(s, m.ts) = rs BY <1>4 DEF Regress
  <2>2. /\ rs \in [epoch : Nat, seq : Nat, lastTs : Nat \cup {-1}, recent : Seq(Key)]
        /\ rs.lastTs = m.ts /\ rs.epoch = s.epoch /\ rs.seq = s.seq
        /\ rs.recent = s.recent
    BY <1>1, <1>2
  <2>3. s.lastTs <= m.ts BY <1>1, <1>2, <1>4
  <2> HIDE DEF rs
  <2> QED BY <1>1, <2>1, <2>2, <2>3 DEF Stepped, StreamTyped
<1> QED BY <1>3, <1>4

\* The keys after one more: the oldest of a full window has gone.
Shifted(keys, key, more) ==
  /\ more \in Seq(Key) /\ Len(more) <= Window /\ Len(more) >= 1
  /\ more[Len(more)] = key
  /\ \E d \in {0, 1} :
       /\ Len(more) = Len(keys) + 1 - d
       /\ d = 1 => Len(more) = Window
       /\ \A i \in 1 .. Len(more) - 1 : more[i] = keys[i + d]

LEMMA RememberOf ==
  ASSUME NEW rs, StreamTyped(rs), NEW m \in Tick
  PROVE  LET s2 == Remember(rs, m)
         IN  /\ StreamTyped(s2)
             /\ s2.epoch = rs.epoch /\ s2.lastTs = rs.lastTs /\ s2.seq = rs.seq
             /\ Shifted(rs.recent, TickDedupeKey(m), s2.recent)
<1> DEFINE key == TickDedupeKey(m)
           keys == rs.recent
           left == IF Len(keys) = Window THEN Tail(keys) ELSE keys
           more == Append(left, key)
           s2 == [rs EXCEPT !.recent = more]
<1>1. /\ rs \in [epoch : Nat, seq : Nat, lastTs : Nat \cup {-1}, recent : Seq(Key)]
      /\ keys \in Seq(Key) /\ Len(keys) <= Window
  BY DEF StreamTyped
<1>2. key \in Key
  BY DEF Tick, TickDedupeKey, Key
<1>3. Window \in Nat /\ Window >= 1
  BY FeaturizerAssumption
<1>4. Remember(rs, m) = s2
  BY DEF Remember
<1> HIDE DEF key, keys
<1>5. Shifted(keys, key, more)
  <2>1. CASE Len(keys) = Window
    <3>1. keys # <<>> BY <1>1, <1>3, <2>1
    <3>2. left = Tail(keys) BY <2>1
    <3>3. /\ left \in Seq(Key) /\ Len(left) = Window - 1
          /\ \A i \in 1 .. Window - 1 : left[i] = keys[i + 1]
      BY <1>1, <1>3, <2>1, <3>1, <3>2
    <3> HIDE DEF left
    <3>4. /\ more \in Seq(Key) /\ Len(more) = Window
          /\ more[Window] = key
          /\ \A i \in 1 .. Window - 1 : more[i] = left[i]
      BY <1>2, <1>3, <3>3
    <3> HIDE DEF more
    <3> QED BY <1>3, <2>1, <3>3, <3>4 DEF Shifted
  <2>2. CASE Len(keys) # Window
    <3>1. left = keys BY <2>2
    <3> DEFINE n == Len(keys)
    <3>2. n \in Nat /\ n + 1 <= Window BY <1>1, <1>3, <2>2
    <3> HIDE DEF left
    <3>4. /\ more \in Seq(Key) /\ Len(more) = n + 1
          /\ more[n + 1] = key
          /\ \A i \in 1 .. n : more[i] = keys[i]
      BY <1>1, <1>2, <3>1, <3>2
    <3> HIDE DEF more
    <3>5. \A i \in 1 .. Len(more) - 1 : more[i] = keys[i + 0] BY <3>2, <3>4
    <3>6. Len(more) = Len(keys) + 1 - 0 BY <3>2, <3>4
    <3>7. Len(more) <= Window /\ Len(more) >= 1 BY <1>3, <3>2, <3>4
    <3>8. more[Len(more)] = key BY <3>4
    <3> QED BY <3>4, <3>5, <3>6, <3>7, <3>8 DEF Shifted
  <2> QED BY <2>1, <2>2
<1>6. more \in Seq(Key) /\ Len(more) <= Window
  BY <1>5 DEF Shifted
<1> HIDE DEF more
<1>7. /\ s2 \in [epoch : Nat, seq : Nat, lastTs : Nat \cup {-1}, recent : Seq(Key)]
      /\ s2.recent = more
      /\ s2.epoch = rs.epoch /\ s2.lastTs = rs.lastTs /\ s2.seq = rs.seq
  BY <1>1, <1>6
<1> HIDE DEF s2
<1> QED BY <1>4, <1>5, <1>6, <1>7 DEF StreamTyped, key, keys

(***************************************************************************)
(* A good tick that is remembered was stored, in this epoch, in a buffer   *)
(* that has had no regression since; it is still there, or was pruned and  *)
(* is older than what is left.                                             *)
(***************************************************************************)
RecentHeld(prices, s) ==
  \A i \in 1 .. Len(s.recent) :
    s.recent[i][3] = "ok" =>
      /\ prices # <<>> /\ LastTs(prices) <= s.lastTs
      /\ HeldKey(prices, s.recent[i][1], s.recent[i][2])

LEMMA RecentRefused ==
  ASSUME NEW prices \in Seq(Priced), NEW s, StreamTyped(s), RecentHeld(prices, s),
         NEW m \in Tick, m.kind # "ok",
         NEW rs, Stepped(s, m, rs), NEW s2, s2.lastTs = rs.lastTs,
         Shifted(rs.recent, TickDedupeKey(m), s2.recent),
         NEW q, q = prices \/ (q = <<>> /\ prices # <<>> /\ m.ts < LastTs(prices))
  PROVE  RecentHeld(q, s2)
<1> SUFFICES ASSUME NEW i \in 1 .. Len(s2.recent), s2.recent[i][3] = "ok"
             PROVE  /\ q # <<>> /\ LastTs(q) <= s2.lastTs
                    /\ HeldKey(q, s2.recent[i][1], s2.recent[i][2])
  BY DEF RecentHeld
<1> DEFINE n == Len(s2.recent)
<1>1. PICK d \in {0, 1} :
        /\ n = Len(rs.recent) + 1 - d
        /\ \A j \in 1 .. n - 1 : s2.recent[j] = rs.recent[j + d]
  BY DEF Shifted
<1>2. n \in Nat /\ s2.recent[n] = TickDedupeKey(m) /\ rs.recent \in Seq(Key)
  BY DEF Shifted, Stepped, StreamTyped
<1>3. i # n
  <2>1. TickDedupeKey(m)[3] = m.kind BY DEF TickDedupeKey
  <2> QED BY <1>2, <2>1
<1>4. i \in 1 .. n - 1 /\ i + d \in 1 .. Len(rs.recent)
  <2>1. Len(rs.recent) \in Nat BY <1>2
  <2> QED BY <1>1, <1>2, <1>3, <2>1
<1>5. s2.recent[i] = rs.recent[i + d]
  BY <1>1, <1>4
<1>6. rs.recent = s.recent /\ s.lastTs <= m.ts /\ s2.lastTs = m.ts
  <2>1. rs.recent # <<>> BY <1>4
  <2> QED BY <2>1 DEF Stepped
<1>7. /\ prices # <<>> /\ LastTs(prices) <= s.lastTs
      /\ HeldKey(prices, s2.recent[i][1], s2.recent[i][2])
  BY <1>4, <1>5, <1>6 DEF RecentHeld
<1>8. LastTs(prices) \in Nat /\ s.lastTs \in Int /\ m.ts \in Nat
  <2>1. prices[Len(prices)] \in Priced BY <1>7
  <2>2. LastTs(prices) \in Nat BY <2>1 DEF LastTs, Priced
  <2>3. s.lastTs \in Int BY DEF StreamTyped
  <2> QED BY <2>2, <2>3 DEF Tick
<1>9. LastTs(prices) <= m.ts
  BY <1>6, <1>7, <1>8
<1>10. q = prices
  BY <1>8, <1>9
<1> QED BY <1>6, <1>7, <1>9, <1>10

LEMMA RecentTaken ==
  ASSUME NEW t, NEW p, NEW prices \in Seq(Priced), NEW pending, NEW tag,
         NEW s, StreamTyped(s), RecentHeld(prices, s),
         NEW m \in Tick, NEW rs, Stepped(s, m, rs), NEW s2, s2.lastTs = rs.lastTs,
         Shifted(rs.recent, TickDedupeKey(m), s2.recent),
         NEW old, NEW base, NEW q,
         Takes(t, p, m, tag, prices, pending, old, base, q)
  PROVE  RecentHeld(q, s2)
<1> SUFFICES ASSUME NEW i \in 1 .. Len(s2.recent), s2.recent[i][3] = "ok"
             PROVE  /\ q # <<>> /\ LastTs(q) <= s2.lastTs
                    /\ HeldKey(q, s2.recent[i][1], s2.recent[i][2])
  BY DEF RecentHeld
<1> DEFINE n == Len(s2.recent)
<1>1. PICK d \in {0, 1} :
        /\ n = Len(rs.recent) + 1 - d
        /\ \A j \in 1 .. n - 1 : s2.recent[j] = rs.recent[j + d]
  BY DEF Shifted
<1>2. n \in Nat /\ s2.recent[n] = TickDedupeKey(m) /\ rs.recent \in Seq(Key)
  BY DEF Shifted, Stepped, StreamTyped
<1>3. Stores(t, p, m, old, q) /\ q # <<>> /\ LastTs(q) = m.ts /\ m.ts \in Nat
  BY DEF Takes, Stores, Tick
<1>4. s2.lastTs = m.ts
  BY DEF Stepped
<1>5. CASE i = n
  <2>1. s2.recent[i][1] = m.ts /\ s2.recent[i][2] = m.price
    BY <1>2, <1>5 DEF TickDedupeKey
  <2>2. HeldKey(q, m.ts, m.price) BY <1>3 DEF Stores
  <2> QED BY <1>3, <1>4, <2>1, <2>2
<1>6. CASE i # n
  <2>1. i \in 1 .. n - 1 /\ i + d \in 1 .. Len(rs.recent)
    <3>1. Len(rs.recent) \in Nat BY <1>2
    <3> QED BY <1>1, <1>2, <1>6, <3>1
  <2>2. s2.recent[i] = rs.recent[i + d] BY <1>1, <2>1
  <2>3. rs.recent = s.recent /\ s.lastTs <= m.ts
    <3>1. rs.recent # <<>> BY <2>1
    <3> QED BY <3>1 DEF Stepped
  <2>4. /\ prices # <<>> /\ LastTs(prices) <= s.lastTs
        /\ HeldKey(prices, s2.recent[i][1], s2.recent[i][2])
    BY <2>1, <2>2, <2>3 DEF RecentHeld
  <2>5. LastTs(prices) \in Nat /\ s.lastTs \in Int
    <3>1. prices[Len(prices)] \in Priced BY <2>4
    <3>2. LastTs(prices) \in Nat BY <3>1 DEF LastTs, Priced
    <3>3. s.lastTs \in Int BY DEF StreamTyped
    <3> QED BY <3>2, <3>3
  <2>6. old = prices BY <1>3, <2>3, <2>4, <2>5 DEF Takes
  <2>7. s2.recent[i][1] \in Nat /\ s2.recent[i][2] \in Nat
    <3>1. s2.recent[i] \in Key BY <1>2, <2>1, <2>2
    <3> QED BY <3>1 DEF Key
  <2>8. HeldKey(q, s2.recent[i][1], s2.recent[i][2])
    BY <1>3, <2>4, <2>6, <2>7 DEF Stores
  <2> QED BY <1>3, <1>4, <2>8
<1> QED BY <1>5, <1>6

(***************************************************************************)
(* The rows handed over: one tick to an id, the ids of this boot b come    *)
(* before the next one, and a pending row has had its feature but not its  *)
(* outcome.  Where a price was zero this is left of it only that features  *)
(* have ids of their own, before the next one.                             *)
(***************************************************************************)
OneTick(h) ==
  \A a, b \in h : a.id = b.id => a.off = b.off /\ (a.kind = b.kind => a = b)

IdsTaken(h, b, epoch, seq, p) ==
  \A a \in h :
    /\ a.id[1] \in 1 .. b
    /\ a.id[1] = b =>
         /\ a.off <= p
         /\ a.id[2] < epoch \/ (a.id[2] = epoch /\ a.id[3] < seq)

FeatureRows(h) == {a \in h : a.kind = "feature"}

FeatureOf(x) == Row("feature", x.tag, x.off, x.ts, {})

Owned(h, pending) ==
  \A i \in 1 .. Len(pending) :
    /\ FeatureOf(pending[i]) \in h
    /\ \A a \in h : a.kind = "outcome" => a.id # pending[i].tag
    /\ \A j \in 1 .. Len(pending) : i # j => pending[i].tag # pending[j].tag

LEMMA IdsMove ==
  ASSUME NEW h, h \subseteq HandedRow, NEW b \in Nat, NEW p \in Nat,
         NEW s, StreamTyped(s), IdsTaken(h, b, s.epoch, s.seq, p),
         NEW m, NEW rs, Stepped(s, m, rs)
  PROVE  IdsTaken(h, b, rs.epoch, rs.seq, p + 1)
<1>1. s.epoch \in Nat /\ s.seq \in Nat /\ rs.epoch \in Nat /\ rs.seq \in Nat
  BY DEF Stepped, StreamTyped
<1>2. rs.epoch = s.epoch + 1 \/ (rs.epoch = s.epoch /\ rs.seq = s.seq)
  BY DEF Stepped
<1> SUFFICES ASSUME NEW a \in h
             PROVE  /\ a.id[1] \in 1 .. b
                    /\ a.id[1] = b =>
                         /\ a.off <= p + 1
                         /\ a.id[2] < rs.epoch
                            \/ (a.id[2] = rs.epoch /\ a.id[3] < rs.seq)
  BY DEF IdsTaken
<1>3. /\ a.id[1] \in 1 .. b
      /\ a.id[1] = b =>
           /\ a.off <= p
           /\ a.id[2] < s.epoch \/ (a.id[2] = s.epoch /\ a.id[3] < s.seq)
  BY DEF IdsTaken
<1>4. a.off \in Nat /\ a.id[2] \in Nat /\ a.id[3] \in Nat
  <2>1. a.off \in Nat /\ a.id \in Nat \X Nat \X Nat BY DEF HandedRow, Tag
  <2> QED BY <2>1
<1> QED BY <1>1, <1>2, <1>3, <1>4

\* The next id, f's, comes after those of g.
LEMMA IdsNext ==
  ASSUME NEW g, g \subseteq HandedRow, NEW b \in Nat, b >= 1,
         NEW epoch \in Nat, NEW seq \in Nat, NEW p \in Nat,
         IdsTaken(g, b, epoch, seq, p),
         NEW f, f.id = <<b, epoch, seq>>, f.off = p
  PROVE  IdsTaken(g \cup {f}, b, epoch, seq + 1, p)
<1> SUFFICES ASSUME NEW a \in g \cup {f}
             PROVE  /\ a.id[1] \in 1 .. b
                    /\ a.id[1] = b =>
                         /\ a.off <= p
                         /\ a.id[2] < epoch \/ (a.id[2] = epoch /\ a.id[3] < seq + 1)
  BY DEF IdsTaken
<1>1. CASE a \in g
  <2>1. /\ a.id[1] \in 1 .. b
        /\ a.id[1] = b =>
             /\ a.off <= p
             /\ a.id[2] < epoch \/ (a.id[2] = epoch /\ a.id[3] < seq)
    BY <1>1 DEF IdsTaken
  <2>2. a.id \in Nat \X Nat \X Nat BY <1>1 DEF HandedRow, Tag
  <2>3. a.id[2] \in Nat /\ a.id[3] \in Nat BY <2>2
  <2> QED BY <2>1, <2>3
<1>2. CASE a = f
  <2>1. a.id[1] = b /\ a.id[2] = epoch /\ a.id[3] = seq /\ a.off = p
    BY <1>2
  <2>2. b \in 1 .. b /\ seq < seq + 1 /\ p <= p OBVIOUS
  <2> QED BY ONLY <2>1, <2>2
<1> QED BY <1>1, <1>2

LEMMA NamesNext ==
  ASSUME NEW g, g \subseteq HandedRow, NEW b \in Nat,
         NEW epoch \in Nat, NEW seq \in Nat, NEW p \in Nat,
         IdsTaken(g, b, epoch, seq, p), OneTick(g),
         NEW f, f.id = <<b, epoch, seq>>
  PROVE  OneTick(g \cup {f})
<1>1. ASSUME NEW a \in g PROVE a.id # f.id
  <2>1. a.id[1] = b => a.id[2] < epoch \/ (a.id[2] = epoch /\ a.id[3] < seq)
    BY DEF IdsTaken
  <2>2. a.id \in Nat \X Nat \X Nat BY DEF HandedRow, Tag
  <2>3. a.id[2] \in Nat /\ a.id[3] \in Nat BY <2>2
  <2> QED BY <2>1, <2>3
<1>2. \A a, c \in g : a.id = c.id => a.off = c.off /\ (a.kind = c.kind => a = c)
  BY DEF OneTick
<1> QED BY ONLY <1>1, <1>2 DEF OneTick

\* The rows with the feature f of a tick m, and what then waits.
Adds(h, f, b, epoch, seq, p, pending, m, tag) ==
  /\ OneTick(h \cup {f})
  /\ IdsTaken(h \cup {f}, b, epoch, seq + 1, p + 1)
  /\ Owned(h \cup {f}, Pends(pending, m, tag))

LEMMA FeatureAdds ==
  ASSUME NEW h, h \subseteq HandedRow, OneTick(h),
         NEW b \in Nat, b >= 1, NEW epoch \in Nat, NEW seq \in Nat, NEW p \in Nat,
         IdsTaken(h, b, epoch, seq, p + 1),
         NEW pending \in Seq(Waiting), Owned(h, pending),
         NEW m \in Tick, m.off = p + 1,
         NEW tag, tag = <<b, epoch, seq>>,
         NEW f, f = Row("feature", tag, m.off, m.ts, {})
  PROVE  Adds(h, f, b, epoch, seq, p, pending, m, tag)
<1> DEFINE h2 == h \cup {f}
           x == [ts |-> m.ts, off |-> m.off, tag |-> tag]
           all == Append(pending, x)
           n == Len(pending)
<1>1. tag \in Tag /\ tag[1] = b /\ tag[2] = epoch /\ tag[3] = seq
  BY DEF Tag
<1>2. m.ts \in Nat /\ m.off \in Nat
  BY DEF Tick
<1>3. /\ f \in HandedRow
      /\ f.id = tag /\ f.off = p + 1 /\ f.kind = "feature"
      /\ f = FeatureOf(x)
      /\ x \in Waiting /\ x.tag = tag
  <2>1. f = [kind |-> "feature", id |-> tag, off |-> m.off, ts |-> m.ts, vol |-> {}]
    BY DEF Row
  <2>2. f \in HandedRow
    <3>1. [kind |-> "feature", id |-> tag, off |-> m.off, ts |-> m.ts, vol |-> {}]
            \in HandedRow
      BY <1>1, <1>2 DEF HandedRow
    <3> QED BY <2>1, <3>1
  <2>3. f = FeatureOf(x) BY DEF FeatureOf
  <2>4. x \in Waiting /\ x.tag = tag BY <1>1, <1>2 DEF Waiting
  <2> HIDE DEF x
  <2>5. f.id = tag /\ f.kind = "feature" BY ONLY <2>1
  <2>6. f.off = p + 1
    <3>1. m.off = p + 1 OBVIOUS
    <3>2. f.off = m.off BY ONLY <2>1
    <3> QED BY ONLY <3>1, <3>2
  <2> QED BY <2>2, <2>3, <2>4, <2>5, <2>6
<1> HIDE DEF x
<1>4. \A a \in h : a.id \in Nat \X Nat \X Nat /\ a.off \in Nat
  BY DEF HandedRow, Tag
<1>5. ASSUME NEW a \in h PROVE a.id # tag
  <2>1. a.id[1] = b => a.id[2] < epoch \/ (a.id[2] = epoch /\ a.id[3] < seq)
    BY DEF IdsTaken
  <2>2. a.id[2] \in Nat /\ a.id[3] \in Nat BY <1>4
  <2> QED BY <1>1, <2>1, <2>2
<1>6. OneTick(h2)
  <2> SUFFICES ASSUME NEW a \in h2, NEW c \in h2, a.id = c.id
               PROVE  a.off = c.off /\ (a.kind = c.kind => a = c)
    BY DEF OneTick
  <2>1. CASE a \in h /\ c \in h BY <2>1 DEF OneTick
  <2>2. CASE a \in h /\ c = f BY <1>3, <1>5, <2>2
  <2>3. CASE a = f /\ c \in h BY <1>3, <1>5, <2>3
  <2>4. CASE a = f /\ c = f BY <2>4
  <2> QED BY <2>1, <2>2, <2>3, <2>4
<1>7. IdsTaken(h2, b, epoch, seq + 1, p + 1)
  <2>1. f.id = <<b, epoch, seq>> /\ f.off = p + 1 BY <1>3
  <2>2. p + 1 \in Nat OBVIOUS
  <2> QED BY <2>1, <2>2, IdsNext
<1>8. /\ n \in Nat /\ Len(all) = n + 1
      /\ \A i \in 1 .. n : all[i] = pending[i]
      /\ all[n + 1] = x
  BY <1>3
<1> HIDE DEF all
<1>9. \A i \in 1 .. n : /\ FeatureOf(pending[i]) \in h
                        /\ pending[i].tag # tag
  <2> SUFFICES ASSUME NEW i \in 1 .. n
               PROVE  FeatureOf(pending[i]) \in h /\ pending[i].tag # tag
    OBVIOUS
  <2>1. FeatureOf(pending[i]) \in h BY DEF Owned
  <2>2. FeatureOf(pending[i]).id = pending[i].tag BY DEF FeatureOf, Row
  <2> QED BY <1>5, <2>1, <2>2
<1>10. Owned(h2, all)
  <2> SUFFICES ASSUME NEW i \in 1 .. n + 1
               PROVE  /\ FeatureOf(all[i]) \in h2
                      /\ \A a \in h2 : a.kind = "outcome" => a.id # all[i].tag
                      /\ \A j \in 1 .. n + 1 : i # j => all[i].tag # all[j].tag
    BY <1>8 DEF Owned
  <2>1. i \in 1 .. n \/ i = n + 1 BY <1>8
  <2>2. FeatureOf(all[i]) \in h2
    BY <1>3, <1>8, <1>9, <2>1
  <2>3. ASSUME NEW a \in h2, a.kind = "outcome" PROVE a.id # all[i].tag
    <3>1. a \in h BY <1>3, <2>3
    <3>2. CASE i \in 1 .. n BY <1>8, <2>3, <3>1, <3>2 DEF Owned
    <3>3. CASE i = n + 1 BY <1>3, <1>5, <1>8, <3>1, <3>3
    <3> QED BY <2>1, <3>2, <3>3
  <2>4. ASSUME NEW j \in 1 .. n + 1, i # j PROVE all[i].tag # all[j].tag
    <3>1. j \in 1 .. n \/ j = n + 1 BY <1>8
    <3>2. CASE i \in 1 .. n /\ j \in 1 .. n BY <1>8, <2>4, <3>2 DEF Owned
    <3>3. CASE i \in 1 .. n /\ j = n + 1 BY <1>3, <1>8, <1>9, <3>3
    <3>4. CASE i = n + 1 /\ j \in 1 .. n BY <1>3, <1>8, <1>9, <3>4
    <3> QED BY <2>1, <2>4, <3>1, <3>2, <3>3, <3>4
  <2> QED BY <2>2, <2>3, <2>4
<1> HIDE DEF h2
<1> QED BY <1>6, <1>7, <1>10 DEF Adds, h2, all, x, Pends

LEMMA OutcomesAdd ==
  ASSUME NEW h, h \subseteq HandedRow, OneTick(h),
         NEW pending \in Seq(Waiting), Owned(h, pending),
         NEW r, NEW q, NEW n \in 0 .. Len(pending), Drains(r, q, pending, n)
  PROVE  LET h2 == h \cup Outcomes(r.drained)
         IN  /\ OneTick(h2)
             /\ Owned(h2, SubSeq(pending, n + 1, Len(pending)))
             /\ \A b, epoch, seq, p :
                  IdsTaken(h, b, epoch, seq, p) => IdsTaken(h2, b, epoch, seq, p)
<1> DEFINE new == Outcomes(r.drained)
           h2 == h \cup new
           size == Len(pending)
<1>1. ASSUME NEW a \in new
      PROVE  \E i \in 1 .. n :
               /\ a = Row("outcome", pending[i].tag, pending[i].off, pending[i].ts,
                          FutureVol(FutureWindow(q, pending[i].ts)))
               /\ a \in HandedRow
  <2>1. PICK d \in Range(r.drained) : a = Row("outcome", d.tag, d.off, d.ts, d.vol)
    BY DEF Outcomes
  <2>2. PICK i \in 1 .. n : d = LabelRow(q, pending, i) BY DEF Drains
  <2>3. d \in Drained
    <3>1. r.drained \in Seq(Drained) BY DEF Drains
    <3> QED BY <3>1 DEF Range
  <2>4. a \in HandedRow BY <2>1, <2>3 DEF Row, Drained, HandedRow
  <2>5. /\ d.tag = pending[i].tag /\ d.off = pending[i].off /\ d.ts = pending[i].ts
        /\ d.vol = FutureVol(FutureWindow(q, pending[i].ts))
    BY <2>2 DEF LabelRow
  <2> QED BY <2>1, <2>4, <2>5
<1>2. size \in Nat /\ n \in Nat /\ n <= size
  OBVIOUS
<1> HIDE DEF new
<1>3. ASSUME NEW a \in new
      PROVE  \E i \in 1 .. n :
               /\ i \in 1 .. size /\ a.kind = "outcome"
               /\ a.id = pending[i].tag /\ a.off = pending[i].off
               /\ a = Row("outcome", pending[i].tag, pending[i].off, pending[i].ts,
                          FutureVol(FutureWindow(q, pending[i].ts)))
  <2>1. PICK i \in 1 .. n :
          a = Row("outcome", pending[i].tag, pending[i].off, pending[i].ts,
                  FutureVol(FutureWindow(q, pending[i].ts)))
    BY <1>1
  <2>2. a.kind = "outcome" /\ a.id = pending[i].tag /\ a.off = pending[i].off
    BY <2>1 DEF Row
  <2> QED BY <1>2, <2>1, <2>2
<1>4. \A i \in 1 .. size : /\ FeatureOf(pending[i]) \in h
                           /\ FeatureOf(pending[i]).id = pending[i].tag
                           /\ FeatureOf(pending[i]).off = pending[i].off
  BY DEF Owned, FeatureOf, Row
<1>5. ASSUME NEW a \in h, NEW c \in new, a.id = c.id
      PROVE  a.off = c.off /\ a.kind # "outcome" /\ c.kind = "outcome"
  <2>1. PICK i \in 1 .. size : c.kind = "outcome" /\ c.id = pending[i].tag /\ c.off = pending[i].off
    BY <1>3
  <2>2. a.kind # "outcome" BY <1>5, <2>1 DEF Owned
  <2>3. a.off = FeatureOf(pending[i]).off BY <1>4, <1>5, <2>1 DEF OneTick
  <2> QED BY <1>4, <2>1, <2>2, <2>3
<1>6. OneTick(h2)
  <2> SUFFICES ASSUME NEW a \in h2, NEW c \in h2, a.id = c.id
               PROVE  a.off = c.off /\ (a.kind = c.kind => a = c)
    BY DEF OneTick
  <2>1. CASE a \in h /\ c \in h BY <2>1 DEF OneTick
  <2>2. CASE a \in h /\ c \in new BY <1>5, <2>2
  <2>3. CASE a \in new /\ c \in h BY <1>5, <2>3
  <2>4. CASE a \in new /\ c \in new
    <3>1. PICK i \in 1 .. size :
            /\ a.id = pending[i].tag /\ a.off = pending[i].off
            /\ a = Row("outcome", pending[i].tag, pending[i].off, pending[i].ts,
                       FutureVol(FutureWindow(q, pending[i].ts)))
      BY <1>3, <2>4
    <3>2. PICK j \in 1 .. size :
            /\ c.id = pending[j].tag /\ c.off = pending[j].off
            /\ c = Row("outcome", pending[j].tag, pending[j].off, pending[j].ts,
                       FutureVol(FutureWindow(q, pending[j].ts)))
      BY <1>3, <2>4
    <3>3. i = j BY <3>1, <3>2 DEF Owned
    <3> QED BY <3>1, <3>2, <3>3
  <2> QED BY <2>1, <2>2, <2>3, <2>4
<1> DEFINE left == SubSeq(pending, n + 1, size)
<1>8. /\ Len(left) = size - n
      /\ \A i \in 1 .. Len(left) : n + i \in 1 .. size /\ left[i] = pending[n + i]
  <2>1. Len(left) = size - n BY <1>2
  <2>2. \A i \in 1 .. size - n : left[i] = pending[n + i] BY <1>2
  <2>3. \A i \in 1 .. size - n : n + i \in 1 .. size BY <1>2
  <2> HIDE DEF left
  <2> QED BY <2>1, <2>2, <2>3
<1> HIDE DEF left
<1>9. Owned(h2, left)
  <2> SUFFICES ASSUME NEW i \in 1 .. Len(left)
               PROVE  /\ FeatureOf(left[i]) \in h2
                      /\ \A a \in h2 : a.kind = "outcome" => a.id # left[i].tag
                      /\ \A j \in 1 .. Len(left) : i # j => left[i].tag # left[j].tag
    BY DEF Owned
  <2>1. n + i \in 1 .. size /\ left[i] = pending[n + i] BY <1>8
  <2>2. FeatureOf(left[i]) \in h2 BY <1>4, <2>1
  <2>3. ASSUME NEW a \in h2, a.kind = "outcome" PROVE a.id # left[i].tag
    <3>1. CASE a \in h BY <2>1, <2>3, <3>1 DEF Owned
    <3>2. CASE a \in new
      <4>1. PICK j \in 1 .. n : j \in 1 .. size /\ a.id = pending[j].tag BY <1>3, <3>2
      <4>2. j # n + i BY <1>2, <1>8
      <4> QED BY <2>1, <4>1, <4>2 DEF Owned
    <3> QED BY <3>1, <3>2
  <2>4. ASSUME NEW j \in 1 .. Len(left), i # j PROVE left[i].tag # left[j].tag
    <3>1. n + j \in 1 .. size /\ left[j] = pending[n + j] BY <1>8
    <3>2. n + i # n + j BY <1>2, <2>4
    <3> QED BY <2>1, <3>1, <3>2 DEF Owned
  <2> QED BY <2>2, <2>3, <2>4
<1>10. ASSUME NEW b, NEW epoch, NEW seq, NEW p, IdsTaken(h, b, epoch, seq, p)
       PROVE  IdsTaken(h2, b, epoch, seq, p)
  <2> SUFFICES ASSUME NEW a \in h2
               PROVE  \E c \in h : a.id = c.id /\ a.off = c.off
    BY <1>10 DEF IdsTaken
  <2>1. CASE a \in h BY <2>1
  <2>2. CASE a \in new
    <3>1. PICK i \in 1 .. size : a.id = pending[i].tag /\ a.off = pending[i].off
      BY <1>3, <2>2
    <3> QED BY <1>4, <3>1
  <2> QED BY <2>1, <2>2
<1> HIDE DEF h2
<1>11. /\ OneTick(h2) /\ Owned(h2, left)
       /\ \A b, epoch, seq, p :
            IdsTaken(h, b, epoch, seq, p) => IdsTaken(h2, b, epoch, seq, p)
  BY <1>6, <1>9, <1>10
<1> QED BY <1>11 DEF h2, new, left

(***************************************************************************)
(* The labels and the redelivery window.                                   *)
(***************************************************************************)
WholeAll(h, t) == \A o \in h : o.kind = "outcome" => WholeRow(t, Len(t), o)

LEMMA WholeGrows ==
  ASSUME NEW t, NEW u, NEW p \in Nat, NEW l \in Nat, p <= l,
         \A k \in 1 .. p : u[k] = t[k], NEW o, WholeRow(t, p, o)
  PROVE  WholeRow(u, l, o)
<1>1. o.off \in 1 .. p /\ o.vol \subseteq 1 .. p
  BY DEF WholeRow
<1>2. o.off \in 1 .. l /\ o.vol \subseteq 1 .. l
  BY <1>1
<1>3. \A k \in o.vol : u[k] = t[k]
  BY <1>1
<1>4. \A k \in o.vol : u[k].ts \in o.ts .. o.ts + Horizon
  BY <1>3 DEF WholeRow
<1>5. PICK last \in o.vol :
        /\ \A j \in o.vol : j <= last
        /\ t[last].ts >= o.ts + Horizon - Slack
        /\ \A k \in o.off .. last :
             t[k].kind = "ok" /\ t[k].ts \in o.ts + Slack .. o.ts + Horizon
               => \E j \in o.vol : TickDedupeKey(t[j]) = TickDedupeKey(t[k])
  BY DEF WholeRow
<1>6. u[last].ts >= o.ts + Horizon - Slack
  BY <1>3, <1>5
<1>7. ASSUME NEW k \in o.off .. last, u[k].kind = "ok",
             u[k].ts \in o.ts + Slack .. o.ts + Horizon
      PROVE  \E j \in o.vol : TickDedupeKey(u[j]) = TickDedupeKey(u[k])
  <2>1. k \in 1 .. p BY <1>1
  <2>2. u[k] = t[k] BY <2>1
  <2>3. PICK j \in o.vol : TickDedupeKey(t[j]) = TickDedupeKey(t[k])
    BY <1>5, <1>7, <2>2
  <2>4. u[j] = t[j] BY <1>3
  <2> QED BY <2>2, <2>3, <2>4
<1> QED
  BY <1>2, <1>4, <1>5, <1>6, <1>7 DEF WholeRow

LEMMA OutcomesWhole ==
  ASSUME NEW t, NEW p \in Nat, p <= Len(t), Len(t) \in Nat,
         NEW q, PricesTrue(t, q, p), NEW pending, PendingHeld(t, q, pending, p),
         \A k \in 1 .. p : t[k] \in Tick,
         NEW r, NEW n \in 0 .. Len(pending), Drains(r, q, pending, n),
         NEW o \in Outcomes(r.drained)
  PROVE  WholeRow(t, Len(t), o)
<1>1. PICK d \in Range(r.drained) : o = Row("outcome", d.tag, d.off, d.ts, d.vol)
  BY DEF Outcomes
<1>2. PICK i \in 1 .. n : d = LabelRow(q, pending, i)
                         /\ d.vol \notin {NoLabel, MathError}
  BY DEF Drains
<1>3. i \in 1 .. Len(pending)
  <2>1. pending \in Seq(Waiting) BY DEF PendingHeld
  <2> QED BY <2>1
<1>4. /\ o.ts = pending[i].ts /\ o.off = pending[i].off
      /\ o.vol = FutureVol(FutureWindow(q, pending[i].ts))
      /\ o.vol \notin {NoLabel, MathError}
  <2>1. o.ts = d.ts /\ o.off = d.off /\ o.vol = d.vol BY <1>1 DEF Row
  <2> QED BY <1>2, <2>1 DEF LabelRow
<1>5. WholeRow(t, p, o)
  BY <1>3, <1>4, WholeLabels
<1> QED
  BY <1>5, WholeGrows

DedupeRows(h, t) ==
  \A a, c \in h :
    /\ a.kind = "feature" /\ c.kind = "feature"
    /\ a.off < c.off
    /\ a.id[1] = c.id[1] /\ a.id[2] = c.id[2]
    /\ TickDedupeKey(t[a.off]) = TickDedupeKey(t[c.off])
    => c.off - a.off > Window

\* A feature of the epoch is among the keys, no further back than its message,
\* or Window messages or more have come since.
Near(a, t, keys, p) ==
  \/ p - a.off >= Window
  \/ \E i \in 1 .. Len(keys) :
       /\ keys[i] = TickDedupeKey(t[a.off])
       /\ Len(keys) - i <= p - a.off

Remembered(h, t, s, b, p) ==
  \A a \in h : a.kind = "feature" /\ a.id[1] = b /\ a.id[2] = s.epoch
                => Near(a, t, s.recent, p)

LEMMA RememberedOn ==
  ASSUME NEW h, h \subseteq HandedRow, NEW t, NEW b, NEW p \in Nat,
         NEW s, StreamTyped(s), IdsTaken(FeatureRows(h), b, s.epoch, s.seq, p),
         Remembered(h, t, s, b, p),
         NEW m, NEW rs, Stepped(s, m, rs)
  PROVE  Remembered(h, t, rs, b, p) /\ Remembered(h, t, rs, b, p + 1)
<1>1. \A a \in h : a.id \in Nat \X Nat \X Nat /\ a.off \in Nat
  BY DEF HandedRow, Tag
<1>2. s.epoch \in Nat /\ s.recent \in Seq(Key) /\ Window \in Nat
  BY FeaturizerAssumption DEF StreamTyped
<1> SUFFICES ASSUME NEW a \in h, a.kind = "feature", a.id[1] = b, a.id[2] = rs.epoch
             PROVE  Near(a, t, rs.recent, p) /\ Near(a, t, rs.recent, p + 1)
  BY DEF Remembered
<1>3. a.id[2] <= s.epoch
  <2>1. a.id[2] < s.epoch \/ a.id[2] = s.epoch BY DEF IdsTaken, FeatureRows
  <2>2. a.id[2] \in Nat BY <1>1
  <2> QED BY <1>2, <2>1, <2>2
<1>4. rs.epoch = s.epoch /\ rs.recent = s.recent
  <2>1. rs.epoch # s.epoch + 1 BY <1>2, <1>3
  <2> QED BY <2>1 DEF Stepped
<1>5. \/ p - a.off >= Window
      \/ \E i \in 1 .. Len(s.recent) :
           /\ s.recent[i] = TickDedupeKey(t[a.off])
           /\ Len(s.recent) - i <= p - a.off
  BY <1>4 DEF Remembered, Near
<1>6. CASE p - a.off >= Window
  <2>1. a.off \in Nat BY <1>1
  <2>2. (p + 1) - a.off >= Window BY <1>2, <1>6, <2>1
  <2>3. Near(a, t, rs.recent, p) BY <1>6, Zenon DEF Near
  <2>4. Near(a, t, rs.recent, p + 1) BY <2>2, Zenon DEF Near
  <2> QED BY <2>3, <2>4
<1>7. CASE \E i \in 1 .. Len(s.recent) :
             /\ s.recent[i] = TickDedupeKey(t[a.off])
             /\ Len(s.recent) - i <= p - a.off
  <2>1. PICK i \in 1 .. Len(s.recent) :
             /\ s.recent[i] = TickDedupeKey(t[a.off])
             /\ Len(s.recent) - i <= p - a.off
    BY <1>7
  <2>2. a.off \in Nat BY <1>1
  <2>3. Len(s.recent) \in Nat BY <1>2
  <2>4. Len(s.recent) - i <= (p + 1) - a.off BY <2>1, <2>2, <2>3
  <2>5. Near(a, t, s.recent, p) BY <2>1, Zenon DEF Near
  <2>6. Near(a, t, s.recent, p + 1) BY <2>1, <2>4, Zenon DEF Near
  <2> QED BY <1>4, <2>5, <2>6
<1> QED
  BY <1>5, <1>6, <1>7

LEMMA RememberedMore ==
  ASSUME NEW h, h \subseteq HandedRow, NEW t, NEW b, NEW p \in Nat,
         NEW rs, rs.recent \in Seq(Key), Remembered(h, t, rs, b, p),
         NEW key, NEW s2, s2.epoch = rs.epoch, Shifted(rs.recent, key, s2.recent)
  PROVE  Remembered(h, t, s2, b, p + 1)
<1>1. \A a \in h : a.off \in Nat
  BY DEF HandedRow
<1>2. Window \in Nat /\ Window >= 1 /\ Len(rs.recent) \in Nat
  BY FeaturizerAssumption
<1> DEFINE n == Len(s2.recent)
<1>3. PICK d \in {0, 1} :
        /\ n = Len(rs.recent) + 1 - d
        /\ d = 1 => n = Window
        /\ \A i \in 1 .. n - 1 : s2.recent[i] = rs.recent[i + d]
  BY DEF Shifted
<1>4. n \in Nat
  BY <1>2, <1>3 DEF Shifted
<1> SUFFICES ASSUME NEW a \in h, a.kind = "feature", a.id[1] = b, a.id[2] = rs.epoch
             PROVE  Near(a, t, s2.recent, p + 1)
  BY DEF Remembered
<1>5. a.off \in Nat
  BY <1>1
<1>6. \/ p - a.off >= Window
      \/ \E i \in 1 .. Len(rs.recent) :
           /\ rs.recent[i] = TickDedupeKey(t[a.off])
           /\ Len(rs.recent) - i <= p - a.off
  BY DEF Remembered, Near
<1>7. CASE p - a.off >= Window
  BY <1>2, <1>5, <1>7 DEF Near
<1>8. CASE \E i \in 1 .. Len(rs.recent) :
             /\ rs.recent[i] = TickDedupeKey(t[a.off])
             /\ Len(rs.recent) - i <= p - a.off
  <2>1. PICK i \in 1 .. Len(rs.recent) :
             /\ rs.recent[i] = TickDedupeKey(t[a.off])
             /\ Len(rs.recent) - i <= p - a.off
    BY <1>8
  <2> DEFINE j == i - d
  <2>2. CASE j = 0
    <3>1. d = 1 /\ i = 1 /\ n = Window /\ n = Len(rs.recent)
      BY <1>2, <1>3, <2>2
    <3>2. Window - 1 <= p - a.off BY <2>1, <3>1
    <3> QED BY <1>2, <1>5, <3>2 DEF Near
  <2>3. CASE j # 0
    <3>1. j \in 1 .. n - 1 /\ j + d = i
      BY <1>2, <1>3, <1>4, <2>3
    <3>2. s2.recent[j] = rs.recent[i] BY <1>3, <3>1
    <3>3. n - j <= (p + 1) - a.off
      BY <1>2, <1>3, <1>5, <2>1, <3>1
    <3>4. j \in 1 .. n BY <1>4, <3>1
    <3>5. s2.recent[j] = TickDedupeKey(t[a.off]) BY <2>1, <3>2
    <3> QED BY <3>3, <3>4, <3>5, Zenon DEF Near
  <2> QED BY <2>2, <2>3
<1> QED
  BY <1>6, <1>7, <1>8

\* A tick that is taken is no repeat of one less than Window messages back.
LEMMA FeatureDeduped ==
  ASSUME NEW h, h \subseteq HandedRow, NEW t, NEW b, NEW p \in Nat,
         NEW rs, rs.recent \in Seq(Key), Remembered(h, t, rs, b, p),
         \A a \in FeatureRows(h) : a.id[1] = b => a.off <= p,
         DedupeRows(h, t),
         NEW f, f.id[1] = b, f.id[2] = rs.epoch, f.off = p + 1,
         TickDedupeKey(t[p + 1]) \notin Range(rs.recent),
         NEW s2, s2.epoch = rs.epoch,
         Shifted(rs.recent, TickDedupeKey(t[p + 1]), s2.recent)
  PROVE  DedupeRows(h \cup {f}, t) /\ Remembered(h \cup {f}, t, s2, b, p + 1)
<1>1. \A a \in h : a.off \in Nat
  BY DEF HandedRow
<1>2. Window \in Nat
  BY FeaturizerAssumption
<1>3. DedupeRows(h \cup {f}, t)
  <2> SUFFICES ASSUME NEW a \in h \cup {f}, NEW c \in h \cup {f},
                      a.kind = "feature", c.kind = "feature", a.off < c.off,
                      a.id[1] = c.id[1], a.id[2] = c.id[2],
                      TickDedupeKey(t[a.off]) = TickDedupeKey(t[c.off])
               PROVE  c.off - a.off > Window
    BY DEF DedupeRows
  <2>1. CASE a \in h /\ c \in h BY <2>1 DEF DedupeRows
  <2>2. CASE a \in h /\ c = f
    <3>1. \/ p - a.off >= Window
          \/ \E i \in 1 .. Len(rs.recent) : rs.recent[i] = TickDedupeKey(t[a.off])
      BY <2>2 DEF Remembered, Near
    <3>2. ~(\E i \in 1 .. Len(rs.recent) : rs.recent[i] = TickDedupeKey(t[a.off]))
      <4>1. \A i \in 1 .. Len(rs.recent) : rs.recent[i] \in Range(rs.recent)
        BY DEF Range
      <4> QED BY <2>2, <4>1
    <3>3. a.off \in Nat BY <1>1, <2>2
    <3> QED BY <1>2, <2>2, <3>1, <3>2, <3>3
  <2>3. CASE a = f /\ c \in h
    <3>1. c.off <= p /\ c.off \in Nat BY <1>1, <2>3 DEF FeatureRows
    <3> QED BY <2>3, <3>1
  <2>4. CASE a = f /\ c = f BY <2>4
  <2> QED BY <2>1, <2>2, <2>3, <2>4
<1>4. Remembered(h, t, s2, b, p + 1)
  BY RememberedMore
<1>5. Remembered(h \cup {f}, t, s2, b, p + 1)
  <2> SUFFICES ASSUME NEW a \in h \cup {f}, a.kind = "feature", a.id[1] = b, a.id[2] = rs.epoch
               PROVE  Near(a, t, s2.recent, p + 1)
    BY DEF Remembered
  <2>1. CASE a \in h BY <1>4, <2>1 DEF Remembered
  <2>2. CASE a = f
    <3>1. /\ Len(s2.recent) \in 1 .. Len(s2.recent)
          /\ s2.recent[Len(s2.recent)] = TickDedupeKey(t[p + 1])
      BY DEF Shifted
    <3>2. Len(s2.recent) - Len(s2.recent) <= (p + 1) - a.off BY <2>2, <3>1
    <3> QED BY <2>2, <3>1, <3>2 DEF Near
  <2> QED BY <2>1, <2>2
<1> QED
  BY <1>3, <1>5

\* Outcomes are no features.
LEMMA OutcomesAside ==
  ASSUME NEW h, NEW drained, NEW t
  PROVE  /\ DedupeRows(h, t) => DedupeRows(h \cup Outcomes(drained), t)
         /\ \A s, b, p : Remembered(h, t, s, b, p)
                           => Remembered(h \cup Outcomes(drained), t, s, b, p)
         /\ FeatureRows(h \cup Outcomes(drained)) = FeatureRows(h)
<1>1. \A a \in Outcomes(drained) : a.kind = "outcome"
  BY DEF Outcomes, Row
<1>2. ASSUME NEW a \in h \cup Outcomes(drained), a.kind = "feature" PROVE a \in h
  BY <1>1, <1>2
<1>3. DedupeRows(h, t) => DedupeRows(h \cup Outcomes(drained), t)
  BY <1>2 DEF DedupeRows
<1>4. \A s, b, p : Remembered(h, t, s, b, p)
                     => Remembered(h \cup Outcomes(drained), t, s, b, p)
  BY <1>2 DEF Remembered
<1>5. FeatureRows(h \cup Outcomes(drained)) = FeatureRows(h)
  BY <1>2 DEF FeatureRows
<1> QED
  BY <1>3, <1>4, <1>5

(***************************************************************************)
(* The sink has, in its file and its buffer, what it was given.            *)
(***************************************************************************)
Sinks == {s \in [buf : Seq(Drained), open : BOOLEAN, tmp : Seq(Drained)] :
            Len(s.buf) < FlushRows}

Content(s) == (IF s.open THEN s.tmp ELSE <<>>) \o s.buf

LEMMA FlushOf ==
  ASSUME NEW s, s \in [buf : Seq(Drained), open : BOOLEAN, tmp : Seq(Drained)]
  PROVE  FlushSink(s) \in Sinks /\ Content(FlushSink(s)) = Content(s)
         /\ (FlushSink(s).open => FlushSink(s).tmp = Content(s))
         /\ (s.buf # <<>> \/ s.open => FlushSink(s).open)
<1>1. FlushRows \in Nat /\ FlushRows >= 1
  BY FeaturizerAssumption
<1>2. s.buf \in Seq(Drained) /\ s.tmp \in Seq(Drained) /\ s.open \in BOOLEAN
  OBVIOUS
<1>3. CASE s.buf = <<>>
  <2>1. FlushSink(s) = s BY <1>3 DEF FlushSink
  <2>2. Len(s.buf) < FlushRows BY <1>1, <1>3
  <2>3. s.open => s.tmp = Content(s) BY <1>2, <1>3 DEF Content
  <2> QED BY <1>3, <2>1, <2>2, <2>3 DEF Sinks
<1>4. CASE s.buf # <<>>
  <2> DEFINE all == (IF s.open THEN s.tmp ELSE <<>>) \o s.buf
             f == [buf |-> <<>>, open |-> TRUE, tmp |-> all]
  <2>1. FlushSink(s) = f BY <1>4 DEF FlushSink
  <2>2. all \in Seq(Drained) BY <1>2
  <2>3. Content(s) = all BY DEF Content
  <2> HIDE DEF all
  <2>4. Content(f) = all BY <2>2 DEF Content
  <2>5. f \in Sinks BY <1>1, <2>2 DEF Sinks
  <2>6. f.open /\ f.tmp = all OBVIOUS
  <2> HIDE DEF f
  <2> QED BY <2>1, <2>3, <2>4, <2>5, <2>6
<1> QED BY <1>3, <1>4

LEMMA WriteOf ==
  ASSUME NEW s \in Sinks, NEW row \in Drained
  PROVE  WriteRow(s, row) \in Sinks /\ Content(WriteRow(s, row)) = Append(Content(s), row)
<1> DEFINE more == [s EXCEPT !.buf = Append(@, row)]
<1>1. /\ s \in [buf : Seq(Drained), open : BOOLEAN, tmp : Seq(Drained)]
      /\ Len(s.buf) < FlushRows
  BY DEF Sinks
<1>2. s.buf \in Seq(Drained) /\ s.tmp \in Seq(Drained) /\ s.open \in BOOLEAN
  BY <1>1
<1>3. /\ more \in [buf : Seq(Drained), open : BOOLEAN, tmp : Seq(Drained)]
      /\ more.buf = Append(s.buf, row) /\ more.open = s.open /\ more.tmp = s.tmp
  BY <1>1, <1>2
<1> DEFINE front == IF s.open THEN s.tmp ELSE <<>>
<1>4. front \in Seq(Drained)
  BY <1>2
<1>5. Content(s) = front \o s.buf /\ Content(more) = front \o Append(s.buf, row)
  <2> HIDE DEF more
  <2> QED BY <1>3 DEF Content
<1> HIDE DEF more, front
<1>6. front \o Append(s.buf, row) = Append(front \o s.buf, row)
  BY <1>2, <1>4
<1>7. WriteRow(s, row) = IF Len(more.buf) >= FlushRows THEN FlushSink(more) ELSE more
  BY DEF WriteRow, more
<1>8. CASE Len(more.buf) >= FlushRows
  <2>1. WriteRow(s, row) = FlushSink(more) BY <1>7, <1>8
  <2>2. FlushSink(more) \in Sinks /\ Content(FlushSink(more)) = Content(more)
    BY <1>3, FlushOf
  <2> QED BY <1>5, <1>6, <2>1, <2>2
<1>9. CASE ~(Len(more.buf) >= FlushRows)
  <2>1. WriteRow(s, row) = more BY <1>7, <1>9
  <2>2. Len(more.buf) \in Nat /\ FlushRows \in Nat BY <1>2, <1>3, FeaturizerAssumption
  <2>3. more \in Sinks BY <1>3, <1>9, <2>2 DEF Sinks
  <2> QED BY <1>5, <1>6, <2>1, <2>3
<1> QED BY <1>8, <1>9

LEMMA ConcatOf ==
  ASSUME NEW S, NEW a \in Seq(S), NEW c \in Seq(S)
  PROVE  /\ a \o c \in Seq(S) /\ Len(a \o c) = Len(a) + Len(c)
         /\ \A i \in 1 .. Len(a) : (a \o c)[i] = a[i]
         /\ \A i \in 1 .. Len(c) : (a \o c)[Len(a) + i] = c[i]
BY ONLY a \in Seq(S), c \in Seq(S)

\* A sequence that grows by the next element of another.
LEMMA GrowsBy ==
  ASSUME NEW S, NEW a \in Seq(S), NEW d \in Seq(S), NEW k \in 1 .. Len(d)
  PROVE  Append(a \o SubSeq(d, 1, k - 1), d[k]) = a \o SubSeq(d, 1, k)
<1> DEFINE u == SubSeq(d, 1, k - 1)
           v == SubSeq(d, 1, k)
           m == Len(a)
<1>1. /\ m \in Nat /\ k \in Nat /\ k >= 1 /\ d[k] \in S
      /\ u \in Seq(S) /\ Len(u) = k - 1 /\ \A i \in 1 .. k - 1 : u[i] = d[i]
      /\ v \in Seq(S) /\ Len(v) = k /\ \A i \in 1 .. k : v[i] = d[i]
  OBVIOUS
<1> HIDE DEF u, v
<1> DEFINE x == Append(a \o u, d[k])
           y == a \o v
<1>2. /\ x \in Seq(S) /\ Len(x) = m + k
      /\ \A i \in 1 .. m : x[i] = a[i]
      /\ \A i \in 1 .. k - 1 : x[m + i] = u[i]
      /\ x[m + k] = d[k]
  <2> DEFINE w == a \o u
  <2>1. /\ w \in Seq(S) /\ Len(w) = m + (k - 1)
        /\ \A i \in 1 .. m : w[i] = a[i]
        /\ \A i \in 1 .. k - 1 : w[m + i] = u[i]
    <3>1. a \in Seq(S) /\ u \in Seq(S) BY <1>1
    <3>2. /\ w \in Seq(S) /\ Len(w) = m + Len(u)
          /\ \A i \in 1 .. m : w[i] = a[i]
          /\ \A i \in 1 .. Len(u) : w[m + i] = u[i]
      BY ONLY <3>1, ConcatOf
    <3>3. Len(u) = k - 1 BY <1>1
    <3> QED BY ONLY <3>2, <3>3
  <2> HIDE DEF w
  <2>2. Len(w) + 1 = m + k /\ m + k \in Nat BY <1>1, <2>1
  <2>3. Append(w, d[k]) \in Seq(S) /\ Len(Append(w, d[k])) = m + k
        /\ Append(w, d[k])[m + k] = d[k]
    <3>1. Append(w, d[k]) \in Seq(S) /\ Len(Append(w, d[k])) = Len(w) + 1
          /\ Append(w, d[k])[Len(w) + 1] = d[k]
      BY <1>1, <2>1
    <3> QED BY <2>2, <3>1
  <2>4. \A i \in 1 .. m + (k - 1) : Append(w, d[k])[i] = w[i]
    BY <1>1, <2>1
  <2>5. \A i \in 1 .. m : i \in 1 .. m + (k - 1) BY <1>1
  <2>6. \A i \in 1 .. k - 1 : m + i \in 1 .. m + (k - 1) BY <1>1
  <2>7. x = Append(w, d[k]) BY DEF w
  <2> HIDE DEF x
  <2> QED BY <2>1, <2>3, <2>4, <2>5, <2>6, <2>7
<1>3. /\ y \in Seq(S) /\ Len(y) = m + k
      /\ \A i \in 1 .. m : y[i] = a[i]
      /\ \A i \in 1 .. k : y[m + i] = v[i]
  <2>1. a \in Seq(S) /\ v \in Seq(S) BY <1>1
  <2>2. /\ y \in Seq(S) /\ Len(y) = m + Len(v)
        /\ \A i \in 1 .. m : y[i] = a[i]
        /\ \A i \in 1 .. Len(v) : y[m + i] = v[i]
    BY ONLY <2>1, ConcatOf
  <2>3. Len(v) = k BY <1>1
  <2> QED BY ONLY <2>2, <2>3
<1> HIDE DEF x, y, m
<1>4. \A i \in 1 .. m + k : x[i] = y[i]
  <2> SUFFICES ASSUME NEW i \in 1 .. m + k PROVE x[i] = y[i]
    OBVIOUS
  <2>1. CASE i \in 1 .. m BY <1>2, <1>3, <2>1
  <2>2. CASE i = m + k
    <3>1. k \in 1 .. k BY <1>1
    <3>2. y[m + k] = v[k] /\ v[k] = d[k] BY <1>1, <1>3, <3>1
    <3> QED BY <1>2, <2>2, <3>2
  <2>3. CASE i \notin 1 .. m /\ i # m + k
    <3> DEFINE j == i - m
    <3>1. j \in 1 .. k - 1 /\ j \in 1 .. k /\ i = m + j BY <1>1, <2>3
    <3> HIDE DEF j
    <3> QED BY <1>1, <1>2, <1>3, <3>1
  <2> QED BY <2>1, <2>2, <2>3
<1>5. x = y
  <2> DEFINE l == m + k
  <2>1. l \in Nat /\ Len(x) = l /\ Len(y) = l BY <1>1, <1>2, <1>3
  <2>2. \A i \in 1 .. l : x[i] = y[i] BY <1>4
  <2> HIDE DEF l
  <2>3. x \in [1 .. l -> S] /\ y \in [1 .. l -> S] BY <1>2, <1>3, <2>1
  <2>4. x = [i \in 1 .. l |-> x[i]] /\ y = [i \in 1 .. l |-> y[i]] BY <2>3
  <2>5. [i \in 1 .. l |-> x[i]] = [i \in 1 .. l |-> y[i]] BY <2>2
  <2> QED BY <2>4, <2>5
<1> QED BY <1>5 DEF x, y, u, v

LEMMA WritesOf ==
  ASSUME NEW s \in Sinks, NEW drained \in Seq(Drained)
  PROVE  WriteRows(s, drained) \in Sinks
         /\ Content(WriteRows(s, drained)) = Content(s) \o drained
<1> DEFINE n == Len(drained)
           next(k, x) == WriteRow(x, drained[k])
           step == [z \in (1 .. n) \X Sinks |-> next(z[1], z[2])]
           loop(f) == [k \in 0 .. n |-> IF k = 0 THEN s ELSE next(k, f[k - 1])]
           written == CHOOSE f : f = loop(f)
<1>1. n \in Nat /\ \A k \in 1 .. n : drained[k] \in Drained
  OBVIOUS
<1>2. WriteRows(s, drained) = written[n]
  BY DEF WriteRows
<1>3. \A k \in 1 .. n, x \in Sinks :
        /\ next(k, x) \in Sinks
        /\ Content(next(k, x)) = Append(Content(x), drained[k])
  BY <1>1, WriteOf
<1> HIDE DEF n, next
<1>4. \A k \in 1 .. n, x \in Sinks : step[<<k, x>>] = next(k, x)
  <2> SUFFICES ASSUME NEW k \in 1 .. n, NEW x \in Sinks
               PROVE  step[<<k, x>>] = next(k, x)
    OBVIOUS
  <2>1. <<k, x>> \in (1 .. n) \X Sinks OBVIOUS
  <2> QED BY <2>1
<1> HIDE DEF step
<1>5. PICK g : Loops(g, n, Sinks, s, step)
  BY <1>1, <1>3, <1>4, LoopRuns
<1>6. /\ g \in [0 .. n -> Sinks] /\ g[0] = s
      /\ \A k \in 1 .. n : g[k] = step[<<k, g[k - 1]>>]
  BY <1>5 DEF Loops
<1>7. \A k \in 0 .. n : k # 0 => k \in 1 .. n /\ k - 1 \in 0 .. n /\ k - 1 \in Nat
  BY <1>1
<1>8. \A k \in 0 .. n : g[k] = IF k = 0 THEN s ELSE next(k, g[k - 1])
  <2> SUFFICES ASSUME NEW k \in 0 .. n
               PROVE  g[k] = IF k = 0 THEN s ELSE next(k, g[k - 1])
    OBVIOUS
  <2>1. CASE k = 0 BY <1>6, <2>1
  <2>2. CASE k # 0
    <3>1. k \in 1 .. n /\ g[k - 1] \in Sinks BY <1>6, <1>7, <2>2
    <3> QED BY <1>4, <1>6, <2>2, <3>1
  <2> QED BY <2>1, <2>2
<1>9. g = loop(g)
  BY <1>6, <1>8
<1>10. written = loop(written)
  <2> HIDE DEF loop
  <2> QED BY <1>9
<1> HIDE DEF written
<1>11. \A k \in 0 .. n : written[k] = IF k = 0 THEN s ELSE next(k, written[k - 1])
  BY <1>10
<1> DEFINE as(k) == /\ written[k] \in Sinks
                    /\ Content(written[k]) = Content(s) \o SubSeq(drained, 1, k)
           T == {k \in Nat : k \in 0 .. n /\ ~as(k)}
<1>12. Content(s) \in Seq(Drained)
  <2>1. s.buf \in Seq(Drained) /\ s.tmp \in Seq(Drained) BY DEF Sinks
  <2> QED BY <2>1 DEF Content
<1>13. as(0)
  <2>1. written[0] = s BY <1>1, <1>11
  <2>2. SubSeq(drained, 1, 0) = <<>> OBVIOUS
  <2>3. Content(s) \o <<>> = Content(s) BY <1>12
  <2> QED BY <2>1, <2>2, <2>3
<1>14. T = {}
  <2> SUFFICES ASSUME T # {} PROVE FALSE
    OBVIOUS
  <2>1. T \in SUBSET Nat OBVIOUS
  <2>2. PICK k \in T : \A l \in T : k <= l BY <2>1, SmallestOf
  <2>3. k \in 0 .. n /\ ~as(k) OBVIOUS
  <2>4. k # 0 BY <1>13, <2>3
  <2>5. k \in 1 .. n /\ k - 1 \in 0 .. n /\ k - 1 \in Nat /\ k - 1 < k
    BY <1>1, <2>3, <2>4
  <2>6. as(k - 1)
    <3>1. k - 1 \notin T BY <2>2, <2>5
    <3> HIDE DEF as
    <3> QED BY <2>5, <3>1
  <2>7. written[k] = next(k, written[k - 1]) BY <1>11, <2>3, <2>4
  <2>8. written[k] \in Sinks
        /\ Content(written[k]) = Append(Content(written[k - 1]), drained[k])
    BY <1>3, <2>5, <2>6, <2>7
  <2>9. Append(Content(s) \o SubSeq(drained, 1, k - 1), drained[k]) =
          Content(s) \o SubSeq(drained, 1, k)
    BY <1>12, <2>5, GrowsBy DEF n
  <2> QED BY <2>3, <2>6, <2>8, <2>9
<1>15. as(n)
  <2>1. n \notin T BY <1>14
  <2>2. n \in Nat /\ n \in 0 .. n BY <1>1
  <2> HIDE DEF as
  <2> QED BY <2>1, <2>2
<1>16. SubSeq(drained, 1, n) = drained
  BY DEF n
<1> QED BY <1>2, <1>15, <1>16

(***************************************************************************)
(* What ties the rows handed over to the topic t up to place p, the stream *)
(* s of boot b and the engine e.                                           *)
(***************************************************************************)
EngineTrue(t, p, s, e) ==
  /\ e = [prices |-> e.prices, pending |-> e.pending]
  /\ PricesTrue(t, e.prices, p)
  /\ PendingHeld(t, e.prices, e.pending, p)
  /\ RecentHeld(e.prices, s)

\* What holds of the rows handed over whatever the prices were.
Judged(t, p, b, s, h) ==
  /\ h \subseteq HandedRow
  /\ \A a \in h : a.off \in 1 .. Len(t)
  /\ IdsTaken(FeatureRows(h), b, s.epoch, s.seq, p) /\ OneTick(FeatureRows(h))
  /\ WholeAll(h, t) /\ DedupeRows(h, t) /\ Remembered(h, t, s, b, p)

\* And of their names where no price was zero: a label that raises breaks it.
Named(t, p, b, s, pending, h) ==
  NoZero(t) => OneTick(h) /\ IdsTaken(h, b, s.epoch, s.seq, p) /\ Owned(h, pending)

RowsTrue(t, p, b, s, pending, h) ==
  Judged(t, p, b, s, h) /\ Named(t, p, b, s, pending, h)

Topic(t) == t \in Seq(Tick) /\ \A k \in 1 .. Len(t) : t[k].off = k

LEMMA EngineAdvances ==
  ASSUME NEW t, NEW p \in Nat, NEW e,
         e = [prices |-> e.prices, pending |-> e.pending],
         PricesTrue(t, e.prices, p), PendingHeld(t, e.prices, e.pending, p),
         NEW m, t[p + 1] = m,
         m.kind = "ok" => HeldKey(e.prices, m.ts, m.price)
  PROVE  PricesTrue(t, e.prices, p + 1) /\ PendingHeld(t, e.prices, e.pending, p + 1)
<1> DEFINE q == e.prices
           w == e.pending
<1> HIDE DEF q, w
<1>0. PricesTrue(t, q, p) /\ PendingHeld(t, q, w, p)
      /\ (m.kind = "ok" => HeldKey(q, m.ts, m.price))
  BY DEF q, w
<1>1. \A k : k \in 1 .. p => k \in 1 .. p + 1
  OBVIOUS
<1>2. \A k \in 1 .. p + 1 : k \in 1 .. p \/ k = p + 1
  OBVIOUS
<1>3. PricesTrue(t, q, p + 1)
  BY <1>0, <1>1 DEF PricesTrue
<1>4. ASSUME NEW i \in 1 .. Len(w), NEW k \in 1 .. p + 1,
             w[i].off <= k, t[k].kind = "ok"
      PROVE  HeldKey(q, t[k].ts, t[k].price)
  <2>1. CASE k \in 1 .. p BY <1>0, <1>4, <2>1 DEF PendingHeld
  <2>2. CASE k = p + 1 BY <1>0, <1>4, <2>2
  <2> QED BY <1>2, <2>1, <2>2
<1>5. \A i \in 1 .. Len(w) : w[i].off \in 1 .. p + 1
  BY <1>0, <1>1 DEF PendingHeld
<1>6. w \in Seq(Waiting) /\ (w # <<>> => q # <<>>)
  BY <1>0 DEF PendingHeld
<1>7. PendingHeld(t, q, w, p + 1)
  BY <1>4, <1>5, <1>6 DEF PendingHeld
<1> QED BY <1>3, <1>7 DEF q, w

\* A message that is no tick.
LEMMA SafeJunk ==
  ASSUME NEW t, NEW p \in Nat, NEW b \in Nat, NEW s, StreamTyped(s), NEW e, NEW h,
         EngineTrue(t, p, s, e), RowsTrue(t, p, b, s, e.pending, h),
         t[p + 1].kind # "ok"
  PROVE  EngineTrue(t, p + 1, s, e) /\ RowsTrue(t, p + 1, b, s, e.pending, h)
<1>1. EngineTrue(t, p + 1, s, e)
  <2>1. PricesTrue(t, e.prices, p + 1) /\ PendingHeld(t, e.prices, e.pending, p + 1)
    BY EngineAdvances DEF EngineTrue
  <2> QED BY <2>1 DEF EngineTrue
<1>2. h \subseteq HandedRow /\ Judged(t, p, b, s, h) /\ Named(t, p, b, s, e.pending, h)
  BY DEF RowsTrue, Judged
<1>3. \A a \in h : a.off \in Nat
  BY <1>2 DEF HandedRow
<1>4. ASSUME NEW g, g \subseteq h, IdsTaken(g, b, s.epoch, s.seq, p)
      PROVE  IdsTaken(g, b, s.epoch, s.seq, p + 1)
  <2>1. \A a \in g : a.off <= p => a.off <= p + 1 BY <1>3, <1>4
  <2> QED BY <1>4, <2>1 DEF IdsTaken
<1>5. Remembered(h, t, s, b, p + 1)
  <2> SUFFICES ASSUME NEW a \in h, a.kind = "feature", a.id[1] = b, a.id[2] = s.epoch
               PROVE  Near(a, t, s.recent, p + 1)
    BY DEF Remembered
  <2>1. Near(a, t, s.recent, p) BY <1>2 DEF Judged, Remembered
  <2>2. a.off \in Nat /\ Window \in Nat BY <1>3, FeaturizerAssumption
  <2>3. p - a.off >= Window => (p + 1) - a.off >= Window BY <2>2
  <2>4. \A i \in 1 .. Len(s.recent) :
          Len(s.recent) - i <= p - a.off => Len(s.recent) - i <= (p + 1) - a.off
    <3>1. Len(s.recent) \in Nat BY DEF StreamTyped
    <3> QED BY <2>2, <3>1
  <2> QED BY <2>1, <2>3, <2>4 DEF Near
<1>6. Judged(t, p + 1, b, s, h)
  <2>1. IdsTaken(FeatureRows(h), b, s.epoch, s.seq, p) BY <1>2 DEF Judged
  <2>2. IdsTaken(FeatureRows(h), b, s.epoch, s.seq, p + 1) BY <1>4, <2>1 DEF FeatureRows
  <2> QED BY <1>2, <1>5, <2>2 DEF Judged
<1>7. Named(t, p + 1, b, s, e.pending, h)
  BY <1>2, <1>4 DEF Named
<1> QED BY <1>1, <1>6, <1>7 DEF RowsTrue

\* A redelivered tick.
LEMMA SafeAgain ==
  ASSUME NEW t, NEW p \in Nat, NEW b \in Nat, NEW s, StreamTyped(s), NEW e, NEW h,
         EngineTrue(t, p, s, e), RowsTrue(t, p, b, s, e.pending, h),
         NEW m \in Tick, t[p + 1] = m,
         NEW rs, Stepped(s, m, rs), TickDedupeKey(m) \in Range(rs.recent)
  PROVE  EngineTrue(t, p + 1, rs, e) /\ RowsTrue(t, p + 1, b, rs, e.pending, h)
<1>1. PICK i \in 1 .. Len(rs.recent) : rs.recent[i] = TickDedupeKey(m)
  <2>1. rs.recent \in Seq(Key) BY DEF Stepped, StreamTyped
  <2>2. DOMAIN rs.recent = 1 .. Len(rs.recent) BY <2>1
  <2> QED BY <2>2 DEF Range
<1>2. rs.recent = s.recent /\ s.lastTs <= m.ts /\ rs.lastTs = m.ts
  <2>1. rs.recent # <<>> BY <1>1
  <2> QED BY <2>1 DEF Stepped
<1>3. RecentHeld(e.prices, rs)
  <2> SUFFICES ASSUME NEW j \in 1 .. Len(rs.recent), rs.recent[j][3] = "ok"
               PROVE  /\ e.prices # <<>> /\ LastTs(e.prices) <= rs.lastTs
                      /\ HeldKey(e.prices, rs.recent[j][1], rs.recent[j][2])
    BY DEF RecentHeld
  <2>1. /\ e.prices # <<>> /\ LastTs(e.prices) <= s.lastTs
        /\ HeldKey(e.prices, rs.recent[j][1], rs.recent[j][2])
    BY <1>2 DEF EngineTrue, RecentHeld
  <2>2. LastTs(e.prices) \in Nat
    <3>1. e.prices \in Seq(Priced) BY DEF EngineTrue, PricesTrue
    <3>2. e.prices[Len(e.prices)] \in Priced BY <2>1, <3>1
    <3> QED BY <3>2 DEF LastTs, Priced
  <2>3. s.lastTs \in Int /\ m.ts \in Int BY DEF StreamTyped, Tick
  <2>4. LastTs(e.prices) <= rs.lastTs BY <1>2, <2>1, <2>2, <2>3
  <2> QED BY <2>1, <2>4
<1>4. m.kind = "ok" => HeldKey(e.prices, m.ts, m.price)
  <2>1. rs.recent[i][1] = m.ts /\ rs.recent[i][2] = m.price /\ rs.recent[i][3] = m.kind
    BY <1>1 DEF TickDedupeKey
  <2>2. rs.recent[i][3] = "ok" => HeldKey(e.prices, rs.recent[i][1], rs.recent[i][2])
    BY <1>3 DEF RecentHeld
  <2> QED BY <2>1, <2>2
<1>5. EngineTrue(t, p + 1, rs, e)
  <2>1. PricesTrue(t, e.prices, p + 1) /\ PendingHeld(t, e.prices, e.pending, p + 1)
    BY <1>4, EngineAdvances DEF EngineTrue
  <2> QED BY <1>3, <2>1 DEF EngineTrue
<1>6. Judged(t, p, b, s, h) /\ Named(t, p, b, s, e.pending, h) /\ h \subseteq HandedRow
  BY DEF RowsTrue, Judged
<1>7. Judged(t, p + 1, b, rs, h)
  <2>1. IdsTaken(FeatureRows(h), b, s.epoch, s.seq, p) /\ Remembered(h, t, s, b, p)
    BY <1>6 DEF Judged
  <2>2. FeatureRows(h) \subseteq HandedRow BY <1>6 DEF FeatureRows
  <2>3. IdsTaken(FeatureRows(h), b, rs.epoch, rs.seq, p + 1) BY <2>1, <2>2, IdsMove
  <2>4. Remembered(h, t, rs, b, p + 1) BY <1>6, <2>1, RememberedOn
  <2> QED BY <1>6, <2>3, <2>4 DEF Judged
<1>8. Named(t, p + 1, b, rs, e.pending, h)
  BY <1>6, IdsMove DEF Named
<1> QED BY <1>5, <1>7, <1>8 DEF RowsTrue

\* Nothing is handed over for a tick whose key is remembered in s2.
LEMMA JudgedOn ==
  ASSUME NEW t, NEW p \in Nat, NEW b \in Nat, NEW s, StreamTyped(s), NEW h,
         Judged(t, p, b, s, h),
         NEW m, NEW rs, Stepped(s, m, rs),
         NEW s2, s2.epoch = rs.epoch, s2.seq = rs.seq,
         Shifted(rs.recent, TickDedupeKey(m), s2.recent)
  PROVE  Judged(t, p + 1, b, s2, h)
<1>1. /\ h \subseteq HandedRow /\ IdsTaken(FeatureRows(h), b, s.epoch, s.seq, p)
      /\ Remembered(h, t, s, b, p)
  BY DEF Judged
<1>2. IdsTaken(FeatureRows(h), b, s2.epoch, s2.seq, p + 1)
  <2>1. FeatureRows(h) \subseteq HandedRow BY <1>1 DEF FeatureRows
  <2>2. IdsTaken(FeatureRows(h), b, rs.epoch, rs.seq, p + 1) BY <1>1, <2>1, IdsMove
  <2> QED BY <2>2
<1>3. Remembered(h, t, s2, b, p + 1)
  <2>1. Remembered(h, t, rs, b, p) BY <1>1, RememberedOn
  <2>2. rs.recent \in Seq(Key) BY DEF Stepped, StreamTyped
  <2> QED BY <1>1, <2>1, <2>2, RememberedMore
<1> QED BY <1>2, <1>3 DEF Judged

\* A tick the engine refuses before it stores it; it may have been reset.
LEMMA SafeRefused ==
  ASSUME NEW t, NEW p \in Nat, NEW b \in Nat, NEW s, StreamTyped(s), NEW e, NEW h,
         EngineTrue(t, p, s, e), RowsTrue(t, p, b, s, e.pending, h),
         NEW m \in Tick, t[p + 1] = m, m.kind # "ok",
         NEW rs, Stepped(s, m, rs),
         NEW s2, s2.epoch = rs.epoch, s2.seq = rs.seq, s2.lastTs = rs.lastTs,
         Shifted(rs.recent, TickDedupeKey(m), s2.recent),
         NEW e2,
         \/ e2 = e
         \/ e2 = FeatureEngineInit /\ e.prices # <<>> /\ m.ts < LastTs(e.prices)
  PROVE  EngineTrue(t, p + 1, s2, e2) /\ RowsTrue(t, p + 1, b, s2, e2.pending, h)
<1>1. e2.prices = e.prices
      \/ (e2.prices = <<>> /\ e.prices # <<>> /\ m.ts < LastTs(e.prices))
  BY DEF FeatureEngineInit
<1>2. RecentHeld(e2.prices, s2)
  <2>1. e.prices \in Seq(Priced) BY DEF EngineTrue, PricesTrue
  <2>2. RecentHeld(e.prices, s) BY DEF EngineTrue
  <2> QED BY <1>1, <2>1, <2>2, RecentRefused
<1>3. Judged(t, p, b, s, h) /\ Named(t, p, b, s, e.pending, h) /\ h \subseteq HandedRow
  BY DEF RowsTrue, Judged
<1>4. EngineTrue(t, p + 1, s2, e2) /\ (Owned(h, e.pending) => Owned(h, e2.pending))
  <2>1. CASE e2 = e
    <3>1. PricesTrue(t, e.prices, p + 1) /\ PendingHeld(t, e.prices, e.pending, p + 1)
      BY EngineAdvances DEF EngineTrue
    <3> QED BY <1>2, <2>1, <3>1 DEF EngineTrue
  <2>2. CASE e2 = FeatureEngineInit
    <3>1. e2.prices = <<>> /\ e2.pending = <<>>
          /\ e2 = [prices |-> e2.prices, pending |-> e2.pending]
      BY <2>2 DEF FeatureEngineInit
    <3>2. PricesTrue(t, <<>>, p + 1) /\ PendingHeld(t, <<>>, <<>>, p + 1)
      BY DEF PricesTrue, PendingHeld
    <3>3. Owned(h, <<>>) BY DEF Owned
    <3> QED BY <1>2, <3>1, <3>2, <3>3 DEF EngineTrue
  <2> QED BY <2>1, <2>2
<1>5. Judged(t, p + 1, b, s2, h)
  BY <1>3, JudgedOn
<1>6. Named(t, p + 1, b, s2, e2.pending, h)
  <2>1. IdsTaken(h, b, s.epoch, s.seq, p) => IdsTaken(h, b, rs.epoch, rs.seq, p + 1)
    BY <1>3, IdsMove
  <2> QED BY <1>3, <1>4, <2>1 DEF Named
<1> QED BY <1>4, <1>5, <1>6 DEF RowsTrue

\* Pending rows that leave, with their outcomes if no label raised.
LEMMA EngineDrains ==
  ASSUME NEW t, NEW p \in Nat, NEW s, NEW e, EngineTrue(t, p, s, e),
         NEW r, NEW n \in 0 .. Len(e.pending), Drains(r, e.prices, e.pending, n)
  PROVE  /\ EngineTrue(t, p, s, r.engine)
         /\ r.engine.pending = SubSeq(e.pending, n + 1, Len(e.pending))
<1> DEFINE q == e.prices
           w == e.pending
           left == SubSeq(w, n + 1, Len(w))
<1>1. /\ PricesTrue(t, q, p) /\ PendingHeld(t, q, w, p) /\ RecentHeld(q, s)
      /\ w \in Seq(Waiting)
  BY DEF EngineTrue, PendingHeld
<1>2. r.engine = [prices |-> q, pending |-> left]
  BY DEF Drains
<1> HIDE DEF q, w
<1>3. n \in Nat /\ Len(w) \in Nat /\ n <= Len(w)
  BY <1>1 DEF w
<1>4. /\ left \in Seq(Waiting)
      /\ \A i \in 1 .. Len(left) : n + i \in 1 .. Len(w) /\ left[i] = w[n + i]
      /\ left # <<>> => w # <<>>
  <2>1. left \in Seq(Waiting) /\ Len(left) = Len(w) - n BY <1>1, <1>3
  <2>2. \A i \in 1 .. Len(w) - n : left[i] = w[n + i] BY <1>1, <1>3
  <2>3. \A i \in 1 .. Len(w) - n : n + i \in 1 .. Len(w) BY <1>3
  <2> HIDE DEF left
  <2>4. left # <<>> => Len(w) # 0 BY <1>3, <2>1
  <2> QED BY <1>1, <2>1, <2>2, <2>3, <2>4
<1> HIDE DEF left
<1>5. PendingHeld(t, q, left, p)
  <2>1. \A i \in 1 .. Len(left) :
          /\ left[i].off \in 1 .. p
          /\ \A k \in 1 .. p :
               left[i].off <= k /\ t[k].kind = "ok" => HeldKey(q, t[k].ts, t[k].price)
    BY <1>1, <1>4 DEF PendingHeld
  <2>2. left # <<>> => q # <<>> BY <1>1, <1>4 DEF PendingHeld
  <2> QED BY <1>4, <2>1, <2>2 DEF PendingHeld
<1>6. r.engine.prices = q /\ r.engine.pending = left
  BY <1>2
<1>7. EngineTrue(t, p, s, r.engine)
  BY <1>1, <1>2, <1>5, <1>6 DEF EngineTrue
<1> QED BY <1>6, <1>7 DEF left, w

LEMMA SafeDrain ==
  ASSUME NEW t, Topic(t), NEW p \in Nat, p <= Len(t), NEW b, NEW s, NEW e, NEW h,
         EngineTrue(t, p, s, e), RowsTrue(t, p, b, s, e.pending, h),
         NEW r, NEW n \in 0 .. Len(e.pending), Drains(r, e.prices, e.pending, n)
  PROVE  /\ EngineTrue(t, p, s, r.engine)
         /\ RowsTrue(t, p, b, s, r.engine.pending, h \cup Outcomes(r.drained))
<1> DEFINE q == e.prices
           w == e.pending
           left == SubSeq(w, n + 1, Len(w))
           h2 == h \cup Outcomes(r.drained)
<1>1. PricesTrue(t, q, p) /\ PendingHeld(t, q, w, p) /\ w \in Seq(Waiting)
  BY DEF EngineTrue, PendingHeld
<1>2. /\ EngineTrue(t, p, s, r.engine) /\ r.engine.pending = left
      /\ Drains(r, q, w, n) /\ n \in 0 .. Len(w)
  <2>1. EngineTrue(t, p, s, r.engine)
    BY ONLY p \in Nat, EngineTrue(t, p, s, e), n \in 0 .. Len(e.pending),
            Drains(r, e.prices, e.pending, n), EngineDrains
  <2>2. r.engine.pending = left BY DEF Drains
  <2>3. Drains(r, q, w, n) OBVIOUS
  <2>4. n \in 0 .. Len(w) OBVIOUS
  <2> HIDE DEF left, w, q
  <2> QED BY <2>1, <2>2, <2>3, <2>4
<1>3. Judged(t, p, b, s, h) /\ Named(t, p, b, s, w, h)
  BY DEF RowsTrue
<1> HIDE DEF q, w
<1>4. /\ h \subseteq HandedRow /\ WholeAll(h, t) /\ DedupeRows(h, t)
      /\ Remembered(h, t, s, b, p) /\ \A a \in h : a.off \in 1 .. Len(t)
      /\ IdsTaken(FeatureRows(h), b, s.epoch, s.seq, p) /\ OneTick(FeatureRows(h))
  BY <1>3 DEF Judged
<1>5. \A o \in Outcomes(r.drained) : WholeRow(t, Len(t), o) /\ o \in HandedRow
  <2>1. t \in Seq(Tick) /\ Len(t) \in Nat BY DEF Topic
  <2>2. \A k \in 1 .. p : t[k] \in Tick BY <2>1
  <2>3. \A o \in Outcomes(r.drained) : WholeRow(t, Len(t), o)
    BY <1>1, <1>2, <2>1, <2>2, OutcomesWhole
  <2>4. r.drained \in Seq(Drained) BY <1>2 DEF Drains
  <2>5. \A d \in Range(r.drained) : d \in Drained BY <2>4 DEF Range
  <2>6. \A o \in Outcomes(r.drained) : o \in HandedRow
    BY <2>5 DEF Outcomes, Row, Drained, HandedRow
  <2> QED BY <2>3, <2>6
<1>6. WholeAll(h2, t) /\ h2 \subseteq HandedRow /\ \A a \in h2 : a.off \in 1 .. Len(t)
  <2>1. \A o \in Outcomes(r.drained) : o.off \in 1 .. Len(t) BY <1>5 DEF WholeRow
  <2> QED BY <1>4, <1>5, <2>1 DEF WholeAll
<1>7. DedupeRows(h2, t) /\ Remembered(h2, t, s, b, p) /\ FeatureRows(h2) = FeatureRows(h)
  BY <1>4, OutcomesAside
<1>8. NoZero(t) => OneTick(h2) /\ Owned(h2, left) /\ IdsTaken(h2, b, s.epoch, s.seq, p)
  <2> SUFFICES ASSUME NoZero(t)
               PROVE  OneTick(h2) /\ Owned(h2, left) /\ IdsTaken(h2, b, s.epoch, s.seq, p)
    OBVIOUS
  <2>1. OneTick(h) /\ Owned(h, w) /\ IdsTaken(h, b, s.epoch, s.seq, p)
    BY <1>3 DEF Named
  <2> QED BY <1>1, <1>2, <1>4, <2>1, OutcomesAdd DEF left
<1> HIDE DEF h2, left
<1>9. Judged(t, p, b, s, h2) /\ Named(t, p, b, s, left, h2)
  BY <1>4, <1>6, <1>7, <1>8 DEF Judged, Named
<1> QED BY <1>2, <1>9 DEF RowsTrue, h2

\* A good tick that is new.  If neither its row nor a label raises there are
\* its feature and the outcomes that are due, and the next id.
Handling(s2, h, f, r) ==
  [stream |-> IF r.raised THEN s2 ELSE [s2 EXCEPT !.seq = @ + 1],
   handed |-> IF r.raised THEN h ELSE h \cup {f} \cup Outcomes(r.drained)]

Taken(t, p, b, h, r, x) ==
  /\ r.raised \in BOOLEAN /\ r.drained \in Seq(Drained)
  /\ StreamTyped(x.stream)
  /\ EngineTrue(t, p + 1, x.stream, r.engine)
  /\ RowsTrue(t, p + 1, b, x.stream, r.engine.pending, x.handed)

LEMMA SafeTaken ==
  ASSUME NEW t, Topic(t), NEW p \in Nat, p < Len(t), NEW b \in Nat, b >= 1,
         NEW s, StreamTyped(s), NEW e, NEW h,
         EngineTrue(t, p, s, e), RowsTrue(t, p, b, s, e.pending, h),
         NEW m \in Tick, t[p + 1] = m, m.kind = "ok",
         NEW rs, Stepped(s, m, rs), TickDedupeKey(m) \notin Range(rs.recent),
         NEW s2, StreamTyped(s2),
         s2.epoch = rs.epoch, s2.seq = rs.seq, s2.lastTs = rs.lastTs,
         Shifted(rs.recent, TickDedupeKey(m), s2.recent),
         NEW r, r = IngestWithTag(e, m, <<b, rs.epoch, rs.seq>>),
         NEW f, f = Row("feature", <<b, rs.epoch, rs.seq>>, m.off, m.ts, {})
  PROVE  Taken(t, p, b, h, r, Handling(s2, h, f, r))
<1> DEFINE tag == <<b, rs.epoch, rs.seq>>
           q0 == e.prices
           w0 == e.pending
           h1 == h \cup {f}
           s3 == [s2 EXCEPT !.seq = @ + 1]
<1>1. /\ PricesTrue(t, q0, p) /\ PendingHeld(t, q0, w0, p) /\ RecentHeld(q0, s)
      /\ e = [prices |-> q0, pending |-> w0]
      /\ w0 \in Seq(Waiting) /\ q0 \in Seq(Priced)
  BY DEF EngineTrue, PendingHeld, PricesTrue
<1>2. rs.epoch \in Nat /\ rs.seq \in Nat /\ rs.recent \in Seq(Key)
  BY DEF Stepped, StreamTyped
<1>3. /\ t \in Seq(Tick) /\ Len(t) \in Nat /\ p + 1 \in 1 .. Len(t)
      /\ m.off = p + 1 /\ \A k \in 1 .. p : t[k] \in Tick
  <2>1. t \in Seq(Tick) /\ Len(t) \in Nat BY DEF Topic
  <2>2. p + 1 \in 1 .. Len(t) BY <2>1
  <2>3. m.off = p + 1 BY <2>2 DEF Topic
  <2> QED BY <2>1, <2>2, <2>3
<1>4. tag \in Tag /\ tag[1] = b /\ tag[2] = rs.epoch
  BY <1>2 DEF Tag
<1>5. /\ StreamTyped(s3)
      /\ s3.epoch = rs.epoch /\ s3.seq = rs.seq + 1 /\ s3.lastTs = rs.lastTs
      /\ s3.recent = s2.recent
  <2>1. /\ s2 \in [epoch : Nat, seq : Nat, lastTs : Nat \cup {-1}, recent : Seq(Key)]
        /\ Len(s2.recent) <= Window
    BY DEF StreamTyped
  <2>2. /\ s3 \in [epoch : Nat, seq : Nat, lastTs : Nat \cup {-1}, recent : Seq(Key)]
        /\ s3.epoch = s2.epoch /\ s3.seq = s2.seq + 1 /\ s3.lastTs = s2.lastTs
        /\ s3.recent = s2.recent
    BY <2>1
  <2> HIDE DEF s3
  <2> QED BY <2>1, <2>2 DEF StreamTyped
<1> HIDE DEF q0, w0, s3
<1>6. PICK old, base, q :
        /\ Takes(t, p, m, tag, q0, w0, old, base, q)
        /\ \/ Unrowed(r, q, base)
           \/ \E n \in 0 .. Len(Pends(base, m, tag)) :
                Drains(r, q, Pends(base, m, tag), n)
  <2>1. r = IngestWithTag(e, m, tag) OBVIOUS
  <2> HIDE DEF tag
  <2>2. \E old, base, q :
          /\ Takes(t, p, m, tag, q0, w0, old, base, q)
          /\ \/ Unrowed(IngestWithTag(e, m, tag), q, base)
             \/ \E n \in 0 .. Len(Pends(base, m, tag)) :
                  Drains(IngestWithTag(e, m, tag), q, Pends(base, m, tag), n)
    BY <1>1, <1>3, <1>4, IngestOf
  <2> QED BY <2>1, <2>2
<1> DEFINE all == Pends(base, m, tag)
           e1 == [prices |-> q, pending |-> all]
<1>7. Judged(t, p, b, s, h) /\ Named(t, p, b, s, w0, h) /\ h \subseteq HandedRow
  BY DEF RowsTrue, Judged, w0
<1>8. PricesTrue(t, q, p + 1) /\ PendingHeld(t, q, base, p + 1) /\ PendingHeld(t, q, all, p + 1)
  BY <1>6 DEF Takes, Stores
<1>9. NoZero(t) => Positive(q)
  <2>1. p + 1 \in Nat /\ p + 1 <= Len(t) BY <1>3
  <2> QED BY <1>3, <1>8, <2>1, PositiveOf
<1>10. RecentHeld(q, s2) /\ RecentHeld(q, s3)
  <2>1. RecentHeld(q, s2) BY <1>1, <1>6, RecentTaken
  <2>2. s3.recent = s2.recent /\ s3.lastTs = s2.lastTs BY <1>5
  <2> QED BY <2>1, <2>2 DEF RecentHeld
<1>11. /\ EngineTrue(t, p + 1, s2, e1) /\ EngineTrue(t, p + 1, s3, e1)
       /\ e1.pending = all /\ e1.prices = q
  <2> HIDE DEF all
  <2> QED BY <1>8, <1>10 DEF EngineTrue
<1> HIDE DEF all, e1
<1>12. CASE r.raised
  <2>1. EngineTrue(t, p + 1, s2, r.engine) /\ r.drained \in Seq(Drained) /\ ~Positive(q)
        /\ r.raised \in BOOLEAN
    <3>1. CASE Unrowed(r, q, base)
      <4>1. r.engine = [prices |-> q, pending |-> base] /\ r.drained = <<>>
            /\ ~Positive(q) /\ r.raised = TRUE
        BY <3>1 DEF Unrowed
      <4>2. r.engine.prices = q /\ r.engine.pending = base BY <4>1
      <4> DEFINE e2 == r.engine
      <4>3. /\ PricesTrue(t, e2.prices, p + 1) /\ PendingHeld(t, e2.prices, e2.pending, p + 1)
            /\ RecentHeld(e2.prices, s2) /\ e2 = [prices |-> e2.prices, pending |-> e2.pending]
        BY <1>8, <1>10, <4>1, <4>2
      <4> HIDE DEF e2
      <4>4. EngineTrue(t, p + 1, s2, e2) BY <4>3 DEF EngineTrue
      <4>5. EngineTrue(t, p + 1, s2, r.engine) BY <4>4 DEF e2
      <4>6. <<>> \in Seq(Drained) /\ TRUE \in BOOLEAN OBVIOUS
      <4> QED BY <4>1, <4>5, <4>6
    <3>2. CASE \E n \in 0 .. Len(all) : Drains(r, q, all, n)
      <4>1. PICK n \in 0 .. Len(all) : Drains(r, q, all, n) BY <3>2
      <4>2. p + 1 \in Nat OBVIOUS
      <4>3. EngineTrue(t, p + 1, s2, r.engine) BY <1>11, <4>1, <4>2, EngineDrains
      <4>4. r.drained \in Seq(Drained) /\ ~Positive(q) /\ r.raised \in BOOLEAN
        BY <1>12, <4>1 DEF Drains
      <4> QED BY <4>3, <4>4
    <3> QED BY <1>6, <3>1, <3>2 DEF all
  <2>2. Judged(t, p + 1, b, s2, h) BY <1>7, JudgedOn
  <2>3. Named(t, p + 1, b, s2, r.engine.pending, h) BY <1>9, <2>1 DEF Named
  <2>4. Handling(s2, h, f, r).stream = s2 /\ Handling(s2, h, f, r).handed = h
    BY <1>12 DEF Handling
  <2> QED BY <2>1, <2>2, <2>3, <2>4 DEF Taken, RowsTrue
<1>13. CASE ~r.raised
  <2>1. PICK n \in 0 .. Len(all) : Drains(r, q, all, n)
    BY <1>6, <1>13 DEF Unrowed, all
  <2>2. /\ h \subseteq HandedRow /\ IdsTaken(FeatureRows(h), b, s.epoch, s.seq, p)
        /\ WholeAll(h, t) /\ DedupeRows(h, t) /\ Remembered(h, t, s, b, p)
        /\ \A a \in h : a.off \in 1 .. Len(t)
    BY <1>7 DEF Judged
  <2>3. f.id = tag /\ f.off = p + 1 /\ f.kind = "feature" /\ f \in HandedRow
    <3>1. f = [kind |-> "feature", id |-> tag, off |-> m.off, ts |-> m.ts, vol |-> {}]
      BY DEF Row
    <3>2. m.ts \in Nat /\ m.off \in Nat BY DEF Tick
    <3> HIDE DEF tag
    <3>3. [kind |-> "feature", id |-> tag, off |-> m.off, ts |-> m.ts, vol |-> {}]
            \in HandedRow
      BY <1>4, <3>2 DEF HandedRow
    <3>4. f \in HandedRow BY <3>1, <3>3
    <3>5. f.id = tag /\ f.off = m.off /\ f.kind = "feature" BY <3>1
    <3> QED BY <1>3, <3>4, <3>5
  <2>4. FeatureRows(h1) = FeatureRows(h) \cup {f} BY <2>3 DEF FeatureRows
  <2>5. IdsTaken(FeatureRows(h), b, rs.epoch, rs.seq, p + 1)
    <3>1. FeatureRows(h) \subseteq HandedRow BY <2>2 DEF FeatureRows
    <3> QED BY <2>2, <3>1, IdsMove
  <2>6. IdsTaken(FeatureRows(h1), b, rs.epoch, rs.seq + 1, p + 1)
    <3>1. FeatureRows(h) \subseteq HandedRow BY <2>2 DEF FeatureRows
    <3>2. p + 1 \in Nat OBVIOUS
    <3>3. IdsTaken(FeatureRows(h) \cup {f}, b, rs.epoch, rs.seq + 1, p + 1)
      BY <1>2, <2>3, <2>5, <3>1, <3>2, IdsNext
    <3> QED BY <2>4, <3>3
  <2>0. OneTick(FeatureRows(h1))
    <3>1. FeatureRows(h) \subseteq HandedRow BY <2>2 DEF FeatureRows
    <3>2. OneTick(FeatureRows(h)) BY <1>7 DEF Judged
    <3>3. OneTick(FeatureRows(h) \cup {f})
      <4>1. p + 1 \in Nat OBVIOUS
      <4>2. f.id = <<b, rs.epoch, rs.seq>> BY <2>3
      <4>3. rs.epoch \in Nat /\ rs.seq \in Nat BY <1>2
      <4>4. b \in Nat OBVIOUS
      <4> QED BY ONLY <2>5, <3>1, <3>2, <4>1, <4>2, <4>3, <4>4, NamesNext
    <3> QED BY <2>4, <3>3
  <2>7. Shifted(rs.recent, TickDedupeKey(m), s3.recent) BY <1>5
  <2>8. DedupeRows(h1, t) /\ Remembered(h1, t, s3, b, p + 1)
    <3>1. Remembered(h, t, rs, b, p) BY <2>2, RememberedOn
    <3>2. \A a \in FeatureRows(h) : a.id[1] = b => a.off <= p BY <2>2 DEF IdsTaken
    <3>3. f.id[1] = b /\ f.id[2] = rs.epoch BY <1>4, <2>3
    <3>4. /\ TickDedupeKey(t[p + 1]) \notin Range(rs.recent)
          /\ Shifted(rs.recent, TickDedupeKey(t[p + 1]), s3.recent)
      BY <2>7
    <3>5. f.off = p + 1 BY <2>3
    <3>6. h \subseteq HandedRow /\ DedupeRows(h, t) BY <2>2
    <3>7. rs.recent \in Seq(Key) /\ s3.epoch = rs.epoch BY <1>2, <1>5
    <3>8. DedupeRows(h \cup {f}, t) /\ Remembered(h \cup {f}, t, s3, b, p + 1)
      BY ONLY <3>1, <3>2, <3>3, <3>4, <3>5, <3>6, <3>7, FeatureDeduped, p \in Nat
    <3> QED BY <3>8
  <2>9. WholeAll(h1, t) /\ h1 \subseteq HandedRow /\ \A a \in h1 : a.off \in 1 .. Len(t)
    BY <1>3, <2>2, <2>3 DEF WholeAll
  <2>10. NoZero(t) => OneTick(h1) /\ IdsTaken(h1, b, rs.epoch, rs.seq + 1, p + 1)
                      /\ Owned(h1, all)
    <3> SUFFICES ASSUME NoZero(t)
                 PROVE  OneTick(h1) /\ IdsTaken(h1, b, rs.epoch, rs.seq + 1, p + 1)
                        /\ Owned(h1, all)
      OBVIOUS
    <3>1. OneTick(h) /\ IdsTaken(h, b, s.epoch, s.seq, p) /\ Owned(h, w0)
      BY <1>7 DEF Named
    <3>2. base \in Seq(Waiting) /\ Owned(h, base)
      <4>1. base = w0 \/ base = <<>> BY <1>6 DEF Takes
      <4>2. Owned(h, <<>>) /\ <<>> \in Seq(Waiting) BY DEF Owned
      <4>3. CASE base = w0 BY <1>1, <3>1, <4>3
      <4>4. CASE base = <<>> BY <4>2, <4>4
      <4> QED BY <4>1, <4>3, <4>4
    <3>3. IdsTaken(h, b, rs.epoch, rs.seq, p + 1) BY <2>2, <3>1, IdsMove
    <3>4. m.off = p + 1 /\ rs.epoch \in Nat /\ rs.seq \in Nat BY <1>2, <1>3
    <3>5. tag = <<b, rs.epoch, rs.seq>> /\ f = Row("feature", tag, m.off, m.ts, {})
      OBVIOUS
    <3> HIDE DEF tag
    <3>6. Adds(h, f, b, rs.epoch, rs.seq, p, base, m, tag)
      BY <2>2, <3>1, <3>2, <3>3, <3>4, <3>5, FeatureAdds
    <3> QED BY <3>6 DEF Adds, all
  <2> HIDE DEF h1, tag
  <2>11. RowsTrue(t, p + 1, b, s3, all, h1)
    <3>1. Judged(t, p + 1, b, s3, h1) BY <1>5, <2>0, <2>6, <2>8, <2>9 DEF Judged
    <3>2. Named(t, p + 1, b, s3, all, h1) BY <1>5, <2>10 DEF Named
    <3> QED BY <3>1, <3>2 DEF RowsTrue
  <2>12. /\ EngineTrue(t, p + 1, s3, r.engine)
         /\ RowsTrue(t, p + 1, b, s3, r.engine.pending, h1 \cup Outcomes(r.drained))
    <3>1. p + 1 \in Nat /\ p + 1 <= Len(t) BY <1>3
    <3> QED BY <1>11, <2>1, <2>11, <3>1, SafeDrain
  <2>13. r.raised \in BOOLEAN /\ r.drained \in Seq(Drained)
    BY <2>1 DEF Drains
  <2>14. Handling(s2, h, f, r).stream = s3
         /\ Handling(s2, h, f, r).handed = h1 \cup Outcomes(r.drained)
    BY <1>13 DEF Handling, s3, h1
  <2> QED BY <1>5, <2>12, <2>13, <2>14 DEF Taken
<1> QED BY <1>12, <1>13

\* Nothing that is true of a topic changes when it grows.
LEMMA TopicGrows ==
  ASSUME NEW t, NEW u, Len(t) \in Nat, Len(u) \in Nat, Len(t) <= Len(u),
         \A k \in 1 .. Len(t) : u[k] = t[k],
         NEW p \in Nat, p <= Len(t), NEW b, NEW s, NEW e, NEW h,
         EngineTrue(t, p, s, e), RowsTrue(t, p, b, s, e.pending, h)
  PROVE  EngineTrue(u, p, s, e) /\ RowsTrue(u, p, b, s, e.pending, h)
<1> DEFINE q == e.prices
           w == e.pending
<1>1. \A k \in 1 .. p : u[k] = t[k]
  OBVIOUS
<1>2. EngineTrue(u, p, s, e)
  <2>1. PricesTrue(t, q, p) /\ PendingHeld(t, q, w, p) BY DEF EngineTrue
  <2> HIDE DEF q, w
  <2>2. PricesTrue(u, q, p)
    <3>1. \A i \in 1 .. Len(q) : q[i].off \in 1 .. p BY <2>1 DEF PricesTrue
    <3>2. \A i \in 1 .. Len(q) : u[q[i].off] = t[q[i].off] BY <1>1, <3>1
    <3> QED BY <2>1, <3>2 DEF PricesTrue
  <2>3. PendingHeld(u, q, w, p) BY <1>1, <2>1 DEF PendingHeld
  <2> QED BY <2>2, <2>3 DEF EngineTrue, q, w
<1>0. Judged(t, p, b, s, h) /\ Named(t, p, b, s, w, h)
  BY DEF RowsTrue
<1>3. \A a \in h : a.off \in 1 .. Len(t) /\ u[a.off] = t[a.off]
  BY <1>0 DEF Judged
<1>4. \A a \in h : a.off \in 1 .. Len(u)
  BY <1>3
<1>5. WholeAll(h, u)
  <2>1. \A o \in h : o.kind = "outcome" => WholeRow(t, Len(t), o)
    BY <1>0 DEF Judged, WholeAll
  <2>2. \A o \in h : o.kind = "outcome" => WholeRow(u, Len(u), o) BY <2>1, WholeGrows
  <2> QED BY <2>2 DEF WholeAll
<1>6. DedupeRows(h, u)
  BY <1>0, <1>3 DEF DedupeRows, Judged
<1>7. Remembered(h, u, s, b, p)
  <2> SUFFICES ASSUME NEW a \in h, a.kind = "feature", a.id[1] = b, a.id[2] = s.epoch
               PROVE  Near(a, u, s.recent, p)
    BY DEF Remembered
  <2>1. Near(a, t, s.recent, p) BY <1>0 DEF Judged, Remembered
  <2> QED BY <1>3, <2>1 DEF Near
<1>8. Judged(u, p, b, s, h)
  BY <1>0, <1>4, <1>5, <1>6, <1>7 DEF Judged
<1>9. NoZero(u) => NoZero(t)
  BY DEF NoZero
<1>10. Named(u, p, b, s, w, h)
  BY <1>0, <1>9 DEF Named
<1> QED
  BY <1>2, <1>8, <1>10 DEF RowsTrue

(***************************************************************************)
(* The inductive invariant.                                                *)
(***************************************************************************)
FeatTyped ==
  /\ Topic(raw)
  /\ committed \in 0 .. Len(raw) /\ pos \in 0 .. Len(raw)
  /\ boot \in 1 .. MaxBoots
  /\ mode \in {"running", "closing", "stopped", "failed", "down"}
  /\ StreamTyped(stream)
  /\ sink \in Sinks /\ labelled \in Seq(Drained)

FeatIInv ==
  /\ FeatTyped
  /\ EngineTrue(raw, pos, stream, engine)
  /\ RowsTrue(raw, pos, boot, stream, engine.pending, handed)
  /\ mode \in {"running", "closing"} => Content(sink) = labelled
  /\ CleanStopKeepsRows

LEMMA FeatIInvInit == FeatInit => FeatIInv
<1> SUFFICES ASSUME FeatInit PROVE FeatIInv
  OBVIOUS
<1>1. Topic(raw) /\ Len(raw) = 0
  BY DEF FeatInit, Topic
<1>2. StreamTyped(stream)
  <2>1. stream = [epoch |-> 0, seq |-> 0, lastTs |-> -1, recent |-> <<>>]
    BY DEF FeatInit, StreamInit
  <2>2. Window \in Nat BY FeaturizerAssumption
  <2> QED BY <2>1, <2>2 DEF StreamTyped
<1>3. sink \in Sinks /\ Content(sink) = <<>>
  <2>1. sink = [buf |-> <<>>, open |-> FALSE, tmp |-> <<>>] BY DEF FeatInit, SinkInit
  <2>2. FlushRows \in Nat /\ FlushRows > 0 BY FeaturizerAssumption
  <2> QED BY <2>1, <2>2 DEF Sinks, Content
<1>4. FeatTyped
  BY <1>1, <1>2, <1>3, FeaturizerAssumption DEF FeatInit, FeatTyped
<1>5. engine = [prices |-> <<>>, pending |-> <<>>]
      /\ engine.prices = <<>> /\ engine.pending = <<>>
  BY DEF FeatInit, FeatureEngineInit
<1>6. stream.recent = <<>>
  BY DEF FeatInit, StreamInit
<1>7. EngineTrue(raw, pos, stream, engine)
  BY <1>5, <1>6 DEF EngineTrue, PricesTrue, PendingHeld, RecentHeld
<1>8. handed = {}
  BY DEF FeatInit
<1>9. RowsTrue(raw, pos, boot, stream, engine.pending, handed)
  BY <1>5, <1>8 DEF RowsTrue, Judged, Named, FeatureRows, OneTick, IdsTaken, Owned,
                    WholeAll, DedupeRows, Remembered
<1> QED
  BY <1>3, <1>4, <1>7, <1>9 DEF FeatIInv, FeatInit, CleanStopKeepsRows

\* What the handling of one message of the topic as it then is comes to.
LEMMA Handled ==
  ASSUME StreamTyped(stream), sink \in Sinks, labelled \in Seq(Drained),
         Content(sink) = labelled, pos \in Nat, boot \in Nat, boot >= 1,
         Topic(raw'), pos < Len(raw'),
         EngineTrue(raw', pos, stream, engine),
         RowsTrue(raw', pos, boot, stream, engine.pending, handed),
         HandleMessage(raw'[pos + 1])
  PROVE  /\ StreamTyped(stream')
         /\ EngineTrue(raw', pos + 1, stream', engine')
         /\ RowsTrue(raw', pos + 1, boot, stream', engine'.pending, handed')
         /\ sink' \in Sinks /\ labelled' \in Seq(Drained)
         /\ Content(sink') = labelled'
<1> DEFINE t == raw'
           m == t[pos + 1]
           tag == FeatureId(Regress(stream, m.ts))
           rs == Regress(stream, m.ts)
           s2 == Remember(rs, m)
           r == IngestWithTag(engine, m, tag)
           i == Ingest(m)
<1>1. m \in Tick /\ t \in Seq(Tick)
  <2>1. t \in Seq(Tick) BY DEF Topic
  <2>2. pos + 1 \in 1 .. Len(t) BY <2>1
  <2> QED BY <2>1, <2>2
<1> HIDE DEF t
<1>0. /\ Topic(t) /\ pos < Len(t)
      /\ EngineTrue(t, pos, stream, engine)
      /\ RowsTrue(t, pos, boot, stream, engine.pending, handed)
      /\ HandleMessage(m)
  BY DEF t
<1>2. CASE m.kind = "junk"
  <2>1. UNCHANGED <<stream, engine, sink, handed, labelled>>
    BY <1>0, <1>2 DEF HandleMessage
  <2>2. m.kind # "ok" BY <1>2
  <2>3. EngineTrue(t, pos + 1, stream, engine)
        /\ RowsTrue(t, pos + 1, boot, stream, engine.pending, handed)
    BY <1>0, <2>2, SafeJunk
  <2> HIDE DEF m
  <2> QED BY <2>1, <2>3 DEF t
<1>3. CASE m.kind # "junk"
  <2>1. /\ stream' = i.stream /\ engine' = i.engine
        /\ sink' = WriteRows(sink, i.drained)
        /\ labelled' = labelled \o i.drained
        /\ handed' = handed \cup i.rows \cup Outcomes(i.drained)
    BY <1>0, <1>3 DEF HandleMessage
  <2>2. Stepped(stream, m, rs) /\ StreamTyped(rs)
    <3>1. Stepped(stream, m, rs) BY <1>1, RegressOf
    <3> QED BY <3>1 DEF Stepped
  <2>3. /\ StreamTyped(s2)
        /\ s2.epoch = rs.epoch /\ s2.lastTs = rs.lastTs /\ s2.seq = rs.seq
        /\ Shifted(rs.recent, TickDedupeKey(m), s2.recent)
    BY <1>1, <2>2, RememberOf
  <2>4. i = IF TickDedupeKey(m) \in Range(rs.recent)
            THEN [stream |-> rs, engine |-> engine, rows |-> {}, drained |-> <<>>]
            ELSE IF r.raised
            THEN [stream |-> s2, engine |-> r.engine, rows |-> {}, drained |-> <<>>]
            ELSE [stream |-> [s2 EXCEPT !.seq = @ + 1], engine |-> r.engine,
                  rows |-> {Row("feature", tag, m.off, m.ts, {})},
                  drained |-> r.drained]
    BY DEF Ingest, IsRedelivery
  <2>5. i.drained \in Seq(Drained) =>
          sink' \in Sinks /\ labelled' \in Seq(Drained) /\ Content(sink') = labelled'
    <3> SUFFICES ASSUME i.drained \in Seq(Drained)
                 PROVE  /\ sink' \in Sinks /\ labelled' \in Seq(Drained)
                        /\ Content(sink') = labelled'
      OBVIOUS
    <3> DEFINE d == i.drained
    <3>1. d \in Seq(Drained) /\ sink' = WriteRows(sink, d) /\ labelled' = labelled \o d
      BY <2>1
    <3> HIDE DEF d
    <3>2. WriteRows(sink, d) \in Sinks /\ Content(WriteRows(sink, d)) = Content(sink) \o d
      BY <3>1, WritesOf
    <3>3. labelled \o d \in Seq(Drained) BY <3>1
    <3> QED BY <3>1, <3>2, <3>3
  <2>6. Outcomes(<<>>) = {} BY DEF Outcomes, Range
  <2>7. tag = <<boot, rs.epoch, rs.seq>> BY DEF FeatureId
  <2> HIDE DEF rs, s2, i, tag, r, m
  <2>8. CASE TickDedupeKey(m) \in Range(rs.recent)
    <3>1. i.stream = rs /\ i.engine = engine /\ i.rows = {} /\ i.drained = <<>>
      BY <2>4, <2>8
    <3>2. stream' = rs /\ engine' = engine /\ handed' = handed BY <2>1, <2>6, <3>1
    <3>3. EngineTrue(t, pos + 1, rs, engine)
          /\ RowsTrue(t, pos + 1, boot, rs, engine.pending, handed)
      BY <1>0, <1>1, <2>2, <2>8, SafeAgain DEF m
    <3>4. i.drained \in Seq(Drained) BY <3>1
    <3> QED BY <2>2, <2>5, <3>2, <3>3, <3>4 DEF t
  <2>9. CASE TickDedupeKey(m) \notin Range(rs.recent) /\ m.kind # "ok"
    <3>1. m.kind \in {"missing", "text"} BY <1>1, <1>3, <2>9 DEF Tick, TickKinds
    <3>2. /\ r.raised = TRUE
          /\ \/ r.engine = engine
             \/ /\ r.engine = FeatureEngineInit
                /\ engine.prices # <<>> /\ m.ts < LastTs(engine.prices)
      BY <3>1 DEF r, IngestWithTag, ResetOnRegression, ResetEngine
    <3>3. i.stream = s2 /\ i.engine = r.engine /\ i.rows = {} /\ i.drained = <<>>
      BY <2>4, <2>9, <3>2
    <3>4. stream' = s2 /\ engine' = r.engine /\ handed' = handed BY <2>1, <2>6, <3>3
    <3>5. EngineTrue(t, pos + 1, s2, r.engine)
          /\ RowsTrue(t, pos + 1, boot, s2, r.engine.pending, handed)
      BY <1>0, <1>1, <2>2, <2>3, <2>9, <3>2, SafeRefused DEF m
    <3>6. i.drained \in Seq(Drained) BY <3>3
    <3> QED BY <2>3, <2>5, <3>4, <3>5, <3>6 DEF t
  <2>10. CASE TickDedupeKey(m) \notin Range(rs.recent) /\ m.kind = "ok"
    <3> DEFINE f == Row("feature", tag, m.off, m.ts, {})
               x == Handling(s2, handed, f, r)
    <3>1. Taken(t, pos, boot, handed, r, x)
      <4>1. r = IngestWithTag(engine, m, <<boot, rs.epoch, rs.seq>>) BY <2>7 DEF r
      <4>2. f = Row("feature", <<boot, rs.epoch, rs.seq>>, m.off, m.ts, {}) BY <2>7
      <4>3. m = t[pos + 1] BY DEF m
      <4> HIDE DEF f
      <4> QED BY <1>0, <1>1, <2>2, <2>3, <2>10, <4>1, <4>2, <4>3, SafeTaken
    <3>2. r.raised \in BOOLEAN /\ r.drained \in Seq(Drained) BY <3>1 DEF Taken
    <3>3. /\ i.stream = x.stream /\ i.engine = r.engine
          /\ i.drained \in Seq(Drained)
          /\ handed \cup i.rows \cup Outcomes(i.drained) = x.handed
      <4>1. CASE r.raised
        <5>1. i = [stream |-> s2, engine |-> r.engine, rows |-> {}, drained |-> <<>>]
          BY <2>4, <2>10, <4>1
        <5>2. x = [stream |-> s2, handed |-> handed] BY <4>1 DEF Handling
        <5>3. <<>> \in Seq(Drained) OBVIOUS
        <5> HIDE DEF x
        <5> QED BY <2>6, <5>1, <5>2, <5>3
      <4>2. CASE ~r.raised
        <5> DEFINE s3 == [s2 EXCEPT !.seq = @ + 1]
        <5>1. i = [stream |-> s3, engine |-> r.engine, rows |-> {f}, drained |-> r.drained]
          BY <2>4, <2>10, <4>2
        <5> HIDE DEF f
        <5>2. x = [stream |-> s3, handed |-> handed \cup {f} \cup Outcomes(r.drained)]
          BY <4>2 DEF Handling
        <5> HIDE DEF x, s3
        <5> QED BY <3>2, <5>1, <5>2
      <4> QED BY <4>1, <4>2
    <3> HIDE DEF x
    <3>4. stream' = x.stream /\ engine' = r.engine /\ handed' = x.handed BY <2>1, <3>3
    <3> QED BY <2>5, <3>1, <3>3, <3>4 DEF Taken, t
  <2> QED BY <2>8, <2>9, <2>10
<1> HIDE DEF m
<1> QED BY <1>2, <1>3

LEMMA MessagesTyped ==
  ASSUME Topic(raw), NEW m \in Messages, pos \in Nat
  PROVE  m \in Tick /\ m.off = pos + 1
<1> DEFINE last == IF raw = <<>> THEN 0 ELSE raw[Len(raw)].ts
           price(k, d) == IF k = "ok" /\ d = 0 THEN Prices ELSE {1}
<1>1. last \in Nat
  <2>1. raw \in Seq(Tick) BY DEF Topic
  <2>2. raw # <<>> => raw[Len(raw)] \in Tick BY <2>1
  <2> QED BY <2>2 DEF Tick
<1>2. PICK x \in {y \in Steps \X Kinds \X Prices :
                   last + y[1] >= 0 /\ y[3] \in price(y[2], y[1])} :
        m = [ts |-> last + x[1], price |-> x[3], kind |-> x[2], off |-> pos + 1]
  BY DEF Messages
<1> HIDE DEF last, price
<1>3. x[1] \in Steps /\ x[2] \in Kinds /\ x[3] \in Prices /\ last + x[1] >= 0
  OBVIOUS
<1>4. x[1] \in Int /\ x[2] \in TickKinds \cup {"junk"} /\ x[3] \in Nat
  BY <1>3, FeaturizerAssumption
<1>5. last + x[1] \in Nat
  BY <1>1, <1>3, <1>4
<1> QED BY <1>2, <1>4, <1>5 DEF Tick

LEMMA PollKeeps ==
  ASSUME FeatIInv, Poll
  PROVE  FeatIInv'
<1>1. /\ Topic(raw) /\ Len(raw) \in Nat /\ committed \in 0 .. Len(raw) /\ pos \in 0 .. Len(raw)
      /\ pos \in Nat /\ boot \in 1 .. MaxBoots /\ boot \in Nat /\ boot >= 1
      /\ StreamTyped(stream) /\ sink \in Sinks /\ labelled \in Seq(Drained)
  <2>1. Topic(raw) /\ committed \in 0 .. Len(raw) /\ pos \in 0 .. Len(raw)
        /\ boot \in 1 .. MaxBoots
        /\ StreamTyped(stream) /\ sink \in Sinks /\ labelled \in Seq(Drained)
    BY DEF FeatIInv, FeatTyped
  <2>2. Len(raw) \in Nat
    <3>1. raw \in Seq(Tick) BY <2>1 DEF Topic
    <3> QED BY <3>1
  <2> QED BY <2>1, <2>2
<1>2. mode = "running" /\ pos' = pos + 1 /\ mode' = mode
      /\ committed' = committed /\ boot' = boot /\ target' = target
  BY DEF Poll
<1>3. Content(sink) = labelled
  BY <1>2 DEF FeatIInv
<1>4. /\ Topic(raw') /\ Len(raw') \in Nat /\ Len(raw) <= Len(raw') /\ pos < Len(raw')
      /\ \A k \in 1 .. Len(raw) : raw'[k] = raw[k]
      /\ HandleMessage(raw'[pos + 1])
  <2>1. CASE pos < Len(raw) /\ HandleMessage(raw[pos + 1]) /\ UNCHANGED raw
    BY <1>1, <2>1
  <2>2. CASE /\ pos = Len(raw)
             /\ \E m \in Messages : raw' = Append(raw, m) /\ HandleMessage(m)
    <3>1. PICK m \in Messages : raw' = Append(raw, m) /\ HandleMessage(m) BY <2>2
    <3>2. m \in Tick /\ m.off = pos + 1 BY <1>1, MessagesTyped
    <3>3. raw \in Seq(Tick) BY <1>1 DEF Topic
    <3>4. /\ raw' \in Seq(Tick) /\ Len(raw') = pos + 1 /\ raw'[pos + 1] = m
          /\ \A k \in 1 .. Len(raw) : raw'[k] = raw[k]
      BY <1>1, <2>2, <3>1, <3>2, <3>3
    <3>5. \A k \in 1 .. pos + 1 : k \in 1 .. Len(raw) \/ k = pos + 1
      BY <1>1, <2>2
    <3>6. \A k \in 1 .. Len(raw) : raw[k].off = k BY <1>1 DEF Topic
    <3>7. \A k \in 1 .. Len(raw') : raw'[k].off = k BY <3>2, <3>4, <3>5, <3>6
    <3>8. Topic(raw') BY <3>4, <3>7 DEF Topic
    <3> QED BY <1>1, <2>2, <3>1, <3>4, <3>8
  <2> QED BY <2>1, <2>2 DEF Poll
<1>5. /\ EngineTrue(raw', pos, stream, engine)
      /\ RowsTrue(raw', pos, boot, stream, engine.pending, handed)
  <2>1. EngineTrue(raw, pos, stream, engine)
        /\ RowsTrue(raw, pos, boot, stream, engine.pending, handed)
    BY DEF FeatIInv
  <2> DEFINE now == raw'
  <2>2. /\ Len(raw) \in Nat /\ Len(now) \in Nat /\ Len(raw) <= Len(now)
        /\ \A k \in 1 .. Len(raw) : now[k] = raw[k]
    BY <1>1, <1>4
  <2>3. pos \in Nat /\ pos <= Len(raw) BY <1>1
  <2> HIDE DEF now
  <2>4. EngineTrue(now, pos, stream, engine)
        /\ RowsTrue(now, pos, boot, stream, engine.pending, handed)
    BY ONLY <2>1, <2>2, <2>3, TopicGrows
  <2> QED BY <2>4 DEF now
<1>6. /\ StreamTyped(stream')
      /\ EngineTrue(raw', pos + 1, stream', engine')
      /\ RowsTrue(raw', pos + 1, boot, stream', engine'.pending, handed')
      /\ sink' \in Sinks /\ labelled' \in Seq(Drained)
      /\ Content(sink') = labelled'
  BY <1>1, <1>3, <1>4, <1>5, Handled
<1>7. committed' \in 0 .. Len(raw') /\ pos' \in 0 .. Len(raw')
  BY <1>1, <1>2, <1>4
<1>8. FeatTyped'
  BY <1>1, <1>2, <1>4, <1>6, <1>7 DEF FeatTyped
<1>9. CleanStopKeepsRows'
  BY <1>2 DEF CleanStopKeepsRows
<1> QED
  BY <1>2, <1>6, <1>8, <1>9 DEF FeatIInv

LEMMA ShutdownKeeps ==
  ASSUME FeatIInv, Shutdown
  PROVE  FeatIInv'
<1> DEFINE r == DrainRemaining(engine)
           q == engine.prices
           w == engine.pending
<1>1. /\ FeatTyped /\ EngineTrue(raw, pos, stream, engine)
      /\ RowsTrue(raw, pos, boot, stream, w, handed)
      /\ CleanStopKeepsRows
  BY DEF FeatIInv
<1>2. /\ mode = "running" /\ engine' = r.engine
      /\ sink' = WriteRows(sink, r.drained)
      /\ labelled' = labelled \o r.drained
      /\ handed' = handed \cup Outcomes(r.drained)
      /\ committed' = IF r.raised THEN committed ELSE pos
      /\ mode' = IF r.raised THEN "down" ELSE "closing"
      /\ UNCHANGED <<raw, pos, boot, stream, target>>
  BY DEF Shutdown
<1>3. Content(sink) = labelled /\ sink \in Sinks /\ labelled \in Seq(Drained)
  BY <1>1, <1>2 DEF FeatIInv, FeatTyped
<1>4. /\ Topic(raw) /\ Len(raw) \in Nat /\ pos \in Nat /\ pos <= Len(raw)
      /\ committed \in 0 .. Len(raw) /\ pos \in 0 .. Len(raw)
  <2>1. Topic(raw) /\ committed \in 0 .. Len(raw) /\ pos \in 0 .. Len(raw)
    BY <1>1 DEF FeatTyped
  <2>2. raw \in Seq(Tick) BY <2>1 DEF Topic
  <2> QED BY <2>1, <2>2
<1>5. /\ q \in Seq(Priced) /\ w \in Seq(Waiting) /\ engine = [prices |-> q, pending |-> w]
      /\ PricesTrue(raw, q, pos)
  BY <1>1 DEF EngineTrue, PricesTrue, PendingHeld
<1>6. /\ EngineTrue(raw, pos, stream, r.engine)
      /\ RowsTrue(raw, pos, boot, stream, r.engine.pending, handed \cup Outcomes(r.drained))
      /\ r.drained \in Seq(Drained)
  <2>1. CASE q = <<>>
    <3>1. r.engine = engine /\ r.drained = <<>> BY <2>1 DEF DrainRemaining
    <3>2. Outcomes(r.drained) = {} BY <3>1 DEF Outcomes, Range
    <3> HIDE DEF r
    <3>3. handed \cup Outcomes(r.drained) = handed BY <3>2
    <3>4. r.drained \in Seq(Drained) BY <3>1
    <3>5. engine.pending = w OBVIOUS
    <3> HIDE DEF w
    <3> QED BY <1>1, <3>1, <3>3, <3>4, <3>5
  <2>2. CASE q # <<>>
    <3>1. r = DrainTagged(engine, LastTs(q), TRUE) BY <2>2 DEF DrainRemaining
    <3>2. LastTs(q) \in Nat
      <4>1. q[Len(q)] \in Priced BY <1>5, <2>2
      <4> QED BY <4>1 DEF LastTs, Priced
    <3> HIDE DEF r, q, w
    <3>3. PICK n \in 0 .. Len(w) : Drains(r, q, w, n)
      BY <1>4, <1>5, <3>1, <3>2, DrainOf
    <3>4. /\ EngineTrue(raw, pos, stream, r.engine)
          /\ RowsTrue(raw, pos, boot, stream, r.engine.pending,
                      handed \cup Outcomes(r.drained))
      BY <1>1, <1>4, <3>3, SafeDrain DEF q, w
    <3> QED BY <3>3, <3>4 DEF Drains
  <2> QED BY <2>1, <2>2
<1> HIDE DEF r
<1>7. sink' \in Sinks /\ labelled' \in Seq(Drained) /\ Content(sink') = labelled'
  <2>1. WriteRows(sink, r.drained) \in Sinks
        /\ Content(WriteRows(sink, r.drained)) = Content(sink) \o r.drained
    BY <1>3, <1>6, WritesOf
  <2>2. labelled \o r.drained \in Seq(Drained) BY <1>3, <1>6
  <2> QED BY <1>2, <1>3, <2>1, <2>2
<1>8. FeatTyped'
  <2>1. committed' \in 0 .. Len(raw) BY <1>2, <1>4
  <2>2. mode' \in {"closing", "down"} BY <1>2
  <2> QED BY <1>1, <1>2, <1>7, <2>1, <2>2 DEF FeatTyped
<1>9. CleanStopKeepsRows'
  BY <1>2 DEF CleanStopKeepsRows
<1>10. EngineTrue(raw, pos, stream, engine)'
       /\ RowsTrue(raw, pos, boot, stream, engine.pending, handed)'
  BY <1>2, <1>6
<1> QED
  BY <1>7, <1>8, <1>9, <1>10 DEF FeatIInv

LEMMA CloseKeeps ==
  ASSUME FeatIInv, Close
  PROVE  FeatIInv'
<1>1. /\ FeatTyped /\ EngineTrue(raw, pos, stream, engine)
      /\ RowsTrue(raw, pos, boot, stream, engine.pending, handed)
  BY DEF FeatIInv
<1>2. /\ mode = "closing"
      /\ UNCHANGED <<raw, committed, pos, boot, stream, engine, handed, labelled>>
  BY DEF Close
<1>3. Content(sink) = labelled /\ sink \in Sinks /\ labelled \in Seq(Drained)
  BY <1>1, <1>2 DEF FeatIInv, FeatTyped
<1>4. /\ EngineTrue(raw, pos, stream, engine)'
      /\ RowsTrue(raw, pos, boot, stream, engine.pending, handed)'
  BY <1>1, <1>2
<1>5. sink \in [buf : Seq(Drained), open : BOOLEAN, tmp : Seq(Drained)]
  BY <1>3 DEF Sinks
<1>6. /\ CloseSink(sink) \in Sinks
      /\ sink.buf # <<>> \/ sink.open => CloseSink(sink).tmp = labelled
  BY <1>3, <1>5, FlushOf DEF CloseSink
<1>7. SinkInit \in Sinks
  <2>1. FlushRows \in Nat /\ FlushRows > 0 BY FeaturizerAssumption
  <2> QED BY <2>1 DEF SinkInit, Sinks
<1>8. CASE sink.buf = <<>> /\ ~sink.open /\ mode' = "stopped" /\ UNCHANGED <<sink, target>>
  <2>1. labelled = <<>> BY <1>3, <1>8 DEF Content
  <2>2. FeatTyped' BY <1>1, <1>2, <1>8 DEF FeatTyped
  <2> QED BY <1>2, <1>4, <1>8, <2>1, <2>2 DEF FeatIInv, CleanStopKeepsRows
<1>9. CASE /\ sink.buf # <<>> \/ sink.open
           /\ target' = CloseSink(sink).tmp /\ sink' = SinkInit /\ mode' = "stopped"
  <2>1. FeatTyped' BY <1>1, <1>2, <1>7, <1>9 DEF FeatTyped
  <2> QED BY <1>2, <1>4, <1>6, <1>9, <2>1 DEF FeatIInv, CleanStopKeepsRows
<1>10. CASE sink' = CloseSink(sink) /\ mode' = "failed" /\ UNCHANGED target
  <2>1. FeatTyped' BY <1>1, <1>2, <1>6, <1>10 DEF FeatTyped
  <2> QED BY <1>2, <1>4, <1>10, <2>1 DEF FeatIInv, CleanStopKeepsRows
<1> QED
  BY <1>8, <1>9, <1>10 DEF Close

LEMMA CrashKeeps ==
  ASSUME FeatIInv, Crash
  PROVE  FeatIInv'
<1>1. /\ mode' = "down" /\ committed' \in 0 .. Len(raw)
      /\ UNCHANGED <<raw, pos, boot, stream, engine, sink, target, handed, labelled>>
  <2>1. committed \in 0 .. Len(raw) BY DEF FeatIInv, FeatTyped
  <2>2. PICK c \in committed .. Len(raw) :
          committed' = IF mode = "closing" THEN committed ELSE c
    BY DEF Crash
  <2>3. Len(raw) \in Nat
    <3>1. raw \in Seq(Tick) BY DEF FeatIInv, FeatTyped, Topic
    <3> QED BY <3>1
  <2>4. c \in 0 .. Len(raw) BY <2>1, <2>3
  <2> QED BY <2>1, <2>2, <2>4 DEF Crash
<1>2. /\ FeatTyped /\ EngineTrue(raw, pos, stream, engine)
      /\ RowsTrue(raw, pos, boot, stream, engine.pending, handed)
  BY DEF FeatIInv
<1>3. FeatTyped'
  BY <1>1, <1>2 DEF FeatTyped
<1>4. /\ EngineTrue(raw, pos, stream, engine)'
      /\ RowsTrue(raw, pos, boot, stream, engine.pending, handed)'
  BY <1>1, <1>2
<1> QED
  BY <1>1, <1>3, <1>4 DEF FeatIInv, CleanStopKeepsRows

LEMMA StartKeeps ==
  ASSUME FeatIInv, Start
  PROVE  FeatIInv'
<1>1. /\ boot < MaxBoots /\ boot' = boot + 1 /\ mode' = "running" /\ pos' = committed
      /\ stream' = StreamInit /\ engine' = FeatureEngineInit /\ sink' = SinkInit
      /\ labelled' = <<>>
      /\ UNCHANGED <<raw, committed, target, handed>>
  BY DEF Start
<1>2. FeatTyped /\ RowsTrue(raw, pos, boot, stream, engine.pending, handed)
  BY DEF FeatIInv
<1>3. boot \in Nat /\ boot' \in 1 .. MaxBoots
  <2>1. boot \in 1 .. MaxBoots /\ MaxBoots \in Nat
    BY <1>2, FeaturizerAssumption DEF FeatTyped
  <2> QED BY <1>1, <2>1
<1>4. StreamTyped(StreamInit) /\ StreamInit.recent = <<>>
  <2>1. Window \in Nat BY FeaturizerAssumption
  <2> QED BY <2>1 DEF StreamInit, StreamTyped
<1>5. SinkInit \in Sinks /\ Content(SinkInit) = <<>>
  <2>1. FlushRows \in Nat /\ FlushRows > 0 BY FeaturizerAssumption
  <2> QED BY <2>1 DEF SinkInit, Sinks, Content
<1>6. FeatTyped'
  BY <1>1, <1>2, <1>3, <1>4, <1>5 DEF FeatTyped
<1>7. /\ engine' = [prices |-> <<>>, pending |-> <<>>]
      /\ engine'.prices = <<>> /\ engine'.pending = <<>> /\ stream'.recent = <<>>
  BY <1>1, <1>4 DEF FeatureEngineInit
<1>8. EngineTrue(raw, pos, stream, engine)'
  BY <1>7 DEF EngineTrue, PricesTrue, PendingHeld, RecentHeld
<1>9. Judged(raw, pos, boot, stream, handed)
      /\ Named(raw, pos, boot, stream, engine.pending, handed)
  BY <1>2 DEF RowsTrue
<1>10. ASSUME NEW g, IdsTaken(g, boot, stream.epoch, stream.seq, pos)
       PROVE  /\ IdsTaken(g, boot', stream'.epoch, stream'.seq, pos')
              /\ \A a \in g : a.id[1] # boot'
  <2>1. \A a \in g : a.id[1] \in 1 .. boot BY <1>10 DEF IdsTaken
  <2>2. \A a \in g : a.id[1] \in 1 .. boot' /\ a.id[1] # boot' BY <1>1, <1>3, <2>1
  <2> QED BY <2>2 DEF IdsTaken
<1>11. /\ handed' = handed /\ raw' = raw
       /\ handed \subseteq HandedRow /\ \A a \in handed : a.off \in 1 .. Len(raw)
       /\ WholeAll(handed, raw) /\ DedupeRows(handed, raw)
       /\ IdsTaken(FeatureRows(handed), boot, stream.epoch, stream.seq, pos)
       /\ OneTick(FeatureRows(handed))
  BY <1>1, <1>9 DEF Judged
<1>12. Remembered(handed, raw, stream', boot', pos')
  <2>1. \A a \in FeatureRows(handed) : a.id[1] # boot' BY <1>10, <1>11
  <2> QED BY <2>1 DEF Remembered, FeatureRows
<1>13. Judged(raw, pos, boot, stream, handed)'
  <2>1. IdsTaken(FeatureRows(handed), boot', stream'.epoch, stream'.seq, pos')
    BY <1>10, <1>11
  <2> QED BY <1>11, <1>12, <2>1 DEF Judged
<1>14. Named(raw, pos, boot, stream, engine.pending, handed)'
  <2>1. Owned(handed, engine'.pending) BY <1>7 DEF Owned
  <2>2. NoZero(raw) =>
          OneTick(handed) /\ IdsTaken(handed, boot, stream.epoch, stream.seq, pos)
    BY <1>9 DEF Named
  <2>3. IdsTaken(handed, boot, stream.epoch, stream.seq, pos)
          => IdsTaken(handed, boot', stream'.epoch, stream'.seq, pos')
    BY <1>10
  <2> QED BY <1>11, <2>1, <2>2, <2>3 DEF Named
<1>15. RowsTrue(raw, pos, boot, stream, engine.pending, handed)'
  BY <1>13, <1>14 DEF RowsTrue
<1> QED
  BY <1>1, <1>5, <1>6, <1>8, <1>15 DEF FeatIInv, CleanStopKeepsRows

THEOREM FeatIInvHolds == FeatSpec => []FeatIInv
<1>1. FeatInit => FeatIInv
  BY FeatIInvInit
<1>2. FeatIInv /\ [FeatNext]_featVars => FeatIInv'
  <2> SUFFICES ASSUME FeatIInv, [FeatNext]_featVars PROVE FeatIInv'
    OBVIOUS
  <2>1. CASE Poll BY <2>1, PollKeeps
  <2>2. CASE Shutdown BY <2>2, ShutdownKeeps
  <2>3. CASE Close BY <2>3, CloseKeeps
  <2>4. CASE Crash BY <2>4, CrashKeeps
  <2>5. CASE Start BY <2>5, StartKeeps
  <2>6. CASE UNCHANGED featVars
    <3>1. UNCHANGED <<raw, committed, pos, boot, mode, stream, engine, sink, target,
                      handed, labelled>>
      BY <2>6 DEF featVars
    <3>2. FeatTyped' BY <3>1 DEF FeatIInv, FeatTyped
    <3>3. /\ EngineTrue(raw, pos, stream, engine)'
          /\ RowsTrue(raw, pos, boot, stream, engine.pending, handed)'
      BY <3>1 DEF FeatIInv
    <3>4. CleanStopKeepsRows' BY <3>1 DEF FeatIInv, CleanStopKeepsRows
    <3> QED BY <3>1, <3>2, <3>3, <3>4 DEF FeatIInv
  <2> QED BY <2>1, <2>2, <2>3, <2>4, <2>5, <2>6 DEF FeatNext
<1> QED
  BY <1>1, <1>2, PTL DEF FeatSpec

(***************************************************************************)
(* A feature_id names one tick, whatever is refused, redelivered,          *)
(* restarted or killed, as long as no price was zero; feature rows have    *)
(* ids of their own whatever the prices were.                              *)
(***************************************************************************)
THEOREM StreamHolds == FeatSpec => []StreamInv
<1>1. FeatIInv => StreamInv
  <2> SUFFICES ASSUME FeatIInv PROVE StreamInv
    OBVIOUS
  <2>1. StreamTyped(stream) /\ sink \in Sinks /\ FeatTyped
    BY DEF FeatIInv, FeatTyped
  <2>2. stream.epoch \in Nat /\ stream.seq \in Nat /\ Len(stream.recent) <= Window
    BY <2>1 DEF StreamTyped
  <2>3. Len(sink.buf) <= FlushRows
    <3>1. sink.buf \in Seq(Drained) /\ Len(sink.buf) < FlushRows BY <2>1 DEF Sinks
    <3>2. FlushRows \in Nat BY FeaturizerAssumption
    <3> QED BY <3>1, <3>2
  <2>4. FeatTypeOK BY <2>1, <2>2, <2>3 DEF FeatTyped, FeatTypeOK
  <2>5. NoZero(raw) => OneTick(handed) BY DEF FeatIInv, RowsTrue, Named
  <2>6. NoZeroPrice => NoZero(raw)
    <3>1. raw \in Seq(Tick) BY <2>1 DEF FeatTyped, Topic
    <3>2. DOMAIN raw = 1 .. Len(raw) BY <3>1
    <3> QED BY <3>2 DEF NoZeroPrice, NoZero
  <2>7. OneTick(FeatureRows(handed)) BY DEF FeatIInv, RowsTrue, Judged
  <2>8. FeatureIdsOwn BY <2>7 DEF OneTick, FeatureRows, FeatureIdsOwn
  <2>9. NoZeroPrice => IdentityHolds BY <2>5, <2>6 DEF OneTick, IdentityHolds
  <2> QED BY <2>4, <2>8, <2>9 DEF StreamInv
<1>2. FeatSpec => []FeatIInv
  BY FeatIInvHolds
<1> QED
  BY <1>1, <1>2, PTL

(***************************************************************************)
(* A label is computed from the whole of its own horizon, a tick delivered *)
(* again is not counted again, and a session that stops cleanly leaves     *)
(* every labelled row in its file.                                         *)
(***************************************************************************)
THEOREM RowsHold == FeatSpec => []RowsInv
<1>1. FeatIInv => RowsInv
  <2> SUFFICES ASSUME FeatIInv PROVE RowsInv
    OBVIOUS
  <2>1. RowsTrue(raw, pos, boot, stream, engine.pending, handed)
    BY DEF FeatIInv
  <2>2. LabelWhole
    <3> SUFFICES ASSUME NEW o \in handed, o.kind = "outcome"
                 PROVE  LET last == CHOOSE k \in o.vol : \A j \in o.vol : j <= k
                        IN  /\ \A k \in o.vol : raw[k].ts \in o.ts .. o.ts + Horizon
                            /\ raw[last].ts >= o.ts + Horizon - Slack
                            /\ \A k \in o.off .. last :
                                 /\ raw[k].kind = "ok"
                                 /\ raw[k].ts \in o.ts + Slack .. o.ts + Horizon
                                 => \E j \in o.vol :
                                      TickDedupeKey(raw[j]) = TickDedupeKey(raw[k])
      BY DEF LabelWhole
    <3> DEFINE last == CHOOSE k \in o.vol : \A j \in o.vol : j <= k
    <3>1. WholeRow(raw, Len(raw), o) BY <2>1 DEF RowsTrue, Judged, WholeAll
    <3>2. PICK top \in o.vol :
            /\ \A j \in o.vol : j <= top
            /\ raw[top].ts >= o.ts + Horizon - Slack
            /\ \A k \in o.off .. top :
                 raw[k].kind = "ok" /\ raw[k].ts \in o.ts + Slack .. o.ts + Horizon
                   => \E j \in o.vol : TickDedupeKey(raw[j]) = TickDedupeKey(raw[k])
      BY <3>1 DEF WholeRow
    <3>3. last = top
      <4>1. last \in o.vol /\ \A j \in o.vol : j <= last BY <3>2
      <4>2. \A k \in o.vol : k \in Int BY <3>1 DEF WholeRow
      <4> HIDE DEF last
      <4> QED BY <3>2, <4>1, <4>2
    <3>4. \A k \in o.vol : raw[k].ts \in o.ts .. o.ts + Horizon BY <3>1 DEF WholeRow
    <3> HIDE DEF last
    <3>5. /\ raw[last].ts >= o.ts + Horizon - Slack
          /\ \A k \in o.off .. last :
               raw[k].kind = "ok" /\ raw[k].ts \in o.ts + Slack .. o.ts + Horizon
                 => \E j \in o.vol : TickDedupeKey(raw[j]) = TickDedupeKey(raw[k])
      BY <3>2, <3>3
    <3> QED BY <3>4, <3>5 DEF last
  <2>3. DedupeHolds
    <3>1. DedupeRows(handed, raw) BY <2>1 DEF RowsTrue, Judged
    <3>2. \A a, c \in handed : <<a.id[1], a.id[2]>> = <<c.id[1], c.id[2]>>
                                 => a.id[1] = c.id[1] /\ a.id[2] = c.id[2]
      OBVIOUS
    <3> QED BY <3>1, <3>2 DEF DedupeRows, DedupeHolds
  <2> QED BY <2>2, <2>3 DEF RowsInv, FeatIInv
<1>2. FeatSpec => []FeatIInv
  BY FeatIInvHolds
<1> QED
  BY <1>1, <1>2, PTL

-----------------------------------------------------------------------------
(***************************************************************************)
(* Featurizer and Replay: the rows of training are those of serving. What  *)
(* a mask keeps and where it stands; what the merge of the mirror files    *)
(* has read and written after some of their lines; the engine without its  *)
(* tags; the stream, the engine and the builder side by side.              *)
(***************************************************************************)
\* What is kept stands where its rank puts it.
PlaceIn(kept, j) == Cardinality({i \in kept : i < j}) + 1

LEMMA RankOf ==
  ASSUME NEW array, NEW n \in Nat, NEW kept, kept \subseteq 1 .. n, NEW j \in kept
  PROVE  /\ PlaceIn(kept, j) \in 1 .. Cardinality(kept)
         /\ Masked(array, kept)[PlaceIn(kept, j)] = array[j]
<1> DEFINE k == PlaceIn(kept, j)
           R == {x \in kept \X kept : x[1] < x[2]}
           rank(a) == Cardinality({b \in kept : <<b, a>> \in R})
           cnt(a) == Cardinality({i \in kept : i < a})
           m == Cardinality(kept)
<1>1. IsFiniteSet(kept)
  <2>1. 1 \in Int /\ n \in Int /\ kept \subseteq 1 .. n OBVIOUS
  <2>2. IsFiniteSet(1 .. n) BY <2>1, FS_Interval
  <2> QED BY <2>1, <2>2, FS_Subset
<1>2. \A a, b \in kept : <<a, b>> \in R <=> a < b
  OBVIOUS
<1>3. \A a \in kept : a \in Int
  OBVIOUS
<1>4. \A a \in kept : rank(a) = cnt(a)
  <2> SUFFICES ASSUME NEW a \in kept PROVE rank(a) = cnt(a)
    OBVIOUS
  <2>1. {b \in kept : <<b, a>> \in R} = {i \in kept : i < a} BY <1>2
  <2> QED BY <2>1
<1> HIDE DEF R
<1>5. /\ m \in Nat
      /\ \A a \in kept : rank(a) \in 0 .. m - 1
      /\ \A a, b \in kept : <<a, b>> \in R => rank(a) < rank(b)
  <2>1. \A a \in kept : <<a, a>> \notin R BY <1>2, <1>3
  <2>2. \A a, b \in kept : a # b => <<a, b>> \in R \/ <<b, a>> \in R BY <1>2, <1>3
  <2>3. \A a, b, c \in kept : <<a, b>> \in R /\ <<b, c>> \in R => <<a, c>> \in R
    BY <1>2, <1>3
  <2> HIDE DEF rank, m
  <2>4. LET rk(a) == Cardinality({b \in kept : <<b, a>> \in R})
         IN  /\ Cardinality(kept) \in Nat
             /\ \A a \in kept : rk(a) \in 0 .. Cardinality(kept) - 1
             /\ \A a, b \in kept : <<a, b>> \in R => rk(a) < rk(b)
             /\ \A l \in 1 .. Cardinality(kept) : \E a \in kept : rk(a) = l - 1
    BY ONLY <1>1, <2>1, <2>2, <2>3, RanksTaken
  <2> QED BY <2>4 DEF rank, m
<1> HIDE DEF rank, cnt
<1>6. /\ \A a \in kept : cnt(a) \in 0 .. m - 1
      /\ \A a, b \in kept : a < b => cnt(a) < cnt(b)
  BY <1>2, <1>4, <1>5
<1>7. \A a, b \in kept : cnt(a) = cnt(b) => a = b
  <2> SUFFICES ASSUME NEW a \in kept, NEW b \in kept, cnt(a) = cnt(b) PROVE a = b
    OBVIOUS
  <2>1. ~(a < b) /\ ~(b < a)
    <3>1. cnt(a) \in Int BY <1>5, <1>6
    <3> QED BY <1>6, <3>1
  <2> QED BY <1>3, <2>1
<1>8. k = cnt(j) + 1
  BY DEF cnt, PlaceIn
<1>9. k \in 1 .. m
  BY <1>5, <1>6, <1>8
<1> DEFINE to(l) == CHOOSE a \in kept : cnt(a) = l - 1
<1>10. Masked(array, kept) = [l \in 1 .. m |-> array[to(l)]]
  BY Zenon DEF Masked, cnt
<1>11. to(k) = j
  <2>1. cnt(j) = k - 1 BY <1>5, <1>6, <1>8
  <2>2. to(k) \in kept /\ cnt(to(k)) = k - 1 BY <2>1
  <2> HIDE DEF to
  <2> QED BY <1>7, <2>1, <2>2
<1> HIDE DEF to, k
<1>12. Masked(array, kept)[k] = array[j]
  BY <1>9, <1>10, <1>11
<1> QED BY <1>9, <1>12 DEF k

\* Every place of what a mask keeps is somebody's.
LEMMA RankTaken ==
  ASSUME NEW n \in Nat, NEW kept, kept \subseteq 1 .. n, NEW k \in 1 .. Cardinality(kept)
  PROVE  \E j \in kept : k = PlaceIn(kept, j)
<1>1. IsFiniteSet(kept)
  <2>1. 1 \in Int /\ n \in Int OBVIOUS
  <2>2. IsFiniteSet(1 .. n) BY <2>1, FS_Interval
  <2> QED BY <2>2, FS_Subset
<1> DEFINE R == {x \in kept \X kept : x[1] < x[2]}
<1>2. \A a, b \in kept : <<a, b>> \in R <=> a < b
  OBVIOUS
<1>3. \A a \in kept : a \in Int
  OBVIOUS
<1> HIDE DEF R
<1>4. \A a \in kept : <<a, a>> \notin R BY <1>2, <1>3
<1>5. \A a, b \in kept : a # b => <<a, b>> \in R \/ <<b, a>> \in R BY <1>2, <1>3
<1>6. \A a, b, c \in kept : <<a, b>> \in R /\ <<b, c>> \in R => <<a, c>> \in R
  BY <1>2, <1>3
<1>7. LET rk(a) == Cardinality({b \in kept : <<b, a>> \in R})
      IN  /\ Cardinality(kept) \in Nat
          /\ \A a \in kept : rk(a) \in 0 .. Cardinality(kept) - 1
          /\ \A a, b \in kept : <<a, b>> \in R => rk(a) < rk(b)
          /\ \A l \in 1 .. Cardinality(kept) : \E a \in kept : rk(a) = l - 1
  BY ONLY <1>1, <1>4, <1>5, <1>6, RanksTaken
<1>8. PICK j \in kept : Cardinality({b \in kept : <<b, j>> \in R}) = k - 1
  BY <1>7
<1>9. {b \in kept : <<b, j>> \in R} = {i \in kept : i < j}
  BY <1>2
<1>10. Cardinality({i \in kept : i < j}) = k - 1
  BY <1>8, <1>9
<1>11. k \in Int
  BY <1>7
<1>12. PlaceIn(kept, j) = (k - 1) + 1
  BY <1>10 DEF PlaceIn
<1>13. k = (k - 1) + 1
  BY <1>11
<1> QED BY <1>12, <1>13

\* How many are kept among the first j.
LEMMA CountOn ==
  ASSUME NEW S, IsFiniteSet(S), NEW m, m \notin S
  PROVE  Cardinality(S) \in Nat /\ Cardinality(S \cup {m}) = Cardinality(S) + 1
BY FS_AddElement, FS_CardinalityType

\* A mask that keeps one place more, the last, keeps one thing more.
LEMMA MaskedAppend ==
  ASSUME NEW X, NEW t \in Seq(X), NEW S, NEW m \in 1 .. Len(t), S \subseteq 1 .. m - 1
  PROVE  /\ Masked(t, S) \in Seq(X)
         /\ Masked(t, S \cup {m}) = Append(Masked(t, S), t[m])
<1> DEFINE T == S \cup {m}
           n == Cardinality(S)
           a == Masked(t, S)
           b == Masked(t, T)
<1>1. Len(t) \in Nat /\ S \subseteq 1 .. Len(t) /\ T \subseteq 1 .. Len(t) /\ m \notin S
      /\ m \in Int /\ \A j \in S : j \in Int /\ j < m
  OBVIOUS
<1>2. IsFiniteSet(S)
  <2>1. IsFiniteSet(1 .. Len(t)) BY <1>1, FS_Interval
  <2> QED BY <1>1, <2>1, FS_Subset
<1>3. n \in Nat /\ Cardinality(T) = n + 1
  BY <1>1, <1>2, CountOn
<1> HIDE DEF T, n
<1>4. /\ a = [k \in 1 .. n |-> a[k]] /\ b = [k \in 1 .. n + 1 |-> b[k]]
  <2>1. a = [k \in 1 .. n |-> a[k]] BY DEF Masked, n
  <2>2. b = [k \in 1 .. Cardinality(T) |-> b[k]] BY DEF Masked
  <2> QED BY <1>3, <2>1, <2>2
<1>5. PICK at : Picks(at, t, S)
  BY <1>1, MaskedPlaces
<1>6. /\ at \in [1 .. n -> S] /\ a = [k \in 1 .. n |-> t[at[k]]]
  BY <1>5 DEF Picks, n
<1>7. a \in Seq(X) /\ Len(a) = n
  <2>1. \A k \in 1 .. n : t[at[k]] \in X
    <3>1. \A k \in 1 .. n : at[k] \in 1 .. Len(t) BY <1>1, <1>6
    <3> QED BY <3>1
  <2> HIDE DEF a
  <2>2. a \in [1 .. n -> X] BY <1>6, <2>1
  <2> QED BY <1>3, <2>2
<1>8. ASSUME NEW k \in 1 .. n PROVE b[k] = a[k]
  <2>1. PICK j \in S : k = PlaceIn(S, j)
    <3>1. k \in 1 .. Cardinality(S) /\ Len(t) \in Nat /\ S \subseteq 1 .. Len(t)
      BY <1>1 DEF n
    <3> QED BY ONLY <3>1, RankTaken
  <2>2. {i \in T : i < j} = {i \in S : i < j} BY <1>1 DEF T
  <2>3. j \in T /\ PlaceIn(T, j) = PlaceIn(S, j) BY <2>2 DEF T, PlaceIn
  <2>4. Len(t) \in Nat /\ S \subseteq 1 .. Len(t) /\ T \subseteq 1 .. Len(t) BY <1>1
  <2>5. Masked(t, S)[PlaceIn(S, j)] = t[j]
    BY ONLY <2>4, RankOf
  <2>6. Masked(t, T)[PlaceIn(T, j)] = t[j]
    BY ONLY <2>3, <2>4, RankOf
  <2> QED BY <2>1, <2>3, <2>5, <2>6
<1>9. b[n + 1] = t[m]
  <2>0. \A i \in T : i < m <=> i \in S BY <1>1 DEF T
  <2>1. {i \in T : i < m} = S BY ONLY <2>0 DEF T
  <2>2. m \in T BY DEF T
  <2>3. PlaceIn(T, m) = n + 1 BY <2>1 DEF n, PlaceIn
  <2>4. Len(t) \in Nat /\ T \subseteq 1 .. Len(t) BY <1>1
  <2>5. Masked(t, T)[PlaceIn(T, m)] = t[m]
    BY ONLY <2>2, <2>4, RankOf
  <2> QED BY <2>3, <2>5
<1> HIDE DEF a, b
<1>10. b = Append(a, t[m])
  <2>1. Append(a, t[m]) = [k \in 1 .. n + 1 |-> IF k = n + 1 THEN t[m] ELSE a[k]]
    BY <1>3, <1>7
  <2>2. \A k \in 1 .. n + 1 : k # n + 1 => k \in 1 .. n BY <1>3
  <2>3. \A k \in 1 .. n + 1 : b[k] = IF k = n + 1 THEN t[m] ELSE a[k]
    BY <1>8, <1>9, <2>2
  <2>4. b = [k \in 1 .. n + 1 |-> IF k = n + 1 THEN t[m] ELSE a[k]]
    BY <1>4, <2>3
  <2> QED BY <2>1, <2>4
<1> QED BY <1>7, <1>10 DEF a, b, T

LEMMA MaskedSame ==
  ASSUME NEW t, NEW u, NEW n \in Nat, NEW S, S \subseteq 1 .. n,
         \A i \in 1 .. n : t[i] = u[i]
  PROVE  Masked(t, S) = Masked(u, S)
<1> DEFINE m == Cardinality(S)
           to(k) == CHOOSE p \in S : Cardinality({q \in S : q < p}) = k - 1
<1>1. m \in Nat
  BY MaskedPlaces
<1>2. Masked(t, S) = [k \in 1 .. m |-> t[to(k)]] /\ Masked(u, S) = [k \in 1 .. m |-> u[to(k)]]
  BY Zenon DEF Masked
<1>3. \A k \in 1 .. m : to(k) \in S
  <2> SUFFICES ASSUME NEW k \in 1 .. m PROVE to(k) \in S
    OBVIOUS
  <2>1. PICK j \in S : k = PlaceIn(S, j)
    BY RankTaken
  <2>2. {q \in S : q < j} \subseteq 1 .. n
    OBVIOUS
  <2>3. Cardinality({q \in S : q < j}) \in Nat
    BY <2>2, MaskedPlaces
  <2>4. Cardinality({q \in S : q < j}) = k - 1 BY <2>1, <2>3 DEF PlaceIn
  <2> QED BY <2>4
<1> HIDE DEF to, m
<1> QED BY <1>2, <1>3

-----------------------------------------------------------------------------
(***************************************************************************)
(* What the engine is fed of the first p messages of a topic t: every tick *)
(* that parses and repeats none before it, in order.                       *)
(***************************************************************************)
FirstSeen(t, k) ==
  /\ t[k].kind # "junk"
  /\ \A i \in 1 .. k - 1 : TickDedupeKey(t[i]) # TickDedupeKey(t[k])
Firsts(t, p) == {k \in 1 .. p : FirstSeen(t, k)}
Fed(t, p) == Masked(t, Firsts(t, p))

LEMMA FedOn ==
  ASSUME NEW t \in Seq(Tick), NEW p \in Nat, p < Len(t)
  PROVE  /\ Fed(t, p) \in Seq(Tick)
         /\ FirstSeen(t, p + 1) => Fed(t, p + 1) = Append(Fed(t, p), t[p + 1])
         /\ ~FirstSeen(t, p + 1) => Fed(t, p + 1) = Fed(t, p)
<1> DEFINE S == Firsts(t, p)
<1>1. \A k \in 1 .. p + 1 : k \in 1 .. p \/ k = p + 1
  OBVIOUS
<1>2. \A k \in 1 .. p : k \in 1 .. p + 1
  OBVIOUS
<1>3. FirstSeen(t, p + 1) => Firsts(t, p + 1) = S \cup {p + 1}
  <2>1. p + 1 \in 1 .. p + 1 OBVIOUS
  <2> QED BY <1>1, <1>2, <2>1 DEF Firsts
<1>4. ~FirstSeen(t, p + 1) => Firsts(t, p + 1) = S
  BY <1>1, <1>2 DEF Firsts
<1>5. p + 1 \in 1 .. Len(t) /\ S \subseteq 1 .. (p + 1) - 1
  BY DEF Firsts
<1> HIDE DEF S
<1>6. /\ Masked(t, S) \in Seq(Tick)
      /\ Masked(t, S \cup {p + 1}) = Append(Masked(t, S), t[p + 1])
  BY ONLY t \in Seq(Tick), <1>5, MaskedAppend
<1> QED BY <1>3, <1>4, <1>6 DEF Fed, S

LEMMA FedSame ==
  ASSUME NEW t, NEW u, NEW p \in Nat, \A k \in 1 .. p : u[k] = t[k]
  PROVE  Fed(u, p) = Fed(t, p)
<1>1. \A k \in 1 .. p : FirstSeen(u, k) <=> FirstSeen(t, k)
  <2> SUFFICES ASSUME NEW k \in 1 .. p PROVE FirstSeen(u, k) <=> FirstSeen(t, k)
    OBVIOUS
  <2>1. u[k] = t[k] /\ \A i \in 1 .. k - 1 : u[i] = t[i] OBVIOUS
  <2> QED BY <2>1 DEF FirstSeen
<1>2. Firsts(u, p) = Firsts(t, p) /\ Firsts(t, p) \subseteq 1 .. p
  BY <1>1 DEF Firsts
<1> QED BY <1>2, MaskedSame DEF Fed

LEMMA FedNone ==
  ASSUME NEW t
  PROVE  Fed(t, 0) = <<>>
<1>1. Firsts(t, 0) = {} BY DEF Firsts
<1>2. Cardinality({}) = 0 BY FS_EmptySet
<1>3. PICK at : Masked(t, {}) = [k \in 1 .. Cardinality({}) |-> t[at[k]]]
  <2>1. 0 \in Nat /\ {} \subseteq 1 .. 0 OBVIOUS
  <2>2. \E at : Picks(at, t, {}) BY ONLY <2>1, MaskedPlaces
  <2> QED BY ONLY <2>2 DEF Picks
<1>4. Masked(t, {}) = [k \in 1 .. 0 |-> t[at[k]]]
  BY <1>2, <1>3
<1>5. [k \in 1 .. 0 |-> t[at[k]]] \in Seq({}) /\ Len([k \in 1 .. 0 |-> t[at[k]]]) = 0
  OBVIOUS
<1> QED BY ONLY <1>1, <1>4, <1>5 DEF Fed

-----------------------------------------------------------------------------
\* How far the parsed lines of a file have been read after j of its lines.
Parses(f, j) == {i \in 1 .. j : f[i].kind # "junk"}
Parsed(f, j) == Cardinality(Parses(f, j))

LEMMA ParsedOn ==
  ASSUME NEW f \in Seq(Tick), NEW j \in Nat, j < Len(f)
  PROVE  /\ Parsed(f, j) \in Nat
         /\ f[j + 1].kind = "junk" => Parsed(f, j + 1) = Parsed(f, j)
         /\ f[j + 1].kind # "junk" => Parsed(f, j + 1) = Parsed(f, j) + 1
<1>1. \A k \in 1 .. j + 1 : k \in 1 .. j \/ k = j + 1
  OBVIOUS
<1>2. \A k \in 1 .. j : k \in 1 .. j + 1
  OBVIOUS
<1>3. f[j + 1].kind = "junk" => Parses(f, j + 1) = Parses(f, j)
  BY <1>1, <1>2 DEF Parses
<1>4. f[j + 1].kind # "junk" => Parses(f, j + 1) = Parses(f, j) \cup {j + 1}
  <2>1. j + 1 \in 1 .. j + 1 OBVIOUS
  <2> QED BY <1>1, <1>2, <2>1 DEF Parses
<1>5. IsFiniteSet(Parses(f, j)) /\ j + 1 \notin Parses(f, j)
  <2>1. 1 \in Int /\ j \in Int /\ Parses(f, j) \subseteq 1 .. j BY DEF Parses
  <2>2. IsFiniteSet(1 .. j) BY <2>1, FS_Interval
  <2>3. IsFiniteSet(Parses(f, j)) BY <2>1, <2>2, FS_Subset
  <2>4. j + 1 \notin 1 .. j OBVIOUS
  <2> QED BY <2>1, <2>3, <2>4
<1>6. /\ Cardinality(Parses(f, j)) \in Nat
      /\ Cardinality(Parses(f, j) \cup {j + 1}) = Cardinality(Parses(f, j)) + 1
  BY <1>5, CountOn
<1> QED BY <1>3, <1>4, <1>6 DEF Parsed

LEMMA FileOf ==
  ASSUME NEW f \in Seq(Tick)
  PROVE  /\ Parsed(f, 0) = 0 /\ Parsed(f, Len(f)) \in Nat
         /\ DOMAIN FileTicks(f) = 1 .. Parsed(f, Len(f))
         /\ Len(FileTicks(f)) = Parsed(f, Len(f))
         /\ \A j \in 1 .. Len(f) : f[j].kind # "junk" =>
              /\ Parsed(f, j - 1) + 1 \in 1 .. Parsed(f, Len(f))
              /\ FileTicks(f)[Parsed(f, j - 1) + 1] = f[j]
         /\ \A k \in 1 .. Parsed(f, Len(f)) : \E j \in 1 .. Len(f) :
              f[j].kind # "junk" /\ FileTicks(f)[k] = f[j]
<1> DEFINE n == Len(f)
           K == Parses(f, n)
<1>1. n \in Nat /\ DOMAIN f = 1 .. n
  OBVIOUS
<1>2. FileTicks(f) = Masked(f, K)
  BY <1>1 DEF FileTicks, Parses
<1>3. K \subseteq 1 .. n
  BY DEF Parses
<1>4. Parsed(f, 0) = 0
  <2>1. Parses(f, 0) = {} BY DEF Parses
  <2> QED BY <2>1, FS_EmptySet DEF Parsed
<1>5. Cardinality(K) \in Nat
  BY <1>1, <1>3, MaskedPlaces
<1>6. Parsed(f, n) = Cardinality(K)
  BY DEF Parsed
<1>7. ASSUME NEW j \in 1 .. n, f[j].kind # "junk"
      PROVE  /\ Parsed(f, j - 1) + 1 \in 1 .. Cardinality(K)
             /\ Masked(f, K)[Parsed(f, j - 1) + 1] = f[j]
  <2>1. j \in K BY <1>7 DEF Parses
  <2>2. \A i \in 1 .. n : i < j <=> i \in 1 .. j - 1 BY <1>1
  <2>3. \A i \in 1 .. j - 1 : i \in 1 .. n BY <1>1
  <2>4. {i \in K : i < j} = Parses(f, j - 1) BY <2>2, <2>3 DEF Parses
  <2>5. PlaceIn(K, j) = Parsed(f, j - 1) + 1 BY <2>4 DEF PlaceIn, Parsed
  <2> HIDE DEF K, n
  <2>6. PlaceIn(K, j) \in 1 .. Cardinality(K) /\ Masked(f, K)[PlaceIn(K, j)] = f[j]
    BY ONLY <1>1, <1>3, <2>1, RankOf
  <2> QED BY <2>5, <2>6
<1>8. ASSUME NEW k \in 1 .. Cardinality(K)
      PROVE  \E j \in 1 .. n : f[j].kind # "junk" /\ Masked(f, K)[k] = f[j]
  <2> HIDE DEF n, K
  <2>1. PICK j \in K : k = PlaceIn(K, j) BY ONLY <1>1, <1>3, <1>8, RankTaken
  <2>2. Masked(f, K)[PlaceIn(K, j)] = f[j]
    BY ONLY <1>1, <1>3, RankOf
  <2>3. j \in 1 .. n /\ f[j].kind # "junk" BY <2>1 DEF K, Parses
  <2> QED BY <2>1, <2>2, <2>3
<1>9. DOMAIN Masked(f, K) = 1 .. Cardinality(K) /\ Len(Masked(f, K)) = Cardinality(K)
  <2>1. \E at : Picks(at, f, K) BY <1>1, <1>3, MaskedPlaces
  <2>2. PICK at : Masked(f, K) = [k \in 1 .. Cardinality(K) |-> f[at[k]]]
    BY <2>1 DEF Picks
  <2> HIDE DEF K
  <2> QED BY <1>5, <2>2
<1> HIDE DEF n, K
<1> QED BY <1>2, <1>4, <1>5, <1>6, <1>7, <1>8, <1>9 DEF n

-----------------------------------------------------------------------------
\* No tick of the first p is older than one before it.
Ordered(t, p) == \A i, j \in 1 .. p : i <= j => t[i].ts <= t[j].ts

LEMMA OrderedOf ==
  ASSUME NEW t \in Seq(Tick), NEW p \in Nat, p <= Len(t),
         \A i \in 2 .. p : t[i - 1].ts <= t[i].ts
  PROVE  Ordered(t, p)
<1>0. \A i \in 1 .. p : t[i].ts \in Nat
  <2>1. \A i \in 1 .. p : t[i] \in Tick OBVIOUS
  <2> QED BY <2>1 DEF Tick
<1> SUFFICES ASSUME NEW i \in 1 .. p, NEW j \in 1 .. p, i <= j, ~(t[i].ts <= t[j].ts)
             PROVE  FALSE
  BY DEF Ordered
<1> DEFINE S == {k \in Nat : k \in i .. p /\ ~(t[i].ts <= t[k].ts)}
<1>1. S \in SUBSET Nat /\ S # {}
  <2>1. j \in S OBVIOUS
  <2> QED BY <2>1
<1>2. PICK k \in S : \A l \in S : k <= l
  BY <1>1, SmallestOf
<1>3. k \in Nat /\ k \in i .. p /\ ~(t[i].ts <= t[k].ts)
  OBVIOUS
<1>4. k # i
  <2>1. t[i].ts \in Nat BY <1>0
  <2> QED BY <1>3, <2>1
<1>5. k - 1 \in Nat /\ k - 1 \in i .. p /\ k \in 2 .. p /\ k - 1 \in 1 .. p /\ k \in 1 .. p
      /\ k - 1 < k
  BY <1>3, <1>4
<1>6. t[i].ts <= t[k - 1].ts
  <2>1. k - 1 \notin S BY <1>2, <1>5
  <2> QED BY <1>5, <2>1
<1>7. t[k - 1].ts <= t[k].ts
  BY <1>5
<1>8. t[i].ts \in Nat /\ t[k - 1].ts \in Nat /\ t[k].ts \in Nat
  BY <1>0, <1>5
<1> QED BY <1>3, <1>6, <1>7, <1>8

\* What the merge remembers after the first j messages.
SeenTrue(ts, seen, t, j) ==
  /\ ts = -1 \/ \E i \in 1 .. j : ts = t[i].ts
  /\ \A i \in 1 .. j : t[i].kind # "junk" =>
       t[i].ts <= ts /\ (t[i].ts = ts => TickDedupeKey(t[i]) \in seen)
  /\ \A x \in seen : \E i \in 1 .. j : x = TickDedupeKey(t[i])

LEMMA SeenOn ==
  ASSUME NEW t \in Seq(Tick), NEW j \in Nat, j < Len(t), Ordered(t, j + 1),
         NEW ts, NEW seen, SeenTrue(ts, seen, t, j), t[j + 1].kind # "junk",
         NEW same, same = IF ts = t[j + 1].ts THEN seen ELSE {}
  PROVE  /\ TickDedupeKey(t[j + 1]) \in same <=> ~FirstSeen(t, j + 1)
         /\ SeenTrue(t[j + 1].ts, same \cup {TickDedupeKey(t[j + 1])}, t, j + 1)
<1> DEFINE now == t[j + 1].ts
           key == TickDedupeKey(t[j + 1])
<1>1. \A i \in 1 .. j + 1 : t[i].ts \in Nat /\ (i \in 1 .. j \/ i = j + 1)
  <2>1. \A i \in 1 .. j + 1 : t[i] \in Tick OBVIOUS
  <2>2. \A i \in 1 .. j + 1 : i \in 1 .. j \/ i = j + 1 OBVIOUS
  <2> QED BY <2>1, <2>2 DEF Tick
<1>2. \A i \in 1 .. j : i \in 1 .. j + 1 /\ t[i].ts <= now
  <2>1. \A i \in 1 .. j : i \in 1 .. j + 1 /\ i <= j + 1 OBVIOUS
  <2>2. j + 1 \in 1 .. j + 1 OBVIOUS
  <2> QED BY <2>1, <2>2 DEF Ordered
<1>3. now \in Nat
  <2>1. j + 1 \in 1 .. j + 1 OBVIOUS
  <2> QED BY <1>1, <2>1
<1>4. ts \in Int /\ ts <= now
  <2>1. CASE ts = -1 BY <1>3, <2>1
  <2>2. CASE \E i \in 1 .. j : ts = t[i].ts
    <3>1. PICK i \in 1 .. j : ts = t[i].ts BY <2>2
    <3>2. t[i].ts \in Nat /\ t[i].ts <= now BY <1>1, <1>2
    <3> QED BY <3>1, <3>2
  <2> QED BY <2>1, <2>2 DEF SeenTrue
<1>5. ASSUME NEW i \in 1 .. j, t[i].kind # "junk", t[i].ts = now
      PROVE  TickDedupeKey(t[i]) \in same
  <2>1. t[i].ts <= ts BY <1>5 DEF SeenTrue
  <2>2. ts = now BY <1>3, <1>4, <1>5, <2>1
  <2>3. TickDedupeKey(t[i]) \in seen BY <1>5, <2>2 DEF SeenTrue
  <2> QED BY <2>2, <2>3
<1>6. \A x \in same : x \in seen
  OBVIOUS
<1>7. key \in same => ~FirstSeen(t, j + 1)
  <2> SUFFICES ASSUME key \in same PROVE ~FirstSeen(t, j + 1)
    OBVIOUS
  <2>1. PICK i \in 1 .. j : key = TickDedupeKey(t[i]) BY <1>6 DEF SeenTrue
  <2>2. i \in 1 .. (j + 1) - 1 OBVIOUS
  <2> QED BY <2>1, <2>2 DEF FirstSeen
<1>8. ~FirstSeen(t, j + 1) => key \in same
  <2> SUFFICES ASSUME ~FirstSeen(t, j + 1) PROVE key \in same
    OBVIOUS
  <2>1. PICK i \in 1 .. (j + 1) - 1 : TickDedupeKey(t[i]) = key BY DEF FirstSeen
  <2>2. i \in 1 .. j OBVIOUS
  <2>3. t[i].kind = t[j + 1].kind /\ t[i].ts = now BY <2>1 DEF TickDedupeKey
  <2> QED BY <1>5, <2>1, <2>2, <2>3
<1> HIDE DEF now, key
<1>9. SeenTrue(now, same \cup {key}, t, j + 1)
  <2>1. \E i \in 1 .. j + 1 : now = t[i].ts
    <3>1. j + 1 \in 1 .. j + 1 OBVIOUS
    <3> QED BY <3>1 DEF now
  <2>2. ASSUME NEW i \in 1 .. j + 1, t[i].kind # "junk"
        PROVE  t[i].ts <= now /\ (t[i].ts = now => TickDedupeKey(t[i]) \in same \cup {key})
    <3>1. CASE i \in 1 .. j BY <1>2, <1>5, <2>2, <3>1
    <3>2. CASE i = j + 1 BY <1>3, <3>2 DEF now, key
    <3> QED BY <1>1, <3>1, <3>2
  <2>3. ASSUME NEW x \in same \cup {key} PROVE \E i \in 1 .. j + 1 : x = TickDedupeKey(t[i])
    <3>1. CASE x \in same
      <4>1. PICK i \in 1 .. j : x = TickDedupeKey(t[i]) BY <1>6, <3>1 DEF SeenTrue
      <4> QED BY <1>2, <4>1
    <3>2. CASE x = key
      <4>1. j + 1 \in 1 .. j + 1 OBVIOUS
      <4> QED BY <3>2, <4>1 DEF key
    <3> QED BY <3>1, <3>2
  <2> QED BY <2>1, <2>2, <2>3 DEF SeenTrue
<1> QED BY <1>7, <1>8, <1>9 DEF now, key

-----------------------------------------------------------------------------
(***************************************************************************)
(* The first p messages of t in two files, the first with half of them:    *)
(* how many lines of each the merge has read when it is through with the   *)
(* first j messages.                                                       *)
(***************************************************************************)
Halved(t, p, half, f) ==
  /\ t \in Seq(Tick) /\ p \in Nat /\ p <= Len(t) /\ half \in 0 .. p
  /\ DOMAIN f = 1 .. 2
  /\ f[1] \in Seq(Tick) /\ Len(f[1]) = half /\ \A i \in 1 .. half : f[1][i] = t[i]
  /\ f[2] \in Seq(Tick) /\ Len(f[2]) = p - half
  /\ \A i \in 1 .. p - half : f[2][i] = t[half + i]

InFirst(f, half, j) == Parsed(f[1], IF j <= half THEN j ELSE half)
InSecond(f, half, j) == Parsed(f[2], IF j <= half THEN 0 ELSE j - half)

ParsedOf(f) == [i \in DOMAIN f |-> FileTicks(f[i])]

LEMMA ReadOn ==
  ASSUME NEW t, NEW p, NEW half, NEW f, Halved(t, p, half, f), NEW j \in Nat, j < p
  PROVE  /\ InFirst(f, half, j) \in Nat /\ InSecond(f, half, j) \in Nat
         /\ t[j + 1].kind = "junk" =>
              /\ InFirst(f, half, j + 1) = InFirst(f, half, j)
              /\ InSecond(f, half, j + 1) = InSecond(f, half, j)
         /\ t[j + 1].kind # "junk" /\ j + 1 <= half =>
              /\ InFirst(f, half, j + 1) = InFirst(f, half, j) + 1
              /\ InSecond(f, half, j + 1) = InSecond(f, half, j)
         /\ t[j + 1].kind # "junk" /\ ~(j + 1 <= half) =>
              /\ InFirst(f, half, j + 1) = InFirst(f, half, j)
              /\ InSecond(f, half, j + 1) = InSecond(f, half, j) + 1
<1>1. /\ p \in Nat /\ half \in Nat /\ half <= p
      /\ f[1] \in Seq(Tick) /\ Len(f[1]) = half
      /\ f[2] \in Seq(Tick) /\ Len(f[2]) = p - half
  BY DEF Halved
<1>2. CASE j + 1 <= half
  <2>1. j <= half /\ j < half /\ j + 1 \in 1 .. half BY <1>1, <1>2
  <2>2. f[1][j + 1] = t[j + 1] BY <2>1 DEF Halved
  <2>3. /\ InFirst(f, half, j) = Parsed(f[1], j) /\ InFirst(f, half, j + 1) = Parsed(f[1], j + 1)
        /\ InSecond(f, half, j) = Parsed(f[2], 0) /\ InSecond(f, half, j + 1) = Parsed(f[2], 0)
    BY <1>2, <2>1 DEF InFirst, InSecond
  <2>4. /\ Parsed(f[1], j) \in Nat
        /\ f[1][j + 1].kind = "junk" => Parsed(f[1], j + 1) = Parsed(f[1], j)
        /\ f[1][j + 1].kind # "junk" => Parsed(f[1], j + 1) = Parsed(f[1], j) + 1
    BY <1>1, <2>1, ParsedOn
  <2>5. Parsed(f[2], 0) = 0 BY <1>1, FileOf
  <2> QED BY <1>2, <2>2, <2>3, <2>4, <2>5
<1>3. CASE ~(j + 1 <= half)
  <2> DEFINE d == j - half
  <2>1. d \in Nat /\ d < p - half /\ d + 1 \in 1 .. p - half /\ half + (d + 1) = j + 1
        /\ (j + 1) - half = d + 1 /\ (j <= half => j = half /\ d = 0)
    BY <1>1, <1>3
  <2>2. f[2][d + 1] = t[j + 1]
    <3> HIDE DEF d
    <3>1. f[2][d + 1] = t[half + (d + 1)] BY <2>1 DEF Halved
    <3> QED BY <2>1, <3>1
  <2>3. /\ InFirst(f, half, j) = Parsed(f[1], half)
        /\ InFirst(f, half, j + 1) = Parsed(f[1], half)
        /\ InSecond(f, half, j) = Parsed(f[2], d)
        /\ InSecond(f, half, j + 1) = Parsed(f[2], d + 1)
    BY <1>3, <2>1 DEF InFirst, InSecond
  <2> HIDE DEF d
  <2>4. /\ Parsed(f[2], d) \in Nat
        /\ f[2][d + 1].kind = "junk" => Parsed(f[2], d + 1) = Parsed(f[2], d)
        /\ f[2][d + 1].kind # "junk" => Parsed(f[2], d + 1) = Parsed(f[2], d) + 1
    BY <1>1, <2>1, ParsedOn
  <2>5. Parsed(f[1], half) \in Nat BY <1>1, FileOf
  <2> QED BY <1>3, <2>2, <2>3, <2>4, <2>5
<1> QED BY <1>2, <1>3

\* Which file has the next tick, and what the other one has.
LEMMA HeadOf ==
  ASSUME NEW t, NEW p, NEW half, NEW f, Halved(t, p, half, f), Ordered(t, p),
         NEW j \in Nat, j < p, t[j + 1].kind # "junk", NEW P, P = ParsedOf(f)
  PROVE  /\ j + 1 <= half =>
              /\ InFirst(f, half, j) + 1 <= Len(P[1])
              /\ P[1][InFirst(f, half, j) + 1] = t[j + 1]
              /\ InSecond(f, half, j) = 0
              /\ Len(P[2]) >= 1 => P[2][1].ts \in Nat /\ t[j + 1].ts <= P[2][1].ts
         /\ ~(j + 1 <= half) =>
              /\ ~(InFirst(f, half, j) + 1 <= Len(P[1]))
              /\ InSecond(f, half, j) + 1 <= Len(P[2])
              /\ P[2][InSecond(f, half, j) + 1] = t[j + 1]
<1>1. /\ p \in Nat /\ half \in Nat /\ half <= p /\ t \in Seq(Tick) /\ p <= Len(t)
      /\ f[1] \in Seq(Tick) /\ Len(f[1]) = half
      /\ f[2] \in Seq(Tick) /\ Len(f[2]) = p - half
      /\ DOMAIN f = 1 .. 2
  BY DEF Halved
<1>2. P[1] = FileTicks(f[1]) /\ P[2] = FileTicks(f[2])
  BY <1>1 DEF ParsedOf
<1> DEFINE n1 == Parsed(f[1], half)
           n2 == Parsed(f[2], p - half)
<1>3. /\ n1 \in Nat /\ Len(P[1]) = n1
      /\ \A i \in 1 .. half : f[1][i].kind # "junk" =>
           /\ Parsed(f[1], i - 1) + 1 \in 1 .. n1
           /\ P[1][Parsed(f[1], i - 1) + 1] = f[1][i]
  BY <1>1, <1>2, FileOf
<1>4. /\ n2 \in Nat /\ Len(P[2]) = n2 /\ Parsed(f[2], 0) = 0
      /\ \A i \in 1 .. p - half : f[2][i].kind # "junk" =>
           /\ Parsed(f[2], i - 1) + 1 \in 1 .. n2
           /\ P[2][Parsed(f[2], i - 1) + 1] = f[2][i]
      /\ \A k \in 1 .. n2 : \E i \in 1 .. p - half :
           f[2][i].kind # "junk" /\ P[2][k] = f[2][i]
  BY <1>1, <1>2, FileOf
<1> HIDE DEF n1, n2
<1>5. ASSUME j + 1 <= half
      PROVE  /\ InFirst(f, half, j) + 1 <= Len(P[1])
             /\ P[1][InFirst(f, half, j) + 1] = t[j + 1]
             /\ InSecond(f, half, j) = 0
             /\ Len(P[2]) >= 1 => P[2][1].ts \in Nat /\ t[j + 1].ts <= P[2][1].ts
  <2>1. j <= half /\ j + 1 \in 1 .. half /\ (j + 1) - 1 = j /\ j + 1 \in 1 .. p
    BY <1>1, <1>5
  <2>2. f[1][j + 1] = t[j + 1] BY <2>1 DEF Halved
  <2>3. InFirst(f, half, j) = Parsed(f[1], j) /\ InSecond(f, half, j) = 0
    BY <1>4, <2>1 DEF InFirst, InSecond
  <2>4. Parsed(f[1], j) + 1 \in 1 .. n1 /\ P[1][Parsed(f[1], j) + 1] = t[j + 1]
    BY <1>3, <2>1, <2>2
  <2>5. ASSUME Len(P[2]) >= 1 PROVE P[2][1].ts \in Nat /\ t[j + 1].ts <= P[2][1].ts
    <3>1. 1 \in 1 .. n2 BY <1>4, <2>5
    <3>2. PICK i \in 1 .. p - half : P[2][1] = f[2][i] BY <1>4, <3>1
    <3>3. f[2][i] = t[half + i] BY <3>2 DEF Halved
    <3>4. half + i \in 1 .. p /\ j + 1 <= half + i /\ half + i \in 1 .. Len(t)
      BY <1>1, <1>5
    <3>5. t[half + i] \in Tick BY <1>1, <3>4
    <3>6. t[half + i].ts \in Nat BY <3>5 DEF Tick
    <3>7. t[j + 1].ts <= t[half + i].ts BY <2>1, <3>4 DEF Ordered
    <3> QED BY <3>2, <3>3, <3>6, <3>7
  <2> QED BY <1>3, <2>3, <2>4, <2>5
<1>6. ASSUME ~(j + 1 <= half)
      PROVE  /\ ~(InFirst(f, half, j) + 1 <= Len(P[1]))
             /\ InSecond(f, half, j) + 1 <= Len(P[2])
             /\ P[2][InSecond(f, half, j) + 1] = t[j + 1]
  <2> DEFINE d == j - half
  <2>1. d \in Nat /\ d < p - half /\ d + 1 \in 1 .. p - half /\ half + (d + 1) = j + 1
        /\ (d + 1) - 1 = d /\ (j <= half => j = half /\ d = 0)
    BY <1>1, <1>6
  <2>2. InFirst(f, half, j) = n1 /\ InSecond(f, half, j) = Parsed(f[2], d)
    BY <2>1 DEF InFirst, InSecond, n1
  <2> HIDE DEF d
  <2>3. f[2][d + 1] = t[j + 1]
    <3>1. f[2][d + 1] = t[half + (d + 1)] BY <2>1 DEF Halved
    <3> QED BY <2>1, <3>1
  <2>4. Parsed(f[2], d) + 1 \in 1 .. n2 /\ P[2][Parsed(f[2], d) + 1] = t[j + 1]
    BY <1>4, <2>1, <2>3
  <2>5. ~(n1 + 1 <= n1) BY <1>3
  <2> QED BY <1>3, <1>4, <2>2, <2>4, <2>5
<1> QED BY <1>5, <1>6

\* The merge when it is through with the first j messages: a and b lines read.
MergeTrue(m, t, j, a, b) ==
  /\ m.next \in [1 .. 2 -> Int] /\ m.next[1] = a + 1 /\ m.next[2] = b + 1
  /\ m.out = Fed(t, j)
  /\ SeenTrue(m.ts, m.seen, t, j)

LEMMA MergeOn ==
  ASSUME NEW t, NEW p, NEW half, NEW f, Halved(t, p, half, f), Ordered(t, p),
         NEW j \in Nat, j < p, t[j + 1].kind # "junk", NEW P, P = ParsedOf(f),
         NEW m, MergeTrue(m, t, j, InFirst(f, half, j), InSecond(f, half, j))
  PROVE  MergeTrue(MergeStep(P, m), t, j + 1,
                   InFirst(f, half, j + 1), InSecond(f, half, j + 1))
<1> DEFINE a == InFirst(f, half, j)
           b == InSecond(f, half, j)
           left == {i \in DOMAIN P : m.next[i] <= Len(P[i])}
           head(i) == P[i][m.next[i]]
           ok(i) == \A x \in left \ {i} : \/ head(i).ts < head(x).ts
                                          \/ head(i).ts = head(x).ts /\ i < x
           first == CHOOSE i \in left : ok(i)
           c == IF j + 1 <= half THEN 1 ELSE 2
           tick == t[j + 1]
           key == TickDedupeKey(tick)
           same == IF m.ts = tick.ts THEN m.seen ELSE {}
           r == MergeStep(P, m)
<1>1. /\ p \in Nat /\ half \in Nat /\ t \in Seq(Tick) /\ p <= Len(t) /\ DOMAIN f = 1 .. 2
      /\ Len(t) \in Nat
  BY DEF Halved
<1>2. DOMAIN P = 1 .. 2
  BY <1>1 DEF ParsedOf
<1>3. m.next \in [1 .. 2 -> Int] /\ m.next[1] = a + 1 /\ m.next[2] = b + 1
      /\ m.out = Fed(t, j) /\ SeenTrue(m.ts, m.seen, t, j)
  BY DEF MergeTrue
<1>4. /\ j + 1 <= half =>
           /\ a + 1 <= Len(P[1]) /\ P[1][a + 1] = tick /\ b = 0
           /\ Len(P[2]) >= 1 => P[2][1].ts \in Nat /\ tick.ts <= P[2][1].ts
      /\ ~(j + 1 <= half) =>
           /\ ~(a + 1 <= Len(P[1])) /\ b + 1 <= Len(P[2]) /\ P[2][b + 1] = tick
  BY HeadOf
<1>5. tick.ts \in Nat
  <2>1. j + 1 \in 1 .. Len(t) BY <1>1
  <2>2. tick \in Tick BY <1>1, <2>1
  <2> QED BY <2>2 DEF Tick
<1> HIDE DEF a, b, tick
<1>6. c \in left /\ head(c) = tick
  <2>1. CASE j + 1 <= half BY <1>2, <1>3, <1>4, <2>1
  <2>2. CASE ~(j + 1 <= half) BY <1>2, <1>3, <1>4, <2>2
  <2> QED BY <2>1, <2>2
<1>7. ok(c) /\ \A i \in left : ok(i) => i = c
  <2>1. \A i \in left : i = 1 \/ i = 2 BY <1>2
  <2>2. CASE j + 1 <= half
    <3>1. c = 1 BY <2>2
    <3>2. ASSUME 2 \in left
          PROVE  /\ head(2).ts \in Nat /\ tick.ts <= head(2).ts
    <4>1. m.next[2] = 1 /\ 1 <= Len(P[2]) BY <1>3, <1>4, <2>2, <3>2
    <4>2. head(2) = P[2][1] BY <4>1
    <4>3. P[2][1].ts \in Nat /\ tick.ts <= P[2][1].ts
      <5>1. Len(P[2]) >= 1 BY <4>1
      <5> QED BY <1>4, <2>2, <5>1
    <4> QED BY <4>2, <4>3
    <3> HIDE DEF left, head
    <3>3. ok(1)
      <4>1. ASSUME NEW x \in left \ {1}
            PROVE  head(1).ts < head(x).ts \/ (head(1).ts = head(x).ts /\ 1 < x)
        <5>1. x = 2 BY <2>1
        <5>2. head(2).ts \in Nat /\ tick.ts <= head(2).ts BY <3>2, <5>1
        <5>3. head(1) = tick BY <1>6, <3>1
        <5> QED BY <1>5, <5>1, <5>2, <5>3
      <4> QED BY <4>1
    <3>4. ASSUME 2 \in left PROVE ~ok(2)
      <4>1. head(2).ts \in Nat /\ tick.ts <= head(2).ts BY <3>2, <3>4
      <4>2. 1 \in left \ {2} /\ head(1) = tick BY <1>6, <3>1
      <4>3. ~(head(2).ts < head(1).ts) /\ ~(2 < 1) BY <1>5, <4>1, <4>2
      <4> QED BY <4>2, <4>3
    <3> HIDE DEF ok
    <3> QED BY <2>1, <3>1, <3>3, <3>4
  <2>3. CASE ~(j + 1 <= half)
    <3>1. c = 2 BY <2>3
    <3>2. 1 \notin left BY <1>3, <1>4, <2>3
    <3> HIDE DEF left, head
    <3>3. \A i \in left : i = 2 BY <2>1, <3>2
    <3> QED BY <3>1, <3>3
  <2> QED BY <2>2, <2>3
<1>8. first = c
  <2>1. first \in left /\ ok(first)
    <3> HIDE DEF left, ok, c
    <3> QED BY <1>6, <1>7
  <2> HIDE DEF left, ok, c, first
  <2> QED BY <1>7, <2>1
<1>9. r = [next |-> [m.next EXCEPT ![first] = @ + 1],
           out |-> IF TickDedupeKey(head(first)) \in
                        (IF m.ts = head(first).ts THEN m.seen ELSE {})
                   THEN m.out ELSE Append(m.out, head(first)),
           ts |-> head(first).ts,
           seen |-> (IF m.ts = head(first).ts THEN m.seen ELSE {})
                      \cup {TickDedupeKey(head(first))}]
  BY Zenon DEF MergeStep
<1> HIDE DEF first, left, head, ok
<1>10. r = [next |-> [m.next EXCEPT ![c] = @ + 1],
            out |-> IF key \in same THEN m.out ELSE Append(m.out, tick),
            ts |-> tick.ts, seen |-> same \cup {key}]
  BY <1>6, <1>8, <1>9
<1> HIDE DEF r, c, key, same
<1>11. /\ r.next = [m.next EXCEPT ![c] = @ + 1]
       /\ r.out = IF key \in same THEN m.out ELSE Append(m.out, tick)
       /\ r.ts = tick.ts /\ r.seen = same \cup {key}
  BY <1>10
<1>12. /\ r.next \in [1 .. 2 -> Int]
       /\ r.next[1] = InFirst(f, half, j + 1) + 1
       /\ r.next[2] = InSecond(f, half, j + 1) + 1
  <2>1. a \in Nat /\ b \in Nat BY ReadOn DEF a, b
  <2>2. CASE j + 1 <= half
    <3>1. c = 1 BY <2>2 DEF c
    <3>2. InFirst(f, half, j + 1) = a + 1 /\ InSecond(f, half, j + 1) = b
      BY <2>2, ReadOn DEF a, b
    <3> QED BY <1>3, <1>11, <2>1, <3>1, <3>2
  <2>3. CASE ~(j + 1 <= half)
    <3>1. c = 2 BY <2>3 DEF c
    <3>2. InFirst(f, half, j + 1) = a /\ InSecond(f, half, j + 1) = b + 1
      BY <2>3, ReadOn DEF a, b
    <3> QED BY <1>3, <1>11, <2>1, <3>1, <3>2
  <2> QED BY <2>2, <2>3
<1>13. /\ key \in same <=> ~FirstSeen(t, j + 1)
       /\ SeenTrue(tick.ts, same \cup {key}, t, j + 1)
  <2>1. Ordered(t, j + 1)
    <3>1. \A i \in 1 .. j + 1 : i \in 1 .. p BY <1>1
    <3> QED BY <3>1 DEF Ordered
  <2>2. j < Len(t) BY <1>1
  <2>3. same = IF m.ts = t[j + 1].ts THEN m.seen ELSE {} BY DEF same, tick
  <2>4. /\ TickDedupeKey(t[j + 1]) \in same <=> ~FirstSeen(t, j + 1)
        /\ SeenTrue(t[j + 1].ts, same \cup {TickDedupeKey(t[j + 1])}, t, j + 1)
    BY <1>1, <1>3, <2>1, <2>2, <2>3, SeenOn
  <2> QED BY <2>4 DEF key, tick
<1>14. r.out = Fed(t, j + 1)
  <2>1. j < Len(t) BY <1>1
  <2>2. /\ FirstSeen(t, j + 1) => Fed(t, j + 1) = Append(Fed(t, j), t[j + 1])
        /\ ~FirstSeen(t, j + 1) => Fed(t, j + 1) = Fed(t, j)
    BY <1>1, <2>1, FedOn
  <2> QED BY <1>3, <1>11, <1>13, <2>2 DEF tick
<1> QED BY <1>11, <1>12, <1>13, <1>14 DEF MergeTrue, r

\* The merge of the files f after n of their lines.
Merges(f, n, m) ==
  \E g : /\ g = [k \in 0 .. n |-> g[k]]
         /\ g[0] = MergeInit(f)
         /\ \A k \in 1 .. n : g[k] = MergeStep(ParsedOf(f), g[k - 1])
         /\ m = g[n]

LEMMA MergesNone ==
  ASSUME NEW f
  PROVE  Merges(f, 0, MergeInit(f))
<1> DEFINE g == [k \in 0 .. 0 |-> MergeInit(f)]
<1>1. g[0] = MergeInit(f) /\ g = [k \in 0 .. 0 |-> g[k]]
  OBVIOUS
<1>2. \A k \in 1 .. 0 : g[k] = MergeStep(ParsedOf(f), g[k - 1])
  OBVIOUS
<1> HIDE DEF g
<1> QED BY <1>1, <1>2 DEF Merges

LEMMA MergesMore ==
  ASSUME NEW f, NEW n \in Nat, NEW m, Merges(f, n, m)
  PROVE  Merges(f, n + 1, MergeStep(ParsedOf(f), m))
<1>1. PICK g : /\ g = [k \in 0 .. n |-> g[k]]
               /\ g[0] = MergeInit(f)
               /\ \A k \in 1 .. n : g[k] = MergeStep(ParsedOf(f), g[k - 1])
               /\ m = g[n]
  BY DEF Merges
<1> DEFINE x == MergeStep(ParsedOf(f), m)
           h == [k \in 0 .. n + 1 |-> IF k = n + 1 THEN x ELSE g[k]]
<1>2. h = [k \in 0 .. n + 1 |-> h[k]]
  OBVIOUS
<1>3. h[n + 1] = x /\ \A k \in 0 .. n : h[k] = g[k]
  <2>1. n + 1 \in 0 .. n + 1 OBVIOUS
  <2>2. \A k \in 0 .. n : k \in 0 .. n + 1 /\ k # n + 1 OBVIOUS
  <2> QED BY <2>1, <2>2
<1> HIDE DEF h
<1>4. h[0] = MergeInit(f)
  BY <1>1, <1>3
<1>5. ASSUME NEW k \in 1 .. n + 1 PROVE h[k] = MergeStep(ParsedOf(f), h[k - 1])
  <2>1. CASE k \in 1 .. n
    <3>1. k - 1 \in 0 .. n /\ k \in 0 .. n BY <2>1
    <3>2. g[k] = MergeStep(ParsedOf(f), g[k - 1]) BY <1>1, <2>1
    <3> QED BY <1>3, <3>1, <3>2
  <2>2. CASE k = n + 1
    <3>1. k - 1 = n /\ n \in 0 .. n BY <2>2
    <3>2. h[k - 1] = m BY <1>1, <1>3, <3>1
    <3> QED BY <1>3, <2>2, <3>2
  <2> QED BY <2>1, <2>2
<1> HIDE DEF x
<1>6. /\ h = [k \in 0 .. n + 1 |-> h[k]] /\ h[0] = MergeInit(f)
      /\ \A k \in 1 .. n + 1 : h[k] = MergeStep(ParsedOf(f), h[k - 1])
      /\ x = h[n + 1]
  BY <1>2, <1>3, <1>4, <1>5
<1>7. Merges(f, n + 1, x)
  BY <1>6 DEF Merges
<1> QED BY <1>7 DEF x

\* How many lines iter_ticks has to read.
Lines(f) == Cardinality(UNION {{i} \X DOMAIN ParsedOf(f)[i] : i \in DOMAIN f})

LEMMA MergedOf ==
  ASSUME NEW f, Lines(f) \in Nat, NEW m, Merges(f, Lines(f), m)
  PROVE  IterTicks(f) = m.out
<1> DEFINE n == Lines(f)
           P == ParsedOf(f)
           loop(h) == [k \in 0 .. n |->
                         IF k = 0 THEN MergeInit(f) ELSE MergeStep(P, h[k - 1])]
           merged == CHOOSE h : h = loop(h)
<1>1. IterTicks(f) = merged[n].out
  BY DEF IterTicks, ParsedOf, Lines
<1>2. PICK g : /\ g = [k \in 0 .. n |-> g[k]]
               /\ g[0] = MergeInit(f)
               /\ \A k \in 1 .. n : g[k] = MergeStep(P, g[k - 1])
               /\ m = g[n]
  BY DEF Merges
<1>3. n \in Nat
  OBVIOUS
<1> HIDE DEF n, P
<1>4. \A k \in 0 .. n : k # 0 => k \in 1 .. n /\ k - 1 \in 0 .. n /\ k - 1 \in Nat /\ k - 1 < k
  BY <1>3
<1>5. g = loop(g)
  <2>1. \A k \in 0 .. n :
          g[k] = IF k = 0 THEN MergeInit(f) ELSE MergeStep(P, g[k - 1])
    BY <1>2, <1>4
  <2>2. [k \in 0 .. n |-> g[k]] = loop(g)
    BY <2>1
  <2> HIDE DEF loop
  <2> QED BY <1>2, <2>2
<1>6. merged = loop(merged)
  <2> HIDE DEF loop
  <2> QED BY <1>5
<1> HIDE DEF merged
<1>7. \A k \in 0 .. n :
        merged[k] = IF k = 0 THEN MergeInit(f) ELSE MergeStep(P, merged[k - 1])
  BY <1>6
<1> DEFINE T == {k \in Nat : k \in 0 .. n /\ merged[k] # g[k]}
<1>8. T = {}
  <2> SUFFICES ASSUME T # {} PROVE FALSE
    OBVIOUS
  <2>1. T \in SUBSET Nat OBVIOUS
  <2>2. PICK k \in T : \A l \in T : k <= l BY <2>1, SmallestOf
  <2>3. k \in 0 .. n /\ merged[k] # g[k] OBVIOUS
  <2>4. k # 0
    <3>1. 0 \in 0 .. n BY <1>3
    <3>2. merged[0] = g[0] BY <1>2, <1>7, <3>1
    <3> QED BY <2>3, <3>2
  <2>5. k \in 1 .. n /\ k - 1 \in 0 .. n /\ k - 1 \in Nat /\ k - 1 < k
    BY <1>4, <2>3, <2>4
  <2>6. merged[k - 1] = g[k - 1]
    <3>1. k - 1 \notin T
      <4>1. k \in Nat OBVIOUS
      <4> QED BY <2>2, <2>5, <4>1
    <3> QED BY <2>5, <3>1
  <2>7. merged[k] = MergeStep(P, merged[k - 1]) BY <1>7, <2>3, <2>4
  <2>8. g[k] = MergeStep(P, g[k - 1]) BY <1>2, <2>5
  <2> QED BY <2>3, <2>6, <2>7, <2>8
<1>9. merged[n] = g[n]
  <2>1. n \in 0 .. n /\ n \in Nat BY <1>3
  <2> QED BY <1>8, <2>1
<1> QED BY <1>1, <1>2, <1>9

LEMMA LinesOf ==
  ASSUME NEW t, NEW p, NEW half, NEW f, Halved(t, p, half, f)
  PROVE  /\ Lines(f) = InFirst(f, half, p) + InSecond(f, half, p)
         /\ InFirst(f, half, p) \in Nat /\ InSecond(f, half, p) \in Nat
<1> DEFINE a == Parsed(f[1], half)
           b == Parsed(f[2], p - half)
           A == {1} \X (1 .. a)
           B == {2} \X (1 .. b)
<1>1. /\ p \in Nat /\ half \in Nat /\ half <= p
      /\ f[1] \in Seq(Tick) /\ Len(f[1]) = half
      /\ f[2] \in Seq(Tick) /\ Len(f[2]) = p - half
      /\ DOMAIN f = 1 .. 2
  BY DEF Halved
<1>2. a \in Nat /\ DOMAIN FileTicks(f[1]) = 1 .. a
  BY <1>1, FileOf
<1>3. b \in Nat /\ DOMAIN FileTicks(f[2]) = 1 .. b /\ Parsed(f[2], 0) = 0
  BY <1>1, FileOf
<1>4. InFirst(f, half, p) = a /\ InSecond(f, half, p) = b
  <2>1. InFirst(f, half, p) = a
    <3>1. p <= half => p = half BY <1>1
    <3> QED BY <3>1 DEF InFirst
  <2>2. InSecond(f, half, p) = b
    <3>1. p <= half => p - half = 0 BY <1>1
    <3> QED BY <1>3, <3>1 DEF InSecond
  <2> QED BY <2>1, <2>2
<1> HIDE DEF a, b
<1>5. UNION {{i} \X DOMAIN ParsedOf(f)[i] : i \in DOMAIN f} = A \cup B
  <2>1. DOMAIN ParsedOf(f)[1] = 1 .. a /\ DOMAIN ParsedOf(f)[2] = 1 .. b
    BY <1>1, <1>2, <1>3 DEF ParsedOf
  <2>2. DOMAIN f = {1, 2}
    <3>1. 1 .. 2 = {1, 2} OBVIOUS
    <3> QED BY <1>1, <3>1
  <2>3. {{i} \X DOMAIN ParsedOf(f)[i] : i \in DOMAIN f} = {A, B}
    BY <2>1, <2>2
  <2> HIDE DEF A, B
  <2> QED BY <2>3
<1>6. IsFiniteSet(A) /\ Cardinality(A) = a
  <2>1. IsFiniteSet({1}) /\ Cardinality({1}) = 1 BY FS_Singleton
  <2>2. IsFiniteSet(1 .. a) /\ Cardinality(1 .. a) = a BY <1>2, FS_Interval
  <2>3. IsFiniteSet(A) /\ Cardinality(A) = Cardinality({1}) * Cardinality(1 .. a)
    BY <2>1, <2>2, FS_Product
  <2> QED BY <1>2, <2>1, <2>2, <2>3
<1>7. IsFiniteSet(B) /\ Cardinality(B) = b
  <2>1. IsFiniteSet({2}) /\ Cardinality({2}) = 1 BY FS_Singleton
  <2>2. IsFiniteSet(1 .. b) /\ Cardinality(1 .. b) = b BY <1>3, FS_Interval
  <2>3. IsFiniteSet(B) /\ Cardinality(B) = Cardinality({2}) * Cardinality(1 .. b)
    BY <2>1, <2>2, FS_Product
  <2> QED BY <1>3, <2>1, <2>2, <2>3
<1>8. Cardinality(A \cap B) = 0
  <2>1. A \cap B = {} OBVIOUS
  <2> QED BY <2>1, FS_EmptySet
<1> HIDE DEF A, B
<1>9. Cardinality(A \cup B) = Cardinality(A) + Cardinality(B) - Cardinality(A \cap B)
  BY <1>6, <1>7, FS_Union
<1>10. Cardinality(A \cup B) = a + b
  BY <1>2, <1>3, <1>6, <1>7, <1>8, <1>9
<1> QED BY <1>2, <1>3, <1>4, <1>5, <1>10 DEF Lines

\* Through with the first j messages, the merge has what Fed says.
Reached(t, half, f, j) ==
  \E m : /\ Merges(f, InFirst(f, half, j) + InSecond(f, half, j), m)
         /\ MergeTrue(m, t, j, InFirst(f, half, j), InSecond(f, half, j))

LEMMA ReachedNone ==
  ASSUME NEW t, NEW p, NEW half, NEW f, Halved(t, p, half, f)
  PROVE  Reached(t, half, f, 0)
<1> DEFINE m == MergeInit(f)
<1>1. /\ f[1] \in Seq(Tick) /\ f[2] \in Seq(Tick) /\ DOMAIN f = 1 .. 2 /\ half \in Nat
  BY DEF Halved
<1>2. InFirst(f, half, 0) = 0 /\ InSecond(f, half, 0) = 0
  <2>1. Parsed(f[1], 0) = 0 /\ Parsed(f[2], 0) = 0 BY <1>1, FileOf
  <2>2. 0 <= half BY <1>1
  <2> QED BY <2>1, <2>2 DEF InFirst, InSecond
<1>3. Merges(f, 0, m)
  BY MergesNone
<1>4. /\ m.next = [i \in 1 .. 2 |-> 1] /\ m.out = <<>> /\ m.ts = -1 /\ m.seen = {}
  BY <1>1 DEF MergeInit
<1> HIDE DEF m
<1>5. m.next \in [1 .. 2 -> Int] /\ m.next[1] = 0 + 1 /\ m.next[2] = 0 + 1
  BY <1>4
<1>6. m.out = Fed(t, 0)
  BY <1>4, FedNone
<1>7. SeenTrue(m.ts, m.seen, t, 0)
  BY <1>4 DEF SeenTrue
<1>8. MergeTrue(m, t, 0, 0, 0)
  BY <1>5, <1>6, <1>7 DEF MergeTrue
<1>9. 0 + 0 = 0
  OBVIOUS
<1> QED BY <1>2, <1>3, <1>8, <1>9 DEF Reached

LEMMA ReachedMore ==
  ASSUME NEW t, NEW p, NEW half, NEW f, Halved(t, p, half, f), Ordered(t, p),
         NEW j \in Nat, j < p, Reached(t, half, f, j)
  PROVE  Reached(t, half, f, j + 1)
<1> DEFINE a == InFirst(f, half, j)
           b == InSecond(f, half, j)
           a2 == InFirst(f, half, j + 1)
           b2 == InSecond(f, half, j + 1)
<1>1. PICK m : Merges(f, a + b, m) /\ MergeTrue(m, t, j, a, b)
  BY DEF Reached
<1>2. /\ a \in Nat /\ b \in Nat
      /\ t[j + 1].kind = "junk" => a2 = a /\ b2 = b
      /\ t[j + 1].kind # "junk" /\ j + 1 <= half => a2 = a + 1 /\ b2 = b
      /\ t[j + 1].kind # "junk" /\ ~(j + 1 <= half) => a2 = a /\ b2 = b + 1
  BY ReadOn
<1>3. p \in Nat /\ t \in Seq(Tick) /\ p <= Len(t) /\ j < Len(t)
  BY DEF Halved
<1>4. CASE t[j + 1].kind = "junk"
  <2>1. a2 = a /\ b2 = b BY <1>2, <1>4
  <2>2. Fed(t, j + 1) = Fed(t, j)
    <3>1. ~FirstSeen(t, j + 1) BY <1>4 DEF FirstSeen
    <3> QED BY <1>3, <3>1, FedOn
  <2>3. SeenTrue(m.ts, m.seen, t, j + 1)
    <3>1. SeenTrue(m.ts, m.seen, t, j) BY <1>1 DEF MergeTrue
    <3>2. \A i \in 1 .. j : i \in 1 .. j + 1 OBVIOUS
    <3>3. \A i \in 1 .. j + 1 : t[i].kind # "junk" => i \in 1 .. j
      <4>1. \A i \in 1 .. j + 1 : i \in 1 .. j \/ i = j + 1 OBVIOUS
      <4> QED BY <1>4, <4>1
    <3>4. m.ts = -1 \/ \E i \in 1 .. j + 1 : m.ts = t[i].ts
      BY <3>1, <3>2 DEF SeenTrue
    <3>5. \A i \in 1 .. j + 1 : t[i].kind # "junk" =>
            t[i].ts <= m.ts /\ (t[i].ts = m.ts => TickDedupeKey(t[i]) \in m.seen)
      BY <3>1, <3>3 DEF SeenTrue
    <3>6. \A x \in m.seen : \E i \in 1 .. j + 1 : x = TickDedupeKey(t[i])
      BY <3>1, <3>2 DEF SeenTrue
    <3> QED BY <3>4, <3>5, <3>6 DEF SeenTrue
  <2> HIDE DEF a, b, a2, b2
  <2>4. MergeTrue(m, t, j + 1, a2, b2)
    BY <1>1, <2>1, <2>2, <2>3 DEF MergeTrue
  <2>5. Merges(f, a2 + b2, m)
    BY <1>1, <2>1
  <2> QED BY <2>4, <2>5 DEF Reached, a2, b2
<1>5. CASE t[j + 1].kind # "junk"
  <2> DEFINE P == ParsedOf(f)
             m2 == MergeStep(P, m)
  <2>1. MergeTrue(m2, t, j + 1, a2, b2)
    <3> HIDE DEF P
    <3>1. P = ParsedOf(f) BY DEF P
    <3> QED BY <1>1, <1>5, <3>1, MergeOn
  <2> HIDE DEF a, b, a2, b2
  <2>2. a + b \in Nat /\ a2 + b2 = (a + b) + 1
    BY <1>2, <1>5
  <2>3. Merges(f, (a + b) + 1, m2)
    BY <1>1, <2>2, MergesMore
  <2> HIDE DEF m2
  <2>4. Merges(f, a2 + b2, m2)
    BY <2>2, <2>3
  <2> QED BY <2>1, <2>4 DEF Reached, a2, b2
<1> QED BY <1>4, <1>5

LEMMA ReachedAll ==
  ASSUME NEW t, NEW p, NEW half, NEW f, Halved(t, p, half, f), Ordered(t, p)
  PROVE  Reached(t, half, f, p)
<1> DEFINE T == {j \in Nat : j \in 0 .. p /\ ~Reached(t, half, f, j)}
<1>1. p \in Nat
  BY DEF Halved
<1>2. SUFFICES ASSUME ~Reached(t, half, f, p) PROVE FALSE
  OBVIOUS
<1>3. T \in SUBSET Nat /\ T # {}
  <2>1. p \in T BY <1>1, <1>2
  <2> QED BY <2>1
<1>4. PICK j \in T : \A l \in T : j <= l
  BY <1>3, SmallestOf
<1>5. j \in 0 .. p /\ j \in Nat /\ ~Reached(t, half, f, j)
  OBVIOUS
<1>6. j # 0
  BY <1>5, ReachedNone
<1>7. j - 1 \in Nat /\ j - 1 < p /\ j - 1 \in 0 .. p /\ (j - 1) + 1 = j /\ j - 1 < j
  BY <1>1, <1>5, <1>6
<1>8. Reached(t, half, f, j - 1)
  <2>1. j - 1 \notin T BY <1>4, <1>7
  <2> QED BY <1>7, <2>1
<1>9. Reached(t, half, f, (j - 1) + 1)
  BY <1>7, <1>8, ReachedMore
<1> QED BY <1>5, <1>7, <1>9

\* The offline builder feeds its engine what Fed says.
LEMMA IterTicksOf ==
  ASSUME NEW t, NEW p, NEW half, NEW f, Halved(t, p, half, f), Ordered(t, p)
  PROVE  IterTicks(f) = Fed(t, p)
<1> DEFINE a == InFirst(f, half, p)
           b == InSecond(f, half, p)
<1>1. PICK m : Merges(f, a + b, m) /\ MergeTrue(m, t, p, a, b)
  BY ReachedAll DEF Reached
<1>2. Lines(f) = a + b /\ a \in Nat /\ b \in Nat
  BY LinesOf
<1> HIDE DEF a, b
<1>3. Lines(f) \in Nat /\ Merges(f, Lines(f), m)
  BY <1>1, <1>2
<1>4. IterTicks(f) = m.out
  BY <1>3, MergedOf
<1> QED BY <1>1, <1>4 DEF MergeTrue

\* The two mirror files of a session.
LEMMA HalvedOf ==
  ASSUME NEW t \in Seq(Tick), NEW p \in Nat, p <= Len(t), NEW half \in Nat, half <= p
  PROVE  Halved(t, p, half, <<SubSeq(t, 1, half), SubSeq(t, half + 1, p)>>)
<1> DEFINE a == SubSeq(t, 1, half)
           b == SubSeq(t, half + 1, p)
           f == <<a, b>>
<1>1. half \in 0 .. p /\ half \in Nat /\ half <= p /\ Len(t) \in Nat
  OBVIOUS
<1>2. a \in Seq(Tick) /\ Len(a) = half /\ \A i \in 1 .. half : a[i] = t[i]
  BY <1>1
<1>3. b \in Seq(Tick) /\ Len(b) = p - half /\ \A i \in 1 .. p - half : b[i] = t[half + i]
  <2>1. \A i \in half + 1 .. p : t[i] \in Tick BY <1>1
  <2>2. Len(b) = p - half /\ \A i \in 1 .. p - half : b[i] = t[half + i]
    BY <1>1
  <2>3. b \in Seq(Tick) BY <1>1
  <2> QED BY <2>2, <2>3
<1> HIDE DEF a, b
<1>4. f[1] = a /\ f[2] = b /\ DOMAIN f = 1 .. 2
  OBVIOUS
<1> HIDE DEF f
<1>5. Halved(t, p, half, f)
  BY <1>1, <1>2, <1>3, <1>4 DEF Halved
<1> QED BY <1>5 DEF f, a, b

-----------------------------------------------------------------------------
\* The offline builder gives every tick the same tag.
Bare(x) == [x EXCEPT !.tag = <<>>]
Bares(S) == {Bare(x) : x \in S}
Bared(s) == [i \in 1 .. Len(s) |-> Bare(s[i])]
BareEngine(e) == [prices |-> e.prices, pending |-> Bared(e.pending)]
BareResult(r) ==
  [raised |-> r.raised, engine |-> BareEngine(r.engine), drained |-> Bared(r.drained)]

LEMMA BaredOf ==
  ASSUME NEW S, NEW s \in Seq(S)
  PROVE  /\ Bared(s) \in Seq(Bares(S)) /\ Len(Bared(s)) = Len(s)
         /\ DOMAIN Bared(s) = 1 .. Len(s)
         /\ \A i \in 1 .. Len(s) : Bared(s)[i] = Bare(s[i])
<1> DEFINE n == Len(s)
<1>1. n \in Nat /\ \A i \in 1 .. n : s[i] \in S
  OBVIOUS
<1>2. \A i \in 1 .. n : Bare(s[i]) \in Bares(S)
  BY <1>1 DEF Bares
<1>3. Bared(s) = [i \in 1 .. n |-> Bare(s[i])]
  BY DEF Bared
<1> HIDE DEF n
<1>4. Bared(s) \in [1 .. n -> Bares(S)]
  BY <1>2, <1>3
<1>5. Bared(s) \in Seq(Bares(S)) /\ Len(Bared(s)) = n /\ DOMAIN Bared(s) = 1 .. n
  BY <1>1, <1>4
<1> QED BY <1>3, <1>5 DEF n

LEMMA SameSeq ==
  ASSUME NEW S, NEW a \in Seq(S), NEW b \in Seq(S), Len(a) = Len(b),
         \A i \in 1 .. Len(a) : a[i] = b[i]
  PROVE  a = b
OBVIOUS

LEMMA BaredNone == Bared(<<>>) = <<>>
<1>1. <<>> \in Seq({}) /\ Len(<<>>) = 0
  OBVIOUS
<1>2. Bared(<<>>) \in Seq(Bares({})) /\ Len(Bared(<<>>)) = 0
  BY <1>1, BaredOf
<1> QED BY <1>2

LEMMA BaredAppend ==
  ASSUME NEW S, NEW s \in Seq(S), NEW x \in S
  PROVE  Bared(Append(s, x)) = Append(Bared(s), Bare(x))
<1> DEFINE n == Len(s)
           a == Append(s, x)
           u == Bared(a)
           v == Append(Bared(s), Bare(x))
<1>1. n \in Nat /\ a \in Seq(S) /\ Len(a) = n + 1 /\ a[n + 1] = x
      /\ \A i \in 1 .. n : a[i] = s[i]
  OBVIOUS
<1> HIDE DEF a
<1>2. Bared(s) \in Seq(Bares(S)) /\ Len(Bared(s)) = n
      /\ \A i \in 1 .. n : Bared(s)[i] = Bare(s[i])
  BY BaredOf
<1>3. u \in Seq(Bares(S)) /\ Len(u) = n + 1
      /\ \A i \in 1 .. n + 1 : u[i] = Bare(a[i])
  <2>1. u \in Seq(Bares(S)) /\ Len(u) = Len(a)
        /\ \A i \in 1 .. Len(a) : u[i] = Bare(a[i])
    BY <1>1, BaredOf
  <2> QED BY <1>1, <2>1
<1>4. Bare(x) \in Bares(S)
  BY DEF Bares
<1> DEFINE w == Bared(s)
           y == Bare(x)
<1> HIDE DEF w, y, n, u
<1>5. v \in Seq(Bares(S)) /\ Len(v) = n + 1 /\ v[n + 1] = y
      /\ \A i \in 1 .. n : v[i] = w[i]
  <2>1. w \in Seq(Bares(S)) /\ Len(w) = n /\ y \in Bares(S) BY <1>2, <1>4 DEF w, y
  <2>2. v = Append(w, y) BY DEF w, y
  <2> HIDE DEF v
  <2> QED BY <1>1, <2>1, <2>2
<1>6. \A i \in 1 .. n + 1 : u[i] = v[i]
  <2>1. \A i \in 1 .. n + 1 : i \in 1 .. n \/ i = n + 1 BY <1>1
  <2>2. n + 1 \in 1 .. n + 1 BY <1>1
  <2>3. u[n + 1] = v[n + 1] BY <1>1, <1>3, <1>5, <2>2 DEF y
  <2>4. \A i \in 1 .. n : u[i] = v[i]
    <3>1. \A i \in 1 .. n : i \in 1 .. n + 1 BY <1>1
    <3> QED BY <1>1, <1>2, <1>3, <1>5, <3>1 DEF w
  <2> QED BY <2>1, <2>3, <2>4
<1> HIDE DEF v
<1>7. u = v
  BY <1>3, <1>5, <1>6, SameSeq
<1> QED BY <1>7 DEF u, v, a

LEMMA BaredSub ==
  ASSUME NEW S, NEW s \in Seq(S), NEW a \in Nat, NEW b \in Nat, 1 <= a, a <= b + 1,
         b <= Len(s)
  PROVE  Bared(SubSeq(s, a, b)) = SubSeq(Bared(s), a, b)
<1> DEFINE m == (b + 1) - a
           c == SubSeq(s, a, b)
           w == Bared(s)
           u == Bared(c)
           v == SubSeq(w, a, b)
<1>1. m \in Nat /\ Len(s) \in Nat
      /\ \A i \in 1 .. m : a + i - 1 \in 1 .. Len(s) /\ a + i - 1 \in a .. b
  OBVIOUS
<1>2. c \in Seq(S) /\ Len(c) = m /\ \A i \in 1 .. m : c[i] = s[a + i - 1]
  <2>1. \A i \in a .. b : s[i] \in S BY <1>1
  <2> QED BY <1>1, <2>1
<1> HIDE DEF c
<1>3. w \in Seq(Bares(S)) /\ Len(w) = Len(s)
      /\ \A i \in 1 .. Len(s) : w[i] = Bare(s[i])
  BY BaredOf
<1> HIDE DEF w
<1>4. v \in Seq(Bares(S)) /\ Len(v) = m /\ \A i \in 1 .. m : v[i] = w[a + i - 1]
  <2>1. \A i \in a .. b : i \in 1 .. Len(s) BY <1>1
  <2>2. \A i \in a .. b : w[i] \in Bares(S) BY <1>3, <2>1
  <2> QED BY <1>1, <1>3, <2>2
<1> HIDE DEF v
<1>5. u \in Seq(Bares(S)) /\ Len(u) = m /\ \A i \in 1 .. m : u[i] = Bare(c[i])
  BY <1>2, BaredOf
<1> HIDE DEF u, m
<1>6. \A i \in 1 .. m : u[i] = v[i]
  <2> SUFFICES ASSUME NEW i \in 1 .. m PROVE u[i] = v[i]
    OBVIOUS
  <2> DEFINE k == a + i - 1
  <2>1. k \in 1 .. Len(s) BY <1>1
  <2>2. u[i] = Bare(c[i]) /\ c[i] = s[k] /\ v[i] = w[k] BY <1>2, <1>4, <1>5
  <2> HIDE DEF k
  <2>3. w[k] = Bare(s[k]) BY <1>3, <2>1
  <2> QED BY <2>2, <2>3
<1>7. u = v
  BY <1>4, <1>5, <1>6, SameSeq
<1> QED BY <1>7 DEF u, v, w, c

LEMMA BaredConcat ==
  ASSUME NEW S, NEW a \in Seq(S), NEW b \in Seq(S)
  PROVE  Bared(a \o b) = Bared(a) \o Bared(b)
<1> DEFINE m == Len(a)
           n == Len(b)
           c == a \o b
           u == Bared(c)
           x == Bared(a)
           y == Bared(b)
           v == x \o y
           T == Bares(S)
<1>1. m \in Nat /\ n \in Nat
  OBVIOUS
<1>2. c \in Seq(S) /\ Len(c) = m + n
      /\ (\A i \in 1 .. m : c[i] = a[i]) /\ (\A i \in 1 .. n : c[m + i] = b[i])
  BY ConcatOf
<1> HIDE DEF c
<1>3. /\ x \in Seq(T) /\ Len(x) = m /\ \A i \in 1 .. m : x[i] = Bare(a[i])
      /\ y \in Seq(T) /\ Len(y) = n /\ \A i \in 1 .. n : y[i] = Bare(b[i])
  BY BaredOf
<1>4. u \in Seq(T) /\ Len(u) = m + n /\ \A i \in 1 .. m + n : u[i] = Bare(c[i])
  <2>1. u \in Seq(T) /\ Len(u) = Len(c) /\ \A i \in 1 .. Len(c) : u[i] = Bare(c[i])
    BY <1>2, BaredOf
  <2> QED BY <1>2, <2>1
<1> HIDE DEF x, y, u, T
<1>5. v \in Seq(T) /\ Len(v) = m + n
      /\ (\A i \in 1 .. m : v[i] = x[i]) /\ (\A i \in 1 .. n : v[m + i] = y[i])
  <2>1. v \in Seq(T) /\ Len(v) = Len(x) + Len(y)
        /\ (\A i \in 1 .. Len(x) : v[i] = x[i])
        /\ (\A i \in 1 .. Len(y) : v[Len(x) + i] = y[i])
    <3>1. x \in Seq(T) /\ y \in Seq(T) BY <1>3
    <3> QED BY ONLY <3>1, ConcatOf
  <2> HIDE DEF v
  <2> QED BY <1>3, <2>1
<1> HIDE DEF v, m, n
<1>6. \A i \in 1 .. m + n : u[i] = v[i]
  <2> SUFFICES ASSUME NEW i \in 1 .. m + n PROVE u[i] = v[i]
    OBVIOUS
  <2>1. CASE i \in 1 .. m BY <1>2, <1>3, <1>4, <1>5, <2>1
  <2>2. CASE i \notin 1 .. m
    <3> DEFINE j == i - m
    <3>1. j \in 1 .. n /\ i = m + j BY <1>1, <2>2
    <3> HIDE DEF j
    <3> QED BY <1>2, <1>3, <1>4, <1>5, <3>1
  <2> QED BY <2>1, <2>2
<1>7. u = v
  BY <1>4, <1>5, <1>6, SameSeq
<1> QED BY <1>7 DEF u, v, c, x, y

LEMMA BaredMasked ==
  ASSUME NEW rows, NEW bare, NEW n \in Nat, NEW kept, kept \subseteq 1 .. n,
         \A i \in 1 .. n : bare[i] = Bare(rows[i])
  PROVE  Masked(bare, kept) = Bared(Masked(rows, kept))
<1> DEFINE m == Cardinality(kept)
           to(k) == CHOOSE p \in kept : Cardinality({q \in kept : q < p}) = k - 1
           a == Masked(rows, kept)
           b == Masked(bare, kept)
<1>1. m \in Nat
  BY MaskedPlaces
<1>2. a = [k \in 1 .. m |-> rows[to(k)]] /\ b = [k \in 1 .. m |-> bare[to(k)]]
  BY Zenon DEF Masked
<1>3. \A k \in 1 .. m : to(k) \in kept
  <2> SUFFICES ASSUME NEW k \in 1 .. m PROVE to(k) \in kept
    OBVIOUS
  <2>1. PICK j \in kept : k = PlaceIn(kept, j)
    BY RankTaken
  <2> DEFINE c == Cardinality({q \in kept : q < j})
  <2>2. c + 1 = k BY <2>1 DEF PlaceIn
  <2>3. c \in Int
    <3>1. {q \in kept : q < j} \subseteq 1 .. n OBVIOUS
    <3>2. IsFiniteSet({q \in kept : q < j})
      <4>1. IsFiniteSet(1 .. n) BY FS_Interval
      <4> QED BY <3>1, <4>1, FS_Subset
    <3> QED BY <3>2, FS_CardinalityType
  <2>4. c = k - 1
    <3> HIDE DEF c
    <3> QED BY <1>1, <2>2, <2>3
  <2> QED BY <2>4
<1> HIDE DEF to, m
<1>4. Len(a) = m
  <2> HIDE DEF a
  <2> QED BY <1>1, <1>2
<1>5. Bared(a) = [k \in 1 .. m |-> Bare(a[k])]
  BY <1>4 DEF Bared
<1>6. \A k \in 1 .. m : bare[to(k)] = Bare(a[k])
  <2> HIDE DEF a
  <2>1. \A k \in 1 .. m : a[k] = rows[to(k)] /\ to(k) \in 1 .. n BY <1>2, <1>3
  <2> QED BY <2>1
<1> HIDE DEF a, b
<1>7. b = [k \in 1 .. m |-> Bare(a[k])]
  BY <1>2, <1>6
<1> QED BY <1>5, <1>7 DEF a, b

\* The drain of an engine whose tags are taken away is the drain of the engine
\* with its tags taken away.
LEMMA DueBare ==
  ASSUME NEW pending \in Seq(Waiting), NEW now \in Nat, NEW force \in BOOLEAN
  PROVE  Due(Bared(pending), now, force) = Bared(Due(pending, now, force))
<1> DEFINE bare == Bared(pending)
           early == {i \in DOMAIN pending : ~force /\ now - pending[i].ts < Horizon}
           early2 == {i \in DOMAIN bare : ~force /\ now - bare[i].ts < Horizon}
<1>1. /\ DOMAIN bare = 1 .. Len(pending) /\ DOMAIN pending = 1 .. Len(pending)
      /\ Len(bare) = Len(pending) /\ Len(pending) \in Nat
      /\ \A i \in 1 .. Len(pending) : bare[i] = Bare(pending[i])
  <2>1. DOMAIN pending = 1 .. Len(pending) /\ Len(pending) \in Nat OBVIOUS
  <2>2. /\ DOMAIN bare = 1 .. Len(pending) /\ Len(bare) = Len(pending)
        /\ \A i \in 1 .. Len(pending) : bare[i] = Bare(pending[i])
    BY ONLY pending \in Seq(Waiting), BaredOf
  <2> HIDE DEF bare
  <2> QED BY <2>1, <2>2
<1>2. \A i \in 1 .. Len(pending) : bare[i].ts = pending[i].ts
  <2> SUFFICES ASSUME NEW i \in 1 .. Len(pending) PROVE bare[i].ts = pending[i].ts
    OBVIOUS
  <2>1. pending[i] \in Waiting OBVIOUS
  <2> QED BY <1>1, <2>1 DEF Bare, Waiting
<1> HIDE DEF bare
<1>3. early = early2
  BY <1>1, <1>2
<1>4. Due(bare, now, force) =
        IF early2 = {} THEN bare ELSE SubSeq(bare, 1, Min(early2) - 1)
  BY DEF Due
<1>5. Due(pending, now, force) =
        IF early = {} THEN pending ELSE SubSeq(pending, 1, Min(early) - 1)
  BY DEF Due
<1>6. CASE early = {}
  <2> HIDE DEF early, early2
  <2> QED BY <1>3, <1>4, <1>5, <1>6 DEF bare
<1>7. CASE early # {}
  <2>1. early \in SUBSET Nat /\ early \subseteq 1 .. Len(pending) BY <1>1
  <2>2. Min(early) \in 1 .. Len(pending) BY <1>7, <2>1, MinOf
  <2> DEFINE n == Min(early) - 1
  <2> HIDE DEF early, early2
  <2>3. n \in Nat /\ n <= Len(pending) /\ 1 <= n + 1 BY <1>1, <2>2
  <2>4. Due(bare, now, force) = SubSeq(bare, 1, n) BY <1>3, <1>4, <1>7
  <2>5. Due(pending, now, force) = SubSeq(pending, 1, n) BY <1>5, <1>7
  <2> HIDE DEF n
  <2>6. Bared(SubSeq(pending, 1, n)) = SubSeq(Bared(pending), 1, n)
    BY <2>3, BaredSub
  <2> QED BY <2>4, <2>5, <2>6 DEF bare
<1> QED BY <1>6, <1>7

LEMMA DrainBare ==
  ASSUME NEW prices, NEW pending \in Seq(Waiting), NEW now \in Nat,
         NEW force \in BOOLEAN,
         NEW e, e = [prices |-> prices, pending |-> pending]
  PROVE  DrainTagged(BareEngine(e), now, force) = BareResult(DrainTagged(e, now, force))
<1> DEFINE bare == Bared(pending)
           f == BareEngine(e)
           due == Due(pending, now, force)
           rows == [i \in DOMAIN due |->
                     [tag |-> due[i].tag, ts |-> due[i].ts, off |-> due[i].off,
                      vol |-> FutureVol(FutureWindow(prices, due[i].ts))]]
           bad == {i \in DOMAIN due : rows[i].vol = MathError}
           good == {i \in DOMAIN due : rows[i].vol # NoLabel}
           r == DrainTagged(e, now, force)
           due2 == Due(bare, now, force)
           rows2 == [i \in DOMAIN due2 |->
                     [tag |-> due2[i].tag, ts |-> due2[i].ts, off |-> due2[i].off,
                      vol |-> FutureVol(FutureWindow(prices, due2[i].ts))]]
           bad2 == {i \in DOMAIN due2 : rows2[i].vol = MathError}
           good2 == {i \in DOMAIN due2 : rows2[i].vol # NoLabel}
           q == DrainTagged(f, now, force)
<1>1. PICK n \in 0 .. Len(pending) :
        /\ Len(due) = n
        /\ DOMAIN due = 1 .. n
        /\ \A i \in 1 .. n : due[i] = pending[i]
  BY DueOf
<1>2. \A i \in 1 .. n : due[i] \in Waiting /\ due[i].tag \in Tag
  <2> SUFFICES ASSUME NEW i \in 1 .. n PROVE due[i] \in Waiting
    BY DEF Waiting
  <2>1. i \in 1 .. Len(pending) BY <1>1
  <2>2. pending[i] \in Waiting BY <2>1
  <2> HIDE DEF due
  <2> QED BY <1>1, <2>2
<1>3. due2 = Bared(due)
  BY DueBare
<1>4. DOMAIN due2 = 1 .. n /\ Len(due2) = n /\ \A i \in 1 .. n : due2[i] = Bare(due[i])
  <2> HIDE DEF due, due2
  <2>1. due2 = [i \in 1 .. n |-> Bare(due[i])] BY <1>1, <1>3 DEF Bared
  <2>2. n \in Nat BY <1>1
  <2> QED BY <2>1, <2>2
<1>5. \A i \in 1 .. n : /\ due2[i].tag = <<>> /\ due2[i].ts = due[i].ts
                        /\ due2[i].off = due[i].off
  <2> HIDE DEF due, due2
  <2> QED BY <1>2, <1>4 DEF Bare, Waiting
<1> HIDE DEF due, due2
<1>6. \A i \in 1 .. n : rows2[i] = Bare(rows[i])
  <2> SUFFICES ASSUME NEW i \in 1 .. n PROVE rows2[i] = Bare(rows[i])
    OBVIOUS
  <2> DEFINE v == FutureVol(FutureWindow(prices, due[i].ts))
             x == due[i]
  <2>1. rows[i] = [tag |-> x.tag, ts |-> x.ts, off |-> x.off, vol |-> v]
    BY <1>1
  <2>2. rows2[i] = [tag |-> <<>>, ts |-> x.ts, off |-> x.off, vol |-> v]
    BY <1>4, <1>5
  <2> HIDE DEF v, x, rows, rows2
  <2> QED BY <2>1, <2>2 DEF Bare
<1>7. \A i \in 1 .. n : rows2[i].vol = rows[i].vol
  BY <1>1, <1>4, <1>5
<1>8. bad2 = bad /\ good2 = good
  <2> HIDE DEF rows, rows2
  <2> QED BY <1>1, <1>4, <1>7
<1>9. /\ r.raised = (bad # {})
      /\ r.engine = [e EXCEPT !.pending = SubSeq(@,
                       (IF bad = {} THEN Len(due) ELSE Min(bad)) + 1, Len(@))]
      /\ r.drained = IF bad # {} THEN <<>> ELSE Masked(rows, good)
  BY DEF DrainTagged, due
<1>10. f = [prices |-> prices, pending |-> bare]
  BY DEF BareEngine
<1>11. q = [raised |-> bad2 # {},
            engine |-> [f EXCEPT !.pending = SubSeq(@,
                          (IF bad2 = {} THEN Len(due2) ELSE Min(bad2)) + 1, Len(@))],
            drained |-> IF bad2 # {} THEN <<>> ELSE Masked(rows2, good2)]
  <2>1. f.prices = prices /\ f.pending = bare BY <1>10
  <2> HIDE DEF f, bare
  <2> QED BY <2>1 DEF DrainTagged, due2
<1> HIDE DEF r, q, f
<1> DEFINE popped == IF bad = {} THEN n ELSE Min(bad)
<1>12. popped \in 0 .. n /\ popped \in Nat /\ popped <= Len(pending) /\ Len(pending) \in Nat
  <2>1. bad \subseteq 1 .. n BY <1>1
  <2> HIDE DEF bad
  <2>2. n \in Nat /\ n <= Len(pending) /\ Len(pending) \in Nat BY <1>1
  <2>3. CASE bad = {} BY <2>2, <2>3
  <2>4. CASE bad # {}
    <3>1. bad \in SUBSET Nat BY <2>1
    <3>2. Min(bad) \in bad BY <2>4, <3>1, MinOf
    <3> DEFINE first == Min(bad)
    <3>3. popped = first BY <2>4
    <3>4. first \in 1 .. n BY <2>1, <3>2
    <3> HIDE DEF first, popped
    <3> QED BY <2>2, <3>3, <3>4
  <2> QED BY <2>3, <2>4
<1> DEFINE rest == SubSeq(pending, popped + 1, Len(pending))
<1>13. r.engine = [prices |-> prices, pending |-> rest]
  <2> HIDE DEF bad
  <2> QED BY <1>1, <1>9
<1>14. Bared(rest) = SubSeq(bare, popped + 1, Len(bare))
  <2>1. Len(bare) = Len(pending) BY BaredOf
  <2> DEFINE a == popped + 1
             b == Len(pending)
  <2> HIDE DEF popped
  <2>2. a \in Nat /\ b \in Nat /\ 1 <= a /\ a <= b + 1 /\ b <= Len(pending) BY <1>12
  <2> HIDE DEF a, b
  <2>3. Bared(SubSeq(pending, a, b)) = SubSeq(Bared(pending), a, b) BY <2>2, BaredSub
  <2> QED BY <2>1, <2>3 DEF a, b
<1>15. q.engine = BareEngine(r.engine)
  <2>1. BareEngine(r.engine) = [prices |-> prices, pending |-> Bared(rest)]
    <3> HIDE DEF rest
    <3> QED BY <1>13 DEF BareEngine
  <2>2. q.engine = [prices |-> prices, pending |-> SubSeq(bare, popped + 1, Len(bare))]
    <3> HIDE DEF bad, bad2, bare, rows, rows2, good, good2
    <3> QED BY <1>4, <1>8, <1>10, <1>11
  <2> HIDE DEF rest
  <2> QED BY <1>14, <2>1, <2>2
<1>16. q.drained = Bared(r.drained)
  <2>1. Masked(rows2, good) = Bared(Masked(rows, good))
    <3>1. good \subseteq 1 .. n /\ n \in Nat BY <1>1
    <3> HIDE DEF good, rows, rows2
    <3> QED BY ONLY <1>6, <3>1, BaredMasked
  <2> HIDE DEF bad, bad2, rows, rows2, good, good2
  <2> QED BY <1>8, <1>9, <1>11, <2>1, BaredNone
<1>17. q.raised = r.raised
  <2> HIDE DEF bad, bad2, rows, rows2
  <2> QED BY <1>8, <1>9, <1>11
<1>18. q = [raised |-> q.raised, engine |-> q.engine, drained |-> q.drained]
  <2> HIDE DEF bad, bad2, rows, rows2, good, good2
  <2> QED BY <1>11
<1> QED BY <1>15, <1>16, <1>17, <1>18 DEF BareResult, q, r, f

\* So is its ingest.
LEMMA IngestBare ==
  ASSUME NEW prices \in Seq(Priced), NEW pending \in Seq(Waiting),
         NEW e, e = [prices |-> prices, pending |-> pending],
         NEW m \in Tick, NEW tag \in Tag
  PROVE  IngestWithTag(BareEngine(e), m, <<>>) = BareResult(IngestWithTag(e, m, tag))
<1> DEFINE f == BareEngine(e)
           late == prices # <<>> /\ m.ts < LastTs(prices)
           old == IF late THEN <<>> ELSE prices
           base == IF late THEN <<>> ELSE pending
           x == [ts |-> m.ts, price |-> m.price, off |-> m.off]
           y == [ts |-> m.ts, off |-> m.off, tag |-> tag]
           z == [ts |-> m.ts, off |-> m.off, tag |-> <<>>]
           q == Prune(Append(old, x), m.ts)
           reset == [prices |-> old, pending |-> base]
           stored == [prices |-> q, pending |-> base]
           waiting == [prices |-> q, pending |-> Append(base, y)]
           failed(after) == [raised |-> TRUE, engine |-> after, drained |-> <<>>]
           bare == Bared(base)
<1>1. m.ts \in Nat /\ m.off \in Nat
  BY DEF Tick
<1>2. y \in Waiting /\ Bare(y) = z
  BY <1>1 DEF Waiting, Bare
<1>3. base \in Seq(Waiting)
  <2>1. <<>> \in Seq(Waiting) OBVIOUS
  <2> QED BY <2>1
<1>4. ResetOnRegression(e, m.ts) = reset
  BY DEF ResetOnRegression, ResetEngine, FeatureEngineInit
<1>5. ResetOnRegression(f, m.ts) = BareEngine(reset)
  <2>1. f = [prices |-> prices, pending |-> Bared(pending)] BY DEF BareEngine
  <2>2. ResetOnRegression(f, m.ts) =
          IF late THEN [prices |-> <<>>, pending |-> <<>>] ELSE f
    <3> HIDE DEF f
    <3> QED BY <2>1 DEF ResetOnRegression, ResetEngine, FeatureEngineInit
  <2>3. BareEngine(reset) = [prices |-> old, pending |-> Bared(base)]
    BY DEF BareEngine
  <2> HIDE DEF f
  <2> QED BY <2>1, <2>2, <2>3, BaredNone
<1> HIDE DEF old, base, late
<1>6. BareEngine(reset) = [prices |-> old, pending |-> bare]
  BY DEF BareEngine
<1>7. BareEngine(stored) = [prices |-> q, pending |-> bare]
  BY DEF BareEngine
<1>8. BareEngine(waiting) = [prices |-> q, pending |-> Append(bare, z)]
  <2>1. Bared(Append(base, y)) = Append(bare, z) BY <1>2, <1>3, BaredAppend
  <2>2. BareEngine(waiting) = [prices |-> q, pending |-> Bared(Append(base, y))]
    BY DEF BareEngine
  <2> QED BY <2>1, <2>2
<1>9. IngestWithTag(e, m, tag) =
        IF m.kind = "missing" THEN failed(e)
        ELSE IF m.kind = "text" THEN failed(reset)
        ELSE IF RowRaises(q) THEN failed(stored)
        ELSE DrainTagged(waiting, m.ts, FALSE)
  <2> DEFINE rs == ResetOnRegression(e, m.ts)
             st == [rs EXCEPT !.prices = Prune(Append(@, x), m.ts)]
             wt == [st EXCEPT !.pending = Append(@, y)]
  <2>1. IngestWithTag(e, m, tag) =
          IF m.kind = "missing" THEN failed(e)
          ELSE IF m.kind = "text" THEN failed(rs)
          ELSE IF RowRaises(st.prices) THEN failed(st)
          ELSE DrainTagged(wt, m.ts, FALSE)
    BY DEF IngestWithTag
  <2>2. rs = reset BY <1>4
  <2> HIDE DEF rs, x, y
  <2>3. st = stored BY <2>2
  <2>4. st.prices = q BY <2>3
  <2> HIDE DEF st, q
  <2> HIDE DEF base
  <2>5. wt = waiting
    <3>1. st = [prices |-> q, pending |-> base] BY <2>3
    <3> DEFINE longer == Append(base, y)
    <3>2. st.pending = base BY <3>1
    <3>3. wt = [st EXCEPT !.pending = longer] BY <3>2
    <3> HIDE DEF wt, longer
    <3>4. wt = [prices |-> q, pending |-> longer] BY <3>1, <3>3
    <3> QED BY <3>4 DEF longer
  <2> HIDE DEF wt, failed, waiting, stored, reset
  <2> QED BY <2>1, <2>2, <2>3, <2>4, <2>5
<1>10. IngestWithTag(f, m, <<>>) =
        IF m.kind = "missing" THEN failed(f)
        ELSE IF m.kind = "text" THEN failed(BareEngine(reset))
        ELSE IF RowRaises(q) THEN failed(BareEngine(stored))
        ELSE DrainTagged(BareEngine(waiting), m.ts, FALSE)
  <2> HIDE DEF f
  <2> DEFINE rs == ResetOnRegression(f, m.ts)
             st == [rs EXCEPT !.prices = Prune(Append(@, x), m.ts)]
             wt == [st EXCEPT !.pending = Append(@, z)]
  <2>1. IngestWithTag(f, m, <<>>) =
          IF m.kind = "missing" THEN failed(f)
          ELSE IF m.kind = "text" THEN failed(rs)
          ELSE IF RowRaises(st.prices) THEN failed(st)
          ELSE DrainTagged(wt, m.ts, FALSE)
    BY DEF IngestWithTag
  <2>2. rs = BareEngine(reset) BY <1>5 DEF f
  <2>3. rs = [prices |-> old, pending |-> bare] BY <1>6, <2>2
  <2> HIDE DEF rs, x, z, bare
  <2>4. st = [prices |-> q, pending |-> bare] BY <2>3
  <2>5. st.prices = q BY <2>4
  <2> HIDE DEF st, q
  <2>6. wt = [prices |-> q, pending |-> Append(bare, z)]
    <3> DEFINE longer == Append(bare, z)
    <3>1. st.pending = bare BY <2>4
    <3>2. wt = [st EXCEPT !.pending = longer] BY <3>1
    <3> HIDE DEF wt, longer
    <3>3. wt = [prices |-> q, pending |-> longer] BY <2>4, <3>2
    <3> QED BY <3>3 DEF longer
  <2> HIDE DEF wt, failed, waiting, stored, reset
  <2> QED BY <1>7, <1>8, <2>1, <2>2, <2>4, <2>5, <2>6
<1>11. \A after : BareResult(failed(after)) = failed(BareEngine(after))
  BY BaredNone DEF BareResult
<1>12. DrainTagged(BareEngine(waiting), m.ts, FALSE)
         = BareResult(DrainTagged(waiting, m.ts, FALSE))
  <2>1. Append(base, y) \in Seq(Waiting) BY <1>2, <1>3
  <2> DEFINE all == Append(base, y)
  <2> HIDE DEF all, q
  <2>2. waiting = [prices |-> q, pending |-> all] BY DEF all
  <2>3. all \in Seq(Waiting) /\ FALSE \in BOOLEAN BY <2>1 DEF all
  <2> HIDE DEF waiting
  <2> QED BY <1>1, <2>2, <2>3, DrainBare
<1> HIDE DEF failed, waiting, stored, reset, q, f
<1> QED BY <1>9, <1>10, <1>11, <1>12 DEF f

LEMMA RemainingBare ==
  ASSUME NEW prices \in Seq(Priced), NEW pending \in Seq(Waiting),
         NEW e, e = [prices |-> prices, pending |-> pending]
  PROVE  DrainRemaining(BareEngine(e)) = BareResult(DrainRemaining(e))
<1> DEFINE f == BareEngine(e)
<1>1. f = [prices |-> prices, pending |-> Bared(pending)]
  BY DEF BareEngine
<1>2. CASE prices = <<>>
  <2>1. DrainRemaining(e) = [raised |-> FALSE, engine |-> e, drained |-> <<>>]
    BY <1>2 DEF DrainRemaining
  <2> HIDE DEF f
  <2>2. f.prices = <<>> BY <1>1, <1>2
  <2>3. DrainRemaining(f) = [raised |-> FALSE, engine |-> f, drained |-> <<>>]
    BY <2>2 DEF DrainRemaining
  <2>4. BareResult(DrainRemaining(e)) =
          [raised |-> FALSE, engine |-> f, drained |-> <<>>]
    <3> DEFINE r == DrainRemaining(e)
    <3> HIDE DEF r
    <3>1. r.raised = FALSE /\ r.engine = e /\ r.drained = <<>> BY <2>1 DEF r
    <3>2. BareResult(r) = [raised |-> FALSE, engine |-> f, drained |-> <<>>]
      BY ONLY <3>1, BaredNone DEF BareResult, f
    <3> QED BY <3>2 DEF r
  <2> QED BY <2>3, <2>4 DEF f
<1>3. CASE prices # <<>>
  <2> DEFINE now == LastTs(prices)
  <2>1. now \in Nat
    <3>1. prices[Len(prices)] \in Priced BY <1>3
    <3> QED BY <3>1 DEF LastTs, Priced
  <2>2. DrainRemaining(e) = DrainTagged(e, now, TRUE)
    BY <1>3 DEF DrainRemaining
  <2> HIDE DEF f, now
  <2>3. f.prices = prices BY <1>1
  <2>4. DrainRemaining(f) = DrainTagged(f, now, TRUE)
    BY <1>3, <2>3 DEF DrainRemaining, now
  <2>5. DrainTagged(f, now, TRUE) = BareResult(DrainTagged(e, now, TRUE))
    <3>1. TRUE \in BOOLEAN OBVIOUS
    <3> QED BY <2>1, <3>1, DrainBare DEF f
  <2> QED BY <2>2, <2>4, <2>5 DEF f
<1> QED BY <1>2, <1>3

-----------------------------------------------------------------------------
\* What replay.py has made of the ticks.
BuildInit == [engine |-> FeatureEngineInit, rows |-> <<>>]
Built(ticks, b) ==
  \E g : /\ g = [k \in 0 .. Len(ticks) |-> g[k]]
         /\ g[0] = BuildInit
         /\ \A k \in 1 .. Len(ticks) : g[k] = BuildStep(g[k - 1], ticks[k])
         /\ b = g[Len(ticks)]

LEMMA BuiltNone == Built(<<>>, BuildInit)
<1> DEFINE g == [k \in 0 .. 0 |-> BuildInit]
<1>1. g[0] = BuildInit /\ g = [k \in 0 .. 0 |-> g[k]]
  OBVIOUS
<1>2. \A k \in 1 .. 0 : g[k] = BuildStep(g[k - 1], <<>>[k])
  OBVIOUS
<1>3. Len(<<>>) = 0
  OBVIOUS
<1> HIDE DEF g
<1> QED BY <1>1, <1>2, <1>3 DEF Built

LEMMA BuiltMore ==
  ASSUME NEW ticks \in Seq(Tick), NEW m \in Tick, NEW b, Built(ticks, b)
  PROVE  Built(Append(ticks, m), BuildStep(b, m))
<1> DEFINE n == Len(ticks)
           more == Append(ticks, m)
           x == BuildStep(b, m)
<1>1. PICK g : /\ g = [k \in 0 .. n |-> g[k]]
               /\ g[0] = BuildInit
               /\ \A k \in 1 .. n : g[k] = BuildStep(g[k - 1], ticks[k])
               /\ b = g[n]
  BY DEF Built
<1>2. n \in Nat /\ Len(more) = n + 1 /\ more[n + 1] = m
      /\ \A k \in 1 .. n : more[k] = ticks[k]
  OBVIOUS
<1> HIDE DEF n, more, x
<1> DEFINE h == [k \in 0 .. n + 1 |-> IF k = n + 1 THEN x ELSE g[k]]
<1>3. h = [k \in 0 .. n + 1 |-> h[k]]
  OBVIOUS
<1>4. h[n + 1] = x /\ \A k \in 0 .. n : h[k] = g[k]
  <2>1. n + 1 \in 0 .. n + 1 BY <1>2
  <2>2. \A k \in 0 .. n : k \in 0 .. n + 1 /\ k # n + 1 BY <1>2
  <2> QED BY <2>1, <2>2
<1> HIDE DEF h
<1>5. h[0] = BuildInit
  <2>1. 0 \in 0 .. n BY <1>2
  <2> QED BY <1>1, <1>4, <2>1
<1>6. ASSUME NEW k \in 1 .. n + 1 PROVE h[k] = BuildStep(h[k - 1], more[k])
  <2>1. CASE k \in 1 .. n
    <3>1. k - 1 \in 0 .. n /\ k \in 0 .. n BY <1>2, <2>1
    <3>2. g[k] = BuildStep(g[k - 1], ticks[k]) BY <1>1, <2>1
    <3>3. more[k] = ticks[k] BY <1>2, <2>1
    <3>4. h[k] = g[k] /\ h[k - 1] = g[k - 1] BY <1>4, <3>1
    <3> QED BY <3>2, <3>3, <3>4
  <2>2. CASE k = n + 1
    <3>1. k - 1 = n /\ n \in 0 .. n BY <1>2, <2>2
    <3>2. h[k - 1] = b BY <1>1, <1>4, <3>1
    <3>3. more[k] = m /\ h[k] = x BY <1>2, <1>4, <2>2
    <3> QED BY <3>2, <3>3 DEF x
  <2> QED BY <1>2, <2>1, <2>2
<1>7. Built(more, x)
  <2>1. /\ h = [k \in 0 .. Len(more) |-> h[k]] /\ h[0] = BuildInit
        /\ \A k \in 1 .. Len(more) : h[k] = BuildStep(h[k - 1], more[k])
        /\ x = h[Len(more)]
    BY <1>2, <1>3, <1>4, <1>5, <1>6
  <2> QED BY <2>1 DEF Built
<1> QED BY <1>7 DEF more, x

LEMMA BuiltOf ==
  ASSUME NEW f, NEW ticks \in Seq(Tick), IterTicks(f) = ticks, NEW b, Built(ticks, b)
  PROVE  OfflineRows(f) = b.rows \o DrainRemaining(b.engine).drained
<1> DEFINE n == Len(ticks)
           loop(h) == [k \in 0 .. n |->
                         IF k = 0 THEN BuildInit ELSE BuildStep(h[k - 1], ticks[k])]
           built == CHOOSE h : h = loop(h)
<1>1. OfflineRows(f) = built[n].rows \o DrainRemaining(built[n].engine).drained
  BY DEF OfflineRows, BuildInit
<1>2. PICK g : /\ g = [k \in 0 .. n |-> g[k]]
               /\ g[0] = BuildInit
               /\ \A k \in 1 .. n : g[k] = BuildStep(g[k - 1], ticks[k])
               /\ b = g[n]
  BY DEF Built
<1>3. n \in Nat
  OBVIOUS
<1> HIDE DEF n
<1>4. \A k \in 0 .. n : k # 0 => k \in 1 .. n /\ k - 1 \in 0 .. n /\ k - 1 \in Nat /\ k - 1 < k
  BY <1>3
<1>5. g = loop(g)
  <2>1. \A k \in 0 .. n :
          g[k] = IF k = 0 THEN BuildInit ELSE BuildStep(g[k - 1], ticks[k])
    BY <1>2, <1>4
  <2>2. [k \in 0 .. n |-> g[k]] = loop(g)
    BY <2>1
  <2> HIDE DEF loop
  <2> QED BY <1>2, <2>2
<1>6. built = loop(built)
  <2> HIDE DEF loop
  <2> QED BY <1>5
<1> HIDE DEF built
<1>7. \A k \in 0 .. n :
        built[k] = IF k = 0 THEN BuildInit ELSE BuildStep(built[k - 1], ticks[k])
  BY <1>6
<1> DEFINE T == {k \in Nat : k \in 0 .. n /\ built[k] # g[k]}
<1>8. T = {}
  <2> SUFFICES ASSUME T # {} PROVE FALSE
    OBVIOUS
  <2>1. T \in SUBSET Nat OBVIOUS
  <2>2. PICK k \in T : \A l \in T : k <= l BY <2>1, SmallestOf
  <2>3. k \in 0 .. n /\ built[k] # g[k] OBVIOUS
  <2>4. k # 0
    <3>1. 0 \in 0 .. n BY <1>3
    <3>2. built[0] = g[0] BY <1>2, <1>7, <3>1
    <3> QED BY <2>3, <3>2
  <2>5. k \in 1 .. n /\ k - 1 \in 0 .. n /\ k - 1 \in Nat /\ k - 1 < k
    BY <1>4, <2>3, <2>4
  <2>6. built[k - 1] = g[k - 1]
    <3>1. k - 1 \notin T
      <4>1. k \in Nat OBVIOUS
      <4> QED BY <2>2, <2>5, <4>1
    <3> QED BY <2>5, <3>1
  <2>7. built[k] = BuildStep(built[k - 1], ticks[k]) BY <1>7, <2>3, <2>4
  <2>8. g[k] = BuildStep(g[k - 1], ticks[k]) BY <1>2, <2>5
  <2> QED BY <2>3, <2>6, <2>7, <2>8
<1>9. built[n] = g[n]
  <2>1. n \in 0 .. n /\ n \in Nat BY <1>3
  <2> QED BY <1>8, <2>1
<1> QED BY <1>1, <1>2, <1>9

-----------------------------------------------------------------------------
\* A topic read up to p: in order, and its repeats near.
Quiet(t, p) ==
  /\ Ordered(t, p)
  /\ \A i, j \in 1 .. p :
       i < j /\ TickDedupeKey(t[i]) = TickDedupeKey(t[j]) => j - i <= Window

LEMMA QuietBefore ==
  ASSUME NEW t, NEW u, NEW p \in Nat, \A k \in 1 .. p : u[k] = t[k], Quiet(u, p + 1)
  PROVE  Quiet(t, p)
<1>1. \A i \in 1 .. p : i \in 1 .. p + 1 /\ u[i] = t[i]
  OBVIOUS
<1>2. Ordered(t, p)
  BY <1>1 DEF Quiet, Ordered
<1>3. \A i, j \in 1 .. p :
        i < j /\ TickDedupeKey(t[i]) = TickDedupeKey(t[j]) => j - i <= Window
  <2>1. \A i \in 1 .. p : TickDedupeKey(t[i]) = TickDedupeKey(u[i]) BY <1>1
  <2> QED BY <1>1, <2>1 DEF Quiet
<1> QED BY <1>2, <1>3 DEF Quiet

\* What the stream remembers of the first p messages of t, when none was a
\* regression.
Lately(t, keys, p, i) ==
  \/ p - i >= Window
  \/ \E l \in 1 .. Len(keys) : keys[l] = TickDedupeKey(t[i]) /\ Len(keys) - l <= p - i

Sightings(t, p, s) ==
  /\ s.lastTs = -1 \/ \E i \in 1 .. p : s.lastTs = t[i].ts
  /\ \A l \in 1 .. Len(s.recent) : \E i \in 1 .. p : s.recent[l] = TickDedupeKey(t[i])
  /\ \A i \in 1 .. p : FirstSeen(t, i) => Lately(t, s.recent, p, i)

LEMMA LatelyOn ==
  ASSUME NEW t, NEW keys, Len(keys) \in Nat, NEW p \in Nat, NEW i \in 1 .. p,
         Lately(t, keys, p, i)
  PROVE  Lately(t, keys, p + 1, i)
<1>1. Window \in Nat /\ i \in Nat
  BY FeaturizerAssumption
<1>2. CASE p - i >= Window
  <2>1. (p + 1) - i >= Window BY <1>1, <1>2
  <2> QED BY <2>1 DEF Lately
<1>3. CASE \E l \in 1 .. Len(keys) :
             keys[l] = TickDedupeKey(t[i]) /\ Len(keys) - l <= p - i
  <2>1. PICK l \in 1 .. Len(keys) :
             keys[l] = TickDedupeKey(t[i]) /\ Len(keys) - l <= p - i
    BY <1>3
  <2>2. Len(keys) - l <= (p + 1) - i BY <1>1, <2>1
  <2> QED BY <2>1, <2>2 DEF Lately
<1> QED BY <1>2, <1>3 DEF Lately

LEMMA LatelyMore ==
  ASSUME NEW t, NEW keys, Len(keys) \in Nat, NEW more, NEW key,
         Shifted(keys, key, more), NEW p \in Nat, NEW i \in 1 .. p,
         Lately(t, keys, p, i)
  PROVE  Lately(t, more, p + 1, i)
<1> DEFINE n == Len(more)
<1>1. Window \in Nat /\ i \in Nat
  BY FeaturizerAssumption
<1>2. PICK d \in {0, 1} :
        /\ n = Len(keys) + 1 - d
        /\ d = 1 => n = Window
        /\ \A k \in 1 .. n - 1 : more[k] = keys[k + d]
  BY DEF Shifted
<1>3. n \in Nat
  BY <1>2
<1>4. CASE p - i >= Window
  <2>1. (p + 1) - i >= Window BY <1>1, <1>4
  <2> QED BY <2>1 DEF Lately
<1>5. CASE \E l \in 1 .. Len(keys) :
             keys[l] = TickDedupeKey(t[i]) /\ Len(keys) - l <= p - i
  <2>1. PICK l \in 1 .. Len(keys) :
             keys[l] = TickDedupeKey(t[i]) /\ Len(keys) - l <= p - i
    BY <1>5
  <2> DEFINE j == l - d
  <2>2. CASE j = 0
    <3>1. d = 1 /\ l = 1 /\ n = Window /\ n = Len(keys) BY <1>2, <2>2
    <3>2. Window - 1 <= p - i BY <2>1, <3>1
    <3>3. (p + 1) - i >= Window BY <1>1, <3>2
    <3> QED BY <3>3 DEF Lately
  <2>3. CASE j # 0
    <3>1. j \in 1 .. n - 1 /\ j + d = l /\ j \in 1 .. n BY <1>2, <1>3, <2>3
    <3>2. more[j] = keys[l] BY <1>2, <3>1
    <3>3. n - j <= (p + 1) - i BY <1>1, <1>2, <2>1, <3>1
    <3> HIDE DEF j
    <3>4. more[j] = TickDedupeKey(t[i]) BY <2>1, <3>2
    <3> QED BY <3>1, <3>3, <3>4, Zenon DEF Lately
  <2> QED BY <2>2, <2>3
<1> QED BY <1>4, <1>5 DEF Lately

\* The next message is no first one.
LEMMA SightingsOn ==
  ASSUME NEW t, NEW p \in Nat, NEW s, Len(s.recent) \in Nat, Sightings(t, p, s),
         ~FirstSeen(t, p + 1),
         NEW s2, s2.recent = s.recent, s2.lastTs \in {s.lastTs, t[p + 1].ts}
  PROVE  Sightings(t, p + 1, s2)
<1>1. \A i \in 1 .. p : i \in 1 .. p + 1
  OBVIOUS
<1>2. \A i \in 1 .. p + 1 : i \in 1 .. p \/ i = p + 1
  OBVIOUS
<1>3. p + 1 \in 1 .. p + 1
  OBVIOUS
<1>4. s2.lastTs = -1 \/ \E i \in 1 .. p + 1 : s2.lastTs = t[i].ts
  BY <1>1, <1>3 DEF Sightings
<1>5. \A l \in 1 .. Len(s2.recent) : \E i \in 1 .. p + 1 : s2.recent[l] = TickDedupeKey(t[i])
  BY <1>1 DEF Sightings
<1>6. ASSUME NEW i \in 1 .. p + 1, FirstSeen(t, i) PROVE Lately(t, s2.recent, p + 1, i)
  <2>1. i \in 1 .. p BY <1>2, <1>6
  <2>2. Lately(t, s.recent, p, i) BY <1>6, <2>1 DEF Sightings
  <2>3. Lately(t, s.recent, p + 1, i) BY <2>1, <2>2, LatelyOn
  <2> QED BY <2>3
<1> QED BY <1>4, <1>5, <1>6 DEF Sightings

\* It is one.
LEMMA SightingsMore ==
  ASSUME NEW t, NEW p \in Nat, NEW s, Len(s.recent) \in Nat, Sightings(t, p, s),
         NEW s2, Shifted(s.recent, TickDedupeKey(t[p + 1]), s2.recent),
         s2.lastTs = t[p + 1].ts
  PROVE  Sightings(t, p + 1, s2)
<1> DEFINE keys == s.recent
           more == s2.recent
           n == Len(more)
<1>1. \A i \in 1 .. p : i \in 1 .. p + 1
  OBVIOUS
<1>2. \A i \in 1 .. p + 1 : i \in 1 .. p \/ i = p + 1
  OBVIOUS
<1>3. p + 1 \in 1 .. p + 1
  OBVIOUS
<1>4. PICK d \in {0, 1} :
        /\ n = Len(keys) + 1 - d
        /\ \A k \in 1 .. n - 1 : more[k] = keys[k + d]
  BY DEF Shifted
<1>5. n \in Nat /\ n >= 1 /\ more[n] = TickDedupeKey(t[p + 1])
  BY <1>4 DEF Shifted
<1>6. ASSUME NEW l \in 1 .. n PROVE \E i \in 1 .. p + 1 : more[l] = TickDedupeKey(t[i])
  <2>1. CASE l = n BY <1>3, <1>5, <2>1
  <2>2. CASE l # n
    <3>1. l \in 1 .. n - 1 /\ l + d \in 1 .. Len(keys) BY <1>4, <1>5, <2>2
    <3>2. PICK i \in 1 .. p : keys[l + d] = TickDedupeKey(t[i]) BY <3>1 DEF Sightings
    <3>3. more[l] = keys[l + d] BY <1>4, <3>1
    <3> QED BY <1>1, <3>2, <3>3
  <2> QED BY <2>1, <2>2
<1>7. ASSUME NEW i \in 1 .. p + 1, FirstSeen(t, i) PROVE Lately(t, more, p + 1, i)
  <2>1. CASE i \in 1 .. p
    <3>1. Lately(t, keys, p, i) BY <1>7, <2>1 DEF Sightings
    <3> HIDE DEF keys, more
    <3>2. Shifted(keys, TickDedupeKey(t[p + 1]), more) /\ Len(keys) \in Nat
      BY DEF keys, more
    <3> QED BY <2>1, <3>1, <3>2, LatelyMore
  <2>2. CASE i = p + 1
    <3>1. n \in 1 .. n /\ n - n <= (p + 1) - i BY <1>5, <2>2
    <3>2. more[n] = TickDedupeKey(t[i]) BY <1>5, <2>2
    <3> QED BY <3>1, <3>2, Zenon DEF Lately
  <2> QED BY <1>2, <2>1, <2>2
<1>8. \E i \in 1 .. p + 1 : s2.lastTs = t[i].ts
  BY <1>3
<1> QED BY <1>6, <1>7, <1>8 DEF Sightings

\* The window of keys tells a repeat from a first message.
LEMMA SightedAgain ==
  ASSUME NEW t, NEW p \in Nat, NEW s, s.recent \in Seq(Key), Sightings(t, p, s),
         Quiet(t, p + 1), t[p + 1].kind # "junk"
  PROVE  TickDedupeKey(t[p + 1]) \in Range(s.recent) <=> ~FirstSeen(t, p + 1)
<1> DEFINE key == TickDedupeKey(t[p + 1])
           keys == s.recent
<1>1. Len(keys) \in Nat /\ DOMAIN keys = 1 .. Len(keys) /\ Window \in Nat
  BY FeaturizerAssumption
<1>2. ASSUME key \in Range(keys) PROVE ~FirstSeen(t, p + 1)
  <2>1. PICK l \in 1 .. Len(keys) : keys[l] = key BY <1>1, <1>2 DEF Range
  <2>2. PICK i \in 1 .. p : keys[l] = TickDedupeKey(t[i]) BY <2>1 DEF Sightings
  <2>3. i \in 1 .. (p + 1) - 1 OBVIOUS
  <2> QED BY <2>1, <2>2, <2>3 DEF FirstSeen
<1>3. ASSUME ~FirstSeen(t, p + 1) PROVE key \in Range(keys)
  <2> DEFINE T == {i \in Nat : i \in 1 .. p /\ TickDedupeKey(t[i]) = key}
  <2>1. T \in SUBSET Nat /\ T # {}
    <3>1. PICK i \in 1 .. (p + 1) - 1 : TickDedupeKey(t[i]) = key BY <1>3 DEF FirstSeen
    <3>2. i \in T BY <3>1
    <3> QED BY <3>2
  <2>2. PICK i \in T : \A j \in T : i <= j BY <2>1, SmallestOf
  <2>3. i \in 1 .. p /\ i \in Nat /\ TickDedupeKey(t[i]) = key OBVIOUS
  <2>4. t[i].kind # "junk" BY <2>3 DEF TickDedupeKey
  <2>5. \A j \in 1 .. i - 1 : TickDedupeKey(t[j]) # TickDedupeKey(t[i])
    <3> SUFFICES ASSUME NEW j \in 1 .. i - 1, TickDedupeKey(t[j]) = key PROVE FALSE
      BY <2>3
    <3>1. j \in Nat /\ j \in 1 .. p /\ j < i BY <2>3
    <3>2. j \in T BY <3>1
    <3> QED BY <2>2, <2>3, <3>1, <3>2
  <2>6. FirstSeen(t, i) BY <2>4, <2>5 DEF FirstSeen
  <2>7. Lately(t, keys, p, i) BY <2>3, <2>6 DEF Sightings
  <2>8. (p + 1) - i <= Window
    <3>1. i \in 1 .. p + 1 /\ p + 1 \in 1 .. p + 1 /\ i < p + 1 BY <2>3
    <3> QED BY <2>3, <3>1 DEF Quiet
  <2>9. ~(p - i >= Window) BY <1>1, <2>3, <2>8
  <2>10. PICK l \in 1 .. Len(keys) : keys[l] = TickDedupeKey(t[i])
    BY <2>7, <2>9 DEF Lately
  <2> QED BY <1>1, <2>3, <2>10 DEF Range
<1> QED BY <1>2, <1>3

-----------------------------------------------------------------------------
LEMMA QuietOf ==
  ASSUME Topic(raw), pos \in Nat, pos <= Len(raw), InOrder, RepeatsNear
  PROVE  Quiet(raw, pos)
<1>1. raw \in Seq(Tick)
  BY DEF Topic
<1>2. Ordered(raw, pos)
  BY <1>1, OrderedOf DEF InOrder
<1> QED BY <1>2 DEF Quiet, RepeatsNear

(***************************************************************************)
(* After p messages of a quiet topic the live session and replay.py are    *)
(* in one state: the stream s remembers what it was sent, and a builder    *)
(* fed the same ticks has this engine and these rows, the tags aside.      *)
(***************************************************************************)
Tracks(t, p, s, e, rows) ==
  /\ Sightings(t, p, s)
  /\ Built(Fed(t, p), [engine |-> BareEngine(e), rows |-> Bared(rows)])

LEMMA TracksNone ==
  ASSUME NEW t
  PROVE  Tracks(t, 0, StreamInit, FeatureEngineInit, <<>>)
<1>1. Sightings(t, 0, StreamInit)
  BY DEF Sightings, StreamInit
<1>2. BareEngine(FeatureEngineInit) = FeatureEngineInit
  BY BaredNone DEF BareEngine, FeatureEngineInit
<1>3. [engine |-> BareEngine(FeatureEngineInit), rows |-> Bared(<<>>)] = BuildInit
  BY <1>2, BaredNone DEF BuildInit
<1> QED BY <1>1, <1>3, FedNone, BuiltNone DEF Tracks

LEMMA TracksSame ==
  ASSUME NEW t, NEW u, NEW p \in Nat, \A k \in 1 .. p : u[k] = t[k],
         NEW s, NEW e, NEW rows, Tracks(t, p, s, e, rows)
  PROVE  Tracks(u, p, s, e, rows)
<1>1. \A k \in 1 .. p : FirstSeen(u, k) <=> FirstSeen(t, k)
  <2> SUFFICES ASSUME NEW k \in 1 .. p PROVE FirstSeen(u, k) <=> FirstSeen(t, k)
    OBVIOUS
  <2>1. u[k] = t[k] /\ \A i \in 1 .. k - 1 : u[i] = t[i] OBVIOUS
  <2> QED BY <2>1 DEF FirstSeen
<1>2. Sightings(t, p, s)
  BY DEF Tracks
<1>3. Sightings(u, p, s)
  <2>1. s.lastTs = -1 \/ \E i \in 1 .. p : s.lastTs = u[i].ts BY <1>2 DEF Sightings
  <2>2. \A l \in 1 .. Len(s.recent) : \E i \in 1 .. p : s.recent[l] = TickDedupeKey(u[i])
    BY <1>2 DEF Sightings
  <2>3. ASSUME NEW i \in 1 .. p, FirstSeen(u, i) PROVE Lately(u, s.recent, p, i)
    <3>1. Lately(t, s.recent, p, i) BY <1>1, <1>2, <2>3 DEF Sightings
    <3>2. u[i] = t[i] OBVIOUS
    <3> QED BY <3>1, <3>2 DEF Lately
  <2> QED BY <2>1, <2>2, <2>3 DEF Sightings
<1>4. Fed(u, p) = Fed(t, p)
  BY FedSame
<1> QED BY <1>3, <1>4 DEF Tracks

-----------------------------------------------------------------------------
\* A call of the engine that raises has drained nothing.
Settled(r) ==
  r.raised \in BOOLEAN /\ r.drained \in Seq(Drained) /\ (r.raised => r.drained = <<>>)

LEMMA IngestSettled ==
  ASSUME NEW t, NEW p \in Nat, NEW s, NEW e, EngineTrue(t, p, s, e),
         NEW m \in Tick, t[p + 1] = m, m.kind # "junk", m.off = p + 1,
         \A k \in 1 .. p : t[k] \in Tick, NEW tag \in Tag
  PROVE  Settled(IngestWithTag(e, m, tag))
<1> DEFINE r == IngestWithTag(e, m, tag)
           q == e.prices
           w == e.pending
<1>1. PricesTrue(t, q, p) /\ PendingHeld(t, q, w, p) /\ e = [prices |-> q, pending |-> w]
  BY DEF EngineTrue
<1>2. CASE m.kind # "ok"
  <2>1. m.kind \in {"missing", "text"} BY <1>2 DEF Tick, TickKinds
  <2>2. r.raised = TRUE /\ r.drained = <<>> BY <2>1 DEF IngestWithTag
  <2> HIDE DEF r
  <2>3. <<>> \in Seq(Drained) OBVIOUS
  <2> QED BY <2>2, <2>3 DEF Settled, r
<1>3. CASE m.kind = "ok"
  <2> HIDE DEF q, w
  <2>1. PICK old, base, x :
           \/ Unrowed(r, x, base)
           \/ \E n \in 0 .. Len(Pends(base, m, tag)) :
                Drains(r, x, Pends(base, m, tag), n)
    BY <1>1, <1>3, IngestOf
  <2> HIDE DEF r
  <2>2. CASE Unrowed(r, x, base)
    <3>1. r.raised = TRUE /\ r.drained = <<>> BY <2>2 DEF Unrowed
    <3>2. <<>> \in Seq(Drained) OBVIOUS
    <3> QED BY <3>1, <3>2 DEF Settled, r
  <2>3. CASE \E n \in 0 .. Len(Pends(base, m, tag)) :
               Drains(r, x, Pends(base, m, tag), n)
    BY <2>3 DEF Drains, Settled, r
  <2> QED BY <2>1, <2>2, <2>3
<1> QED BY <1>2, <1>3

LEMMA RemainingSettled ==
  ASSUME NEW t, NEW p \in Nat, NEW s, NEW e, EngineTrue(t, p, s, e)
  PROVE  Settled(DrainRemaining(e))
<1> DEFINE r == DrainRemaining(e)
           q == e.prices
           w == e.pending
<1>1. /\ PricesTrue(t, q, p) /\ PendingHeld(t, q, w, p) /\ e = [prices |-> q, pending |-> w]
      /\ q \in Seq(Priced) /\ w \in Seq(Waiting)
  BY DEF EngineTrue, PricesTrue, PendingHeld
<1>2. CASE q = <<>>
  <2>1. r.raised = FALSE /\ r.drained = <<>> BY <1>2 DEF DrainRemaining
  <2>2. <<>> \in Seq(Drained) OBVIOUS
  <2> HIDE DEF r
  <2> QED BY <2>1, <2>2 DEF Settled, r
<1>3. CASE q # <<>>
  <2>1. r = DrainTagged(e, LastTs(q), TRUE) BY <1>3 DEF DrainRemaining
  <2>2. LastTs(q) \in Nat
    <3>1. q[Len(q)] \in Priced BY <1>1, <1>3
    <3> QED BY <3>1 DEF LastTs, Priced
  <2>3. TRUE \in BOOLEAN OBVIOUS
  <2> HIDE DEF r, q, w
  <2>4. PICK n \in 0 .. Len(w) : Drains(r, q, w, n)
    BY <1>1, <2>1, <2>2, <2>3, DrainOf
  <2> QED BY <2>4 DEF Drains, Settled, r
<1> QED BY <1>2, <1>3

-----------------------------------------------------------------------------
\* On an ordered topic the timestamp of the stream only moves on.
LEMMA RegressNot ==
  ASSUME NEW t \in Seq(Tick), NEW p \in Nat, p < Len(t), Ordered(t, p + 1),
         NEW s, StreamTyped(s), Sightings(t, p, s)
  PROVE  /\ Regress(s, t[p + 1].ts).recent = s.recent
         /\ Regress(s, t[p + 1].ts).lastTs = t[p + 1].ts
<1>1. ~(s.lastTs # -1 /\ t[p + 1].ts < s.lastTs)
  <2> SUFFICES ASSUME s.lastTs # -1, t[p + 1].ts < s.lastTs PROVE FALSE
    OBVIOUS
  <2>1. PICK i \in 1 .. p : s.lastTs = t[i].ts BY DEF Sightings
  <2>2. i \in 1 .. p + 1 /\ p + 1 \in 1 .. p + 1 /\ i <= p + 1 OBVIOUS
  <2>3. t[i].ts <= t[p + 1].ts BY <2>2 DEF Ordered
  <2>4. t[i].ts \in Nat /\ t[p + 1].ts \in Nat
    <3>1. t[i] \in Tick /\ t[p + 1] \in Tick BY <2>2
    <3> QED BY <3>1 DEF Tick
  <2> QED BY <2>1, <2>3, <2>4
<1>2. Regress(s, t[p + 1].ts) = [s EXCEPT !.lastTs = t[p + 1].ts]
  BY <1>1 DEF Regress
<1>3. s \in [epoch : Nat, seq : Nat, lastTs : Nat \cup {-1}, recent : Seq(Key)]
  BY DEF StreamTyped
<1> DEFINE x == t[p + 1].ts
<1> HIDE DEF x
<1>4. [s EXCEPT !.lastTs = x].recent = s.recent /\ [s EXCEPT !.lastTs = x].lastTs = x
  BY <1>3
<1> QED BY <1>2, <1>4 DEF x

\* A tick that both sides take leaves them in one state again.
LEMMA TracksBuilt ==
  ASSUME NEW t \in Seq(Tick), NEW p \in Nat, p < Len(t), FirstSeen(t, p + 1),
         NEW s, NEW e, EngineTrue(t, p, s, e), NEW rows \in Seq(Drained),
         Tracks(t, p, s, e, rows), NEW tag \in Tag,
         NEW r, r = IngestWithTag(e, t[p + 1], tag), Settled(r)
  PROVE  Built(Fed(t, p + 1), [engine |-> BareEngine(r.engine), rows |-> Bared(rows \o r.drained)])
<1> DEFINE m == t[p + 1]
           b == [engine |-> BareEngine(e), rows |-> Bared(rows)]
           bare == IngestWithTag(BareEngine(e), m, <<>>)
<1>1. m \in Tick
  <2>1. p + 1 \in 1 .. Len(t) OBVIOUS
  <2> QED BY <2>1
<1>2. Fed(t, p) \in Seq(Tick) /\ Fed(t, p + 1) = Append(Fed(t, p), m)
  BY FedOn
<1>3. bare = BareResult(r)
  <2> DEFINE q == e.prices
             w == e.pending
  <2>1. q \in Seq(Priced) /\ w \in Seq(Waiting) /\ e = [prices |-> q, pending |-> w]
    BY DEF EngineTrue, PricesTrue, PendingHeld
  <2> HIDE DEF q, w, m
  <2>2. IngestWithTag(BareEngine(e), m, <<>>) = BareResult(IngestWithTag(e, m, tag))
    BY <1>1, <2>1, IngestBare
  <2> QED BY <2>2 DEF m
<1>4. bare.engine = BareEngine(r.engine) /\ bare.drained = Bared(r.drained)
  <2> HIDE DEF bare
  <2> QED BY <1>3 DEF BareResult
<1>5. Bared(rows \o r.drained) = Bared(rows) \o Bared(r.drained)
  <2>1. r.drained \in Seq(Drained) BY DEF Settled
  <2> DEFINE d == r.drained
  <2> HIDE DEF d
  <2>2. d \in Seq(Drained) BY <2>1 DEF d
  <2>3. Bared(rows \o d) = Bared(rows) \o Bared(d) BY ONLY rows \in Seq(Drained), <2>2, BaredConcat
  <2> QED BY <2>3 DEF d
<1>6. BuildStep(b, m) = [engine |-> bare.engine, rows |-> Bared(rows) \o bare.drained]
  BY DEF BuildStep
<1>7. Built(Fed(t, p), b)
  BY DEF Tracks
<1> HIDE DEF b, m, bare
<1>8. Built(Append(Fed(t, p), m), BuildStep(b, m))
  BY <1>1, <1>2, <1>7, BuiltMore
<1> QED BY <1>2, <1>4, <1>5, <1>6, <1>8

LEMMA TracksHandled ==
  ASSUME StreamTyped(stream), labelled \in Seq(Drained), pos \in Nat, boot \in Nat,
         Topic(raw'), pos < Len(raw'), Quiet(raw', pos + 1),
         EngineTrue(raw', pos, stream, engine),
         Tracks(raw', pos, stream, engine, labelled),
         HandleMessage(raw'[pos + 1])
  PROVE  Tracks(raw', pos + 1, stream', engine', labelled')
<1> DEFINE t == raw'
           m == t[pos + 1]
           rs == Regress(stream, m.ts)
           s2 == Remember(rs, m)
           tag == FeatureId(rs)
           r == IngestWithTag(engine, m, tag)
           i == Ingest(m)
           b == [engine |-> BareEngine(engine), rows |-> Bared(labelled)]
<1>1. m \in Tick /\ t \in Seq(Tick) /\ m.off = pos + 1 /\ \A k \in 1 .. pos : t[k] \in Tick
  <2>1. t \in Seq(Tick) BY DEF Topic
  <2>2. pos + 1 \in 1 .. Len(t) BY <2>1
  <2> QED BY <2>1, <2>2 DEF Topic
<1> HIDE DEF t
<1>2. /\ pos < Len(t) /\ Quiet(t, pos + 1)
      /\ EngineTrue(t, pos, stream, engine)
      /\ Tracks(t, pos, stream, engine, labelled)
      /\ HandleMessage(m)
  BY DEF t
<1>3. Sightings(t, pos, stream) /\ Built(Fed(t, pos), b)
  BY <1>2 DEF Tracks
<1>4. stream.recent \in Seq(Key) /\ Len(stream.recent) \in Nat
  <2>1. stream.recent \in Seq(Key) BY DEF StreamTyped
  <2> QED BY <2>1
<1>5. ASSUME ~FirstSeen(t, pos + 1), engine' = engine, labelled' = labelled,
             stream'.recent = stream.recent, stream'.lastTs \in {stream.lastTs, m.ts}
      PROVE  Tracks(t, pos + 1, stream', engine', labelled')
  <2>1. Sightings(t, pos + 1, stream')
    <3> DEFINE now == stream'
    <3>1. now.recent = stream.recent /\ now.lastTs \in {stream.lastTs, t[pos + 1].ts}
      BY <1>5
    <3> HIDE DEF now
    <3>2. Sightings(t, pos + 1, now)
      BY ONLY <1>3, <1>4, <1>5, <3>1, pos \in Nat, SightingsOn
    <3> QED BY <3>2 DEF now
  <2>2. Fed(t, pos + 1) = Fed(t, pos) BY <1>1, <1>2, <1>5, FedOn
  <2> QED BY <1>3, <1>5, <2>1, <2>2 DEF Tracks
<1>6. CASE m.kind = "junk"
  <2>1. UNCHANGED <<stream, engine, labelled>> BY <1>2, <1>6 DEF HandleMessage
  <2>2. ~FirstSeen(t, pos + 1) BY <1>6 DEF FirstSeen
  <2> HIDE DEF m
  <2> QED BY <1>5, <2>1, <2>2 DEF t
<1>7. CASE m.kind # "junk"
  <2>1. stream' = i.stream /\ engine' = i.engine /\ labelled' = labelled \o i.drained
    BY <1>2, <1>7 DEF HandleMessage
  <2>2. rs.recent = stream.recent /\ rs.lastTs = m.ts
    BY <1>1, <1>2, <1>3, RegressNot DEF Quiet
  <2>3. StreamTyped(rs) /\ rs.epoch \in Nat /\ rs.seq \in Nat
    <3>1. Stepped(stream, m, rs) BY <1>1, RegressOf
    <3> HIDE DEF rs
    <3> QED BY <3>1 DEF Stepped, StreamTyped
  <2>4. /\ s2.lastTs = m.ts
        /\ Shifted(stream.recent, TickDedupeKey(m), s2.recent)
    <3>1. /\ StreamTyped(s2) /\ s2.lastTs = rs.lastTs
          /\ Shifted(rs.recent, TickDedupeKey(m), s2.recent)
      BY <1>1, <2>3, RememberOf
    <3> HIDE DEF s2
    <3> QED BY <2>2, <3>1
  <2>5. i = IF TickDedupeKey(m) \in Range(rs.recent)
            THEN [stream |-> rs, engine |-> engine, rows |-> {}, drained |-> <<>>]
            ELSE IF r.raised
            THEN [stream |-> s2, engine |-> r.engine, rows |-> {}, drained |-> <<>>]
            ELSE [stream |-> [s2 EXCEPT !.seq = @ + 1], engine |-> r.engine,
                  rows |-> {Row("feature", tag, m.off, m.ts, {})},
                  drained |-> r.drained]
    BY DEF Ingest, IsRedelivery
  <2>6. TickDedupeKey(m) \in Range(stream.recent) <=> ~FirstSeen(t, pos + 1)
    BY <1>2, <1>3, <1>4, <1>7, SightedAgain
  <2>7. tag \in Tag
    <3>1. tag = <<boot, rs.epoch, rs.seq>> BY DEF FeatureId
    <3> HIDE DEF tag, rs
    <3> QED BY <2>3, <3>1 DEF Tag
  <2>8. Settled(r)
    <3> HIDE DEF tag
    <3>1. t[pos + 1] = m BY DEF m
    <3> HIDE DEF m
    <3> QED BY <1>1, <1>2, <1>7, <2>7, <3>1, IngestSettled
  <2>9. s2 \in [epoch : Nat, seq : Nat, lastTs : Nat \cup {-1}, recent : Seq(Key)]
    <3>1. StreamTyped(s2) BY <1>1, <2>3, RememberOf
    <3> HIDE DEF s2
    <3> QED BY <3>1 DEF StreamTyped
  <2>10. r = IngestWithTag(engine, t[pos + 1], tag)
    BY DEF r, m
  <2>11. m = t[pos + 1]
    OBVIOUS
  <2> HIDE DEF rs, s2, i, tag, r, m
  <2>12. CASE TickDedupeKey(m) \in Range(rs.recent)
    <3>1. i.stream = rs /\ i.engine = engine /\ i.drained = <<>> BY <2>5, <2>12
    <3>2. labelled' = labelled BY <2>1, <3>1
    <3>3. stream' = rs /\ engine' = engine BY <2>1, <3>1
    <3>4. ~FirstSeen(t, pos + 1) BY <2>2, <2>6, <2>12
    <3> QED BY <1>5, <2>2, <3>2, <3>3, <3>4 DEF t
  <2>13. CASE TickDedupeKey(m) \notin Range(rs.recent)
    <3>1. FirstSeen(t, pos + 1) BY <2>2, <2>6, <2>13
    <3>2. i.engine = r.engine /\ i.drained = r.drained
          /\ i.stream.recent = s2.recent /\ i.stream.lastTs = s2.lastTs
      <4>1. CASE r.raised
        <5>1. i = [stream |-> s2, engine |-> r.engine, rows |-> {}, drained |-> <<>>]
          BY <2>5, <2>13, <4>1
        <5>2. r.drained = <<>> BY <2>8, <4>1 DEF Settled
        <5> QED BY <5>1, <5>2
      <4>2. CASE ~r.raised
        <5> DEFINE s3 == [s2 EXCEPT !.seq = @ + 1]
        <5>1. i = [stream |-> s3, engine |-> r.engine,
                   rows |-> {Row("feature", tag, m.off, m.ts, {})}, drained |-> r.drained]
          BY <2>5, <2>13, <4>2
        <5>2. s3.recent = s2.recent /\ s3.lastTs = s2.lastTs BY <2>9
        <5> HIDE DEF s3
        <5> QED BY <5>1, <5>2
      <4> QED BY <4>1, <4>2
    <3>3. Built(Fed(t, pos + 1),
                [engine |-> BareEngine(r.engine), rows |-> Bared(labelled \o r.drained)])
      BY <1>1, <1>2, <2>7, <2>8, <2>10, <3>1, TracksBuilt
    <3>4. Sightings(t, pos + 1, i.stream)
      <4> DEFINE now == i.stream
      <4>1. /\ Shifted(stream.recent, TickDedupeKey(t[pos + 1]), now.recent)
            /\ now.lastTs = t[pos + 1].ts
        BY <2>4, <2>11, <3>2
      <4> HIDE DEF now
      <4>2. Sightings(t, pos + 1, now)
        BY ONLY <1>3, <1>4, <4>1, pos \in Nat, SightingsMore
      <4> QED BY <4>2 DEF now
    <3> QED BY <2>1, <3>2, <3>3, <3>4 DEF Tracks, t
  <2> QED BY <2>12, <2>13
<1> HIDE DEF m
<1>8. Tracks(t, pos + 1, stream', engine', labelled')
  BY <1>6, <1>7 DEF t
<1> QED BY <1>8 DEF t

-----------------------------------------------------------------------------
(***************************************************************************)
(* The inductive invariant of the first session, as long as its topic is   *)
(* quiet: it tracks the builder while it runs, and when it has drained     *)
(* what was left it has the builder's output.                              *)
(***************************************************************************)
Finished(t, p, rows) ==
  \E b : /\ Built(Fed(t, p), b)
         /\ Bared(rows) = b.rows \o DrainRemaining(b.engine).drained

ParityIInv ==
  boot = 1 /\ Quiet(raw, pos) =>
    /\ mode = "running" => Tracks(raw, pos, stream, engine, labelled)
    /\ mode \in {"closing", "stopped"} => Finished(raw, pos, labelled)

LEMMA ParityInit == FeatInit => ParityIInv
<1> SUFFICES ASSUME FeatInit PROVE ParityIInv
  OBVIOUS
<1>1. pos = 0 /\ mode = "running" /\ stream = StreamInit /\ engine = FeatureEngineInit
      /\ labelled = <<>>
  BY DEF FeatInit
<1>2. Tracks(raw, pos, stream, engine, labelled)
  BY <1>1, TracksNone
<1> QED BY <1>1, <1>2 DEF ParityIInv

\* What the topic gains behind p is no business of the engine's.
LEMMA EngineSame ==
  ASSUME NEW t, NEW u, NEW p \in Nat, \A k \in 1 .. p : u[k] = t[k],
         NEW s, NEW e, EngineTrue(t, p, s, e)
  PROVE  EngineTrue(u, p, s, e)
<1> DEFINE q == e.prices
           w == e.pending
<1>1. PricesTrue(t, q, p) /\ PendingHeld(t, q, w, p)
  BY DEF EngineTrue
<1> HIDE DEF q, w
<1>2. PricesTrue(u, q, p)
  <2>1. \A i \in 1 .. Len(q) : q[i].off \in 1 .. p BY <1>1 DEF PricesTrue
  <2>2. \A i \in 1 .. Len(q) : u[q[i].off] = t[q[i].off] BY <2>1
  <2> QED BY <1>1, <2>2 DEF PricesTrue
<1>3. PendingHeld(u, q, w, p)
  BY <1>1 DEF PendingHeld
<1> QED BY <1>2, <1>3 DEF EngineTrue, q, w

LEMMA ParityPoll ==
  ASSUME FeatIInv, ParityIInv, Poll
  PROVE  ParityIInv'
<1>1. /\ Topic(raw) /\ Len(raw) \in Nat /\ pos \in 0 .. Len(raw) /\ pos \in Nat
      /\ boot \in Nat /\ StreamTyped(stream) /\ labelled \in Seq(Drained)
  <2>1. /\ Topic(raw) /\ pos \in 0 .. Len(raw) /\ boot \in 1 .. MaxBoots
        /\ StreamTyped(stream) /\ labelled \in Seq(Drained)
    BY DEF FeatIInv, FeatTyped
  <2>2. Len(raw) \in Nat
    <3>1. raw \in Seq(Tick) BY <2>1 DEF Topic
    <3> QED BY <3>1
  <2>3. boot \in Nat BY <2>1
  <2> QED BY <2>1, <2>2, <2>3
<1>2. mode = "running" /\ pos' = pos + 1 /\ mode' = mode /\ boot' = boot
  BY DEF Poll
<1>3. /\ \A k \in 1 .. pos : raw'[k] = raw[k]
      /\ HandleMessage(raw'[pos + 1])
  <2>1. CASE pos < Len(raw) /\ HandleMessage(raw[pos + 1]) /\ UNCHANGED raw
    BY <1>1, <2>1
  <2>2. CASE /\ pos = Len(raw)
             /\ \E m \in Messages : raw' = Append(raw, m) /\ HandleMessage(m)
    <3>1. PICK m \in Messages : raw' = Append(raw, m) /\ HandleMessage(m) BY <2>2
    <3>2. m \in Tick /\ m.off = pos + 1 BY <1>1, MessagesTyped
    <3>3. raw \in Seq(Tick) BY <1>1 DEF Topic
    <3>4. raw'[pos + 1] = m /\ \A k \in 1 .. pos : raw'[k] = raw[k]
      BY <1>1, <2>2, <3>1, <3>2, <3>3
    <3> QED BY <3>1, <3>4
  <2> QED BY <2>1, <2>2 DEF Poll
<1>4. FeatIInv'
  BY PollKeeps
<1>5. Topic(raw') /\ pos < Len(raw')
  <2>1. Topic(raw') /\ pos' \in 0 .. Len(raw') BY <1>4 DEF FeatIInv, FeatTyped
  <2>2. Len(raw') \in Nat
    <3>1. raw' \in Seq(Tick) BY <2>1 DEF Topic
    <3> QED BY <3>1
  <2> QED BY <1>1, <1>2, <2>1, <2>2
<1> SUFFICES ASSUME boot' = 1, Quiet(raw', pos')
             PROVE  Tracks(raw', pos', stream', engine', labelled')
  BY <1>2 DEF ParityIInv
<1> DEFINE now == raw'
<1>6. Quiet(now, pos + 1) /\ \A k \in 1 .. pos : now[k] = raw[k]
  BY <1>2, <1>3
<1>7. EngineTrue(now, pos, stream, engine) /\ Tracks(now, pos, stream, engine, labelled)
  <2> HIDE DEF now
  <2>1. Quiet(raw, pos) BY ONLY <1>1, <1>6, QuietBefore
  <2>2. Tracks(raw, pos, stream, engine, labelled) BY <1>2, <2>1 DEF ParityIInv
  <2>3. Tracks(now, pos, stream, engine, labelled)
    BY ONLY <1>1, <1>6, <2>2, TracksSame
  <2>4. EngineTrue(raw, pos, stream, engine) BY DEF FeatIInv
  <2>5. EngineTrue(now, pos, stream, engine)
    BY ONLY <1>1, <1>6, <2>4, EngineSame
  <2> QED BY <2>3, <2>5
<1>8. Tracks(raw', pos + 1, stream', engine', labelled')
  BY <1>1, <1>3, <1>5, <1>6, <1>7, TracksHandled
<1> QED BY <1>2, <1>8

LEMMA ParityShutdown ==
  ASSUME FeatIInv, ParityIInv, Shutdown
  PROVE  ParityIInv'
<1> DEFINE r == DrainRemaining(engine)
           q == engine.prices
           w == engine.pending
           b == [engine |-> BareEngine(engine), rows |-> Bared(labelled)]
<1>1. EngineTrue(raw, pos, stream, engine) /\ labelled \in Seq(Drained) /\ pos \in Nat
  <2>1. pos \in 0 .. Len(raw) BY DEF FeatIInv, FeatTyped
  <2>2. pos \in Nat BY <2>1
  <2> QED BY <2>2 DEF FeatIInv, FeatTyped
<1>2. /\ mode = "running" /\ labelled' = labelled \o r.drained
      /\ mode' \in {"down", "closing"}
      /\ UNCHANGED <<raw, pos, boot>>
  BY DEF Shutdown
<1> SUFFICES ASSUME boot = 1, Quiet(raw, pos) PROVE Finished(raw, pos, labelled')
  BY <1>2 DEF ParityIInv
<1>3. Built(Fed(raw, pos), b)
  BY <1>2 DEF ParityIInv, Tracks
<1>4. Settled(r)
  BY <1>1, RemainingSettled
<1>5. DrainRemaining(BareEngine(engine)) = BareResult(r)
  <2>1. q \in Seq(Priced) /\ w \in Seq(Waiting) /\ engine = [prices |-> q, pending |-> w]
    BY <1>1 DEF EngineTrue, PricesTrue, PendingHeld
  <2> HIDE DEF q, w
  <2> QED BY <2>1, RemainingBare
<1>6. Bared(labelled \o r.drained) = Bared(labelled) \o Bared(r.drained)
  <2> DEFINE d == r.drained
  <2>1. d \in Seq(Drained) BY <1>4 DEF Settled
  <2> HIDE DEF d
  <2>2. Bared(labelled \o d) = Bared(labelled) \o Bared(d) BY ONLY <1>1, <2>1, BaredConcat
  <2> QED BY <2>2 DEF d
<1>7. b.rows = Bared(labelled) /\ b.engine = BareEngine(engine)
  OBVIOUS
<1> HIDE DEF b, r
<1>8. DrainRemaining(b.engine).drained = Bared(r.drained)
  BY <1>5, <1>7 DEF BareResult
<1> QED BY <1>2, <1>3, <1>6, <1>7, <1>8 DEF Finished

LEMMA ParityNext ==
  ASSUME FeatIInv, ParityIInv, [FeatNext]_featVars
  PROVE  ParityIInv'
<1>1. CASE Poll
  BY <1>1, ParityPoll
<1>2. CASE Shutdown
  BY <1>2, ParityShutdown
<1>3. CASE Close
  <2>1. mode = "closing" /\ UNCHANGED <<raw, pos, boot, labelled>>
        /\ mode' \in {"stopped", "failed"}
    BY <1>3 DEF Close
  <2> QED BY <2>1 DEF ParityIInv
<1>4. CASE Crash
  <2>1. mode' = "down" BY <1>4 DEF Crash
  <2> QED BY <2>1 DEF ParityIInv
<1>5. CASE Start
  <2>1. boot' = boot + 1 BY <1>5 DEF Start
  <2>2. boot \in 1 .. MaxBoots BY DEF FeatIInv, FeatTyped
  <2>3. boot' # 1 BY <2>1, <2>2
  <2> QED BY <2>3 DEF ParityIInv
<1>6. CASE UNCHANGED featVars
  <2>1. UNCHANGED <<raw, pos, boot, mode, stream, engine, labelled>>
    BY <1>6 DEF featVars
  <2> QED BY <2>1 DEF ParityIInv
<1> QED
  BY <1>1, <1>2, <1>3, <1>4, <1>5, <1>6 DEF FeatNext

-----------------------------------------------------------------------------
\* The tags aside there is nothing Unlabelled takes away.
LEMMA UnlabelledBare ==
  ASSUME NEW rows \in Seq(Drained)
  PROVE  Unlabelled(rows) = Unlabelled(Bared(rows))
<1> DEFINE n == Len(rows)
<1>1. n \in Nat /\ DOMAIN rows = 1 .. n /\ \A i \in 1 .. n : rows[i] \in Drained
  OBVIOUS
<1>2. DOMAIN Bared(rows) = 1 .. n /\ \A i \in 1 .. n : Bared(rows)[i] = Bare(rows[i])
  BY BaredOf
<1> DEFINE b == Bared(rows)
<1> HIDE DEF n, b
<1>3. \A i \in 1 .. n : b[i].off = rows[i].off /\ b[i].vol = rows[i].vol
  <2> SUFFICES ASSUME NEW i \in 1 .. n
               PROVE  b[i].off = rows[i].off /\ b[i].vol = rows[i].vol
    OBVIOUS
  <2> DEFINE x == rows[i]
  <2>1. x \in Drained /\ b[i] = Bare(x) BY <1>1, <1>2 DEF b
  <2> HIDE DEF x
  <2>2. Bare(x).off = x.off /\ Bare(x).vol = x.vol BY <2>1 DEF Bare, Drained
  <2> QED BY <2>1, <2>2 DEF x
<1>4. Unlabelled(rows) = [i \in 1 .. n |-> [off |-> rows[i].off, vol |-> rows[i].vol]]
  BY <1>1 DEF Unlabelled
<1>5. Unlabelled(b) = [i \in 1 .. n |-> [off |-> b[i].off, vol |-> b[i].vol]]
  BY <1>2 DEF Unlabelled, b
<1>6. Unlabelled(rows) = Unlabelled(b)
  BY <1>3, <1>4, <1>5
<1> QED BY <1>6 DEF b

LEMMA FedTyped ==
  ASSUME NEW t \in Seq(Tick), NEW p \in Nat, p <= Len(t)
  PROVE  Fed(t, p) \in Seq(Tick)
<1>1. CASE p < Len(t)
  BY <1>1, FedOn
<1>2. CASE p = Len(t)
  <2> DEFINE x == [ts |-> 0, price |-> 0, kind |-> "ok", off |-> 0]
             u == Append(t, x)
  <2>1. x \in Tick BY DEF Tick, TickKinds
  <2>2. u \in Seq(Tick) /\ p < Len(u) /\ \A k \in 1 .. p : u[k] = t[k]
    <3> HIDE DEF x
    <3> QED BY <1>2, <2>1
  <2> HIDE DEF u
  <2>3. Fed(u, p) \in Seq(Tick) BY <2>2, FedOn
  <2>4. Fed(u, p) = Fed(t, p) BY <2>2, FedSame
  <2> QED BY <2>3, <2>4
<1> QED BY <1>1, <1>2

LEMMA ParityFollows == FeatIInv /\ ParityIInv => OfflineParity
<1> SUFFICES ASSUME FeatIInv, ParityIInv, mode = "stopped", boot = 1, InOrder, RepeatsNear
             PROVE  LET half == pos \div 2
                        files == <<SubSeq(raw, 1, half), SubSeq(raw, half + 1, pos)>>
                    IN  Unlabelled(labelled) = Unlabelled(OfflineRows(files))
  BY DEF OfflineParity
<1> DEFINE half == pos \div 2
           files == <<SubSeq(raw, 1, half), SubSeq(raw, half + 1, pos)>>
<1>1. Topic(raw) /\ pos \in 0 .. Len(raw) /\ labelled \in Seq(Drained)
  BY DEF FeatIInv, FeatTyped
<1>2. raw \in Seq(Tick) /\ pos \in Nat /\ pos <= Len(raw)
  <2>1. raw \in Seq(Tick) BY <1>1 DEF Topic
  <2> QED BY <1>1, <2>1
<1>3. Quiet(raw, pos)
  BY <1>1, <1>2, QuietOf
<1>4. PICK b : /\ Built(Fed(raw, pos), b)
               /\ Bared(labelled) = b.rows \o DrainRemaining(b.engine).drained
  BY <1>3 DEF ParityIInv, Finished
<1>5. Halved(raw, pos, half, files)
  <2>1. half \in Nat /\ half <= pos BY <1>2
  <2> HIDE DEF half
  <2> QED BY <1>2, <2>1, HalvedOf
<1> HIDE DEF files, half
<1>6. IterTicks(files) = Fed(raw, pos)
  BY <1>3, <1>5, IterTicksOf DEF Quiet
<1>7. Fed(raw, pos) \in Seq(Tick)
  BY <1>2, FedTyped
<1>8. OfflineRows(files) = Bared(labelled)
  BY <1>4, <1>6, <1>7, BuiltOf
<1>9. Unlabelled(labelled) = Unlabelled(Bared(labelled))
  BY <1>1, UnlabelledBare
<1>10. Unlabelled(labelled) = Unlabelled(OfflineRows(files))
  BY <1>8, <1>9
<1> QED BY <1>10 DEF files, half

(***************************************************************************)
(* Serving and training agree: replay.py, merging and deduplicating the    *)
(* two mirror files of a first session that stopped cleanly, labels the    *)
(* rows that the featurizer labelled live, whatever order the prices and   *)
(* refused ticks came in, when no tick was older than the one before it    *)
(* and none was repeated after more than a window of others.               *)
(***************************************************************************)
THEOREM ParityHolds == FeatSpec => []OfflineParity
<1>1. FeatInit => ParityIInv
  BY ParityInit
<1>2. FeatIInv /\ ParityIInv /\ [FeatNext]_featVars => ParityIInv'
  BY ParityNext
<1>3. FeatIInv /\ ParityIInv => OfflineParity
  BY ParityFollows
<1>4. FeatSpec => []FeatIInv
  BY FeatIInvHolds
<1> QED
  BY <1>1, <1>2, <1>3, <1>4, PTL DEF FeatSpec
=============================================================================
