-------------------------------- MODULE Book --------------------------------
(***************************************************************************)
(* The order book of one day: btcspiker_data/book_replay.py rebuilds the   *)
(* state of every second from anchors (snapshots) and deltas around the    *)
(* gaps of the source, materialize.py joins each trade to the state that   *)
(* was known before its second began, quality.py audits the result.        *)
(*                                                                         *)
(* Prices, quantities and sequence numbers are left out: what a second's   *)
(* anchor and deltas do to the book is to keep it, or to end the replay.   *)
(***************************************************************************)
EXTENDS Masks, SequencesExt

CONSTANTS
  DayStart,    \* first second of the day: an anchor may be older
  LastSecond,  \* day_end
  MaxGaps      \* bound: gap windows in the metadata

ASSUME BookAssumption ==
  DayStart \in Nat /\ LastSecond \in Nat /\ DayStart <= LastSecond /\ MaxGaps \in Nat

BookSeconds == 0 .. LastSecond
Windows == {w \in BookSeconds \X (0 .. LastSecond + 1) : w[1] <= w[2]}

VARIABLES
  firstAnchor, \* the second of initial_anchor, the last one up to DayStart
  gaps,        \* <<window_start, window_end>> of the gap metadata
  clock,       \* second
  live,        \* current is not None
  segment,
  needsNew,    \* needs_new_segment
  states,      \* what replay_day has yielded
  bookPc       \* "replaying", "done", "raised"

bookVars == <<firstAnchor, gaps, clock, live, segment, needsNew, states, bookPc>>

BookInit ==
  /\ firstAnchor \in 0 .. DayStart
  /\ \E f \in [1 .. MaxGaps -> Windows] : gaps = {f[i] : i \in 1 .. MaxGaps}
  /\ clock = firstAnchor
  /\ live = FALSE /\ segment = 0 /\ needsNew = FALSE
  /\ states = <<>> /\ bookPc = "replaying"
-----------------------------------------------------------------------------
InGap(s) == \E w \in gaps : w[1] <= s /\ s < w[2]

Advance ==
  /\ clock' = clock + 1
  /\ bookPc' = IF clock = LastSecond THEN "done" ELSE bookPc

\* The source has a later anchor in any second after the day's first.
MayAnchor == clock = firstAnchor \/ clock > DayStart
MustAnchor == clock = firstAnchor

\* Slip: the segment goes on after a gap.
GapSecondKept ==
  /\ bookPc = "replaying" /\ InGap(clock)
  /\ live' = FALSE
  /\ Advance
  /\ UNCHANGED <<firstAnchor, gaps, segment, needsNew, states>>

\* A second inside a gap: what was known of the book is dropped, and its
\* anchor and deltas are passed over.
GapSecond ==
  /\ bookPc = "replaying" /\ InGap(clock)
  /\ live' = FALSE /\ needsNew' = TRUE
  /\ Advance
  /\ UNCHANGED <<firstAnchor, gaps, segment, states>>

\* Any other second: an anchor replaces the book, and the deltas change it if
\* there is one; what the second ends with is yielded when the day has begun.
BookSecond(anchored) ==
  LET now == live \/ anchored
      in  == IF anchored /\ needsNew THEN segment + 1 ELSE segment
  IN  /\ bookPc = "replaying" /\ ~InGap(clock)
      /\ anchored => MayAnchor
      /\ MustAnchor => anchored
      /\ live' = now /\ segment' = in
      /\ needsNew' = (needsNew /\ ~anchored)
      /\ states' = IF clock >= DayStart /\ now
                   THEN Append(states, [at |-> clock, segment |-> in])
                   ELSE states
      /\ Advance
      /\ UNCHANGED <<firstAnchor, gaps>>

\* A delta that regresses in sequence, crosses the book or contradicts the
\* best prices ends the replay.  Without a book deltas are not looked at.
BookRaises ==
  /\ bookPc = "replaying" /\ ~InGap(clock)
  /\ live \/ MayAnchor
  /\ bookPc' = "raised"
  /\ UNCHANGED <<firstAnchor, gaps, clock, live, segment, needsNew, states>>

BookNext ==
  \/ GapSecond \/ BookRaises
  \/ \E anchored \in BOOLEAN : BookSecond(anchored)
BookSpec == BookInit /\ [][BookNext]_bookVars
-----------------------------------------------------------------------------
(* join_trades_to_books: a trade, at a half-second, finds the state whose  *)
(* second ended when its own began; a trade without one is dropped.        *)
Yielded == ToSet(states)
TradeTimes == 2 * DayStart .. 2 * LastSecond + 1
Joins(t) == {s \in Yielded : s.at + 1 = t \div 2}

(* audit_dataset.  Intervals are pairs of seconds, the end excluded; an    *)
(* empty window is malformed evidence and fails the day by itself.         *)
AuditedGaps == {w \in gaps : w[1] < w[2]}
CrossesGap(s, t) == \E w \in AuditedGaps : s.at < w[2] /\ 2 * w[1] < t

Starts == {s \in Yielded :
             ~\E p \in Yielded : p.segment = s.segment /\ p.at + 1 = s.at}
EndOf(s) == 1 + CHOOSE e \in BookSeconds :
  /\ e >= s.at
  /\ \A x \in s.at .. e : [at |-> x, segment |-> s.segment] \in Yielded
  /\ [at |-> e + 1, segment |-> s.segment] \notin Yielded

\* _state_intervals: a run of consecutive states of one segment.
StateIntervals == {<<s.at, EndOf(s)>> : s \in Starts}

\* sorted(intervals): by start, then by end.
ByStart(S) ==
  LET before(v, w) == v[1] < w[1] \/ (v[1] = w[1] /\ v[2] < w[2])
  IN  [k \in 1 .. Cardinality(S) |->
         CHOOSE w \in S : Cardinality({v \in S : before(v, w)}) = k - 1]

Sooner(x, y) == IF x < y THEN x ELSE y
Later(x, y) == IF x > y THEN x ELSE y

\* _union, one interval: it extends the last one if that reaches it.
MergeIn(merged, w) ==
  IF merged # <<>> /\ w[1] <= merged[Len(merged)][2]
  THEN [merged EXCEPT ![Len(merged)] = <<@[1], Later(@[2], w[2])>>]
  ELSE Append(merged, w)

Union(S) ==
  LET list == ByStart(S)
      merged[i \in 0 .. Cardinality(S)] ==
        IF i = 0 THEN <<>> ELSE MergeIn(merged[i - 1], list[i])
  IN  merged[Cardinality(S)]

\* _subtract, one cut: what is left of each interval before and after it.
CutOut(base, cut) ==
  LET before == {<<w[1], Sooner(w[2], cut[1])>> : w \in base}
      after == {<<Later(w[1], cut[2]), w[2]>> : w \in base}
  IN  {w \in before \cup after : w[1] < w[2]}

Subtract(base, cuts) ==
  LET list == Union(cuts)
      left[i \in 0 .. Len(list)] ==
        IF i = 0 THEN base ELSE CutOut(left[i - 1], list[i])
  IN  left[Len(list)]

\* _seconds
SecondsIn(S) ==
  LET list == ByStart(S)
  IN  Total([k \in 1 .. Cardinality(S) |-> list[k][2] - list[k][1]])

\* The seconds of the day that qualify.
Qualified == SecondsIn(Subtract(ToSet(Union(StateIntervals)), AuditedGaps))
-----------------------------------------------------------------------------
BookTypeOK ==
  /\ clock \in 0 .. LastSecond + 1 /\ segment \in 0 .. LastSecond + 1
  /\ bookPc \in {"replaying", "done", "raised"}
  /\ \A s \in Yielded : s.at \in DayStart .. LastSecond

(***************************************************************************)
(* No segment spans a gap: features and labels are made per segment, so a  *)
(* label never looks across one.                                           *)
(***************************************************************************)
SegmentsUnbroken ==
  \A s, u \in Yielded :
    s.segment = u.segment => ~\E x \in s.at .. u.at : InGap(x)

(***************************************************************************)
(* The join attaches a trade to a state across a gap, as the audit judges  *)
(* it, only if the trade falls in the very second in which the gap begins. *)
(* (Such a trade does fail the day.)                                       *)
(***************************************************************************)
CrossingsAtGapStart ==
  bookPc = "done" =>
    \A t \in TradeTimes : \A s \in Joins(t) :
      CrossesGap(s, t) => \E w \in AuditedGaps : w[1] = t \div 2

(***************************************************************************)
(* The interval arithmetic of the audit counts each second that has a      *)
(* state once, and none twice or inside a gap, however windows overlap.    *)
(***************************************************************************)
QualifiedExact ==
  /\ bookPc = "done" =>
       Qualified = Cardinality({s.at : s \in Yielded} \
                               {x \in BookSeconds : InGap(x)})
  /\ bookPc = "done" =>
       SecondsIn(Subtract({<<0, LastSecond + 1>>}, AuditedGaps))
         = Cardinality({x \in BookSeconds : ~InGap(x)})

\* The invariant of the replay, the join and the audit.
BookInv == BookTypeOK /\ SegmentsUnbroken /\ CrossingsAtGapStart /\ QualifiedExact
=============================================================================
