------------------------------ MODULE TradePages ------------------------------
(***************************************************************************)
(* btcspiker_data/coinbase_trades.py, CoinbaseTradeClient.iter_day_trades: *)
(* the trades of one UTC day are read backwards, page by page, each page   *)
(* ending in the second of the oldest trade of the one before.             *)
(*                                                                         *)
(* Times are half-seconds counted from the start of the day, so that two   *)
(* trades of one second can differ.  `tape' is what the exchange has, and  *)
(* Page how it answers; the rate limit only delays and is left out.        *)
(***************************************************************************)
EXTENDS Integers, FiniteSets, SequencesExt

CONSTANTS
  DaySeconds,   \* length of the day
  PageLimit,    \* _PAGE_LIMIT
  Attempts,     \* requests for one page, the retries included
  MaxTape       \* bound: trades the exchange has

ASSUME PagesAssumption ==
  /\ DaySeconds \in Nat \ {0} /\ PageLimit \in Nat \ {0}
  /\ Attempts \in Nat \ {0} /\ MaxTape \in Nat

VARIABLES
  tape,       \* the times of the trades, oldest first; the index is the id
  covers,     \* does `end' include the trades of its whole second?
  pageEnd,    \* page_end
  seenIds,    \* seen
  barren,     \* pages_without_new_ids
  prevOldest, \* previous_oldest, or -1
  attempt,    \* failed requests for this page
  outcome,    \* "fetching", "complete" (last_completion is set), "raised"
  cuts        \* ghost: the oldest trade of each page

pagesVars == <<tape, covers, pageEnd, seenIds, barren, prevOldest, attempt,
               outcome, cuts>>

SecondOf(t) == t \div 2
Tapes == {s \in SeqOf(0 .. 2 * DaySeconds, MaxTape) :
            \A i \in 1 .. Len(s) - 1 : s[i] <= s[i + 1]}

PagesInit ==
  /\ tape \in Tapes /\ covers \in BOOLEAN
  /\ pageEnd = DaySeconds
  /\ seenIds = {} /\ barren = 0 /\ prevOldest = -1
  /\ attempt = 0 /\ outcome = "fetching" /\ cuts = {}
-----------------------------------------------------------------------------
(* The exchange: the newest trades up to `end', at most PageLimit.  Whether*)
(* an integer `end' means its first instant or its whole second is not     *)
(* something the code fixes.                                               *)
Upto(end) == {i \in DOMAIN tape : tape[i] <= 2 * end + (IF covers THEN 1 ELSE 0)}
Page(end) ==
  {i \in Upto(end) : Cardinality({j \in Upto(end) : j > i}) < PageLimit}

InWindow(page) == {i \in page : tape[i] < 2 * DaySeconds}
OldestOf(ids) == tape[CHOOSE i \in ids : \A j \in ids : i <= j]

\* A retryable status; the last attempt raises, as any other status does.
PageFails ==
  /\ outcome = "fetching"
  /\ attempt' = attempt + 1
  /\ outcome' = IF attempt' = Attempts THEN "raised" ELSE outcome
  /\ UNCHANGED <<tape, covers, pageEnd, seenIds, barren, prevOldest, cuts>>

ReachedStart(oldest, page) ==
  SecondOf(oldest) <= 0 /\ Cardinality(page) < PageLimit

\* Slip: the second of the oldest trade is skipped.
EarlierEnd(oldest) == SecondOf(oldest) - 1

NextEnd(oldest) == SecondOf(oldest)

\* A page: its new trades are kept, then the loop ends, gives up or moves on.
PageArrives ==
  LET page   == Page(pageEnd)
      within == InWindow(page)
      fresh  == within \ seenIds
      oldest == OldestOf(within)
      dry    == IF fresh = {} THEN barren + 1 ELSE 0
      Stuck  == \/ dry >= 2
                \/ within # {} /\ prevOldest # -1 /\ oldest >= prevOldest
  IN  /\ outcome = "fetching"
      /\ seenIds' = seenIds \cup fresh /\ barren' = dry /\ attempt' = 0
      /\ cuts' = IF within = {} THEN cuts ELSE cuts \cup {oldest}
      /\ UNCHANGED <<tape, covers>>
      /\ \/ /\ Stuck /\ outcome' = "raised"
            /\ UNCHANGED <<pageEnd, prevOldest>>
         \/ /\ ~Stuck /\ within = {}
            /\ UNCHANGED <<pageEnd, prevOldest, outcome>>
         \/ /\ ~Stuck /\ within # {} /\ ReachedStart(oldest, page)
            /\ outcome' = "complete"
            /\ UNCHANGED <<pageEnd, prevOldest>>
         \/ /\ ~Stuck /\ within # {} /\ ~ReachedStart(oldest, page)
            /\ prevOldest' = oldest /\ pageEnd' = NextEnd(oldest)
            /\ UNCHANGED outcome

PagesNext == PageFails \/ PageArrives
PagesSpec == PagesInit /\ [][PagesNext]_pagesVars
-----------------------------------------------------------------------------
PagesTypeOK ==
  /\ pageEnd \in -1 .. DaySeconds /\ barren \in 0 .. 2
  /\ seenIds \subseteq DOMAIN tape
  /\ outcome \in {"fetching", "complete", "raised"}

(***************************************************************************)
(* What a completed day may lack: if `end' covers its second, nothing;     *)
(* otherwise only trades that share a second with the oldest trade of a    *)
(* page and are not newer.   The completion is what lets a day qualify, so *)
(* this is what "trade pages complete" is worth.                           *)
(***************************************************************************)
OnlyCutsLost ==
  outcome = "complete" =>
    \A i \in InWindow(DOMAIN tape) \ seenIds :
      /\ ~covers
      /\ \E o \in cuts : SecondOf(o) = SecondOf(tape[i]) /\ tape[i] <= o

\* The invariant of the pagination.
PagesInv == PagesTypeOK /\ OnlyCutsLost
=============================================================================
