------------------------------- MODULE Polling -------------------------------
(***************************************************************************)
(* usePolling of the UI, on a page that shows one parameter (the window of *)
(* Performance, the range of the timeline): requests in flight, a timer, a *)
(* tab that is hidden and shown, and a page that is mounted anew when its  *)
(* parameter changes.  Answers come in any order, those of aborted         *)
(* requests too, for an answer may be there when the abort is.             *)
(***************************************************************************)
EXTENDS Integers, FiniteSets

CONSTANTS
  Params,     \* the parameters a page offers
  MaxSent,    \* bound: requests
  MaxSelects, \* bound: changes of the parameter
  MaxHides    \* bound: times the tab is hidden

ASSUME PollingAssumption ==
  /\ Params # {} /\ MaxSent \in Nat \ {0}
  /\ MaxSelects \in Nat /\ MaxHides \in Nat

VARIABLES
  visible,  \* document.visibilityState
  page,     \* the mounted page: parameter, generation, timer and what it shows
  flights,  \* requests: [mount, gen, param, order], order by sending
  sent, hides

pollVars == <<visible, page, flights, sent, hides>>

Nothing == [param |-> "none", order |-> 0]
Mounted(param, mount) ==
  [param |-> param, mount |-> mount, gen |-> 0, timer |-> FALSE,
   data |-> Nothing, failed |-> FALSE, loading |-> TRUE, refreshing |-> FALSE,
   paused |-> ~visible, latest |-> 0]  \* latest is a ghost: the newest shown

\* tick: what page becomes, and the request that leaves.
Ticked(from) == [from EXCEPT !.gen = @ + 1, !.timer = FALSE, !.refreshing = TRUE]
Leaves(from) ==
  [mount |-> from.mount, gen |-> from.gen + 1, param |-> from.param, order |-> sent + 1]
SendTick(from) ==
  /\ sent < MaxSent /\ sent' = sent + 1
  /\ page' = Ticked(from)
  /\ flights' = flights \cup {Leaves(from)}

PollingInit ==
  /\ visible \in BOOLEAN /\ hides = 0
  /\ \E param \in Params :
       IF visible
       THEN /\ page = Ticked(Mounted(param, 0))
            /\ flights = {[mount |-> 0, gen |-> 1, param |-> param, order |-> 1]}
            /\ sent = 1
       ELSE page = Mounted(param, 0) /\ flights = {} /\ sent = 0
-----------------------------------------------------------------------------
\* Slip: without its key the page stays, and only fetchFn is another.
SelectInPlace ==
  /\ visible /\ page.mount < MaxSelects
  /\ \E param \in Params \ {page.param} :
       page' = [page EXCEPT !.param = param, !.mount = @ + 1]
  /\ flights' = {[f EXCEPT !.mount = page.mount + 1] : f \in flights}
  /\ UNCHANGED <<visible, sent, hides>>

\* key={windowMinutes}: the page is unmounted, whose cleanup cancels what is in
\* flight, and another is mounted, which asks at once.
Select ==
  /\ visible /\ page.mount < MaxSelects
  /\ \E param \in Params \ {page.param} : SendTick(Mounted(param, page.mount + 1))
  /\ UNCHANGED <<visible, hides>>

TimerFires ==
  /\ page.timer /\ SendTick(page)
  /\ UNCHANGED <<visible, hides>>

\* handleVisibilityChange, both ways.
Hide ==
  /\ visible /\ hides < MaxHides /\ hides' = hides + 1
  /\ visible' = FALSE
  /\ page' = [page EXCEPT !.gen = @ + 1, !.timer = FALSE, !.paused = TRUE,
                          !.refreshing = FALSE]
  /\ UNCHANGED <<flights, sent>>

Show ==
  /\ ~visible /\ visible' = TRUE
  /\ SendTick([page EXCEPT !.paused = FALSE])
  /\ UNCHANGED hides

IsCurrent(f) == f.mount = page.mount /\ f.gen = page.gen
Lands(f) == f \in flights /\ flights' = flights \ {f} /\ UNCHANGED <<visible, sent, hides>>

\* The finally clause of a current request.
Settled(shown) ==
  [shown EXCEPT !.loading = FALSE, !.refreshing = FALSE, !.timer = visible]

AnswerComes(f) ==
  /\ Lands(f) /\ IsCurrent(f)
  /\ page' = Settled([page EXCEPT !.data = [param |-> f.param, order |-> f.order],
                                  !.failed = FALSE,
                                  !.latest = IF f.order > @ THEN f.order ELSE @])

\* An HTTP error, or the deadline of getJson.
RequestFails(f) ==
  /\ Lands(f) /\ IsCurrent(f)
  /\ page' = Settled([page EXCEPT !.failed = TRUE])

\* The answer, failure or AbortError of a request that is over.
Dropped(f) == Lands(f) /\ ~IsCurrent(f) /\ UNCHANGED page

PollingNext ==
  \/ Select \/ TimerFires \/ Hide \/ Show
  \/ \E f \in flights : AnswerComes(f) \/ RequestFails(f) \/ Dropped(f)

PollingSpec == PollingInit /\ [][PollingNext]_pollVars
-----------------------------------------------------------------------------
InFlight == {f \in flights : IsCurrent(f)}

(***************************************************************************)
(* What a page shows was asked for with the parameter it names, and is the *)
(* newest answer it has had: a slow one of before never replaces a later.  *)
(***************************************************************************)
ShownIsSelected ==
  page.data # Nothing => page.data.param = page.param /\ page.data.order = page.latest

(***************************************************************************)
(* A visible page has one request in flight or one timer that will send    *)
(* one, never both or neither, and a hidden page none: however the tab is  *)
(* hidden and shown, polling neither stops nor doubles, and the page says  *)
(* refreshing just while it is.                                            *)
(***************************************************************************)
OneChain ==
  /\ Cardinality(InFlight) + (IF page.timer THEN 1 ELSE 0) = IF visible THEN 1 ELSE 0
  /\ page.refreshing = (InFlight # {})
  /\ page.paused = ~visible
  /\ page.data = Nothing /\ ~page.failed => page.loading

PollingTypeOK == page.param \in Params /\ sent \in 0 .. MaxSent

\* The invariant of usePolling.
PollingInv == PollingTypeOK /\ ShownIsSelected /\ OneChain
=============================================================================
