------------------------------ MODULE PerfCache ------------------------------
(***************************************************************************)
(* materializer/materializer.py, GET /predictions/performance: handler     *)
(* threads share a cache of payloads, and a table of the computations in   *)
(* flight, both under _perf_cache_lock.  Every action is what a thread     *)
(* does between two points where it holds no lock.  A payload is           *)
(* abstracted to the moment its rows were read.                            *)
(***************************************************************************)
EXTENDS Integers, FiniteSets

CONSTANTS
  PerfThreads,   \* handler threads
  PerfWindows,   \* values of window_minutes that are asked for
  CacheAge,      \* PERF_CACHE_SECONDS
  MaxPerfClock,  \* bound: ticks of the monotonic clock
  MaxEvents      \* bound: computations

ASSUME PerfAssumption ==
  /\ CacheAge \in Nat \ {0}
  /\ MaxPerfClock \in Nat /\ MaxEvents \in Nat

VARIABLES
  perfClock,  \* time.monotonic
  perfCache,  \* _perf_cache: window -> when it was stored, when it was read
  inflight,   \* _perf_inflight: window -> the event of who computes it, or 0
  fired,      \* the events that are set
  perfEvent,  \* the last event that was made
  handler,    \* the local variables of each thread
  perfFaults  \* ghost: windows for which a computation failed or a wait ran out

perfVars == <<perfClock, perfCache, inflight, fired, perfEvent, handler,
              perfFaults>>

NothingCached == [at |-> -1, read |-> -1]

\* "reply" is the last answer: the payload's read time, or Refused for a 503.
Refused == -2
NoReply == -1
IdleHandler(w, reply, warm) ==
  [at |-> "idle", window |-> w, event |-> 0, read |-> -1,
   reply |-> reply, warm |-> warm]

PerfInit ==
  /\ perfClock = 0 /\ perfEvent = 0
  /\ perfCache = [w \in PerfWindows |-> NothingCached]
  /\ inflight = [w \in PerfWindows |-> 0]
  /\ fired = {} /\ perfFaults = {}
  /\ \E w \in PerfWindows :
       handler = [t \in PerfThreads |-> IdleHandler(w, NoReply, FALSE)]
-----------------------------------------------------------------------------
IsCached(w) == perfCache[w] # NothingCached
IsFresh(w) == IsCached(w) /\ perfClock - perfCache[w].at < CacheAge

\* The thread returns its answer; `warm' (a ghost) keeps whether a payload was
\* cached when it began to wait.
Reply(t, w, reply) ==
  handler' = [handler EXCEPT ![t] = IdleHandler(w, reply, @.warm)]

\* The first critical section, with a fresh payload in the cache.
Hit(t, w) ==
  /\ handler[t].at = "idle" /\ IsFresh(w)
  /\ Reply(t, w, perfCache[w].read)
  /\ UNCHANGED <<perfClock, perfCache, inflight, fired, perfEvent, perfFaults>>

\* ... nobody computes the window: this thread does, under a new event.
BecomeOwner(t, w) ==
  /\ handler[t].at = "idle" /\ ~IsFresh(w) /\ inflight[w] = 0
  /\ perfEvent < MaxEvents
  /\ perfEvent' = perfEvent + 1
  /\ inflight' = [inflight EXCEPT ![w] = perfEvent + 1]
  /\ handler' = [handler EXCEPT ![t] =
                   [@ EXCEPT !.at = "computing", !.window = w,
                             !.event = perfEvent + 1, !.warm = IsCached(w)]]
  /\ UNCHANGED <<perfClock, perfCache, fired, perfFaults>>

\* ... somebody does: this thread waits for the event.
BecomeWaiter(t, w) ==
  /\ handler[t].at = "idle" /\ ~IsFresh(w) /\ inflight[w] # 0
  /\ handler' = [handler EXCEPT ![t] =
                   [@ EXCEPT !.at = "waiting", !.window = w,
                             !.event = inflight[w], !.warm = IsCached(w)]]
  /\ UNCHANGED <<perfClock, perfCache, inflight, fired, perfEvent, perfFaults>>

\* Slip: the slot stays taken.
LeaveSlot(w) == UNCHANGED inflight

\* The `finally' clause: the slot is freed, then the waiters are woken.
FreeSlot(w) == inflight' = [inflight EXCEPT ![w] = 0]
\* Slip: nobody is woken.
NotWoken(e) == UNCHANGED fired

\* event.set()
Woken(e) == fired' = fired \cup {e}

\* _build_performance_payload has its rows.
Compute(t) ==
  /\ handler[t].at = "computing"
  /\ handler' = [handler EXCEPT ![t] =
                   [@ EXCEPT !.at = "computed", !.read = perfClock]]
  /\ UNCHANGED <<perfClock, perfCache, inflight, fired, perfEvent, perfFaults>>

\* The grading is done: `finally' runs, the payload is still the thread's own.
Release(t) ==
  LET h == handler[t]
  IN  /\ h.at = "computed"
      /\ FreeSlot(h.window) /\ Woken(h.event)
      /\ handler' = [handler EXCEPT ![t].at = "storing"]
      /\ UNCHANGED <<perfClock, perfCache, perfEvent, perfFaults>>

\* A database error, the read deadline's among them, or any other exception.
ComputeFails(t) ==
  LET h == handler[t]
  IN  /\ h.at \in {"computing", "computed"}
      /\ FreeSlot(h.window) /\ Woken(h.event)
      /\ perfFaults' = perfFaults \cup {h.window}
      /\ Reply(t, h.window, Refused)
      /\ UNCHANGED <<perfClock, perfCache, perfEvent>>

\* The last critical section of the owner.
StorePayload(t) ==
  LET h == handler[t]
  IN  /\ h.at = "storing"
      /\ perfCache' = [perfCache EXCEPT ![h.window] =
                         [at |-> perfClock, read |-> h.read]]
      /\ Reply(t, h.window, h.read)
      /\ UNCHANGED <<perfClock, inflight, fired, perfEvent, perfFaults>>

\* Slip: a waiter only takes a fresh payload.
FreshAnswer(w) == IF IsFresh(w) THEN perfCache[w].read ELSE Refused

\* A woken waiter takes whatever the cache holds, of any age.
WaiterAnswer(w) == IF IsCached(w) THEN perfCache[w].read ELSE Refused
WaiterReturns(t) ==
  LET h == handler[t]
  IN  /\ h.at = "waiting" /\ h.event \in fired
      /\ Reply(t, h.window, WaiterAnswer(h.window))
      /\ UNCHANGED <<perfClock, perfCache, inflight, fired, perfEvent,
                     perfFaults>>

\* The wait runs out: 503, whatever the cache holds.
WaitTimesOut(t) ==
  LET h == handler[t]
  IN  /\ h.at = "waiting" /\ h.event \notin fired
      /\ perfFaults' = perfFaults \cup {h.window}
      /\ Reply(t, h.window, Refused)
      /\ UNCHANGED <<perfClock, perfCache, inflight, fired, perfEvent>>

PerfTick ==
  /\ perfClock < MaxPerfClock
  /\ perfClock' = perfClock + 1
  /\ UNCHANGED <<perfCache, inflight, fired, perfEvent, handler, perfFaults>>

PerfNext ==
  \/ PerfTick
  \/ \E t \in PerfThreads :
       \/ Compute(t) \/ Release(t) \/ ComputeFails(t) \/ StorePayload(t)
       \/ WaiterReturns(t) \/ WaitTimesOut(t)
       \/ \E w \in PerfWindows :
            Hit(t, w) \/ BecomeOwner(t, w) \/ BecomeWaiter(t, w)

\* A thread that can go on does; it need not be asked for anything, and a
\* wait need not run out.
PerfFairness ==
  \A t \in PerfThreads :
    WF_perfVars(Compute(t) \/ Release(t) \/ StorePayload(t) \/ WaiterReturns(t))

PerfSpec == PerfInit /\ [][PerfNext]_perfVars /\ PerfFairness
-----------------------------------------------------------------------------
PerfTypeOK ==
  /\ perfClock \in 0 .. MaxPerfClock /\ perfEvent \in 0 .. MaxEvents
  /\ inflight \in [PerfWindows -> 0 .. MaxEvents]
  /\ fired \subseteq 1 .. perfEvent
  /\ \A t \in PerfThreads :
       handler[t].at \in {"idle", "computing", "computed", "storing", "waiting"}

Computing(w) ==
  {t \in PerfThreads : /\ handler[t].at \in {"computing", "computed"}
                       /\ handler[t].window = w}

(***************************************************************************)
(* At most one thread computes a window, and the slot is taken exactly     *)
(* while it does: no death of an owner leaves it taken.  (The cap the      *)
(* comment on _perf_inflight is about.)                                    *)
(***************************************************************************)
SingleFlight ==
  \A w \in PerfWindows :
    /\ Cardinality(Computing(w)) <= 1
    /\ inflight[w] = 0 <=> Computing(w) = {}
    /\ \A t \in Computing(w) : inflight[w] = handler[t].event

(***************************************************************************)
(* While no computation of a window fails and no wait runs out, only a     *)
(* request that came before its first payload was stored is refused.       *)
(***************************************************************************)
RefusalExplained ==
  \A t \in PerfThreads :
    LET h == handler[t]
    IN  h.reply = Refused /\ h.at = "idle" /\ h.window \notin perfFaults
          => ~h.warm

(***************************************************************************)
(* Every thread that waits is woken by its owner and answers, whether the  *)
(* computation succeeds or fails: no answer hangs on the wait's timeout.   *)
(***************************************************************************)
WaitersAnswered ==
  \A t \in PerfThreads : handler[t].at = "waiting" ~> handler[t].at # "waiting"
=============================================================================
