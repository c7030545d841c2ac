---------------------------- MODULE SystemStatus ----------------------------
(***************************************************************************)
(* api/system.py: GET /system/status probes every service from one pool of *)
(* workers, waits for the round with a limit, and caches the result.  The  *)
(* lock is held for the whole round, so requests that come meanwhile wait  *)
(* for it and find the round's result in the cache.                        *)
(***************************************************************************)
EXTENDS Integers, FiniteSets, Sequences, SequencesExt

CONSTANTS
  ServiceNames, \* SERVICE_NAMES
  Requests,     \* handler threads
  CacheSeconds, \* SYSTEM_STATUS_CACHE_SECONDS
  MaxStatusClock, \* bound: ticks of the clock
  MaxRounds,    \* bound: probe rounds
  Hangable      \* bound: the services that may hang

Services == ToSet(ServiceNames)
NoHolder == "none"

ASSUME StatusAssumption ==
  /\ ServiceNames \in Seq(Services) /\ ServiceNames # <<>>
  /\ IsInjective(ServiceNames)
  /\ NoHolder \notin Requests
  /\ CacheSeconds \in Nat \ {0}
  /\ MaxStatusClock \in Nat /\ MaxRounds \in Nat
  /\ Hangable \subseteq Services

\* _EXECUTOR: one worker for each service.
Workers == Cardinality(Services)

VARIABLES
  statusClock,
  hanging,     \* services whose probe does not come back
  running,     \* probes a worker is busy with: <<round, service>>
  backlog,     \* probes no worker has taken yet, a queue by Before
  round,       \* the rounds so far
  prompt,      \* services whose probe a worker took when it was submitted
  answered,    \* services whose probe of this round was done in time
  turn,        \* the place of the service that is listed next; 0: the round waits
  heldBy,      \* the request that holds _cache_lock, or NoHolder
  statusCache, \* _cache with _cache_ts, and what its round began with
  waiting,     \* requests that wait for the lock
  lastHung,    \* ghost: services that hung at some time of the round
  calm,        \* ghost: no service ever hung
  held         \* ghost: workers that were busy when the round began

hangVars == <<hanging, lastHung, calm>>
poolVars == <<running, backlog>>
roundVars == <<round, prompt, answered, turn, held>>
requestVars == <<heldBy, statusCache, waiting>>
statusVars == <<statusClock, hangVars, poolVars, roundVars, requestVars>>

NoStatus == [at |-> -1, missed |-> {}, held |-> 0]

StatusInit ==
  /\ statusClock = 0 /\ hanging = {}
  /\ running = {} /\ backlog = {}
  /\ round = 0 /\ prompt = {} /\ answered = {} /\ turn = 0
  /\ heldBy = NoHolder /\ statusCache = NoStatus /\ waiting = {}
  /\ lastHung = {} /\ calm = TRUE /\ held = 0
-----------------------------------------------------------------------------
StatusFresh ==
  statusCache # NoStatus /\ statusClock - statusCache.at < CacheSeconds

\* Probes are submitted round by round, and in the order of SERVICE_NAMES.
Place(name) == CHOOSE i \in DOMAIN ServiceNames : ServiceNames[i] = name
Before(p, q) ==
  p[1] < q[1] \/ (p[1] = q[1] /\ Place(p[2]) < Place(q[2]))

\* ThreadPoolExecutor: free workers take the oldest probes, as many as they are.
Take(run, queue) ==
  \E taken \in SUBSET queue :
    /\ \A p \in taken, q \in queue \ taken : Before(p, q)
    /\ Cardinality(run \cup taken) <= Workers
    /\ taken # queue => Cardinality(run \cup taken) = Workers
    /\ running' = run \cup taken /\ backlog' = queue \ taken

\* A request arrives, and waits for the lock.
AskStatus(r) ==
  /\ r \notin waiting /\ heldBy # r
  /\ waiting' = waiting \cup {r}
  /\ UNCHANGED <<statusClock, hangVars, poolVars, roundVars, heldBy, statusCache>>

\* It gets the lock and finds a fresh result.
CachedStatus(r) ==
  /\ r \in waiting /\ heldBy = NoHolder /\ StatusFresh
  /\ waiting' = waiting \ {r}
  /\ UNCHANGED <<statusClock, hangVars, poolVars, roundVars, heldBy, statusCache>>

\* ... or starts a round: one probe for each service, in their order.
StartRound(r) ==
  /\ r \in waiting /\ heldBy = NoHolder /\ ~StatusFresh
  /\ round < MaxRounds
  /\ heldBy' = r /\ waiting' = waiting \ {r}
  /\ round' = round + 1
  /\ Take(running, backlog \cup {<<round + 1, s>> : s \in Services})
  /\ prompt' = {s \in Services : <<round + 1, s>> \in running'}
  /\ held' = Cardinality(running)
  /\ answered' = {} /\ turn' = 0 /\ lastHung' = hanging
  /\ UNCHANGED <<statusClock, hanging, calm, statusCache>>

\* futures.wait still counts what is done.
Waits == heldBy # NoHolder /\ turn = 0

\* The probe of a service that responds, or fails, comes back; its worker
\* takes the next one.  Nobody looks at one that comes back after its wait.
ProbeDone(p) ==
  /\ p \in running /\ p[2] \notin hanging
  /\ answered' = IF p[1] = round /\ Waits THEN answered \cup {p[2]} ELSE answered
  /\ Take(running \ {p}, backlog)
  /\ UNCHANGED <<statusClock, hangVars, round, prompt, turn, held, requestVars>>

\* Slip: the limit of the round is the timeout of a probe.
LimitBare == TRUE

(***************************************************************************)
(* timeout * 1.25, from the submission on.  It outlasts the timeout of a   *)
(* probe: by then one that was taken at once is back, unless its service   *)
(* hung meanwhile.  One that had to wait for a worker may be in the queue, *)
(* still running or back.                                                  *)
(***************************************************************************)
LimitStretched == \A s \in prompt : <<round, s>> \in running => s \in lastHung

\* The wait is over: every probe of the round is done, or the limit passed.
WaitOver ==
  /\ Waits /\ LimitStretched
  /\ turn' = 1
  /\ UNCHANGED <<statusClock, hangVars, poolVars, round, prompt, answered, held,
                 requestVars>>

\* future.cancel() reaches only a probe that no worker has taken.
CancelQueued(queue, s) == queue \ {<<round, s>>}

\* One service after the other is listed; workers may take probes in between.
ListService ==
  /\ turn \in DOMAIN ServiceNames
  /\ backlog' = IF ServiceNames[turn] \in answered THEN backlog
                ELSE CancelQueued(backlog, ServiceNames[turn])
  /\ turn' = turn + 1
  /\ UNCHANGED <<statusClock, hangVars, running, round, prompt, answered, held,
                 requestVars>>

\* What it reports as timed out, but for services that hung meanwhile.
Missed == Services \ (answered \cup lastHung)

\* The list is whole: it is cached, and the lock released.
EndRound ==
  /\ turn = Len(ServiceNames) + 1
  /\ statusCache' = [at |-> statusClock, missed |-> Missed, held |-> held]
  /\ heldBy' = NoHolder
  /\ turn' = 0 /\ prompt' = {} /\ answered' = {} /\ lastHung' = {} /\ held' = 0
  /\ UNCHANGED <<statusClock, hanging, calm, poolVars, round, waiting>>

\* A service begins to hang (a body that trickles past the timeout of each
\* read), or comes back.
Hang(s) ==
  /\ s \in Hangable
  /\ hanging' = (hanging \ {s}) \cup ({s} \ hanging)
  /\ lastHung' = IF heldBy = NoHolder THEN {} ELSE lastHung \cup hanging'
  /\ calm' = FALSE
  /\ UNCHANGED <<statusClock, poolVars, roundVars, requestVars>>

StatusTick ==
  /\ statusClock < MaxStatusClock /\ heldBy = NoHolder
  /\ statusClock' = statusClock + 1
  /\ UNCHANGED <<hangVars, poolVars, roundVars, requestVars>>

StatusNext ==
  \/ WaitOver \/ ListService \/ EndRound \/ StatusTick
  \/ \E p \in running : ProbeDone(p)
  \/ \E r \in Requests : AskStatus(r) \/ CachedStatus(r) \/ StartRound(r)
  \/ \E s \in Services : Hang(s)

StatusSpec == StatusInit /\ [][StatusNext]_statusVars
-----------------------------------------------------------------------------
StatusTypeOK ==
  /\ running \subseteq (1 .. MaxRounds) \X Services
  /\ Cardinality(running) <= Workers
  /\ answered \subseteq Services /\ hanging \subseteq Services
  /\ turn \in 0 .. Len(ServiceNames) + 1 /\ heldBy \in Requests \cup {NoHolder}

(***************************************************************************)
(* How far "the other services are unaffected" goes.  A service that is    *)
(* reported as timed out without having hung during the round is one of    *)
(* the last of the list, as many as workers were busy with probes of       *)
(* earlier rounds when the round began; and some service hung before.      *)
(***************************************************************************)
HealthyReported ==
  /\ \A s \in statusCache.missed : Place(s) > Workers - statusCache.held
  /\ statusCache.missed # {} => ~calm

(***************************************************************************)
(* Between rounds nothing is queued: what piles up while services hang is  *)
(* at most one pool of probes.                                             *)
(***************************************************************************)
PoolDrained == heldBy = NoHolder => backlog = {}

\* The invariant of the probe rounds.
StatusInv == StatusTypeOK /\ HealthyReported /\ PoolDrained
=============================================================================
