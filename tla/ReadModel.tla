----------------------------- MODULE ReadModel -----------------------------
(***************************************************************************)
(* materializer/materializer.py: two consumer threads project the Kafka    *)
(* topics ticks.predictions and ticks.outcomes into two tables of one      *)
(* SQLite file.  Each thread reads a batch, inserts it with INSERT OR      *)
(* IGNORE, prunes its table, and only then commits the offsets.  A thread  *)
(* that finds the projection missing or rebuilt rewinds its partitions.    *)
(*                                                                         *)
(* A topic is given by its whole content, the constant Log: a message that *)
(* has not been produced yet is one the consumer has not polled yet.  Rows *)
(* are their primary keys; Rank is their place in the ORDER BY that prunes.*)
(* A file is an inode: deleting the path leaves open connections behind.   *)
(***************************************************************************)
EXTENDS Integers, Sequences, FiniteSets

CONSTANTS
  Partitions,   \* partitions of each topic
  Keys,         \* primary keys: event_id of predictions, feature_id of outcomes
  Malformed,    \* a message parse_event or parse_outcome_event rejects
  Log,          \* Log[s][p]: the messages of partition p of the topic of s
  Rank,         \* Rank[k]: place of row k in NEWEST_ORDER_SQL, newest highest
  BatchMax,     \* BATCH_MAX_SIZE
  PruneEvery,   \* PRUNE_EVERY_N_INSERTS
  KeepRows,     \* PRUNE_KEEP_ROWS
  Active,       \* the consumers this instance ever starts
  FaultKinds,   \* the faults this instance admits
  MaxFaults,    \* bound on the number of faults
  MaxFiles      \* bound on the number of files ever created

Pred == "predictions"
Out == "outcomes"
Streams == {Pred, Out}
Files == 1..MaxFiles
NoFile == 0
Kinds == {"stop", "thread", "ddl", "delete", "damage", "write", "commit",
          "rebalance", "evict"}

ASSUME KeysAssumption ==
  /\ IsFiniteSet(Keys)
  /\ Malformed \notin Keys
  /\ Rank \in [Keys -> Nat]
ASSUME LogAssumption ==
  Log \in [Streams -> [Partitions -> Seq(Keys \cup {Malformed})]]
ASSUME LimitsAssumption ==
  /\ BatchMax \in Nat \ {0}
  /\ PruneEvery \in Nat \ {0}
  /\ KeepRows \in Nat \ {0}
ASSUME BoundsAssumption ==
  /\ Active \subseteq Streams
  /\ FaultKinds \subseteq Kinds
  /\ MaxFaults \in Nat
  /\ MaxFiles \in Nat \ {0}

VARIABLES
  path,         \* the file at PREDICTIONS_DB_PATH, or NoFile
  created,      \* number of files created so far
  tables,       \* tables[f]: the tables file f has
  rows,         \* rows[f][s]: the keys in the table of s in file f
  health,       \* health[f]: what integrity_check finds
  lost,         \* history: some file was deleted or damaged
  committed,    \* committed[s][p]: the group's offset; none is 0, for the
                \* consumers start a new group at the earliest message
  pc,           \* pc[s]: where the consumer thread of s is
  booted,       \* lifespan saw the predictions consumer ready
  conn,         \* conn[s]: the file the thread's connection is open on
  replay,       \* replay[s]: replay_from_beginning
  joined,       \* joined[s]: the consumer is a member of its group
  pos,          \* pos[s][p]: next offset the consumer will poll
  batch,        \* batch[s]: <<partition, offset>> pairs polled, uncommitted
  recovered,    \* recovered[s]: committed_recovery_partitions
  sincePrune,   \* sincePrune[s]: inserted_since_prune
  faults        \* number of faults so far

disk == <<path, created, tables, rows, health>>
session == <<conn, replay, joined, pos, batch, recovered, sincePrune>>
vars == <<disk, lost, committed, pc, booted, session, faults>>

-----------------------------------------------------------------------------
Offsets(s, p) == 0..(Len(Log[s][p]) - 1)
Message(s, p, o) == Log[s][p][o + 1]

\* The consumer is in the body of its while loop.
Attached(s) == pc[s] \in {"polling", "writing", "committing"}

\* The keys the pending batch inserts; malformed messages are skipped.
Events(s) == {Message(s, m[1], m[2]) : m \in batch[s]} \ {Malformed}

BatchPartitions(s) == {m[1] : m \in batch[s]}

\* Slip: one newest offset for the whole batch, whatever the partition.
OffsetsAfterNewest(s, next) ==
  \A p \in Partitions :
    IF p \in BatchPartitions(s)
    THEN /\ \E m \in batch[s] : next[p] = m[2] + 1
         /\ \A m \in batch[s] : m[2] < next[p]
    ELSE next[p] = committed[s][p]

\* _offsets_after: next is one past the newest polled offset of every
\* partition the batch represents, and what it was for the others.
OffsetsAfter(s, next) ==
  \A p \in Partitions :
    IF p \in BatchPartitions(s)
    THEN /\ \E m \in batch[s] : m[1] = p /\ next[p] = m[2] + 1
         /\ \A m \in batch[s] : m[1] = p => m[2] < next[p]
    ELSE next[p] = committed[s][p]

AllOffsets == UNION {0..Len(Log[s][p]) : s \in Streams, p \in Partitions}

\* Slip: the DELETE keeps the oldest rows.
Oldest(table) ==
  {kept \in SUBSET table :
     /\ Cardinality(kept) =
          (IF Cardinality(table) < KeepRows THEN Cardinality(table) ELSE KeepRows)
     /\ \A k \in kept, d \in table \ kept : Rank[k] <= Rank[d]}

\* The sets of rows the DELETE of maybe_prune may keep: LIMIT rows of the
\* newest-first order, which leaves the choice among equal rows open.
Newest(table) ==
  {kept \in SUBSET table :
     /\ Cardinality(kept) =
          (IF Cardinality(table) < KeepRows THEN Cardinality(table) ELSE KeepRows)
     /\ \A k \in kept, d \in table \ kept : Rank[k] >= Rank[d]}

Fault(kind) ==
  /\ kind \in FaultKinds
  /\ faults < MaxFaults
  /\ faults' = faults + 1

-----------------------------------------------------------------------------
Idle == [s \in Streams |-> [p \in Partitions |-> 0]]

Init ==
  /\ path = NoFile
  /\ created = 0
  /\ tables = [f \in Files |-> {}]
  /\ rows = [f \in Files |-> [s \in Streams |-> {}]]
  /\ health = [f \in Files |-> "ok"]
  /\ lost = FALSE
  /\ committed = Idle
  /\ pc = [s \in Streams |-> "off"]
  /\ booted = FALSE
  /\ conn = [s \in Streams |-> NoFile]
  /\ replay = [s \in Streams |-> FALSE]
  /\ joined = [s \in Streams |-> FALSE]
  /\ pos = Idle
  /\ batch = [s \in Streams |-> {}]
  /\ recovered = [s \in Streams |-> {}]
  /\ sincePrune = [s \in Streams |-> 0]
  /\ faults = 0

-----------------------------------------------------------------------------
\* lifespan: reset the state, start a supervisor thread per consumer.
Start ==
  /\ \A s \in Streams : pc[s] = "off"
  /\ pc' = [s \in Streams |-> IF s \in Active THEN "start" ELSE "off"]
  /\ booted' = FALSE
  /\ UNCHANGED <<disk, lost, committed, session, faults>>

\* _outcomes_table_missing, on a connection of its own and outside the lock.
\* sqlite_master of a damaged file still reads; an unreadable one raises.
CheckOutcomesTable ==
  /\ pc[Out] = "start"
  /\ replay' = [replay EXCEPT ![Out] =
       \/ path = NoFile
       \/ health[path] = "unreadable"
       \/ Out \notin tables[path]]
  /\ pc' = [pc EXCEPT ![Out] = "checked"]
  /\ UNCHANGED <<disk, lost, committed, booted, conn, joined, pos, batch,
                 recovered, sincePrune, faults>>

ReadyToOpen(s) == pc[s] = IF s = Pred THEN "start" ELSE "checked"

\* A missing path is created; a file that fails its check is deleted first.
Usable == path # NoFile /\ health[path] = "ok"
OpenedFile == IF Usable THEN path ELSE created + 1

\* The DDL of _init_db_with_recovery_status, up to the tables in done.
Create(done) ==
  /\ OpenedFile \in Files
  /\ path' = OpenedFile
  /\ created' = IF Usable THEN created ELSE OpenedFile
  /\ tables' = [tables EXCEPT ![OpenedFile] = @ \cup done]
  /\ UNCHANGED <<rows, health>>

\* _init_db_with_recovery_status, all of it under _db_init_lock.  Only the
\* predictions consumer keeps the flag it returns; the outcomes consumer
\* keeps what CheckOutcomesTable read.
OpenDb(s) ==
  /\ ReadyToOpen(s)
  /\ Create(Streams)
  /\ replay' = [replay EXCEPT ![s] =
       IF s = Pred THEN ~(Usable /\ Pred \in tables[path]) ELSE @]
  /\ conn' = [conn EXCEPT ![s] = OpenedFile]
  /\ pc' = [pc EXCEPT ![s] = "opened"]
  /\ UNCHANGED <<lost, committed, booted, joined, pos, batch, recovered,
                 sincePrune, faults>>

\* One attempt of _init_db_with_retry raises.  A CREATE TABLE commits by
\* itself, so the tables created before the error stay; a file found bad
\* may be gone already.  The next attempt starts from what is left.
OpenAttemptFails(s) ==
  /\ ReadyToOpen(s)
  /\ Fault("ddl")
  /\ \/ \E done \in {{}, {Pred}, Streams} : Create(done)
     \/ /\ path # NoFile /\ ~Usable
        /\ path' = NoFile
        /\ UNCHANGED <<created, tables, rows, health>>
  /\ UNCHANGED <<lost, committed, pc, booted, session>>

\* Slip: every assignment starts at the committed offset.
StartsCommitted(s, p) == committed[s][p]

\* on_assign: a partition starts at the committed offset, or at the beginning
\* while a replay has not committed it yet.
StartsAt(s, p) ==
  IF replay[s] /\ p \notin recovered[s] THEN 0 ELSE committed[s][p]

\* _subscribe_for_projection, _wait_for_kafka and the first assignment.
Attach(s) ==
  /\ pc[s] = "opened"
  /\ pos' = [pos EXCEPT ![s] = [p \in Partitions |-> StartsAt(s, p)]]
  /\ joined' = [joined EXCEPT ![s] = TRUE]
  /\ pc' = [pc EXCEPT ![s] = "polling"]
  /\ booted' = (booted \/ s = Pred)
  /\ UNCHANGED <<disk, lost, committed, conn, replay, batch, recovered,
                 sincePrune, faults>>

-----------------------------------------------------------------------------
\* consumer.poll returns the next message of partition p.
Poll(s, p) ==
  /\ pc[s] = "polling" /\ joined[s]
  /\ Cardinality(batch[s]) < BatchMax
  /\ pos[s][p] < Len(Log[s][p])
  /\ batch' = [batch EXCEPT ![s] = @ \cup {<<p, pos[s][p]>>}]
  /\ pos' = [pos EXCEPT ![s][p] = @ + 1]
  /\ UNCHANGED <<disk, lost, committed, pc, booted, conn, replay, joined,
                 recovered, sincePrune, faults>>

\* The batch is full or its window over: it becomes pending_batch.
CloseBatch(s) ==
  /\ pc[s] = "polling"
  /\ batch[s] # {}
  /\ pc' = [pc EXCEPT ![s] = "writing"]
  /\ UNCHANGED <<disk, lost, committed, booted, session, faults>>

Table(s) == rows[conn[s]][s]
TableAfter(s) == Table(s) \cup Events(s)

\* Slip: only the rows of this batch count.
InsertedNow(s) == Cardinality(Events(s) \ Table(s))
InsertedSince(s) == sincePrune[s] + Cardinality(Events(s) \ Table(s))

\* insert_events / insert_outcomes, then maybe_prune / maybe_prune_outcomes.
Persist(s) ==
  /\ pc[s] = "writing"
  /\ IF InsertedSince(s) < PruneEvery
     THEN /\ rows' = [rows EXCEPT ![conn[s]][s] = TableAfter(s)]
          /\ sincePrune' = [sincePrune EXCEPT ![s] = InsertedSince(s)]
     ELSE /\ \E kept \in Newest(TableAfter(s)) :
               rows' = [rows EXCEPT ![conn[s]][s] = kept]
          /\ sincePrune' = [sincePrune EXCEPT ![s] = InsertedSince(s) % PruneEvery]
  /\ pc' = [pc EXCEPT ![s] = "committing"]
  /\ UNCHANGED <<path, created, tables, health, lost, committed, booted, conn,
                 replay, joined, pos, batch, recovered, faults>>

\* The insert commits and a later statement of the try block raises: the
\* batch stays pending and is inserted again.  (An insert that raises
\* rolls back and changes nothing here.)
PersistThenError(s) ==
  /\ pc[s] = "writing"
  /\ Fault("write")
  /\ rows' = [rows EXCEPT ![conn[s]][s] = TableAfter(s)]
  /\ sincePrune' = [sincePrune EXCEPT ![s] = InsertedSince(s)]
  /\ UNCHANGED <<path, created, tables, health, lost, committed, pc, booted,
                 conn, replay, joined, pos, batch, recovered>>

\* consumer.commit succeeds for every partition of the batch.
Commit(s) ==
  /\ pc[s] = "committing" /\ joined[s]
  /\ \E next \in [Partitions -> AllOffsets] :
       /\ OffsetsAfter(s, next)
       /\ committed' = [committed EXCEPT ![s] = next]
  /\ recovered' = [recovered EXCEPT ![s] = @ \cup BatchPartitions(s)]
  /\ batch' = [batch EXCEPT ![s] = {}]
  /\ pc' = [pc EXCEPT ![s] = "polling"]
  /\ UNCHANGED <<disk, lost, booted, conn, replay, joined, pos, sincePrune,
                 faults>>

\* consumer.commit raises, or reports errors for some partitions: the
\* broker took the offsets of the partitions in taken, the consumer learns
\* of those in told, and the whole batch stays pending for another commit.
CommitFailsPartly(s) ==
  /\ pc[s] = "committing" /\ joined[s]
  /\ Fault("commit")
  /\ \E taken \in SUBSET BatchPartitions(s), next \in [Partitions -> AllOffsets] :
       /\ OffsetsAfter(s, next)
       /\ committed' = [committed EXCEPT ![s] =
            [p \in Partitions |-> IF p \in taken THEN next[p] ELSE @[p]]]
       /\ \E told \in SUBSET taken :
            /\ told # BatchPartitions(s)
            /\ recovered' = [recovered EXCEPT ![s] = @ \cup told]
  /\ UNCHANGED <<disk, lost, pc, booted, conn, replay, joined, pos, batch,
                 sincePrune>>

-----------------------------------------------------------------------------
\* on_assign, run inside poll.  What was polled before stays in the batch.
Assign(s) ==
  /\ pc[s] = "polling"
  /\ joined' = [joined EXCEPT ![s] = TRUE]
  /\ pos' = [pos EXCEPT ![s] = [p \in Partitions |-> StartsAt(s, p)]]
  /\ UNCHANGED <<disk, lost, committed, pc, booted, conn, replay, batch,
                 recovered, sincePrune>>

Rejoin(s) == ~joined[s] /\ Assign(s) /\ UNCHANGED faults
Rebalance(s) == joined[s] /\ Assign(s) /\ Fault("rebalance")

\* The coordinator drops the member; it can rejoin only inside poll, and
\* until then its commits fail with UNKNOWN_MEMBER_ID.
Evict(s) ==
  /\ Attached(s) /\ joined[s]
  /\ Fault("evict")
  /\ joined' = [joined EXCEPT ![s] = FALSE]
  /\ UNCHANGED <<disk, lost, committed, pc, booted, conn, replay, pos, batch,
                 recovered, sincePrune>>

\* The locals of the loops of the streams in gone are dropped; consumer.close
\* commits nothing, for enable.auto.commit is off.
EndSessions(gone) ==
  /\ conn' = [s \in Streams |-> IF s \in gone THEN NoFile ELSE conn[s]]
  /\ replay' = [s \in Streams |-> s \notin gone /\ replay[s]]
  /\ joined' = [s \in Streams |-> s \notin gone /\ joined[s]]
  /\ pos' = [s \in Streams |-> IF s \in gone THEN Idle[s] ELSE pos[s]]
  /\ batch' = [s \in Streams |-> IF s \in gone THEN {} ELSE batch[s]]
  /\ recovered' = [s \in Streams |-> IF s \in gone THEN {} ELSE recovered[s]]
  /\ sincePrune' = [s \in Streams |-> IF s \in gone THEN 0 ELSE sincePrune[s]]

\* The process ends, by shutdown or crash, wherever its threads are.
AllOff ==
  /\ pc' = [s \in Streams |-> "off"]
  /\ EndSessions(Streams)
  /\ UNCHANGED <<disk, lost, committed, booted>>

Stop == (\E s \in Streams : pc[s] # "off") /\ AllOff /\ Fault("stop")

\* An exception leaves the loop.  Before the first readiness of the
\* predictions consumer lifespan shuts the whole application down.
ThreadFails(s) ==
  /\ pc[s] \notin {"off", "failed"}
  /\ Fault("thread")
  /\ IF s = Pred /\ ~booted
     THEN AllOff
     ELSE /\ pc' = [pc EXCEPT ![s] = "failed"]
          /\ EndSessions({s})
          /\ UNCHANGED <<disk, lost, committed, booted>>

\* Slip: the loop is entered again without its connection.
ReenterLoop(s) ==
  /\ pc[s] = "failed"
  /\ pc' = [pc EXCEPT ![s] = "opened"]
  /\ UNCHANGED <<disk, lost, committed, booted, session, faults>>

\* Slip: a consumer that failed stays down.
StayDown(s) == pc[s] = "failed" /\ UNCHANGED vars

\* supervise_consumer calls the loop again.
RestartThread(s) ==
  /\ pc[s] = "failed"
  /\ pc' = [pc EXCEPT ![s] = "start"]
  /\ UNCHANGED <<disk, lost, committed, booted, session, faults>>

\* The volume is removed between two runs of the process.
DeleteFile ==
  /\ path # NoFile
  /\ \A s \in Streams : pc[s] = "off"
  /\ Fault("delete")
  /\ path' = NoFile
  /\ lost' = TRUE
  /\ UNCHANGED <<created, tables, rows, health, committed, pc, booted, session>>

\* Pages of the file go bad; its first page, with sqlite_master, may survive.
\* Its rows are left as they were: nothing here speaks of a bad file's rows.
DamageFile ==
  /\ path # NoFile /\ health[path] = "ok"
  /\ Fault("damage")
  /\ \E h \in {"damaged", "unreadable"} : health' = [health EXCEPT ![path] = h]
  /\ lost' = TRUE
  /\ UNCHANGED <<path, created, tables, rows, committed, pc, booted, session>>

-----------------------------------------------------------------------------
\* poll returns nothing, or an evicted consumer's commit fails once more.
Wait(s) ==
  /\ pc[s] = "polling" \/ (pc[s] = "committing" /\ ~joined[s])
  /\ UNCHANGED vars

Consume(s) ==
  \/ OpenDb(s)
  \/ Attach(s)
  \/ \E p \in Partitions : Poll(s, p)
  \/ CloseBatch(s)
  \/ Persist(s)
  \/ Commit(s)
  \/ Rejoin(s)
  \/ RestartThread(s)
  \/ Wait(s)

Disturb(s) ==
  \/ OpenAttemptFails(s)
  \/ PersistThenError(s)
  \/ CommitFailsPartly(s)
  \/ Rebalance(s)
  \/ Evict(s)
  \/ ThreadFails(s)

Next ==
  \/ Start
  \/ CheckOutcomesTable
  \/ \E s \in Streams : Consume(s) \/ Disturb(s)
  \/ Stop
  \/ DeleteFile
  \/ DamageFile

Spec == Init /\ [][Next]_vars

\* compose restarts the process, and every thread keeps running.
Fairness ==
  /\ WF_vars(Start)
  /\ WF_vars(CheckOutcomesTable)
  /\ \A s \in Streams :
       /\ WF_vars(OpenDb(s)) /\ WF_vars(Attach(s))
       /\ \A p \in Partitions : WF_vars(Poll(s, p))
       /\ WF_vars(CloseBatch(s)) /\ WF_vars(Persist(s)) /\ WF_vars(Commit(s))
       /\ WF_vars(Rejoin(s)) /\ WF_vars(RestartThread(s))

FairSpec == Spec /\ Fairness

-----------------------------------------------------------------------------
DiskType ==
  /\ path \in Files \cup {NoFile}
  /\ created \in 0..MaxFiles
  /\ tables \in [Files -> SUBSET Streams]
  /\ rows \in [Files -> [Streams -> SUBSET Keys]]
  /\ health \in [Files -> {"ok", "damaged", "unreadable"}]
  /\ lost \in BOOLEAN

ThreadType ==
  /\ pc \in [Streams -> {"off", "start", "checked", "opened", "polling",
                         "writing", "committing", "failed"}]
  /\ booted \in BOOLEAN
  /\ conn \in [Streams -> Files \cup {NoFile}]
  /\ replay \in [Streams -> BOOLEAN]
  /\ joined \in [Streams -> BOOLEAN]
  /\ sincePrune \in [Streams -> Nat]
  /\ faults \in Nat
  /\ \A s \in Streams : pc[s] = "opened" \/ Attached(s) => conn[s] \in Files

OffsetType ==
  /\ committed \in [Streams -> [Partitions -> Nat]]
  /\ pos \in [Streams -> [Partitions -> Nat]]
  /\ \A s \in Streams, p \in Partitions :
       committed[s][p] <= Len(Log[s][p]) /\ pos[s][p] <= Len(Log[s][p])

BatchesType ==
  /\ batch \in [Streams -> SUBSET (Partitions \X Nat)]
  /\ \A s \in Streams : \A m \in batch[s] : m[2] < Len(Log[s][m[1]])
  /\ recovered \in [Streams -> SUBSET Partitions]

\* The type of every variable; offsets stay inside the topic, and a thread
\* past OpenDb has a file.
TypeOK == DiskType /\ ThreadType /\ OffsetType /\ BatchesType

\* A message needs no row (it is malformed), has one, or was pruned: then
\* KeepRows rows at least as new as it are in the table.
Kept(table, m) ==
  \/ m = Malformed
  \/ m \in table
  \/ Cardinality({k \in table : Rank[k] >= Rank[m]}) >= KeepRows

RowsOf(f, s) == IF f = NoFile THEN {} ELSE rows[f][s]

CommittedKept(f, s, p) ==
  \A o \in 0..(committed[s][p] - 1) : Kept(RowsOf(f, s), Message(s, p, o))

\* At-least-once: as long as the file survives, whatever fails, restarts or
\* is redelivered, a message below the committed offset is in its table or
\* was removed by retention.  A commit never runs ahead of an insert.
CommittedIsKept == ~lost => \A s \in Streams, p \in Partitions : CommittedKept(path, s, p)

\* A consumer that replays rebuilds its table completely: once it has
\* committed a partition, the file it writes keeps every message below the
\* committed offset, however often the partition was reassigned meanwhile.
ReplayIsComplete ==
  \A s \in Streams : Attached(s) /\ replay[s] =>
    \A p \in recovered[s] : CommittedKept(conn[s], s, p)

-----------------------------------------------------------------------------
\* Why CommittedIsKept and ReplayIsComplete hold: the inductive invariant.

\* A thread outside its loop has no batch.  Until a file is lost there is
\* one good file, and every open thread has it open.
OneFile ==
  /\ \A s \in Streams : ~Attached(s) => batch[s] = {} /\ recovered[s] = {}
  /\ ~lost => /\ \A f \in Files : health[f] = "ok"
              /\ \A s \in Streams : pc[s] = "opened" \/ Attached(s) => conn[s] = path

KeptIn(s, p, o) == Kept(RowsOf(conn[s], s), Message(s, p, o))

\* Every message below n is in the pending batch or kept.
Covered(s, p, n) ==
  \A o \in 0..(n - 1) : <<p, o>> \in batch[s] \/ KeptIn(s, p, o)

\* A consumer that started at a kept prefix, or at the beginning, has covered
\* everything below its position and below every message of its batch (a
\* reassignment moves the position back below messages of the batch), and
\* commits only when the whole batch is kept.
CoverageOf(s) ==
  Attached(s) /\ (~lost \/ replay[s]) =>
    /\ \A p \in Partitions : Covered(s, p, pos[s][p])
    /\ \A m \in batch[s] : Covered(s, m[1], m[2])
    /\ pc[s] = "committing" => \A m \in batch[s] : KeptIn(s, m[1], m[2])

Coverage == \A s \in Streams : CoverageOf(s)

IInv == TypeOK /\ OneFile /\ Coverage /\ CommittedIsKept /\ ReplayIsComplete

-----------------------------------------------------------------------------
\* Retention: between batches a table exceeds the cap by less than one pruning
\* interval, and by less than one more for every restart, which sets the
\* counter back to zero.  (A restart right after a prune that failed would add
\* its batch; the run that checks this has no failing prune.)
RetentionHolds ==
  \A s \in Streams : pc[s] \in {"polling", "committing"} =>
    Cardinality(Table(s)) <= KeepRows + (faults + 1) * (PruneEvery - 1)

\* Module docstring: a missing or rebuilt projection is replayed even if
\* the group has committed offsets.  A running consumer of stream s has in
\* its table, pending, or still ahead of it every message below its offset.
ReplayedIfRebuilt(s) ==
  Attached(s) =>
    \A p \in Partitions : \A o \in 0..(committed[s][p] - 1) :
      \/ Kept(RowsOf(conn[s], s), Message(s, p, o))
      \/ <<p, o>> \in batch[s]
      \/ o >= pos[s][p]

PredictionsReplayed == ReplayedIfRebuilt(Pred)
OutcomesReplayed == ReplayedIfRebuilt(Out)

\* Every row of a topic is eventually, and then for good, in the table or
\* retired by retention, through restarts, reassignments and failed writes.
\* (The committed offset alone need not get there: a batch that straddles
\* two reassignments commits below an earlier commit.)
Projected(s) == \A p \in Partitions : \A o \in Offsets(s, p) :
                  Kept(RowsOf(path, s), Message(s, p, o))
EventuallyProjected == \A s \in Active : <>[]Projected(s)

\* docs/runbook.md: the materializer recovers by itself from an outage of
\* the broker, that is, a consumer thread never stops polling for good.
KeepsPolling == \A s \in Active : []<>(pc[s] = "polling")

\* What the read model promises, seen through Projection.
Seen == [s \in Streams |-> [p \in Partitions |->
           {o \in Offsets(s, p) : Kept(RowsOf(path, s), Message(s, p, o))}]]

Abstract == INSTANCE Projection WITH
  Length <- [s \in Streams |-> [p \in Partitions |-> Len(Log[s][p])]],
  RowLess <- [s \in Streams |-> [p \in Partitions |->
                {o \in Offsets(s, p) : Message(s, p, o) = Malformed}]],
  projected <- Seen,
  acked <- committed

\* With the file intact, every step is a step of the abstract projection:
\* what is projected stays so, and only projected prefixes are acknowledged.
ImplementsProjection == Abstract!Spec

=============================================================================
