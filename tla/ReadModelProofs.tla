-------------------------- MODULE ReadModelProofs --------------------------
(***************************************************************************)
(* For every topic content, row order, limit and fault bound: the types of *)
(* ReadModel, that committed messages are kept, what retention leaves, and *)
(* that it implements Projection.                                          *)
(***************************************************************************)
EXTENDS ReadModel, FiniteSetTheorems, TLAPS

USE DEF Streams, Files, NoFile

\* Offsets address messages of the topic.
LEMMA MessageType ==
  ASSUME NEW s \in Streams, NEW p \in Partitions
  PROVE  /\ Len(Log[s][p]) \in Nat
         /\ \A o \in 0..(Len(Log[s][p]) - 1) : Message(s, p, o) \in Keys \cup {Malformed}
<1>1. Log[s][p] \in Seq(Keys \cup {Malformed})
  BY LogAssumption
<1> QED
  BY <1>1 DEF Message

\* The rows of a table, and of any part of it, can be counted.
LEMMA TableFinite ==
  ASSUME NEW T \in SUBSET Keys
  PROVE  IsFiniteSet(T) /\ Cardinality(T) \in Nat
  BY KeysAssumption, FS_Subset, FS_CardinalityType

\* An insert leaves every message kept that was kept.
LEMMA KeptGrows ==
  ASSUME NEW T \in SUBSET Keys, NEW U \in SUBSET Keys, T \subseteq U,
         NEW m, Kept(T, m)
  PROVE  Kept(U, m)
<1> DEFINE A == {k \in T : Rank[k] >= Rank[m]}
           B == {k \in U : Rank[k] >= Rank[m]}
<1>1. Cardinality(A) <= Cardinality(B)
  <2>1. B \in SUBSET Keys /\ A \in SUBSET B
    OBVIOUS
  <2> QED
    BY <2>1, TableFinite, FS_Subset
<1>2. Cardinality(A) \in Nat /\ Cardinality(B) \in Nat /\ KeepRows \in Nat
  BY TableFinite, LimitsAssumption
<1> QED
  BY <1>1, <1>2 DEF Kept

\* A prune leaves every message kept that was kept: if the newest rows left
\* reach below m then no row at least as new as m was dropped, and otherwise
\* all KeepRows of them are at least as new as m.
LEMMA KeptPruned ==
  ASSUME NEW T \in SUBSET Keys, NEW kept \in Newest(T),
         NEW m \in Keys \cup {Malformed}, Kept(T, m)
  PROVE  Kept(kept, m)
<1> DEFINE A == {k \in T : Rank[k] >= Rank[m]}
           B == {k \in kept : Rank[k] >= Rank[m]}
<1>1. CASE m = Malformed
  BY <1>1 DEF Kept
<1>2. CASE m \in kept
  BY <1>2 DEF Kept
<1>3. CASE m \in Keys /\ m \notin kept
  <2>1. /\ kept \in SUBSET T
        /\ Cardinality(kept) =
             (IF Cardinality(T) < KeepRows THEN Cardinality(T) ELSE KeepRows)
        /\ \A k \in kept, d \in T \ kept : Rank[k] >= Rank[d]
    BY DEF Newest
  <2>2. /\ IsFiniteSet(T) /\ IsFiniteSet(kept) /\ IsFiniteSet(A) /\ IsFiniteSet(B)
        /\ Cardinality(T) \in Nat /\ Cardinality(kept) \in Nat
        /\ Cardinality(A) \in Nat /\ Cardinality(B) \in Nat
        /\ KeepRows \in Nat
    BY <2>1, TableFinite, LimitsAssumption
  <2>3. \A k \in Keys : Rank[k] \in Nat
    BY KeysAssumption
  <2>4. CASE \E j \in kept : ~(Rank[j] >= Rank[m])
    <3>1. PICK j \in kept : ~(Rank[j] >= Rank[m])
      BY <2>4
    <3>2. A \subseteq kept
      <4> SUFFICES ASSUME NEW i \in A, i \notin kept PROVE FALSE
        OBVIOUS
      <4>1. Rank[j] >= Rank[i] /\ Rank[i] >= Rank[m]
        BY <2>1
      <4> QED
        BY <4>1, <3>1, <2>1, <2>3, <1>3
    <3>3. A = B /\ m \notin T
      BY <3>2, <2>1, <2>3, <1>3
    <3> QED
      BY <3>3, <1>3, KeysAssumption DEF Kept
  <2>5. CASE \A j \in kept : Rank[j] >= Rank[m]
    <3>1. B = kept
      BY <2>5
    <3>2. CASE m \in T
      <4>1. Cardinality(kept) # Cardinality(T)
        BY <3>2, <1>3, <2>1, <2>2, FS_Subset
      <4> QED
        BY <4>1, <3>1, <2>1, <2>2 DEF Kept
    <3>3. CASE m \notin T
      <4>1. Cardinality(A) >= KeepRows
        BY <3>3, <1>3, KeysAssumption DEF Kept
      <4>2. Cardinality(A) <= Cardinality(T)
        BY <2>2, FS_Subset
      <4> QED
        BY <4>1, <4>2, <3>1, <2>1, <2>2 DEF Kept
    <3> QED
      BY <3>2, <3>3
  <2> QED
    BY <2>4, <2>5
<1> QED
  BY <1>1, <1>2, <1>3

-----------------------------------------------------------------------------
\* The offsets a commit sends lie inside the topic.
LEMMA NextInTopic ==
  ASSUME TypeOK, NEW s \in Streams, NEW next \in [Partitions -> AllOffsets],
         OffsetsAfter(s, next)
  PROVE  /\ next \in [Partitions -> Nat]
         /\ \A p \in Partitions : next[p] <= Len(Log[s][p])
<1>1. AllOffsets \subseteq Nat
  BY MessageType DEF AllOffsets
<1>2. ASSUME NEW p \in Partitions PROVE next[p] <= Len(Log[s][p])
  <2>1. next[p] \in Nat /\ Len(Log[s][p]) \in Nat
    BY <1>1, MessageType
  <2>2. CASE p \in BatchPartitions(s)
    <3>1. PICK m \in batch[s] : m[1] = p /\ next[p] = m[2] + 1
      BY <2>2 DEF OffsetsAfter
    <3>2. m \in Partitions \X Nat /\ m[2] < Len(Log[s][m[1]])
      BY DEF TypeOK, BatchesType
    <3> QED
      BY <3>1, <3>2, <2>1
  <2>3. CASE p \notin BatchPartitions(s)
    BY <2>3 DEF OffsetsAfter, TypeOK, OffsetType
  <2> QED
    BY <2>2, <2>3
<1> QED
  BY <1>1, <1>2

\* The keys a batch inserts are keys, and its partitions partitions.
LEMMA BatchType ==
  ASSUME TypeOK, NEW s \in Streams
  PROVE  /\ Events(s) \in SUBSET Keys
         /\ BatchPartitions(s) \in SUBSET Partitions
<1>1. batch[s] \in SUBSET (Partitions \X Nat)
  BY DEF TypeOK, BatchesType
<1>2. ASSUME NEW m \in batch[s]
      PROVE  m[1] \in Partitions /\ Message(s, m[1], m[2]) \in Keys \cup {Malformed}
  <2>1. m[1] \in Partitions /\ m[2] \in Nat /\ m[2] < Len(Log[s][m[1]])
    BY <1>1 DEF TypeOK, BatchesType
  <2>2. m[2] \in 0..(Len(Log[s][m[1]]) - 1)
    BY <2>1, MessageType
  <2> QED
    BY <2>1, <2>2, MessageType
<1> QED
  BY <1>2 DEF Events, BatchPartitions

\* What Persist and PersistThenError write has the type of a table.
LEMMA PersistType ==
  ASSUME TypeOK, NEW s \in Streams, conn[s] \in Files
  PROVE  /\ Table(s) \in SUBSET Keys
         /\ TableAfter(s) \in SUBSET Keys
         /\ InsertedSince(s) \in Nat
         /\ InsertedSince(s) % PruneEvery \in Nat
         /\ \A kept \in Newest(TableAfter(s)) : kept \in SUBSET Keys
<1>1. Table(s) \in SUBSET Keys /\ TableAfter(s) \in SUBSET Keys
  <2>1. Table(s) \in SUBSET Keys
    BY DEF TypeOK, DiskType, Table
  <2> QED
    BY <2>1, BatchType DEF TableAfter
<1>2. InsertedSince(s) \in Nat
  <2>1. Events(s) \ Table(s) \in SUBSET Keys
    BY BatchType
  <2>2. Cardinality(Events(s) \ Table(s)) \in Nat
    BY <2>1, TableFinite
  <2> QED
    BY <2>2 DEF TypeOK, ThreadType, InsertedSince
<1>3. InsertedSince(s) % PruneEvery \in Nat
  BY <1>2, LimitsAssumption
<1> QED
  BY <1>1, <1>2, <1>3 DEF Newest
-----------------------------------------------------------------------------
\* The part of the type whose variables a step leaves alone stays true.
LEMMA SameType ==
  ASSUME TypeOK
  PROVE  /\ UNCHANGED <<disk, lost>> => DiskType'
         /\ UNCHANGED <<pc, booted, conn, replay, joined, sincePrune, faults>> => ThreadType'
         /\ UNCHANGED <<committed, pos>> => OffsetType'
         /\ UNCHANGED <<batch, recovered>> => BatchesType'
<1>1. UNCHANGED <<disk, lost>> => DiskType'
  BY DEF TypeOK, DiskType, disk
<1>2. UNCHANGED <<pc, booted, conn, replay, joined, sincePrune, faults>> => ThreadType'
  BY DEF TypeOK, ThreadType, Attached
<1>3. UNCHANGED <<committed, pos>> => OffsetType'
  BY DEF TypeOK, OffsetType
<1>4. UNCHANGED <<batch, recovered>> => BatchesType'
  BY DEF TypeOK, BatchesType
<1> QED
  BY <1>1, <1>2, <1>3, <1>4

\* The initial state has the types.
LEMMA InitType == Init => TypeOK
<1> SUFFICES ASSUME Init PROVE TypeOK
  OBVIOUS
<1>1. DiskType
  <2>1. MaxFiles \in Nat /\ 0 \in 0..MaxFiles
    BY BoundsAssumption
  <2>2. rows \in [Files -> [Streams -> SUBSET Keys]]
    BY DEF Init
  <2> QED
    BY <2>1, <2>2 DEF Init, DiskType
<1>2. ThreadType
  BY DEF Init, ThreadType, Attached
<1>3. OffsetType
  BY MessageType DEF Init, Idle, OffsetType
<1>4. BatchesType
  BY DEF Init, BatchesType
<1> QED
  BY <1>1, <1>2, <1>3, <1>4 DEF TypeOK

\* TypeOK is inductive: one step per action.
LEMMA TypeStep == TypeOK /\ [Next]_vars => TypeOK'
<1> SUFFICES ASSUME TypeOK, [Next]_vars PROVE TypeOK'
  OBVIOUS
<1>1. ASSUME Start PROVE TypeOK'
  <2>1. DiskType' /\ OffsetType' /\ BatchesType'
    BY <1>1, SameType DEF Start, disk, session
  <2>2. ThreadType'
    BY <1>1 DEF Start, TypeOK, ThreadType, Attached, session
  <2> QED
    BY <2>1, <2>2 DEF TypeOK
<1>2. ASSUME CheckOutcomesTable PROVE TypeOK'
  <2>1. DiskType' /\ OffsetType' /\ BatchesType'
    BY <1>2, SameType DEF CheckOutcomesTable, disk, session
  <2>2. ThreadType'
    BY <1>2 DEF CheckOutcomesTable, TypeOK, ThreadType, Attached, session
  <2> QED
    BY <2>1, <2>2 DEF TypeOK
<1>3. ASSUME NEW s \in Streams, OpenDb(s) PROVE TypeOK'
  <2>1. OpenedFile \in Files /\ created' \in 0..MaxFiles
    BY <1>3, BoundsAssumption DEF OpenDb, Create, TypeOK, DiskType
  <2>2. OffsetType' /\ BatchesType'
    BY <1>3, SameType DEF OpenDb, Create, ReadyToOpen, disk, session
  <2>3. DiskType'
    BY <1>3, <2>1 DEF OpenDb, Create, ReadyToOpen, TypeOK, DiskType
  <2>4. ThreadType'
    BY <1>3, <2>1 DEF OpenDb, Create, ReadyToOpen, TypeOK, ThreadType, Attached, session
  <2> QED
    BY <2>2, <2>3, <2>4 DEF TypeOK
<1>4. ASSUME NEW s \in Streams, OpenAttemptFails(s) PROVE TypeOK'
  <2>1. ASSUME NEW done \in {{}, {Pred}, Streams}, Create(done) PROVE DiskType'
    <3>1. OpenedFile \in Files /\ created' \in 0..MaxFiles
      BY <2>1, BoundsAssumption DEF Create, TypeOK, DiskType
    <3> QED
      BY <1>4, <2>1, <3>1 DEF OpenAttemptFails, Create, TypeOK, DiskType
  <2>2. OffsetType' /\ BatchesType'
    BY <1>4, SameType DEF OpenAttemptFails, Fault, disk, session
  <2>3. DiskType'
    BY <1>4, <2>1 DEF OpenAttemptFails, Fault, TypeOK, DiskType
  <2>4. ThreadType'
    BY <1>4 DEF OpenAttemptFails, Fault, TypeOK, ThreadType, Attached, session
  <2> QED
    BY <2>2, <2>3, <2>4 DEF TypeOK
<1>5. ASSUME NEW s \in Streams, Attach(s) PROVE TypeOK'
  <2>1. DiskType' /\ BatchesType'
    BY <1>5, SameType DEF Attach, disk, session
  <2>2. ThreadType'
    BY <1>5 DEF Attach, TypeOK, ThreadType, Attached, session
  <2>3. OffsetType'
    BY <1>5, MessageType DEF Attach, StartsAt, TypeOK, OffsetType
  <2> QED
    BY <2>1, <2>2, <2>3 DEF TypeOK
<1>6. ASSUME NEW s \in Streams, NEW p \in Partitions, Poll(s, p) PROVE TypeOK'
  <2>1. pos[s][p] \in Nat
    BY DEF TypeOK, OffsetType
  <2>2. DiskType' /\ ThreadType'
    BY <1>6, SameType DEF Poll, disk, session
  <2>3. OffsetType'
    BY <1>6, MessageType DEF Poll, TypeOK, OffsetType
  <2>4. BatchesType'
    BY <1>6, MessageType, <2>1 DEF Poll, TypeOK, BatchesType
  <2> QED
    BY <2>2, <2>3, <2>4 DEF TypeOK
<1>7. ASSUME NEW s \in Streams, CloseBatch(s) PROVE TypeOK'
  <2>1. DiskType' /\ OffsetType' /\ BatchesType'
    BY <1>7, SameType DEF CloseBatch, disk, session
  <2>2. ThreadType'
    BY <1>7 DEF CloseBatch, TypeOK, ThreadType, Attached, session
  <2> QED
    BY <2>1, <2>2 DEF TypeOK
<1>8. ASSUME NEW s \in Streams, Persist(s) PROVE TypeOK'
  <2>1. conn[s] \in Files
    BY <1>8 DEF Persist, TypeOK, ThreadType, Attached, session
  <2>2. OffsetType' /\ BatchesType'
    BY <1>8, SameType DEF Persist, disk, session
  <2>3. DiskType'
    <3>1. PICK table \in SUBSET Keys : rows' = [rows EXCEPT ![conn[s]][s] = table]
      BY <1>8, <2>1, PersistType DEF Persist
    <3> QED
      BY <1>8, <3>1 DEF Persist, TypeOK, DiskType
  <2>4. ThreadType'
    BY <1>8, <2>1, PersistType DEF Persist, TypeOK, ThreadType, Attached, session
  <2> QED
    BY <2>2, <2>3, <2>4 DEF TypeOK
<1>9. ASSUME NEW s \in Streams, PersistThenError(s) PROVE TypeOK'
  <2>1. conn[s] \in Files
    BY <1>9 DEF PersistThenError, TypeOK, ThreadType, Attached, session
  <2>2. OffsetType' /\ BatchesType'
    BY <1>9, SameType DEF PersistThenError, Fault, disk, session
  <2>3. DiskType'
    BY <1>9, <2>1, PersistType DEF PersistThenError, Fault, TypeOK, DiskType
  <2>4. ThreadType'
    BY <1>9, <2>1, PersistType DEF PersistThenError, Fault, TypeOK, ThreadType, Attached, session
  <2> QED
    BY <2>2, <2>3, <2>4 DEF TypeOK
<1>10. ASSUME NEW s \in Streams, Commit(s) PROVE TypeOK'
  <2>1. DiskType'
    BY <1>10, SameType DEF Commit, disk, session
  <2>2. ThreadType'
    BY <1>10 DEF Commit, TypeOK, ThreadType, Attached, session
  <2>3. OffsetType'
    BY <1>10, NextInTopic DEF Commit, TypeOK, OffsetType
  <2>4. BatchesType'
    BY <1>10, BatchType DEF Commit, TypeOK, BatchesType
  <2> QED
    BY <2>1, <2>2, <2>3, <2>4 DEF TypeOK
<1>11. ASSUME NEW s \in Streams, CommitFailsPartly(s) PROVE TypeOK'
  <2>1. PICK taken \in SUBSET BatchPartitions(s), next \in [Partitions -> AllOffsets] :
          /\ OffsetsAfter(s, next)
          /\ committed' = [committed EXCEPT ![s] =
               [p \in Partitions |-> IF p \in taken THEN next[p] ELSE @[p]]]
          /\ \E told \in SUBSET taken :
               recovered' = [recovered EXCEPT ![s] = @ \cup told]
    BY <1>11 DEF CommitFailsPartly
  <2>2. DiskType'
    BY <1>11, SameType DEF CommitFailsPartly, Fault, disk, session
  <2>3. ThreadType'
    BY <1>11 DEF CommitFailsPartly, Fault, TypeOK, ThreadType, Attached, session
  <2>4. OffsetType'
    <3>1. /\ next \in [Partitions -> Nat]
          /\ \A p \in Partitions : next[p] <= Len(Log[s][p])
      BY <2>1, NextInTopic
    <3>2. committed' \in [Streams -> [Partitions -> Nat]]
      BY <2>1, <3>1 DEF TypeOK, OffsetType
    <3>3. \A r \in Streams, p \in Partitions : committed'[r][p] <= Len(Log[r][p])
      BY <2>1, <3>1 DEF TypeOK, OffsetType
    <3> QED
      BY <1>11, <3>2, <3>3 DEF CommitFailsPartly, TypeOK, OffsetType
  <2>5. BatchesType'
    BY <1>11, <2>1, BatchType DEF CommitFailsPartly, Fault, TypeOK, BatchesType
  <2> QED
    BY <2>2, <2>3, <2>4, <2>5 DEF TypeOK
<1>12. ASSUME NEW s \in Streams, Rejoin(s) PROVE TypeOK'
  <2>1. DiskType' /\ BatchesType'
    BY <1>12, SameType DEF Rejoin, Assign, disk, session
  <2>2. ThreadType'
    BY <1>12 DEF Rejoin, Assign, TypeOK, ThreadType, Attached, session
  <2>3. OffsetType'
    BY <1>12, MessageType DEF Rejoin, Assign, StartsAt, TypeOK, OffsetType
  <2> QED
    BY <2>1, <2>2, <2>3 DEF TypeOK
<1>13. ASSUME NEW s \in Streams, Rebalance(s) PROVE TypeOK'
  <2>1. DiskType' /\ BatchesType'
    BY <1>13, SameType DEF Rebalance, Assign, Fault, disk, session
  <2>2. ThreadType'
    BY <1>13 DEF Rebalance, Assign, Fault, TypeOK, ThreadType, Attached, session
  <2>3. OffsetType'
    BY <1>13, MessageType DEF Rebalance, Assign, StartsAt, Fault, TypeOK,
       OffsetType
  <2> QED
    BY <2>1, <2>2, <2>3 DEF TypeOK
<1>14. ASSUME NEW s \in Streams, Evict(s) PROVE TypeOK'
  <2>1. DiskType' /\ OffsetType' /\ BatchesType'
    BY <1>14, SameType DEF Evict, Fault, disk, session
  <2>2. ThreadType'
    BY <1>14 DEF Evict, Fault, TypeOK, ThreadType, Attached, session
  <2> QED
    BY <2>1, <2>2 DEF TypeOK
<1>15. ASSUME AllOff, faults' \in Nat PROVE TypeOK'
  <2>1. DiskType'
    BY <1>15, SameType DEF AllOff, disk
  <2>2. ThreadType'
    BY <1>15 DEF AllOff, EndSessions, TypeOK, ThreadType, Attached, session
  <2>3. OffsetType'
    BY <1>15, MessageType DEF AllOff, EndSessions, Idle, TypeOK, OffsetType
  <2>4. BatchesType'
    BY <1>15 DEF AllOff, EndSessions, TypeOK, BatchesType
  <2> QED
    BY <2>1, <2>2, <2>3, <2>4 DEF TypeOK
<1>16. ASSUME NEW s \in Streams, ThreadFails(s) PROVE TypeOK'
  <2>1. faults' \in Nat
    BY <1>16 DEF ThreadFails, Fault, TypeOK, ThreadType
  <2>2. CASE s = Pred /\ ~booted
    BY <1>16, <2>1, <2>2, <1>15 DEF ThreadFails
  <2>3. CASE ~(s = Pred /\ ~booted)
    <3>1. DiskType'
      BY <1>16, <2>3, SameType DEF ThreadFails, disk
    <3>2. ThreadType'
      <4>1. /\ pc' = [pc EXCEPT ![s] = "failed"]
            /\ conn' = [r \in Streams |-> IF r \in {s} THEN NoFile ELSE conn[r]]
            /\ booted' = booted
        BY <1>16, <2>3 DEF ThreadFails, EndSessions
      <4>2. /\ replay' \in [Streams -> BOOLEAN]
            /\ joined' \in [Streams -> BOOLEAN]
        BY <1>16, <2>3 DEF ThreadFails, EndSessions
      <4>3. sincePrune' \in [Streams -> Nat]
        BY <1>16, <2>3 DEF ThreadFails, EndSessions, TypeOK, ThreadType
      <4> QED
        BY <4>1, <4>2, <4>3, <2>1 DEF TypeOK, ThreadType, Attached
    <3>3. OffsetType'
      BY <1>16, <2>3, MessageType DEF ThreadFails, EndSessions, Idle, TypeOK, OffsetType
    <3>4. BatchesType'
      BY <1>16, <2>3 DEF ThreadFails, EndSessions, TypeOK, BatchesType
    <3> QED
      BY <3>1, <3>2, <3>3, <3>4 DEF TypeOK
  <2> QED
    BY <2>2, <2>3
<1>17. ASSUME NEW s \in Streams, RestartThread(s) PROVE TypeOK'
  <2>1. DiskType' /\ OffsetType' /\ BatchesType'
    BY <1>17, SameType DEF RestartThread, disk, session
  <2>2. ThreadType'
    BY <1>17 DEF RestartThread, TypeOK, ThreadType, Attached, session
  <2> QED
    BY <2>1, <2>2 DEF TypeOK
<1>18. ASSUME Stop PROVE TypeOK'
  BY <1>18, <1>15 DEF Stop, Fault, TypeOK, ThreadType
<1>19. ASSUME DeleteFile PROVE TypeOK'
  <2>1. OffsetType' /\ BatchesType'
    BY <1>19, SameType DEF DeleteFile, Fault, disk, session
  <2>2. DiskType'
    BY <1>19 DEF DeleteFile, Fault, TypeOK, DiskType
  <2>3. ThreadType'
    BY <1>19 DEF DeleteFile, Fault, TypeOK, ThreadType, Attached, session
  <2> QED
    BY <2>1, <2>2, <2>3 DEF TypeOK
<1>20. ASSUME DamageFile PROVE TypeOK'
  <2>1. OffsetType' /\ BatchesType'
    BY <1>20, SameType DEF DamageFile, Fault, disk, session
  <2>2. DiskType'
    BY <1>20 DEF DamageFile, Fault, TypeOK, DiskType
  <2>3. ThreadType'
    BY <1>20 DEF DamageFile, Fault, TypeOK, ThreadType, Attached, session
  <2> QED
    BY <2>1, <2>2, <2>3 DEF TypeOK
<1>21. CASE UNCHANGED vars
  BY <1>21, SameType DEF vars, disk, session, TypeOK
<1> QED
  BY <1>1, <1>2, <1>3, <1>4, <1>5, <1>6, <1>7, <1>8, <1>9, <1>10, <1>11,
     <1>12, <1>13, <1>14, <1>16, <1>17, <1>18, <1>19, <1>20, <1>21
     DEF Next, Consume, Disturb, Wait

\* The type invariant, for all values of the constants.
THEOREM TypeCorrect == Spec => []TypeOK
<1> QED
  BY InitType, TypeStep, PTL DEF Spec
-----------------------------------------------------------------------------
\* No step of the system makes a kept message unkept.
LEMMA RowsStayKept ==
  ASSUME TypeOK, [Next]_vars
  PROVE  \A f \in Files, t \in Streams, m \in Keys \cup {Malformed} :
           Kept(rows[f][t], m) => Kept(rows'[f][t], m)
<1>1. CASE rows' = rows
  BY <1>1
<1>2. ASSUME NEW s \in Streams, conn[s] \in Files, NEW T \in SUBSET Keys,
             rows' = [rows EXCEPT ![conn[s]][s] = T],
             \A m \in Keys \cup {Malformed} : Kept(Table(s), m) => Kept(T, m)
      PROVE  \A f \in Files, t \in Streams, m \in Keys \cup {Malformed} :
               Kept(rows[f][t], m) => Kept(rows'[f][t], m)
  <2>1. \A f \in Files, t \in Streams :
          rows'[f][t] = IF f = conn[s] /\ t = s THEN T ELSE rows[f][t]
    BY <1>2 DEF TypeOK, DiskType
  <2> QED
    BY <1>2, <2>1 DEF Table
<1>3. ASSUME NEW s \in Streams, Persist(s) \/ PersistThenError(s)
      PROVE  \A f \in Files, t \in Streams, m \in Keys \cup {Malformed} :
               Kept(rows[f][t], m) => Kept(rows'[f][t], m)
  <2>1. conn[s] \in Files
    BY <1>3 DEF Persist, PersistThenError, TypeOK, ThreadType, Attached
  <2>2. Table(s) \in SUBSET Keys /\ TableAfter(s) \in SUBSET Keys
    BY <2>1, PersistType
  <2>3. \A m \in Keys \cup {Malformed} : Kept(Table(s), m) => Kept(TableAfter(s), m)
    BY <2>2, KeptGrows DEF TableAfter
  <2>4. CASE rows' = [rows EXCEPT ![conn[s]][s] = TableAfter(s)]
    BY <2>1, <2>2, <2>3, <2>4, <1>2
  <2>5. ASSUME NEW kept \in Newest(TableAfter(s)),
               rows' = [rows EXCEPT ![conn[s]][s] = kept]
        PROVE  \A f \in Files, t \in Streams, m \in Keys \cup {Malformed} :
                 Kept(rows[f][t], m) => Kept(rows'[f][t], m)
    <3>1. kept \in SUBSET Keys
      BY <2>1, PersistType
    <3>2. \A m \in Keys \cup {Malformed} : Kept(Table(s), m) => Kept(kept, m)
      BY <2>2, <2>3, KeptPruned
    <3> QED
      BY <2>1, <2>5, <3>1, <3>2, <1>2
  <2> QED
    BY <1>3, <2>4, <2>5 DEF Persist, PersistThenError
<1> QED
  BY <1>1, <1>3 DEF Next, Consume, Disturb, Wait, Start, CheckOutcomesTable, OpenDb,
     OpenAttemptFails, Create, Attach, Poll, CloseBatch, Commit, CommitFailsPartly,
     Rejoin, Rebalance, Assign, Evict, AllOff, Stop, ThreadFails, RestartThread,
     DeleteFile, DamageFile, vars, disk

\* The batch Persist writes is kept afterwards.
LEMMA BatchIsKept ==
  ASSUME TypeOK, NEW s \in Streams, Persist(s)
  PROVE  \A m \in batch[s] : Kept(rows'[conn[s]][s], Message(s, m[1], m[2]))
<1>1. conn[s] \in Files
  BY DEF Persist, TypeOK, ThreadType, Attached
<1>2. ASSUME NEW m \in batch[s]
      PROVE  /\ Message(s, m[1], m[2]) \in Keys \cup {Malformed}
             /\ Kept(TableAfter(s), Message(s, m[1], m[2]))
  <2>1. m[1] \in Partitions /\ m[2] \in 0..(Len(Log[s][m[1]]) - 1)
    BY MessageType DEF TypeOK, BatchesType
  <2>2. Message(s, m[1], m[2]) \in Keys \cup {Malformed}
    BY <2>1, MessageType
  <2> QED
    BY <2>2 DEF Kept, TableAfter, Events
<1>3. ASSUME NEW T \in SUBSET Keys, rows' = [rows EXCEPT ![conn[s]][s] = T]
      PROVE  rows'[conn[s]][s] = T
  BY <1>1, <1>3 DEF TypeOK, DiskType
<1>4. CASE rows' = [rows EXCEPT ![conn[s]][s] = TableAfter(s)]
  <2>1. TableAfter(s) \in SUBSET Keys
    BY <1>1, PersistType
  <2>2. rows'[conn[s]][s] = TableAfter(s)
    BY <1>3, <1>4, <2>1
  <2> QED
    BY <1>2, <2>2
<1>5. ASSUME NEW kept \in Newest(TableAfter(s)),
             rows' = [rows EXCEPT ![conn[s]][s] = kept]
      PROVE  \A m \in batch[s] : Kept(rows'[conn[s]][s], Message(s, m[1], m[2]))
  <2>1. rows'[conn[s]][s] = kept
    <3>1. kept \in SUBSET Keys
      BY <1>1, PersistType
    <3> QED
      BY <1>3, <1>5, <3>1
  <2>2. TableAfter(s) \in SUBSET Keys
    BY <1>1, PersistType
  <2> QED
    BY <1>2, <2>1, <2>2, KeptPruned
<1> QED
  BY <1>4, <1>5 DEF Persist

\* A message kept in the file a consumer has open stays kept in it.
LEMMA KeptInStays ==
  ASSUME TypeOK, [Next]_vars, NEW s \in Streams, conn[s] \in Files,
         conn'[s] = conn[s], NEW p \in Partitions,
         NEW o \in 0..(Len(Log[s][p]) - 1), KeptIn(s, p, o)
  PROVE  KeptIn(s, p, o)'
<1>1. Message(s, p, o) \in Keys \cup {Malformed}
  BY MessageType
<1>2. Kept(rows[conn[s]][s], Message(s, p, o))
  <2>1. conn[s] # NoFile
    BY BoundsAssumption
  <2> QED
    BY <2>1 DEF KeptIn, RowsOf
<1>3. Kept(rows'[conn[s]][s], Message(s, p, o))
  BY <1>1, <1>2, RowsStayKept
<1>4. conn'[s] # NoFile
  BY BoundsAssumption
<1> QED
  BY <1>3, <1>4 DEF KeptIn, RowsOf, Message
-----------------------------------------------------------------------------
\* IInv, one stream at a time.
ReplayOf(s) == Attached(s) /\ replay[s] =>
                 \A p \in recovered[s] : CommittedKept(conn[s], s, p)

\* The step leaves what IInv says of stream t alone.
Quiet(t) ==
  /\ lost => lost'
  /\ committed'[t] = committed[t]
  /\ Attached(t)' => /\ Attached(t)
                     /\ pc'[t] = "committing" => pc[t] = "committing"
                     /\ conn'[t] = conn[t] /\ replay'[t] = replay[t]
                     /\ batch'[t] = batch[t] /\ pos'[t] = pos[t]
                     /\ recovered'[t] = recovered[t]

LEMMA OffsetInTopic ==
  ASSUME TypeOK, NEW s \in Streams
  PROVE  /\ \A p \in Partitions :
              /\ \A o \in 0..(committed[s][p] - 1) : o \in 0..(Len(Log[s][p]) - 1)
              /\ \A o \in 0..(pos[s][p] - 1) : o \in 0..(Len(Log[s][p]) - 1)
         /\ \A m \in batch[s] :
              /\ m[1] \in Partitions /\ m[2] \in 0..(Len(Log[s][m[1]]) - 1)
              /\ \A o \in 0..(m[2] - 1) : o \in 0..(Len(Log[s][m[1]]) - 1)
<1>1. ASSUME NEW p \in Partitions
      PROVE  /\ \A o \in 0..(committed[s][p] - 1) : o \in 0..(Len(Log[s][p]) - 1)
             /\ \A o \in 0..(pos[s][p] - 1) : o \in 0..(Len(Log[s][p]) - 1)
  <2>1. /\ committed[s][p] \in Nat /\ pos[s][p] \in Nat /\ Len(Log[s][p]) \in Nat
        /\ committed[s][p] <= Len(Log[s][p]) /\ pos[s][p] <= Len(Log[s][p])
    BY MessageType DEF TypeOK, OffsetType
  <2> QED
    BY <2>1
<1>2. ASSUME NEW m \in batch[s]
      PROVE  /\ m[1] \in Partitions /\ m[2] \in 0..(Len(Log[s][m[1]]) - 1)
             /\ \A o \in 0..(m[2] - 1) : o \in 0..(Len(Log[s][m[1]]) - 1)
  BY MessageType DEF TypeOK, BatchesType
<1> QED
  BY <1>1, <1>2

\* What was committed and kept stays kept while nothing more is committed.
LEMMA CommittedStays ==
  ASSUME TypeOK, [Next]_vars, NEW s \in Streams, NEW p \in Partitions,
         NEW f \in Files \cup {NoFile}, NEW g \in Files,
         f = NoFile \/ g = f, CommittedKept(f, s, p)
  PROVE  \A o \in 0..(committed[s][p] - 1) : Kept(rows'[g][s], Message(s, p, o))
<1> SUFFICES ASSUME NEW o \in 0..(committed[s][p] - 1)
             PROVE  Kept(rows'[g][s], Message(s, p, o))
  OBVIOUS
<1>1. Message(s, p, o) \in Keys \cup {Malformed}
  BY OffsetInTopic, MessageType
<1>2. rows[g][s] \in SUBSET Keys
  BY DEF TypeOK, DiskType
<1>3. Kept(rows[g][s], Message(s, p, o))
  <2>1. CASE f = NoFile
    <3>1. Kept({}, Message(s, p, o))
      BY <2>1 DEF CommittedKept, RowsOf
    <3> QED
      BY <3>1, <1>2, KeptGrows
  <2>2. CASE f # NoFile
    BY <2>2 DEF CommittedKept, RowsOf
  <2> QED
    BY <2>1, <2>2
<1> QED
  BY <1>1, <1>3, RowsStayKept

LEMMA QuietStream ==
  ASSUME IInv, [Next]_vars, NEW t \in Streams, Quiet(t)
  PROVE  CoverageOf(t)' /\ ReplayOf(t)'
<1> USE DEF IInv
<1>1. CoverageOf(t)'
  <2> SUFFICES ASSUME Attached(t)', ~lost' \/ replay'[t]
               PROVE  /\ \A p \in Partitions : Covered(t, p, pos[t][p])'
                      /\ \A m \in batch'[t] : Covered(t, m[1], m[2])'
                      /\ pc'[t] = "committing" => \A m \in batch'[t] : KeptIn(t, m[1], m[2])'
    BY DEF CoverageOf
  <2>1. /\ Attached(t) /\ (~lost \/ replay[t])
        /\ pc'[t] = "committing" => pc[t] = "committing"
        /\ conn'[t] = conn[t] /\ batch'[t] = batch[t] /\ pos'[t] = pos[t]
    BY DEF Quiet
  <2>2. conn[t] \in Files
    BY <2>1 DEF TypeOK, ThreadType
  <2>3. /\ \A p \in Partitions : Covered(t, p, pos[t][p])
        /\ \A m \in batch[t] : Covered(t, m[1], m[2])
        /\ pc[t] = "committing" => \A m \in batch[t] : KeptIn(t, m[1], m[2])
    BY <2>1 DEF Coverage, CoverageOf
  <2>4. ASSUME NEW p \in Partitions PROVE Covered(t, p, pos[t][p])'
    <3>1. \A o \in 0..(pos[t][p] - 1) : KeptIn(t, p, o) => KeptIn(t, p, o)'
      BY <2>1, <2>2, KeptInStays, OffsetInTopic
    <3> QED
      BY <2>1, <2>3, <3>1 DEF Covered
  <2>5. ASSUME NEW m \in batch[t] PROVE Covered(t, m[1], m[2])'
    <3>1. \A o \in 0..(m[2] - 1) : KeptIn(t, m[1], o) => KeptIn(t, m[1], o)'
      BY <2>1, <2>2, KeptInStays, OffsetInTopic
    <3> QED
      BY <2>1, <2>3, <3>1 DEF Covered
  <2>6. ASSUME NEW m \in batch[t], KeptIn(t, m[1], m[2]) PROVE KeptIn(t, m[1], m[2])'
    BY <2>1, <2>2, <2>6, KeptInStays, OffsetInTopic
  <2> QED
    BY <2>1, <2>3, <2>4, <2>5, <2>6
<1>2. ReplayOf(t)'
  <2> SUFFICES ASSUME Attached(t)', replay'[t], NEW p \in recovered'[t]
               PROVE  CommittedKept(conn[t], t, p)'
    BY DEF ReplayOf
  <2>1. /\ Attached(t) /\ replay[t] /\ p \in recovered[t]
        /\ conn'[t] = conn[t] /\ committed'[t] = committed[t]
    BY DEF Quiet
  <2>2. conn[t] \in Files /\ p \in Partitions /\ conn[t] # NoFile
    BY <2>1, BoundsAssumption DEF TypeOK, ThreadType, BatchesType
  <2>3. CommittedKept(conn[t], t, p)
    BY <2>1 DEF ReplayIsComplete
  <2>4. \A o \in 0..(committed[t][p] - 1) : Kept(rows'[conn[t]][t], Message(t, p, o))
    BY <2>2, <2>3, CommittedStays
  <2> QED
    BY <2>1, <2>2, <2>4 DEF CommittedKept, RowsOf, Message
<1> QED
  BY <1>1, <1>2
\* The steps that move no consumer on.
LEMMA QuietSteps ==
  ASSUME IInv,
         \/ Start \/ CheckOutcomesTable \/ Stop \/ DeleteFile \/ DamageFile
         \/ UNCHANGED vars
         \/ \E s \in Streams : \/ OpenDb(s) \/ OpenAttemptFails(s) \/ CloseBatch(s)
                               \/ PersistThenError(s) \/ Evict(s) \/ ThreadFails(s)
                               \/ RestartThread(s)
  PROVE  \A t \in Streams : Quiet(t)
<1> USE DEF IInv, TypeOK, ThreadType, Quiet, Attached
<1>1. CASE Start
  BY <1>1 DEF Start, session
<1>2. CASE CheckOutcomesTable
  BY <1>2 DEF CheckOutcomesTable
<1>3. CASE AllOff
  BY <1>3 DEF AllOff
<1>4. CASE DeleteFile \/ DamageFile
  BY <1>4 DEF DeleteFile, DamageFile, session
<1>5. CASE UNCHANGED vars
  BY <1>5 DEF vars, session
<1>6. ASSUME NEW s \in Streams, OpenDb(s) PROVE \A t \in Streams : Quiet(t)
  BY <1>6 DEF OpenDb
<1>7. ASSUME NEW s \in Streams, OpenAttemptFails(s) PROVE \A t \in Streams : Quiet(t)
  BY <1>7 DEF OpenAttemptFails, session
<1>8. ASSUME NEW s \in Streams, CloseBatch(s) PROVE \A t \in Streams : Quiet(t)
  BY <1>8 DEF CloseBatch, session
<1>9. ASSUME NEW s \in Streams, PersistThenError(s) \/ Evict(s)
      PROVE  \A t \in Streams : Quiet(t)
  BY <1>9 DEF PersistThenError, Evict
<1>10. ASSUME NEW s \in Streams, ThreadFails(s) PROVE \A t \in Streams : Quiet(t)
  <2>1. CASE AllOff
    BY <2>1, <1>3
  <2>2. CASE ~AllOff
    BY <1>10, <2>2 DEF ThreadFails, EndSessions
  <2> QED
    BY <2>1, <2>2
<1>11. ASSUME NEW s \in Streams, RestartThread(s) PROVE \A t \in Streams : Quiet(t)
  BY <1>11 DEF RestartThread, session
<1> QED
  BY <1>1, <1>2, <1>3, <1>4, <1>5, <1>6, <1>7, <1>8, <1>9, <1>10, <1>11 DEF Stop

\* A step of one consumer that moves it on is quiet for the other.
LEMMA OthersQuiet ==
  ASSUME IInv, NEW s \in Streams, NEW t \in Streams \ {s},
         \/ Attach(s) \/ (\E p \in Partitions : Poll(s, p)) \/ Persist(s) \/ Commit(s)
         \/ CommitFailsPartly(s) \/ Assign(s)
  PROVE  Quiet(t)
  BY DEF IInv, TypeOK, ThreadType, OffsetType, BatchesType, Quiet, Attached, Attach, Poll,
         Persist, Commit, CommitFailsPartly, Assign
-----------------------------------------------------------------------------
\* Below the offset of its session a consumer that may be trusted has only
\* kept messages, where the next assignment may put it.
LEMMA AssignedIsKept ==
  ASSUME IInv, NEW s \in Streams, Attached(s), ~lost \/ replay[s],
         NEW p \in Partitions, ~replay[s] \/ p \in recovered[s]
  PROVE  CommittedKept(conn[s], s, p)
<1>1. CASE ~lost
  BY <1>1 DEF IInv, OneFile, CommittedIsKept
<1>2. CASE lost
  BY <1>2 DEF IInv, ReplayIsComplete
<1> QED
  BY <1>1, <1>2

\* When the batch of a trusted consumer is persisted, everything below the
\* offsets it sends is kept.
LEMMA NextIsKept ==
  ASSUME IInv, NEW s \in Streams, pc[s] = "committing", ~lost \/ replay[s],
         NEW next, OffsetsAfter(s, next),
         NEW p \in BatchPartitions(s), NEW o \in 0..(next[p] - 1)
  PROVE  KeptIn(s, p, o)
<1> USE DEF IInv
<1>1. p \in Partitions /\ Attached(s)
  BY BatchType DEF Attached
<1>2. PICK m \in batch[s] : m[1] = p /\ next[p] = m[2] + 1
  BY <1>1 DEF OffsetsAfter
<1>3. m \in Partitions \X Nat /\ m = <<m[1], m[2]>>
  BY DEF TypeOK, BatchesType
<1>4. Covered(s, p, m[2]) /\ \A n \in batch[s] : KeptIn(s, n[1], n[2])
  BY <1>1, <1>2 DEF Coverage, CoverageOf
<1>5. CASE o = m[2]
  BY <1>2, <1>4, <1>5
<1>6. CASE o # m[2]
  <2>1. o \in 0..(m[2] - 1)
    BY <1>2, <1>3, <1>6
  <2>2. CASE <<p, o>> \in batch[s]
    <3>1. <<p, o>>[1] = p /\ <<p, o>>[2] = o
      OBVIOUS
    <3> QED
      BY <2>2, <3>1, <1>4
  <2> QED
    BY <2>1, <2>2, <1>4 DEF Covered
<1> QED
  BY <1>5, <1>6

\* Files and batches stay as OneFile says.
LEMMA OneFileStep == IInv /\ [Next]_vars => OneFile'
<1> SUFFICES ASSUME IInv, [Next]_vars PROVE OneFile'
  OBVIOUS
<1> USE DEF IInv, OneFile, Attached
<1>1. \A s \in Streams : ~Attached(s)' => batch'[s] = {} /\ recovered'[s] = {}
  <2> USE DEF TypeOK, ThreadType, BatchesType, session
  <2>1. CASE AllOff
    BY <2>1 DEF AllOff, EndSessions
  <2>2. ASSUME NEW s \in Streams, ThreadFails(s), ~AllOff
        PROVE  \A t \in Streams : ~Attached(t)' => batch'[t] = {} /\ recovered'[t] = {}
    BY <2>2 DEF ThreadFails, EndSessions
  <2>3. CASE Start \/ CheckOutcomesTable \/ DeleteFile \/ DamageFile \/ UNCHANGED vars
    BY <2>3 DEF Start, CheckOutcomesTable, DeleteFile, DamageFile, vars
  <2>4. ASSUME NEW s \in Streams,
               \/ OpenDb(s) \/ OpenAttemptFails(s) \/ CloseBatch(s) \/ Persist(s)
               \/ PersistThenError(s) \/ Evict(s) \/ RestartThread(s)
        PROVE  \A t \in Streams : ~Attached(t)' => batch'[t] = {} /\ recovered'[t] = {}
    <3>1. batch' = batch /\ recovered' = recovered
      BY <2>4 DEF OpenDb, OpenAttemptFails, CloseBatch, Persist, PersistThenError, Evict,
         RestartThread
    <3>2. \A t \in Streams : Attached(t) => Attached(t)'
      <4>1. CASE OpenDb(s) \/ RestartThread(s)
        BY <4>1 DEF OpenDb, ReadyToOpen, RestartThread
      <4>2. CASE pc' = pc
        BY <4>2
      <4>3. CASE CloseBatch(s) \/ Persist(s)
        BY <4>3 DEF CloseBatch, Persist
      <4> QED
        BY <2>4, <4>1, <4>2, <4>3 DEF OpenAttemptFails, PersistThenError, Evict
    <3> QED
      BY <3>1, <3>2
  <2>5. ASSUME NEW s \in Streams,
               \/ Attach(s) \/ (\E p \in Partitions : Poll(s, p)) \/ Commit(s)
               \/ CommitFailsPartly(s) \/ Assign(s)
        PROVE  \A t \in Streams : ~Attached(t)' => batch'[t] = {} /\ recovered'[t] = {}
    BY <2>5 DEF Attach, Poll, Commit, CommitFailsPartly, Assign
  <2> QED
    BY <2>1, <2>2, <2>3, <2>4, <2>5 DEF Next, Consume, Disturb, Wait, Stop, Rejoin, Rebalance
<1>2. ~lost' => ~lost /\ health' = health
  BY DEF Next, Consume, Disturb, Wait, Start, CheckOutcomesTable, OpenDb,
     OpenAttemptFails, Create, Attach, Poll, CloseBatch, Persist, PersistThenError, Commit,
     CommitFailsPartly, Rejoin, Rebalance, Assign, Evict, AllOff, Stop, ThreadFails,
     RestartThread, DeleteFile, DamageFile, vars, disk
<1>3. ASSUME ~lost', NEW t \in Streams, (pc[t] = "opened" \/ Attached(t))'
      PROVE  conn'[t] = path'
  <2> USE <1>2, <1>3
  <2>1. path # NoFile => Usable
    BY DEF Usable, TypeOK, DiskType
  <2>2. ASSUME NEW s \in Streams, OpenDb(s) PROVE conn'[t] = path'
    <3>1. CASE t = s
      BY <2>2, <3>1 DEF OpenDb, Create, TypeOK, ThreadType
    <3>2. CASE t # s
      <4>1. conn[t] = path /\ conn[t] \in Files /\ conn'[t] = conn[t]
        BY <2>2, <3>2 DEF OpenDb, TypeOK, ThreadType
      <4>2. Usable
        BY <4>1, <2>1, BoundsAssumption
      <4> QED
        BY <2>2, <4>1, <4>2 DEF OpenDb, Create, OpenedFile
    <3> QED
      BY <3>1, <3>2
  <2>3. ASSUME NEW s \in Streams, OpenAttemptFails(s) PROVE conn'[t] = path'
    <3>1. conn[t] = path /\ conn[t] \in Files /\ conn'[t] = conn[t]
      BY <2>3 DEF OpenAttemptFails, session, TypeOK, ThreadType
    <3>2. Usable
      BY <3>1, <2>1, BoundsAssumption
    <3> QED
      BY <2>3, <3>1, <3>2 DEF OpenAttemptFails, Create, OpenedFile
  <2>4. CASE /\ path' = path
             /\ conn'[t] = conn[t]
             /\ pc[t] = "opened" \/ Attached(t)
    BY <2>4
  <2>5. CASE DeleteFile
    BY <2>5 DEF DeleteFile
  <2>6. CASE AllOff
    BY <2>6 DEF AllOff
  <2>7. CASE Start \/ CheckOutcomesTable \/ DamageFile \/ UNCHANGED vars
    BY <2>7, <2>4 DEF Start, CheckOutcomesTable, DamageFile, vars, session, disk, TypeOK,
       ThreadType
  <2>8. ASSUME NEW s \in Streams,
               \/ CloseBatch(s) \/ Persist(s) \/ PersistThenError(s) \/ Evict(s)
               \/ RestartThread(s) \/ Attach(s) \/ (\E p \in Partitions : Poll(s, p))
               \/ Commit(s) \/ CommitFailsPartly(s) \/ Assign(s)
        PROVE  conn'[t] = path'
    BY <2>8, <2>4 DEF CloseBatch, Persist, PersistThenError, Evict, RestartThread, Attach,
       Poll, Commit, CommitFailsPartly, Assign, session, disk, TypeOK, ThreadType
  <2>9. ASSUME NEW s \in Streams, ThreadFails(s), ~AllOff PROVE conn'[t] = path'
    BY <2>9, <2>4 DEF ThreadFails, EndSessions, disk, TypeOK, ThreadType
  <2> QED
    BY <2>2, <2>3, <2>5, <2>6, <2>7, <2>8, <2>9
       DEF Next, Consume, Disturb, Wait, Stop, Rejoin, Rebalance
<1> QED
  BY <1>1, <1>2, <1>3
\* A commit of s sends kept offsets: the two ways it can go.
LEMMA CommitIsKept ==
  ASSUME IInv, NEW s \in Streams, Commit(s) \/ CommitFailsPartly(s),
         ~lost \/ replay[s],
         NEW p \in Partitions,
         \/ CommittedKept(conn[s], s, p)
         \/ Commit(s) /\ p \in BatchPartitions(s)
         \/ p \in recovered'[s]
  PROVE  \A o \in 0..(committed'[s][p] - 1) : KeptIn(s, p, o)
<1> USE DEF IInv
<1>1. pc[s] = "committing" /\ Attached(s)
  BY DEF Commit, CommitFailsPartly, Attached
<1>2. PICK next \in [Partitions -> AllOffsets], taken \in SUBSET BatchPartitions(s) :
        /\ OffsetsAfter(s, next)
        /\ committed'[s][p] = IF p \in taken THEN next[p] ELSE committed[s][p]
        /\ Commit(s) => taken = BatchPartitions(s)
        /\ p \in recovered'[s] => p \in recovered[s] \/ p \in taken
  <2>1. CASE Commit(s)
    <3>1. PICK next \in [Partitions -> AllOffsets] :
            OffsetsAfter(s, next) /\ committed' = [committed EXCEPT ![s] = next]
      BY <2>1 DEF Commit
    <3>2. committed'[s][p] = IF p \in BatchPartitions(s) THEN next[p] ELSE committed[s][p]
      BY <3>1 DEF OffsetsAfter, TypeOK, OffsetType
    <3>3. recovered'[s] = recovered[s] \cup BatchPartitions(s)
      BY <2>1 DEF Commit, TypeOK, BatchesType
    <3> QED
      BY <3>1, <3>2, <3>3
  <2>2. CASE CommitFailsPartly(s) /\ ~Commit(s)
    <3>1. PICK taken \in SUBSET BatchPartitions(s), next \in [Partitions -> AllOffsets] :
            /\ OffsetsAfter(s, next)
            /\ committed' = [committed EXCEPT ![s] =
                 [q \in Partitions |-> IF q \in taken THEN next[q] ELSE @[q]]]
            /\ \E told \in SUBSET taken :
                 /\ told # BatchPartitions(s)
                 /\ recovered' = [recovered EXCEPT ![s] = @ \cup told]
      BY <2>2 DEF CommitFailsPartly
    <3>2. committed'[s][p] = IF p \in taken THEN next[p] ELSE committed[s][p]
      BY <3>1 DEF TypeOK, OffsetType
    <3>3. \E told \in SUBSET taken : recovered'[s] = recovered[s] \cup told
      BY <3>1 DEF TypeOK, BatchesType
    <3> QED
      BY <2>2, <3>1, <3>2, <3>3
  <2> QED
    BY <2>1, <2>2
<1>3. CASE p \in taken
  BY <1>1, <1>2, <1>3, NextIsKept
<1>4. CASE p \notin taken
  <2>1. CommittedKept(conn[s], s, p)
    BY <1>1, <1>2, <1>4 DEF ReplayIsComplete, CommittedIsKept, OneFile
  <2> QED
    BY <1>2, <1>4, <2>1 DEF CommittedKept, KeptIn
<1> QED
  BY <1>3, <1>4

\* CommittedIsKept survives every step.
LEMMA CommittedStep == IInv /\ [Next]_vars => CommittedIsKept'
<1> SUFFICES ASSUME IInv, [Next]_vars, ~lost', NEW s \in Streams, NEW p \in Partitions
             PROVE  CommittedKept(path, s, p)'
  BY DEF CommittedIsKept
<1> USE DEF IInv
<1>1. ~lost /\ CommittedKept(path, s, p) /\ (path # NoFile => Usable)
  <2>1. lost => lost'
    BY DEF Next, Consume, Disturb, Wait, Start, CheckOutcomesTable, OpenDb,
       OpenAttemptFails, Attach, Poll, CloseBatch, Persist, PersistThenError, Commit,
       CommitFailsPartly, Rejoin, Rebalance, Assign, Evict, AllOff, Stop, ThreadFails,
       RestartThread, DeleteFile, DamageFile, vars
  <2> QED
    BY <2>1 DEF CommittedIsKept, OneFile, Usable, TypeOK, DiskType
<1>2. path' = path \/ (path = NoFile /\ path' \in Files)
  BY <1>1 DEF Next, Consume, Disturb, Wait, Start, CheckOutcomesTable, OpenDb, Create,
     OpenedFile, OpenAttemptFails, Attach, Poll, CloseBatch, Persist, PersistThenError,
     Commit, CommitFailsPartly, Rejoin, Rebalance, Assign, Evict, AllOff, Stop,
     ThreadFails, RestartThread, DeleteFile, DamageFile, vars, disk
<1>3. CASE committed'[s] = committed[s]
  <2>1. CASE path' = NoFile
    BY <1>1, <1>2, <1>3, <2>1, BoundsAssumption DEF CommittedKept, RowsOf, Message
  <2>2. CASE path' \in Files
    <3>1. /\ path' # NoFile /\ path \in Files \cup {NoFile}
          /\ path = NoFile \/ path' = path
      BY <1>2, <2>2, BoundsAssumption DEF TypeOK, DiskType
    <3>2. \A o \in 0..(committed[s][p] - 1) : Kept(rows'[path'][s], Message(s, p, o))
      BY <1>1, <2>2, <3>1, CommittedStays
    <3> QED
      BY <1>3, <3>1, <3>2 DEF CommittedKept, RowsOf, Message
  <2> QED
    BY <2>1, <2>2, <1>2 DEF TypeOK, DiskType
<1>4. CASE Commit(s) \/ CommitFailsPartly(s)
  <2>1. conn[s] = path /\ path' = path /\ rows' = rows
    BY <1>1, <1>4 DEF OneFile, Attached, Commit, CommitFailsPartly, disk
  <2>2. \A o \in 0..(committed'[s][p] - 1) : KeptIn(s, p, o)
    BY <1>1, <1>4, <2>1, CommitIsKept
  <2> QED
    BY <2>1, <2>2 DEF CommittedKept, KeptIn, RowsOf, Message
<1>5. CASE \E t \in Streams \ {s} : Commit(t) \/ CommitFailsPartly(t)
  <2>1. committed'[s] = committed[s]
    BY <1>5 DEF Commit, CommitFailsPartly, TypeOK, OffsetType
  <2> QED
    BY <1>3, <2>1
<1> QED
  BY <1>3, <1>4, <1>5
     DEF Next, Consume, Disturb, Wait, Start, CheckOutcomesTable, OpenDb,
       OpenAttemptFails, Attach, Poll, CloseBatch, Persist, PersistThenError,
       Rejoin, Rebalance, Assign, Evict, AllOff, Stop, ThreadFails,
       RestartThread, DeleteFile, DamageFile, vars
-----------------------------------------------------------------------------
\* A consumer's own step: it starts a session.
LEMMA AttachStep ==
  ASSUME IInv, [Next]_vars, NEW s \in Streams, Attach(s)
  PROVE  CoverageOf(s)' /\ ReplayOf(s)'
<1> USE DEF IInv
<1>1. /\ pc[s] = "opened" /\ batch'[s] = {} /\ recovered'[s] = {}
      /\ conn' = conn /\ replay' = replay /\ rows' = rows /\ lost' = lost
      /\ pc'[s] = "polling"
      /\ \A p \in Partitions : pos'[s][p] = IF replay[s] THEN 0 ELSE committed[s][p]
  BY DEF Attach, StartsAt, OneFile, Attached, disk, TypeOK, ThreadType, OffsetType
<1>2. ASSUME ~lost \/ replay[s], NEW p \in Partitions
      PROVE  Covered(s, p, pos[s][p])'
  <2>1. CASE replay[s]
    BY <1>1, <2>1 DEF Covered
  <2>2. CASE ~replay[s]
    <3>1. conn[s] = path /\ CommittedKept(path, s, p)
      BY <1>1, <1>2, <2>2 DEF OneFile, CommittedIsKept
    <3> QED
      BY <1>1, <2>2, <3>1 DEF CommittedKept, Covered, KeptIn, RowsOf, Message
  <2> QED
    BY <2>1, <2>2
<1> QED
  BY <1>1, <1>2 DEF CoverageOf, ReplayOf

\* It polls a message: the position it passes is in the batch.
LEMMA PollStep ==
  ASSUME IInv, [Next]_vars, NEW s \in Streams, NEW q \in Partitions, Poll(s, q)
  PROVE  CoverageOf(s)' /\ ReplayOf(s)'
<1> USE DEF IInv
<1>1. /\ Attached(s) /\ pc' = pc /\ conn' = conn /\ replay' = replay /\ rows' = rows
      /\ lost' = lost /\ committed' = committed /\ recovered' = recovered
      /\ pc[s] = "polling"
  BY DEF Poll, Attached, disk
<1>2. /\ batch'[s] = batch[s] \cup {<<q, pos[s][q]>>}
      /\ pos[s][q] \in Nat
      /\ \A p \in Partitions : pos'[s][p] = IF p = q THEN pos[s][q] + 1 ELSE pos[s][p]
  BY DEF Poll, TypeOK, OffsetType, BatchesType
<1>3. ReplayOf(s)'
  BY <1>1 DEF ReplayOf, ReplayIsComplete, Attached, CommittedKept, RowsOf, Message
<1>4. ASSUME NEW p \in Partitions, NEW n, Covered(s, p, n)
      PROVE  \A o \in 0..(n - 1) : <<p, o>> \in batch'[s] \/ KeptIn(s, p, o)'
  BY <1>1, <1>2, <1>4 DEF Covered, KeptIn, RowsOf, Message
<1>5. CoverageOf(s)'
  <2> SUFFICES ASSUME ~lost \/ replay[s]
               PROVE  /\ \A p \in Partitions : Covered(s, p, pos[s][p])'
                      /\ \A m \in batch'[s] : Covered(s, m[1], m[2])'
    BY <1>1 DEF CoverageOf
  <2>1. /\ \A p \in Partitions : Covered(s, p, pos[s][p])
        /\ \A m \in batch[s] : Covered(s, m[1], m[2])
    BY <1>1 DEF Coverage, CoverageOf
  <2>2. ASSUME NEW p \in Partitions PROVE Covered(s, p, pos[s][p])'
    <3>1. \A o \in 0..(pos[s][p] - 1) : <<p, o>> \in batch'[s] \/ KeptIn(s, p, o)'
      BY <1>4, <2>1
    <3>2. CASE p = q
      BY <1>2, <3>1, <3>2 DEF Covered
    <3>3. CASE p # q
      BY <1>2, <3>1, <3>3 DEF Covered
    <3> QED
      BY <3>2, <3>3
  <2>3. ASSUME NEW m \in batch'[s] PROVE Covered(s, m[1], m[2])'
    <3>1. CASE m \in batch[s]
      <4>1. m[1] \in Partitions
        BY <3>1, OffsetInTopic
      <4> QED
        BY <1>4, <2>1, <3>1, <4>1 DEF Covered
    <3>2. CASE m = <<q, pos[s][q]>>
      BY <1>4, <2>1, <3>2 DEF Covered
    <3> QED
      BY <1>2, <3>1, <3>2
  <2> QED
    BY <2>2, <2>3
<1> QED
  BY <1>3, <1>5

\* It writes its batch: what it had covered stays so, and the batch is kept.
LEMMA PersistStep ==
  ASSUME IInv, [Next]_vars, NEW s \in Streams, Persist(s)
  PROVE  CoverageOf(s)' /\ ReplayOf(s)'
<1> USE DEF IInv
<1>1. /\ Attached(s) /\ conn[s] \in Files /\ conn[s] # NoFile
      /\ conn' = conn /\ replay' = replay /\ lost' = lost /\ committed' = committed
      /\ recovered' = recovered /\ batch' = batch /\ pos' = pos
  BY BoundsAssumption DEF Persist, Attached, TypeOK, ThreadType
<1>2. ReplayOf(s)'
  <2> SUFFICES ASSUME replay[s], NEW p \in recovered[s]
               PROVE  CommittedKept(conn[s], s, p)'
    BY <1>1 DEF ReplayOf
  <2>1. p \in Partitions /\ CommittedKept(conn[s], s, p)
    BY <1>1 DEF ReplayIsComplete, TypeOK, BatchesType
  <2>2. \A o \in 0..(committed[s][p] - 1) : Kept(rows'[conn[s]][s], Message(s, p, o))
    BY <1>1, <2>1, CommittedStays
  <2> QED
    BY <1>1, <2>2 DEF CommittedKept, RowsOf, Message
<1>3. CoverageOf(s)'
  <2> SUFFICES ASSUME ~lost \/ replay[s]
               PROVE  /\ \A p \in Partitions : Covered(s, p, pos[s][p])'
                      /\ \A m \in batch[s] : Covered(s, m[1], m[2])'
                      /\ \A m \in batch[s] : KeptIn(s, m[1], m[2])'
    BY <1>1 DEF CoverageOf
  <2>1. /\ \A p \in Partitions : Covered(s, p, pos[s][p])
        /\ \A m \in batch[s] : Covered(s, m[1], m[2])
    BY <1>1 DEF Coverage, CoverageOf
  <2>2. ASSUME NEW p \in Partitions PROVE Covered(s, p, pos[s][p])'
    <3>1. \A o \in 0..(pos[s][p] - 1) : KeptIn(s, p, o) => KeptIn(s, p, o)'
      BY <1>1, KeptInStays, OffsetInTopic
    <3> QED
      BY <1>1, <2>1, <3>1 DEF Covered
  <2>3. ASSUME NEW m \in batch[s] PROVE Covered(s, m[1], m[2])'
    <3>1. \A o \in 0..(m[2] - 1) : KeptIn(s, m[1], o) => KeptIn(s, m[1], o)'
      BY <1>1, KeptInStays, OffsetInTopic
    <3> QED
      BY <1>1, <2>1, <3>1 DEF Covered
  <2>4. ASSUME NEW m \in batch[s] PROVE KeptIn(s, m[1], m[2])'
    BY <1>1, BatchIsKept DEF KeptIn, RowsOf, Message
  <2> QED
    BY <2>2, <2>3, <2>4
<1> QED
  BY <1>2, <1>3

\* It commits its batch, or some partitions of it.
LEMMA CommitStep ==
  ASSUME IInv, [Next]_vars, NEW s \in Streams, Commit(s) \/ CommitFailsPartly(s)
  PROVE  CoverageOf(s)' /\ ReplayOf(s)'
<1> USE DEF IInv
<1>1. /\ Attached(s) /\ conn[s] \in Files /\ pc[s] = "committing"
      /\ conn' = conn /\ replay' = replay /\ lost' = lost /\ rows' = rows /\ pos' = pos
  BY DEF Commit, CommitFailsPartly, Attached, TypeOK, ThreadType, disk
<1>2. CoverageOf(s)'
  <2> SUFFICES ASSUME ~lost \/ replay[s]
               PROVE  /\ \A p \in Partitions : Covered(s, p, pos[s][p])'
                      /\ \A m \in batch'[s] : Covered(s, m[1], m[2])'
                      /\ pc'[s] = "committing" => \A m \in batch'[s] : KeptIn(s, m[1], m[2])'
    BY <1>1 DEF CoverageOf
  <2>1. /\ \A p \in Partitions : Covered(s, p, pos[s][p])
        /\ \A m \in batch[s] : Covered(s, m[1], m[2])
        /\ \A m \in batch[s] : KeptIn(s, m[1], m[2])
    BY <1>1 DEF Coverage, CoverageOf
  <2>2. \A p, o : KeptIn(s, p, o)' <=> KeptIn(s, p, o)
    BY <1>1 DEF KeptIn, RowsOf, Message
  <2>3. CASE Commit(s)
    <3>1. batch'[s] = {} /\ pc'[s] = "polling"
      BY <2>3 DEF Commit, TypeOK, ThreadType, BatchesType
    <3>2. ASSUME NEW p \in Partitions, NEW o \in 0..(pos[s][p] - 1) PROVE KeptIn(s, p, o)
      <4>1. CASE <<p, o>> \in batch[s]
        <5>1. <<p, o>>[1] = p /\ <<p, o>>[2] = o
          OBVIOUS
        <5> QED
          BY <2>1, <4>1, <5>1
      <4> QED
        BY <2>1, <4>1 DEF Covered
    <3> QED
      BY <1>1, <2>2, <3>1, <3>2 DEF Covered
  <2>4. CASE CommitFailsPartly(s)
    <3>1. batch' = batch
      BY <2>4 DEF CommitFailsPartly
    <3> QED
      BY <1>1, <2>1, <2>2, <3>1 DEF Covered
  <2> QED
    BY <2>3, <2>4
<1>3. ReplayOf(s)'
  <2> SUFFICES ASSUME replay[s], NEW p \in recovered'[s]
               PROVE  CommittedKept(conn[s], s, p)'
    BY <1>1 DEF ReplayOf
  <2>1. p \in Partitions
    BY TypeStep DEF TypeOK, BatchesType
  <2>2. p \in recovered[s] \/ p \in BatchPartitions(s)
    BY DEF Commit, CommitFailsPartly, TypeOK, BatchesType
  <2>3. \A o \in 0..(committed'[s][p] - 1) : KeptIn(s, p, o)
    BY <2>1, CommitIsKept
  <2> QED
    BY <1>1, <2>3 DEF CommittedKept, KeptIn, RowsOf, Message
<1> QED
  BY <1>2, <1>3

\* Its partitions are assigned again: at the beginning, or where all is kept.
LEMMA AssignStep ==
  ASSUME IInv, [Next]_vars, NEW s \in Streams, Assign(s)
  PROVE  CoverageOf(s)' /\ ReplayOf(s)'
<1> USE DEF IInv
<1>1. /\ Attached(s) /\ pc' = pc /\ conn' = conn /\ replay' = replay /\ rows' = rows
      /\ lost' = lost /\ committed' = committed /\ recovered' = recovered
      /\ batch' = batch /\ pc[s] = "polling"
      /\ \A p \in Partitions :
           pos'[s][p] = IF replay[s] /\ p \notin recovered[s] THEN 0 ELSE committed[s][p]
  BY DEF Assign, StartsAt, Attached, disk, TypeOK, OffsetType
<1>2. ReplayOf(s)'
  BY <1>1 DEF ReplayOf, ReplayIsComplete, Attached, CommittedKept, RowsOf, Message
<1>3. CoverageOf(s)'
  <2> SUFFICES ASSUME ~lost \/ replay[s]
               PROVE  /\ \A p \in Partitions : Covered(s, p, pos[s][p])'
                      /\ \A m \in batch[s] : Covered(s, m[1], m[2])'
    BY <1>1 DEF CoverageOf
  <2>1. ASSUME NEW p \in Partitions PROVE Covered(s, p, pos[s][p])'
    <3>1. CASE replay[s] /\ p \notin recovered[s]
      BY <1>1, <3>1 DEF Covered
    <3>2. CASE ~(replay[s] /\ p \notin recovered[s])
      <4>1. CommittedKept(conn[s], s, p)
        BY <1>1, <3>2, AssignedIsKept
      <4> QED
        BY <1>1, <3>2, <4>1 DEF CommittedKept, Covered, KeptIn, RowsOf, Message
    <3> QED
      BY <3>1, <3>2
  <2>2. ASSUME NEW m \in batch[s] PROVE Covered(s, m[1], m[2])'
    <3>1. Covered(s, m[1], m[2])
      BY <1>1 DEF Coverage, CoverageOf
    <3> QED
      BY <1>1, <3>1 DEF Covered, KeptIn, RowsOf, Message
  <2> QED
    BY <2>1, <2>2
<1> QED
  BY <1>2, <1>3
-----------------------------------------------------------------------------
LEMMA InitInv == Init => IInv
<1> SUFFICES ASSUME Init PROVE IInv
  OBVIOUS
<1>1. TypeOK
  BY InitType
<1>2. OneFile
  BY DEF Init, OneFile, Attached
<1>3. Coverage /\ ReplayIsComplete
  BY DEF Init, Coverage, CoverageOf, ReplayIsComplete, Attached
<1>4. CommittedIsKept
  BY DEF Init, CommittedIsKept, CommittedKept, Idle
<1> QED
  BY <1>1, <1>2, <1>3, <1>4 DEF IInv

\* What IInv says of a stream, after any step.
LEMMA StreamStep ==
  ASSUME IInv, [Next]_vars, NEW t \in Streams
  PROVE  CoverageOf(t)' /\ ReplayOf(t)'
<1>1. CASE \/ Start \/ CheckOutcomesTable \/ Stop \/ DeleteFile \/ DamageFile
           \/ UNCHANGED vars
           \/ \E s \in Streams : \/ OpenDb(s) \/ OpenAttemptFails(s) \/ CloseBatch(s)
                                 \/ PersistThenError(s) \/ Evict(s) \/ ThreadFails(s)
                                 \/ RestartThread(s)
  <2>1. Quiet(t)
    BY <1>1, QuietSteps
  <2> QED
    BY <2>1, QuietStream
<1>2. ASSUME NEW s \in Streams,
             \/ Attach(s) \/ (\E p \in Partitions : Poll(s, p)) \/ Persist(s) \/ Commit(s)
             \/ CommitFailsPartly(s) \/ Assign(s)
      PROVE  CoverageOf(t)' /\ ReplayOf(t)'
  <2>1. CASE t = s
    BY <1>2, <2>1, AttachStep, PollStep, PersistStep, CommitStep, AssignStep
  <2>2. CASE t # s
    <3>1. t \in Streams \ {s}
      BY <2>2
    <3>2. Quiet(t)
      BY <1>2, <3>1, OthersQuiet
    <3> QED
      BY <3>2, QuietStream
  <2> QED
    BY <2>1, <2>2
<1> QED
  BY <1>1, <1>2 DEF Next, Consume, Disturb, Wait, Rejoin, Rebalance

\* IInv is inductive.
LEMMA InvStep == IInv /\ [Next]_vars => IInv'
<1> SUFFICES ASSUME IInv, [Next]_vars PROVE IInv'
  OBVIOUS
<1>1. TypeOK'
  BY TypeStep DEF IInv
<1>2. OneFile' /\ CommittedIsKept'
  BY OneFileStep, CommittedStep
<1>3. Coverage'
  BY StreamStep DEF Coverage
<1>4. ReplayIsComplete'
  BY StreamStep DEF ReplayIsComplete, ReplayOf
<1> QED
  BY <1>1, <1>2, <1>3, <1>4 DEF IInv

\* IInv holds throughout: what is behind consume_loop and its outcomes twin is
\* kept, through every fault, restart and reassignment.
THEOREM InductiveInvariant == Spec => []IInv
  BY InitInv, InvStep, PTL DEF Spec

\* While no file was lost, a committed message is in its table or retired by
\* retention, for every topic, batch size, fault and interleaving: the
\* commit of consume_loop and consume_outcomes_loop follows the insert.
THEOREM CommittedAlwaysKept == Spec => []CommittedIsKept
<1>1. IInv => CommittedIsKept
  BY DEF IInv
<1> QED
  BY <1>1, InductiveInvariant, PTL

\* A replaying consumer has in the file it writes every message below the
\* offset of each partition it has committed: on_assign of
\* _subscribe_for_projection rewinds the others, whatever was lost before.
THEOREM ReplayAlwaysComplete == Spec => []ReplayIsComplete
<1>1. IInv => ReplayIsComplete
  BY DEF IInv
<1> QED
  BY <1>1, InductiveInvariant, PTL

-----------------------------------------------------------------------------
\* Retention.  The counter of rows inserted since the last prune is local to
\* the consumer's loop: a table exceeds the cap by what the counter says, and
\* by one interval for each time the counter was lost.

\* An insert that commits before the error adds a whole batch uncounted when
\* the process dies before the retry.
Burst == IF "write" \in FaultKinds THEN BatchMax ELSE 0
Interval == PruneEvery - 1 + Burst
Allowed(n) == KeepRows + n * Interval

InLoop(s) == pc[s] = "opened" \/ Attached(s)
Outside(s) == ~InLoop(s) => conn[s] = NoFile /\ sincePrune[s] = 0
SmallBatch(s) == IsFiniteSet(batch[s]) /\ Cardinality(batch[s]) <= BatchMax
\* The counter is below the interval, or a failed prune is about to be retried.
Counted(s) ==
  \/ sincePrune[s] <= PruneEvery - 1
  \/ pc[s] = "writing" /\ Events(s) \subseteq Table(s) /\ sincePrune[s] <= Interval
Bounded(s) ==
  \A f \in Files : Cardinality(rows[f][s]) <=
    Allowed(faults) + (IF conn[s] = f THEN sincePrune[s] ELSE 0)
RetentionOf(s) == Outside(s) /\ SmallBatch(s) /\ Counted(s) /\ Bounded(s)

LEMMA AllowedGrows ==
  /\ PruneEvery - 1 \in Nat /\ BatchMax \in Nat /\ KeepRows \in Nat /\ Interval \in Nat
  /\ PruneEvery - 1 <= Interval
  /\ \A n \in Nat : Allowed(n) \in Nat /\ Allowed(n + 1) = Allowed(n) + Interval
                    /\ KeepRows <= Allowed(n)
<1>1. PruneEvery - 1 \in Nat /\ BatchMax \in Nat /\ KeepRows \in Nat /\ Interval \in Nat
      /\ PruneEvery - 1 <= Interval
  BY LimitsAssumption DEF Interval, Burst
<1> HIDE DEF Interval
<1>2. ASSUME NEW n \in Nat
      PROVE  Allowed(n) \in Nat /\ Allowed(n + 1) = Allowed(n) + Interval
             /\ KeepRows <= Allowed(n)
  BY <1>1 DEF Allowed
<1> QED
  BY <1>1, <1>2

LEMMA TableCount ==
  ASSUME TypeOK, NEW s \in Streams, NEW f \in Files
  PROVE  /\ IsFiniteSet(rows[f][s]) /\ Cardinality(rows[f][s]) \in Nat
         /\ sincePrune[s] \in Nat /\ faults \in Nat
  BY TableFinite DEF TypeOK, DiskType, ThreadType

LEMMA InitRetention == Init => \A s \in Streams : RetentionOf(s)
<1> SUFFICES ASSUME Init, NEW s \in Streams PROVE RetentionOf(s)
  OBVIOUS
<1>1. Outside(s) /\ SmallBatch(s) /\ Counted(s)
  BY AllowedGrows, FS_EmptySet
     DEF Init, Outside, InLoop, Attached, SmallBatch, Counted
<1>2. Bounded(s)
  BY AllowedGrows, FS_EmptySet DEF Init, Bounded
<1> QED
  BY <1>1, <1>2 DEF RetentionOf

\* What a step does to stream t when it neither writes t's tables nor opens,
\* closes or counts its session.
Untouched(t) ==
  /\ conn'[t] = conn[t] /\ sincePrune'[t] = sincePrune[t]
  /\ \A f \in Files : rows'[f][t] = rows[f][t]
  /\ InLoop(t)' <=> InLoop(t)
  /\ faults' = faults \/ faults' = faults + 1
  /\ \/ batch'[t] = batch[t] /\ (pc[t] = "writing" => pc'[t] = "writing")
     \/ SmallBatch(t)' /\ pc[t] # "writing"

LEMMA UntouchedKeeps ==
  ASSUME TypeOK, NEW t \in Streams, RetentionOf(t), Untouched(t)
  PROVE  RetentionOf(t)'
<1>1. Outside(t)'
  BY DEF RetentionOf, Outside, Untouched
<1>2. SmallBatch(t)'
  BY DEF RetentionOf, SmallBatch, Untouched
<1>3. Counted(t)'
  <2>1. CASE sincePrune[t] <= PruneEvery - 1
    BY <2>1 DEF Untouched, Counted
  <2>2. CASE ~(sincePrune[t] <= PruneEvery - 1)
    <3>1. pc[t] = "writing" /\ Events(t) \subseteq Table(t) /\ sincePrune[t] <= Interval
      BY <2>2 DEF RetentionOf, Counted
    <3>2. conn[t] \in Files
      BY <3>1 DEF TypeOK, ThreadType, Attached
    <3>3. Events(t)' = Events(t) /\ Table(t)' = Table(t) /\ pc'[t] = "writing"
      BY <3>1, <3>2 DEF Untouched, Events, Table, Message
    <3> QED
      BY <3>1, <3>3 DEF Untouched, Counted
  <2> QED
    BY <2>1, <2>2
<1>4. Bounded(t)'
  <2> SUFFICES ASSUME NEW f \in Files
               PROVE  Cardinality(rows'[f][t]) <=
                        Allowed(faults') + (IF conn'[t] = f THEN sincePrune'[t] ELSE 0)
    BY DEF Bounded
  <2>1. Cardinality(rows[f][t]) <=
          Allowed(faults) + (IF conn[t] = f THEN sincePrune[t] ELSE 0)
    BY DEF RetentionOf, Bounded
  <2>2. Allowed(faults) <= Allowed(faults') /\ Allowed(faults) \in Nat /\ Allowed(faults') \in Nat
    BY TableCount, AllowedGrows DEF Untouched
  <2>3. rows'[f][t] = rows[f][t] /\ conn'[t] = conn[t] /\ sincePrune'[t] = sincePrune[t]
    BY DEF Untouched
  <2> QED
    BY <2>1, <2>2, <2>3, TableCount
<1> QED
  BY <1>1, <1>2, <1>3, <1>4 DEF RetentionOf

\* A session ends: its counter is lost, at the price of a fault.
LEMMA EndedKeeps ==
  ASSUME TypeOK, NEW t \in Streams, RetentionOf(t),
         conn'[t] = NoFile, sincePrune'[t] = 0, batch'[t] = {},
         ~InLoop(t)', rows' = rows, faults' = faults + 1
  PROVE  RetentionOf(t)'
<1>1. Outside(t)' /\ SmallBatch(t)' /\ Counted(t)'
  BY AllowedGrows, FS_EmptySet DEF Outside, SmallBatch, Counted
<1>2. Bounded(t)'
  <2> SUFFICES ASSUME NEW f \in Files
               PROVE  Cardinality(rows[f][t]) <= Allowed(faults + 1)
    <3>1. Allowed(faults') = Allowed(faults + 1) /\ Allowed(faults + 1) \in Nat
      BY AllowedGrows DEF TypeOK, ThreadType
    <3>2. \A f \in Files : conn'[t] # f
      BY BoundsAssumption
    <3> QED
      BY <3>1, <3>2 DEF Bounded
  <2>1. Cardinality(rows[f][t]) <=
          Allowed(faults) + (IF conn[t] = f THEN sincePrune[t] ELSE 0)
    BY DEF RetentionOf, Bounded
  <2>2. sincePrune[t] <= Interval
    BY AllowedGrows, TableCount DEF RetentionOf, Counted
  <2>3. /\ Allowed(faults) \in Nat /\ Allowed(faults + 1) = Allowed(faults) + Interval
        /\ Interval \in Nat /\ sincePrune[t] \in Nat /\ Cardinality(rows[f][t]) \in Nat
    BY TableCount, AllowedGrows
  <2> QED
    BY <2>1, <2>2, <2>3
<1> QED
  BY <1>1, <1>2 DEF RetentionOf

LEMMA OpenKeeps ==
  ASSUME TypeOK, NEW s \in Streams, RetentionOf(s), OpenDb(s)
  PROVE  RetentionOf(s)'
<1>1. /\ conn[s] = NoFile /\ sincePrune[s] = 0
      /\ sincePrune'[s] = 0 /\ batch' = batch /\ rows' = rows /\ faults' = faults
      /\ pc'[s] = "opened"
  BY DEF OpenDb, ReadyToOpen, Create, RetentionOf, Outside, InLoop, Attached,
         TypeOK, ThreadType
<1>2. Outside(s)' /\ SmallBatch(s)' /\ Counted(s)'
  BY <1>1, AllowedGrows DEF RetentionOf, Outside, InLoop, SmallBatch, Counted
<1>3. Bounded(s)'
  BY <1>1, BoundsAssumption DEF RetentionOf, Bounded
<1> QED
  BY <1>2, <1>3 DEF RetentionOf

\* A poll adds one message to a batch that is not full.
LEMMA PollSmall ==
  ASSUME TypeOK, NEW s \in Streams, RetentionOf(s), NEW p \in Partitions, Poll(s, p)
  PROVE  SmallBatch(s)'
<1>1. batch'[s] = batch[s] \cup {<<p, pos[s][p]>>} /\ Cardinality(batch[s]) < BatchMax
  BY DEF Poll, TypeOK, BatchesType
<1>2. IsFiniteSet(batch[s]) /\ Cardinality(batch[s]) \in Nat
  BY FS_CardinalityType DEF RetentionOf, SmallBatch
<1> DEFINE polled == <<p, pos[s][p]>>
<1>3. /\ IsFiniteSet(batch'[s])
      /\ Cardinality(batch'[s]) <= Cardinality(batch[s]) + 1
  <2>1. /\ IsFiniteSet(batch[s] \cup {polled})
        /\ Cardinality(batch[s] \cup {polled}) =
             IF polled \in batch[s] THEN Cardinality(batch[s]) ELSE Cardinality(batch[s]) + 1
    BY <1>2, FS_AddElement
  <2> QED
    BY <1>1, <1>2, <2>1
<1>4. Cardinality(batch'[s]) \in Nat
  BY <1>3, FS_CardinalityType
<1> QED
  BY <1>1, <1>2, <1>3, <1>4, LimitsAssumption DEF SmallBatch

\* A batch inserts at most BatchMax rows.
LEMMA EventsSmall ==
  ASSUME TypeOK, NEW s \in Streams, SmallBatch(s)
  PROVE  Cardinality(Events(s)) <= BatchMax
<1> DEFINE msg == [m \in batch[s] |-> Message(s, m[1], m[2])]
           all == {Message(s, m[1], m[2]) : m \in batch[s]}
<1>1. msg \in Surjection(batch[s], all)
  BY DEF Surjection
<1>2. IsFiniteSet(all) /\ Cardinality(all) <= Cardinality(batch[s])
  BY <1>1, FS_Surjection DEF SmallBatch
<1>3. Cardinality(Events(s)) <= Cardinality(all)
  BY <1>2, FS_Subset DEF Events
<1>4. /\ Cardinality(all) \in Nat /\ Cardinality(batch[s]) \in Nat
      /\ Cardinality(Events(s)) \in Nat
  BY <1>2, FS_CardinalityType, BatchType, TableFinite DEF SmallBatch
<1> QED
  BY <1>2, <1>3, <1>4, LimitsAssumption DEF SmallBatch

\* What the insert adds to the table is what it adds to the counter.
LEMMA InsertCounts ==
  ASSUME TypeOK, NEW s \in Streams, conn[s] \in Files
  PROVE  /\ Cardinality(TableAfter(s)) = Cardinality(Table(s)) + Cardinality(Events(s) \ Table(s))
         /\ Cardinality(Events(s) \ Table(s)) <= Cardinality(Events(s))
         /\ Cardinality(Events(s) \ Table(s)) \in Nat /\ Cardinality(Events(s)) \in Nat
         /\ Cardinality(Table(s)) \in Nat
<1> DEFINE new == Events(s) \ Table(s)
<1>1. Table(s) \in SUBSET Keys /\ Events(s) \in SUBSET Keys /\ new \in SUBSET Keys
  BY PersistType, BatchType
<1>2. /\ IsFiniteSet(Table(s)) /\ IsFiniteSet(Events(s)) /\ IsFiniteSet(new)
      /\ Cardinality(Table(s)) \in Nat /\ Cardinality(Events(s)) \in Nat
      /\ Cardinality(new) \in Nat
  BY <1>1, TableFinite
<1>3. TableAfter(s) = Table(s) \cup new /\ Table(s) \cap new = {}
  BY DEF TableAfter
<1>4. Cardinality(TableAfter(s)) =
        Cardinality(Table(s)) + Cardinality(new) - Cardinality(Table(s) \cap new)
  BY <1>2, <1>3, FS_Union
<1>5. Cardinality(Table(s) \cap new) = 0
  BY <1>3, FS_EmptySet
<1>6. Cardinality(new) <= Cardinality(Events(s))
  BY <1>2, FS_Subset
<1> QED
  BY <1>2, <1>4, <1>5, <1>6

LEMMA PersistKeeps ==
  ASSUME TypeOK, NEW s \in Streams, RetentionOf(s), Persist(s)
  PROVE  RetentionOf(s)'
<1>1. /\ conn[s] \in Files /\ conn'[s] = conn[s] /\ batch' = batch /\ faults' = faults
      /\ pc'[s] = "committing" /\ pc[s] = "writing"
  BY DEF Persist, TypeOK, ThreadType, Attached
<1>2. Outside(s)' /\ SmallBatch(s)'
  BY <1>1 DEF RetentionOf, Outside, InLoop, Attached, SmallBatch
<1> DEFINE new == Cardinality(Events(s) \ Table(s))
<1>3. /\ new \in Nat /\ Cardinality(Table(s)) \in Nat /\ sincePrune[s] \in Nat /\ faults \in Nat
      /\ Cardinality(TableAfter(s)) = Cardinality(Table(s)) + new
      /\ InsertedSince(s) = sincePrune[s] + new
      /\ Cardinality(Table(s)) <= Allowed(faults) + sincePrune[s]
      /\ Allowed(faults) \in Nat /\ KeepRows <= Allowed(faults)
      /\ KeepRows \in Nat /\ PruneEvery \in Nat \ {0}
  BY <1>1, InsertCounts, TableCount, AllowedGrows, LimitsAssumption
     DEF InsertedSince, RetentionOf, Bounded, Table
<1> HIDE DEF new
<1>4. CASE InsertedSince(s) < PruneEvery
  <2>0. InsertedSince(s) < PruneEvery /\ Persist(s)
    BY <1>4
  <2>1. /\ sincePrune'[s] = InsertedSince(s)
        /\ \A f \in Files :
             rows'[f][s] = IF f = conn[s] THEN TableAfter(s) ELSE rows[f][s]
    <3>1. /\ rows' = [rows EXCEPT ![conn[s]][s] = TableAfter(s)]
          /\ sincePrune' = [sincePrune EXCEPT ![s] = InsertedSince(s)]
      BY <2>0 DEF Persist
    <3>2. sincePrune'[s] = InsertedSince(s)
      BY <3>1 DEF TypeOK, ThreadType
    <3>3. \A f \in Files : rows'[f][s] = IF f = conn[s] THEN TableAfter(s) ELSE rows[f][s]
      <4> DEFINE T == TableAfter(s)
      <4>1. rows' = [rows EXCEPT ![conn[s]][s] = T]
        BY <3>1
      <4> HIDE DEF T
      <4>2. rows \in [Files -> [Streams -> SUBSET Keys]]
        BY DEF TypeOK, DiskType
      <4>3. \A f \in Files : rows'[f][s] = IF f = conn[s] THEN T ELSE rows[f][s]
        BY ONLY <1>1, <4>1, <4>2, s \in Streams
      <4> QED BY <4>3 DEF T
    <3> QED BY <3>2, <3>3
  <2>2. Counted(s)'
    BY <1>3, <1>4, <2>1 DEF Counted
  <2>3. Bounded(s)'
    BY <1>1, <1>3, <2>1 DEF RetentionOf, Bounded
  <2> QED
    BY <1>2, <2>2, <2>3 DEF RetentionOf
<1>5. CASE ~(InsertedSince(s) < PruneEvery)
  <2>1. PICK kept \in Newest(TableAfter(s)) : rows' = [rows EXCEPT ![conn[s]][s] = kept]
    BY <1>5 DEF Persist
  <2>2. \A f \in Files : rows'[f][s] = IF f = conn[s] THEN kept ELSE rows[f][s]
    BY <1>1, <2>1 DEF TypeOK, DiskType
  <2>3. sincePrune'[s] = InsertedSince(s) % PruneEvery
    BY <1>5 DEF Persist, TypeOK, ThreadType
  <2>4. sincePrune'[s] \in Nat /\ sincePrune'[s] <= PruneEvery - 1
    BY <1>3, <2>3
  <2>5. Cardinality(kept) <= KeepRows /\ Cardinality(kept) \in Nat
    BY <1>3 DEF Newest
  <2>6. Counted(s)'
    BY <2>4 DEF Counted
  <2>7. Bounded(s)'
    BY <1>1, <1>3, <2>2, <2>4, <2>5 DEF RetentionOf, Bounded
  <2> QED
    BY <1>2, <2>6, <2>7 DEF RetentionOf
<1> QED
  BY <1>4, <1>5

\* The retry of an insert that was committed inserts nothing.
LEMMA RewriteKeeps ==
  ASSUME TypeOK, NEW s \in Streams, RetentionOf(s), PersistThenError(s)
  PROVE  RetentionOf(s)'
<1>1. /\ conn[s] \in Files /\ conn' = conn /\ batch' = batch /\ faults' = faults + 1
      /\ pc' = pc /\ pc[s] = "writing" /\ Burst = BatchMax
      /\ sincePrune'[s] = InsertedSince(s)
  BY DEF PersistThenError, Fault, Burst, TypeOK, ThreadType, Attached
<1>2. Outside(s)' /\ SmallBatch(s)'
  <2>1. Attached(s)'
    BY <1>1 DEF Attached
  <2>2. SmallBatch(s)'
    BY <1>1 DEF RetentionOf, SmallBatch
  <2> QED
    BY <2>1, <2>2 DEF Outside, InLoop
<1>3. \A f \in Files : rows'[f][s] = IF f = conn[s] THEN TableAfter(s) ELSE rows[f][s]
  BY <1>1 DEF PersistThenError, TypeOK, DiskType
<1> DEFINE new == Cardinality(Events(s) \ Table(s))
<1>4. /\ new \in Nat /\ Cardinality(Table(s)) \in Nat /\ sincePrune[s] \in Nat /\ faults \in Nat
      /\ Cardinality(TableAfter(s)) = Cardinality(Table(s)) + new
      /\ InsertedSince(s) = sincePrune[s] + new
      /\ Cardinality(Table(s)) <= Allowed(faults) + sincePrune[s]
      /\ Allowed(faults) \in Nat /\ Interval \in Nat
      /\ Allowed(faults + 1) = Allowed(faults) + Interval
      /\ new <= BatchMax /\ BatchMax \in Nat /\ PruneEvery \in Nat
      /\ Interval = PruneEvery - 1 + BatchMax
  <2>1. new <= BatchMax
    <3>1. Cardinality(Events(s)) <= BatchMax
      BY EventsSmall DEF RetentionOf
    <3>2. new <= Cardinality(Events(s)) /\ new \in Nat /\ Cardinality(Events(s)) \in Nat
      BY <1>1, InsertCounts
    <3> QED
      BY <3>1, <3>2, LimitsAssumption
  <2> QED
    BY <1>1, <2>1, InsertCounts, TableCount, AllowedGrows, LimitsAssumption
       DEF InsertedSince, RetentionOf, Bounded, Table, Interval
<1>5. Events(s)' \subseteq Table(s)'
  BY <1>1, <1>3 DEF Events, Table, TableAfter, Message
<1>6. new = 0 \/ sincePrune[s] <= PruneEvery - 1
  <2>1. CASE Events(s) \subseteq Table(s)
    <3>1. Events(s) \ Table(s) = {}
      BY <2>1
    <3> QED
      BY <3>1, FS_EmptySet
  <2> QED
    BY <2>1 DEF RetentionOf, Counted
<1>7. sincePrune[s] <= Interval
  BY <1>4 DEF RetentionOf, Counted
<1> HIDE DEF new
<1>8. Counted(s)'
  BY <1>1, <1>4, <1>5, <1>6, <1>7 DEF Counted
<1>9. Bounded(s)'
  <2> SUFFICES ASSUME NEW f \in Files
               PROVE  Cardinality(rows'[f][s]) <=
                        Allowed(faults + 1) + (IF conn[s] = f THEN InsertedSince(s) ELSE 0)
    BY <1>1 DEF Bounded
  <2>1. CASE f = conn[s]
    BY <1>3, <1>4, <2>1
  <2>2. CASE f # conn[s]
    <3>1. Cardinality(rows[f][s]) <= Allowed(faults) /\ Cardinality(rows[f][s]) \in Nat
      BY <2>2, TableCount, <1>4 DEF RetentionOf, Bounded
    <3> QED
      BY <1>3, <1>4, <2>2, <3>1
  <2> QED
    BY <2>1, <2>2
<1> QED
  BY <1>2, <1>8, <1>9 DEF RetentionOf

\* The steps that move no session leave every stream's retention alone.
LEMMA UntouchedSteps ==
  ASSUME TypeOK, \A t \in Streams : RetentionOf(t),
         \/ Start \/ CheckOutcomesTable \/ DeleteFile \/ DamageFile \/ UNCHANGED vars
         \/ \E s \in Streams :
              \/ OpenAttemptFails(s) \/ Attach(s) \/ (\E p \in Partitions : Poll(s, p))
              \/ CloseBatch(s) \/ Commit(s) \/ CommitFailsPartly(s) \/ Rejoin(s)
              \/ Rebalance(s) \/ Evict(s) \/ RestartThread(s)
  PROVE  \A t \in Streams : Untouched(t)
<1> USE DEF TypeOK, ThreadType, BatchesType, Untouched, InLoop, Attached, Fault
<1>1. CASE Start
  BY <1>1 DEF Start, session, disk
<1>2. CASE CheckOutcomesTable
  BY <1>2 DEF CheckOutcomesTable, disk
<1>3. CASE DeleteFile \/ DamageFile
  BY <1>3 DEF DeleteFile, DamageFile, session
<1>4. CASE UNCHANGED vars
  BY <1>4 DEF vars, session, disk
<1>5. ASSUME NEW s \in Streams, OpenAttemptFails(s) PROVE \A t \in Streams : Untouched(t)
  BY <1>5 DEF OpenAttemptFails, Create, session
<1>6. ASSUME NEW s \in Streams, Attach(s) PROVE \A t \in Streams : Untouched(t)
  BY <1>6 DEF Attach, disk
<1>7. ASSUME NEW s \in Streams, NEW p \in Partitions, Poll(s, p)
      PROVE  \A t \in Streams : Untouched(t)
  <2>1. SmallBatch(s)'
    BY <1>7, PollSmall
  <2> QED
    BY <1>7, <2>1 DEF Poll, disk
<1>8. ASSUME NEW s \in Streams, CloseBatch(s) PROVE \A t \in Streams : Untouched(t)
  BY <1>8 DEF CloseBatch, session, disk
<1>9. ASSUME NEW s \in Streams, Commit(s) PROVE \A t \in Streams : Untouched(t)
  <2>1. SmallBatch(s)'
    BY <1>9, FS_EmptySet, AllowedGrows DEF Commit, SmallBatch
  <2> QED
    BY <1>9, <2>1 DEF Commit, disk
<1>10. ASSUME NEW s \in Streams, CommitFailsPartly(s) PROVE \A t \in Streams : Untouched(t)
  BY <1>10 DEF CommitFailsPartly, disk
<1>11. ASSUME NEW s \in Streams, Rejoin(s) \/ Rebalance(s) PROVE \A t \in Streams : Untouched(t)
  BY <1>11 DEF Rejoin, Rebalance, Assign, disk
<1>12. ASSUME NEW s \in Streams, Evict(s) \/ RestartThread(s)
       PROVE  \A t \in Streams : Untouched(t)
  BY <1>12 DEF Evict, RestartThread, session, disk
<1> QED
  BY <1>1, <1>2, <1>3, <1>4, <1>5, <1>6, <1>7, <1>8, <1>9, <1>10, <1>11, <1>12

\* A session step of one consumer leaves the other's retention alone.
LEMMA OthersUntouched ==
  ASSUME TypeOK, NEW s \in Streams, NEW t \in Streams \ {s},
         \/ OpenDb(s) \/ Persist(s) \/ PersistThenError(s)
         \/ ThreadFails(s) /\ ~AllOff
  PROVE  Untouched(t)
<1> USE DEF TypeOK, ThreadType, Untouched, InLoop, Attached
<1>1. CASE OpenDb(s)
  BY <1>1 DEF OpenDb, Create
<1>2. CASE Persist(s) \/ PersistThenError(s)
  <2>1. conn[s] \in Files
    BY <1>2 DEF Persist, PersistThenError
  <2>2. \E T : rows' = [rows EXCEPT ![conn[s]][s] = T]
    BY <1>2 DEF Persist, PersistThenError
  <2>3. \A f \in Files : rows'[f][t] = rows[f][t]
    BY <2>1, <2>2 DEF DiskType
  <2> QED
    BY <1>2, <2>3 DEF Persist, PersistThenError, Fault
<1>3. CASE ThreadFails(s) /\ ~AllOff
  BY <1>3 DEF ThreadFails, EndSessions, Fault, disk
<1> QED
  BY <1>1, <1>2, <1>3

LEMMA RetentionStep ==
  ASSUME TypeOK, \A t \in Streams : RetentionOf(t), [Next]_vars
  PROVE  \A t \in Streams : RetentionOf(t)'
<1> SUFFICES ASSUME NEW t \in Streams PROVE RetentionOf(t)'
  OBVIOUS
<1>1. CASE Untouched(t)
  BY <1>1, UntouchedKeeps
<1>2. CASE AllOff /\ faults' = faults + 1
  <2>1. /\ conn'[t] = NoFile /\ sincePrune'[t] = 0 /\ batch'[t] = {} /\ ~InLoop(t)'
        /\ rows' = rows
    BY <1>2 DEF AllOff, EndSessions, InLoop, Attached, disk
  <2> QED
    BY <1>2, <2>1, EndedKeeps
<1>3. ASSUME NEW s \in Streams, ThreadFails(s), ~AllOff PROVE RetentionOf(t)'
  <2>1. CASE t = s
    <3>1. /\ conn'[t] = NoFile /\ sincePrune'[t] = 0 /\ batch'[t] = {} /\ ~InLoop(t)'
          /\ rows' = rows /\ faults' = faults + 1
      BY <1>3, <2>1 DEF ThreadFails, Fault, EndSessions, InLoop, Attached, disk,
                        TypeOK, ThreadType
    <3> QED
      BY <3>1, EndedKeeps
  <2> QED
    BY <1>1, <1>3, <2>1, OthersUntouched
<1>4. ASSUME NEW s \in Streams, OpenDb(s) \/ Persist(s) \/ PersistThenError(s)
      PROVE  RetentionOf(t)'
  <2>1. CASE t = s
    BY <1>4, <2>1, OpenKeeps, PersistKeeps, RewriteKeeps
  <2> QED
    BY <1>1, <1>4, <2>1, OthersUntouched
<1>5. CASE Stop \/ (\E s \in Streams : ThreadFails(s))
  BY <1>2, <1>3, <1>5 DEF Stop, Fault, ThreadFails
<1> QED
  BY <1>1, <1>4, <1>5, UntouchedSteps DEF Next, Consume, Disturb, Wait

RetentionInv == \A s \in Streams : RetentionOf(s)

LEMMA RetentionInvariant == Spec => []RetentionInv
<1>1. Init => RetentionInv
  BY InitRetention DEF RetentionInv
<1>2. TypeOK /\ RetentionInv /\ [Next]_vars => RetentionInv'
  BY RetentionStep DEF RetentionInv
<1> QED
  BY <1>1, <1>2, TypeCorrect, PTL DEF Spec

\* What a table holds between batches.
Within(interval) ==
  \A s \in Streams : pc[s] \in {"polling", "committing"} =>
    Cardinality(Table(s)) <= KeepRows + PruneEvery - 1 + faults * interval

LEMMA TablesWithin == TypeOK /\ RetentionInv => Within(Interval)
<1> SUFFICES ASSUME TypeOK, RetentionInv, NEW s \in Streams,
                    pc[s] \in {"polling", "committing"}
             PROVE  Cardinality(Table(s)) <= KeepRows + PruneEvery - 1 + faults * Interval
  BY DEF Within
<1>1. conn[s] \in Files /\ sincePrune[s] <= PruneEvery - 1
  BY DEF RetentionInv, RetentionOf, Counted, TypeOK, ThreadType, Attached
<1>2. Cardinality(Table(s)) <= Allowed(faults) + sincePrune[s]
  BY <1>1 DEF RetentionInv, RetentionOf, Bounded, Table
<1>3. /\ Cardinality(Table(s)) \in Nat /\ sincePrune[s] \in Nat /\ faults \in Nat
      /\ Interval \in Nat /\ KeepRows \in Nat /\ PruneEvery \in Nat
  BY <1>1, TableCount, AllowedGrows, LimitsAssumption DEF Table
<1>4. faults * Interval \in Nat /\ Allowed(faults) = KeepRows + faults * Interval
  BY <1>3 DEF Allowed
<1> DEFINE extra == faults * Interval
<1> HIDE DEF extra
<1>5. Cardinality(Table(s)) <= KeepRows + PruneEvery - 1 + extra
  BY <1>1, <1>2, <1>3, <1>4 DEF extra
<1> QED
  BY <1>5 DEF extra

\* Whatever fails, an insert before its prune included, a table between two
\* batches exceeds the cap by less than one pruning interval, and by less
\* than an interval and a batch more for every fault: PRUNE_KEEP_ROWS bounds
\* the file although maybe_prune's counter dies with the consumer's loop.
THEOREM RetentionBounded == Spec => []Within(Interval)
  BY RetentionInvariant, TypeCorrect, TablesWithin, PTL

\* If no insert is committed by a call that then raises, the batch counts for
\* nothing: the bound RetentionHolds states.
THEOREM RetentionAlways ==
  ASSUME "write" \notin FaultKinds
  PROVE  Spec => []RetentionHolds
<1>1. TypeOK /\ Within(Interval) => RetentionHolds
  <2> SUFFICES ASSUME TypeOK, Within(Interval), NEW s \in Streams,
                      pc[s] \in {"polling", "committing"}
               PROVE  Cardinality(Table(s)) <= KeepRows + (faults + 1) * (PruneEvery - 1)
    BY DEF RetentionHolds
  <2>1. Interval = PruneEvery - 1
    BY LimitsAssumption DEF Interval, Burst
  <2>2. faults \in Nat /\ KeepRows \in Nat /\ PruneEvery - 1 \in Nat /\ PruneEvery \in Nat
    BY LimitsAssumption DEF TypeOK, ThreadType
  <2>3. Cardinality(Table(s)) <= KeepRows + PruneEvery - 1 + faults * (PruneEvery - 1)
    BY <2>1 DEF Within
  <2>4. Cardinality(Table(s)) \in Nat
    BY TableCount DEF Table, TypeOK, ThreadType, Attached
  <2>5. (faults + 1) * (PruneEvery - 1) = faults * (PruneEvery - 1) + (PruneEvery - 1)
    BY <2>2
  <2> QED
    BY <2>2, <2>3, <2>4, <2>5
<1> QED
  BY <1>1, RetentionBounded, TypeCorrect, PTL

-----------------------------------------------------------------------------
(***************************************************************************)
(* The read model implements Projection wherever its file is neither       *)
(* deleted nor damaged: whatever else fails, rows are only added or        *)
(* retired, one table at a time, and only prefixes that are projected are  *)
(* acknowledged.                                                           *)
(***************************************************************************)

\* Files not created yet are empty, and nobody has one open.
Fresh ==
  /\ \A f \in Files : f > created => \A t \in Streams : rows[f][t] = {}
  /\ path <= created
  /\ \A t \in Streams : conn[t] <= created

LEMMA FreshInit == Init => Fresh
<1> SUFFICES ASSUME Init PROVE Fresh
  OBVIOUS
<1>1. created = 0 /\ path = 0 /\ \A t \in Streams : conn[t] = 0
  BY DEF Init
<1>2. \A f \in Files, t \in Streams : rows[f][t] = {}
  BY DEF Init
<1> QED
  BY <1>1, <1>2 DEF Fresh

LEMMA FreshStep == TypeOK /\ Fresh /\ [Next]_vars => Fresh'
<1> SUFFICES ASSUME TypeOK, Fresh, [Next]_vars PROVE Fresh'
  OBVIOUS
<1>0. /\ created \in 0..MaxFiles /\ created \in Nat /\ path \in Nat /\ conn \in [Streams -> Nat]
      /\ rows \in [Files -> [Streams -> SUBSET Keys]] /\ MaxFiles \in Nat
  <2>1. MaxFiles \in Nat /\ created \in 0..MaxFiles /\ path \in Files \cup {NoFile}
        /\ rows \in [Files -> [Streams -> SUBSET Keys]]
        /\ conn \in [Streams -> Files \cup {NoFile}]
    BY BoundsAssumption DEF TypeOK, DiskType, ThreadType
  <2>2. Files \cup {NoFile} \subseteq Nat /\ 0..MaxFiles \subseteq Nat
    BY <2>1
  <2> QED
    BY <2>1, <2>2
<1>1. ASSUME NEW s \in Streams, NEW T, rows' = [rows EXCEPT ![conn[s]][s] = T],
             UNCHANGED <<created, path, conn>>
      PROVE  Fresh'
  BY <1>0, <1>1 DEF Fresh
<1>2. ASSUME NEW done, Create(done), \/ UNCHANGED conn
                                     \/ \E s \in Streams : conn' = [conn EXCEPT ![s] = OpenedFile]
      PROVE  Fresh'
  <2>1. /\ created' = IF Usable THEN created ELSE created + 1
        /\ path' = OpenedFile /\ rows' = rows
        /\ OpenedFile = IF Usable THEN path ELSE created + 1
    BY <1>2 DEF Create, OpenedFile
  <2>2. path' <= created' /\ created <= created' /\ created' \in Nat
    BY <1>0, <2>1 DEF Fresh
  <2>3. \A f \in Files : f > created' => \A t \in Streams : rows'[f][t] = {}
    BY <1>0, <2>1, <2>2 DEF Fresh
  <2>4. \A t \in Streams : conn'[t] <= created'
    <3>1. conn' = conn \/ \E s \in Streams : conn' = [conn EXCEPT ![s] = path']
      BY <1>2, <2>1
    <3>2. \A t \in Streams : conn'[t] = conn[t] \/ conn'[t] = path'
      BY <1>0, <3>1
    <3>3. \A t \in Streams : conn[t] \in Nat /\ conn[t] <= created
      BY <1>0 DEF Fresh
    <3> QED
      BY <1>0, <2>2, <3>2, <3>3
  <2> QED
    BY <2>2, <2>3, <2>4 DEF Fresh
<1>3. ASSUME UNCHANGED <<created, rows>>, path' = path \/ path' = NoFile,
             UNCHANGED conn \/ \E gone : EndSessions(gone)
      PROVE  Fresh'
  <2>1. path' <= created' /\ created' = created /\ rows' = rows
    BY <1>0, <1>3 DEF Fresh
  <2>2. \A t \in Streams : conn'[t] = conn[t] \/ conn'[t] = 0
    BY <1>0, <1>3 DEF EndSessions
  <2>3. \A t \in Streams : conn'[t] <= created'
    BY <1>0, <2>1, <2>2 DEF Fresh
  <2> QED
    BY <2>1, <2>3 DEF Fresh
<1>4. ASSUME NEW s \in Streams, Persist(s) \/ PersistThenError(s) PROVE Fresh'
  BY <1>1, <1>4 DEF Persist, PersistThenError
<1>5. ASSUME NEW s \in Streams, OpenDb(s) \/ OpenAttemptFails(s) PROVE Fresh'
  BY <1>2, <1>3, <1>5 DEF OpenDb, OpenAttemptFails, session
<1>6. CASE AllOff
  BY <1>3, <1>6 DEF AllOff, disk
<1>7. ASSUME NEW s \in Streams, ThreadFails(s) PROVE Fresh'
  BY <1>3, <1>6, <1>7 DEF ThreadFails, disk
<1> QED
  BY <1>3, <1>4, <1>5, <1>6, <1>7
     DEF Next, Consume, Disturb, Wait, Start, CheckOutcomesTable, Attach, Poll, CloseBatch,
       Commit, CommitFailsPartly, Rejoin, Rebalance, Assign, Evict, Stop, RestartThread,
       DeleteFile, DamageFile, vars, disk, session

-----------------------------------------------------------------------------
\* The file stays in place unless it is lost.
LEMMA PathStays ==
  ASSUME IInv, [Next]_vars, ~lost'
  PROVE  ~lost /\ (path' = path \/ (path = NoFile /\ path' = created + 1 /\ rows' = rows))
<1>1. ~lost
  BY DEF Next, Consume, Disturb, Wait, Start, CheckOutcomesTable, OpenDb,
     OpenAttemptFails, Attach, Poll, CloseBatch, Persist, PersistThenError, Commit,
     CommitFailsPartly, Rejoin, Rebalance, Assign, Evict, AllOff, Stop, ThreadFails,
     RestartThread, DeleteFile, DamageFile, vars
<1>2. path # NoFile => Usable
  BY <1>1 DEF IInv, OneFile, Usable, TypeOK, DiskType
<1> QED
  BY <1>1, <1>2
     DEF Next, Consume, Disturb, Wait, Start, CheckOutcomesTable, OpenDb, Create,
       OpenedFile, OpenAttemptFails, Attach, Poll, CloseBatch, Persist, PersistThenError,
       Commit, CommitFailsPartly, Rejoin, Rebalance, Assign, Evict, AllOff, Stop,
       ThreadFails, RestartThread, DeleteFile, DamageFile, vars, disk

\* What is seen of a stream, in terms of its table.
LEMMA SeenIs ==
  ASSUME NEW t \in Streams, NEW p \in Partitions
  PROVE  Seen[t][p] = {o \in Offsets(t, p) : Kept(RowsOf(path, t), Message(t, p, o))}
  BY DEF Seen

\* A stream whose table is not written is seen as before.
LEMMA SeenSame ==
  ASSUME NEW t \in Streams, RowsOf(path, t)' = RowsOf(path, t)
  PROVE  Seen'[t] = Seen[t]
  BY DEF Seen, Message, Offsets

LEMMA FileIsEmpty ==
  ASSUME IInv, Fresh, [Next]_vars, ~lost', path' # path, NEW t \in Streams
  PROVE  RowsOf(path, t)' = {} /\ RowsOf(path, t) = {}
<1>1. path = NoFile /\ path' = created + 1 /\ rows' = rows
  BY PathStays
<1>2. path' \in Files
  BY <1>1, TypeStep DEF IInv, TypeOK, DiskType
<1>3. rows[path'][t] = {}
  BY <1>1, <1>2 DEF Fresh, IInv, TypeOK, DiskType
<1> QED
  BY <1>1, <1>2, <1>3, BoundsAssumption DEF RowsOf

LEMMA SeenGrows ==
  ASSUME IInv, Fresh, [Next]_vars, ~lost', NEW t \in Streams, NEW p \in Partitions
  PROVE  Seen[t][p] \subseteq Seen'[t][p]
<1>1. CASE path' # path
  BY <1>1, FileIsEmpty, SeenSame
<1>2. CASE path' = path /\ path = NoFile
  BY <1>2, SeenSame DEF RowsOf
<1>3. CASE path' = path /\ path # NoFile
  <2> SUFFICES ASSUME NEW o \in Offsets(t, p), Kept(RowsOf(path, t), Message(t, p, o))
               PROVE  Kept(RowsOf(path, t)', Message(t, p, o))
    BY SeenIs DEF Seen, Message, Offsets
  <2>1. path \in Files /\ Message(t, p, o) \in Keys \cup {Malformed}
    BY <1>3, MessageType DEF IInv, TypeOK, DiskType, Offsets
  <2>2. Kept(rows[path][t], Message(t, p, o))
    BY <1>3 DEF RowsOf
  <2>3. Kept(rows'[path][t], Message(t, p, o))
    BY <2>1, <2>2, RowsStayKept DEF IInv
  <2> QED
    BY <1>3, <2>3 DEF RowsOf
<1> QED
  BY <1>1, <1>2, <1>3

\* At most one table is written in a step.
LEMMA OneTable ==
  ASSUME IInv, Fresh, [Next]_vars, ~lost'
  PROVE  \E s \in Streams : \A t \in Streams \ {s} : Seen'[t] = Seen[t]
<1>0. Streams # {} /\ path \in Files \cup {NoFile}
  BY DEF IInv, TypeOK, DiskType
<1>1. CASE path' # path
  <2>1. \A t \in Streams : RowsOf(path, t)' = RowsOf(path, t)
    BY <1>1, FileIsEmpty
  <2>2. \A t \in Streams : Seen'[t] = Seen[t]
    BY <2>1, SeenSame
  <2> QED
    BY <1>0, <2>2
<1>2. CASE path' = path /\ rows' = rows
  <2>1. \A t \in Streams : RowsOf(path, t)' = RowsOf(path, t)
    BY <1>2 DEF RowsOf
  <2>2. \A t \in Streams : Seen'[t] = Seen[t]
    BY <2>1, SeenSame
  <2> QED
    BY <1>0, <2>2
<1>3. ASSUME path' = path, NEW s \in Streams, Persist(s) \/ PersistThenError(s)
      PROVE  \A t \in Streams \ {s} : Seen'[t] = Seen[t]
  <2>1. PICK T : rows' = [rows EXCEPT ![conn[s]][s] = T]
    BY <1>3 DEF Persist, PersistThenError
  <2>2. \A t \in Streams \ {s}, f \in Files : rows'[f][t] = rows[f][t]
    BY <2>1 DEF IInv, TypeOK, DiskType
  <2>3. \A t \in Streams \ {s} : RowsOf(path, t)' = RowsOf(path, t)
    BY <1>0, <1>3, <2>2 DEF RowsOf
  <2> QED
    BY <2>3, SeenSame
<1>4. CASE \E s \in Streams : Persist(s) \/ PersistThenError(s)
  <2>1. path' = path
    BY <1>4 DEF Persist, PersistThenError
  <2> QED
    BY <1>3, <1>4, <2>1
<1> QED
  BY <1>1, <1>2, <1>4
     DEF Next, Consume, Disturb, Wait, Start, CheckOutcomesTable, OpenDb, Create,
       OpenAttemptFails, Attach, Poll, CloseBatch, Commit, CommitFailsPartly, Rejoin,
       Rebalance, Assign, Evict, AllOff, Stop, ThreadFails, RestartThread, DeleteFile,
       DamageFile, vars, disk

-----------------------------------------------------------------------------
LEMMA AbstractInit == Init => Abstract!Init
<1> SUFFICES ASSUME Init PROVE Abstract!Init
  OBVIOUS
<1>1. \A m : Kept({}, m) <=> m = Malformed
  <2>1. Cardinality({}) = 0 /\ KeepRows >= 1
    BY FS_EmptySet, LimitsAssumption
  <2>2. \A m : {k \in {} : Rank[k] >= Rank[m]} = {}
    OBVIOUS
  <2> QED
    <3>1. \A m : Cardinality({k \in {} : Rank[k] >= Rank[m]}) = 0
      BY <2>1, <2>2
    <3>2. ~(0 >= KeepRows)
      BY LimitsAssumption
    <3> QED
      BY <3>1, <3>2 DEF Kept
<1>2. \A t \in Streams : RowsOf(path, t) = {}
  BY DEF Init, RowsOf
<1>3. Seen = [s \in Streams |-> [p \in Partitions |->
                {o \in Offsets(s, p) : Message(s, p, o) = Malformed}]]
  BY <1>1, <1>2 DEF Seen
<1> QED
  BY <1>3 DEF Init, Idle, Abstract!Init

LEMMA AbstractStep ==
  ASSUME IInv, IInv', Fresh, [Next]_vars, ~lost'
  PROVE  [Abstract!Next]_Abstract!vars
<1>1. CASE committed' = committed
  <2>1. PICK s \in Streams : \A t \in Streams \ {s} : Seen'[t] = Seen[t]
    BY OneTable
  <2>2. \A t \in Streams, p \in Partitions : Seen[t][p] \subseteq Seen'[t][p]
    BY SeenGrows
  <2>3. Abstract!Project(s)
    BY <1>1, <2>1, <2>2 DEF Abstract!Project
  <2> QED
    BY <2>3 DEF Abstract!Next
<1>2. ASSUME NEW s \in Streams, Commit(s) \/ CommitFailsPartly(s)
      PROVE  Abstract!Acknowledge(s)
  <2>1. \A t \in Streams \ {s} : committed'[t] = committed[t]
    BY <1>2 DEF Commit, CommitFailsPartly, IInv, TypeOK, OffsetType
  <2>2. path' = path /\ rows' = rows
    BY <1>2 DEF Commit, CommitFailsPartly, disk
  <2>3. Seen' = Seen
    BY <2>2 DEF Seen, RowsOf, Message, Offsets
  <2>4. ASSUME NEW p \in Partitions
        PROVE  0..(committed'[s][p] - 1) \subseteq Seen[s][p]
    <3>1. CommittedKept(path, s, p)'
      BY DEF IInv, CommittedIsKept
    <3>2. \A o \in 0..(committed'[s][p] - 1) : Kept(RowsOf(path, s), Message(s, p, o))
      BY <2>2, <3>1 DEF CommittedKept, RowsOf, Message
    <3>3. \A o \in 0..(committed'[s][p] - 1) : o \in Offsets(s, p)
      <4>1. committed'[s][p] \in Nat /\ committed'[s][p] <= Len(Log[s][p])
        BY DEF IInv, TypeOK, OffsetType
      <4> QED
        BY <4>1, MessageType DEF Offsets
    <3> QED
      BY <3>2, <3>3, SeenIs
  <2> QED
    BY <2>1, <2>3, <2>4 DEF Abstract!Acknowledge
<1>3. CASE committed' # committed
  <2>1. \E s \in Streams : Commit(s) \/ CommitFailsPartly(s)
    BY <1>3 DEF Next, Consume, Disturb, Wait, Start, CheckOutcomesTable, OpenDb,
       OpenAttemptFails, Attach, Poll, CloseBatch, Persist, PersistThenError, Rejoin,
       Rebalance, Assign, Evict, AllOff, Stop, ThreadFails, RestartThread, DeleteFile,
       DamageFile, vars
  <2> QED
    BY <1>2, <2>1 DEF Abstract!Next
<1> QED
  BY <1>1, <1>3

\* No file is lost where none can be deleted or damaged.
LEMMA NeverLost ==
  ASSUME FaultKinds \cap {"delete", "damage"} = {}
  PROVE  Spec => []~lost
<1>1. Init => ~lost
  BY DEF Init
<1>2. ~lost /\ [Next]_vars => ~lost'
  BY DEF Next, Consume, Disturb, Wait, Start, CheckOutcomesTable, OpenDb,
     OpenAttemptFails, Attach, Poll, CloseBatch, Persist, PersistThenError, Commit,
     CommitFailsPartly, Rejoin, Rebalance, Assign, Evict, AllOff, Stop, ThreadFails,
     RestartThread, DeleteFile, DamageFile, vars, Fault
<1> QED
  BY <1>1, <1>2, PTL DEF Spec

\* With the file in place the read model is a faithful projection of both
\* topics, through crashes, restarts, redelivery, failed writes and commits.
THEOREM Refinement ==
  ASSUME FaultKinds \cap {"delete", "damage"} = {}
  PROVE  Spec => ImplementsProjection
<1>1. Spec => []~lost
  BY NeverLost
<1>2. Spec => []Fresh
  <2>1. TypeOK /\ Fresh /\ [Next]_vars => Fresh'
    BY FreshStep
  <2> QED
    BY <2>1, FreshInit, TypeCorrect, PTL DEF Spec
<1>3. Init => Abstract!Init
  BY AbstractInit
<1>4. IInv /\ IInv' /\ Fresh /\ ~lost' /\ [Next]_vars => [Abstract!Next]_Abstract!vars
  BY AbstractStep
<1> QED
  BY <1>1, <1>2, <1>3, <1>4, InductiveInvariant, PTL
     DEF Spec, ImplementsProjection, Abstract!Spec
=============================================================================
