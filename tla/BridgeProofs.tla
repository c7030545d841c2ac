---------------------------- MODULE BridgeProofs ----------------------------
(***************************************************************************)
(* Proofs about Bridge, for every topic and any number of faults: the      *)
(* group never commits past a message that is not settled, the bridge      *)
(* implements Projection, and events first appear in order.                *)
(***************************************************************************)
EXTENDS Bridge, TLAPS

LEMMA FeatureType == Len(Feature) \in Nat /\ <<>> \in Seq(Offsets)
  BY FeatureAssumption DEF Offsets

-----------------------------------------------------------------------------
LEMMA InitInv == Init => IInv
<1> SUFFICES ASSUME Init PROVE IInv
  OBVIOUS
<1>1. queue \in Seq(Offsets) /\ topic \in Seq(Offsets)
  BY FeatureType DEF Init
<1>2. TypeOK
  <2>1. 0 \in 0..Len(Feature) /\ 0 \in Nat
    BY FeatureType
  <2>2. committed \in 0..Len(Feature) /\ pos \in 0..Len(Feature) /\ faults \in Nat
    BY <2>1 DEF Init
  <2>3. /\ commits \subseteq 0..Len(Feature) /\ skipped \subseteq Offsets
        /\ joined \in BOOLEAN /\ stop \in BOOLEAN /\ ok \in BOOLEAN
        /\ pc = "down"
    BY DEF Init
  <2> QED
    BY <1>1, <2>2, <2>3 DEF TypeOK
<1>3. SettledBelow(0)
  BY DEF SettledBelow
<1> QED
  BY <1>2, <1>3 DEF Init, IInv, CommittedIsSettled

\* Nothing that is settled stops being so.
LEMMA SettledStays ==
  ASSUME TypeOK, [Next]_vars
  PROVE  Settled \subseteq Settled' /\ Delivered \subseteq Delivered'
<1>1. CASE topic' = topic
  <2>1. skipped \subseteq skipped'
    BY DEF Next, vars, Boot, Poll, PostScored, PostRejected, PostFails, Produce, Deliver,
       Drop, Published, Unconfirmed, StopSeen, Exit, Gone, CommitArrives, CommitLost,
       Evict, Rejoin, Raise, Kill, Stop, Wait
  <2> QED
    BY <1>1, <2>1 DEF Settled, Delivered
<1>2. CASE Deliver
  <2>1. Head(queue) \in Offsets
    BY <1>2 DEF Deliver, TypeOK
  <2>2. Delivered' = Delivered \cup {Head(queue)}
    <3>1. CASE Head(queue) \in Delivered
      BY <1>2, <3>1 DEF Deliver, Delivered
    <3>2. CASE Head(queue) \notin Delivered
      <4>1. topic' = Append(topic, Head(queue))
        BY <1>2, <3>2 DEF Deliver
      <4>2. /\ DOMAIN topic' = 1..(Len(topic) + 1) /\ DOMAIN topic = 1..Len(topic)
            /\ Len(topic) \in Nat
            /\ \A i \in 1..Len(topic) : topic'[i] = topic[i]
            /\ topic'[Len(topic) + 1] = Head(queue)
        BY <2>1, <4>1 DEF TypeOK
      <4> QED
        BY <4>2 DEF Delivered
    <3> QED
      BY <3>1, <3>2
  <2> QED
    BY <1>2, <2>2 DEF Settled, Deliver
<1> QED
  BY <1>1, <1>2
     DEF Next, vars, Boot, Poll, PostScored, PostRejected, PostFails, Produce,
       Drop, Published, Unconfirmed, StopSeen, Exit, Gone, CommitArrives, CommitLost,
       Evict, Rejoin, Raise, Kill, Stop, Wait

\* What Deliver adds is the event it takes from the queue.
LEMMA DeliveredHead ==
  ASSUME TypeOK, Deliver
  PROVE  Head(queue) \in Delivered'
<1>1. Head(queue) \in Offsets /\ topic \in Seq(Offsets)
  BY DEF Deliver, TypeOK
<1>2. CASE Head(queue) \in Delivered
  BY <1>2 DEF Deliver, Delivered
<1>3. CASE Head(queue) \notin Delivered
  <2>1. topic' = Append(topic, Head(queue))
    BY <1>3 DEF Deliver
  <2>2. Len(topic) + 1 \in DOMAIN topic' /\ topic'[Len(topic) + 1] = Head(queue)
    BY <1>1, <2>1
  <2> QED
    BY <2>2 DEF Delivered
<1> QED
  BY <1>2, <1>3

-----------------------------------------------------------------------------
LEMMA SequencesStep == TypeOK /\ [Next]_vars => queue' \in Seq(Offsets) /\ topic' \in Seq(Offsets)
<1> SUFFICES ASSUME TypeOK, [Next]_vars PROVE queue' \in Seq(Offsets) /\ topic' \in Seq(Offsets)
  OBVIOUS
<1> USE DEF TypeOK
<1>1. CASE Produce
  BY <1>1 DEF Produce
<1>2. CASE Deliver
  BY <1>2 DEF Deliver
<1>3. CASE Drop
  BY <1>3 DEF Drop
<1>4. CASE topic' = topic /\ (queue' = queue \/ queue' = <<>>)
  BY <1>4, FeatureType
<1> QED
  BY <1>1, <1>2, <1>3, <1>4
     DEF Next, vars, Boot, Poll, PostScored, PostRejected, PostFails, Published,
       Unconfirmed, StopSeen, Exit, Gone, CommitArrives, CommitLost, Evict, Rejoin,
       Raise, Kill, Stop, Wait

LEMMA OffsetsStep ==
  TypeOK /\ [Next]_vars => /\ committed' \in 0..Len(Feature)
                           /\ commits' \subseteq 0..Len(Feature)
                           /\ pos' \in 0..Len(Feature)
                           /\ skipped' \subseteq Offsets
<1> SUFFICES ASSUME TypeOK, [Next]_vars
             PROVE  /\ committed' \in 0..Len(Feature)
                    /\ commits' \subseteq 0..Len(Feature)
                    /\ pos' \in 0..Len(Feature)
                    /\ skipped' \subseteq Offsets
  OBVIOUS
<1> USE DEF TypeOK
<1>1. CASE Poll
  <2>1. /\ pos' = pos + 1 /\ pos < Len(Feature) /\ committed' = committed
        /\ commits' \subseteq commits \cup {pos + 1} /\ skipped' = skipped
    BY <1>1 DEF Poll, SendCommit
  <2> QED
    BY <2>1, FeatureType
<1>2. CASE PostRejected \/ Published
  BY <1>2 DEF PostRejected, Published, SendCommit
<1>3. CASE CommitArrives \/ CommitLost
  BY <1>3 DEF CommitArrives, CommitLost
<1>4. CASE Boot \/ Rejoin
  BY <1>4 DEF Boot, Rejoin
<1>5. CASE UNCHANGED <<committed, pos, skipped>> /\ (commits' = commits \/ commits' = {})
  BY <1>5
<1> QED
  BY <1>1, <1>2, <1>3, <1>4, <1>5
     DEF Next, vars, PostScored, PostFails, Produce, Deliver, Drop, Unconfirmed,
       StopSeen, Exit, Gone, Evict, Raise, Kill, Stop, Wait

LEMMA ControlStep ==
  TypeOK /\ [Next]_vars =>
    /\ joined' \in BOOLEAN /\ stop' \in BOOLEAN /\ ok' \in BOOLEAN /\ faults' \in Nat
    /\ pc' \in {"down", "poll", "post", "publish", "flushing", "closing"}
<1> SUFFICES ASSUME TypeOK, [Next]_vars
             PROVE  /\ joined' \in BOOLEAN /\ stop' \in BOOLEAN /\ ok' \in BOOLEAN
                    /\ faults' \in Nat
                    /\ pc' \in {"down", "poll", "post", "publish", "flushing", "closing"}
  OBVIOUS
<1> USE DEF Next, vars, Boot, Poll, PostScored, PostRejected, PostFails, Produce, Deliver,
        Drop, Published, Unconfirmed, StopSeen, Exit, Gone, CommitArrives, CommitLost,
        Evict, Rejoin, Raise, Kill, Stop, Wait
<1>1. joined' \in BOOLEAN /\ stop' \in BOOLEAN
  BY DEF TypeOK
<1>2. ok' \in BOOLEAN
  BY DEF TypeOK
<1>3. faults' \in Nat
  BY DEF TypeOK, Fault
<1>4. pc' \in {"down", "poll", "post", "publish", "flushing", "closing"}
  BY DEF TypeOK
<1> QED
  BY <1>1, <1>2, <1>3, <1>4

LEMMA InHandStep ==
  TypeOK /\ [Next]_vars => (pc' \in {"post", "publish", "flushing"} => InHand' \in Offsets)
<1> SUFFICES ASSUME TypeOK, [Next]_vars, pc' \in {"post", "publish", "flushing"}
             PROVE  InHand' \in Offsets
  OBVIOUS
<1>1. CASE Poll
  BY <1>1, FeatureType DEF Poll, TypeOK, Offsets, InHand
<1>2. CASE pos' = pos /\ pc \in {"post", "publish", "flushing"}
  BY <1>2 DEF TypeOK, InHand
<1> QED
  BY <1>1, <1>2
     DEF Next, vars, Boot, PostScored, PostRejected, PostFails, Produce, Deliver, Drop,
       Published, Unconfirmed, StopSeen, Exit, Gone, CommitArrives, CommitLost, Evict,
       Rejoin, Raise, Kill, Stop, Wait

LEMMA TypeStep == TypeOK /\ [Next]_vars => TypeOK'
<1> SUFFICES ASSUME TypeOK, [Next]_vars PROVE TypeOK'
  OBVIOUS
<1> QED
  BY SequencesStep, OffsetsStep, ControlStep, InHandStep DEF TypeOK, Offsets, InHand

\* The parts of IInv other than its type.
CommitsSettled == \A next \in commits : SettledBelow(next)
PositionSettled ==
  /\ pc = "poll" => SettledBelow(pos)
  /\ pc \in {"post", "publish", "flushing"} => SettledBelow(InHand)
CallKnown ==
  /\ pc = "flushing" /\ ok => InHand \in Delivered
  /\ pc = "flushing" /\ queue # <<>> => queue[Len(queue)] = InHand

\* The current call's event is the last queued one, until it is delivered.
LEMMA CallStep == IInv /\ [Next]_vars => CallKnown'
<1> SUFFICES ASSUME IInv, [Next]_vars, pc' = "flushing"
             PROVE  /\ ok' => InHand' \in Delivered'
                    /\ queue' # <<>> => queue'[Len(queue')] = InHand'
  BY DEF CallKnown
<1> USE DEF IInv
<1>0. Delivered \subseteq Delivered' /\ queue \in Seq(Offsets)
  BY SettledStays DEF TypeOK
<1>1. CASE Produce
  <2>1. InHand \in Offsets /\ queue' = Append(queue, InHand) /\ ~ok' /\ pos' = pos
    BY <1>1 DEF Produce, TypeOK
  <2> QED
    BY <1>0, <2>1 DEF InHand
<1>2. CASE Deliver
  <2>1. pc = "flushing" /\ pos' = pos /\ queue # <<>> /\ queue' = Tail(queue)
    BY <1>2 DEF Deliver
  <2>2. queue[Len(queue)] = InHand
    BY <2>1
  <2>3. ok' => InHand \in Delivered'
    <3>1. CASE ok
      BY <1>0, <2>1, <3>1
    <3>2. CASE Len(queue) = 1
      BY <1>2, <2>2, <3>2, DeliveredHead
    <3> QED
      BY <1>2, <3>1, <3>2 DEF Deliver
  <2>4. queue' # <<>> => queue'[Len(queue')] = InHand
    BY <1>0, <2>1, <2>2
  <2> QED
    BY <2>1, <2>3, <2>4 DEF InHand
<1>3. CASE Drop
  <2>1. pc = "flushing" /\ pos' = pos /\ queue # <<>> /\ queue' = Tail(queue) /\ ok' = ok
    BY <1>3 DEF Drop
  <2> QED
    BY <1>0, <2>1 DEF InHand
<1>4. CASE pc = "flushing" /\ UNCHANGED <<pos, queue, ok>>
  BY <1>0, <1>4 DEF InHand
<1> QED
  BY <1>1, <1>2, <1>3, <1>4
     DEF Next, vars, Boot, Poll, PostScored, PostRejected, PostFails, Published,
       Unconfirmed, StopSeen, Exit, Gone, CommitArrives, CommitLost, Evict, Rejoin,
       Raise, Kill, Stop, Wait

\* What is settled below the offsets the consumer works with stays so, and a
\* message is settled when main moves past it.
LEMMA SettledStep ==
  IInv /\ [Next]_vars => CommittedIsSettled' /\ CommitsSettled' /\ PositionSettled'
<1> SUFFICES ASSUME IInv, [Next]_vars
             PROVE  CommittedIsSettled' /\ CommitsSettled' /\ PositionSettled'
  OBVIOUS
<1> USE DEF IInv
<1>0. /\ Settled \subseteq Settled'
      /\ \A n \in Int : 0..(n - 1) \subseteq Settled => 0..(n - 1) \subseteq Settled'
  BY SettledStays
<1>1. /\ pos \in Nat /\ pos \in Int /\ committed \in Int /\ commits \subseteq Int
      /\ 0..(committed - 1) \subseteq Settled
      /\ \A next \in commits : 0..(next - 1) \subseteq Settled
      /\ pc = "poll" => 0..(pos - 1) \subseteq Settled
      /\ pc \in {"post", "publish", "flushing"} => 0..(pos - 2) \subseteq Settled
  BY FeatureType DEF TypeOK, CommittedIsSettled, SettledBelow, InHand
<1>2. ASSUME pos - 1 \in Settled', pc \in {"post", "publish", "flushing"}
      PROVE  0..(pos - 1) \subseteq Settled'
  BY <1>0, <1>1, <1>2
<1> USE DEF SettledBelow, CommittedIsSettled, CommitsSettled, PositionSettled, InHand
<1>3. CASE Boot \/ Rejoin
  BY <1>0, <1>1, <1>3 DEF Boot, Rejoin
<1>4. CASE Poll
  <2>1. Kind(pos) = "malformed" => 0..pos \subseteq Settled
    <3>1. pos \in Offsets
      BY <1>1, <1>4, FeatureType DEF Poll, Offsets
    <3>2. Kind(pos) = "malformed" => pos \in Settled
      BY <3>1 DEF Settled, Malformed
    <3> QED
      BY <1>1, <1>4, <3>2 DEF Poll
  <2>2. pos' = pos + 1 /\ committed' = committed /\ commits' \subseteq commits \cup {pos + 1}
        /\ (pc' \in {"post", "closing"} => commits' = commits)
        /\ (pc' = "poll" => Kind(pos) = "malformed") /\ pc = "poll"
        /\ pc' \in {"post", "closing", "poll"}
    BY <1>4 DEF Poll, SendCommit
  <2> QED
    BY <1>0, <1>1, <2>1, <2>2
<1>5. CASE PostRejected
  <2>1. pos - 1 \in Settled' /\ commits' = commits \cup {pos} /\ pos' = pos /\ pc = "post"
        /\ committed' = committed /\ pc' = "poll"
    BY <1>5 DEF PostRejected, SendCommit, Settled
  <2> QED
    BY <1>0, <1>1, <1>2, <2>1
<1>6. CASE Published
  <2>1. pos - 1 \in Settled' /\ commits' \subseteq commits \cup {pos} /\ pos' = pos
        /\ pc = "flushing" /\ committed' = committed /\ pc' \in {"poll", "closing"}
    BY <1>0, <1>6 DEF Published, SendCommit, Settled
  <2> QED
    BY <1>0, <1>1, <1>2, <2>1
<1>7. CASE CommitArrives
  BY <1>0, <1>1, <1>7 DEF CommitArrives
<1>8. CASE /\ UNCHANGED <<committed, pos>> /\ commits' \subseteq commits
           /\ pc' = "poll" => pc = "poll"
           /\ pc' \in {"post", "publish", "flushing"} => pc \in {"post", "publish", "flushing"}
  BY <1>0, <1>1, <1>8
<1> QED
  BY <1>3, <1>4, <1>5, <1>6, <1>7, <1>8
     DEF Next, vars, PostScored, PostFails, Produce, Deliver, Drop, Unconfirmed,
       StopSeen, Exit, Gone, CommitLost, Evict, Raise, Kill, Stop, Wait

LEMMA InvStep == IInv /\ [Next]_vars => IInv'
<1> SUFFICES ASSUME IInv, [Next]_vars PROVE IInv'
  OBVIOUS
<1>1. TypeOK'
  BY TypeStep DEF IInv
<1>2. CommittedIsSettled' /\ CommitsSettled' /\ PositionSettled' /\ CallKnown'
  BY SettledStep, CallStep
<1> QED
  BY <1>1, <1>2 DEF IInv, CommitsSettled, PositionSettled, CallKnown

-----------------------------------------------------------------------------
\* Every variable keeps its type.
THEOREM TypeCorrect == Spec => []TypeOK
<1>1. Init => TypeOK
  BY InitInv DEF IInv
<1> QED
  BY <1>1, TypeStep, PTL DEF Spec

\* IInv holds throughout, for every topic and any number of faults.
THEOREM InductiveInvariant == Spec => []IInv
  BY InitInv, InvStep, PTL DEF Spec

\* The bridge never commits past a message whose prediction is neither in
\* ticks.predictions nor given up: consumer.commit follows the confirmed
\* publish, and a restart or rejoin begins at the committed offset.
THEOREM CommittedAlwaysSettled == Spec => []CommittedIsSettled
<1>1. IInv => CommittedIsSettled
  BY DEF IInv
<1> QED
  BY <1>1, InductiveInvariant, PTL

-----------------------------------------------------------------------------
\* Why events first enter the topic in order: whatever is queued or in the
\* topic had nothing unsettled below it when it was queued, so an event that
\* comes after a higher one was settled before it came, and had been neither
\* delivered nor malformed.
IsRow(o) == o \in Offsets /\ Kind(o) = "row"
QueuedRows == \A k \in DOMAIN queue : IsRow(queue[k]) /\ SettledBelow(queue[k])
TopicSettled == \A k \in DOMAIN topic : SettledBelow(topic[k])
HandRow == pc \in {"post", "publish", "flushing"} => IsRow(InHand)
OrderInv == QueuedRows /\ TopicSettled /\ HandRow /\ FirstsInOrder

LEMMA InitOrder == Init => OrderInv
  BY DEF Init, OrderInv, QueuedRows, TopicSettled, HandRow, FirstsInOrder

LEMMA BelowStays ==
  ASSUME TypeOK, [Next]_vars, NEW o \in Offsets, SettledBelow(o)
  PROVE  SettledBelow(o)'
  BY SettledStays DEF SettledBelow

LEMMA HandStep == IInv /\ OrderInv /\ [Next]_vars => HandRow'
<1> SUFFICES ASSUME IInv, OrderInv, [Next]_vars, pc' \in {"post", "publish", "flushing"}
             PROVE  IsRow(InHand')
  BY DEF HandRow
<1>1. CASE Poll
  <2>1. pos' = pos + 1 /\ Kind(pos) = "row" /\ pos \in Nat /\ pos < Len(Feature)
    BY <1>1, FeatureType DEF Poll, IInv, TypeOK
  <2> QED
    BY <2>1, FeatureType DEF IsRow, InHand, Offsets
<1>2. CASE pos' = pos /\ pc \in {"post", "publish", "flushing"}
  BY <1>2 DEF OrderInv, HandRow, InHand
<1> QED
  BY <1>1, <1>2
     DEF Next, vars, Boot, PostScored, PostRejected, PostFails, Produce, Deliver, Drop,
       Published, Unconfirmed, StopSeen, Exit, Gone, CommitArrives, CommitLost, Evict,
       Rejoin, Raise, Kill, Stop, Wait

LEMMA QueueStep == IInv /\ OrderInv /\ [Next]_vars => QueuedRows'
<1> SUFFICES ASSUME IInv, OrderInv, [Next]_vars, NEW k \in DOMAIN queue'
             PROVE  IsRow(queue'[k]) /\ 0..(queue'[k] - 1) \subseteq Settled'
  BY DEF QueuedRows, SettledBelow, IsRow, Offsets
<1>0. TypeOK /\ queue \in Seq(Offsets)
  BY DEF IInv, TypeOK
<1>1. ASSUME NEW j \in DOMAIN queue, queue'[k] = queue[j]
      PROVE  IsRow(queue'[k]) /\ 0..(queue'[k] - 1) \subseteq Settled'
  <2>1. IsRow(queue[j]) /\ SettledBelow(queue[j]) /\ queue[j] \in Offsets
    BY <1>0 DEF OrderInv, QueuedRows, IsRow
  <2> QED
    BY <1>0, <1>1, <2>1, BelowStays, SettledStays DEF SettledBelow
<1>2. CASE Produce
  <2>1. /\ queue' = Append(queue, InHand) /\ pc = "publish"
        /\ IsRow(InHand) /\ SettledBelow(InHand) /\ InHand \in Offsets
    BY <1>2 DEF Produce, OrderInv, HandRow, IInv, IsRow
  <2>2. CASE k = Len(queue) + 1
    <3>1. queue'[k] = InHand
      BY <1>0, <2>1, <2>2
    <3> QED
      BY <1>0, <2>1, <3>1, SettledStays DEF SettledBelow
  <2>3. CASE k # Len(queue) + 1
    <3>1. k \in DOMAIN queue /\ queue'[k] = queue[k]
      BY <1>0, <2>1, <2>3
    <3> QED
      BY <1>1, <3>1
  <2> QED
    BY <2>2, <2>3
<1>3. CASE Deliver \/ Drop
  <2>1. queue # <<>> /\ queue' = Tail(queue)
    BY <1>3 DEF Deliver, Drop
  <2>2. k + 1 \in DOMAIN queue /\ queue'[k] = queue[k + 1]
    BY <1>0, <2>1
  <2> QED
    BY <1>1, <2>2
<1>4. CASE queue' = queue
  BY <1>1, <1>4
<1>5. CASE queue' = <<>>
  BY <1>5
<1> QED
  BY <1>2, <1>3, <1>4, <1>5
     DEF Next, vars, Boot, Poll, PostScored, PostRejected, PostFails, Published,
       Unconfirmed, StopSeen, Exit, Gone, CommitArrives, CommitLost, Evict,
       Rejoin, Raise, Kill, Stop, Wait

LEMMA TopicStep ==
  IInv /\ OrderInv /\ [Next]_vars => TopicSettled' /\ FirstsInOrder'
<1> SUFFICES ASSUME IInv, OrderInv, [Next]_vars PROVE TopicSettled' /\ FirstsInOrder'
  OBVIOUS
<1>0. /\ TypeOK /\ queue \in Seq(Offsets) /\ topic \in Seq(Offsets)
      /\ Settled \subseteq Settled'
  BY SettledStays DEF IInv, TypeOK
<1>1. skipped \subseteq skipped'
  BY DEF Next, vars, Boot, Poll, PostScored, PostRejected, PostFails, Produce, Deliver,
     Drop, Published, Unconfirmed, StopSeen, Exit, Gone, CommitArrives, CommitLost,
     Evict, Rejoin, Raise, Kill, Stop, Wait
<1>2. CASE topic' = topic
  <2>1. TopicSettled'
    BY <1>0, <1>2 DEF OrderInv, TopicSettled, SettledBelow
  <2> QED
    BY <1>1, <1>2, <2>1 DEF OrderInv, FirstsInOrder
<1>3. CASE topic' # topic
  <2>1. /\ Deliver
        /\ topic' = Append(topic, Head(queue)) /\ skipped' = skipped
        /\ Head(queue) \notin Delivered
    BY <1>3 DEF Next, vars, Boot, Poll, PostScored, PostRejected, PostFails, Produce,
       Deliver, Drop, Published, Unconfirmed, StopSeen, Exit, Gone, CommitArrives,
       CommitLost, Evict, Rejoin, Raise, Kill, Stop, Wait
  <2> DEFINE x == Head(queue)
             n == Len(topic)
  <2>2. x \in Offsets /\ IsRow(x) /\ SettledBelow(x)
    <3>1. 1 \in DOMAIN queue /\ x = queue[1]
      BY <1>0, <2>1 DEF Deliver
    <3> QED
      BY <3>1 DEF OrderInv, QueuedRows, IsRow
  <2>3. /\ n \in Nat /\ DOMAIN topic = 1..n /\ DOMAIN topic' = 1..(n + 1)
        /\ \A i \in 1..n : topic'[i] = topic[i] /\ topic[i] \in Offsets
        /\ topic'[n + 1] = x
    BY <1>0, <2>1, <2>2
  <2>4. ASSUME NEW i \in 1..n PROVE topic[i] < x \/ x \in skipped
    <3>1. topic[i] # x /\ topic[i] \in Int /\ x \in Int /\ x >= 0
      BY <2>1, <2>2, <2>3 DEF Delivered, Offsets
    <3>2. SUFFICES ASSUME x < topic[i] PROVE x \in skipped
      BY <3>1
    <3>3. x \in Settled
      BY <2>3, <3>1, <3>2 DEF OrderInv, TopicSettled, SettledBelow
    <3>4. x \notin Malformed
      BY <2>2 DEF IsRow, Malformed
    <3> QED
      BY <2>1, <3>3, <3>4 DEF Settled
  <2> HIDE DEF x, n
  <2>5. TopicSettled'
    <3>1. ASSUME NEW k \in 1..(n + 1) PROVE 0..(topic'[k] - 1) \subseteq Settled'
      <4>1. CASE k = n + 1
        BY <1>0, <2>2, <2>3, <4>1 DEF SettledBelow
      <4>2. CASE k \in 1..n
        BY <1>0, <2>3, <4>2 DEF OrderInv, TopicSettled, SettledBelow
      <4> QED
        BY <2>3, <4>1, <4>2
    <3> QED
      BY <2>3, <3>1 DEF TopicSettled, SettledBelow
  <2>6. FirstsInOrder'
    <3> SUFFICES ASSUME NEW i \in 1..(n + 1), NEW j \in 1..(n + 1), i < j
                 PROVE  topic'[i] < topic'[j] \/ topic'[j] \in skipped
      BY <2>1, <2>3 DEF FirstsInOrder
    <3>1. CASE j = n + 1
      BY <2>3, <2>4, <3>1
    <3>2. CASE j \in 1..n
      <4>1. i \in 1..n
        BY <2>3, <3>2
      <4> QED
        BY <2>3, <3>2, <4>1 DEF OrderInv, FirstsInOrder
    <3> QED
      BY <2>3, <3>1, <3>2
  <2> QED
    BY <2>5, <2>6
<1> QED
  BY <1>2, <1>3

\* Events first enter ticks.predictions in the order of ticks.features, but
\* for one the API rejected and, after a restart, scored: the bridge handles
\* one message at a time and goes back only to a committed offset.
THEOREM EventsInOrder == Spec => []FirstsInOrder
<1>1. IInv /\ OrderInv /\ [Next]_vars => OrderInv'
  BY HandStep, QueueStep, TopicStep DEF OrderInv
<1>2. Spec => []OrderInv
  BY <1>1, InitOrder, InductiveInvariant, PTL DEF Spec
<1>3. OrderInv => FirstsInOrder
  BY DEF OrderInv
<1> QED
  BY <1>2, <1>3, PTL

-----------------------------------------------------------------------------
\* Every step of the bridge is a step of Projection or leaves its view alone.
LEMMA AbstractStep == IInv /\ IInv' /\ [Next]_vars => [Abstract!Next]_Abstract!vars
<1> SUFFICES ASSUME IInv, IInv', [Next]_vars PROVE [Abstract!Next]_Abstract!vars
  OBVIOUS
<1> DEFINE View == [s \in {"features"} |-> [p \in {0} |-> Settled]]
           Acked == [s \in {"features"} |-> [p \in {0} |-> committed]]
<1>1. CASE committed' = committed
  <2>1. Settled \subseteq Settled'
    BY SettledStays DEF IInv
  <2>2. Abstract!Project("features")
    BY <1>1, <2>1 DEF Abstract!Project
  <2> QED
    BY <2>2 DEF Abstract!Next
<1>2. CASE committed' # committed
  <2>1. CommitArrives
    BY <1>2 DEF Next, vars, Boot, Poll, PostScored, PostRejected, PostFails, Produce,
       Deliver, Drop, Published, Unconfirmed, StopSeen, Exit, Gone, CommitLost, Evict,
       Rejoin, Raise, Kill, Stop, Wait
  <2>2. Settled' = Settled
    BY <2>1 DEF CommitArrives, Settled, Delivered
  <2>3. 0..(committed' - 1) \subseteq Settled
    BY <2>2 DEF IInv, CommittedIsSettled, SettledBelow
  <2>4. Abstract!Acknowledge("features")
    BY <2>2, <2>3 DEF Abstract!Acknowledge
  <2> QED
    BY <2>4 DEF Abstract!Next
<1> QED
  BY <1>1, <1>2

LEMMA AbstractInit == Init => Abstract!Init
<1> SUFFICES ASSUME Init PROVE Abstract!Init
  OBVIOUS
<1>1. Settled = Malformed
  BY DEF Init, Settled, Delivered
<1> QED
  BY <1>1 DEF Init, Abstract!Init

\* The bridge is a faithful projection of ticks.features onto
\* ticks.predictions: events are only added, and only prefixes with nothing
\* unsettled are acknowledged.
THEOREM Refinement == Spec => ImplementsProjection
<1>1. Init => Abstract!Init
  BY AbstractInit
<1>2. IInv /\ IInv' /\ [Next]_vars => [Abstract!Next]_Abstract!vars
  BY AbstractStep
<1> QED
  BY <1>1, <1>2, InductiveInvariant, PTL DEF Spec, ImplementsProjection, Abstract!Spec
=============================================================================
