----------------------------- MODULE Projection -----------------------------
(***************************************************************************)
(* What the materializer promises of each topic it projects (its module    *)
(* docstring: at-least-once delivery, idempotent inserts): the messages    *)
(* projected only grow in number, and the offset acknowledged to Kafka     *)
(* only ever has projected messages below it.                              *)
(***************************************************************************)
EXTENDS Naturals

CONSTANTS
  Streams, Partitions,
  Length,     \* Length[s][p]: messages in partition p of the topic of s
  RowLess     \* RowLess[s][p]: offsets of messages that need no row

VARIABLES
  projected,  \* projected[s][p]: offsets whose row is stored or retired
  acked       \* acked[s][p]: the group's committed offset

vars == <<projected, acked>>

TypeOK ==
  /\ \A s \in Streams, p \in Partitions :
       projected[s][p] \subseteq 0..(Length[s][p] - 1)
  /\ acked \in [Streams -> [Partitions -> Nat]]

Init ==
  /\ projected = RowLess
  /\ acked = [s \in Streams |-> [p \in Partitions |-> 0]]

\* More messages of one topic become rows.
Project(s) ==
  /\ \A t \in Streams, p \in Partitions :
       IF t = s THEN projected[t][p] \subseteq projected'[t][p]
                ELSE projected'[t] = projected[t]
  /\ UNCHANGED acked

\* Offsets of one topic are acknowledged; they may go back, never past a
\* message that is not projected.
Acknowledge(s) ==
  /\ \A t \in Streams \ {s} : acked'[t] = acked[t]
  /\ \A p \in Partitions : 0..(acked'[s][p] - 1) \subseteq projected[s][p]
  /\ UNCHANGED projected

Next == \E s \in Streams : Project(s) \/ Acknowledge(s)

Spec == Init /\ [][Next]_vars

=============================================================================
