---------------------------- MODULE MCReadModel ----------------------------
(***************************************************************************)
(* Instances of ReadModel: both consumers on one partition each, or the    *)
(* predictions consumer alone on two partitions.                           *)
(***************************************************************************)
EXTENDS ReadModel, TLC

\* Three rows in the order retention sees them; the third is the newest.
MCKeys == 1..3
MCRank == [k \in MCKeys |-> k]
\* Five rows, more than a pruned table holds; two of them tie, as outcomes
\* with one feature_ts do.
MCManyKeys == 1..5
MCRankTie == [k \in MCManyKeys |-> IF k = 3 THEN 2 ELSE k]

\* One partition each: the newest row is not the last, and one message is
\* malformed.
MCLog == (Pred :> [p \in Partitions |-> <<2, 1, 3>>]) @@
         (Out :> [p \in Partitions |-> <<1, Malformed>>])
\* The same for the predictions, and one outcome.
MCShort == (Pred :> [p \in Partitions |-> <<2, 1, 3>>]) @@
           (Out :> [p \in Partitions |-> <<1>>])
\* Two partitions for the predictions consumer alone, one event delivered
\* twice by the bridge.
MCTwo == (Pred :> [p \in Partitions |->
                     IF p = 0 THEN <<1, 3, 5, 1>> ELSE <<Malformed, 4, 2>>]) @@
         (Out :> [p \in Partitions |-> <<>>])
=============================================================================
