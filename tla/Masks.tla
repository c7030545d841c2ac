-------------------------------- MODULE Masks --------------------------------
(***************************************************************************)
(* Filters, sorts and sums by places instead of by a fold: what the        *)
(* comprehensions and sum() of the programs give, in a form that can be    *)
(* reasoned about.                                                         *)
(***************************************************************************)
EXTENDS Integers, FiniteSets, Sequences

\* An array under a mask: what it has at the places kept, in their order.
Masked(array, kept) ==
  [k \in 1 .. Cardinality(kept) |->
     array[CHOOSE p \in kept : Cardinality({q \in kept : q < p}) = k - 1]]

\* The numbers of a set, the smallest first.
Ascending(S) == Masked([x \in S |-> x], S)

\* What the numbers of a list add up to.
Total(list) ==
  LET sum[k \in 0 .. Len(list)] == IF k = 0 THEN 0 ELSE sum[k - 1] + list[k]
  IN  sum[Len(list)]
=============================================================================
