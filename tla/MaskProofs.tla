----------------------------- MODULE MaskProofs -----------------------------
(***************************************************************************)
(* Lemmas the proofs share: least and largest numbers, ranks in a finite   *)
(* set, what a mask keeps (Masks), stretches of a sequence, and loops.     *)
(***************************************************************************)
EXTENDS Masks, Sequences, Functions, WellFoundedInduction, FiniteSetTheorems, TLAPS

LEMMA SmallestOf ==
  ASSUME NEW S \in SUBSET Nat, S # {}
  PROVE  \E least \in S : \A n \in S : least <= n
<1> DEFINE R == OpToRel(<, Nat)
<1>1. PICK least \in S : \A n \in S : <<n, least>> \notin R
  BY NatLessThanWellFounded, WFMin
<1>2. \A n \in S : ~(n < least)
  BY <1>1 DEF OpToRel
<1> QED
  BY <1>2

LEMMA LargestOf ==
  ASSUME NEW n \in Nat, NEW S \in SUBSET (1 .. n), S # {}
  PROVE  \E most \in S : \A i \in S : i <= most
<1> DEFINE T == {n - i : i \in S}
<1>0. \A i \in 1 .. n : n - i \in Nat
  OBVIOUS
<1>1. T \in SUBSET Nat /\ T # {}
  BY <1>0
<1>2. PICK least \in T : \A k \in T : least <= k
  BY <1>1, SmallestOf
<1>3. PICK most \in S : least = n - most
  BY <1>2
<1>4. ASSUME NEW i \in S PROVE i <= most
  <2>1. n - most <= n - i
    BY <1>2, <1>3
  <2> QED
    BY <2>1
<1> QED
  BY <1>4

-----------------------------------------------------------------------------
\* In a finite set with a strict order R, everything has its rank: how many
\* come before it.  All ranks are taken.
LEMMA RanksTaken ==
  ASSUME NEW S, IsFiniteSet(S), NEW R,
         \A a \in S : <<a, a>> \notin R,
         \A a, b \in S : a # b => <<a, b>> \in R \/ <<b, a>> \in R,
         \A a, b, c \in S : <<a, b>> \in R /\ <<b, c>> \in R => <<a, c>> \in R
  PROVE  LET rank(a) == Cardinality({b \in S : <<b, a>> \in R})
         IN  /\ Cardinality(S) \in Nat
             /\ \A a \in S : rank(a) \in 0 .. Cardinality(S) - 1
             /\ \A a, b \in S : <<a, b>> \in R => rank(a) < rank(b)
             /\ \A k \in 1 .. Cardinality(S) : \E a \in S : rank(a) = k - 1
<1> DEFINE Below(a) == {b \in S : <<b, a>> \in R}
           rank(a) == Cardinality(Below(a))
           n == Cardinality(S)
           place == [a \in S |-> rank(a) + 1]
<1>1. n \in Nat
  BY FS_CardinalityType
<1>2. \A a \in S : IsFiniteSet(Below(a)) /\ rank(a) \in Nat
  <2> TAKE a \in S
  <2>1. Below(a) \in SUBSET S
    OBVIOUS
  <2> HIDE DEF Below
  <2>2. IsFiniteSet(Below(a))
    BY <2>1, FS_Subset
  <2> QED
    BY <2>2, FS_CardinalityType
<1>3. \A a \in S : rank(a) <= n - 1
  <2> TAKE a \in S
  <2>1. Below(a) \in SUBSET S /\ Below(a) # S
    OBVIOUS
  <2> HIDE DEF Below
  <2>2. Cardinality(Below(a)) <= n /\ Cardinality(Below(a)) # n
    BY <2>1, FS_Subset
  <2> QED
    BY <1>1, <1>2, <2>2
<1>4. ASSUME NEW a \in S, NEW b \in S, <<a, b>> \in R PROVE rank(a) < rank(b)
  <2>1. Below(a) \in SUBSET Below(b) /\ Below(a) # Below(b)
    BY <1>4
  <2>2. IsFiniteSet(Below(b)) /\ rank(a) \in Nat /\ rank(b) \in Nat
    BY <1>2
  <2> HIDE DEF Below
  <2>3. rank(a) <= rank(b) /\ rank(a) # rank(b)
    BY <2>1, <2>2, FS_Subset
  <2> QED
    BY <2>2, <2>3
<1> HIDE DEF Below, rank
<1>5. \A a \in S : rank(a) + 1 \in 1 .. n
  BY <1>1, <1>2, <1>3 DEF rank
<1>6. \A a, b \in S : rank(a) = rank(b) => a = b
  <2> TAKE a, b \in S
  <2>1. rank(a) \in Nat /\ rank(b) \in Nat
    BY <1>2 DEF rank
  <2>2. a # b => <<a, b>> \in R \/ <<b, a>> \in R
    OBVIOUS
  <2>3. <<a, b>> \in R => rank(a) < rank(b)
    BY <1>4
  <2>4. <<b, a>> \in R => rank(b) < rank(a)
    BY <1>4
  <2> QED
    BY <2>1, <2>2, <2>3, <2>4
<1>7. \A a, b \in S : rank(a) + 1 = rank(b) + 1 => a = b
  BY <1>2, <1>6 DEF rank
<1>8. place \in Injection(S, 1 .. n)
  BY <1>5, <1>7 DEF Injection, IsInjective
<1>9. IsFiniteSet(1 .. n) /\ Cardinality(1 .. n) = n
  BY <1>1, FS_Interval
<1>10. place \in Surjection(S, 1 .. n)
  BY <1>1, <1>8, <1>9, FS_Injection
<1>11. \A k \in 1 .. n : \E a \in S : rank(a) + 1 = k
  BY <1>10 DEF Surjection
<1>12. \A k \in 1 .. n : \E a \in S : rank(a) = k - 1
  <2> TAKE k \in 1 .. n
  <2>1. PICK a \in S : rank(a) + 1 = k
    BY <1>11
  <2>2. rank(a) \in Nat
    BY <1>2 DEF rank
  <2> QED
    BY <2>1, <2>2
<1>13. \A a \in S : rank(a) \in 0 .. n - 1
  BY <1>1, <1>2, <1>3 DEF rank
<1> QED
  BY <1>1, <1>4, <1>12, <1>13 DEF rank, Below

\* The elements of a finite set in a strict order, each where its rank puts it.
ByRank(S, R) ==
  [k \in 1 .. Cardinality(S) |->
     CHOOSE a \in S : Cardinality({b \in S : <<b, a>> \in R}) = k - 1]

LEMMA RankedInOrder ==
  ASSUME NEW S, IsFiniteSet(S), NEW R,
         \A a \in S : <<a, a>> \notin R,
         \A a, b \in S : a # b => <<a, b>> \in R \/ <<b, a>> \in R,
         \A a, b, c \in S : <<a, b>> \in R /\ <<b, c>> \in R => <<a, c>> \in R
  PROVE  /\ Cardinality(S) \in Nat
         /\ ByRank(S, R) \in [1 .. Cardinality(S) -> S]
         /\ \A j, k \in 1 .. Cardinality(S) :
              j < k => <<ByRank(S, R)[j], ByRank(S, R)[k]>> \in R
         /\ \A a \in S : \E k \in 1 .. Cardinality(S) : ByRank(S, R)[k] = a
<1> DEFINE rank(a) == Cardinality({b \in S : <<b, a>> \in R})
           n == Cardinality(S)
           at == ByRank(S, R)
<1>1. /\ n \in Nat
      /\ \A a \in S : rank(a) \in 0 .. n - 1
      /\ \A a, b \in S : <<a, b>> \in R => rank(a) < rank(b)
      /\ \A k \in 1 .. n : \E a \in S : rank(a) = k - 1
  BY RanksTaken
<1> HIDE DEF rank, n
<1> DEFINE to(k) == CHOOSE a \in S : rank(a) = k - 1
<1>a. at = [k \in 1 .. n |-> to(k)]
  BY DEF ByRank, rank, n
<1>b. \A k \in 1 .. n : to(k) \in S /\ rank(to(k)) = k - 1
  BY <1>1
<1> HIDE DEF to, at
<1>2. \A k \in 1 .. n : at[k] \in S /\ rank(at[k]) = k - 1
  BY <1>a, <1>b
<1>3. at \in [1 .. n -> S]
  BY <1>a, <1>b
<1>4. ASSUME NEW j \in 1 .. n, NEW k \in 1 .. n, j < k PROVE <<at[j], at[k]>> \in R
  <2>1. at[j] \in S /\ at[k] \in S /\ rank(at[j]) = j - 1 /\ rank(at[k]) = k - 1
    BY <1>2
  <2>2. at[j] # at[k] /\ ~(rank(at[k]) < rank(at[j]))
    BY <1>1, <1>4, <2>1
  <2>3. <<at[k], at[j]>> \notin R
    BY <1>1, <2>1, <2>2
  <2> QED
    BY <2>1, <2>2, <2>3
<1>5. ASSUME NEW a \in S PROVE \E k \in 1 .. n : at[k] = a
  <2>1. rank(a) + 1 \in 1 .. n /\ rank(a) \in Int
    BY <1>1
  <2> DEFINE k == rank(a) + 1
  <2>2. at[k] \in S /\ rank(at[k]) = rank(a)
    BY <1>2, <2>1
  <2>3. ~(rank(at[k]) < rank(a)) /\ ~(rank(a) < rank(at[k]))
    BY <2>1, <2>2
  <2>4. <<at[k], a>> \notin R /\ <<a, at[k]>> \notin R
    BY <1>1, <2>2, <2>3
  <2>5. at[k] = a
    BY <2>2, <2>4
  <2> QED
    BY <2>1, <2>5
<1> QED
  BY <1>1, <1>3, <1>4, <1>5 DEF n, at

\* The numbers of a finite set, the smallest first.
LEMMA NumbersInOrder ==
  ASSUME NEW kept, IsFiniteSet(kept), \A a \in kept : a \in Int
  PROVE  \E R :
           /\ \A a, b \in kept : <<a, b>> \in R <=> a < b
           /\ Cardinality(kept) \in Nat
           /\ ByRank(kept, R) \in [1 .. Cardinality(kept) -> kept]
           /\ \A j, k \in 1 .. Cardinality(kept) :
                j < k => <<ByRank(kept, R)[j], ByRank(kept, R)[k]>> \in R
           /\ \A a \in kept : \E k \in 1 .. Cardinality(kept) : ByRank(kept, R)[k] = a
<1> DEFINE R == {p \in kept \X kept : p[1] < p[2]}
<1>1. \A a, b \in kept : <<a, b>> \in R <=> a < b
  OBVIOUS
<1> HIDE DEF R
<1>2. \A a \in kept : <<a, a>> \notin R
  BY <1>1
<1>3. \A a, b \in kept : a # b => <<a, b>> \in R \/ <<b, a>> \in R
  BY <1>1
<1>4. \A a, b, c \in kept : <<a, b>> \in R /\ <<b, c>> \in R => <<a, c>> \in R
  BY <1>1
<1>5. /\ Cardinality(kept) \in Nat
      /\ ByRank(kept, R) \in [1 .. Cardinality(kept) -> kept]
      /\ \A j, k \in 1 .. Cardinality(kept) :
           j < k => <<ByRank(kept, R)[j], ByRank(kept, R)[k]>> \in R
      /\ \A a \in kept : \E k \in 1 .. Cardinality(kept) : ByRank(kept, R)[k] = a
  BY <1>2, <1>3, <1>4, RankedInOrder
<1> QED
  BY <1>1, <1>5

\* A masked array has what was kept, in the order of the places.
Picks(at, array, kept) ==
  /\ at \in [1 .. Cardinality(kept) -> kept]
  /\ Masked(array, kept) = [k \in 1 .. Cardinality(kept) |-> array[at[k]]]
  /\ \A j, k \in 1 .. Cardinality(kept) : j < k => at[j] < at[k]
  /\ \A p \in kept : \E k \in 1 .. Cardinality(kept) : at[k] = p

LEMMA MaskedNumbers ==
  ASSUME NEW array, NEW kept, IsFiniteSet(kept), \A a \in kept : a \in Int
  PROVE  Cardinality(kept) \in Nat /\ \E at : Picks(at, array, kept)
<1>1. IsFiniteSet(kept)
  OBVIOUS
<1>2. \A a \in kept : a \in Int
  OBVIOUS
<1>3. PICK R : /\ \A a, b \in kept : <<a, b>> \in R <=> a < b
               /\ Cardinality(kept) \in Nat
               /\ ByRank(kept, R) \in [1 .. Cardinality(kept) -> kept]
               /\ \A j, k \in 1 .. Cardinality(kept) :
                    j < k => <<ByRank(kept, R)[j], ByRank(kept, R)[k]>> \in R
               /\ \A a \in kept : \E k \in 1 .. Cardinality(kept) : ByRank(kept, R)[k] = a
  BY <1>1, <1>2, NumbersInOrder
<1> DEFINE m == Cardinality(kept)
           at == ByRank(kept, R)
<1>6. Masked(array, kept) = [k \in 1 .. m |-> array[at[k]]]
  <2>1. \A a \in kept : {b \in kept : <<b, a>> \in R} = {b \in kept : b < a}
    BY <1>3
  <2> DEFINE to(k) == CHOOSE a \in kept : Cardinality({b \in kept : b < a}) = k - 1
             one(k) == CHOOSE a \in kept : Cardinality({b \in kept : <<b, a>> \in R}) = k - 1
  <2>2. \A k \in 1 .. m : one(k) = to(k)
    BY <2>1
  <2>4. at = [k \in 1 .. m |-> one(k)]
    BY DEF ByRank
  <2>3. Masked(array, kept) = [k \in 1 .. m |-> array[to(k)]]
    BY DEF Masked
  <2> HIDE DEF to, one, at
  <2> QED
    BY <2>2, <2>3, <2>4
<1> HIDE DEF at, m
<1>7. m \in Nat /\ at \in [1 .. m -> kept] /\ \A p \in kept : \E k \in 1 .. m : at[k] = p
  BY <1>3 DEF m, at
<1>8. \A j, k \in 1 .. m : j < k => at[j] < at[k]
  <2>1. \A j, k \in 1 .. m : j < k => <<at[j], at[k]>> \in R
    BY <1>3 DEF m, at
  <2> QED
    BY <1>3, <1>7, <2>1
<1>9. Picks(at, array, kept)
  BY <1>6, <1>7, <1>8 DEF Picks, m
<1> QED
  BY <1>7, <1>9 DEF m

LEMMA MaskedPlaces ==
  ASSUME NEW array, NEW n \in Nat, NEW kept, kept \subseteq 1 .. n
  PROVE  Cardinality(kept) \in Nat /\ \E at : Picks(at, array, kept)
<1>1. IsFiniteSet(kept)
  <2>1. 1 \in Int /\ n \in Int /\ kept \subseteq 1 .. n
    OBVIOUS
  <2>2. IsFiniteSet(1 .. n)
    BY <2>1, FS_Interval
  <2> QED
    BY <2>1, <2>2, FS_Subset
<1>2. \A a \in kept : a \in Int
  OBVIOUS
<1> QED
  BY <1>1, <1>2, MaskedNumbers

LEMMA MaskedRange ==
  ASSUME NEW array, NEW n \in Nat, NEW kept, kept \subseteq 1 .. n
  PROVE  Range(Masked(array, kept)) = {array[p] : p \in kept}
<1> DEFINE m == Cardinality(kept)
<1>3. PICK at : Picks(at, array, kept)
  BY MaskedPlaces
<1>1. /\ at \in [1 .. m -> kept]
      /\ Masked(array, kept) = [k \in 1 .. m |-> array[at[k]]]
      /\ \A p \in kept : \E k \in 1 .. m : at[k] = p
  BY <1>3 DEF Picks
<1> HIDE DEF m
<1>2. Range(Masked(array, kept)) = {array[at[k]] : k \in 1 .. m}
  <2> DEFINE f == Masked(array, kept)
  <2>1. DOMAIN f = 1 .. m /\ \A k \in 1 .. m : f[k] = array[at[k]]
    BY <1>1
  <2>2. Range(f) = {f[k] : k \in DOMAIN f}
    BY DEF Range
  <2> HIDE DEF f
  <2>3. Range(f) = {array[at[k]] : k \in 1 .. m}
    BY <2>1, <2>2
  <2> QED
    BY <2>3 DEF f
<1>4. \A k \in 1 .. m : at[k] \in kept
  BY <1>1
<1>5. {array[at[k]] : k \in 1 .. m} \subseteq {array[p] : p \in kept}
  BY <1>4
<1>6. {array[p] : p \in kept} \subseteq {array[at[k]] : k \in 1 .. m}
  BY <1>1
<1> QED
  BY <1>2, <1>5, <1>6

-----------------------------------------------------------------------------
LEMMA Subsequence ==
  ASSUME NEW n \in Nat, NEW order \in [1 .. n -> Int],
         NEW a \in Int, NEW b \in Int, 1 <= a, a <= b + 1, b <= n
  PROVE  /\ Len(SubSeq(order, a, b)) = b - a + 1
         /\ DOMAIN SubSeq(order, a, b) = 1 .. b - a + 1
         /\ \A i \in 1 .. b - a + 1 : SubSeq(order, a, b)[i] = order[a + i - 1]
         /\ Range(SubSeq(order, a, b)) = {order[p] : p \in a .. b}
<1>1. order \in Seq(Int) /\ Len(order) = n
  OBVIOUS
<1>2. /\ Len(SubSeq(order, a, b)) = b - a + 1
      /\ DOMAIN SubSeq(order, a, b) = 1 .. b - a + 1
      /\ \A i \in 1 .. b - a + 1 : SubSeq(order, a, b)[i] = order[a + i - 1]
  BY <1>1
<1>3. Range(SubSeq(order, a, b)) = {SubSeq(order, a, b)[i] : i \in 1 .. b - a + 1}
  BY <1>2 DEF Range
<1>4. \A p \in a .. b : p - a + 1 \in 1 .. b - a + 1 /\ a + (p - a + 1) - 1 = p
  OBVIOUS
<1>5. \A i \in 1 .. b - a + 1 : a + i - 1 \in a .. b
  OBVIOUS
<1>6. Range(SubSeq(order, a, b)) \subseteq {order[p] : p \in a .. b}
  BY <1>2, <1>3, <1>5
<1>7. {order[p] : p \in a .. b} \subseteq Range(SubSeq(order, a, b))
  <2>1. \A p \in a .. b : SubSeq(order, a, b)[p - a + 1] = order[p]
    BY <1>2, <1>4
  <2> QED
    BY <1>3, <1>4, <2>1
<1> QED
  BY <1>2, <1>6, <1>7

Loops(f, n, V, first, step) ==
  /\ f \in [0 .. n -> V] /\ f[0] = first
  /\ \A k \in 1 .. n : f[k] = step[<<k, f[k - 1]>>]

\* A loop over n things from a first value has a value after each of them.
LEMMA LoopRuns ==
  ASSUME NEW n \in Nat, NEW V, NEW first, first \in V, NEW step,
         \A k \in 1 .. n, v \in V : step[<<k, v>>] \in V
  PROVE  \E f : Loops(f, n, V, first, step)
<1> DEFINE reached(m, f) == Loops(f, m, V, first, step)
           S == {m \in Nat : m <= n /\ ~(\E f : reached(m, f))}
<1>1. SUFFICES ASSUME ~(\E f : reached(n, f)) PROVE FALSE
  OBVIOUS
<1>2. S \in SUBSET Nat /\ S # {}
  BY <1>1
<1>3. PICK m \in S : \A l \in S : m <= l
  BY <1>2, SmallestOf
<1>4. m \in Nat /\ m <= n /\ ~(\E f : reached(m, f))
  OBVIOUS
<1>5. m # 0
  <2> DEFINE f == [k \in 0 .. 0 |-> first]
  <2>1. reached(0, f)
    BY DEF Loops
  <2> HIDE DEF f, reached
  <2> QED
    BY <1>4, <2>1
<1> DEFINE l == m - 1
<1>6. l \in Nat /\ l <= n /\ l < m /\ l + 1 = m
  BY <1>4, <1>5
<1>7. l \notin S
  BY <1>3, <1>6
<1>8. PICK f : reached(l, f)
  BY <1>6, <1>7
<1> HIDE DEF l
<1>15. /\ f \in [0 .. l -> V] /\ f[0] = first
       /\ \A k \in 1 .. l : f[k] = step[<<k, f[k - 1]>>]
  BY <1>8 DEF Loops
<1>9. f[l] \in V /\ step[<<m, f[l]>>] \in V
  <2>1. m \in 1 .. n /\ f[l] \in V
    BY <1>4, <1>5, <1>6, <1>15
  <2> QED
    BY <2>1
<1> DEFINE g == [k \in 0 .. m |-> IF k = m THEN step[<<m, f[l]>>] ELSE f[k]]
<1>10. \A k \in 0 .. m : k # m => k \in 0 .. l
  BY <1>6
<1>11. g \in [0 .. m -> V]
  BY <1>9, <1>10, <1>15
<1>12. g[0] = first
  BY <1>4, <1>5, <1>15
<1>13. ASSUME NEW k \in 1 .. m PROVE g[k] = step[<<k, g[k - 1]>>]
  <2>1. k - 1 \in 0 .. m /\ k - 1 # m /\ k \in 0 .. m
    BY <1>4
  <2>2. g[k - 1] = f[k - 1]
    BY <2>1
  <2>3. CASE k = m
    BY <1>4, <1>6, <2>1, <2>2, <2>3
  <2>4. CASE k # m
    <3>1. k \in 1 .. l
      BY <1>6, <2>4
    <3> QED
      BY <1>15, <2>1, <2>2, <2>4, <3>1
  <2> QED
    BY <2>3, <2>4
<1>14. reached(m, g)
  <2> HIDE DEF g
  <2> QED
    BY <1>11, <1>12, <1>13 DEF Loops
<1> QED
  BY <1>4, <1>14

\* What holds at 0 and goes from each number to the next holds up to n.
LEMMA AllReached ==
  ASSUME NEW n \in Nat, NEW S, 0 \in S, \A k \in 1 .. n : k - 1 \in S => k \in S
  PROVE  \A k \in 0 .. n : k \in S
<1> DEFINE T == {k \in 0 .. n : k \notin S}
<1>1. SUFFICES ASSUME T # {} PROVE FALSE
  OBVIOUS
<1>2. T \in SUBSET Nat
  OBVIOUS
<1>3. PICK k \in T : \A l \in T : k <= l
  BY <1>1, <1>2, SmallestOf
<1>4. k \in 1 .. n /\ k - 1 \in 0 .. n
  OBVIOUS
<1>5. k - 1 \notin T
  BY <1>3, <1>4
<1> QED
  BY <1>4, <1>5

\* A function that is computed as such a loop runs through its values.
LEMMA LoopRead ==
  ASSUME NEW n \in Nat, NEW V, NEW first, first \in V, NEW step,
         \A k \in 1 .. n, v \in V : step[<<k, v>>] \in V,
         NEW f, DOMAIN f = 0 .. n, f = [k \in 0 .. n |-> f[k]], f[0] = first,
         \A k \in 1 .. n : f[k - 1] \in V => f[k] = step[<<k, f[k - 1]>>]
  PROVE  Loops(f, n, V, first, step)
<1> DEFINE fine == {k \in 0 .. n : f[k] \in V}
<1>1. 0 \in fine
  OBVIOUS
<1>2. ASSUME NEW k \in 1 .. n, k - 1 \in fine PROVE k \in fine
  <2>1. f[k - 1] \in V /\ k \in 0 .. n
    BY <1>2
  <2>2. f[k] = step[<<k, f[k - 1]>>] /\ step[<<k, f[k - 1]>>] \in V
    BY <2>1
  <2> QED BY <2>1, <2>2
<1>3. \A k \in 0 .. n : k \in fine
  <2> HIDE DEF fine
  <2> QED BY <1>1, <1>2, AllReached
<1>4. \A k \in 0 .. n : f[k] \in V
  BY <1>3
<1>5. f \in [0 .. n -> V]
  BY <1>4
<1>6. \A k \in 1 .. n : k - 1 \in 0 .. n
  OBVIOUS
<1>7. \A k \in 1 .. n : f[k] = step[<<k, f[k - 1]>>]
  BY <1>4, <1>6
<1> QED BY <1>5, <1>7 DEF Loops

-----------------------------------------------------------------------------
\* A total, number by number.
Sums(f, n, a) ==
  /\ f \in [0 .. n -> Nat] /\ f[0] = 0
  /\ \A k \in 1 .. n : f[k] = f[k - 1] + a[k]

LEMMA TotalRuns ==
  ASSUME NEW n \in Nat, NEW a \in [1 .. n -> Nat]
  PROVE  \E f : Sums(f, n, a) /\ Total(a) = f[n]
<1> DEFINE V == Nat
           next(k, m) == m + a[k]
           step == [x \in (1 .. n) \X V |-> next(x[1], x[2])]
           loop(f) == [k \in 0 .. n |-> IF k = 0 THEN 0 ELSE next(k, f[k - 1])]
           f == CHOOSE f : f = loop(f)
<1>1. Len(a) = n
  OBVIOUS
<1>2. Total(a) = f[n]
  BY <1>1 DEF Total
<1>3. \A k \in 1 .. n, m \in V : next(k, m) \in V
  OBVIOUS
<1>4. step \in [(1 .. n) \X V -> V] /\ \A k \in 1 .. n, m \in V : step[<<k, m>>] = next(k, m)
  <2> HIDE DEF next, V
  <2> QED BY <1>3
<1>5. 0 \in V
  OBVIOUS
<1> HIDE DEF step, V
<1>6. \A k \in 1 .. n, m \in V : step[<<k, m>>] \in V
  BY <1>4
<1>7. PICK g : Loops(g, n, V, 0, step)
  BY <1>5, <1>6, LoopRuns
<1>8. g \in [0 .. n -> V] /\ g[0] = 0 /\ \A k \in 1 .. n : g[k] = step[<<k, g[k - 1]>>]
  BY <1>7 DEF Loops
<1>9. \A k \in 0 .. n : k # 0 => k \in 1 .. n /\ k - 1 \in 0 .. n
  OBVIOUS
<1> HIDE DEF next
<1>10. \A k \in 0 .. n : g[k] = IF k = 0 THEN 0 ELSE next(k, g[k - 1])
  BY <1>4, <1>8, <1>9
<1>11. g = loop(g)
  BY <1>8, <1>10
<1>12. f = loop(f)
  <2> HIDE DEF loop
  <2> QED BY <1>11
<1> HIDE DEF f
<1>13. DOMAIN f = 0 .. n /\ \A k \in 0 .. n : f[k] = IF k = 0 THEN 0 ELSE next(k, f[k - 1])
  BY <1>12
<1>14. f = [k \in 0 .. n |-> f[k]]
  BY <1>12, <1>13 DEF loop
<1> HIDE DEF loop
<1>15. f[0] = 0 /\ \A k \in 1 .. n : f[k] = next(k, f[k - 1])
  <2>1. 0 \in 0 .. n /\ \A k \in 1 .. n : k \in 0 .. n /\ k # 0
    OBVIOUS
  <2> QED BY <1>13, <2>1
<1>16. \A k \in 1 .. n : f[k - 1] \in V => f[k] = step[<<k, f[k - 1]>>]
  BY <1>4, <1>15
<1>17. Loops(f, n, V, 0, step)
  BY <1>5, <1>6, <1>13, <1>14, <1>15, <1>16, LoopRead
<1>18. Sums(f, n, a)
  BY <1>15, <1>17 DEF Loops, Sums, V, next
<1> QED BY <1>2, <1>18

\* Sets that have no element in common, and their sizes.
Sized(n, parts, a) == \A k \in 1 .. n : IsFiniteSet(parts[k]) /\ Cardinality(parts[k]) = a[k]
Disjoint(n, parts) == \A j, k \in 1 .. n : j # k => parts[j] \cap parts[k] = {}
Whole1(n, parts) == UNION {parts[k] : k \in 1 .. n}

LEMMA TwoParts ==
  ASSUME NEW A, NEW B, IsFiniteSet(A), IsFiniteSet(B), A \cap B = {}
  PROVE  IsFiniteSet(A \cup B) /\ Cardinality(A \cup B) = Cardinality(A) + Cardinality(B)
<1>1. /\ IsFiniteSet(A \cup B)
      /\ Cardinality(A \cup B) = Cardinality(A) + Cardinality(B) - Cardinality(A \cap B)
  BY FS_Union
<1>2. Cardinality(A \cap B) = 0
  BY FS_EmptySet
<1>3. Cardinality(A) \in Nat /\ Cardinality(B) \in Nat
  BY FS_CardinalityType
<1> QED BY <1>1, <1>2, <1>3

\* The sizes of disjoint sets add up to that of their union.
LEMMA TotalOfParts ==
  ASSUME NEW n \in Nat, NEW a \in [1 .. n -> Nat], NEW parts,
         Sized(n, parts, a), Disjoint(n, parts)
  PROVE  IsFiniteSet(Whole1(n, parts)) /\ Total(a) = Cardinality(Whole1(n, parts))
<1>1. PICK f : Sums(f, n, a) /\ Total(a) = f[n]
  BY TotalRuns
<1>2. f \in [0 .. n -> Nat] /\ f[0] = 0 /\ \A k \in 1 .. n : f[k] = f[k - 1] + a[k]
  BY <1>1 DEF Sums
<1> DEFINE of(k) == UNION {parts[j] : j \in 1 .. k}
           good == {k \in 0 .. n : IsFiniteSet(of(k)) /\ f[k] = Cardinality(of(k))}
<1>3. 0 \in good
  <2>1. of(0) = {}
    OBVIOUS
  <2>2. IsFiniteSet({}) /\ Cardinality({}) = 0
    BY FS_EmptySet
  <2> HIDE DEF of
  <2>3. IsFiniteSet(of(0)) /\ f[0] = Cardinality(of(0))
    BY <1>2, <2>1, <2>2
  <2> QED BY <2>3
<1>4. ASSUME NEW k \in 1 .. n, k - 1 \in good PROVE k \in good
  <2>1. k \in 0 .. n /\ k - 1 \in 0 .. n /\ IsFiniteSet(of(k - 1)) /\ f[k - 1] = Cardinality(of(k - 1))
    BY <1>4
  <2>2. of(k) = of(k - 1) \cup parts[k]
    <3>1. \A j : j \in 1 .. k <=> j \in 1 .. k - 1 \/ j = k
      OBVIOUS
    <3> QED BY <3>1
  <2>3. of(k - 1) \cap parts[k] = {}
    <3>1. ASSUME NEW j \in 1 .. k - 1 PROVE parts[j] \cap parts[k] = {}
      <4>1. j \in 1 .. n /\ j # k
        OBVIOUS
      <4> QED BY <4>1 DEF Disjoint
    <3> QED BY <3>1
  <2>4. IsFiniteSet(parts[k]) /\ Cardinality(parts[k]) = a[k] /\ a[k] \in Nat
    BY DEF Sized
  <2>5. f[k] = f[k - 1] + a[k] /\ f[k - 1] \in Nat
    BY <1>2, <2>1
  <2> HIDE DEF of
  <2>6. IsFiniteSet(of(k)) /\ Cardinality(of(k)) = Cardinality(of(k - 1)) + Cardinality(parts[k])
    <3> DEFINE A == of(k - 1)
               B == parts[k]
    <3>1. IsFiniteSet(A) /\ IsFiniteSet(B) /\ A \cap B = {} /\ of(k) = A \cup B
      BY <2>1, <2>2, <2>3, <2>4
    <3> HIDE DEF A, B
    <3>2. IsFiniteSet(A \cup B) /\ Cardinality(A \cup B) = Cardinality(A) + Cardinality(B)
      BY <3>1, TwoParts
    <3>3. IsFiniteSet(of(k)) /\ Cardinality(of(k)) = Cardinality(A) + Cardinality(B)
      BY <3>1, <3>2
    <3> QED BY <3>3 DEF A, B
  <2>8. f[k] = Cardinality(of(k))
    BY <2>1, <2>4, <2>5, <2>6
  <2> QED BY <2>1, <2>6, <2>8
<1>5. n \in good
  <2>1. n \in 0 .. n
    OBVIOUS
  <2> HIDE DEF good
  <2> QED BY <1>3, <1>4, <2>1, AllReached
<1>6. of(n) = Whole1(n, parts)
  BY DEF Whole1
<1> HIDE DEF of
<1> QED BY <1>1, <1>5, <1>6

PickedIn(at, m, S) == {k \in 1 .. m : at[k] \in S}
InBoth(kept, S) == kept \cap S
PicksOf(at, array, n, kept) == kept \subseteq 1 .. n /\ Picks(at, array, kept)

\* As many of the places of a masked array are in S as of the places kept.
LEMMA MaskedCount ==
  ASSUME NEW array, NEW n \in Nat, NEW kept, NEW at, PicksOf(at, array, n, kept), NEW S
  PROVE  /\ IsFiniteSet(InBoth(kept, S))
         /\ Cardinality(PickedIn(at, Cardinality(kept), S)) = Cardinality(InBoth(kept, S))
<1> DEFINE m == Cardinality(kept)
           A == {k \in 1 .. m : at[k] \in S}
           B == kept \cap S
           f == [k \in A |-> at[k]]
<1>0. kept \subseteq 1 .. n /\ Picks(at, array, kept)
  BY DEF PicksOf
<1>1. m \in Nat
  BY <1>0, MaskedPlaces
<1>2. /\ at \in [1 .. m -> kept] /\ \A j, k \in 1 .. m : j < k => at[j] < at[k]
      /\ \A p \in kept : \E k \in 1 .. m : at[k] = p
  BY <1>0 DEF Picks
<1> HIDE DEF m
<1>10. \A p \in kept : p \in Int
  BY <1>0
<1>3. \A k \in 1 .. m : at[k] \in kept /\ at[k] \in Int
  BY <1>2, <1>10
<1>4. f \in Surjection(A, B)
  <2>1. f \in [A -> B]
    BY <1>3
  <2>2. \A b \in B : \E k \in A : f[k] = b
    BY <1>2
  <2> HIDE DEF f, A, B
  <2> QED BY <2>1, <2>2 DEF Surjection
<1>5. f \in Injection(A, B)
  <2>1. ASSUME NEW j \in A, NEW k \in A, j # k PROVE f[j] # f[k]
    <3>1. j \in 1 .. m /\ k \in 1 .. m /\ (j < k \/ k < j)
      BY <1>1, <2>1
    <3>2. at[j] \in Int /\ at[k] \in Int /\ (at[j] < at[k] \/ at[k] < at[j])
      BY <1>2, <1>3, <3>1
    <3>3. f[j] = at[j] /\ f[k] = at[k]
      OBVIOUS
    <3> QED BY <3>2, <3>3
  <2>2. f \in [A -> B]
    BY <1>4 DEF Surjection
  <2> HIDE DEF f, A, B
  <2> QED BY <2>1, <2>2 DEF Injection, IsInjective
<1>6. IsFiniteSet(A)
  <2>1. IsFiniteSet(1 .. m)
    BY <1>1, FS_Interval
  <2>2. A \in SUBSET (1 .. m)
    OBVIOUS
  <2> QED BY <2>1, <2>2, FS_Subset
<1> HIDE DEF f, A, B
<1>7. IsFiniteSet(B) /\ Cardinality(B) = Cardinality(A)
  BY <1>4, <1>5, <1>6, FS_Surjection
<1> QED BY <1>7 DEF A, B, m, PickedIn, InBoth
=============================================================================
