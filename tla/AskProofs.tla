------------------------------ MODULE AskProofs ------------------------------
(***************************************************************************)
(* Proofs about Ask, for any tools, plans, limits and answers: its types,  *)
(* the step budget, that no tool call is left behind by the step that made *)
(* it, the order of the records, what the response shows and says, and     *)
(* that an ask can go on and draws nearer to its end with every step.      *)
(*                                                                         *)
(* Ask's sequences are made by picking and joining, which is induction     *)
(* over data.  It is done here by least counterexamples (lemma Least): a   *)
(* statement about all numbers holds if no number is the least it fails of.*)
(***************************************************************************)
EXTENDS Ask, FiniteSetTheorems, TLAPS

(* A set of numbers that is not empty has a least one.                       *)
LEMMA Least ==
  ASSUME NEW T, T \subseteq Nat, T # {}
  PROVE  \E x \in T : \A y \in T : x <= y
<1> DEFINE R == OpToRel(<, Nat)
<1>1. IsWellFoundedOn(R, Nat)
  BY NatLessThanWellFounded
<1>2. \A x, y \in Nat : y < x => <<y, x>> \in R
  BY DEF OpToRel
<1> HIDE DEF R
<1>3. PICK x \in T : \A y \in T : ~(<<y, x>> \in R)
  BY <1>1, WFMin
<1>4. x \in Nat
  OBVIOUS
<1>5. ASSUME NEW y \in T PROVE x <= y
  <2>1. y \in Nat
    OBVIOUS
  <2>2. ~(y < x)
    BY <1>2, <1>3, <1>4, <2>1
  <2> QED
    BY <1>4, <2>1, <2>2
<1> QED
  BY <1>5

(* The positions K are numbered from 1 by their ranks, upwards.              *)
LEMMA Ranks ==
  ASSUME NEW K, IsFiniteSet(K), K \subseteq Nat
  PROVE  /\ Cardinality(K) \in Nat
         /\ \A i \in K : Rank(K, i) \in 1..Cardinality(K)
         /\ \A i, k \in K : i < k => Rank(K, i) < Rank(K, k)
         /\ \A n \in 1..Cardinality(K) : \E i \in K : Rank(K, i) = n
<1> DEFINE upto(i) == {j \in K : j <= i}
           rank == [i \in K |-> Rank(K, i)]
<1>1. Cardinality(K) \in Nat
  BY FS_CardinalityType
<1>2. ASSUME NEW i \in K
      PROVE  IsFiniteSet(upto(i)) /\ Rank(K, i) \in 1..Cardinality(K)
  <2>1. upto(i) \in SUBSET K /\ i \in upto(i)
    OBVIOUS
  <2> HIDE DEF upto
  <2>2. IsFiniteSet(upto(i)) /\ Cardinality(upto(i)) <= Cardinality(K)
    BY <2>1, FS_Subset
  <2>3. Cardinality(upto(i)) \in Nat /\ Cardinality(upto(i)) # 0
    BY <2>1, <2>2, FS_CardinalityType, FS_EmptySet
  <2>4. Rank(K, i) = Cardinality(upto(i))
    BY DEF Rank, upto
  <2> QED
    BY <1>1, <2>2, <2>3, <2>4
<1>3. ASSUME NEW i \in K, NEW k \in K, i < k
      PROVE  Rank(K, i) < Rank(K, k)
  <2>1. upto(i) \in SUBSET upto(k) /\ k \in upto(k) /\ k \notin upto(i)
    <3>1. i \in Nat /\ k \in Nat /\ \A j \in K : j \in Nat
      OBVIOUS
    <3>2. \A j \in Nat : j <= i => j <= k
      BY <1>3, <3>1
    <3>3. k <= k /\ ~(k <= i)
      BY <1>3, <3>1
    <3> QED
      BY <3>1, <3>2, <3>3
  <2>2. IsFiniteSet(upto(i)) /\ IsFiniteSet(upto(k))
    BY <1>2
  <2>3. Rank(K, i) = Cardinality(upto(i)) /\ Rank(K, k) = Cardinality(upto(k))
    BY DEF Rank
  <2> HIDE DEF upto
  <2>4. Cardinality(upto(i)) <= Cardinality(upto(k)) /\ Cardinality(upto(i)) # Cardinality(upto(k))
    BY <2>1, <2>2, FS_Subset
  <2>5. Cardinality(upto(i)) \in Nat /\ Cardinality(upto(k)) \in Nat
    BY <2>2, FS_CardinalityType
  <2> QED
    BY <2>3, <2>4, <2>5
<1>4. rank \in Injection(K, 1..Cardinality(K))
  <2>1. \A i \in K : rank[i] \in 1..Cardinality(K)
    BY <1>2
  <2>2. ASSUME NEW i \in K, NEW k \in K, rank[i] = rank[k] PROVE i = k
    <3>1. rank[i] = Rank(K, i) /\ rank[k] = Rank(K, k)
      OBVIOUS
    <3>2. Rank(K, i) \in 1..Cardinality(K) /\ Rank(K, k) \in 1..Cardinality(K)
      BY <1>2
    <3>3. ~(Rank(K, i) < Rank(K, k)) /\ ~(Rank(K, k) < Rank(K, i))
      BY <1>1, <2>2, <3>1, <3>2
    <3>4. ~(i < k) /\ ~(k < i)
      BY <1>3, <3>3
    <3>5. i \in Nat /\ k \in Nat
      OBVIOUS
    <3> QED
      BY <3>4, <3>5
  <2> QED
    BY <2>1, <2>2, Zenon DEF Injection, IsInjective
<1>5. IsFiniteSet(1..Cardinality(K)) /\ Cardinality(1..Cardinality(K)) = Cardinality(K)
  BY <1>1, FS_Interval
<1>6. rank \in Surjection(K, 1..Cardinality(K))
  BY <1>4, <1>5, FS_Injection
<1>7. \A n \in 1..Cardinality(K) : \E i \in K : Rank(K, i) = n
  BY <1>6 DEF Surjection
<1> QED
  BY <1>1, <1>2, <1>3, <1>7

(* At picks the items at the positions K, each at its rank.                  *)
LEMMA AtRanks ==
  ASSUME NEW S, NEW s \in Seq(S), NEW K, K \subseteq DOMAIN s
  PROVE  /\ IsFiniteSet(K) /\ K \subseteq Nat /\ Cardinality(K) \in Nat
         /\ At(s, K) \in Seq(S) /\ Len(At(s, K)) = Cardinality(K)
         /\ \A i \in K : Rank(K, i) \in DOMAIN At(s, K) /\ At(s, K)[Rank(K, i)] = s[i]
         /\ \A n \in DOMAIN At(s, K) : \E i \in K : Rank(K, i) = n /\ At(s, K)[n] = s[i]
<1>1. IsFiniteSet(K) /\ K \subseteq Nat
  <2>1. DOMAIN s = 1..Len(s) /\ Len(s) \in Nat
    OBVIOUS
  <2>2. IsFiniteSet(1..Len(s))
    BY <2>1, FS_Interval
  <2> QED
    BY <2>1, <2>2, FS_Subset
<1> DEFINE size == Cardinality(K)
           of(n) == CHOOSE i \in K : Rank(K, i) = n
<1>2. /\ size \in Nat
      /\ \A i \in K : Rank(K, i) \in 1..size
      /\ \A i, k \in K : i < k => Rank(K, i) < Rank(K, k)
      /\ \A n \in 1..size : \E i \in K : Rank(K, i) = n
  BY <1>1, Ranks
<1>3. ASSUME NEW n \in 1..size PROVE of(n) \in K /\ Rank(K, of(n)) = n
  BY <1>2
<1>4. ASSUME NEW i \in K PROVE of(Rank(K, i)) = i
  <2>1. Rank(K, i) \in 1..size
    BY <1>2
  <2> DEFINE k == of(Rank(K, i))
  <2>2. k \in K /\ Rank(K, k) = Rank(K, i)
    BY <1>3, <2>1
  <2> HIDE DEF k
  <2>3. ~(i < k) /\ ~(k < i)
    BY <1>2, <2>1, <2>2
  <2>4. k = i
    BY <1>1, <2>2, <2>3
  <2> QED
    BY <2>4 DEF k
<1>5. At(s, K) = [n \in 1..size |-> s[of(n)]]
  BY DEF At
<1> HIDE DEF size, of
<1>6. \A i \in K : s[i] \in S
  OBVIOUS
<1>7. At(s, K) \in Seq(S) /\ Len(At(s, K)) = size /\ DOMAIN At(s, K) = 1..size
  BY <1>2, <1>3, <1>5, <1>6
<1>8. \A i \in K : Rank(K, i) \in DOMAIN At(s, K) /\ At(s, K)[Rank(K, i)] = s[i]
  BY <1>2, <1>4, <1>5, <1>7
<1>9. \A n \in DOMAIN At(s, K) : \E i \in K : Rank(K, i) = n /\ At(s, K)[n] = s[i]
  BY <1>3, <1>5, <1>7
<1> QED
  BY <1>1, <1>2, <1>7, <1>8, <1>9 DEF size

(* Concatenating sequences over S gives a sequence over S: the recursive     *)
(* function of FlattenSeq exists (there is no least length without one) and  *)
(* is unique (there is no least position where two differ).                  *)
LEMMA FlattenTyped ==
  ASSUME NEW S, NEW s \in Seq(Seq(S))
  PROVE  FlattenSeq(s) \in Seq(S)
<1> DEFINE n == Len(s)
           Joins(m, f) == /\ f \in [1..m -> Seq(S)]
                          /\ \A i \in 1..m : f[i] = IF i = 1 THEN s[i] ELSE f[i - 1] \o s[i]
<1>1. CASE n = 0
  BY <1>1 DEF FlattenSeq
<1>2. CASE n # 0
  <2>1. n \in Nat /\ \A i \in 1..n : s[i] \in Seq(S)
    OBVIOUS
  <2>2. \A m \in 1..n : \E f : Joins(m, f)
    <3> DEFINE T == {m \in 1..n : ~\E f : Joins(m, f)}
    <3>1. SUFFICES ASSUME T # {} PROVE FALSE
      OBVIOUS
    <3>2. PICK m \in T : \A k \in T : m <= k
      <4>1. T \subseteq Nat
        OBVIOUS
      <4> HIDE DEF T
      <4> QED
        BY <3>1, <4>1, Least
    <3>3. m \in 1..n /\ ~\E f : Joins(m, f)
      OBVIOUS
    <3>4. m # 1
      <4>1. CASE m = 1
        <5>1. Joins(1, [i \in 1..1 |-> s[1]])
          BY <1>2, <2>1
        <5> QED
          BY <3>3, <4>1, <5>1
      <4> QED
        BY <4>1
    <3>5. m - 1 \in 1..n /\ m - 1 \notin T
      <4>1. m - 1 \in 1..n /\ ~(m <= m - 1)
        BY <2>1, <3>3, <3>4
      <4> HIDE DEF T
      <4> QED
        BY <3>2, <4>1
    <3>6. PICK f : Joins(m - 1, f)
      BY <3>5
    <3> DEFINE g == [i \in 1..m |-> IF i = m THEN f[m - 1] \o s[m] ELSE f[i]]
    <3>7. f[m - 1] \in Seq(S) /\ s[m] \in Seq(S)
      BY <2>1, <3>3, <3>5, <3>6
    <3>8. g \in [1..m -> Seq(S)]
      BY <3>3, <3>6, <3>7
    <3>9. ASSUME NEW i \in 1..m
          PROVE  g[i] = IF i = 1 THEN s[i] ELSE g[i - 1] \o s[i]
      <4>1. CASE i = m
        <5>1. g[m] = f[m - 1] \o s[m] /\ m - 1 \in 1..m /\ m - 1 # m
          <6>1. m \in Nat /\ m > 1
            BY <2>1, <3>3, <3>4
          <6>2. m \in 1..m /\ m - 1 \in 1..m /\ m - 1 # m
            BY <6>1
          <6>3. g[m] = f[m - 1] \o s[m]
            BY <6>2
          <6> QED
            BY <6>2, <6>3
        <5>2. g[m - 1] = f[m - 1]
          BY <5>1
        <5> QED
          BY <3>4, <4>1, <5>1, <5>2
      <4>2. CASE i # m
        <5>1. i \in 1..(m - 1) /\ g[i] = f[i]
          BY <3>3, <4>2
        <5>2. i # 1 => i - 1 \in 1..m /\ i - 1 # m
          BY <3>3, <5>1
        <5>3. i # 1 => g[i - 1] = f[i - 1]
          BY <5>2
        <5> QED
          BY <3>6, <5>1, <5>3
      <4> QED
        BY <4>1, <4>2
    <3>10. Joins(m, g)
      BY <3>8, <3>9
    <3> QED
      BY <3>3, <3>10
  <2>3. PICK f : Joins(n, f)
    <3>1. n \in 1..n
      BY <1>2, <2>1
    <3> HIDE DEF n, Joins
    <3> QED
      BY <2>2, <3>1
  <2>4. f = [i \in 1..n |-> IF i = 1 THEN s[i] ELSE f[i - 1] \o s[i]]
    BY <2>3
  <2>5. ASSUME NEW g, g = [i \in 1..n |-> IF i = 1 THEN s[i] ELSE g[i - 1] \o s[i]]
        PROVE  g = f
    <3> DEFINE T == {i \in 1..n : g[i] # f[i]}
    <3>1. DOMAIN g = 1..n /\ \A i \in 1..n : g[i] = IF i = 1 THEN s[i] ELSE g[i - 1] \o s[i]
      BY <2>5
    <3>2. T = {}
      <4>1. SUFFICES ASSUME T # {} PROVE FALSE
        OBVIOUS
      <4>2. PICK i \in T : \A k \in T : i <= k
        <5>1. T \subseteq Nat
          OBVIOUS
        <5> HIDE DEF T
        <5> QED
          BY <4>1, <5>1, Least
      <4>3. i \in 1..n /\ g[i] # f[i]
        OBVIOUS
      <4>4. i # 1
        BY <2>3, <3>1, <4>3
      <4>5. i - 1 \in 1..n /\ i - 1 \notin T
        BY <2>1, <4>2, <4>3, <4>4
      <4> QED
        BY <2>3, <3>1, <4>3, <4>4, <4>5
    <3>3. \A i \in 1..n : g[i] = f[i]
      BY <3>2
    <3>4. f = [i \in 1..n |-> f[i]] /\ g = [i \in 1..n |-> g[i]]
      BY <2>3, <2>5
    <3> HIDE DEF n, T
    <3> QED
      BY <3>3, <3>4
  <2>6. FlattenSeq(s) = f[n]
    <3> HIDE DEF Joins
    <3> QED
      BY <1>2, <2>1, <2>4, <2>5 DEF FlattenSeq
  <2> QED
    BY <1>2, <2>1, <2>3, <2>6
<1> QED
  BY <1>1, <1>2

(* A position after those of K gets the next rank and changes no other.      *)
LEMMA RankAdd ==
  ASSUME NEW K, IsFiniteSet(K), K \subseteq Nat,
         NEW m \in Nat, \A i \in K : i < m
  PROVE  /\ IsFiniteSet(K \union {m}) /\ Cardinality(K \union {m}) = Cardinality(K) + 1
         /\ Rank(K \union {m}, m) = Cardinality(K) + 1
         /\ \A i \in K : Rank(K \union {m}, i) = Rank(K, i)
<1>1. m \notin K
  OBVIOUS
<1>2. IsFiniteSet(K \union {m}) /\ Cardinality(K \union {m}) = Cardinality(K) + 1
  BY <1>1, FS_AddElement
<1>3. {j \in K \union {m} : j <= m} = K \union {m}
  <2>1. \A j \in K \union {m} : j \in Nat /\ (j < m \/ j = m)
    OBVIOUS
  <2>2. \A j \in K \union {m} : j <= m
    BY <2>1
  <2> QED
    BY <2>2
<1>4. ASSUME NEW i \in K PROVE {j \in K \union {m} : j <= i} = {j \in K : j <= i}
  OBVIOUS
<1> QED
  BY <1>2, <1>3, <1>4 DEF Rank

(* An item appended, and taken, is taken last; one not taken changes nothing.*)
LEMMA AtAppend ==
  ASSUME NEW S, NEW s \in Seq(S), NEW e \in S, NEW K, K \subseteq DOMAIN s
  PROVE  At(Append(s, e), K \union {Len(s) + 1}) = Append(At(s, K), e)
<1> DEFINE t == Append(s, e)
           m == Len(s) + 1
           T == K \union {m}
<1>1. /\ t \in Seq(S) /\ T \subseteq DOMAIN t /\ t[m] = e
      /\ m \in Nat /\ (\A i \in K : i \in Nat /\ i < m /\ t[i] = s[i])
  OBVIOUS
<1>2. /\ IsFiniteSet(K) /\ K \subseteq Nat /\ Cardinality(K) \in Nat
      /\ At(s, K) \in Seq(S) /\ Len(At(s, K)) = Cardinality(K)
      /\ \A n \in DOMAIN At(s, K) : \E i \in K : Rank(K, i) = n /\ At(s, K)[n] = s[i]
  BY AtRanks
<1>3. /\ Cardinality(T) = Cardinality(K) + 1
      /\ Rank(T, m) = Cardinality(K) + 1
      /\ \A i \in K : Rank(T, i) = Rank(K, i)
  BY <1>1, <1>2, RankAdd
<1> HIDE DEF t, m, T
<1>4. /\ At(t, T) \in Seq(S) /\ Len(At(t, T)) = Cardinality(T)
      /\ \A i \in T : At(t, T)[Rank(T, i)] = t[i]
  BY <1>1, AtRanks
<1>5. m \in T /\ K \subseteq T
  BY DEF T
<1>6. At(t, T)[Cardinality(K) + 1] = e
  BY <1>1, <1>3, <1>4, <1>5
<1>7. \A n \in 1..Cardinality(K) : At(t, T)[n] = At(s, K)[n]
  <2> TAKE n \in 1..Cardinality(K)
  <2>1. PICK i \in K : Rank(K, i) = n /\ At(s, K)[n] = s[i]
    BY <1>2
  <2> QED
    BY <1>1, <1>3, <1>4, <1>5, <2>1
<1>8. At(t, T) = Append(At(s, K), e)
  BY <1>2, <1>3, <1>4, <1>6, <1>7
<1> QED
  BY <1>8 DEF t, m, T

(* The positions K of some evidence are numbered from 1 by the stable sort:  *)
(* a position of a better priority, or an earlier one of the same, first.    *)
LEMMA Places ==
  ASSUME NEW ev \in Seq(Evidence), NEW K, K \subseteq DOMAIN ev
  PROVE  /\ Cardinality(K) \in Nat
         /\ \A i \in K : Place(ev, K, i) \in 1..Cardinality(K)
         /\ \A i, k \in K : i # k => UpTo(ev, i, k) \/ UpTo(ev, k, i)
         /\ \A i, k \in K : i # k /\ UpTo(ev, k, i) => Place(ev, K, i) < Place(ev, K, k)
         /\ \A n \in 1..Cardinality(K) : \E i \in K : Place(ev, K, i) = n
<1> DEFINE upto(i) == {j \in K : UpTo(ev, i, j)}
           place == [i \in K |-> Place(ev, K, i)]
<1>1. IsFiniteSet(K) /\ K \subseteq Nat
  <2>1. DOMAIN ev = 1..Len(ev) /\ Len(ev) \in Nat
    OBVIOUS
  <2>2. IsFiniteSet(1..Len(ev))
    BY <2>1, FS_Interval
  <2> QED
    BY <2>1, <2>2, FS_Subset
<1>2. ASSUME NEW i \in K PROVE i \in Nat /\ ev[i].priority \in Nat
  <2>1. ev[i] \in Evidence
    <3> HIDE DEF Evidence
    <3> QED
      OBVIOUS
  <2> QED
    BY <1>1, <2>1 DEF Evidence
<1>3. Cardinality(K) \in Nat
  BY <1>1, FS_CardinalityType
<1>4. ASSUME NEW i \in K
      PROVE  IsFiniteSet(upto(i)) /\ Place(ev, K, i) \in 1..Cardinality(K)
  <2>1. upto(i) \in SUBSET K /\ i \in upto(i)
    BY <1>2 DEF UpTo
  <2> HIDE DEF upto
  <2>2. IsFiniteSet(upto(i)) /\ Cardinality(upto(i)) <= Cardinality(K)
    BY <1>1, <2>1, FS_Subset
  <2>3. Cardinality(upto(i)) \in Nat /\ Cardinality(upto(i)) # 0
    BY <2>1, <2>2, FS_CardinalityType, FS_EmptySet
  <2>4. Place(ev, K, i) = Cardinality(upto(i))
    BY DEF Place, upto
  <2> QED
    BY <1>3, <2>2, <2>3, <2>4
<1>5. ASSUME NEW i \in K, NEW k \in K, i # k
      PROVE  (UpTo(ev, i, k) \/ UpTo(ev, k, i)) /\ ~(UpTo(ev, i, k) /\ UpTo(ev, k, i))
  <2>1. i \in Nat /\ k \in Nat /\ ev[i].priority \in Nat /\ ev[k].priority \in Nat
    BY <1>2
  <2> QED
    BY <1>5, <2>1 DEF UpTo
<1>6. ASSUME NEW i \in K, NEW k \in K, i # k, UpTo(ev, k, i)
      PROVE  Place(ev, K, i) < Place(ev, K, k)
  <2>1. upto(i) \in SUBSET upto(k)
    <3> SUFFICES ASSUME NEW j \in K, UpTo(ev, i, j) PROVE UpTo(ev, k, j)
      OBVIOUS
    <3>1. /\ i \in Nat /\ k \in Nat /\ j \in Nat /\ ev[i].priority \in Nat
          /\ ev[k].priority \in Nat /\ ev[j].priority \in Nat
      BY <1>2
    <3> QED
      BY <1>6, <3>1 DEF UpTo
  <2>2. k \in upto(k) /\ k \notin upto(i)
    <3>1. k \in Nat /\ ev[k].priority \in Nat
      BY <1>2
    <3>2. UpTo(ev, k, k)
      BY <3>1 DEF UpTo
    <3>3. ~UpTo(ev, i, k)
      BY <1>5, <1>6
    <3> QED
      BY <3>2, <3>3
  <2>3. IsFiniteSet(upto(i)) /\ IsFiniteSet(upto(k))
    BY <1>4
  <2>4. Place(ev, K, i) = Cardinality(upto(i)) /\ Place(ev, K, k) = Cardinality(upto(k))
    BY DEF Place
  <2> HIDE DEF upto
  <2>5. Cardinality(upto(i)) <= Cardinality(upto(k)) /\ Cardinality(upto(i)) # Cardinality(upto(k))
    BY <2>1, <2>2, <2>3, FS_Subset
  <2>6. Cardinality(upto(i)) \in Nat /\ Cardinality(upto(k)) \in Nat
    BY <2>3, FS_CardinalityType
  <2> QED
    BY <2>4, <2>5, <2>6
<1>7. place \in Injection(K, 1..Cardinality(K))
  <2>1. \A i \in K : place[i] \in 1..Cardinality(K)
    BY <1>4
  <2>2. ASSUME NEW i \in K, NEW k \in K, place[i] = place[k] PROVE i = k
    <3>1. place[i] = Place(ev, K, i) /\ place[k] = Place(ev, K, k)
      OBVIOUS
    <3>2. Place(ev, K, i) \in 1..Cardinality(K) /\ Place(ev, K, k) \in 1..Cardinality(K)
      BY <1>4
    <3>3. ~(Place(ev, K, i) < Place(ev, K, k)) /\ ~(Place(ev, K, k) < Place(ev, K, i))
      BY <1>3, <2>2, <3>1, <3>2
    <3> QED
      BY <1>5, <1>6, <3>3
  <2> QED
    BY <2>1, <2>2, Zenon DEF Injection, IsInjective
<1>8. IsFiniteSet(1..Cardinality(K)) /\ Cardinality(1..Cardinality(K)) = Cardinality(K)
  BY <1>3, FS_Interval
<1>9. place \in Surjection(K, 1..Cardinality(K))
  BY <1>1, <1>7, <1>8, FS_Injection
<1>10. \A n \in 1..Cardinality(K) : \E i \in K : Place(ev, K, i) = n
  BY <1>9 DEF Surjection
<1> QED
  BY <1>3, <1>4, <1>5, <1>6, <1>10

(* Sorting puts the item at every position of K, and no other, in its place. *)
LEMMA SortedPlaces ==
  ASSUME NEW ev \in Seq(Evidence), NEW K, K \subseteq DOMAIN ev
  PROVE  /\ Sorted(ev, K) \in Seq(Evidence)
         /\ \A i \in K : /\ Place(ev, K, i) \in DOMAIN Sorted(ev, K)
                         /\ Sorted(ev, K)[Place(ev, K, i)] = ev[i]
         /\ \A n \in DOMAIN Sorted(ev, K) :
              \E i \in K : Place(ev, K, i) = n /\ Sorted(ev, K)[n] = ev[i]
<1> DEFINE size == Cardinality(K)
           of(n) == CHOOSE i \in K : Place(ev, K, i) = n
<1>1. /\ size \in Nat
      /\ \A i \in K : Place(ev, K, i) \in 1..size
      /\ \A i, k \in K : i # k => UpTo(ev, i, k) \/ UpTo(ev, k, i)
      /\ \A i, k \in K : i # k /\ UpTo(ev, k, i) => Place(ev, K, i) < Place(ev, K, k)
      /\ \A n \in 1..size : \E i \in K : Place(ev, K, i) = n
  BY Places
<1>2. ASSUME NEW n \in 1..size PROVE of(n) \in K /\ Place(ev, K, of(n)) = n
  BY <1>1
<1>3. ASSUME NEW i \in K PROVE of(Place(ev, K, i)) = i
  <2>1. Place(ev, K, i) \in 1..size
    BY <1>1
  <2> DEFINE k == of(Place(ev, K, i))
  <2>2. k \in K /\ Place(ev, K, k) = Place(ev, K, i)
    BY <1>2, <2>1
  <2> HIDE DEF k
  <2>3. ~(Place(ev, K, i) < Place(ev, K, k)) /\ ~(Place(ev, K, k) < Place(ev, K, i))
    <3>1. Place(ev, K, i) \in Nat
      BY <1>1, <2>1
    <3> QED
      BY <2>2, <3>1
  <2>4. k = i
    BY <1>1, <2>2, <2>3
  <2> QED
    BY <2>4 DEF k
<1>4. Sorted(ev, K) = [n \in 1..size |-> ev[of(n)]]
  BY DEF Sorted
<1> HIDE DEF size, of
<1>5. \A i \in K : ev[i] \in Evidence
  <2> HIDE DEF Evidence
  <2> QED
    OBVIOUS
<1>6. Sorted(ev, K) \in Seq(Evidence) /\ DOMAIN Sorted(ev, K) = 1..size
  <2> HIDE DEF Evidence
  <2> QED
    BY <1>1, <1>2, <1>4, <1>5
<1>7. \A i \in K : Sorted(ev, K)[Place(ev, K, i)] = ev[i]
  BY <1>1, <1>3, <1>4
<1>8. \A n \in DOMAIN Sorted(ev, K) : \E i \in K : Place(ev, K, i) = n /\ Sorted(ev, K)[n] = ev[i]
  BY <1>2, <1>4, <1>6
<1> QED
  BY <1>1, <1>6, <1>7, <1>8

LEMMA CutTyped ==
  ASSUME NEW S, NEW ev \in Seq(S)
  PROVE  /\ Cut(ev) \in Seq(S)
         /\ Len(Cut(ev)) = IF Len(ev) < EvidenceMax THEN Len(ev) ELSE EvidenceMax
         /\ \A n \in 1..Len(Cut(ev)) : Cut(ev)[n] = ev[n]
<1> DEFINE k == IF Len(ev) < EvidenceMax THEN Len(ev) ELSE EvidenceMax
<1>1. k \in Nat /\ k <= Len(ev)
  BY AskAssumption
<1>2. Cut(ev) = SubSeq(ev, 1, k)
  BY DEF Cut
<1> HIDE DEF k
<1>3. /\ SubSeq(ev, 1, k) \in Seq(S) /\ Len(SubSeq(ev, 1, k)) = k
      /\ \A n \in 1..k : SubSeq(ev, 1, k)[n] = ev[n]
  BY <1>1
<1> QED
  BY <1>2, <1>3 DEF k

(* The response's evidence is taken from the run's.                          *)
LEMMA ShownTyped == ASSUME NEW ev \in Seq(Evidence) PROVE Shown(ev) \in Seq(Evidence)
<1>1. Deduped(ev) \subseteq DOMAIN ev
  BY DEF Deduped
<1>2. Sorted(ev, Deduped(ev)) \in Seq(Evidence)
  BY <1>1, SortedPlaces
<1> QED
  BY <1>2, CutTyped DEF Shown

(* Every source has a first item, and only one.                              *)
LEMMA FirstOfSource ==
  ASSUME NEW S, NEW ev \in Seq(S)
  PROVE  /\ Deduped(ev) \subseteq DOMAIN ev
         /\ \A i \in DOMAIN ev : \E k \in Deduped(ev) : ev[k].src = ev[i].src
         /\ \A i, k \in Deduped(ev) : ev[i].src = ev[k].src => i = k
<1>1. DOMAIN ev \subseteq Nat /\ \A i \in DOMAIN ev : 1..(i - 1) \subseteq DOMAIN ev
  OBVIOUS
<1>2. ASSUME NEW i \in DOMAIN ev PROVE \E k \in Deduped(ev) : ev[k].src = ev[i].src
  <2> DEFINE T == {j \in DOMAIN ev : ev[j].src = ev[i].src}
  <2>1. T \subseteq Nat /\ i \in T /\ T \subseteq DOMAIN ev
    BY <1>1
  <2>2. \A j \in T : ev[j].src = ev[i].src
    OBVIOUS
  <2>3. \A j \in DOMAIN ev : ev[j].src = ev[i].src => j \in T
    OBVIOUS
  <2> HIDE DEF T
  <2>4. PICK k \in T : \A j \in T : k <= j
    BY <2>1, Least
  <2>5. ASSUME NEW j \in 1..(k - 1) PROVE ev[j].src # ev[k].src
    <3>1. k \in Nat /\ k \in DOMAIN ev /\ j \in Nat /\ ~(k <= j)
      BY <2>1, <2>4
    <3>2. j \notin T /\ j \in DOMAIN ev
      BY <1>1, <2>4, <3>1
    <3> QED
      BY <2>2, <2>3, <2>4, <3>2
  <2>6. k \in Deduped(ev)
    BY <2>1, <2>4, <2>5 DEF Deduped
  <2> QED
    BY <2>2, <2>4, <2>6
<1>3. ASSUME NEW i \in Deduped(ev), NEW k \in Deduped(ev), ev[i].src = ev[k].src PROVE i = k
  <2>1. i \in Nat /\ k \in Nat /\ i >= 1 /\ k >= 1
    BY DEF Deduped
  <2>2. (\A j \in 1..(i - 1) : ev[j].src # ev[i].src) /\ (\A j \in 1..(k - 1) : ev[j].src # ev[k].src)
    BY DEF Deduped
  <2>3. ~(i < k) /\ ~(k < i)
    BY <1>3, <2>1, <2>2
  <2> QED
    BY <2>1, <2>3
<1>4. Deduped(ev) \subseteq DOMAIN ev
  BY DEF Deduped
<1> QED
  BY <1>2, <1>3, <1>4

(* What BestShown says of the response, for any evidence of a run.           *)
LEMMA ShownRight ==
  ASSUME NEW ev \in Seq(Evidence)
  PROVE  /\ \A m, n \in DOMAIN Shown(ev) : Shown(ev)[m].src = Shown(ev)[n].src => m = n
         /\ \A m, n \in DOMAIN Shown(ev) : m < n => Shown(ev)[m].priority <= Shown(ev)[n].priority
         /\ \A i \in Deduped(ev) :
              (\A n \in DOMAIN Shown(ev) : Shown(ev)[n] # ev[i]) =>
                /\ Len(Shown(ev)) = EvidenceMax
                /\ \A n \in DOMAIN Shown(ev) : Shown(ev)[n].priority <= ev[i].priority
<1> DEFINE K == Deduped(ev)
           s == Sorted(ev, K)
           c == Cut(s)
           place(i) == Place(ev, K, i)
<1>1. Shown(ev) = c
  BY DEF Shown
<1>2. K \subseteq DOMAIN ev /\ \A i, k \in K : ev[i].src = ev[k].src => i = k
  BY FirstOfSource
<1> HIDE DEF K
<1>3. /\ s \in Seq(Evidence)
      /\ \A i \in K : place(i) \in DOMAIN s /\ s[place(i)] = ev[i]
      /\ \A n \in DOMAIN s : \E i \in K : place(i) = n /\ s[n] = ev[i]
  BY <1>2, SortedPlaces
<1>4. /\ \A i, k \in K : i # k => UpTo(ev, i, k) \/ UpTo(ev, k, i)
      /\ \A i, k \in K : i # k /\ UpTo(ev, k, i) => place(i) < place(k)
  BY <1>2, Places
<1>5. ASSUME NEW i \in K PROVE i \in Nat /\ ev[i].priority \in Nat
  <2>1. ev[i] \in Evidence /\ i \in Nat
    <3> HIDE DEF Evidence
    <3> QED
      BY <1>2
  <2> QED
    BY <2>1 DEF Evidence
<1> HIDE DEF s, place
<1>6. /\ c \in Seq(Evidence) /\ Len(c) = (IF Len(s) < EvidenceMax THEN Len(s) ELSE EvidenceMax)
      /\ \A n \in 1..Len(c) : c[n] = s[n]
  BY <1>3, CutTyped
<1> HIDE DEF c
<1>7. /\ DOMAIN s = 1..Len(s) /\ Len(s) \in Nat /\ DOMAIN c = 1..Len(c) /\ Len(c) \in Nat
      /\ EvidenceMax \in Nat
  <2> HIDE DEF Evidence
  <2> QED
    BY <1>3, <1>6, AskAssumption
<1>8. ASSUME NEW n \in DOMAIN c PROVE n \in DOMAIN s /\ \E i \in K : place(i) = n /\ c[n] = ev[i]
  <2>1. n \in DOMAIN s /\ c[n] = s[n]
    BY <1>6, <1>7
  <2> QED
    BY <1>3, <2>1
<1>9. ASSUME NEW i \in K, NEW k \in K, place(i) < place(k)
      PROVE  ev[i].priority <= ev[k].priority
  <2>1. place(i) \in Nat /\ place(k) \in Nat
    BY <1>3, <1>7
  <2>2. ~(place(k) < place(i)) /\ i # k
    BY <1>9, <2>1
  <2>3. UpTo(ev, k, i)
    BY <1>4, <2>2
  <2>4. ev[i].priority \in Nat /\ ev[k].priority \in Nat
    BY <1>5
  <2> QED
    BY <2>3, <2>4 DEF UpTo
<1>10. ASSUME NEW m \in DOMAIN c, NEW n \in DOMAIN c
       PROVE  /\ c[m].src = c[n].src => m = n
              /\ m < n => c[m].priority <= c[n].priority
  <2>1. PICK i \in K : place(i) = m /\ c[m] = ev[i]
    BY <1>8
  <2>2. PICK k \in K : place(k) = n /\ c[n] = ev[k]
    BY <1>8
  <2> QED
    BY <1>2, <1>9, <2>1, <2>2
<1>11. ASSUME NEW k \in K, \A n \in DOMAIN c : c[n] # ev[k]
       PROVE  /\ Len(c) = EvidenceMax
              /\ \A n \in DOMAIN c : c[n].priority <= ev[k].priority
  <2> DEFINE p == place(k)
  <2>1. p \in DOMAIN s /\ s[p] = ev[k]
    BY <1>3
  <2>2. p \notin DOMAIN c
    BY <1>6, <1>7, <1>11, <2>1
  <2>3. p \in 1..Len(s) /\ p \notin 1..Len(c)
    BY <1>7, <2>1, <2>2
  <2>4. p \in Nat /\ p >= 1 /\ p <= Len(s) /\ ~(p <= Len(c))
    BY <1>7, <2>3
  <2>5. Len(c) < p /\ Len(c) # Len(s)
    <3>1. Len(c) \in Nat /\ Len(s) \in Nat
      BY <1>7
    <3> HIDE DEF p
    <3>2. Len(c) < p
      BY <2>4, <3>1
    <3>3. Len(c) # Len(s)
      BY <2>4, <3>1
    <3> QED
      BY <3>2, <3>3
  <2>6. Len(c) = EvidenceMax
    BY <1>6, <2>5
  <2>7. ASSUME NEW n \in DOMAIN c PROVE c[n].priority <= ev[k].priority
    <3>1. PICK j \in K : place(j) = n /\ c[n] = ev[j]
      BY <1>8
    <3>2. place(j) < place(k)
      <4>1. n \in Nat /\ n <= Len(c) /\ Len(c) \in Nat
        BY <1>7
      <4> HIDE DEF p
      <4>2. n < p
        BY <2>4, <2>5, <4>1
      <4> QED
        BY <3>1, <4>2 DEF p
    <3> QED
      BY <1>9, <3>1, <3>2
  <2> QED
    BY <2>6, <2>7
<1> QED
  BY <1>1, <1>10, <1>11 DEF K

-----------------------------------------------------------------------------
Call == [tool : ToolId, q : 1..MaxQuestions]

(* A list of tools with the number of questions for each becomes the list of *)
(* their calls.                                                              *)
LEMMA SubmitTyped ==
  ASSUME TypeOK, NEW tools \in Seq(ToolId),
         NEW questions \in [ToSet(tools) -> 1..MaxQuestions], Submit(tools, questions)
  PROVE  TypeOK'
<1> DEFINE per == [i \in DOMAIN tools |->
                     [q \in 1..questions[tools[i]] |-> [tool |-> tools[i], q |-> q]]]
<1>1. per \in Seq(Seq(Call))
  <2>1. ASSUME NEW i \in DOMAIN tools
        PROVE  [q \in 1..questions[tools[i]] |-> [tool |-> tools[i], q |-> q]] \in Seq(Call)
    <3>1. tools[i] \in ToolId /\ tools[i] \in ToSet(tools)
      BY DEF ToSet
    <3>2. questions[tools[i]] \in 1..MaxQuestions /\ MaxQuestions \in Nat
      BY <3>1, AskAssumption
    <3> DEFINE n == questions[tools[i]]
    <3>3. n \in Nat /\ \A q \in 1..n : [tool |-> tools[i], q |-> q] \in Call
      BY <3>1, <3>2 DEF Call
    <3> HIDE DEF n
    <3>4. [q \in 1..n |-> [tool |-> tools[i], q |-> q]] \in Seq(Call)
      BY <3>3
    <3> QED
      BY <3>4 DEF n
  <2>2. DOMAIN tools = 1..Len(tools) /\ Len(tools) \in Nat
    OBVIOUS
  <2> HIDE DEF Call
  <2> QED
    BY <2>1, <2>2
<1>2. subs' = FlattenSeq(per)
  BY DEF Submit
<1> HIDE DEF per
<1>3. subs' \in Seq(Call)
  BY <1>1, <1>2, FlattenTyped
<1>4. out' \in [DOMAIN subs' -> Results]
  <2>1. Pending \in Results
    BY DEF Pending, Results
  <2> QED
    BY <2>1 DEF Submit
<1>5. got' \in 0..Len(subs')
  BY <1>3 DEF Submit
<1>6. step' \in Nat /\ pc' = "collect"
  BY DEF Submit, TypeOK
<1>7. UNCHANGED <<planVars, records, evidence, evals, plans, answerVars>>
  BY DEF Submit
<1> QED
  BY <1>3, <1>4, <1>5, <1>6, <1>7 DEF TypeOK, planVars, answerVars, Call

(* The steps that submit calls.                                              *)
LEMMA FirstStepTyped == ASSUME TypeOK, FirstStep PROVE TypeOK'
<1>1. PICK tools \in Relevant, n \in 1..MaxQuestions :
        Submit(tools, [t \in ToSet(tools) |-> IF t \in Split THEN n ELSE 1])
  BY DEF FirstStep
<1>2. tools \in Seq(ToolId)
  <2>1. PICK R \in SUBSET ToSet(cands) : tools = At(cands, {i \in DOMAIN cands : cands[i] \in R})
    BY DEF Relevant
  <2>2. {i \in DOMAIN cands : cands[i] \in R} \subseteq DOMAIN cands
    OBVIOUS
  <2>3. cands \in Seq(ToolId)
    BY DEF TypeOK
  <2> QED
    BY <2>1, <2>2, <2>3, AtRanks
<1>3. [t \in ToSet(tools) |-> IF t \in Split THEN n ELSE 1] \in [ToSet(tools) -> 1..MaxQuestions]
  BY AskAssumption
<1> QED
  BY <1>1, <1>2, <1>3, SubmitTyped

LEMMA GapStepTyped == ASSUME TypeOK, GapStep PROVE TypeOK'
<1>1. PICK tools \in GapTools :
        \E questions \in [ToSet(tools) -> 1..MaxQuestions] : Submit(tools, questions)
  BY DEF GapStep
<1>2. tools \in Seq(ToolId)
  <2>1. PICK m \in 0..MaxPicks : tools \in [1..m -> ToSet(cands)]
    BY DEF GapTools, BoundedSeq, SeqOf
  <2>2. ToSet(cands) \subseteq ToolId
    BY DEF TypeOK, ToSet
  <2>3. m \in Nat
    BY AskAssumption
  <2> QED
    BY <2>1, <2>2, <2>3
<1> QED
  BY <1>1, <1>2, SubmitTyped

LEMMA AskAllTyped == ASSUME TypeOK, AskAll PROVE TypeOK'
<1>1. cands \in Seq(ToolId) /\ Submit(cands, OneQuestion(cands))
  BY DEF AskAll, TypeOK
<1>2. OneQuestion(cands) \in [ToSet(cands) -> 1..MaxQuestions]
  BY AskAssumption DEF OneQuestion
<1> QED
  BY <1>1, <1>2, SubmitTyped

(* The future of every submitted call is one of the calls.                   *)
LEMMA FutureIsCall ==
  ASSUME subs \in Seq(Call), NEW i \in DOMAIN subs
  PROVE  FutureOf(i) \in DOMAIN subs
<1> DEFINE n == Len(subs)
           T == {m \in 0..n : n - m \in DOMAIN subs /\ subs[n - m] = subs[i]}
<1>1. n \in Nat /\ DOMAIN subs = 1..n
  OBVIOUS
<1>2. n - i \in T
  BY <1>1
<1>3. PICK m \in T : \A k \in T : m <= k
  <2>1. T \subseteq Nat /\ T # {}
    BY <1>1, <1>2
  <2> QED
    BY <2>1, Least
<1>4. /\ n - m \in DOMAIN subs /\ subs[n - m] = subs[i]
      /\ \A j \in DOMAIN subs : subs[j] = subs[i] => j <= n - m
  <2>1. ASSUME NEW j \in DOMAIN subs, subs[j] = subs[i] PROVE j <= n - m
    <3>1. n - j \in T
      BY <1>1, <2>1
    <3>2. m <= n - j /\ m \in 0..n
      BY <1>3, <3>1
    <3> QED
      BY <1>1, <3>2
  <2> QED
    BY <2>1
<1> HIDE DEF n, T
<1> QED
  BY <1>4 DEF FutureOf

(* What a call brings is evidence, whoever wrote it.                         *)
LEMMA BringsTyped ==
  ASSUME TypeOK, NEW i \in DOMAIN subs, NEW brought \in Brings(i)
  PROVE  brought \in Seq(Evidence)
<1> DEFINE t == subs[i].tool
           e == [tool |-> t, src |-> <<t, step, i>>, priority |-> 1, ok |-> TRUE]
           b == [tool |-> t, src |-> <<t>>, priority |-> 1, ok |-> FALSE]
<1>1. t \in ToolId /\ step \in Nat /\ i \in Nat
  <2>1. subs \in Seq(Call) /\ step \in Nat
    BY DEF TypeOK, Call
  <2>2. subs[i] \in Call /\ i \in Nat
    BY <2>1
  <2> QED
    BY <2>1, <2>2 DEF Call
<1>2. brought = <<>> \/ brought \in Replies \/ brought = <<e>> \/ brought = <<b>>
  BY DEF Brings
<1> HIDE DEF t
<1>3. e \in Evidence /\ b \in Evidence
  BY <1>1 DEF Evidence, Sources
<1> HIDE DEF e, b
<1>4. brought \in Replies => brought \in Seq(Evidence)
  BY AskAssumption
<1> HIDE DEF Evidence
<1>5. <<>> \in Seq(Evidence) /\ <<e>> \in Seq(Evidence) /\ <<b>> \in Seq(Evidence)
  BY <1>3
<1> QED
  BY <1>2, <1>4, <1>5

LEMMA CollectTyped == ASSUME TypeOK, Collect PROVE TypeOK'
<1>1. PICK i \in (got + 1)..Len(subs) :
        /\ records' = Append(records, [step |-> step, tool |-> subs[i].tool, q |-> subs[i].q])
        /\ evidence' = evidence \o out[FutureOf(i)].evidence
        /\ got' = i
  BY DEF Collect
<1>2. i \in DOMAIN subs
  BY DEF TypeOK
<1> DEFINE found == out[FutureOf(i)].evidence
<1>3. found \in Seq(Evidence)
  <2>1. out \in [DOMAIN subs -> Results] /\ subs \in Seq(Call)
    BY DEF TypeOK, Call
  <2>2. FutureOf(i) \in DOMAIN subs
    BY <1>2, <2>1, FutureIsCall
  <2> QED
    BY <2>1, <2>2 DEF Results
<1> HIDE DEF found
<1>4. evidence' \in Seq(Evidence)
  <2>1. evidence' = evidence \o found /\ evidence \in Seq(Evidence)
    BY <1>1 DEF found, TypeOK
  <2> HIDE DEF Evidence
  <2> QED
    BY <1>3, <2>1
<1>5. records' \in Seq([step : Nat, tool : ToolId, q : 1..MaxQuestions])
  <2> DEFINE r == [step |-> step, tool |-> subs[i].tool, q |-> subs[i].q]
             Record == [step : Nat, tool : ToolId, q : 1..MaxQuestions]
  <2>1. subs \in Seq(Call) /\ step \in Nat /\ records \in Seq(Record)
    BY DEF TypeOK, Call
  <2>2. subs[i] \in Call
    BY <1>2, <2>1
  <2>3. r \in Record /\ records' = Append(records, r)
    BY <1>1, <2>1, <2>2 DEF Call
  <2> HIDE DEF r, Record
  <2>4. records' \in Seq(Record)
    BY <2>1, <2>3
  <2> QED
    BY <2>4 DEF Record
<1>6. got' \in 0..Len(subs)
  BY <1>1, <1>2 DEF TypeOK
<1> QED
  BY <1>4, <1>5, <1>6 DEF Collect, TypeOK, planVars, answerVars

LEMMA EvaluateTyped == ASSUME TypeOK, Evaluate PROVE TypeOK'
<1>1. PICK items \in 0..MaxMissing, fields \in 0..MaxMissing :
        LET more == Continues(items, fields, evidence, step)
        IN  /\ evals' = Append(evals, [items |-> items, fields |-> fields,
                                       continue |-> more])
            /\ pc' = IF more THEN "step" ELSE "compose"
  BY DEF Evaluate
<1> DEFINE more == Continues(items, fields, evidence, step)
<1>2. more \in BOOLEAN
  BY DEF Continues
<1>3. items \in Nat /\ fields \in Nat
  BY AskAssumption
<1>4. /\ evals' = Append(evals, [items |-> items, fields |-> fields, continue |-> more])
      /\ pc' \in {"step", "compose"}
  BY <1>1
<1> HIDE DEF more
<1>5. evals' \in Seq([items : Nat, fields : Nat, continue : BOOLEAN])
  BY <1>2, <1>3, <1>4 DEF TypeOK
<1> QED
  BY <1>4, <1>5 DEF Evaluate, TypeOK, planVars, answerVars

LEMMA RespondTyped == ASSUME TypeOK, Respond PROVE TypeOK'
<1> DEFINE ev == Shown(evidence)
           verdict == Verdict(ev)
<1>1. ev \in Seq(Evidence)
  BY ShownTyped DEF TypeOK
<1> HIDE DEF ev
<1>2. /\ verdict.status \in Statuses
      /\ verdict.reasons \subseteq {"NEEDS_MORE_STEPS", "EVIDENCE_CONTRACT", "NO_EVIDENCE", "EMPTY"}
  BY DEF Verdict, TypeOK, Statuses
<1> HIDE DEF verdict
<1>3. /\ status' = verdict.status /\ reasons' = verdict.reasons
      /\ answer' = CASE verdict.status = "EMPTY"   -> "template"
                     [] verdict.status = "PARTIAL" -> "partial"
                     [] OTHER                      -> answer
      /\ shown' = ev /\ pc' = "responded" /\ UNCHANGED <<planVars, runVars>>
  BY DEF Respond, verdict, ev
<1>4. answer' \in {"none", "composed", "partial", "template"}
  BY <1>3 DEF TypeOK
<1> QED
  BY <1>1, <1>2, <1>3, <1>4 DEF TypeOK, planVars, runVars

(* Every step keeps the types.                                               *)
LEMMA NextTyped == TypeOK /\ [Next]_vars => TypeOK'
<1> SUFFICES ASSUME TypeOK, [Next]_vars PROVE TypeOK'
  OBVIOUS
<1>1. CASE Plan
  BY <1>1, AskAssumption DEF Plan, TypeOK, runVars, answerVars
<1>2. CASE PlanRaises \/ AnswerRaises \/ LoopEnds
  BY <1>2 DEF PlanRaises, AnswerRaises, LoopEnds, TypeOK, planVars, runVars, answerVars
<1>3. CASE NothingToAsk
  BY <1>3 DEF NothingToAsk, TypeOK, planVars, Statuses
<1>4. CASE StepOver
  <2>1. status' \in Statuses /\ answer' \in {"none", "composed", "partial", "template"}
    BY <1>4 DEF StepOver, RunStatus, Statuses, TypeOK
  <2>2. pc' \in {"finish", "compose"} /\ plans' \in Nat
    BY <1>4 DEF StepOver, TypeOK
  <2> QED
    BY <1>4, <2>1, <2>2 DEF StepOver, TypeOK, planVars
<1>5. CASE Compose
  BY <1>5 DEF Compose, RunStatus, TypeOK, Statuses, planVars, runVars
<1>6. CASE \E i \in DOMAIN out : CallEnds(i)
  <2>1. PICK i \in DOMAIN out : CallEnds(i)
    BY <1>6
  <2>2. PICK brought \in Brings(i) :
          out' = [out EXCEPT ![i] = [ended |-> TRUE, evidence |-> brought]]
    BY <2>1 DEF CallEnds
  <2>3. i \in DOMAIN subs
    BY DEF TypeOK
  <2>4. [ended |-> TRUE, evidence |-> brought] \in Results
    BY <2>3, BringsTyped DEF Results
  <2>5. out' \in [DOMAIN subs -> Results]
    BY <2>2, <2>4 DEF TypeOK
  <2> QED
    BY <2>1, <2>5 DEF CallEnds, TypeOK, planVars, answerVars
<1>7. CASE UNCHANGED vars
  BY <1>7 DEF vars, TypeOK
<1> QED
  BY <1>1, <1>2, <1>3, <1>4, <1>5, <1>6, <1>7,
     FirstStepTyped, GapStepTyped, AskAllTyped, CollectTyped, EvaluateTyped, RespondTyped
  DEF Next, Main, Ended

-----------------------------------------------------------------------------
\* What the records are listed with.
NoLaterRecord == \A n \in DOMAIN records : records[n].step <= step

ResultsInv ==
  /\ TypeOK
  /\ NoLaterRecord
  /\ RecordsInOrder
  /\ SuccessIsBacked
  /\ BestShown

(* A new step has no record yet.                                             *)
LEMMA SubmitResults ==
  ASSUME ResultsInv, TypeOK', NEW tools, NEW questions, Submit(tools, questions)
  PROVE  ResultsInv'
<1>1. records' = records /\ evidence' = evidence /\ step' = step + 1 /\ got' = 0 /\ pc' = "collect"
  BY DEF Submit
<1>2. step \in Nat /\ \A n \in DOMAIN records : records[n].step \in Nat /\ records[n].step <= step
  <2> DEFINE Record == [step : Nat, tool : ToolId, q : 1..MaxQuestions]
  <2>1. step \in Nat /\ records \in Seq(Record) /\ NoLaterRecord
    BY DEF ResultsInv, TypeOK
  <2>2. \A n \in DOMAIN records : records[n] \in Record
    <3> HIDE DEF Record
    <3> QED
      BY <2>1
  <2> QED
    BY <2>1, <2>2 DEF NoLaterRecord
<1>3. NoLaterRecord' /\ SuccessIsBacked' /\ BestShown'
  BY <1>1, <1>2 DEF ResultsInv, NoLaterRecord, SuccessIsBacked, BestShown
<1>4. RecordsInOrder'
  <2>1. {n \in DOMAIN records' : records'[n].step = step'} = {}
    BY <1>1, <1>2
  <2>2. {i \in 1..got' : NewKey(i)'} = {}
    BY <1>1
  <2>3. At(records', {}) = <<>>
    BY FS_EmptySet DEF At
  <2>4. Len(At(records', {})) = Cardinality({})
    BY <2>3, FS_EmptySet
  <2> QED
    BY <2>1, <2>2, <2>4 DEF RecordsInOrder
<1> QED
  BY <1>3, <1>4 DEF ResultsInv

(* A collected result is the next record of its step, and of the next call   *)
(* among those that have a record.                                           *)
LEMMA CollectResults == ASSUME ResultsInv, TypeOK', Collect PROVE ResultsInv'
<1> DEFINE Record == [step : Nat, tool : ToolId, q : 1..MaxQuestions]
<1>1. PICK i \in (got + 1)..Len(subs) :
        /\ NewKey(i) /\ \A j \in (got + 1)..(i - 1) : ~NewKey(j)
        /\ records' = Append(records, [step |-> step, tool |-> subs[i].tool, q |-> subs[i].q])
        /\ got' = i
  BY DEF Collect
<1> DEFINE r == [step |-> step, tool |-> subs[i].tool, q |-> subs[i].q]
           m == Len(records) + 1
           here == {n \in DOMAIN records : records[n].step = step}
           new == {j \in 1..got : NewKey(j)}
<1>2. /\ subs \in Seq(Call) /\ step \in Nat /\ records \in Seq(Record) /\ got \in Nat
      /\ pc = "collect" /\ pc' = "collect" /\ step' = step /\ subs' = subs
  BY DEF ResultsInv, TypeOK, Call, Collect
<1>3. i \in DOMAIN subs /\ i \in Nat /\ i > got /\ subs[i] \in Call
  BY <1>1, <1>2
<1>4. r \in Record /\ records' = Append(records, r) /\ r.step = step
  BY <1>1, <1>2, <1>3 DEF Call
<1>5. r.tool = subs[i].tool /\ r.q = subs[i].q
  OBVIOUS
<1> HIDE DEF r, Record
<1>6. /\ DOMAIN records' = (DOMAIN records) \union {m} /\ m \notin DOMAIN records
      /\ (\A n \in DOMAIN records : records'[n] = records[n]) /\ records'[m] = r
  BY <1>2, <1>4
<1>7. NoLaterRecord'
  BY <1>2, <1>4, <1>6 DEF ResultsInv, NoLaterRecord
<1>9. RecordsInOrder'
  <2>1. {n \in DOMAIN records' : records'[n].step = step} = here \union {m}
    BY <1>4, <1>6
  <2>2. {j \in 1..i : NewKey(j)} = new \union {i}
    <3>1. \A j \in 1..i : j \in Nat /\ (j \in 1..got \/ j \in (got + 1)..(i - 1) \/ j = i)
      BY <1>2, <1>3
    <3>2. \A j \in 1..got : j \in 1..i
      BY <1>2, <1>3
    <3>3. i \in 1..i
      BY <1>2, <1>3
    <3> QED
      BY <1>1, <3>1, <3>2, <3>3
  <2>3. here \subseteq DOMAIN records
    OBVIOUS
  <2>4. IsFiniteSet(new) /\ new \subseteq Nat /\ \A j \in new : j < i
    <3>1. IsFiniteSet(1..got)
      BY <1>2, FS_Interval
    <3>2. new \in SUBSET (1..got)
      OBVIOUS
    <3>3. IsFiniteSet(new)
      BY <3>1, <3>2, FS_Subset
    <3> QED
      BY <1>2, <1>3, <3>3
  <2>5. /\ Len(At(records, here)) = Cardinality(new)
        /\ \A j \in new : /\ At(records, here)[Rank(new, j)].tool = subs[j].tool
                          /\ At(records, here)[Rank(new, j)].q = subs[j].q
    BY <1>2 DEF ResultsInv, RecordsInOrder
  <2> HIDE DEF here, new
  <2>6. At(records', here \union {m}) = Append(At(records, here), r)
    BY <1>2, <1>4, <2>3, AtAppend
  <2>7. At(records, here) \in Seq(Record)
    BY <1>2, <2>3, AtRanks
  <2>8. /\ Cardinality(new \union {i}) = Cardinality(new) + 1
        /\ Rank(new \union {i}, i) = Cardinality(new) + 1
        /\ \A j \in new : Rank(new \union {i}, j) = Rank(new, j)
    BY <1>3, <2>4, RankAdd
  <2>9. Cardinality(new) \in Nat /\ \A j \in new : Rank(new, j) \in 1..Cardinality(new)
    BY <2>4, Ranks
  <2> DEFINE t == Append(At(records, here), r)
  <2>10. /\ Len(t) = Cardinality(new) + 1 /\ t[Cardinality(new) + 1] = r
         /\ \A n \in 1..Cardinality(new) : t[n] = At(records, here)[n]
    BY <1>4, <2>5, <2>7
  <2> HIDE DEF t
  <2>11. /\ Len(t) = Cardinality(new \union {i})
         /\ \A j \in new \union {i} : /\ t[Rank(new \union {i}, j)].tool = subs[j].tool
                                      /\ t[Rank(new \union {i}, j)].q = subs[j].q
    <3> SUFFICES ASSUME NEW j \in new \union {i}
                 PROVE  /\ t[Rank(new \union {i}, j)].tool = subs[j].tool
                        /\ t[Rank(new \union {i}, j)].q = subs[j].q
      BY <2>8, <2>10
    <3>1. CASE j = i
      BY <1>5, <2>8, <2>10, <3>1
    <3>2. CASE j \in new
      BY <2>5, <2>8, <2>9, <2>10, <3>2
    <3> QED
      BY <3>1, <3>2
  <2>12. At(records', {n \in DOMAIN records' : records'[n].step = step}) = t
    BY <2>1, <2>6 DEF t
  <2>13. {j \in 1..got' : NewKey(j)'} = new \union {i}
    BY <1>1, <1>2, <2>2 DEF NewKey
  <2> QED
    BY <1>2, <2>11, <2>12, <2>13 DEF RecordsInOrder
<1>10. SuccessIsBacked' /\ BestShown'
  BY <1>2 DEF SuccessIsBacked, BestShown
<1> QED
  BY <1>7, <1>9, <1>10 DEF ResultsInv

(* The final status and the response's evidence are made in one place.       *)
LEMMA RespondResults == ASSUME ResultsInv, TypeOK', Respond PROVE ResultsInv'
<1> DEFINE ev == Shown(evidence)
<1>1. /\ status' = Verdict(ev).status /\ shown' = ev /\ pc' = "responded"
      /\ UNCHANGED <<planVars, runVars>>
  BY DEF Respond
<1>2. evidence \in Seq(Evidence)
  BY DEF ResultsInv, TypeOK
<1>3. BestShown'
  <2>1. evidence' = evidence
    BY <1>1 DEF runVars
  <2> HIDE DEF Evidence
  <2> QED
    BY <1>1, <1>2, <2>1, ShownRight DEF BestShown
<1> HIDE DEF ev
<1>4. SuccessIsBacked'
  <2> SUFFICES ASSUME status' = "SUCCESS"
               PROVE  /\ \A t \in Required : (\E i \in DOMAIN records : records[i].tool = t) =>
                           Cardinality({i \in DOMAIN ev : ev[i].tool = t /\ ev[i].ok}) >= EvidenceMin
                      /\ MustCite => ev # <<>>
                      /\ \A i \in DOMAIN evals : ~evals[i].continue
    BY <1>1 DEF SuccessIsBacked, runVars
  <2>1. /\ ~\E i \in DOMAIN evals : evals[i].continue
        /\ ContractOk(ev)
        /\ ~(MustCite /\ ev = <<>>)
    BY <1>1 DEF Verdict
  <2>2. ASSUME NEW t \in Required, NEW n \in DOMAIN records, records[n].tool = t
        PROVE  Cardinality({i \in DOMAIN ev : ev[i].tool = t /\ ev[i].ok}) >= EvidenceMin
    <3> DEFINE items == {i \in DOMAIN ev : ev[i].tool = t}
    <3>1. t \in {r.tool : r \in ToSet(records)}
      BY <2>2 DEF ToSet
    <3>2. Cardinality(items) >= EvidenceMin /\ \A i \in items : ev[i].ok
      BY <2>1, <3>1 DEF ContractOk
    <3>3. items = {i \in DOMAIN ev : ev[i].tool = t /\ ev[i].ok}
      BY <3>2
    <3> QED
      BY <3>2, <3>3
  <2> QED
    BY <2>1, <2>2
<1>5. NoLaterRecord' /\ RecordsInOrder'
  BY <1>1 DEF ResultsInv, NoLaterRecord, RecordsInOrder, runVars
<1> QED
  BY <1>3, <1>4, <1>5 DEF ResultsInv

(* The other steps leave the records and the evidence, and do not respond.   *)
LEMMA OtherResults ==
  ASSUME ResultsInv, TypeOK',
         UNCHANGED <<step, subs, got, records, evidence>>,
         pc' # "responded", pc' = "collect" => pc = "collect"
  PROVE  ResultsInv'
<1>1. NoLaterRecord'
  BY DEF ResultsInv, NoLaterRecord
<1>2. RecordsInOrder'
  <2>1. ASSUME NEW j PROVE NewKey(j)' <=> NewKey(j)
    BY DEF NewKey
  <2> QED
    BY <2>1 DEF ResultsInv, RecordsInOrder, NewKey
<1>3. SuccessIsBacked' /\ BestShown'
  BY DEF SuccessIsBacked, BestShown
<1> QED
  BY <1>1, <1>2, <1>3 DEF ResultsInv

LEMMA NextResults == ResultsInv /\ [Next]_vars => ResultsInv'
<1> SUFFICES ASSUME ResultsInv, [Next]_vars PROVE ResultsInv'
  OBVIOUS
<1>1. TypeOK'
  BY NextTyped DEF ResultsInv
<1>2. CASE FirstStep \/ GapStep \/ AskAll
  BY <1>1, <1>2, SubmitResults DEF FirstStep, GapStep, AskAll
<1>3. CASE Collect
  BY <1>1, <1>3, CollectResults
<1>4. CASE Respond
  BY <1>1, <1>4, RespondResults
<1>5. CASE \/ Plan \/ PlanRaises \/ NothingToAsk \/ LoopEnds \/ Evaluate \/ StepOver
           \/ Compose \/ AnswerRaises
  <2>1. UNCHANGED <<step, subs, got, records, evidence>>
    BY <1>5 DEF Plan, PlanRaises, NothingToAsk, LoopEnds, Evaluate, StepOver, Compose,
       AnswerRaises, runVars
  <2>2. pc' \in {"step", "failed", "finish", "compose"}
    BY <1>5 DEF Plan, PlanRaises, NothingToAsk, LoopEnds, Evaluate, StepOver, Compose, AnswerRaises
  <2> QED
    BY <1>1, <2>1, <2>2, OtherResults
<1>6. CASE \E i \in DOMAIN out : CallEnds(i)
  <2>1. UNCHANGED <<pc, step, subs, got, records, evidence, evals, answerVars>>
    BY <1>6 DEF CallEnds
  <2> QED
    BY <1>1, <2>1 DEF ResultsInv, NoLaterRecord, RecordsInOrder, SuccessIsBacked,
       BestShown, NewKey, answerVars
<1>7. CASE UNCHANGED vars
  BY <1>1, <1>7 DEF vars, ResultsInv, NoLaterRecord, RecordsInOrder,
     SuccessIsBacked, BestShown, NewKey
<1> QED
  BY <1>2, <1>3, <1>4, <1>5, <1>6, <1>7 DEF Next, Main, Ended

LEMMA ResultsInvariance == Spec => []ResultsInv
<1>1. Init => ResultsInv
  BY DEF Init, ResultsInv, TypeOK, Statuses, NoLaterRecord, RecordsInOrder,
     SuccessIsBacked, BestShown
<1> QED
  BY <1>1, NextResults, PTL DEF Spec

(* Whatever the plan, the tools and the services answer, every variable of an*)
(* ask keeps its type: the calls made from the LLM's lists are calls of known*)
(* tools, and what the response shows is evidence.                           *)
THEOREM Typed == Spec => []TypeOK
<1>1. ResultsInv => TypeOK
  BY DEF ResultsInv
<1> QED
  BY ResultsInvariance, <1>1, PTL

(* The trace lists a step's results in the order its calls were submitted,   *)
(* each once, for any number of calls and workers and however they overtake  *)
(* each other; a call whose key was submitted again has no record.           *)
THEOREM Ordered == Spec => []RecordsInOrder
<1>1. ResultsInv => RecordsInOrder
  BY DEF ResultsInv
<1> QED
  BY ResultsInvariance, <1>1, PTL

(* A SUCCESS is backed by what the response shows, after deduplication and   *)
(* the cut, for any evidence_min, evidence_max and REQUIRED tools.           *)
THEOREM Backed == Spec => []SuccessIsBacked
<1>1. ResultsInv => SuccessIsBacked
  BY DEF ResultsInv
<1> QED
  BY ResultsInvariance, <1>1, PTL

(* No source is shown twice, the items come by the priorities they claim, and*)
(* the first item of a source is left out only for want of room and for items*)
(* of no later priority: for any evidence_max, and any number of items of any*)
(* source, tool and priority that external services send.                    *)
THEOREM BestAreShown == Spec => []BestShown
<1>1. ResultsInv => BestShown
  BY DEF ResultsInv
<1> QED
  BY ResultsInvariance, <1>1, PTL

-----------------------------------------------------------------------------
Eval == [items : Nat, fields : Nat, continue : BOOLEAN]

\* What the budget and the calls are counted with.
CountersOK ==
  /\ step \in Nat
  /\ evals \in Seq(Eval)
  /\ DOMAIN out = DOMAIN subs /\ \A i \in DOMAIN out : out[i].ended \in BOOLEAN

\* A run that is about to take a later step was told to by its last judgement.
ToldToGoOn ==
  template = "DYNAMIC" /\ pc = "step" /\ step > 0 => evals[step].continue

\* Before the plan there is no run; a run that has begun has its template.
Started ==
  /\ pc = "plan" => step = 0 /\ evals = <<>>
  /\ template # "DYNAMIC" /\ pc = "step" => evals = <<>>

IInv ==
  /\ CountersOK
  /\ Started
  /\ StepBudget
  /\ ToldToGoOn
  /\ NoCallLeftBehind

-----------------------------------------------------------------------------
(* An ask begins without steps, judgements and calls.                        *)
LEMMA InitIInv == Init => IInv
BY AskAssumption DEF Init, IInv, CountersOK, Started, StepBudget, ToldToGoOn,
   NoCallLeftBehind, Eval

(* A judgement that asks for another step leaves room for it.                *)
LEMMA RoomForMore ==
  ASSUME NEW items, NEW fields, Continues(items, fields, evidence, step)
  PROVE  step < MaxSteps
BY DEF Continues, ShouldContinue

(* The budget's part of a submission: one more step, told by the last one.   *)
LEMMA SubmitStep ==
  ASSUME IInv, pc = "step", NEW tools, NEW questions, Submit(tools, questions),
         template = "DYNAMIC" => step < MaxSteps
  PROVE  IInv'
<1>1. CountersOK'
  <2>1. step' = step + 1 /\ evals' = evals /\ out' = [i \in DOMAIN subs' |-> Pending]
    BY DEF Submit
  <2>2. Pending.ended \in BOOLEAN
    BY DEF Pending
  <2>3. DOMAIN out' = DOMAIN subs' /\ \A i \in DOMAIN out' : out'[i] = Pending
    BY <2>1
  <2> QED
    BY <2>1, <2>2, <2>3 DEF CountersOK, IInv
<1> USE DEF IInv, Submit, planVars, answerVars
<1>2. StepBudget'
  BY AskAssumption DEF StepBudget, ToldToGoOn, CountersOK
<1> QED
  BY <1>1, <1>2 DEF Started, ToldToGoOn, NoCallLeftBehind

(* A step of DYNAMIC is judged once, and goes on only within the budget.     *)
LEMMA EvaluateStep == ASSUME IInv, Evaluate PROVE IInv'
<1> USE DEF IInv, CountersOK
<1>1. PICK items \in 0..MaxMissing, fields \in 0..MaxMissing :
        LET more == Continues(items, fields, evidence, step)
        IN  /\ evals' = Append(evals, [items |-> items, fields |-> fields,
                                       continue |-> more])
            /\ pc' = IF more THEN "step" ELSE "compose"
  BY DEF Evaluate
<1> DEFINE more == Continues(items, fields, evidence, step)
<1>2. more \in BOOLEAN
  BY DEF Continues
<1>3. more => step < MaxSteps
  BY RoomForMore
<1> HIDE DEF more
<1>4. /\ evals' = Append(evals, [items |-> items, fields |-> fields, continue |-> more])
      /\ pc' = IF more THEN "step" ELSE "compose"
  BY <1>1 DEF more
<1>5. /\ template = "DYNAMIC" /\ pc = "collect" /\ \A i \in DOMAIN out : out[i].ended
      /\ template' = template /\ step' = step /\ subs' = subs /\ out' = out
  BY DEF Evaluate, PoolLeft, planVars
<1>6. CountersOK'
  BY <1>2, <1>4, <1>5, AskAssumption DEF Eval
<1>7. Len(evals) = step - 1 /\ Len(evals') = step /\ evals'[step].continue = more
  BY <1>4, <1>5 DEF StepBudget
<1>8. \A i \in 1..(step - 1) : evals'[i] = evals[i]
  BY <1>4, <1>7
<1>9. StepBudget'
  BY <1>3, <1>4, <1>5, <1>6, <1>7, <1>8 DEF StepBudget
<1>10. Started' /\ ToldToGoOn' /\ NoCallLeftBehind'
  BY <1>4, <1>5, <1>7 DEF Started, ToldToGoOn, NoCallLeftBehind
<1> QED
  BY <1>6, <1>9, <1>10

(* The other steps of the ask's thread count nothing.                        *)
LEMMA OtherSteps ==
  ASSUME IInv,
         \/ Plan \/ PlanRaises \/ NothingToAsk \/ LoopEnds
         \/ Collect \/ StepOver \/ Compose \/ Respond \/ AnswerRaises
  PROVE  IInv'
<1> USE DEF IInv, CountersOK, Started, StepBudget, ToldToGoOn, NoCallLeftBehind,
            planVars, runVars, answerVars
<1>1. CASE Plan
  BY <1>1, AskAssumption DEF Plan
<1>2. CASE PlanRaises \/ NothingToAsk
  BY <1>2 DEF PlanRaises, NothingToAsk
<1>3. CASE LoopEnds
  BY <1>3 DEF LoopEnds
<1>4. CASE Collect
  BY <1>4 DEF Collect
<1>5. CASE StepOver
  BY <1>5 DEF StepOver, PoolLeft
<1>6. CASE Compose \/ Respond
  BY <1>6 DEF Compose, Respond
<1>7. CASE AnswerRaises
  <2>1. /\ pc \in {"collect", "compose", "finish"} /\ pc' = "failed"
        /\ \A i \in DOMAIN out : out[i].ended
        /\ UNCHANGED <<template, step, subs, out, evals>>
    BY <1>7 DEF AnswerRaises, PoolLeft
  <2> QED
    BY <2>1
<1> QED
  BY <1>1, <1>2, <1>3, <1>4, <1>5, <1>6, <1>7

(* A call that ends is one of a step that is still being collected.          *)
LEMMA CallEndsStep == ASSUME IInv, NEW i \in DOMAIN out, CallEnds(i) PROVE IInv'
<1> USE DEF IInv, CountersOK
<1>1. pc = "collect"
  BY DEF CallEnds, Running, NoCallLeftBehind
<1>2. PICK brought \in Brings(i) :
        out' = [out EXCEPT ![i] = [ended |-> TRUE, evidence |-> brought]]
  BY DEF CallEnds
<1> QED
  BY <1>1, <1>2
  DEF CallEnds, Started, StepBudget, ToldToGoOn, NoCallLeftBehind, planVars, answerVars

-----------------------------------------------------------------------------
(* The invariant is inductive.                                               *)
LEMMA NextIInv == IInv /\ [Next]_vars => IInv'
<1> SUFFICES ASSUME IInv, [Next]_vars PROVE IInv'
  OBVIOUS
<1>1. CASE FirstStep
  BY <1>1, SubmitStep DEF FirstStep
<1>2. CASE GapStep
  BY <1>2, SubmitStep, AskAssumption DEF GapStep
<1>3. CASE AskAll
  BY <1>3, SubmitStep DEF AskAll
<1>4. CASE Evaluate
  BY <1>4, EvaluateStep
<1>5. CASE \/ Plan \/ PlanRaises \/ NothingToAsk \/ LoopEnds
           \/ Collect \/ StepOver \/ Compose \/ Respond \/ AnswerRaises
  BY <1>5, OtherSteps
<1>6. CASE \E i \in DOMAIN out : CallEnds(i)
  BY <1>6, CallEndsStep
<1>7. CASE UNCHANGED vars
  BY <1>7 DEF vars, IInv, CountersOK, Started, StepBudget, ToldToGoOn, NoCallLeftBehind
<1> QED
  BY <1>1, <1>2, <1>3, <1>4, <1>5, <1>6, <1>7 DEF Next, Main, Ended

LEMMA Invariance == Spec => []IInv
BY InitIInv, NextIInv, PTL DEF Spec

(* However many steps the LLM's judgements would like to take, a DYNAMIC run *)
(* takes max_steps at most, each one on the word of the judgement before it. *)
THEOREM Budget == Spec => []StepBudget
<1>1. IInv => StepBudget
  BY DEF IInv
<1> QED
  BY Invariance, <1>1, PTL

(* When an ask goes on from a step, fails or answers, none of its tool calls *)
(* is still running: for any number of calls and workers, and repeated tools.*)
THEOREM CallsEndWithTheirStep == Spec => []NoCallLeftBehind
<1>1. IInv => NoCallLeftBehind
  BY DEF IInv
<1> QED
  BY Invariance, <1>1, PTL

-----------------------------------------------------------------------------
\* doc/RATIONALE_CODES.md: "Evaluation indicates more steps were needed."  Right
\* where there was one evaluation at most; with several it is always said.
MoreStepsMoreDoubt ==
  pc = "responded" =>
    /\ Len(evals) > 1 => "NEEDS_MORE_STEPS" \in reasons /\ status # "SUCCESS"
    /\ Len(evals) <= 1 =>
         ("NEEDS_MORE_STEPS" \in reasons <=> evals # <<>> /\ Last(evals).continue)

\* Only DYNAMIC runs are evaluated, and a response is downgraded for any evaluation
\* that asked for more.
AnyEvaluation ==
  /\ template # "DYNAMIC" => evals = <<>>
  /\ pc = "responded" =>
       /\ "NEEDS_MORE_STEPS" \in reasons <=> \E i \in DOMAIN evals : evals[i].continue
       /\ "NEEDS_MORE_STEPS" \in reasons => status # "SUCCESS"

LEMMA AnyEvaluationStep == IInv /\ AnyEvaluation /\ [Next]_vars => AnyEvaluation'
<1> SUFFICES ASSUME IInv, AnyEvaluation, [Next]_vars PROVE AnyEvaluation'
  OBVIOUS
<1> USE DEF AnyEvaluation, planVars, runVars, answerVars
<1>1. CASE Plan
  BY <1>1 DEF Plan, IInv, Started
<1>2. CASE PlanRaises \/ NothingToAsk \/ LoopEnds
  BY <1>2 DEF PlanRaises, NothingToAsk, LoopEnds
<1>3. ASSUME NEW tools, NEW questions, Submit(tools, questions) PROVE AnyEvaluation'
  BY <1>3 DEF Submit
<1>4. CASE FirstStep \/ GapStep \/ AskAll
  BY <1>3, <1>4 DEF FirstStep, GapStep, AskAll
<1>5. CASE Collect
  BY <1>5 DEF Collect
<1>6. CASE Evaluate
  BY <1>6 DEF Evaluate, PoolLeft
<1>7. CASE StepOver
  BY <1>7 DEF StepOver
<1>8. CASE Compose \/ AnswerRaises
  BY <1>8 DEF Compose, AnswerRaises
<1>9. CASE Respond
  <2> DEFINE ev == Shown(evidence)
  <2>1. /\ status' = Verdict(ev).status /\ reasons' = Verdict(ev).reasons
        /\ UNCHANGED <<template, evals>>
    BY <1>9 DEF Respond
  <2> HIDE DEF ev
  <2>2. /\ "NEEDS_MORE_STEPS" \in Verdict(ev).reasons <=>
             \E i \in DOMAIN evals : evals[i].continue
        /\ (\E i \in DOMAIN evals : evals[i].continue) => Verdict(ev).status # "SUCCESS"
    BY DEF Verdict
  <2> QED
    BY <2>1, <2>2
<1>10. ASSUME NEW i \in DOMAIN out, CallEnds(i) PROVE AnyEvaluation'
  BY <1>10 DEF CallEnds
<1>11. CASE UNCHANGED vars
  BY <1>11 DEF vars
<1> QED
  BY <1>1, <1>2, <1>4, <1>5, <1>6, <1>7, <1>8, <1>9, <1>10, <1>11 DEF Next, Main, Ended

(* An ask that took several steps is downgraded for needing more of them     *)
(* whatever its last evaluation said, and so never answers SUCCESS, for any  *)
(* profile and any tools; one of a single step is downgraded exactly when    *)
(* its evaluation asks for more (the first downgrade of _ask_impl).          *)
THEOREM SeveralStepsAreDoubted == Spec => []MoreStepsMoreDoubt
<1>1. Init => AnyEvaluation
  BY DEF Init, AnyEvaluation
<1>2. Spec => []AnyEvaluation
  BY <1>1, AnyEvaluationStep, Invariance, PTL DEF Spec
<1>3. IInv /\ AnyEvaluation => MoreStepsMoreDoubt
  <2> SUFFICES ASSUME IInv, AnyEvaluation, pc = "responded"
               PROVE  /\ Len(evals) > 1 => "NEEDS_MORE_STEPS" \in reasons /\ status # "SUCCESS"
                      /\ Len(evals) <= 1 =>
                           ("NEEDS_MORE_STEPS" \in reasons <=>
                              evals # <<>> /\ Last(evals).continue)
    BY DEF MoreStepsMoreDoubt
  <2>1. evals \in Seq(Eval) /\ Len(evals) \in Nat /\ DOMAIN evals = 1..Len(evals) /\ step \in Nat
    BY DEF IInv, CountersOK
  <2>2. CASE Len(evals) > 1
    <3>1. template = "DYNAMIC"
      BY <2>2 DEF AnyEvaluation
    <3>2. Len(evals) = step /\ \A i \in 1..(step - 1) : evals[i].continue
      BY <3>1 DEF IInv, StepBudget
    <3>3. 1 \in DOMAIN evals /\ evals[1].continue
      BY <2>1, <2>2, <3>2
    <3> QED
      BY <2>2, <3>3, <2>1 DEF AnyEvaluation
  <2>3. CASE Len(evals) = 0
    BY <2>1, <2>3 DEF AnyEvaluation
  <2>4. CASE Len(evals) = 1
    <3>1. evals # <<>> /\ Last(evals) = evals[1] /\ DOMAIN evals = {1}
      BY <2>1, <2>4 DEF Last
    <3> QED
      BY <2>4, <3>1 DEF AnyEvaluation
  <2> QED
    BY <2>1, <2>2, <2>3, <2>4
<1> QED
  BY <1>2, <1>3, Invariance, PTL

\* An ask that collects the results of a step can collect the next, leave the pool,
\* or has a call that a worker of the pool is running.
NoVainWait ==
  pc = "collect" =>
    \/ PoolLeft
    \/ \E i \in DOMAIN out : Running(i)
    \/ \E i \in (got + 1)..Len(subs) :
         /\ NewKey(i) /\ \A j \in (got + 1)..(i - 1) : ~NewKey(j)
         /\ out[FutureOf(i)].ended

(* However small the pool, and whichever tools the LLM lists twice, an ask   *)
(* never waits in a step for a call that no worker runs (future.result() has *)
(* no timeout): it can go on, or a call of the step is being run.            *)
THEOREM StepsGoOn == Spec => []NoVainWait
<1>1. TypeOK => NoVainWait
  <2> SUFFICES ASSUME TypeOK, pc = "collect", ~PoolLeft,
                      \A i \in DOMAIN out : ~Running(i)
               PROVE  \E i \in (got + 1)..Len(subs) :
                        /\ NewKey(i) /\ \A j \in (got + 1)..(i - 1) : ~NewKey(j)
                        /\ out[FutureOf(i)].ended
    BY DEF NoVainWait
  <2>1. /\ subs \in Seq(Call) /\ DOMAIN subs = 1..Len(subs) /\ DOMAIN out = 1..Len(subs)
        /\ Len(subs) \in Nat /\ got \in 0..Len(subs)
    BY DEF TypeOK, Call
  <2>2. \A i \in DOMAIN out : out[i].ended
    <3> DEFINE P == {i \in DOMAIN out : ~out[i].ended}
    <3>1. SUFFICES ASSUME P # {} PROVE FALSE
      OBVIOUS
    <3>2. P \subseteq Nat
      BY <2>1
    <3>3. PICK i \in P : \A j \in P : i <= j
      BY <3>1, <3>2, Least
    <3>4. {j \in 1..(i - 1) : ~out[j].ended} = {}
      BY <2>1, <3>3
    <3>5. Running(i)
      BY <3>3, <3>4, FS_EmptySet, AskAssumption DEF Running
    <3> QED
      BY <3>3, <3>5
  <2>3. ~AllCollected
    BY <2>2 DEF PoolLeft
  <2> DEFINE N == {i \in (got + 1)..Len(subs) : NewKey(i)}
  <2>4. N # {} /\ N \subseteq Nat
    BY <2>1, <2>3 DEF AllCollected
  <2>5. PICK i \in N : \A j \in N : i <= j
    BY <2>4, Least
  <2>6. \A j \in (got + 1)..(i - 1) : ~NewKey(j)
    BY <2>1, <2>5
  <2>7. i \in DOMAIN subs /\ FutureOf(i) \in DOMAIN out
    BY <2>1, <2>5, FutureIsCall
  <2> QED
    BY <2>2, <2>5, <2>6, <2>7
<1> QED
  BY <1>1, Typed, PTL

-----------------------------------------------------------------------------
\* Where the ask's thread stands within a step, and which step is the last.
Standing    == [plan |-> 0, collect |-> 1, step |-> 2, compose |-> 3, finish |-> 4,
             responded |-> 5, failed |-> 5][pc]
LastStep == IF template = "DYNAMIC" THEN MaxSteps ELSE 1

\* The thread goes on to another step, within the budget; or goes on in its step; or
\* collects one more result of those the step has; or one more of its calls ends.
Nearer ==
  \/ step' = step + 1 /\ step' <= LastStep
  \/ /\ step' = step
     /\ \/ Standing < Standing'
        \/ /\ pc = "collect" /\ UNCHANGED <<pc, subs>>
           /\ \/ got < got' /\ got' <= Len(subs) /\ out' = out
              \/ /\ got' = got
                 /\ \E i \in DOMAIN out :
                      /\ ~out[i].ended /\ out'[i].ended
                      /\ \A j \in DOMAIN out \ {i} : out'[j] = out[j]

EveryStepCounts == [][Nearer]_vars

\* Only a DYNAMIC run comes back from a step to take another.
OneStepElse == template # "DYNAMIC" /\ pc \in {"plan", "step"} => step = 0

LEMMA OneStepElseStep == IInv /\ OneStepElse /\ [Next]_vars => OneStepElse'
<1> SUFFICES ASSUME IInv, OneStepElse, [Next]_vars PROVE OneStepElse'
  OBVIOUS
<1> USE DEF OneStepElse, planVars, runVars, answerVars
<1>1. CASE Plan \/ PlanRaises
  BY <1>1 DEF Plan, PlanRaises, IInv, Started
<1>2. ASSUME NEW tools, NEW questions, Submit(tools, questions) PROVE OneStepElse'
  BY <1>2 DEF Submit
<1>3. CASE FirstStep \/ GapStep \/ AskAll
  BY <1>2, <1>3 DEF FirstStep, GapStep, AskAll
<1>4. CASE NothingToAsk \/ LoopEnds
  BY <1>4 DEF NothingToAsk, LoopEnds
<1>5. CASE Collect \/ (\E i \in DOMAIN out : CallEnds(i))
  BY <1>5 DEF Collect, CallEnds
<1>6. CASE Evaluate \/ StepOver
  BY <1>6 DEF Evaluate, StepOver
<1>7. CASE Compose \/ Respond \/ AnswerRaises
  BY <1>7 DEF Compose, Respond, AnswerRaises
<1>8. CASE UNCHANGED vars
  BY <1>8 DEF vars
<1> QED
  BY <1>1, <1>3, <1>4, <1>5, <1>6, <1>7, <1>8 DEF Next, Main, Ended

(* Every step of an ask brings it nearer to its end, for any plan and any    *)
(* answers: there are at most LastStep steps, each with finitely many calls  *)
(* and results, and nothing within a step is done twice (_execute_dynamic).  *)
THEOREM AskAdvances == Spec => EveryStepCounts
<1>1. Init => OneStepElse
  BY DEF Init, OneStepElse
<1>2. Spec => []OneStepElse
  BY <1>1, OneStepElseStep, Invariance, PTL DEF Spec
<1>3. TypeOK /\ IInv /\ OneStepElse /\ [Next]_vars => [Nearer]_vars
  <2> SUFFICES ASSUME TypeOK, IInv, OneStepElse, Next, ~(UNCHANGED vars) PROVE Nearer
    OBVIOUS
  <2> USE DEF planVars, runVars, answerVars
  <2>1. CASE Plan \/ PlanRaises
    BY <2>1 DEF Plan, PlanRaises, Nearer, Standing
  <2>2. ASSUME NEW tools, NEW questions, Submit(tools, questions), step < LastStep
        PROVE  Nearer
    <3>1. MaxSteps \in Nat /\ step \in Nat /\ LastStep \in Nat
      BY AskAssumption DEF TypeOK, LastStep
    <3>2. step' = step + 1 /\ LastStep' = LastStep
      BY <2>2 DEF Submit, LastStep
    <3> QED
      BY <2>2, <3>1, <3>2 DEF Nearer
  <2>3. CASE FirstStep
    <3>1. step < LastStep
      BY <2>3, AskAssumption DEF FirstStep, LastStep
    <3> QED
      BY <2>2, <2>3, <3>1 DEF FirstStep
  <2>4. CASE GapStep
    <3>1. step < LastStep
      BY <2>4, AskAssumption DEF GapStep, LastStep
    <3> QED
      BY <2>2, <2>4, <3>1 DEF GapStep
  <2>5. CASE AskAll
    <3>1. step < LastStep
      BY <2>5 DEF AskAll, LastStep, OneStepElse
    <3> QED
      BY <2>2, <2>5, <3>1 DEF AskAll
  <2>6. CASE NothingToAsk
    BY <2>6 DEF NothingToAsk, Nearer, Standing
  <2>7. CASE LoopEnds
    BY <2>7 DEF LoopEnds, Nearer, Standing
  <2>8. CASE Collect
    <3>1. PICK i \in (got + 1)..Len(subs) : got' = i
      BY <2>8 DEF Collect
    <3>2. got \in Nat /\ Len(subs) \in Nat
      BY DEF TypeOK
    <3>3. got < got' /\ got' <= Len(subs)
      BY <3>1, <3>2
    <3> QED
      BY <2>8, <3>3 DEF Collect, Nearer
  <2>9. CASE Evaluate
    <3>1. pc = "collect" /\ pc' \in {"step", "compose"} /\ step' = step
      BY <2>9 DEF Evaluate, PoolLeft
    <3> QED
      BY <3>1 DEF Nearer, Standing
  <2>10. CASE StepOver
    <3>1. pc = "collect" /\ pc' \in {"finish", "compose"} /\ step' = step
      BY <2>10 DEF StepOver, PoolLeft
    <3> QED
      BY <3>1 DEF Nearer, Standing
  <2>11. CASE Compose
    BY <2>11 DEF Compose, Nearer, Standing
  <2>12. CASE Respond
    BY <2>12 DEF Respond, Nearer, Standing
  <2>13. CASE AnswerRaises
    <3>1. pc \in {"collect", "compose", "finish"} /\ pc' = "failed" /\ step' = step
      BY <2>13 DEF AnswerRaises, PoolLeft, runVars
    <3> QED
      BY <3>1 DEF Nearer, Standing
  <2>14. ASSUME NEW i \in DOMAIN out, CallEnds(i) PROVE Nearer
    <3>1. ~out[i].ended /\ pc = "collect"
      BY <2>14 DEF CallEnds, Running, IInv, NoCallLeftBehind
    <3>2. PICK brought \in Brings(i) :
            out' = [out EXCEPT ![i] = [ended |-> TRUE, evidence |-> brought]]
      BY <2>14 DEF CallEnds
    <3>4. out'[i].ended /\ \A j \in DOMAIN out \ {i} : out'[j] = out[j]
      BY <3>2
    <3> QED
      BY <2>14, <3>1, <3>4 DEF CallEnds, Nearer
  <2> QED
    BY <2>1, <2>3, <2>4, <2>5, <2>6, <2>7, <2>8, <2>9, <2>10, <2>11, <2>12, <2>13, <2>14
       DEF Next, Main, Ended
<1> QED
  BY <1>2, <1>3, Typed, Invariance, PTL DEF Spec, EveryStepCounts
=============================================================================
