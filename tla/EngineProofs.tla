---------------------------- MODULE EngineProofs ----------------------------
(***************************************************************************)
(* Proofs about the matching engine of one symbol, its order book and the  *)
(* events it publishes, for any orders, prices and quantities, any number  *)
(* of objects, and rings of any size.                                      *)
(***************************************************************************)
EXTENDS EngineStream, CommonLemmas, FiniteSetTheorems, SequenceTheorems, WellFoundedInduction, TLAPS

-----------------------------------------------------------------------------
(* Numbers, sets and sequences.                                            *)

(* A set of natural numbers that is not empty has a least element.         *)
LEMMA Least ==
  ASSUME NEW S \in SUBSET Nat, S # {}
  PROVE  \E n \in S : \A m \in S : n <= m
<1>1. PICK n \in S : \A m \in S : ~ (<<m, n>> \in OpToRel(<, Nat))
  BY NatLessThanWellFounded, WFMin
<1>2. \A m \in S : ~ (m < n)
  BY <1>1 DEF OpToRel
<1> QED
  BY <1>2

(* A set of positions that holds with each all smaller ones is 1 .. n.     *)
LEMMA InitialSegment ==
  ASSUME NEW n \in Nat, NEW C \in SUBSET (1 .. n),
         \A i \in C : \A j \in 1 .. i : j \in C
  PROVE  /\ Cardinality(C) \in 0 .. n
         /\ C = 1 .. Cardinality(C)
<1> DEFINE Out == {i \in 1 .. n + 1 : i \notin C}
<1>1. PICK k \in Out : \A m \in Out : k <= m
  <2>1. n + 1 \in Out /\ Out \in SUBSET Nat
    OBVIOUS
  <2> QED
    BY <2>1, Least
<1>2. C = 1 .. k - 1
  <2>1. ASSUME NEW i \in C PROVE i \in 1 .. k - 1
    <3>1. ~ (k <= i)
      BY <1>1
    <3> QED
      BY <3>1
  <2>2. ASSUME NEW i \in 1 .. k - 1 PROVE i \in C
    BY <1>1
  <2> QED
    BY <2>1, <2>2
<1>3. Cardinality(1 .. k - 1) = k - 1
  BY FS_Interval
<1> QED
  BY <1>2, <1>3

\* new is s with e before its position n, and s without its position n.
Inserted(new, s, n, e) ==
  /\ Len(new) = Len(s) + 1
  /\ \A i \in 1 .. n - 1 : new[i] = s[i]
  /\ new[n] = e
  /\ \A i \in n + 1 .. Len(s) + 1 : new[i] = s[i - 1]

Removed(new, s, n) ==
  /\ Len(new) = Len(s) - 1
  /\ \A i \in 1 .. Len(s) - 1 : new[i] = IF i < n THEN s[i] ELSE s[i + 1]

LEMMA InsertedAt ==
  ASSUME NEW S, NEW s \in Seq(S), NEW e \in S, NEW n \in 1 .. Len(s) + 1,
         NEW new, new = InsertAt(s, n, e)
  PROVE  new \in Seq(S) /\ Inserted(new, s, n, e)
<1> DEFINE a == SubSeq(s, 1, n - 1)
           b == SubSeq(s, n, Len(s))
           one == <<e>>
<1>1. /\ a \in Seq(S) /\ Len(a) = n - 1 /\ \A i \in 1 .. n - 1 : a[i] = s[i]
      /\ b \in Seq(S) /\ Len(b) = Len(s) - n + 1
      /\ \A i \in 1 .. Len(s) - n + 1 : b[i] = s[n + i - 1]
  BY SubSeqProperties
<1>2. one \in Seq(S) /\ Len(one) = 1 /\ one[1] = e
  OBVIOUS
<1> HIDE DEF a, b, one
<1> DEFINE c == a \o one
<1>3. /\ c \in Seq(S) /\ Len(c) = n
      /\ \A i \in 1 .. n : i < n => c[i] = s[i]
      /\ c[n] = e
  <2>1. /\ c \in Seq(S) /\ Len(c) = Len(a) + Len(one)
        /\ \A i \in 1 .. Len(a) + Len(one) :
             c[i] = IF i <= Len(a) THEN a[i] ELSE one[i - Len(a)]
    BY <1>1, <1>2, ConcatProperties
  <2> HIDE DEF c
  <2>2. n \in Nat \ {0} /\ Len(a) + Len(one) = n /\ Len(a) = n - 1
    BY <1>1, <1>2
  <2>3. Len(c) = n
    BY <2>1, <2>2
  <2>4. ASSUME NEW i \in 1 .. n, i < n PROVE c[i] = s[i]
    <3>1. i \in 1 .. Len(a) + Len(one) /\ i <= Len(a) /\ i \in 1 .. n - 1
      BY <2>2, <2>4
    <3>2. c[i] = a[i]
      BY <2>1, <3>1
    <3> QED
      BY <1>1, <3>1, <3>2
  <2>5. c[n] = e
    <3>1. n \in 1 .. Len(a) + Len(one) /\ ~ (n <= Len(a)) /\ n - Len(a) = 1
      BY <2>2
    <3>2. c[n] = one[n - Len(a)]
      BY <2>1, <3>1
    <3> QED
      BY <1>2, <3>1, <3>2
  <2> QED
    BY <2>1, <2>3, <2>4, <2>5
<1> HIDE DEF c
<1>4. /\ c \o b \in Seq(S) /\ Len(c \o b) = Len(s) + 1
      /\ \A i \in 1 .. Len(s) + 1 : (c \o b)[i] = IF i <= n THEN c[i] ELSE b[i - n]
  <2>1. /\ c \o b \in Seq(S) /\ Len(c \o b) = Len(c) + Len(b)
        /\ \A i \in 1 .. Len(c) + Len(b) :
             (c \o b)[i] = IF i <= Len(c) THEN c[i] ELSE b[i - Len(c)]
    BY <1>1, <1>3, ConcatProperties
  <2> QED
    BY <1>1, <1>3, <2>1
<1>5. new = c \o b
  BY DEF InsertAt, a, b, c, one
<1>6. ASSUME NEW i \in 1 .. Len(s) + 1, i > n PROVE b[i - n] = s[i - 1]
  <2>1. i - n \in 1 .. Len(s) - n + 1 /\ n + (i - n) - 1 = i - 1
    BY <1>6
  <2> QED
    BY <1>1, <2>1
<1>7. /\ new \in Seq(S) /\ Len(new) = Len(s) + 1
      /\ \A i \in 1 .. Len(s) + 1 : new[i] = IF i <= n THEN c[i] ELSE b[i - n]
  BY <1>4, <1>5
<1>8. ASSUME NEW i \in 1 .. n - 1 PROVE new[i] = s[i]
  <2>1. i \in 1 .. Len(s) + 1 /\ i \in 1 .. n /\ i < n /\ i <= n
    OBVIOUS
  <2> QED
    BY <1>3, <1>7, <2>1
<1>9. new[n] = e
  BY <1>3, <1>7
<1>10. ASSUME NEW i \in n + 1 .. Len(s) + 1 PROVE new[i] = s[i - 1]
  <2>1. i \in 1 .. Len(s) + 1 /\ i > n /\ ~ (i <= n)
    OBVIOUS
  <2> QED
    BY <1>6, <1>7, <2>1
<1> QED
  BY <1>7, <1>8, <1>9, <1>10 DEF Inserted

LEMMA RemovedAt ==
  ASSUME NEW S, NEW s \in Seq(S), NEW n \in 1 .. Len(s), NEW new, new = RemoveAt(s, n)
  PROVE  new \in Seq(S) /\ Removed(new, s, n)
<1> DEFINE a == SubSeq(s, 1, n - 1)
           b == SubSeq(s, n + 1, Len(s))
<1>1. /\ a \in Seq(S) /\ Len(a) = n - 1 /\ \A i \in 1 .. n - 1 : a[i] = s[i]
      /\ b \in Seq(S) /\ Len(b) = Len(s) - n
      /\ \A i \in 1 .. Len(s) - n : b[i] = s[n + i]
  BY SubSeqProperties
<1> HIDE DEF a, b
<1>2. /\ a \o b \in Seq(S) /\ Len(a \o b) = Len(s) - 1
      /\ \A i \in 1 .. Len(s) - 1 : (a \o b)[i] = IF i < n THEN a[i] ELSE b[i - n + 1]
  <2>1. PICK c : c = a \o b
    OBVIOUS
  <2>2. /\ c \in Seq(S) /\ Len(c) = Len(a) + Len(b)
        /\ \A i \in 1 .. Len(a) + Len(b) :
             c[i] = IF i <= Len(a) THEN a[i] ELSE b[i - Len(a)]
    BY <1>1, <2>1, ConcatProperties
  <2>3. Len(a) = n - 1 /\ Len(a) + Len(b) = Len(s) - 1
    BY <1>1
  <2>4. \A i \in 1 .. Len(s) - 1 : c[i] = IF i < n THEN a[i] ELSE b[i - n + 1]
    <3>1. ASSUME NEW i \in 1 .. Len(s) - 1
          PROVE  (i <= n - 1 <=> i < n) /\ i - (n - 1) = i - n + 1
      OBVIOUS
    <3> QED
      BY <2>2, <2>3, <3>1
  <2> QED
    BY <2>1, <2>2, <2>3, <2>4
<1>3. new = a \o b
  BY DEF RemoveAt, a, b
<1>4. /\ new \in Seq(S) /\ Len(new) = Len(s) - 1
      /\ \A i \in 1 .. Len(s) - 1 : new[i] = IF i < n THEN a[i] ELSE b[i - n + 1]
  BY <1>2, <1>3
<1>5. ASSUME NEW i \in 1 .. Len(s) - 1 PROVE new[i] = IF i < n THEN s[i] ELSE s[i + 1]
  <2>1. CASE i < n
    <3>1. i \in 1 .. n - 1
      BY <2>1
    <3> QED
      BY <1>1, <1>4, <2>1, <3>1
  <2>2. CASE ~ (i < n)
    <3>1. i - n + 1 \in 1 .. Len(s) - n /\ n + (i - n + 1) = i + 1
      BY <2>2
    <3> QED
      BY <1>1, <1>4, <2>2, <3>1
  <2> QED
    BY <2>1, <2>2
<1> QED
  BY <1>4, <1>5 DEF Removed

-----------------------------------------------------------------------------
(* The sorted slices of prices.                                            *)

Sorted(s, seq) == \A i, j \in DOMAIN seq : i < j => Better(s, seq[i], seq[j])

LEMMA BetterOrders ==
  ASSUME NEW s \in Sides, NEW p \in Prices, NEW q \in Prices
  PROVE  /\ ~ Better(s, p, p)
         /\ p # q => Better(s, p, q) \/ Better(s, q, p)
         /\ Better(s, p, q) => ~ Better(s, q, p)
         /\ \A r \in Prices : Better(s, p, q) /\ Better(s, q, r) => Better(s, p, r)
  BY BookAssumption DEF Better, Sides

(* sort.Search finds the position behind all better prices.                *)
LEMMA Position ==
  ASSUME NEW s \in Sides, prices[s] \in Seq(Prices), Sorted(s, prices[s]), NEW p \in Prices
  PROVE  /\ PricePosition(s, p) \in 1 .. Len(prices[s]) + 1
         /\ \A i \in DOMAIN prices[s] : i < PricePosition(s, p) <=> Better(s, prices[s][i], p)
<1> DEFINE C == {i \in DOMAIN prices[s] : Better(s, prices[s][i], p)}
           n == Len(prices[s])
<1>1. n \in Nat /\ DOMAIN prices[s] = 1 .. n /\ \A i \in 1 .. n : prices[s][i] \in Prices
  OBVIOUS
<1>2. \A i \in C : \A j \in 1 .. i : j \in C
  <2> SUFFICES ASSUME NEW i \in C, NEW j \in 1 .. i, j # i PROVE j \in C
    OBVIOUS
  <2>1. i \in 1 .. n /\ j \in 1 .. n /\ j < i /\ Better(s, prices[s][i], p)
    BY <1>1
  <2>2. Better(s, prices[s][j], prices[s][i])
    BY <1>1, <2>1 DEF Sorted
  <2> QED
    BY <1>1, <2>1, <2>2, BetterOrders
<1>3. C \in SUBSET (1 .. n)
  BY <1>1
<1>4. Cardinality(C) \in 0 .. n /\ C = 1 .. Cardinality(C)
  BY <1>1, <1>2, <1>3, InitialSegment
<1>5. PricePosition(s, p) = 1 + Cardinality(C)
  BY DEF PricePosition
<1>6. \A i \in DOMAIN prices[s] : i \in C <=> Better(s, prices[s][i], p)
  OBVIOUS
<1> HIDE DEF C
<1> QED
  BY <1>1, <1>4, <1>5, <1>6

(* insertBidPrice and insertAskPrice keep the slice sorted.                *)
LEMMA SortedWith ==
  ASSUME NEW s \in Sides, NEW old \in Seq(Prices), Sorted(s, old),
         NEW p \in Prices, p \notin ToSet(old), NEW n \in 1 .. Len(old) + 1,
         \A i \in 1 .. Len(old) : i < n <=> Better(s, old[i], p),
         NEW new, new = InsertAt(old, n, p)
  PROVE  new \in Seq(Prices) /\ Sorted(s, new) /\ ToSet(new) = ToSet(old) \cup {p}
<1>1. /\ n \in 1 .. Len(old) + 1
      /\ \A i \in 1 .. Len(old) : i < n <=> Better(s, old[i], p)
  OBVIOUS
<1>2. /\ new \in Seq(Prices) /\ Len(new) = Len(old) + 1 /\ DOMAIN new = 1 .. Len(old) + 1
      /\ \A i \in 1 .. Len(old) + 1 : /\ i < n => new[i] = old[i]
                                      /\ i = n => new[i] = p
                                      /\ i > n => new[i] = old[i - 1]
  <2>1. /\ new \in Seq(Prices)
        /\ Len(new) = Len(old) + 1
        /\ \A i \in 1 .. n - 1 : new[i] = old[i]
        /\ new[n] = p
        /\ \A i \in n + 1 .. Len(old) + 1 : new[i] = old[i - 1]
    <3>1. new \in Seq(Prices) /\ Inserted(new, old, n, p)
      BY InsertedAt
    <3> QED
      BY <3>1 DEF Inserted
  <2>2. DOMAIN new = 1 .. Len(old) + 1
    BY <2>1
  <2>3. ASSUME NEW i \in 1 .. Len(old) + 1
        PROVE  /\ i < n => new[i] = old[i]
               /\ i = n => new[i] = p
               /\ i > n => new[i] = old[i - 1]
    <3>1. (i < n => i \in 1 .. n - 1) /\ (i > n => i \in n + 1 .. Len(old) + 1)
      OBVIOUS
    <3> QED
      BY <2>1, <3>1
  <2> QED
    BY <2>1, <2>2, <2>3
<1>3. \A i \in 1 .. Len(old) : old[i] \in Prices /\ old[i] # p
  BY DEF ToSet
<1>4. \A i, j \in 1 .. Len(old) : i < j => Better(s, old[i], old[j])
  BY DEF Sorted
<1>5. \A i \in 1 .. Len(old) : i >= n => Better(s, p, old[i])
  BY <1>1, <1>3, BetterOrders
<1>6. Sorted(s, new)
  <2> SUFFICES ASSUME NEW i \in 1 .. Len(old) + 1, NEW j \in 1 .. Len(old) + 1, i < j
               PROVE  Better(s, new[i], new[j])
    BY <1>2 DEF Sorted
  <2>1. CASE j < n
    <3>1. new[i] = old[i] /\ new[j] = old[j] /\ i \in 1 .. Len(old) /\ j \in 1 .. Len(old)
      BY <1>1, <1>2, <2>1
    <3> QED
      BY <1>4, <3>1
  <2>2. CASE j = n
    BY <1>1, <1>2, <2>2
  <2>3. CASE j > n /\ i < n
    <3>1. new[i] = old[i] /\ new[j] = old[j - 1] /\ i \in 1 .. Len(old) /\ j - 1 \in 1 .. Len(old) /\ i < j - 1
      BY <1>1, <1>2, <2>3
    <3> QED
      BY <1>4, <3>1
  <2>4. CASE j > n /\ i = n
    <3>1. new[i] = p /\ new[j] = old[j - 1] /\ j - 1 \in 1 .. Len(old) /\ j - 1 >= n
      BY <1>1, <1>2, <2>4
    <3> QED
      BY <1>5, <3>1
  <2>5. CASE j > n /\ i > n
    <3>1. new[i] = old[i - 1] /\ new[j] = old[j - 1]
          /\ i - 1 \in 1 .. Len(old) /\ j - 1 \in 1 .. Len(old) /\ i - 1 < j - 1
      BY <1>1, <1>2, <2>5
    <3> QED
      BY <1>4, <3>1
  <2> QED
    BY <1>1, <2>1, <2>2, <2>3, <2>4, <2>5
<1>7. ToSet(new) = ToSet(old) \cup {p}
  <2>1. ASSUME NEW i \in 1 .. Len(old) PROVE \E j \in 1 .. Len(old) + 1 : new[j] = old[i]
    <3>1. CASE i < n
      BY <1>2, <3>1
    <3>2. CASE i >= n
      <4>1. i + 1 \in 1 .. Len(old) + 1 /\ new[i + 1] = old[(i + 1) - 1] /\ (i + 1) - 1 = i
        BY <1>1, <1>2, <3>2
      <4> QED
        BY <4>1
    <3> QED
      BY <1>1, <3>1, <3>2
  <2>2. new[n] = p
    BY <1>1, <1>2
  <2>3. ASSUME NEW j \in 1 .. Len(old) + 1
        PROVE  new[j] = p \/ \E i \in 1 .. Len(old) : new[j] = old[i]
    <3>1. CASE j < n
      BY <1>1, <1>2, <3>1
    <3>2. CASE j > n
      <4>1. j - 1 \in 1 .. Len(old) /\ new[j] = old[j - 1]
        BY <1>1, <1>2, <3>2
      <4> QED
        BY <4>1
    <3> QED
      BY <1>1, <1>2, <3>1, <3>2
  <2>4. /\ ToSet(new) = {new[i] : i \in 1 .. Len(old) + 1}
        /\ ToSet(old) = {old[i] : i \in 1 .. Len(old)}
    BY <1>2 DEF ToSet
  <2>5. n \in 1 .. Len(old) + 1
    BY <1>1
  <2> QED
    BY <2>1, <2>2, <2>3, <2>4, <2>5
<1> QED
  BY <1>2, <1>6, <1>7

\* Without the price at a position a sorted slice stays sorted.
LEMMA SortedWithout ==
  ASSUME NEW s \in Sides, NEW seq \in Seq(Prices), Sorted(s, seq), NEW k \in 1 .. Len(seq),
         NEW new, new = RemoveAt(seq, k)
  PROVE  new \in Seq(Prices) /\ Sorted(s, new) /\ ToSet(new) = ToSet(seq) \ {seq[k]}
<1>1. /\ new \in Seq(Prices) /\ Len(new) = Len(seq) - 1 /\ DOMAIN new = 1 .. Len(seq) - 1
      /\ \A i \in 1 .. Len(seq) - 1 : new[i] = IF i < k THEN seq[i] ELSE seq[i + 1]
  <2>1. /\ new \in Seq(Prices) /\ Len(new) = Len(seq) - 1
        /\ \A i \in 1 .. Len(seq) - 1 : new[i] = IF i < k THEN seq[i] ELSE seq[i + 1]
    BY RemovedAt DEF Removed
  <2> QED
    BY <2>1
<1>2. /\ \A i, j \in 1 .. Len(seq) : i < j => Better(s, seq[i], seq[j])
      /\ \A i \in 1 .. Len(seq) : seq[i] \in Prices
  BY DEF Sorted
<1>3. Sorted(s, new)
  <2> SUFFICES ASSUME NEW i \in 1 .. Len(seq) - 1, NEW j \in 1 .. Len(seq) - 1, i < j
               PROVE  Better(s, new[i], new[j])
    BY <1>1 DEF Sorted
  <2> DEFINE a == IF i < k THEN i ELSE i + 1
             b == IF j < k THEN j ELSE j + 1
  <2>1. a \in 1 .. Len(seq) /\ b \in 1 .. Len(seq) /\ a < b /\ new[i] = seq[a] /\ new[j] = seq[b]
    BY <1>1
  <2> QED
    BY <1>2, <2>1
<1>4. ToSet(new) = ToSet(seq) \ {seq[k]}
  <2>1. ASSUME NEW i \in 1 .. Len(seq), i # k PROVE \E j \in 1 .. Len(seq) - 1 : new[j] = seq[i]
    <3>1. CASE i < k
      BY <1>1, <3>1
    <3>2. CASE i > k
      <4>1. i - 1 \in 1 .. Len(seq) - 1 /\ new[i - 1] = seq[(i - 1) + 1] /\ (i - 1) + 1 = i
        BY <1>1, <3>2
      <4> QED
        BY <4>1
    <3> QED
      BY <2>1, <3>1, <3>2
  <2>2. ASSUME NEW j \in 1 .. Len(seq) - 1
        PROVE  \E i \in 1 .. Len(seq) : i # k /\ new[j] = seq[i]
    BY <1>1
  <2>3. \A i \in 1 .. Len(seq) : i # k => seq[i] # seq[k]
    BY <1>2, BetterOrders
  <2>4. /\ ToSet(new) = {new[i] : i \in 1 .. Len(seq) - 1}
        /\ ToSet(seq) = {seq[i] : i \in 1 .. Len(seq)}
    BY <1>1 DEF ToSet
  <2>5. ToSet(new) \subseteq ToSet(seq) \ {seq[k]}
    BY <2>2, <2>3, <2>4
  <2>6. ToSet(seq) \ {seq[k]} \subseteq ToSet(new)
    BY <2>1, <2>4
  <2> QED
    BY <2>5, <2>6
<1> QED
  BY <1>1, <1>3, <1>4

-----------------------------------------------------------------------------
(* The list of orders at a level.                                          *)

LEMMA ToSetFinite ==
  ASSUME NEW S, NEW s \in Seq(S)
  PROVE  IsFiniteSet(ToSet(s))
<1>1. s \in [1 .. Len(s) -> ToSet(s)] /\ ToSet(s) = {s[i] : i \in 1 .. Len(s)}
  BY DEF ToSet
<1>2. s \in Surjection(1 .. Len(s), ToSet(s))
  BY <1>1 DEF Surjection
<1> QED
  BY <1>2, FS_Interval, FS_Surjection

LEMMA TailRemoves ==
  ASSUME NEW S, NEW s \in Seq(S), s # <<>>
  PROVE  Tail(s) = RemoveAt(s, 1) /\ 1 \in 1 .. Len(s) /\ Head(s) = s[1]
<1>1. /\ Tail(s) \in Seq(S) /\ Len(Tail(s)) = Len(s) - 1 /\ Len(s) \in Nat \ {0}
      /\ \A i \in 1 .. Len(s) - 1 : Tail(s)[i] = s[i + 1]
      /\ Head(s) = s[1]
  BY HeadTailProperties, LenProperties, EmptySeq
<1>2. PICK new : new = RemoveAt(s, 1)
  OBVIOUS
<1>3. Tail(s) = new
  <2>1. 1 \in 1 .. Len(s)
    BY <1>1
  <2>2. /\ new \in Seq(S) /\ Len(new) = Len(s) - 1
        /\ \A i \in 1 .. Len(s) - 1 : new[i] = IF i < 1 THEN s[i] ELSE s[i + 1]
    BY <1>2, <2>1, RemovedAt DEF Removed
  <2>3. \A i \in 1 .. Len(s) - 1 : new[i] = Tail(s)[i]
    BY <1>1, <2>2
  <2> QED
    BY <1>1, <2>2, <2>3, SeqEqual
<1> QED
  BY <1>1, <1>2, <1>3

LEMMA QueueWith ==
  ASSUME NEW S, NEW s \in Seq(S), NEW e \in S, e \notin ToSet(s), IsInjective(s)
  PROVE  /\ Append(s, e) \in Seq(S) /\ Append(s, e) # <<>>
         /\ IsInjective(Append(s, e))
         /\ ToSet(Append(s, e)) = ToSet(s) \cup {e}
<1> DEFINE t == Append(s, e)
           n == Len(s)
<1>1. /\ n \in Nat /\ DOMAIN s = 1 .. n
      /\ t \in Seq(S) /\ DOMAIN t = 1 .. n + 1 /\ t[n + 1] = e
      /\ \A i \in 1 .. n : t[i] = s[i]
  BY AppendProperties, LenProperties
<1> HIDE DEF t, n
<1>2. /\ \A i \in 1 .. n : s[i] # e
      /\ \A i, j \in 1 .. n : s[i] = s[j] => i = j
  BY <1>1 DEF ToSet, IsInjective
<1>3. IsInjective(t)
  <2> SUFFICES ASSUME NEW i \in 1 .. n + 1, NEW j \in 1 .. n + 1, t[i] = t[j] PROVE i = j
    BY <1>1 DEF IsInjective
  <2> QED
    BY <1>1, <1>2
<1>4. ToSet(t) = {t[i] : i \in 1 .. n + 1} /\ ToSet(s) = {s[i] : i \in 1 .. n}
  BY <1>1 DEF ToSet
<1>5. ToSet(t) \subseteq ToSet(s) \cup {e}
  BY <1>1, <1>4
<1>6. ToSet(s) \cup {e} \subseteq ToSet(t)
  <2>1. \A i \in 1 .. n : i \in 1 .. n + 1
    BY <1>1
  <2>2. n + 1 \in 1 .. n + 1
    BY <1>1
  <2> QED
    BY <1>1, <1>4, <2>1, <2>2
<1>7. t # <<>>
  BY <1>1
<1> QED
  BY <1>1, <1>3, <1>5, <1>6, <1>7 DEF t

LEMMA QueueWithout ==
  ASSUME NEW S, NEW s \in Seq(S), IsInjective(s), NEW k \in 1 .. Len(s),
         NEW new, new = RemoveAt(s, k)
  PROVE  /\ new \in Seq(S)
         /\ IsInjective(new)
         /\ ToSet(new) = ToSet(s) \ {s[k]}
<1>1. /\ new \in Seq(S) /\ Len(new) = Len(s) - 1 /\ DOMAIN new = 1 .. Len(s) - 1
      /\ \A i \in 1 .. Len(s) - 1 : new[i] = IF i < k THEN s[i] ELSE s[i + 1]
  <2>1. /\ new \in Seq(S) /\ Len(new) = Len(s) - 1
        /\ \A i \in 1 .. Len(s) - 1 : new[i] = IF i < k THEN s[i] ELSE s[i + 1]
    BY RemovedAt DEF Removed
  <2> QED
    BY <2>1
<1>2. \A i, j \in 1 .. Len(s) : s[i] = s[j] => i = j
  BY DEF IsInjective
<1>3. IsInjective(new)
  <2> SUFFICES ASSUME NEW i \in 1 .. Len(s) - 1, NEW j \in 1 .. Len(s) - 1, new[i] = new[j]
               PROVE  i = j
    BY <1>1 DEF IsInjective
  <2> DEFINE a == IF i < k THEN i ELSE i + 1
             b == IF j < k THEN j ELSE j + 1
  <2>1. a \in 1 .. Len(s) /\ b \in 1 .. Len(s) /\ s[a] = s[b]
    BY <1>1
  <2>2. a = b
    BY <1>2, <2>1
  <2> QED
    BY <2>2
<1>4. ToSet(new) = ToSet(s) \ {s[k]}
  <2>1. ASSUME NEW i \in 1 .. Len(s), i # k PROVE \E j \in 1 .. Len(s) - 1 : new[j] = s[i]
    <3>1. CASE i < k
      BY <1>1, <3>1
    <3>2. CASE i > k
      <4>1. i - 1 \in 1 .. Len(s) - 1 /\ new[i - 1] = s[(i - 1) + 1] /\ (i - 1) + 1 = i
        BY <1>1, <3>2
      <4> QED
        BY <4>1
    <3> QED
      BY <2>1, <3>1, <3>2
  <2>2. ASSUME NEW j \in 1 .. Len(s) - 1
        PROVE  \E i \in 1 .. Len(s) : i # k /\ new[j] = s[i]
    BY <1>1
  <2>3. \A i \in 1 .. Len(s) : i # k => s[i] # s[k]
    BY <1>2
  <2>4. /\ ToSet(new) = {new[i] : i \in 1 .. Len(s) - 1}
        /\ ToSet(s) = {s[i] : i \in 1 .. Len(s)}
    BY <1>1 DEF ToSet
  <2>5. ToSet(new) \subseteq ToSet(s) \ {s[k]}
    BY <2>2, <2>3, <2>4
  <2>6. ToSet(s) \ {s[k]} \subseteq ToSet(new)
    BY <2>1, <2>4
  <2> QED
    BY <2>5, <2>6
<1> QED
  BY <1>1, <1>3, <1>4

LEMMA EmptyQueue ==
  ASSUME NEW S, NEW s \in Seq(S)
  PROVE  s = <<>> <=> ToSet(s) = {}
<1>1. s = <<>> <=> Len(s) = 0
  BY EmptySeq
<1> QED
  BY <1>1 DEF ToSet

-----------------------------------------------------------------------------
(* What a well-formed book says of an order that rests, and of a level.    *)

Book == BookTypeOK /\ SlicesSorted /\ IndexExact /\ QuantityExact /\ RestingOpen

LEMMA RestingAt ==
  ASSUME BookTypeOK, IndexExact, NEW o \in Resting
  PROVE  /\ o \in Objs /\ order[o].id \in OrderIds
         /\ order[o].side \in Sides /\ order[o].price \in Prices
         /\ index[order[o].id] = [side |-> order[o].side, price |-> order[o].price, obj |-> o]
         /\ index[order[o].id] # NoLoc
         /\ levels[order[o].side][order[o].price] \in Node
         /\ levels[order[o].side][order[o].price] # NoNode
         /\ o \in ToSet(levels[order[o].side][order[o].price].orders)
<1>1. PICK i \in OrderIds : index[i] # NoLoc /\ index[i].obj = o
  BY DEF Resting
<1> DEFINE loc == index[i]
<1>2. loc \in Location /\ loc.side \in Sides /\ loc.price \in Prices /\ o \in Objs
  BY <1>1 DEF BookTypeOK, Location
<1>3. /\ levels[loc.side][loc.price] # NoNode
      /\ o \in ToSet(levels[loc.side][loc.price].orders)
      /\ order[o].id = i
  BY <1>1 DEF IndexExact
<1>4. index[i] = [side |-> loc.side, price |-> loc.price, obj |-> o]
      /\ order[o].side = loc.side /\ order[o].price = loc.price
  BY <1>2, <1>3 DEF IndexExact
<1>5. levels[loc.side][loc.price] \in Node
  BY <1>2, <1>3 DEF BookTypeOK
<1> HIDE DEF loc
<1> QED
  BY <1>1, <1>2, <1>3, <1>4, <1>5 DEF loc

LEMMA Indexed ==
  ASSUME BookTypeOK, IndexExact, NEW i \in OrderIds, index[i] # NoLoc
  PROVE  index[i].obj \in Resting /\ order[index[i].obj].id = i /\ index[i] \in Location
  BY DEF Resting, IndexExact, BookTypeOK

LEMMA LevelOrder ==
  ASSUME BookTypeOK, IndexExact, NEW s \in Sides, NEW p \in Prices, levels[s][p] # NoNode,
         NEW o \in ToSet(levels[s][p].orders)
  PROVE  o \in Resting /\ order[o].side = s /\ order[o].price = p
<1>1. levels[s][p] \in Node
  BY DEF BookTypeOK
<1>2. levels[s][p].orders \in Seq(Objs)
  BY <1>1 DEF Node
<1>3. /\ order[o].id \in OrderIds
      /\ index[order[o].id] = [side |-> s, price |-> p, obj |-> o]
      /\ order[o].side = s /\ order[o].price = p
  BY DEF IndexExact
<1>4. o \in Objs
  BY <1>2 DEF ToSet
<1>5. index[order[o].id] # NoLoc
  BY <1>3, <1>4, BookAssumption DEF Location
<1> QED
  BY <1>3, <1>5 DEF Resting

LEMMA LevelAt ==
  ASSUME BookTypeOK, IndexExact, NEW s \in Sides, NEW p \in Prices, levels[s][p] # NoNode
  PROVE  /\ levels[s][p] \in Node
         /\ levels[s][p].quantity \in Nat /\ levels[s][p].orders \in Seq(Objs)
         /\ levels[s][p] = [quantity |-> levels[s][p].quantity, orders |-> levels[s][p].orders]
         /\ IsInjective(levels[s][p].orders)
         /\ IsFiniteSet(ToSet(levels[s][p].orders))
         /\ \A o \in ToSet(levels[s][p].orders) :
              o \in Resting /\ order[o].side = s /\ order[o].price = p
<1> DEFINE queue == levels[s][p].orders
<1>1. levels[s][p] \in Node
  BY DEF BookTypeOK
<1>2. queue \in Seq(Objs) /\ levels[s][p].quantity \in Nat
      /\ levels[s][p] = [quantity |-> levels[s][p].quantity, orders |-> levels[s][p].orders]
  BY <1>1 DEF Node
<1>3. IsFiniteSet(ToSet(queue))
  BY <1>2, ToSetFinite
<1>4. IsInjective(queue)
  BY DEF IndexExact
<1>5. ASSUME NEW o \in ToSet(queue) PROVE o \in Resting /\ order[o].side = s /\ order[o].price = p
  BY LevelOrder
<1> QED
  BY <1>1, <1>2, <1>3, <1>4, <1>5

\* What each object still has to trade.
Left == [o \in Objs |-> order[o].rem]

LEMMA UnitsLeftMeans ==
  ASSUME NEW queue \in Seq(Objs)
  PROVE  UnitsLeft(queue) = Units(ToSet(queue), Left)
<1>1. \A o \in ToSet(queue) : o \in Objs
  BY DEF ToSet
<1> QED
  BY <1>1 DEF UnitsLeft, Units, Left

LEMMA QuantityNext ==
  ASSUME BookTypeOK',
         \A s \in Sides, p \in Prices : levels'[s][p] # NoNode =>
           levels'[s][p].quantity = Cardinality(Units(ToSet(levels'[s][p].orders), Left'))
  PROVE  QuantityExact'
<1> SUFFICES ASSUME NEW s \in Sides, NEW p \in Prices, levels'[s][p] # NoNode
             PROVE  UNION {{o} \X (1 .. order'[o].rem) : o \in ToSet(levels'[s][p].orders)}
                      = Units(ToSet(levels'[s][p].orders), Left')
  BY DEF QuantityExact, UnitsLeft
<1>1. levels'[s][p] \in Node
  BY DEF BookTypeOK
<1>2. levels'[s][p].orders \in Seq(Objs)
  BY <1>1 DEF Node
<1>3. \A o \in ToSet(levels'[s][p].orders) : o \in Objs
  BY <1>2 DEF ToSet
<1>4. \A o \in Objs : Left'[o] = order'[o].rem
  BY DEF Left
<1> QED
  BY <1>3, <1>4 DEF Units

-----------------------------------------------------------------------------
(* A step that leaves the book alone, whatever it does to other objects.   *)

LEMMA RestingKept ==
  ASSUME index' = index
  PROVE  Resting' = Resting
  BY DEF Resting

LEMMA BookFrame ==
  ASSUME Book, UNCHANGED <<prices, levels, index>>,
         order' \in [Objs -> OrderRecord], \A o \in Resting : order'[o] = order[o]
  PROVE  Book' /\ Resting' = Resting
<1>1. Resting' = Resting
  BY RestingKept
<1>2. BookTypeOK' /\ SlicesSorted'
  BY DEF Book, BookTypeOK, SlicesSorted
<1>3. IndexExact'
  <2>1. ASSUME NEW i \in OrderIds, index[i] # NoLoc PROVE order'[index[i].obj].id = i
    BY <2>1, Indexed DEF Book
  <2>2. ASSUME NEW s \in Sides, NEW p \in Prices, levels[s][p] # NoNode,
               NEW o \in ToSet(levels[s][p].orders)
        PROVE  order'[o] = order[o]
    BY <2>2, LevelAt DEF Book
  <2> QED
    BY <2>1, <2>2 DEF Book, IndexExact
<1>4. QuantityExact'
  <2> SUFFICES ASSUME NEW s \in Sides, NEW p \in Prices, levels[s][p] # NoNode
               PROVE  levels[s][p].quantity = Cardinality(UnitsLeft(levels[s][p].orders)')
    BY DEF QuantityExact, UnitsLeft
  <2>1. UnitsLeft(levels[s][p].orders)' = UnitsLeft(levels[s][p].orders)
    <3>1. \A o \in ToSet(levels[s][p].orders) : order'[o] = order[o]
      BY LevelAt DEF Book
    <3> QED
      BY <3>1 DEF UnitsLeft
  <2> QED
    BY <2>1 DEF Book, QuantityExact
<1>5. RestingOpen'
  BY <1>1 DEF Book, RestingOpen
<1> QED
  BY <1>1, <1>2, <1>3, <1>4, <1>5 DEF Book

-----------------------------------------------------------------------------
(* AddOrder.                                                               *)

LEMMA AddOrderKeeps ==
  ASSUME Book, NEW o \in Objs, o \notin Resting,
         order[o].id \in OrderIds, index[order[o].id] = NoLoc,
         order[o].side \in Sides, order[o].price \in Prices,
         order[o].type \in {"Limit", "PostOnly"}, order[o].rem > 0,
         AddOrder(o)
  PROVE  /\ Book' /\ Resting' = Resting \cup {o}
         /\ order' = [order EXCEPT ![o].status = "Open"]
         /\ \A s \in Sides, p \in Prices :
              levels'[s][p] = levels[s][p] \/ levels'[s][p].orders # <<>>
<1> DEFINE side == order[o].side
           price == order[o].price
           id == order[o].id
           new == levels[side][price] = NoNode
           node == IF new THEN [quantity |-> 0, orders |-> <<>>] ELSE levels[side][price]
           after == [quantity |-> node.quantity + order[o].rem, orders |-> Append(node.orders, o)]
           loc == [side |-> side, price |-> price, obj |-> o]
<1>1. /\ order' = [order EXCEPT ![o].status = "Open"]
      /\ prices' = IF new THEN InsertPrice(side, price) ELSE prices
      /\ levels' = [levels EXCEPT ![side][price] = after]
      /\ index' = [index EXCEPT ![id] = loc]
  BY DEF AddOrder, Enqueue
<1>2. BookTypeOK /\ order[o] \in OrderRecord /\ order[o].rem \in Nat
  BY DEF Book, BookTypeOK, OrderRecord
<1>3. /\ order' \in [Objs -> OrderRecord]
      /\ \A m \in Objs : m # o => order'[m] = order[m]
      /\ order'[o].id = id /\ order'[o].side = side /\ order'[o].price = price
      /\ order'[o].type = order[o].type /\ order'[o].rem = order[o].rem
      /\ order'[o].status = "Open"
  BY <1>1, <1>2 DEF BookTypeOK, OrderRecord, Statuses
<1>node. /\ new => node = [quantity |-> 0, orders |-> <<>>]
         /\ ~ new => node = levels[side][price]
  OBVIOUS
<1> HIDE DEF node
<1>4. node.quantity \in Nat /\ node.orders \in Seq(Objs) /\ IsInjective(node.orders)
      /\ IsFiniteSet(ToSet(node.orders))
      /\ \A m \in ToSet(node.orders) :
           m \in Resting /\ order[m].side = side /\ order[m].price = price
  <2>1. CASE new
    <3>1. node.quantity = 0 /\ node.orders = <<>>
      BY <1>node, <2>1
    <3>2. <<>> \in Seq(Objs) /\ IsInjective(<<>>)
      BY DEF IsInjective
    <3>3. ToSet(<<>>) = {}
      BY DEF ToSet
    <3>4. IsFiniteSet({})
      BY FS_EmptySet
    <3>5. IsFiniteSet(ToSet(node.orders)) /\ ToSet(node.orders) = {}
      BY <3>1, <3>3, <3>4
    <3> QED
      BY <3>1, <3>2, <3>5
  <2>2. CASE ~ new
    <3>1. node = levels[side][price]
      BY <1>node, <2>2
    <3>2. BookTypeOK /\ IndexExact /\ side \in Sides /\ price \in Prices /\ levels[side][price] # NoNode
      BY <2>2 DEF Book
    <3> HIDE DEF side, price
    <3> QED
      BY <3>1, <3>2, LevelAt
  <2> QED
    BY <2>1, <2>2
<1>5. node.quantity = Cardinality(Units(ToSet(node.orders), Left))
  <2>1. CASE new
    <3>1. node.quantity = 0 /\ ToSet(node.orders) = {}
      BY <1>node, <2>1 DEF ToSet
    <3>2. Units({}, Left) = {}
      BY DEF Units
    <3> QED
      BY <3>1, <3>2, FS_EmptySet
  <2>2. CASE ~ new
    <3>1. node = levels[side][price]
      BY <1>node, <2>2
    <3>2. levels[side][price].quantity = Cardinality(UnitsLeft(levels[side][price].orders))
      BY <2>2 DEF Book, QuantityExact
    <3> QED
      BY <1>4, <3>1, <3>2, UnitsLeftMeans
  <2> QED
    BY <2>1, <2>2
<1>6. o \notin ToSet(node.orders)
  BY <1>4
<1>7. /\ after.orders \in Seq(Objs) /\ after.orders # <<>>
      /\ IsInjective(after.orders)
      /\ ToSet(after.orders) = ToSet(node.orders) \cup {o}
  BY <1>4, <1>6, QueueWith
<1>8. after \in Node /\ after # NoNode /\ after.quantity = node.quantity + order[o].rem
  <2>1. node.quantity + order[o].rem \in Nat /\ after.quantity = node.quantity + order[o].rem
    BY <1>2, <1>4
  <2>2. after \in Node
    BY <1>7, <2>1 DEF Node
  <2> QED
    BY <2>1, <2>2, BookAssumption
<1> HIDE DEF after
<1>9. loc \in Location /\ loc # NoLoc
  BY BookAssumption DEF Location
<1>10. /\ levels' \in [Sides -> [Prices -> Node \cup {NoNode}]]
       /\ levels'[side][price] = after
       /\ \A s \in Sides, p \in Prices : <<s, p>> # <<side, price>> => levels'[s][p] = levels[s][p]
  BY <1>1, <1>2, <1>8 DEF BookTypeOK
<1>11. /\ index' \in [OrderIds -> Location \cup {NoLoc}]
       /\ index'[id] = loc
       /\ \A i \in OrderIds : i # id => index'[i] = index[i]
  BY <1>1, <1>2, <1>9 DEF BookTypeOK
<1>12. Resting' = Resting \cup {o}
  <2>1. ASSUME NEW m \in Resting PROVE m \in Resting'
    <3>1. PICK i \in OrderIds : index[i] # NoLoc /\ index[i].obj = m
      BY DEF Resting
    <3> QED
      BY <1>11, <3>1 DEF Resting
  <2>2. o \in Resting'
    BY <1>9, <1>11 DEF Resting
  <2>3. ASSUME NEW m \in Resting' PROVE m \in Resting \cup {o}
    BY <1>11 DEF Resting
  <2> QED
    BY <2>1, <2>2, <2>3
<1>13. prices' \in [Sides -> Seq(Prices)] /\ SlicesSorted'
  <2>1. prices \in [Sides -> Seq(Prices)]
    BY <1>2 DEF BookTypeOK
  <2>2. \A s \in Sides : /\ ToSet(prices[s]) = {p \in Prices : levels[s][p] # NoNode}
                         /\ Sorted(s, prices[s])
    BY DEF Book, SlicesSorted, Sorted
  <2>3. CASE new
    <3> DEFINE k == PricePosition(side, price)
               old == prices[side]
    <3>1. price \notin ToSet(prices[side])
      BY <2>2, <2>3
    <3>2. /\ k \in 1 .. Len(prices[side]) + 1
          /\ \A i \in 1 .. Len(prices[side]) : i < k <=> Better(side, prices[side][i], price)
      BY <2>1, <2>2, Position
    <3> HIDE DEF k
    <3>with. PICK with : with = InsertAt(old, k, price)
      OBVIOUS
    <3>3. /\ with \in Seq(Prices) /\ Sorted(side, with)
          /\ ToSet(with) = ToSet(prices[side]) \cup {price}
      <4>1. /\ side \in Sides /\ old \in Seq(Prices) /\ Sorted(side, old) /\ price \in Prices
            /\ price \notin ToSet(old) /\ k \in 1 .. Len(old) + 1
            /\ \A i \in 1 .. Len(old) : i < k <=> Better(side, old[i], price)
        BY <2>1, <2>2, <3>1, <3>2
      <4>2. ToSet(old) \cup {price} = ToSet(prices[side]) \cup {price}
        OBVIOUS
      <4> HIDE DEF old
      <4>3. /\ with \in Seq(Prices) /\ Sorted(side, with)
            /\ ToSet(with) = ToSet(old) \cup {price}
        BY <3>with, <4>1, SortedWith
      <4> QED
        BY <4>2, <4>3
    <3>4. prices' = [prices EXCEPT ![side] = with]
      BY <1>1, <2>3, <3>with DEF InsertPrice, k
    <3>5. /\ prices' \in [Sides -> Seq(Prices)] /\ prices'[side] = with
          /\ \A s \in Sides : s # side => prices'[s] = prices[s]
      BY <2>1, <3>3, <3>4
    <3>6. ASSUME NEW s \in Sides
          PROVE  ToSet(prices'[s]) = {p \in Prices : levels'[s][p] # NoNode} /\ Sorted(s, prices'[s])
      <4>1. CASE s = side
        <5>1. levels'[s][price] # NoNode /\ \A p \in Prices : p # price => levels'[s][p] = levels[s][p]
          BY <1>8, <1>10, <4>1
        <5> QED
          BY <2>2, <3>3, <3>5, <4>1, <5>1
      <4>2. CASE s # side
        <5>1. \A p \in Prices : levels'[s][p] = levels[s][p]
          BY <1>10, <4>2
        <5>2. {p \in Prices : levels'[s][p] # NoNode} = {p \in Prices : levels[s][p] # NoNode}
          BY <5>1
        <5> QED
          BY <2>2, <3>5, <4>2, <5>2
      <4> QED
        BY <4>1, <4>2
    <3> QED
      BY <3>5, <3>6 DEF SlicesSorted, Sorted
  <2>4. CASE ~ new
    <3>1. prices' = prices
      BY <1>1, <2>4
    <3>2. ASSUME NEW s \in Sides
          PROVE  {p \in Prices : levels'[s][p] # NoNode} = {p \in Prices : levels[s][p] # NoNode}
      BY <1>8, <1>10, <2>4
    <3> QED
      BY <2>1, <2>2, <3>1, <3>2 DEF SlicesSorted, Sorted
  <2> QED
    BY <2>3, <2>4
<1>14. BookTypeOK'
  BY <1>3, <1>10, <1>11, <1>13 DEF BookTypeOK
<1>15. IndexExact'
  <2>1. ASSUME NEW i \in OrderIds, index'[i] # NoLoc
        PROVE  /\ levels'[index'[i].side][index'[i].price] # NoNode
               /\ index'[i].obj \in ToSet(levels'[index'[i].side][index'[i].price].orders)
               /\ order'[index'[i].obj].id = i
    <3>1. CASE i = id
      BY <1>3, <1>7, <1>8, <1>10, <1>11, <3>1
    <3>2. CASE i # id
      <4> DEFINE l == index[i]
      <4>1. index'[i] = l /\ l # NoLoc /\ l.obj \in Resting /\ order[l.obj].id = i /\ l \in Location
        BY <1>11, <2>1, <3>2, Indexed DEF Book
      <4>2. /\ l.side \in Sides /\ l.price \in Prices /\ l.obj \in Objs /\ l.obj # o
        BY <4>1 DEF Location
      <4>3. /\ levels[l.side][l.price] # NoNode
            /\ l.obj \in ToSet(levels[l.side][l.price].orders)
        BY <4>1 DEF Book, IndexExact
      <4> HIDE DEF l
      <4>4. CASE <<l.side, l.price>> = <<side, price>>
        <5>1. levels[l.side][l.price] = node
          BY <4>3, <4>4 DEF node
        <5> QED
          BY <1>3, <1>7, <1>8, <1>10, <4>1, <4>2, <4>3, <4>4, <5>1
      <4>5. CASE <<l.side, l.price>> # <<side, price>>
        BY <1>3, <1>10, <4>1, <4>2, <4>3, <4>5
      <4> QED
        BY <4>4, <4>5
    <3> QED
      BY <3>1, <3>2
  <2>2. ASSUME NEW s \in Sides, NEW p \in Prices, levels'[s][p] # NoNode
        PROVE  /\ IsInjective(levels'[s][p].orders)
               /\ \A m \in ToSet(levels'[s][p].orders) :
                    /\ order'[m].id \in OrderIds
                    /\ index'[order'[m].id] = [side |-> s, price |-> p, obj |-> m]
                    /\ order'[m].side = s /\ order'[m].price = p
    <3>1. \A m \in Resting : /\ order'[m] = order[m] /\ order[m].id \in OrderIds
                             /\ index'[order[m].id] = index[order[m].id]
                             /\ index[order[m].id]
                                  = [side |-> order[m].side, price |-> order[m].price, obj |-> m]
      BY <1>3, <1>11, RestingAt DEF Book
    <3>2. CASE <<s, p>> = <<side, price>>
      <4>1. levels'[s][p] = after
        BY <1>10, <3>2
      <4>2. \A m \in ToSet(node.orders) : m \in Resting /\ order[m].side = s /\ order[m].price = p
        BY <1>4, <3>2
      <4>3. ASSUME NEW m \in ToSet(after.orders)
            PROVE  /\ order'[m].id \in OrderIds
                   /\ index'[order'[m].id] = [side |-> s, price |-> p, obj |-> m]
                   /\ order'[m].side = s /\ order'[m].price = p
        <5>1. CASE m = o
          BY <1>3, <1>11, <3>2, <5>1
        <5>2. CASE m # o
          BY <1>7, <3>1, <4>2, <4>3, <5>2
        <5> QED
          BY <5>1, <5>2
      <4> QED
        BY <1>7, <4>1, <4>3
    <3>3. CASE <<s, p>> # <<side, price>>
      <4>1. levels'[s][p] = levels[s][p] /\ levels[s][p] # NoNode
        BY <1>10, <2>2, <3>3
      <4>2. /\ IsInjective(levels[s][p].orders)
            /\ \A m \in ToSet(levels[s][p].orders) :
                 m \in Resting /\ order[m].side = s /\ order[m].price = p
        BY <4>1, LevelAt, Zenon DEF Book
      <4> QED
        BY <3>1, <4>1, <4>2
    <3> QED
      BY <3>2, <3>3
  <2> QED
    BY <2>1, <2>2 DEF IndexExact
<1>16. QuantityExact'
  <2>1. \A m \in Objs : Left'[m] = Left[m] /\ Left[m] \in Nat
    BY <1>2, <1>3 DEF Left, BookTypeOK, OrderRecord
  <2>2. ASSUME NEW s \in Sides, NEW p \in Prices, levels'[s][p] # NoNode
        PROVE  levels'[s][p].quantity = Cardinality(Units(ToSet(levels'[s][p].orders), Left'))
    <3>1. CASE <<s, p>> = <<side, price>>
      <4>1. levels'[s][p] = after
        BY <1>10, <3>1
      <4> DEFINE S == ToSet(after.orders)
      <4>2. S \ {o} = ToSet(node.orders) /\ o \in S
        BY <1>6, <1>7
      <4>3. IsFiniteSet(S) /\ \A m \in S : m \in Objs
        BY <1>7, ToSetFinite DEF ToSet
      <4> HIDE DEF S
      <4>4. Cardinality(Units(S \ {o}, Left)) = Cardinality(Units(S, Left)) - Left[o]
        BY <2>1, <4>2, <4>3, UnitsWithout
      <4>5. Cardinality(Units(S, Left)) \in Nat
        BY <2>1, <4>3, UnitsFinite
      <4>6. Left[o] = order[o].rem
        BY DEF Left
      <4>7. node.quantity = Cardinality(Units(S, Left)) - order[o].rem
        BY <1>5, <4>2, <4>4, <4>6
      <4>8. after.quantity = Cardinality(Units(S, Left))
        BY <1>2, <1>4, <1>8, <4>5, <4>7
      <4>9. Units(S, Left') = Units(S, Left)
        BY <2>1, <4>3 DEF Units
      <4> QED
        BY <4>1, <4>8, <4>9 DEF S
    <3>2. CASE <<s, p>> # <<side, price>>
      <4>1. levels'[s][p] = levels[s][p] /\ levels[s][p] # NoNode
        BY <1>10, <2>2, <3>2
      <4>2. levels[s][p].quantity = Cardinality(UnitsLeft(levels[s][p].orders))
        BY <4>1 DEF Book, QuantityExact
      <4>o. levels[s][p].orders \in Seq(Objs)
        BY <4>1, LevelAt DEF Book
      <4>3. \A m \in ToSet(levels[s][p].orders) : Left'[m] = Left[m]
        BY <2>1, <4>o DEF ToSet
      <4>4. Units(ToSet(levels[s][p].orders), Left') = Units(ToSet(levels[s][p].orders), Left)
        BY <4>3 DEF Units
      <4> QED
        BY <4>1, <4>2, <4>o, <4>4, UnitsLeftMeans
    <3> QED
      BY <3>1, <3>2
  <2> QED
    BY <1>14, <2>2, QuantityNext
<1>17. RestingOpen'
  BY <1>2, <1>3, <1>12, RestingAt, Zenon DEF Book, RestingOpen
<1> QED
  BY <1>1, <1>7, <1>10, <1>12, <1>13, <1>14, <1>15, <1>16, <1>17 DEF Book

-----------------------------------------------------------------------------
(* An order leaves the book: it is cancelled, or filled.                   *)

Leaves(o, side, price, id) ==
  /\ side = order[o].side /\ price = order[o].price /\ id = order[o].id
  /\ index' = [index EXCEPT ![id] = NoLoc]
  /\ order' \in [Objs -> OrderRecord]
  /\ \A m \in Resting : m # o => order'[m] = order[m]
  /\ prices' \in [Sides -> Seq(Prices)]
  /\ levels' \in [Sides -> [Prices -> Node \cup {NoNode}]]
  /\ \A s \in Sides, p \in Prices : <<s, p>> # <<side, price>> => levels'[s][p] = levels[s][p]
  /\ \/ levels'[side][price] = NoNode /\ ToSet(levels[side][price].orders) = {o}
     \/ /\ levels'[side][price] # NoNode
        /\ IsInjective(levels'[side][price].orders)
        /\ ToSet(levels'[side][price].orders) = ToSet(levels[side][price].orders) \ {o}
        /\ levels'[side][price].quantity = levels[side][price].quantity - order[o].rem

LEMMA OrderLeaves ==
  ASSUME Book, NEW o \in Resting, NEW side, NEW price, NEW id, Leaves(o, side, price, id)
  PROVE  /\ BookTypeOK' /\ IndexExact' /\ QuantityExact' /\ RestingOpen'
         /\ Resting' = Resting \ {o}
<1>o. side = order[o].side /\ price = order[o].price /\ id = order[o].id
  BY DEF Leaves
<1>1. /\ o \in Objs /\ id \in OrderIds /\ side \in Sides /\ price \in Prices
      /\ index[id] = [side |-> side, price |-> price, obj |-> o]
      /\ levels[side][price] # NoNode
      /\ o \in ToSet(levels[side][price].orders)
  BY <1>o, RestingAt DEF Book
<1>2. BookTypeOK /\ IndexExact /\ QuantityExact /\ RestingOpen
  BY DEF Book
<1>3. /\ index' \in [OrderIds -> Location \cup {NoLoc}]
      /\ index'[id] = NoLoc
      /\ \A i \in OrderIds : i # id => index'[i] = index[i]
  BY <1>1, <1>2 DEF BookTypeOK, Leaves
<1>4. BookTypeOK'
  BY <1>3 DEF BookTypeOK, Leaves
<1>5. ASSUME NEW m \in Resting
      PROVE  /\ m \in Objs /\ order[m].id \in OrderIds
             /\ order[m].side \in Sides /\ order[m].price \in Prices
             /\ index[order[m].id]
                  = [side |-> order[m].side, price |-> order[m].price, obj |-> m]
             /\ index[order[m].id] # NoLoc
             /\ m # o => order[m].id # id
             /\ m # o => index'[order[m].id] = index[order[m].id]
  <2>1. /\ m \in Objs /\ order[m].id \in OrderIds
        /\ order[m].side \in Sides /\ order[m].price \in Prices
        /\ index[order[m].id] = [side |-> order[m].side, price |-> order[m].price, obj |-> m]
        /\ index[order[m].id] # NoLoc
    BY <1>2, RestingAt
  <2>2. order[m].id = id => m = o
    <3>1. index[order[m].id].obj = m /\ index[id].obj = o
      BY <1>1, <2>1
    <3> QED
      BY <3>1
  <2> QED
    BY <1>3, <2>1, <2>2
<1>6. Resting' = Resting \ {o}
  <2>1. ASSUME NEW m \in Resting, m # o PROVE m \in Resting'
    <3> DEFINE i == order[m].id
    <3>1. i \in OrderIds /\ index'[i] = index[i] /\ index[i] # NoLoc
          /\ index[i] = [side |-> order[m].side, price |-> order[m].price, obj |-> m]
      BY <1>5, <2>1
    <3>2. index'[i] # NoLoc /\ index'[i].obj = m
      BY <3>1
    <3> QED
      BY <3>1, <3>2 DEF Resting
  <2>2. ASSUME NEW m \in Resting' PROVE m \in Resting /\ m # o
    <3>1. PICK i \in OrderIds : index'[i] # NoLoc /\ index'[i].obj = m
      BY DEF Resting
    <3>2. i # id /\ index[i] # NoLoc /\ index[i].obj = m
      BY <1>3, <3>1
    <3>3. index[i].obj \in Resting /\ order[index[i].obj].id = i
      BY <1>2, <3>2, Indexed
    <3> QED
      BY <1>o, <3>2, <3>3
  <2> QED
    BY <2>1, <2>2
<1>7. ASSUME NEW s \in Sides, NEW p \in Prices, levels[s][p] # NoNode,
             <<s, p>> # <<side, price>>, NEW m \in ToSet(levels[s][p].orders)
      PROVE  m \in Resting /\ m # o /\ order[m].side = s /\ order[m].price = p
  <2>1. m \in Resting /\ order[m].side = s /\ order[m].price = p
    BY <1>2, <1>7, LevelOrder
  <2> QED
    BY <1>o, <1>7, <2>1
<1>8. ASSUME NEW m \in ToSet(levels[side][price].orders)
      PROVE  m \in Resting /\ order[m].side = side /\ order[m].price = price
  <2>1. BookTypeOK /\ IndexExact /\ side \in Sides /\ price \in Prices /\ levels[side][price] # NoNode
    BY <1>1, <1>2
  <2> QED
    BY <1>8, <2>1, LevelOrder
<1>kept. \A m \in Resting : m # o => order'[m] = order[m]
  BY DEF Leaves
<1>other. ASSUME NEW s \in Sides, NEW p \in Prices, <<s, p>> # <<side, price>>
          PROVE  levels'[s][p] = levels[s][p]
  BY <1>other, Zenon DEF Leaves
<1>level. ASSUME levels'[side][price] # NoNode
          PROVE  /\ IsInjective(levels'[side][price].orders)
                 /\ ToSet(levels'[side][price].orders) = ToSet(levels[side][price].orders) \ {o}
                 /\ levels'[side][price].quantity = levels[side][price].quantity - order[o].rem
  BY <1>level DEF Leaves
<1>gone. ASSUME levels'[side][price] = NoNode
         PROVE  ToSet(levels[side][price].orders) = {o}
  BY <1>gone DEF Leaves
<1>9. IndexExact'
  <2>1. ASSUME NEW i \in OrderIds, index'[i] # NoLoc
        PROVE  /\ levels'[index'[i].side][index'[i].price] # NoNode
               /\ index'[i].obj \in ToSet(levels'[index'[i].side][index'[i].price].orders)
               /\ order'[index'[i].obj].id = i
    <3> DEFINE l == index[i]
    <3>1. index'[i] = l /\ l # NoLoc /\ i # id
      BY <1>3, <2>1
    <3>2. l.obj \in Resting /\ order[l.obj].id = i /\ l.side \in Sides /\ l.price \in Prices
      BY <1>2, <3>1, Indexed DEF Location
    <3>3. /\ levels[l.side][l.price] # NoNode
          /\ l.obj \in ToSet(levels[l.side][l.price].orders)
      BY <1>2, <3>1 DEF IndexExact
    <3>4. l.obj # o
      BY <1>o, <3>1, <3>2
    <3> HIDE DEF l
    <3>5. order'[l.obj].id = i
      BY <1>kept, <3>2, <3>4
    <3>6. CASE <<l.side, l.price>> = <<side, price>>
      <4>1. l.side = side /\ l.price = price
        BY <3>6
      <4>2. levels'[side][price] # NoNode
        BY <1>gone, <3>3, <3>4, <4>1
      <4> QED
        BY <1>level, <3>1, <3>3, <3>4, <3>5, <4>1, <4>2
    <3>7. CASE <<l.side, l.price>> # <<side, price>>
      BY <1>other, <3>1, <3>2, <3>3, <3>5, <3>7
    <3> QED
      BY <3>6, <3>7
  <2>2. ASSUME NEW s \in Sides, NEW p \in Prices, levels'[s][p] # NoNode
        PROVE  /\ IsInjective(levels'[s][p].orders)
               /\ \A m \in ToSet(levels'[s][p].orders) :
                    /\ order'[m].id \in OrderIds
                    /\ index'[order'[m].id] = [side |-> s, price |-> p, obj |-> m]
                    /\ order'[m].side = s /\ order'[m].price = p
    <3>1. \A m \in Resting : m # o =>
            /\ order'[m] = order[m] /\ order[m].id \in OrderIds
            /\ index'[order[m].id]
                 = [side |-> order[m].side, price |-> order[m].price, obj |-> m]
      <4> SUFFICES ASSUME NEW m \in Resting, m # o
                   PROVE  /\ order'[m] = order[m] /\ order[m].id \in OrderIds
                          /\ index'[order[m].id]
                               = [side |-> order[m].side, price |-> order[m].price, obj |-> m]
        OBVIOUS
      <4>1. order'[m] = order[m]
        BY <1>kept
      <4>2. index'[order[m].id] = index[order[m].id] /\ order[m].id \in OrderIds
        BY <1>5
      <4>3. index[order[m].id]
              = [side |-> order[m].side, price |-> order[m].price, obj |-> m]
        BY <1>5
      <4> QED
        BY <4>1, <4>2, <4>3
    <3>2. CASE <<s, p>> = <<side, price>>
      <4>1. s = side /\ p = price
        BY <3>2
      <4>2. /\ IsInjective(levels'[side][price].orders)
            /\ \A m \in ToSet(levels'[side][price].orders) :
                 m \in Resting /\ order[m].side = side /\ order[m].price = price /\ m # o
        BY <1>8, <1>level, <2>2, <4>1
      <4> QED
        BY <3>1, <4>1, <4>2
    <3>3. CASE <<s, p>> # <<side, price>>
      <4>1. levels'[s][p] = levels[s][p] /\ levels[s][p] # NoNode
        BY <1>other, <2>2, <3>3
      <4>2. \A m \in ToSet(levels[s][p].orders) :
              m \in Resting /\ order[m].side = s /\ order[m].price = p /\ m # o
        BY <1>7, <3>3, <4>1
      <4>3. IsInjective(levels[s][p].orders)
        BY <1>2, <4>1 DEF IndexExact
      <4> QED
        BY <3>1, <4>1, <4>2, <4>3
    <3> QED
      BY <3>2, <3>3
  <2> QED
    BY <2>1, <2>2 DEF IndexExact
<1>10. QuantityExact'
  <2>1. \A m \in Resting : (m # o => Left'[m] = Left[m]) /\ Left[m] \in Nat
    <3>1. \A m \in Resting : m \in Objs /\ order[m] \in OrderRecord
      BY <1>2, <1>5 DEF BookTypeOK
    <3> QED
      BY <1>kept, <3>1 DEF Left, OrderRecord
  <2>2. ASSUME NEW s \in Sides, NEW p \in Prices, levels'[s][p] # NoNode
        PROVE  levels'[s][p].quantity = Cardinality(Units(ToSet(levels'[s][p].orders), Left'))
    <3>1. CASE <<s, p>> = <<side, price>>
      <4>1. s = side /\ p = price
        BY <3>1
      <4> DEFINE S == ToSet(levels[side][price].orders)
      <4>2. /\ ToSet(levels'[side][price].orders) = S \ {o}
            /\ levels'[side][price].quantity = levels[side][price].quantity - order[o].rem
            /\ o \in S
        BY <1>1, <1>level, <2>2, <4>1
      <4>3. IsFiniteSet(S) /\ levels[side][price].orders \in Seq(Objs)
        BY <1>1, <1>2, LevelAt
      <4>4. levels[side][price].quantity = Cardinality(UnitsLeft(levels[side][price].orders))
        BY <1>1, <1>2 DEF QuantityExact
      <4>5. levels[side][price].quantity = Cardinality(Units(S, Left))
        BY <4>3, <4>4, UnitsLeftMeans
      <4>6. \A m \in S : m \in Resting
        BY <1>8
      <4>n. \A m \in S : Left[m] \in Nat
        BY <2>1, <4>6
      <4> HIDE DEF S
      <4>7. Cardinality(Units(S \ {o}, Left)) = Cardinality(Units(S, Left)) - Left[o]
        BY <4>2, <4>3, <4>n, UnitsWithout
      <4>8. Left[o] = order[o].rem
        BY <1>1 DEF Left
      <4>9. Units(S \ {o}, Left') = Units(S \ {o}, Left)
        BY <2>1, <4>6 DEF Units
      <4> QED
        BY <4>1, <4>2, <4>5, <4>7, <4>8, <4>9
    <3>2. CASE <<s, p>> # <<side, price>>
      <4>1. levels'[s][p] = levels[s][p] /\ levels[s][p] # NoNode
        BY <1>other, <2>2, <3>2
      <4>2. levels[s][p].quantity = Cardinality(UnitsLeft(levels[s][p].orders))
        BY <1>2, <4>1 DEF QuantityExact
      <4>3. levels[s][p].orders \in Seq(Objs)
        BY <1>2, <4>1, LevelAt
      <4>4. \A m \in ToSet(levels[s][p].orders) : Left'[m] = Left[m]
        BY <1>7, <2>1, <3>2, <4>1
      <4>5. Units(ToSet(levels[s][p].orders), Left') = Units(ToSet(levels[s][p].orders), Left)
        BY <4>4 DEF Units
      <4> QED
        BY <4>1, <4>2, <4>3, <4>5, UnitsLeftMeans
    <3> QED
      BY <3>1, <3>2
  <2> QED
    BY <1>4, <2>2, QuantityNext
<1>11. RestingOpen'
  BY <1>2, <1>6, <1>kept DEF RestingOpen
<1> QED
  BY <1>4, <1>6, <1>9, <1>10, <1>11

(* An order in the book is filled in part.                                 *)

Shrinks(o, side, price, q) ==
  /\ side = order[o].side /\ price = order[o].price
  /\ index' = index /\ prices' = prices
  /\ order' \in [Objs -> OrderRecord]
  /\ \A m \in Resting : m # o => order'[m] = order[m]
  /\ order'[o] = [order[o] EXCEPT !.rem = order[o].rem - q, !.status = "PartiallyFilled"]
  /\ q \in Nat /\ q < order[o].rem
  /\ levels' = [levels EXCEPT ![side][price] =
       [quantity |-> levels[side][price].quantity - q, orders |-> levels[side][price].orders]]

LEMMA OrderShrinks ==
  ASSUME Book, NEW o \in Resting, NEW side, NEW price, NEW q, Shrinks(o, side, price, q)
  PROVE  Book' /\ Resting' = Resting
<1>o. side = order[o].side /\ price = order[o].price /\ q \in Nat /\ q < order[o].rem
  BY DEF Shrinks
<1>1. /\ o \in Objs /\ order[o].id \in OrderIds /\ side \in Sides /\ price \in Prices
      /\ index[order[o].id] = [side |-> side, price |-> price, obj |-> o]
      /\ levels[side][price] # NoNode
      /\ o \in ToSet(levels[side][price].orders)
  BY <1>o, RestingAt DEF Book
<1>2. BookTypeOK /\ SlicesSorted /\ IndexExact /\ QuantityExact /\ RestingOpen
  BY DEF Book
<1>3. /\ \A m \in Resting : m # o => order'[m] = order[m]
      /\ order' \in [Objs -> OrderRecord]
      /\ index' = index /\ prices' = prices
  BY DEF Shrinks
<1>4. Resting' = Resting
  BY <1>3, RestingKept
<1> DEFINE node == levels[side][price]
           after == [quantity |-> node.quantity - q, orders |-> node.orders]
<1>5. /\ node.quantity \in Nat /\ node.orders \in Seq(Objs) /\ IsFiniteSet(ToSet(node.orders))
  BY <1>1, <1>2, LevelAt
<1>6. order[o] \in OrderRecord /\ order[o].rem \in Nat
  BY <1>1, <1>2 DEF BookTypeOK, OrderRecord
<1>7. /\ order'[o].id = order[o].id /\ order'[o].side = side /\ order'[o].price = price
      /\ order'[o].type = order[o].type
      /\ order'[o].rem = order[o].rem - q /\ order'[o].status = "PartiallyFilled"
  BY <1>o, <1>6 DEF Shrinks, OrderRecord
<1>8. /\ \A m \in Resting : m \in Objs /\ Left[m] \in Nat /\ (m # o => Left'[m] = Left[m])
      /\ Left[o] = order[o].rem /\ Left'[o] = Left[o] - q
  <2>1. \A m \in Resting : m \in Objs /\ order[m] \in OrderRecord
    <3>1. ASSUME NEW m \in Resting PROVE m \in Objs
      BY <1>2, RestingAt
    <3> QED
      BY <1>2, <3>1 DEF BookTypeOK
  <2> QED
    BY <1>1, <1>3, <1>7, <2>1 DEF Left, OrderRecord
<1>9. ASSUME NEW m \in ToSet(node.orders) PROVE m \in Resting
  BY <1>1, <1>2, LevelOrder
<1>10. node.quantity = Cardinality(Units(ToSet(node.orders), Left))
  <2>1. node.quantity = Cardinality(UnitsLeft(node.orders))
    BY <1>1, <1>2 DEF QuantityExact
  <2> QED
    BY <1>5, <2>1, UnitsLeftMeans
<1>11. Cardinality(Units(ToSet(node.orders), Left')) = node.quantity - q
  <2> DEFINE S == ToSet(node.orders)
  <2>1. /\ IsFiniteSet(S) /\ o \in S /\ \A m \in S : Left[m] \in Nat
        /\ q \in 0 .. Left[o] /\ Left'[o] = Left[o] - q
        /\ \A m \in S : m # o => Left'[m] = Left[m]
    BY <1>o, <1>1, <1>5, <1>6, <1>8, <1>9
  <2> HIDE DEF S
  <2>2. Cardinality(Units(S, Left')) = Cardinality(Units(S, Left)) - q
    BY <2>1, UnitsTraded
  <2> QED
    BY <1>10, <2>2 DEF S
<1>12. node.quantity - q \in Nat
  <2>1. Cardinality(Units(ToSet(node.orders), Left')) \in Nat
    <3>1. \A m \in ToSet(node.orders) : Left'[m] \in Nat
      BY <1>o, <1>6, <1>8, <1>9
    <3> QED
      BY <1>5, <3>1, UnitsFinite
  <2> QED
    BY <1>11, <2>1
<1>13. after \in Node /\ after # NoNode
  BY <1>5, <1>12, BookAssumption DEF Node
<1>14. levels' = [levels EXCEPT ![side][price] = after]
  BY DEF Shrinks
<1> HIDE DEF after
<1>15. /\ levels' \in [Sides -> [Prices -> Node \cup {NoNode}]]
       /\ levels'[side][price] = after
       /\ \A s \in Sides, p \in Prices : <<s, p>> # <<side, price>> => levels'[s][p] = levels[s][p]
  BY <1>1, <1>2, <1>13, <1>14 DEF BookTypeOK
<1>16. \A s \in Sides, p \in Prices :
         /\ levels'[s][p] # NoNode <=> levels[s][p] # NoNode
         /\ levels'[s][p].orders = levels[s][p].orders
  <2> SUFFICES ASSUME NEW s \in Sides, NEW p \in Prices
               PROVE  /\ levels'[s][p] # NoNode <=> levels[s][p] # NoNode
                      /\ levels'[s][p].orders = levels[s][p].orders
    OBVIOUS
  <2>1. CASE <<s, p>> = <<side, price>>
    <3>1. s = side /\ p = price /\ after.orders = node.orders
      BY <2>1 DEF after
    <3> QED
      BY <1>1, <1>13, <1>15, <3>1
  <2>2. CASE <<s, p>> # <<side, price>>
    BY <1>15, <2>2
  <2> QED
    BY <2>1, <2>2
<1>17. BookTypeOK'
  BY <1>2, <1>3, <1>15 DEF BookTypeOK
<1>18. SlicesSorted'
  <2>1. ASSUME NEW s \in Sides
        PROVE  {p \in Prices : levels'[s][p] # NoNode} = {p \in Prices : levels[s][p] # NoNode}
    BY <1>16
  <2> QED
    BY <1>2, <1>3, <2>1 DEF SlicesSorted
<1>19. \A m \in Resting : /\ order'[m].id = order[m].id /\ order'[m].side = order[m].side
                          /\ order'[m].price = order[m].price
  BY <1>o, <1>3, <1>7
<1>20. IndexExact'
  <2>1. ASSUME NEW i \in OrderIds, index[i] # NoLoc
        PROVE  /\ levels'[index[i].side][index[i].price] # NoNode
               /\ index[i].obj \in ToSet(levels'[index[i].side][index[i].price].orders)
               /\ order'[index[i].obj].id = i
    <3>1. /\ index[i].obj \in Resting /\ order[index[i].obj].id = i
          /\ index[i].side \in Sides /\ index[i].price \in Prices
      BY <1>2, <2>1, Indexed DEF Location
    <3>2. /\ levels[index[i].side][index[i].price] # NoNode
          /\ index[i].obj \in ToSet(levels[index[i].side][index[i].price].orders)
      BY <1>2, <2>1 DEF IndexExact
    <3>3. order'[index[i].obj].id = i
      BY <1>19, <3>1
    <3> QED
      BY <1>16, <3>1, <3>2, <3>3
  <2>2. ASSUME NEW s \in Sides, NEW p \in Prices, levels'[s][p] # NoNode
        PROVE  /\ IsInjective(levels'[s][p].orders)
               /\ \A m \in ToSet(levels'[s][p].orders) :
                    /\ order'[m].id \in OrderIds
                    /\ index[order'[m].id] = [side |-> s, price |-> p, obj |-> m]
                    /\ order'[m].side = s /\ order'[m].price = p
    <3>1. levels[s][p] # NoNode /\ levels'[s][p].orders = levels[s][p].orders
      BY <1>16, <2>2
    <3>2. ASSUME NEW m \in ToSet(levels[s][p].orders) PROVE m \in Resting
      BY <1>2, <3>1, LevelOrder
    <3>3. /\ IsInjective(levels[s][p].orders)
          /\ \A m \in ToSet(levels[s][p].orders) :
               /\ order[m].id \in OrderIds
               /\ index[order[m].id] = [side |-> s, price |-> p, obj |-> m]
               /\ order[m].side = s /\ order[m].price = p
      BY <1>2, <3>1 DEF IndexExact
    <3> QED
      BY <1>19, <3>1, <3>2, <3>3
  <2> QED
    BY <1>3, <2>1, <2>2 DEF IndexExact
<1>21. QuantityExact'
  <2>1. ASSUME NEW s \in Sides, NEW p \in Prices, levels'[s][p] # NoNode
        PROVE  levels'[s][p].quantity = Cardinality(Units(ToSet(levels'[s][p].orders), Left'))
    <3>1. levels[s][p] # NoNode /\ levels'[s][p].orders = levels[s][p].orders
      BY <1>16, <2>1
    <3>2. CASE <<s, p>> = <<side, price>>
      <4>1. s = side /\ p = price /\ after.quantity = node.quantity - q
        BY <3>2 DEF after
      <4> QED
        BY <1>11, <1>15, <3>1, <4>1
    <3>3. CASE <<s, p>> # <<side, price>>
      <4>1. levels'[s][p] = levels[s][p]
        BY <1>15, <3>3
      <4>2. levels[s][p].quantity = Cardinality(UnitsLeft(levels[s][p].orders))
        BY <1>2, <3>1 DEF QuantityExact
      <4>3. levels[s][p].orders \in Seq(Objs)
        BY <1>2, <3>1, LevelAt
      <4>4. ASSUME NEW m \in ToSet(levels[s][p].orders) PROVE Left'[m] = Left[m]
        <5>1. m \in Resting /\ order[m].side = s /\ order[m].price = p
          BY <1>2, <3>1, LevelOrder
        <5> QED
          BY <1>o, <1>8, <3>3, <5>1
      <4>5. Units(ToSet(levels[s][p].orders), Left') = Units(ToSet(levels[s][p].orders), Left)
        BY <4>4 DEF Units
      <4> QED
        BY <4>1, <4>2, <4>3, <4>5, UnitsLeftMeans
    <3> QED
      BY <3>2, <3>3
  <2> QED
    BY <1>17, <2>1, QuantityNext
<1>22. RestingOpen'
  <2> SUFFICES ASSUME NEW m \in Resting
               PROVE  /\ order'[m].rem > 0 /\ order'[m].status \in {"Open", "PartiallyFilled"}
                      /\ order'[m].type \in {"Limit", "PostOnly"}
    BY <1>4 DEF RestingOpen
  <2> QED
    BY <1>o, <1>2, <1>3, <1>6, <1>7 DEF RestingOpen
<1> QED
  BY <1>4, <1>17, <1>18, <1>20, <1>21, <1>22 DEF Book

-----------------------------------------------------------------------------
(* CancelOrder.                                                            *)

(* removeBidPrice and removeAskPrice find the price they are to remove.    *)
LEMMA RemovePriceRemoves ==
  ASSUME NEW s \in Sides, prices \in [Sides -> Seq(Prices)], Sorted(s, prices[s]),
         NEW p \in Prices, p \in ToSet(prices[s])
  PROVE  /\ RemovePrice(s, p) \in [Sides -> Seq(Prices)]
         /\ Sorted(s, RemovePrice(s, p)[s])
         /\ ToSet(RemovePrice(s, p)[s]) = ToSet(prices[s]) \ {p}
         /\ \A z \in Sides : z # s => RemovePrice(s, p)[z] = prices[z]
<1> DEFINE seq == prices[s]
           n == PricePosition(s, p)
<1>1. seq \in Seq(Prices) /\ DOMAIN seq = 1 .. Len(seq) /\ Len(seq) \in Nat
  BY LenProperties
<1>2. PICK k \in 1 .. Len(seq) : seq[k] = p
  BY <1>1 DEF ToSet
<1>3. n \in 1 .. Len(seq) + 1 /\ \A i \in 1 .. Len(seq) : i < n <=> Better(s, seq[i], p)
  BY <1>1, Position
<1> HIDE DEF n
<1>4. n = k
  <2>1. ~ (k < n)
    BY <1>2, <1>3, BetterOrders
  <2>2. ASSUME n < k PROVE FALSE
    <3>1. n \in 1 .. Len(seq) /\ ~ Better(s, seq[n], p)
      BY <1>1, <1>2, <1>3, <2>2
    <3>2. Better(s, seq[n], seq[k])
      BY <1>1, <2>2, <3>1 DEF Sorted
    <3> QED
      BY <1>2, <3>1, <3>2
  <2> QED
    BY <1>1, <1>3, <2>1, <2>2
<1>5. RemovePrice(s, p) = [prices EXCEPT ![s] = RemoveAt(seq, k)]
  BY <1>1, <1>2, <1>4 DEF RemovePrice, n
<1>6. /\ RemoveAt(seq, k) \in Seq(Prices) /\ Sorted(s, RemoveAt(seq, k))
      /\ ToSet(RemoveAt(seq, k)) = ToSet(seq) \ {p}
  <2>1. seq \in Seq(Prices) /\ Sorted(s, seq) /\ k \in 1 .. Len(seq)
    BY <1>1
  <2> HIDE DEF seq
  <2>2. PICK new : new = RemoveAt(seq, k)
    OBVIOUS
  <2>3. new \in Seq(Prices) /\ Sorted(s, new) /\ ToSet(new) = ToSet(seq) \ {seq[k]}
    BY <2>1, <2>2, SortedWithout
  <2> QED
    BY <1>2, <2>2, <2>3
<1> QED
  BY <1>5, <1>6

(* The slice after the deletion of a level.                                *)
LEMMA LevelDropped ==
  ASSUME SlicesSorted, NEW side \in Sides, NEW price \in Prices,
         \A s \in Sides, p \in Prices : <<s, p>> # <<side, price>> => levels'[s][p] = levels[s][p],
         levels'[side][price] = NoNode,
         Sorted(side, prices'[side]), ToSet(prices'[side]) = ToSet(prices[side]) \ {price},
         \A s \in Sides : s # side => prices'[s] = prices[s]
  PROVE  SlicesSorted'
<1> SUFFICES ASSUME NEW s \in Sides
             PROVE  ToSet(prices'[s]) = {p \in Prices : levels'[s][p] # NoNode} /\ Sorted(s, prices'[s])
  BY DEF SlicesSorted, Sorted
<1>1. ToSet(prices[s]) = {p \in Prices : levels[s][p] # NoNode} /\ Sorted(s, prices[s])
  BY DEF SlicesSorted, Sorted
<1>2. CASE s = side
  <2>1. \A p \in Prices : p # price => levels'[s][p] = levels[s][p]
    BY <1>2
  <2> QED
    BY <1>1, <1>2, <2>1
<1>3. CASE s # side
  <2>1. \A p \in Prices : levels'[s][p] = levels[s][p]
    BY <1>3
  <2>2. {p \in Prices : levels'[s][p] # NoNode} = {p \in Prices : levels[s][p] # NoNode}
    BY <2>1
  <2> QED
    BY <1>1, <1>3, <2>2
<1> QED
  BY <1>2, <1>3

(* The slice after a change to a level that stays.                         *)
LEMMA LevelStays ==
  ASSUME SlicesSorted, prices' = prices, NEW side \in Sides, NEW price \in Prices,
         \A s \in Sides, p \in Prices : <<s, p>> # <<side, price>> => levels'[s][p] = levels[s][p],
         levels'[side][price] # NoNode, levels[side][price] # NoNode
  PROVE  SlicesSorted'
<1>1. ASSUME NEW s \in Sides, NEW p \in Prices PROVE levels'[s][p] # NoNode <=> levels[s][p] # NoNode
  <2>1. CASE s = side /\ p = price
    BY <2>1
  <2>2. CASE ~ (s = side /\ p = price)
    BY <2>2
  <2> QED
    BY <2>1, <2>2
<1>2. ASSUME NEW s \in Sides
      PROVE  {p \in Prices : levels'[s][p] # NoNode} = {p \in Prices : levels[s][p] # NoNode}
  BY <1>1
<1> QED
  BY <1>2 DEF SlicesSorted

LEMMA CancelOrderKeeps ==
  ASSUME Book, NEW id \in OrderIds, index[id] # NoLoc, CancelOrder(id),
         NEW o, o = index[id].obj
  PROVE  /\ Book' /\ o \in Resting
         /\ Resting' = Resting \ {o}
         /\ order' = [order EXCEPT ![o].status = "Cancelled"]
         /\ \A s \in Sides, p \in Prices : levels'[s][p] # NoNode =>
              levels'[s][p] = levels[s][p] \/ levels'[s][p].orders # <<>>
<1> DEFINE side == order[o].side
           price == order[o].price
           node == levels[side][price]
           k == Element(node.orders, o)
           left == RemoveAt(node.orders, k)
           less == [quantity |-> node.quantity - order[o].rem, orders |-> left]
<1>1. BookTypeOK /\ SlicesSorted /\ IndexExact /\ QuantityExact
  BY DEF Book
<1>2. o \in Resting /\ order[o].id = id
  BY <1>1, Indexed
<1>3. /\ o \in Objs /\ side \in Sides /\ price \in Prices
      /\ index[id] = [side |-> side, price |-> price, obj |-> o]
      /\ node # NoNode
      /\ o \in ToSet(node.orders)
  BY <1>1, <1>2, RestingAt
<1>4. /\ node.quantity \in Nat /\ node.orders \in Seq(Objs) /\ IsInjective(node.orders)
  BY <1>1, <1>3, LevelAt, Zenon
<1>5. k \in 1 .. Len(node.orders) /\ node.orders[k] = o
  <2>1. \E i \in DOMAIN node.orders : node.orders[i] = o
    BY <1>3, Zenon DEF ToSet
  <2>2. k \in DOMAIN node.orders /\ node.orders[k] = o
    BY <2>1, Zenon DEF Element
  <2>3. DOMAIN node.orders = 1 .. Len(node.orders)
    BY <1>4, LenProperties, Zenon
  <2> QED
    BY <2>2, <2>3, Zenon
<1>loc. index[id].side = side /\ index[id].price = price
  BY <1>3
<1>6. /\ order' = [order EXCEPT ![o].status = "Cancelled"]
      /\ index' = [index EXCEPT ![id] = NoLoc]
      /\ left = <<>> => /\ levels' = [levels EXCEPT ![side][price] = NoNode]
                        /\ prices' = RemovePrice(side, price)
      /\ left # <<>> => levels' = [levels EXCEPT ![side][price] = less] /\ prices' = prices
  BY <1>loc, Zenon DEF CancelOrder
<1> HIDE DEF k
<1>7. /\ left \in Seq(Objs) /\ IsInjective(left)
      /\ ToSet(left) = ToSet(node.orders) \ {o}
  <2> DEFINE queue == node.orders
  <2>1. queue \in Seq(Objs) /\ IsInjective(queue) /\ k \in 1 .. Len(queue) /\ queue[k] = o
    BY <1>4, <1>5
  <2> HIDE DEF queue, k
  <2>2. PICK new : new = RemoveAt(queue, k)
    OBVIOUS
  <2>3. new \in Seq(Objs) /\ IsInjective(new) /\ ToSet(new) = ToSet(queue) \ {queue[k]}
    BY <2>1, <2>2, QueueWithout
  <2> QED
    BY <2>1, <2>2, <2>3, Zenon DEF queue
<1> HIDE DEF left
<1>8. order[o] \in OrderRecord /\ order[o].rem \in Nat
  BY <1>1, <1>3, SMTT(30) DEF BookTypeOK, OrderRecord
<1>9. order' \in [Objs -> OrderRecord] /\ \A m \in Objs : m # o => order'[m] = order[m]
  BY <1>1, <1>3, <1>6, <1>8 DEF BookTypeOK, OrderRecord, Statuses
<1>kept. \A m \in Resting : m # o => order'[m] = order[m]
  BY <1>1, <1>9, RestingAt
<1>10. node.quantity - order[o].rem \in Nat
  <2> DEFINE S == ToSet(node.orders)
  <2>1. node.quantity = Cardinality(UnitsLeft(node.orders))
    BY <1>1, <1>3 DEF QuantityExact
  <2>2. node.quantity = Cardinality(Units(S, Left))
    BY <1>4, <2>1, UnitsLeftMeans, Zenon
  <2>3. IsFiniteSet(S) /\ o \in S
    BY <1>3, <1>4, ToSetFinite, Zenon
  <2>4. \A m \in S : Left[m] \in Nat
    <3>1. ASSUME NEW m \in S PROVE m \in Objs
      BY <1>1, <1>3, LevelOrder, RestingAt, Zenon
    <3> QED
      BY <1>1, <3>1 DEF Left, BookTypeOK, OrderRecord
  <2> HIDE DEF S
  <2>5. Cardinality(Units(S \ {o}, Left)) = Cardinality(Units(S, Left)) - Left[o]
    BY <2>3, <2>4, UnitsWithout
  <2>6. Cardinality(Units(S \ {o}, Left)) \in Nat
    <3>1. IsFiniteSet(S \ {o})
      BY <2>3, FS_Difference
    <3>2. \A m \in S \ {o} : Left[m] \in Nat
      BY <2>4
    <3> QED
      BY <3>1, <3>2, UnitsFinite
  <2>7. Left[o] = order[o].rem
    BY <1>3 DEF Left
  <2> QED
    BY <2>2, <2>5, <2>6, <2>7
<1>11. prices \in [Sides -> Seq(Prices)] /\ levels \in [Sides -> [Prices -> Node \cup {NoNode}]]
  BY <1>1 DEF BookTypeOK
<1>12. CASE left = <<>>
  <2>1. levels' = [levels EXCEPT ![side][price] = NoNode] /\ prices' = RemovePrice(side, price)
    BY <1>6, <1>12
  <2>2. /\ levels' \in [Sides -> [Prices -> Node \cup {NoNode}]]
        /\ levels'[side][price] = NoNode
        /\ \A s \in Sides, p \in Prices : <<s, p>> # <<side, price>> => levels'[s][p] = levels[s][p]
    BY <1>3, <1>11, <2>1, Zenon
  <2>3. Sorted(side, prices[side]) /\ price \in ToSet(prices[side])
    BY <1>1, <1>3, Zenon DEF SlicesSorted, Sorted
  <2>4. /\ prices' \in [Sides -> Seq(Prices)]
        /\ Sorted(side, prices'[side]) /\ ToSet(prices'[side]) = ToSet(prices[side]) \ {price}
        /\ \A s \in Sides : s # side => prices'[s] = prices[s]
    BY <1>3, <1>11, <2>1, <2>3, RemovePriceRemoves, Zenon
  <2>5. ToSet(node.orders) = {o}
    <3>1. ToSet(left) = {}
      BY <1>12 DEF ToSet
    <3> QED
      BY <1>3, <1>7, <3>1, Zenon
  <2>6. SlicesSorted'
    BY <1>1, <1>3, <2>2, <2>4, LevelDropped, Zenon
  <2>7. Leaves(o, side, price, id)
    BY <1>2, <1>6, <1>9, <1>kept, <2>2, <2>4, <2>5, Zenon DEF Leaves
  <2>8. BookTypeOK' /\ IndexExact' /\ QuantityExact' /\ RestingOpen' /\ Resting' = Resting \ {o}
    BY <1>2, <2>7, OrderLeaves
  <2> QED
    BY <1>2, <1>6, <2>2, <2>6, <2>8, Zenon DEF Book
<1>13. CASE left # <<>>
  <2>1. levels' = [levels EXCEPT ![side][price] = less] /\ prices' = prices
    BY <1>6, <1>13, Zenon
  <2>2. less \in Node /\ less # NoNode /\ less.orders = left
        /\ less.quantity = node.quantity - order[o].rem
    <3>1. less \in Node
      BY <1>7, <1>10, Zenon DEF Node
    <3> QED
      BY <3>1, BookAssumption
  <2> HIDE DEF less
  <2>3. /\ levels' \in [Sides -> [Prices -> Node \cup {NoNode}]]
        /\ levels'[side][price] = less
        /\ \A s \in Sides, p \in Prices : <<s, p>> # <<side, price>> => levels'[s][p] = levels[s][p]
    BY <1>3, <1>11, <2>1, <2>2, Zenon
  <2>4. SlicesSorted'
    <3>1. levels'[side][price] # NoNode /\ levels[side][price] # NoNode
      BY <1>3, <2>2, <2>3
    <3>2. SlicesSorted /\ side \in Sides /\ price \in Prices /\ prices' = prices
      BY <1>1, <1>3, <2>1
    <3> HIDE DEF side, price, less
    <3> QED
      BY <2>3, <3>1, <3>2, LevelStays
  <2>5. Leaves(o, side, price, id)
    BY <1>2, <1>6, <1>7, <1>9, <1>11, <1>kept, <2>1, <2>2, <2>3, Zenon DEF Leaves
  <2>6. BookTypeOK' /\ IndexExact' /\ QuantityExact' /\ RestingOpen' /\ Resting' = Resting \ {o}
    BY <1>2, <2>5, OrderLeaves
  <2>7. ASSUME NEW s \in Sides, NEW p \in Prices
        PROVE  levels'[s][p] = levels[s][p] \/ levels'[s][p].orders # <<>>
    BY <1>13, <2>2, <2>3
  <2> QED
    BY <1>2, <1>6, <2>4, <2>6, <2>7 DEF Book
<1> QED
  BY <1>12, <1>13

-----------------------------------------------------------------------------
(* The matching loops: fillLevel, and what Match does after it.            *)

(* The best level of a side that has one.                                  *)
LEMMA BestLevel ==
  ASSUME Book, NEW s \in Sides, prices[s] # <<>>
  PROVE  /\ prices[s][1] \in Prices /\ prices[s][1] = Best(s) /\ prices[s][1] = Head(prices[s])
         /\ levels[s][prices[s][1]] # NoNode
         /\ prices[s] \in Seq(Prices) /\ 1 \in 1 .. Len(prices[s])
         /\ prices[s][1] \in ToSet(prices[s])
<1>1. prices[s] \in Seq(Prices)
  BY DEF Book, BookTypeOK
<1>2. 1 \in 1 .. Len(prices[s]) /\ Head(prices[s]) = prices[s][1]
  BY <1>1, TailRemoves
<1>3. DOMAIN prices[s] = 1 .. Len(prices[s])
  BY <1>1, LenProperties
<1>4. prices[s][1] \in ToSet(prices[s])
  BY <1>2, <1>3 DEF ToSet
<1>5. ToSet(prices[s]) = {p \in Prices : levels[s][p] # NoNode}
  BY DEF Book, SlicesSorted
<1> QED
  BY <1>1, <1>2, <1>4, <1>5 DEF Best

LEMMA OppositeSide ==
  ASSUME NEW s \in Sides
  PROVE  Opposite(s) \in Sides /\ Opposite(s) # s /\ Opposite(Opposite(s)) = s
  BY DEF Sides, Opposite

LEMMA FillKeeps ==
  ASSUME Book, NEW t \in Objs, t \notin Resting, order[t].side \in Sides,
         prices[Opposite(order[t].side)] # <<>>,
         NEW m \in Objs, NEW q \in Nat \ {0}, Fill(t, m, q)
  PROVE  LET opp == Opposite(order[t].side)
         IN /\ Book'
            /\ m \in Resting /\ m # t /\ order[m].side = opp /\ order[m].price = prices[opp][1]
            /\ q <= order[t].rem /\ q <= order[m].rem
            /\ q = order[m].rem \/ q = order[t].rem
            /\ order'[t] = [order[t] EXCEPT !.rem = order[t].rem - q]
            /\ order'[m] = [order[m] EXCEPT !.rem = order[m].rem - q,
                              !.status = IF q = order[m].rem THEN "Filled" ELSE "PartiallyFilled"]
            /\ \A o \in Objs : o # t /\ o # m => order'[o] = order[o]
            /\ Resting' = IF q = order[m].rem THEN Resting \ {m} ELSE Resting
            /\ \A s \in Sides, p \in Prices : levels'[s][p] # NoNode =>
                 \/ levels'[s][p] = levels[s][p]
                 \/ s = opp /\ p = prices[opp][1]
<1> DEFINE opp == Opposite(order[t].side)
           price == prices[opp][1]
           node == levels[opp][price]
           queue == node.orders
           id == order[m].id
<1>1. BookTypeOK /\ SlicesSorted /\ IndexExact /\ QuantityExact /\ RestingOpen
  BY DEF Book
<1>2. /\ opp \in Sides /\ price \in Prices /\ node # NoNode
  BY OppositeSide, BestLevel
<1>3. /\ queue # <<>> /\ m = Head(queue) /\ q = MatchQuantity(t, m)
  BY Zenon DEF Fill, FillsLevel, BestNode
<1>4. node.quantity \in Nat /\ queue \in Seq(Objs) /\ IsInjective(queue)
  <2> HIDE DEF opp, price
  <2> QED
    BY <1>1, <1>2, LevelAt
<1>5. /\ 1 \in 1 .. Len(queue) /\ queue[1] = m /\ Tail(queue) = RemoveAt(queue, 1)
  <2> HIDE DEF queue
  <2> QED
    BY <1>3, <1>4, TailRemoves
<1>6. m \in ToSet(queue)
  <2> HIDE DEF queue
  <2>1. DOMAIN queue = 1 .. Len(queue)
    BY <1>4, LenProperties
  <2> QED
    BY <1>5, <2>1 DEF ToSet
<1>7. m \in Resting /\ order[m].side = opp /\ order[m].price = price
  BY <1>1, <1>2, <1>6, LevelOrder
<1>8. m # t /\ order[m] \in OrderRecord /\ order[t] \in OrderRecord
  BY <1>1, <1>7 DEF BookTypeOK
<1>9. order[m].rem \in Nat /\ order[t].rem \in Nat
  BY <1>8 DEF OrderRecord
<1>10. /\ q <= order[t].rem /\ q <= order[m].rem
       /\ q = order[m].rem \/ q = order[t].rem
  <2>1. q = MatchQuantity(t, m)
    BY <1>3, Zenon
  <2> HIDE DEF opp, price
  <2> QED
    BY <1>9, <2>1 DEF MatchQuantity
<1>11. order' = [order EXCEPT ![t].rem = @ - q,
                              ![m].rem = @ - q,
                              ![m].status = IF order[m].rem = q THEN "Filled" ELSE "PartiallyFilled"]
  BY DEF Fill
<1>12. /\ order'[t] = [order[t] EXCEPT !.rem = order[t].rem - q]
       /\ order'[m] = [order[m] EXCEPT !.rem = order[m].rem - q,
                         !.status = IF q = order[m].rem THEN "Filled" ELSE "PartiallyFilled"]
       /\ \A o \in Objs : o # t /\ o # m => order'[o] = order[o]
       /\ order' = [o \in Objs |-> order'[o]]
  <2>1. order \in [Objs -> OrderRecord]
    BY <1>1 DEF BookTypeOK
  <2>2. order = [o \in Objs |-> order[o]]
    BY <2>1
  <2> QED
    BY <1>8, <1>11, <2>2
<1>13. order' \in [Objs -> OrderRecord]
  <2>1. order'[t] \in OrderRecord
    BY <1>8, <1>9, <1>10, <1>12 DEF OrderRecord
  <2>2. order'[m] \in OrderRecord
    <3> DEFINE status == IF q = order[m].rem THEN "Filled" ELSE "PartiallyFilled"
    <3>1. status \in Statuses /\ order[m].rem - q \in Nat
      BY <1>9, <1>10 DEF Statuses
    <3>2. order'[m] = [order[m] EXCEPT !.rem = order[m].rem - q, !.status = status]
      BY <1>12
    <3> HIDE DEF status
    <3> QED
      BY <1>8, <3>1, <3>2 DEF OrderRecord
  <2>3. \A o \in Objs : order[o] \in OrderRecord
    BY <1>1 DEF BookTypeOK
  <2> QED
    BY <1>12, <2>1, <2>2, <2>3
<1>14. \A o \in Resting : o # m => order'[o] = order[o]
  <2>1. ASSUME NEW o \in Resting PROVE o \in Objs /\ o # t
    BY <1>1, RestingAt
  <2> QED
    BY <1>12, <2>1
<1>15. prices' = prices /\ prices' \in [Sides -> Seq(Prices)]
  BY <1>1 DEF Fill, BookTypeOK
<1>16. levels \in [Sides -> [Prices -> Node \cup {NoNode}]]
  BY <1>1 DEF BookTypeOK
<1>17. CASE q = order[m].rem
  <2> DEFINE after == [quantity |-> node.quantity - q, orders |-> Tail(queue)]
  <2>1. /\ levels' = [levels EXCEPT ![opp][price] = after]
        /\ index' = [index EXCEPT ![id] = NoLoc]
    BY <1>17, Zenon DEF Fill, BestNode
  <2>2. /\ Tail(queue) \in Seq(Objs) /\ IsInjective(Tail(queue))
        /\ ToSet(Tail(queue)) = ToSet(queue) \ {m}
    <3> HIDE DEF queue
    <3>1. PICK new : new = RemoveAt(queue, 1)
      OBVIOUS
    <3>2. new \in Seq(Objs) /\ IsInjective(new) /\ ToSet(new) = ToSet(queue) \ {queue[1]}
      BY <1>4, <1>5, <3>1, QueueWithout
    <3> QED
      BY <1>5, <3>1, <3>2
  <2>3. node.quantity - q \in Nat
    <3> DEFINE S == ToSet(queue)
    <3>1. node.quantity = Cardinality(UnitsLeft(queue))
      BY <1>1, <1>2 DEF QuantityExact
    <3>2. node.quantity = Cardinality(Units(S, Left))
      BY <1>4, <3>1, UnitsLeftMeans, Zenon
    <3>3. IsFiniteSet(S) /\ m \in S
      BY <1>4, <1>6, ToSetFinite, Zenon
    <3>4. \A o \in S : Left[o] \in Nat
      <4>1. ASSUME NEW o \in S PROVE o \in Objs
        <5>1. o \in Resting
          <6> HIDE DEF opp, price
          <6> QED
            BY <1>1, <1>2, LevelOrder
        <5> QED
          BY <1>1, <5>1, RestingAt
      <4> QED
        BY <1>1, <4>1 DEF Left, BookTypeOK, OrderRecord
    <3> HIDE DEF S
    <3>5. Cardinality(Units(S \ {m}, Left)) = Cardinality(Units(S, Left)) - Left[m]
      BY <3>3, <3>4, UnitsWithout
    <3>6. Cardinality(Units(S \ {m}, Left)) \in Nat
      <4>1. IsFiniteSet(S \ {m})
        BY <3>3, FS_Difference, Zenon
      <4>2. \A o \in S \ {m} : Left[o] \in Nat
        BY <3>4
      <4> QED
        BY <4>1, <4>2, UnitsFinite
    <3>7. Left[m] = order[m].rem
      BY DEF Left
    <3> QED
      BY <1>17, <3>2, <3>5, <3>6, <3>7
  <2>4. after \in Node /\ after # NoNode /\ after.orders = Tail(queue)
        /\ after.quantity = node.quantity - q
    <3>1. after \in Node
      BY <2>2, <2>3, Zenon DEF Node
    <3> QED
      BY <3>1, BookAssumption, Zenon
  <2> HIDE DEF after
  <2>5. /\ levels' \in [Sides -> [Prices -> Node \cup {NoNode}]]
        /\ levels'[opp][price] = after
        /\ \A s \in Sides, p \in Prices : <<s, p>> # <<opp, price>> => levels'[s][p] = levels[s][p]
    BY <1>2, <1>16, <2>1, <2>4
  <2>6. SlicesSorted'
    <3>1. levels'[opp][price] # NoNode /\ levels[opp][price] # NoNode
      BY <1>2, <2>4, <2>5
    <3>2. SlicesSorted /\ opp \in Sides /\ price \in Prices /\ prices' = prices
      BY <1>1, <1>2, <1>15
    <3> HIDE DEF opp, price
    <3> QED
      BY <2>5, <3>1, <3>2, LevelStays
  <2>7. Leaves(m, opp, price, id)
    BY <1>7, <1>13, <1>14, <1>15, <1>17, <2>1, <2>2, <2>4, <2>5, ZenonT(30) DEF Leaves
  <2>8. BookTypeOK' /\ IndexExact' /\ QuantityExact' /\ RestingOpen' /\ Resting' = Resting \ {m}
    BY <1>7, <2>7, OrderLeaves
  <2>9. Book'
    BY <2>6, <2>8 DEF Book
  <2>10. ASSUME NEW s \in Sides, NEW p \in Prices
         PROVE  levels'[s][p] = levels[s][p] \/ (s = opp /\ p = price)
    <3>1. CASE <<s, p>> # <<opp, price>>
      BY <2>5, <3>1
    <3>2. CASE <<s, p>> = <<opp, price>>
      BY <3>2
    <3> QED
      BY <3>1, <3>2
  <2> QED
    BY <1>7, <1>8, <1>10, <1>12, <1>17, <2>8, <2>9, <2>10
<1>18. CASE q # order[m].rem
  <2>1. /\ levels' = [levels EXCEPT ![opp][price] =
                        [quantity |-> node.quantity - q, orders |-> queue]]
        /\ index' = index
    BY <1>18, Zenon DEF Fill, BestNode
  <2>2. order'[m] = [order[m] EXCEPT !.rem = order[m].rem - q, !.status = "PartiallyFilled"]
    BY <1>12, <1>18
  <2>3. Shrinks(m, opp, price, q)
    BY <1>7, <1>9, <1>10, <1>13, <1>14, <1>15, <1>18, <2>1, <2>2 DEF Shrinks
  <2>4. Book' /\ Resting' = Resting
    BY <1>7, <2>3, OrderShrinks
  <2>5. ASSUME NEW s \in Sides, NEW p \in Prices
        PROVE  levels'[s][p] = levels[s][p] \/ (s = opp /\ p = price)
    <3>1. CASE s # opp
      BY <1>2, <1>16, <2>1, <3>1
    <3>2. CASE p # price
      BY <1>2, <1>16, <2>1, <3>2
    <3> QED
      BY <3>1, <3>2
  <2> QED
    BY <1>7, <1>8, <1>10, <1>12, <1>18, <2>4, <2>5
<1> QED
  BY <1>17, <1>18

(* A level has quantity 0 exactly when it has no orders.                   *)
LEMMA LevelEmpty ==
  ASSUME Book, NEW s \in Sides, NEW p \in Prices, levels[s][p] # NoNode
  PROVE  levels[s][p].quantity = 0 <=> levels[s][p].orders = <<>>
<1> DEFINE queue == levels[s][p].orders
           S == ToSet(queue)
<1>1. BookTypeOK /\ IndexExact /\ QuantityExact /\ RestingOpen
  BY DEF Book
<1>2. queue \in Seq(Objs) /\ IsFiniteSet(S)
  BY <1>1, LevelAt
<1>3. levels[s][p].quantity = Cardinality(UnitsLeft(queue))
  BY <1>1 DEF QuantityExact
<1>4. levels[s][p].quantity = Cardinality(Units(S, Left))
  BY <1>2, <1>3, UnitsLeftMeans
<1>5. ASSUME NEW o \in S PROVE Left[o] \in Nat /\ Left[o] > 0
  <2>1. o \in Resting
    BY <1>1, LevelOrder
  <2>2. o \in Objs
    BY <1>1, <2>1, RestingAt
  <2> QED
    BY <1>1, <2>1, <2>2 DEF Left, RestingOpen, BookTypeOK, OrderRecord
<1>6. queue = <<>> <=> S = {}
  <2> HIDE DEF queue
  <2> QED
    BY <1>2, EmptyQueue
<1> HIDE DEF S, queue
<1>7. S = {} <=> Units(S, Left) = {}
  <2>1. ASSUME NEW o \in S PROVE <<o, 1>> \in Units(S, Left)
    BY <1>5 DEF Units
  <2>2. S = {} => Units(S, Left) = {}
    BY DEF Units
  <2> QED
    BY <2>1, <2>2
<1>8. IsFiniteSet(Units(S, Left))
  <2>1. \A o \in S : Left[o] \in Nat
    BY <1>5
  <2> QED
    BY <1>2, <2>1, UnitsFinite
<1>9. Cardinality(Units(S, Left)) = 0 <=> Units(S, Left) = {}
  BY <1>8, FS_EmptySet
<1> QED
  BY <1>4, <1>6, <1>7, <1>9 DEF queue

LEMMA PruneKeeps ==
  ASSUME Book, NEW t, order[t].side \in Sides,
         prices[Opposite(order[t].side)] # <<>>, PruneBest(t)
  PROVE  LET opp == Opposite(order[t].side)
         IN /\ Book' /\ Resting' = Resting /\ order' = order
            /\ \A s \in Sides, p \in Prices : levels'[s][p] # NoNode =>
                 /\ levels'[s][p] = levels[s][p]
                 /\ s = opp /\ p = prices[opp][1] => levels'[s][p].orders # <<>>
<1> DEFINE opp == Opposite(order[t].side)
           price == prices[opp][1]
           node == levels[opp][price]
<1>1. BookTypeOK /\ SlicesSorted /\ IndexExact /\ QuantityExact /\ RestingOpen
  BY DEF Book
<1>2. /\ opp \in Sides /\ price \in Prices /\ node # NoNode
      /\ prices[opp] \in Seq(Prices) /\ 1 \in 1 .. Len(prices[opp]) /\ prices[opp] # <<>>
  BY OppositeSide, BestLevel
<1>3. node.quantity = 0 <=> node.orders = <<>>
  <2> HIDE DEF opp, price
  <2> QED
    BY <1>2, LevelEmpty
<1>4. order' = order /\ index' = index
  BY DEF PruneBest
<1>5. Resting' = Resting
  BY <1>4, RestingKept
<1>6. CASE node.quantity = 0
  <2>1. /\ levels' = [levels EXCEPT ![opp][price] = NoNode]
        /\ prices' = [prices EXCEPT ![opp] = Tail(prices[opp])]
    BY <1>6 DEF PruneBest, BestNode
  <2> DEFINE seq == prices[opp]
  <2>2. seq \in Seq(Prices) /\ Sorted(opp, seq) /\ seq[1] = price /\ 1 \in 1 .. Len(seq) /\ seq # <<>>
    BY <1>1, <1>2 DEF SlicesSorted, Sorted
  <2>3. Tail(seq) \in Seq(Prices) /\ Sorted(opp, Tail(seq)) /\ ToSet(Tail(seq)) = ToSet(seq) \ {price}
    <3> HIDE DEF seq, price, opp
    <3>1. Tail(seq) = RemoveAt(seq, 1)
      BY <2>2, TailRemoves
    <3>2. PICK new : new = RemoveAt(seq, 1)
      OBVIOUS
    <3>3. new \in Seq(Prices) /\ Sorted(opp, new) /\ ToSet(new) = ToSet(seq) \ {seq[1]}
      BY <1>2, <2>2, <3>2, SortedWithout
    <3> QED
      BY <2>2, <3>1, <3>2, <3>3
  <2>4. /\ levels' \in [Sides -> [Prices -> Node \cup {NoNode}]]
        /\ levels'[opp][price] = NoNode
        /\ \A s \in Sides, p \in Prices : <<s, p>> # <<opp, price>> => levels'[s][p] = levels[s][p]
    BY <1>1, <1>2, <2>1 DEF BookTypeOK
  <2>5. /\ prices' \in [Sides -> Seq(Prices)] /\ prices'[opp] = Tail(seq)
        /\ \A s \in Sides : s # opp => prices'[s] = prices[s]
    BY <1>1, <1>2, <2>1, <2>3 DEF BookTypeOK
  <2>6. SlicesSorted'
    <3>1. /\ Sorted(opp, prices'[opp]) /\ ToSet(prices'[opp]) = ToSet(prices[opp]) \ {price}
      BY <2>3, <2>5
    <3> HIDE DEF opp, price
    <3> QED
      BY <1>1, <1>2, <2>4, <2>5, <3>1, LevelDropped
  <2>7. BookTypeOK'
    BY <1>1, <1>4, <2>4, <2>5 DEF BookTypeOK
  <2>8. ASSUME NEW s \in Sides, NEW p \in Prices, levels'[s][p] # NoNode
        PROVE  levels'[s][p] = levels[s][p] /\ levels[s][p] # NoNode /\ ~ (s = opp /\ p = price)
    <3>1. CASE s = opp /\ p = price
      BY <2>4, <2>8, <3>1
    <3>2. CASE ~ (s = opp /\ p = price)
      <4>1. <<s, p>> # <<opp, price>>
        BY <3>2
      <4> QED
        BY <2>4, <2>8, <3>2, <4>1
    <3> QED
      BY <3>1, <3>2
  <2>9. IndexExact'
    <3>1. ASSUME NEW i \in OrderIds, index[i] # NoLoc
          PROVE  /\ levels'[index[i].side][index[i].price] # NoNode
                 /\ index[i].obj \in ToSet(levels'[index[i].side][index[i].price].orders)
                 /\ order[index[i].obj].id = i
      <4>1. index[i].side \in Sides /\ index[i].price \in Prices
        BY <1>1, <3>1, Indexed DEF Location
      <4>2. /\ levels[index[i].side][index[i].price] # NoNode
            /\ index[i].obj \in ToSet(levels[index[i].side][index[i].price].orders)
            /\ order[index[i].obj].id = i
        BY <1>1, <3>1 DEF IndexExact
      <4>3. ToSet(<<>>) = {}
        BY DEF ToSet
      <4>4. <<index[i].side, index[i].price>> # <<opp, price>>
        BY <1>3, <1>6, <4>2, <4>3
      <4> QED
        BY <2>4, <4>1, <4>2, <4>4
    <3>2. ASSUME NEW s \in Sides, NEW p \in Prices, levels'[s][p] # NoNode
          PROVE  /\ IsInjective(levels'[s][p].orders)
                 /\ \A m \in ToSet(levels'[s][p].orders) :
                      /\ order[m].id \in OrderIds
                      /\ index[order[m].id] = [side |-> s, price |-> p, obj |-> m]
                      /\ order[m].side = s /\ order[m].price = p
      <4>1. levels'[s][p] = levels[s][p] /\ levels[s][p] # NoNode
        BY <2>8, <3>2
      <4> QED
        BY <1>1, <4>1 DEF IndexExact
    <3> QED
      BY <1>4, <3>1, <3>2 DEF IndexExact
  <2>10. QuantityExact'
    <3>1. ASSUME NEW s \in Sides, NEW p \in Prices, levels'[s][p] # NoNode
          PROVE  levels'[s][p].quantity = Cardinality(Units(ToSet(levels'[s][p].orders), Left'))
      <4>1. levels'[s][p] = levels[s][p] /\ levels[s][p] # NoNode
        BY <2>8, <3>1
      <4>2. levels[s][p].quantity = Cardinality(UnitsLeft(levels[s][p].orders))
        BY <1>1, <4>1 DEF QuantityExact
      <4>3. levels[s][p].orders \in Seq(Objs)
        BY <1>1, <4>1, LevelAt
      <4>4. Left' = Left
        BY <1>4 DEF Left
      <4> QED
        BY <4>1, <4>2, <4>3, <4>4, UnitsLeftMeans
    <3> QED
      BY <2>7, <3>1, QuantityNext
  <2>11. RestingOpen'
    BY <1>1, <1>4, <1>5 DEF RestingOpen
  <2> QED
    BY <1>4, <1>5, <2>6, <2>7, <2>8, <2>9, <2>10, <2>11 DEF Book
<1>7. CASE node.quantity # 0
  <2>1. levels' = levels /\ prices' = prices
    BY <1>7 DEF PruneBest, BestNode
  <2>2. order' \in [Objs -> OrderRecord]
    BY <1>1, <1>4 DEF BookTypeOK
  <2>3. Book' /\ Resting' = Resting
    BY <1>4, <2>1, <2>2, BookFrame
  <2> QED
    BY <1>3, <1>4, <1>7, <2>1, <2>3
<1> QED
  BY <1>6, <1>7

-----------------------------------------------------------------------------
(* Who holds which object.                                                 *)

Command ==
  [kind : {"new"}, obj : Objs, id : {0}] \cup [kind : {"cancel"}, obj : {NoObj}, id : OrderIds]
Execution == [maker : Objs, price : Prices, qty : Nat]

MachineTypeOK ==
  /\ pool \in [Objs -> Nat]
  /\ nextId \in OrderIds \cup {0} /\ cancels \in 0 .. MaxCancels
  /\ inbound \in Seq(Command) /\ outbound \in Seq(Event)
  /\ pc \in {"idle", "new", "match", "fill", "emit", "report"}
  /\ localSeq \in Nat /\ tradeSeq \in Nat
  /\ subject \in Objs \cup {NoObj}
  /\ trades \in Seq(Execution)
  /\ verdict \in Verdicts \cup {"none"}

Parts ==
  /\ Book /\ MachineTypeOK
  /\ LevelsFilled /\ Identified /\ Exclusive /\ MakersFilled /\ Handler

LEMMA PartsMean == IInv <=> Parts
  BY DEF IInv, Parts, Book, TypeOK, MachineTypeOK, Command, Execution

LEMMA PartsMeanNext == IInv' <=> Parts'
  BY DEF IInv, Parts, Book, TypeOK, MachineTypeOK, Command, Execution

Maker(o) == \E k \in DOMAIN trades : trades[k].maker = o

CommandsDistinct ==
  \A j, k \in DOMAIN inbound : inbound[j].obj = inbound[k].obj =>
    j = k \/ inbound[j].obj = NoObj

MakersDistinct == \A j, k \in DOMAIN trades : trades[j].maker = trades[k].maker => j = k

LEMMA CommandPushed ==
  ASSUME NEW S, inbound \in Seq(S), NEW c \in S, inbound' = Append(inbound, c)
  PROVE  /\ inbound' \in Seq(S)
         /\ \A x : Queued(x)' <=> Queued(x) \/ c.obj = x
         /\ CommandsDistinct /\ (c.obj = NoObj \/ ~ Queued(c.obj)) => CommandsDistinct'
<1> DEFINE n == Len(inbound)
<1>1. /\ n \in Nat /\ DOMAIN inbound = 1 .. n
      /\ inbound' \in Seq(S) /\ DOMAIN inbound' = 1 .. n + 1 /\ inbound'[n + 1] = c
      /\ \A i \in 1 .. n : inbound'[i] = inbound[i]
  BY AppendProperties, LenProperties
<1> HIDE DEF n
<1>2. ASSUME NEW x PROVE Queued(x)' <=> Queued(x) \/ c.obj = x
  <2>1. Queued(x) => Queued(x)'
    <3>1. \A i \in 1 .. n : i \in 1 .. n + 1
      BY <1>1
    <3> QED
      BY <1>1, <3>1 DEF Queued
  <2>2. c.obj = x => Queued(x)'
    <3>1. n + 1 \in 1 .. n + 1
      BY <1>1
    <3> QED
      BY <1>1, <3>1 DEF Queued
  <2>3. Queued(x)' => Queued(x) \/ c.obj = x
    BY <1>1 DEF Queued
  <2> QED
    BY <2>1, <2>2, <2>3
<1>3. ASSUME CommandsDistinct, c.obj = NoObj \/ ~ Queued(c.obj) PROVE CommandsDistinct'
  <2> SUFFICES ASSUME NEW j \in 1 .. n + 1, NEW k \in 1 .. n + 1,
                      inbound'[j].obj = inbound'[k].obj
               PROVE  j = k \/ inbound'[j].obj = NoObj
    BY <1>1 DEF CommandsDistinct
  <2>1. CASE j \in 1 .. n /\ k \in 1 .. n
    BY <1>1, <1>3, <2>1 DEF CommandsDistinct
  <2>2. CASE j = n + 1 /\ k \in 1 .. n
    BY <1>1, <1>3, <2>2 DEF Queued
  <2>3. CASE j \in 1 .. n /\ k = n + 1
    BY <1>1, <1>3, <2>3 DEF Queued
  <2>4. CASE j = n + 1 /\ k = n + 1
    BY <2>4
  <2> QED
    BY <1>1, <2>1, <2>2, <2>3, <2>4
<1> QED
  BY <1>1, <1>2, <1>3

LEMMA CommandPopped ==
  ASSUME NEW S, inbound \in Seq(S), inbound # <<>>, inbound' = Tail(inbound),
         CommandsDistinct
  PROVE  /\ inbound' \in Seq(S) /\ Head(inbound) \in S /\ Queued(Head(inbound).obj)
         /\ CommandsDistinct'
         /\ \A x : x # NoObj => (Queued(x)' <=> Queued(x) /\ x # Head(inbound).obj)
<1> DEFINE n == Len(inbound)
<1>1. /\ n \in Nat \ {0} /\ DOMAIN inbound = 1 .. n /\ Head(inbound) = inbound[1]
      /\ inbound' \in Seq(S) /\ DOMAIN inbound' = 1 .. n - 1
      /\ \A i \in 1 .. n - 1 : inbound'[i] = inbound[i + 1]
      /\ \A i \in 1 .. n : inbound[i] \in S
  BY HeadTailProperties, LenProperties, EmptySeq
<1> HIDE DEF n
<1>2. \A j, k \in 1 .. n : inbound[j].obj = inbound[k].obj => j = k \/ inbound[j].obj = NoObj
  BY <1>1 DEF CommandsDistinct
<1>3. CommandsDistinct'
  <2> SUFFICES ASSUME NEW j \in 1 .. n - 1, NEW k \in 1 .. n - 1,
                      inbound'[j].obj = inbound'[k].obj
               PROVE  j = k \/ inbound'[j].obj = NoObj
    BY <1>1 DEF CommandsDistinct
  <2>1. j + 1 \in 1 .. n /\ k + 1 \in 1 .. n
    BY <1>1
  <2>2. inbound[j + 1].obj = inbound[k + 1].obj
    BY <1>1
  <2>3. j + 1 = k + 1 \/ inbound[j + 1].obj = NoObj
    BY <1>2, <2>1, <2>2
  <2> QED
    BY <1>1, <2>3
<1>4. 1 \in 1 .. n
  BY <1>1
<1>5. ASSUME NEW x, x # NoObj PROVE Queued(x)' <=> Queued(x) /\ x # Head(inbound).obj
  <2>1. ASSUME NEW k \in 1 .. n - 1, inbound'[k].obj = x
        PROVE  Queued(x) /\ x # Head(inbound).obj
    <3>1. k + 1 \in 1 .. n /\ inbound[k + 1].obj = x
      BY <1>1, <2>1
    <3>2. Queued(x)
      BY <1>1, <3>1 DEF Queued
    <3>3. x # inbound[1].obj
      <4>1. inbound[k + 1].obj = inbound[1].obj => k + 1 = 1 \/ inbound[k + 1].obj = NoObj
        BY <1>2, <1>4, <3>1
      <4> QED
        BY <1>5, <3>1, <4>1
    <3> QED
      BY <1>1, <3>2, <3>3
  <2>2. ASSUME NEW k \in 1 .. n, inbound[k].obj = x, x # Head(inbound).obj
        PROVE  \E j \in 1 .. n - 1 : inbound'[j].obj = x
    <3>1. k # 1
      BY <1>1, <2>2
    <3>2. k - 1 \in 1 .. n - 1 /\ inbound'[k - 1] = inbound[(k - 1) + 1] /\ (k - 1) + 1 = k
      BY <1>1, <3>1
    <3> QED
      BY <2>2, <3>2
  <2> QED
    BY <1>1, <2>1, <2>2 DEF Queued
<1>6. Queued(Head(inbound).obj) /\ Head(inbound) \in S
  BY <1>1, <1>4 DEF Queued
<1> QED
  BY <1>1, <1>3, <1>5, <1>6

LEMMA TradePushed ==
  ASSUME NEW S, trades \in Seq(S), NEW c \in S, trades' = Append(trades, c)
  PROVE  /\ trades' \in Seq(S) /\ Len(trades') = Len(trades) + 1 /\ Len(trades) \in Nat
         /\ DOMAIN trades = 1 .. Len(trades) /\ DOMAIN trades' = 1 .. Len(trades) + 1
         /\ \A i \in 1 .. Len(trades) : trades'[i] = trades[i]
         /\ trades'[Len(trades) + 1] = c
         /\ \A x : Maker(x)' <=> Maker(x) \/ c.maker = x
         /\ MakersDistinct /\ ~ Maker(c.maker) => MakersDistinct'
<1> DEFINE n == Len(trades)
<1>1. /\ n \in Nat /\ DOMAIN trades = 1 .. n
      /\ trades' \in Seq(S) /\ DOMAIN trades' = 1 .. n + 1 /\ Len(trades') = n + 1
      /\ trades'[n + 1] = c
      /\ \A i \in 1 .. n : trades'[i] = trades[i]
  BY AppendProperties, LenProperties
<1> HIDE DEF n
<1>2. ASSUME NEW x PROVE Maker(x)' <=> Maker(x) \/ c.maker = x
  <2>1. Maker(x) => Maker(x)'
    <3>1. \A i \in 1 .. n : i \in 1 .. n + 1
      BY <1>1
    <3> QED
      BY <1>1, <3>1 DEF Maker
  <2>2. c.maker = x => Maker(x)'
    <3>1. n + 1 \in 1 .. n + 1
      BY <1>1
    <3> QED
      BY <1>1, <3>1 DEF Maker
  <2>3. Maker(x)' => Maker(x) \/ c.maker = x
    BY <1>1 DEF Maker
  <2> QED
    BY <2>1, <2>2, <2>3
<1>3. ASSUME MakersDistinct, ~ Maker(c.maker) PROVE MakersDistinct'
  <2> SUFFICES ASSUME NEW j \in 1 .. n + 1, NEW k \in 1 .. n + 1,
                      trades'[j].maker = trades'[k].maker
               PROVE  j = k
    BY <1>1 DEF MakersDistinct
  <2>1. CASE j \in 1 .. n /\ k \in 1 .. n
    BY <1>1, <1>3, <2>1 DEF MakersDistinct
  <2>2. CASE j = n + 1 /\ k \in 1 .. n
    BY <1>1, <1>3, <2>2 DEF Maker
  <2>3. CASE j \in 1 .. n /\ k = n + 1
    BY <1>1, <1>3, <2>3 DEF Maker
  <2>4. CASE j = n + 1 /\ k = n + 1
    BY <2>4
  <2> QED
    BY <1>1, <2>1, <2>2, <2>3, <2>4
<1> QED
  BY <1>1, <1>2, <1>3 DEF n

LEMMA TradePopped ==
  ASSUME NEW S, trades \in Seq(S), trades # <<>>, trades' = Tail(trades), MakersDistinct
  PROVE  /\ trades' \in Seq(S) /\ Len(trades') = Len(trades) - 1 /\ Len(trades) \in Nat \ {0}
         /\ DOMAIN trades = 1 .. Len(trades) /\ DOMAIN trades' = 1 .. Len(trades) - 1
         /\ Head(trades) \in S /\ Head(trades) = trades[1] /\ Maker(Head(trades).maker)
         /\ \A i \in 1 .. Len(trades) - 1 : trades'[i] = trades[i + 1]
         /\ MakersDistinct'
         /\ \A x : Maker(x)' <=> Maker(x) /\ x # Head(trades).maker
<1> DEFINE n == Len(trades)
<1>1. /\ n \in Nat \ {0} /\ DOMAIN trades = 1 .. n /\ Head(trades) = trades[1]
      /\ trades' \in Seq(S) /\ DOMAIN trades' = 1 .. n - 1 /\ Len(trades') = n - 1
      /\ \A i \in 1 .. n - 1 : trades'[i] = trades[i + 1]
      /\ \A i \in 1 .. n : trades[i] \in S
  BY HeadTailProperties, LenProperties, EmptySeq
<1> HIDE DEF n
<1>2. \A j, k \in 1 .. n : trades[j].maker = trades[k].maker => j = k
  BY <1>1 DEF MakersDistinct
<1>3. MakersDistinct'
  <2> SUFFICES ASSUME NEW j \in 1 .. n - 1, NEW k \in 1 .. n - 1,
                      trades'[j].maker = trades'[k].maker
               PROVE  j = k
    BY <1>1 DEF MakersDistinct
  <2>1. j + 1 \in 1 .. n /\ k + 1 \in 1 .. n
    BY <1>1
  <2>2. trades[j + 1].maker = trades[k + 1].maker
    BY <1>1
  <2>3. j + 1 = k + 1
    BY <1>2, <2>1, <2>2
  <2> QED
    BY <1>1, <2>3
<1>4. 1 \in 1 .. n
  BY <1>1
<1>5. ASSUME NEW x PROVE Maker(x)' <=> Maker(x) /\ x # Head(trades).maker
  <2>1. ASSUME NEW k \in 1 .. n - 1, trades'[k].maker = x
        PROVE  Maker(x) /\ x # Head(trades).maker
    <3>1. k + 1 \in 1 .. n /\ trades[k + 1].maker = x
      BY <1>1, <2>1
    <3>2. Maker(x)
      BY <1>1, <3>1 DEF Maker
    <3>3. x # trades[1].maker
      <4>1. trades[k + 1].maker = trades[1].maker => k + 1 = 1
        BY <1>2, <1>4, <3>1
      <4> QED
        BY <1>1, <3>1, <4>1
    <3> QED
      BY <1>1, <3>2, <3>3
  <2>2. ASSUME NEW k \in 1 .. n, trades[k].maker = x, x # Head(trades).maker
        PROVE  \E j \in 1 .. n - 1 : trades'[j].maker = x
    <3>1. k # 1
      BY <1>1, <2>2
    <3>2. k - 1 \in 1 .. n - 1 /\ trades'[k - 1] = trades[(k - 1) + 1] /\ (k - 1) + 1 = k
      BY <1>1, <3>1
    <3> QED
      BY <2>2, <3>2
  <2> QED
    BY <1>1, <2>1, <2>2 DEF Maker
<1>6. Maker(Head(trades).maker) /\ Head(trades) \in S
  BY <1>1, <1>4 DEF Maker
<1> QED
  BY <1>1, <1>3, <1>5, <1>6 DEF n

-----------------------------------------------------------------------------
(* The steps of the submitters and of the consumer keep the invariant.     *)

\* What a rested order, a queued command and a maker are to the pool.
LEMMA HeldObjects ==
  ASSUME Parts, NEW o \in Objs
  PROVE  /\ order[o] \in OrderRecord
         /\ order[o].rem \in Nat /\ order[o].qty \in Nat /\ order[o].price \in Prices \cup {0}
         /\ order[o].id \in OrderIds \cup {0} /\ order[o].status \in Statuses
         /\ Maker(o) => Sold(o) \/ o \in Resting
         /\ Queued(o) \/ Maker(o) \/ o \in Resting => pool[o] = 0 /\ ~ InHand(o)
         /\ pool[o] = 0 => order[o].id \in OrderIds /\ order[o].side \in Sides
         /\ o = subject => pool[o] = 0
<1>1. order[o] \in OrderRecord
  BY DEF Parts, Book, BookTypeOK
<1>2. Maker(o) => Sold(o) \/ o \in Resting
  <2>1. ASSUME NEW k \in DOMAIN trades, trades[k].maker = o
        PROVE  order[o].status = "Filled" \/ o \in Resting
    BY <2>1 DEF Parts, MakersFilled
  <2> QED
    BY <2>1 DEF Maker, Sold
<1>3. /\ pool[o] = 0 <=> Queued(o) \/ Sold(o) \/ o \in Resting \/ InHand(o)
      /\ Queued(o) => ~ InHand(o)
      /\ Sold(o) => ~ InHand(o)
      /\ o \in Resting => ~ InHand(o)
  BY DEF Parts, Exclusive
<1>4. pool[o] = 0 => order[o].id \in OrderIds /\ order[o].side \in Sides
  BY DEF Parts, Identified
<1>5. o = subject => pool[o] = 0
  <2>1. o = subject /\ verdict = "Accepted" => o \in Resting
    BY DEF Parts, Handler
  <2> QED
    BY <1>3, <2>1 DEF InHand
<1> QED
  BY <1>1, <1>2, <1>3, <1>4, <1>5 DEF OrderRecord

(* A step that leaves alone what the book, the pool and the identifiers    *)
(* are made of, or changes the rest of an object nobody else holds.        *)
LEMMA Touched ==
  ASSUME Parts, NEW o \in Objs, o \notin Resting, pool[o] = 0,
         order' \in [Objs -> OrderRecord], \A x \in Objs : x # o => order'[x] = order[x],
         order'[o].id = order[o].id, order'[o].side = order[o].side,
         order'[o].type = order[o].type, order'[o].price = order[o].price,
         order'[o].qty = order[o].qty, order'[o].rem <= order[o].rem,
         UNCHANGED <<prices, levels, index, pool, nextId>>
  PROVE  Book' /\ Resting' = Resting /\ Identified'
<1>1. \A x \in Resting : order'[x] = order[x]
  <2>1. ASSUME NEW x \in Resting PROVE x \in Objs
    BY RestingAt DEF Parts, Book
  <2> QED
    BY <2>1
<1>2. Book' /\ Resting' = Resting
  BY <1>1, BookFrame DEF Parts
<1>3. /\ order[o].rem \in Nat /\ order[o].qty \in Nat /\ order'[o].rem \in Nat
  BY HeldObjects DEF OrderRecord
<1>4. \A x \in Objs : pool[x] = 0 =>
        /\ order'[x].id \in OrderIds /\ order'[x].id <= nextId
        /\ order'[x].side \in Sides /\ order'[x].type \in OrderTypes
        /\ order'[x].type # "Market" => order'[x].price \in Prices
        /\ order'[x].rem <= order'[x].qty /\ order'[x].qty \in Qtys
  <2>1. ASSUME NEW x \in Objs, pool[x] = 0
        PROVE  /\ order[x].id \in OrderIds /\ order[x].id <= nextId
               /\ order[x].side \in Sides /\ order[x].type \in OrderTypes
               /\ order[x].type # "Market" => order[x].price \in Prices
               /\ order[x].rem <= order[x].qty /\ order[x].qty \in Qtys
    BY <2>1 DEF Parts, Identified
  <2> QED
    BY <1>3, <2>1
<1>5. \A x \in Objs : pool[x] > 0 => order'[x] = ZeroOrder
  BY DEF Parts, Identified
<1>6. \A x, m \in Objs : pool[x] = 0 /\ pool[m] = 0 /\ order'[x].id = order'[m].id => x = m
  <2>1. \A x \in Objs : order'[x].id = order[x].id
    OBVIOUS
  <2> QED
    BY <2>1 DEF Parts, Identified
<1>7. Identified'
  BY <1>4, <1>5, <1>6 DEF Identified
<1> QED
  BY <1>2, <1>7

LEMMA Untouched ==
  ASSUME Parts, UNCHANGED <<order, prices, levels, index, pool, nextId>>
  PROVE  Book' /\ Resting' = Resting /\ Identified'
<1>1. order' \in [Objs -> OrderRecord]
  BY DEF Parts, Book, BookTypeOK
<1>2. Book' /\ Resting' = Resting
  BY <1>1, BookFrame DEF Parts
<1>3. Identified'
  BY DEF Parts, Identified
<1> QED
  BY <1>2, <1>3

LEMMA SubmitCancelKeeps ==
  ASSUME IInv, NEW id \in OrderIds, SubmitCancel(id)
  PROVE  IInv'
<1>1. Parts
  BY PartsMean
<1>2. /\ UNCHANGED <<order, prices, levels, index, pool, nextId>>
      /\ UNCHANGED <<outbound, pc, localSeq, tradeSeq, subject, trades, verdict>>
  BY DEF SubmitCancel, bookVars, engVars
<1>3. Book' /\ Resting' = Resting /\ Identified'
  BY <1>1, <1>2, Untouched
<1> DEFINE c == [kind |-> "cancel", obj |-> NoObj, id |-> id]
<1>4. c \in Command /\ c.obj = NoObj /\ inbound' = Append(inbound, c) /\ inbound \in Seq(Command)
  BY <1>1 DEF SubmitCancel, Command, Parts, MachineTypeOK
<1> HIDE DEF c
<1>5. CommandsDistinct
  BY <1>1 DEF Parts, Exclusive, CommandsDistinct
<1>6. /\ inbound' \in Seq(Command) /\ CommandsDistinct'
      /\ \A x : Queued(x)' <=> Queued(x) \/ c.obj = x
  BY <1>4, <1>5, CommandPushed, SMTT(30)
<1>7. \A x \in Objs : Queued(x)' <=> Queued(x)
  BY <1>4, <1>6, EngineAssumption
<1>8. \A x \in Objs : (Sold(x)' <=> Sold(x)) /\ (InHand(x)' <=> InHand(x))
  BY <1>2 DEF Sold, InHand
<1>9. MachineTypeOK'
  BY <1>1, <1>2, <1>6, EngineAssumption DEF Parts, MachineTypeOK, SubmitCancel
<1>10. LevelsFilled' /\ MakersFilled'
  BY <1>1, <1>2, <1>3 DEF Parts, LevelsFilled, MakersFilled, Best
<1>11. Handler'
  BY <1>1, <1>2, <1>3, <1>7 DEF Parts, Handler
<1>12. Exclusive'
  BY <1>1, <1>2, <1>3, <1>6, <1>7, <1>8 DEF Parts, Exclusive, CommandsDistinct
<1> QED
  BY <1>3, <1>9, <1>10, <1>11, <1>12, PartsMeanNext DEF Parts

LEMMA PollEventKeeps ==
  ASSUME IInv, PollEvent
  PROVE  IInv'
<1>1. Parts
  BY PartsMean
<1>2. /\ UNCHANGED <<order, prices, levels, index, pool, nextId, cancels, inbound>>
      /\ UNCHANGED <<pc, localSeq, tradeSeq, subject, trades, verdict>>
      /\ outbound # <<>> /\ outbound' = Tail(outbound)
  BY DEF PollEvent, bookVars, engVars, envVars
<1>3. Book' /\ Resting' = Resting /\ Identified'
  BY <1>1, <1>2, Untouched
<1>4. outbound \in Seq(Event)
  BY <1>1 DEF Parts, MachineTypeOK
<1>5. outbound' \in Seq(Event)
  BY <1>2, <1>4, HeadTailProperties
<1>6. MachineTypeOK'
  BY <1>1, <1>2, <1>5 DEF Parts, MachineTypeOK
<1>7. LevelsFilled' /\ MakersFilled' /\ Handler' /\ Exclusive'
  BY <1>1, <1>2, <1>3
  DEF Parts, LevelsFilled, MakersFilled, Handler, Exclusive, Best, Queued, Sold, InHand
<1> QED
  BY <1>3, <1>6, <1>7, PartsMeanNext DEF Parts

\* The object o becomes the order r, and the command c with it is in the ring.
Submits(o, r, c) ==
  /\ UNCHANGED <<prices, levels, index, outbound, cancels>>
  /\ UNCHANGED <<pc, localSeq, tradeSeq, subject, trades, verdict>>
  /\ inbound' = Append(inbound, c) /\ c.obj = o
  /\ pool[o] = 1 /\ ~ Queued(o) /\ ~ Sold(o) /\ o \notin Resting /\ ~ InHand(o)
  /\ ~ Maker(o) /\ o # subject
  /\ r.id = nextId + 1 /\ r.qty = r.rem
  /\ order' \in [Objs -> OrderRecord] /\ order'[o] = r
  /\ \A x \in Objs : x # o => order'[x] = order[x]
  /\ Resting' = Resting
  /\ pool' \in [Objs -> Nat] /\ pool'[o] = 0
  /\ \A x \in Objs : x # o => pool'[x] = pool[x]
  /\ nextId \in Nat /\ nextId' \in OrderIds /\ nextId' = nextId + 1

LEMMA SubmitOrderMeans ==
  ASSUME Parts, NEW o \in Objs, NEW side \in Sides, NEW type \in OrderTypes,
         NEW price \in Prices \cup {0}, type # "Market" => price \in Prices, NEW qty \in Qtys,
         SubmitOrder(o, side, type, price, qty)
  PROVE  \E r \in OrderRecord, c \in Command :
           /\ Submits(o, r, c) /\ Book'
           /\ r.side = side /\ r.type = type /\ r.price = price /\ r.qty = qty
<1>1. Parts
  OBVIOUS
<1>2. /\ UNCHANGED <<prices, levels, index, outbound, cancels>>
      /\ UNCHANGED <<pc, localSeq, tradeSeq, subject, trades, verdict>>
      /\ nextId' = nextId + 1 /\ nextId + 1 \in OrderIds
      /\ pool[o] > 0 /\ pool' = [pool EXCEPT ![o] = pool[o] - 1]
  BY DEF SubmitOrder, engVars
<1> DEFINE r == [id |-> nextId + 1, side |-> side, type |-> type, price |-> price,
                 qty |-> qty, rem |-> qty, status |-> "New", seq |-> 0]
           c == [kind |-> "new", obj |-> o, id |-> 0]
<1>3. order' = [order EXCEPT ![o] = r]
  BY <1>2 DEF SubmitOrder
<1>4. /\ inbound' = Append(inbound, c) /\ c \in Command /\ c.obj = o /\ inbound \in Seq(Command)
  BY <1>1 DEF SubmitOrder, Command, Parts, MachineTypeOK
<1>5. /\ pool[o] = 1 /\ ~ Queued(o) /\ ~ Sold(o) /\ o \notin Resting /\ ~ InHand(o)
      /\ ~ Maker(o) /\ o # subject
  <2>1. pool[o] = 1
    BY <1>1, <1>2 DEF Parts, Exclusive
  <2>2. ~ (Queued(o) \/ Sold(o) \/ o \in Resting \/ InHand(o))
    BY <1>1, <2>1 DEF Parts, Exclusive
  <2> QED
    BY <1>1, <2>1, <2>2, HeldObjects
<1>6. /\ r \in OrderRecord
      /\ r.id = nextId + 1 /\ r.side = side /\ r.type = type /\ r.price = price
      /\ r.qty = qty /\ r.rem = qty /\ r.status = "New"
  BY <1>2, EngineAssumption DEF OrderRecord, Statuses
<1> HIDE DEF r, c
<1>7. /\ order' \in [Objs -> OrderRecord] /\ order'[o] = r
      /\ \A x \in Objs : x # o => order'[x] = order[x]
  BY <1>1, <1>3, <1>6 DEF Parts, Book, BookTypeOK
<1>8. Book' /\ Resting' = Resting
  <2>1. \A x \in Resting : order'[x] = order[x]
    <3>1. ASSUME NEW x \in Resting PROVE x \in Objs
      BY <1>1, RestingAt DEF Parts, Book
    <3> QED
      BY <1>5, <1>7, <3>1
  <2> QED
    BY <1>1, <1>2, <1>7, <2>1, BookFrame DEF Parts
<1>9. /\ pool' \in [Objs -> Nat] /\ pool'[o] = 0
      /\ \A x \in Objs : x # o => pool'[x] = pool[x]
  BY <1>1, <1>2, <1>5 DEF Parts, MachineTypeOK
<1>10. nextId \in Nat /\ nextId' \in OrderIds /\ nextId' = nextId + 1
  BY <1>1, <1>2, BookAssumption DEF Parts, MachineTypeOK
<1>11. r.qty = r.rem
  BY <1>6
<1>12. Submits(o, r, c)
  BY <1>2, <1>4, <1>5, <1>6, <1>7, <1>8, <1>9, <1>10, <1>11 DEF Submits
<1> QED
  BY <1>4, <1>6, <1>8, <1>12

LEMMA SubmitOrderKeeps ==
  ASSUME IInv, NEW o \in Objs, NEW side \in Sides, NEW type \in OrderTypes,
         NEW price \in Prices \cup {0}, type # "Market" => price \in Prices, NEW qty \in Qtys,
         SubmitOrder(o, side, type, price, qty)
  PROVE  IInv'
<1>1. Parts
  BY PartsMean
<1>r. PICK r \in OrderRecord, c \in Command :
        /\ Submits(o, r, c) /\ Book'
        /\ r.side = side /\ r.type = type /\ r.price = price /\ r.qty = qty
  BY <1>1, SubmitOrderMeans
<1>2. /\ UNCHANGED <<prices, levels, index, outbound, cancels>>
      /\ UNCHANGED <<pc, localSeq, tradeSeq, subject, trades, verdict>>
  BY <1>r DEF Submits
<1>4. /\ inbound' = Append(inbound, c) /\ c \in Command /\ c.obj = o /\ inbound \in Seq(Command)
  BY <1>1, <1>r DEF Submits, Parts, MachineTypeOK
<1>5. /\ pool[o] = 1 /\ ~ Queued(o) /\ ~ Sold(o) /\ o \notin Resting /\ ~ InHand(o)
      /\ ~ Maker(o) /\ o # subject
  BY <1>r DEF Submits
<1>6. /\ r \in OrderRecord
      /\ r.id = nextId + 1 /\ r.side = side /\ r.type = type /\ r.price = price
      /\ r.qty = qty /\ r.rem = qty
  BY <1>r DEF Submits
<1>7. /\ order' \in [Objs -> OrderRecord] /\ order'[o] = r
      /\ \A x \in Objs : x # o => order'[x] = order[x]
  BY <1>r DEF Submits
<1>8. Book' /\ Resting' = Resting
  BY <1>r DEF Submits
<1>9. /\ pool' \in [Objs -> Nat] /\ pool'[o] = 0
      /\ \A x \in Objs : x # o => pool'[x] = pool[x]
  BY <1>r DEF Submits
<1>10. nextId \in Nat /\ nextId' \in OrderIds /\ nextId' = nextId + 1
  BY <1>r DEF Submits
<1>11. Identified'
  <2>1. ASSUME NEW x \in Objs, pool'[x] > 0 PROVE order'[x] = ZeroOrder
    BY <1>1, <1>7, <1>9, <2>1 DEF Parts, Identified
  <2>2. ASSUME NEW x \in Objs, pool'[x] = 0
        PROVE  /\ order'[x].id \in OrderIds /\ order'[x].id <= nextId'
               /\ order'[x].side \in Sides /\ order'[x].type \in OrderTypes
               /\ order'[x].type # "Market" => order'[x].price \in Prices
               /\ order'[x].rem <= order'[x].qty /\ order'[x].qty \in Qtys
    <3>1. CASE x = o
      BY <1>6, <1>7, <1>10, <3>1, BookAssumption, EngineAssumption
    <3>2. CASE x # o
      <4>1. order'[x] = order[x] /\ pool[x] = 0
        BY <1>7, <1>9, <2>2, <3>2
      <4>2. /\ order[x].id \in OrderIds /\ order[x].id <= nextId
            /\ order[x].side \in Sides /\ order[x].type \in OrderTypes
            /\ order[x].type # "Market" => order[x].price \in Prices
            /\ order[x].rem <= order[x].qty /\ order[x].qty \in Qtys
        BY <1>1, <4>1 DEF Parts, Identified
      <4>3. order[x].id <= nextId'
        <5>1. order[x].id \in Nat
          BY <4>2, BookAssumption
        <5> QED
          BY <1>10, <4>2, <5>1
      <4> QED
        BY <4>1, <4>2, <4>3
    <3> QED
      BY <3>1, <3>2
  <2>3. ASSUME NEW x \in Objs, NEW m \in Objs, pool'[x] = 0, pool'[m] = 0,
               order'[x].id = order'[m].id
        PROVE  x = m
    <3>1. \A y \in Objs : y # o /\ pool'[y] = 0 =>
            order'[y].id = order[y].id /\ pool[y] = 0 /\ order'[y].id # order'[o].id
      <4> SUFFICES ASSUME NEW y \in Objs, y # o, pool'[y] = 0
                   PROVE  order'[y].id = order[y].id /\ pool[y] = 0 /\ order'[y].id # order'[o].id
        OBVIOUS
      <4>1. order'[y].id = order[y].id /\ pool[y] = 0
        BY <1>7, <1>9
      <4>2. order[y].id \in OrderIds /\ order[y].id <= nextId
        BY <1>1, <4>1 DEF Parts, Identified
      <4> QED
        BY <1>6, <1>7, <1>10, <4>1, <4>2, BookAssumption
    <3>2. CASE x # o /\ m # o
      BY <1>1, <2>3, <3>1, <3>2 DEF Parts, Identified
    <3> QED
      BY <2>3, <3>1, <3>2
  <2> QED
    BY <2>1, <2>2, <2>3 DEF Identified
<1>12. CommandsDistinct
  BY <1>1 DEF Parts, Exclusive, CommandsDistinct
<1>13. /\ inbound' \in Seq(Command) /\ CommandsDistinct'
       /\ \A x : Queued(x)' <=> Queued(x) \/ c.obj = x
  BY <1>4, <1>5, <1>12, CommandPushed, SMTT(30)
<1>14. \A x \in Objs : /\ Queued(x)' <=> Queued(x) \/ x = o
                       /\ Sold(x)' <=> Sold(x)
                       /\ InHand(x)' <=> InHand(x)
  <2>1. ASSUME NEW x \in Objs PROVE Sold(x)' <=> Sold(x)
    <3>1. CASE x = o
      BY <1>2, <1>5, <3>1 DEF Sold, Maker
    <3>2. CASE x # o
      BY <1>2, <1>7, <3>2 DEF Sold
    <3> QED
      BY <3>1, <3>2
  <2>2. ASSUME NEW x \in Objs PROVE InHand(x)' <=> InHand(x)
    BY <1>2 DEF InHand
  <2> QED
    BY <1>4, <1>13, <2>1, <2>2
<1>15. MachineTypeOK'
  BY <1>1, <1>2, <1>9, <1>10, <1>13 DEF Parts, MachineTypeOK
<1>16. subject \in Objs => order'[subject] = order[subject]
  BY <1>5, <1>7
<1>17. pc \in {"new", "match", "fill", "emit"} => subject \in Objs
  BY <1>1 DEF Parts, Handler
<1>18. LevelsFilled'
  <2>1. pc = "fill" => order'[subject] = order[subject]
    BY <1>16, <1>17
  <2> QED
    BY <1>1, <1>2, <2>1 DEF Parts, LevelsFilled, Best
<1>19. MakersFilled'
  <2>1. ASSUME NEW k \in DOMAIN trades
        PROVE  \/ order'[trades[k].maker].status = "Filled"
               \/ k = Len(trades) /\ trades[k].maker \in Resting /\ order'[subject].rem = 0
    <3>1. trades[k].maker \in Objs
      <4>1. trades \in Seq(Execution)
        BY <1>1 DEF Parts, MachineTypeOK
      <4>2. trades[k] \in Execution
        BY <4>1
      <4> QED
        BY <4>2 DEF Execution
    <3>2. trades[k].maker # o
      BY <1>5 DEF Maker
    <3>3. order'[trades[k].maker] = order[trades[k].maker]
      BY <1>7, <3>1, <3>2
    <3>4. trades # <<>> => pc \notin {"idle", "new", "report"}
      BY <1>1 DEF Parts, Handler
    <3>5. trades # <<>>
      OBVIOUS
    <3>6. subject \in Objs
      BY <1>1, <1>17, <3>4, <3>5 DEF Parts, MachineTypeOK
    <3> QED
      BY <1>1, <1>16, <3>3, <3>6 DEF Parts, MakersFilled
  <2> QED
    BY <1>2, <1>8, <2>1 DEF MakersFilled
<1>20. Handler'
  <2>1. \A x \in Objs : Queued(x)' => order'[x].rem = order'[x].qty
    BY <1>1, <1>6, <1>7, <1>14 DEF Parts, Handler
  <2>2. subject # NoObj => subject \in Objs
    BY <1>1 DEF Parts, MachineTypeOK
  <2> QED
    BY <1>1, <1>2, <1>8, <1>16, <1>17, <2>1, <2>2 DEF Parts, Handler
<1>21. Exclusive'
  <2>1. ASSUME NEW x \in Objs
        PROVE  /\ pool'[x] \in {0, 1}
               /\ pool'[x] = 0 <=> Queued(x)' \/ Sold(x)' \/ x \in Resting' \/ InHand(x)'
               /\ Queued(x)' => ~ Sold(x)' /\ x \notin Resting' /\ ~ InHand(x)'
               /\ Sold(x)' => x \notin Resting' /\ ~ InHand(x)'
               /\ x \in Resting' => ~ InHand(x)'
    <3>1. CASE x = o
      BY <1>5, <1>8, <1>9, <1>14, <3>1
    <3>2. CASE x # o
      BY <1>1, <1>8, <1>9, <1>14, <3>2 DEF Parts, Exclusive
    <3> QED
      BY <3>1, <3>2
  <2> QED
    BY <1>1, <1>2, <1>13, <2>1 DEF Parts, Exclusive, CommandsDistinct
<1> QED
  BY <1>8, <1>11, <1>15, <1>18, <1>19, <1>20, <1>21, PartsMeanNext DEF Parts

-----------------------------------------------------------------------------
(* The steps of the engine keep the invariant.                             *)

LEMMA OrderInHand ==
  ASSUME Parts, pc \in {"new", "match", "fill", "emit"}
  PROVE  /\ subject \in Objs /\ subject # NoObj /\ verdict = "none"
         /\ InHand(subject) /\ pool[subject] = 0
         /\ subject \notin Resting /\ ~ Queued(subject) /\ ~ Sold(subject) /\ ~ Maker(subject)
         /\ order[subject] \in OrderRecord
         /\ order[subject].id \in OrderIds /\ order[subject].side \in Sides
         /\ order[subject].type # "Market" => order[subject].price \in Prices
         /\ order[subject].rem \in Nat /\ order[subject].qty \in Nat \ {0}
<1>1. subject \in Objs /\ verdict = "none"
  BY DEF Parts, Handler
<1>2. InHand(subject)
  BY <1>1 DEF InHand
<1>3. /\ pool[subject] = 0
      /\ subject \notin Resting /\ ~ Queued(subject) /\ ~ Sold(subject)
  BY <1>1, <1>2 DEF Parts, Exclusive
<1>4. ~ Maker(subject)
  BY <1>1, <1>3, HeldObjects
<1>5. /\ order[subject].type # "Market" => order[subject].price \in Prices
      /\ order[subject].qty \in Qtys
      /\ order[subject].id \in OrderIds /\ order[subject].side \in Sides
  BY <1>1, <1>3 DEF Parts, Identified
<1>6. order[subject] \in OrderRecord /\ order[subject].rem \in Nat
  BY <1>1, HeldObjects
<1> QED
  BY <1>1, <1>2, <1>3, <1>4, <1>5, <1>6, EngineAssumption

\* A step of the handler that changes nothing but the status of its order.
SubjectOnly ==
  /\ order' \in [Objs -> OrderRecord]
  /\ \A x \in Objs : x # subject => order'[x] = order[x]
  /\ order'[subject].id = order[subject].id /\ order'[subject].side = order[subject].side
  /\ order'[subject].type = order[subject].type /\ order'[subject].price = order[subject].price
  /\ order'[subject].qty = order[subject].qty /\ order'[subject].rem = order[subject].rem
  /\ order'[subject].seq = order[subject].seq
  /\ UNCHANGED <<prices, levels, index, pool, inbound, outbound>>
  /\ UNCHANGED <<localSeq, tradeSeq, subject, trades, nextId, cancels>>
  /\ pc' \in {"match", "fill", "emit", "report"} /\ verdict' \in Verdicts \cup {"none"}
  /\ verdict' # "Accepted"
  /\ pc' = "report" <=> verdict' # "none"
  /\ pc' = "report" => trades = <<>>
  /\ pc' = "fill" => prices[Opposite(order[subject].side)] # <<>>

LEMMA SubjectOnlyKeeps ==
  ASSUME IInv, pc \in {"new", "match", "emit"}, SubjectOnly
  PROVE  IInv'
<1>1. Parts
  BY PartsMean
<1>2. /\ subject \in Objs /\ subject # NoObj /\ verdict = "none" /\ pool[subject] = 0
      /\ subject \notin Resting /\ ~ Queued(subject) /\ ~ Sold(subject) /\ ~ Maker(subject)
      /\ order[subject].rem \in Nat
  BY <1>1, OrderInHand
<1>3. /\ UNCHANGED <<prices, levels, index, pool, inbound, outbound>>
      /\ UNCHANGED <<localSeq, tradeSeq, subject, trades, nextId, cancels>>
      /\ \A x \in Objs : x # subject => order'[x] = order[x]
      /\ order'[subject].side = order[subject].side /\ order'[subject].rem = order[subject].rem
      /\ order'[subject].qty = order[subject].qty
  BY DEF SubjectOnly
<1>4. Book' /\ Resting' = Resting /\ Identified'
  <2>1. /\ order' \in [Objs -> OrderRecord]
        /\ order'[subject].id = order[subject].id /\ order'[subject].type = order[subject].type
        /\ order'[subject].price = order[subject].price
        /\ order'[subject].rem <= order[subject].rem
    BY <1>2 DEF SubjectOnly
  <2> QED
    BY <1>1, <1>2, <1>3, <2>1, Touched
<1>5. MachineTypeOK'
  BY <1>1, <1>3 DEF Parts, MachineTypeOK, SubjectOnly
<1>6. \A x \in Objs : /\ Queued(x)' <=> Queued(x)
                      /\ Sold(x)' <=> Sold(x)
                      /\ InHand(x)' <=> InHand(x)
  <2>1. ASSUME NEW x \in Objs PROVE Sold(x)' <=> Sold(x)
    <3>1. CASE x = subject
      BY <1>2, <1>3, <3>1 DEF Sold, Maker
    <3>2. CASE x # subject
      BY <1>3, <3>2 DEF Sold
    <3> QED
      BY <3>1, <3>2
  <2>2. ASSUME NEW x \in Objs PROVE InHand(x)' <=> InHand(x)
    BY <1>2, <1>3 DEF InHand, SubjectOnly
  <2>3. ASSUME NEW x \in Objs PROVE Queued(x)' <=> Queued(x)
    BY <1>3 DEF Queued
  <2> QED
    BY <2>1, <2>2, <2>3
<1>7. LevelsFilled'
  BY <1>1, <1>3 DEF Parts, LevelsFilled
<1>8. MakersFilled'
  <2>1. ASSUME NEW k \in DOMAIN trades
        PROVE  order'[trades[k].maker].status = order[trades[k].maker].status
    <3>1. trades \in Seq(Execution)
      BY <1>1 DEF Parts, MachineTypeOK
    <3>2. trades[k] \in Execution
      BY <3>1
    <3>3. trades[k].maker \in Objs /\ trades[k].maker # subject
      BY <1>2, <3>2 DEF Execution, Maker
    <3> QED
      BY <1>3, <3>3
  <2> QED
    BY <1>1, <1>3, <1>4, <2>1 DEF Parts, MakersFilled
<1>9. Handler'
  <2>1. \A x \in Objs : Queued(x)' => order'[x].rem = order'[x].qty
    BY <1>1, <1>2, <1>3, <1>6 DEF Parts, Handler
  <2>2. /\ pc' = "report" <=> verdict' # "none"
        /\ pc' \in {"match", "fill", "emit", "report"}
        /\ pc' = "report" => trades' = <<>>
        /\ pc' = "fill" => prices'[Opposite(order'[subject'].side)] # <<>>
        /\ verdict' # "Accepted" /\ subject' \in Objs /\ subject' # NoObj
    BY <1>2, <1>3 DEF SubjectOnly
  <2> QED
    BY <2>1, <2>2 DEF Handler
<1>10. Exclusive'
  BY <1>1, <1>3, <1>4, <1>6 DEF Parts, Exclusive
<1> QED
  BY <1>4, <1>5, <1>7, <1>8, <1>9, <1>10, PartsMeanNext DEF Parts

(* The steps that set the status of the order in hand.                     *)
LEMMA StatusSet ==
  ASSUME Parts, pc \in {"new", "match", "fill", "emit"}, NEW s \in Statuses,
         order' = [order EXCEPT ![subject].status = s]
  PROVE  /\ order' \in [Objs -> OrderRecord]
         /\ \A x \in Objs : x # subject => order'[x] = order[x]
         /\ order'[subject].id = order[subject].id /\ order'[subject].side = order[subject].side
         /\ order'[subject].type = order[subject].type
         /\ order'[subject].price = order[subject].price
         /\ order'[subject].qty = order[subject].qty /\ order'[subject].rem = order[subject].rem
         /\ order'[subject].seq = order[subject].seq
<1>1. subject \in Objs /\ order[subject] \in OrderRecord
  BY OrderInHand
<1>2. order \in [Objs -> OrderRecord]
  BY DEF Parts, Book, BookTypeOK
<1> QED
  BY <1>1, <1>2 DEF OrderRecord

HandlerStep == StartMatch \/ EnterLevel \/ EndMatch \/ Reject \/ CancelRemainder \/ Complete

LEMMA HandlerSteps ==
  ASSUME Parts, HandlerStep
  PROVE  pc \in {"new", "match", "emit"} /\ SubjectOnly
<1>1. pc \in {"new", "match", "emit"}
  BY DEF HandlerStep, StartMatch, EnterLevel, EndMatch, Reject, CancelRemainder, Complete, Matched
<1>2. verdict = "none" /\ order[subject] \in OrderRecord /\ order \in [Objs -> OrderRecord]
  BY <1>1, OrderInHand DEF Parts, Book, BookTypeOK
<1>3. CASE StartMatch
  BY <1>2, <1>3 DEF StartMatch, SubjectOnly, bookVars, envVars, Verdicts
<1>4. CASE EnterLevel
  BY <1>2, <1>4 DEF EnterLevel, Sweeps, SubjectOnly, bookVars, envVars, Verdicts
<1>5. CASE EndMatch
  <2>1. StatusAfterMatch(order[subject]) \in Statuses
    BY <1>2 DEF StatusAfterMatch, OrderRecord, Statuses
  <2>2. order' = [order EXCEPT ![subject].status = StatusAfterMatch(order[subject])]
    BY <1>5 DEF EndMatch
  <2> QED
    BY <1>1, <1>2, <1>5, <2>1, <2>2, StatusSet DEF EndMatch, SubjectOnly, envVars, Verdicts
<1>6. CASE Reject
  <2>1. order' = [order EXCEPT ![subject].status = "Rejected"] /\ "Rejected" \in Statuses
    BY <1>6 DEF Reject, Statuses
  <2>2. trades = <<>>
    BY <1>6 DEF Reject, Parts, Handler
  <2> QED
    BY <1>1, <1>6, <2>1, <2>2, StatusSet DEF Reject, Conclude, SubjectOnly, envVars, Verdicts
<1>7. CASE CancelRemainder
  <2>1. order' = [order EXCEPT ![subject].status = "Cancelled"] /\ "Cancelled" \in Statuses
    BY <1>7 DEF CancelRemainder, Statuses
  <2>2. trades = <<>>
    BY <1>7 DEF CancelRemainder, Matched
  <2> QED
    BY <1>1, <1>7, <2>1, <2>2, StatusSet
    DEF CancelRemainder, Conclude, SubjectOnly, envVars, Verdicts
<1>8. CASE Complete
  BY <1>2, <1>8 DEF Complete, Matched, Conclude, SubjectOnly, bookVars, envVars, Verdicts
<1> QED
  BY <1>1, <1>3, <1>4, <1>5, <1>6, <1>7, <1>8 DEF HandlerStep

LEMMA HandlerStepKeeps ==
  ASSUME IInv, HandlerStep
  PROVE  IInv'
  BY PartsMean, HandlerSteps, SubjectOnlyKeeps

\* The order o of the next command is taken in hand.
Takes(o) ==
  /\ pc = "idle" /\ pc' = "new" /\ subject = NoObj /\ subject' = o
  /\ trades = <<>> /\ verdict = "none" /\ localSeq' = localSeq + 1
  /\ UNCHANGED <<prices, levels, index, pool, outbound, tradeSeq, trades, verdict>>
  /\ UNCHANGED <<nextId, cancels>>
  /\ inbound' \in Seq(Command) /\ Queued(o) /\ CommandsDistinct'
  /\ \A x : x # NoObj => (Queued(x)' <=> Queued(x) /\ x # o)
  /\ o # NoObj /\ pool[o] = 0 /\ ~ Sold(o) /\ o \notin Resting /\ ~ Maker(o)
  /\ order[o] \in OrderRecord /\ order[o].rem \in Nat /\ order[o].rem = order[o].qty
  /\ order' \in [Objs -> OrderRecord]
  /\ \A x \in Objs : x # o => order'[x] = order[x]
  /\ order'[o].id = order[o].id /\ order'[o].side = order[o].side
  /\ order'[o].type = order[o].type /\ order'[o].price = order[o].price
  /\ order'[o].qty = order[o].qty /\ order'[o].rem = order[o].rem
  /\ order'[o].seq = localSeq'

LEMMA ProcessNewMeans ==
  ASSUME Parts, ProcessNew
  PROVE  \E o \in Objs : Takes(o)
<1>o. PICK o : o = Head(inbound).obj
  OBVIOUS
<1>1. Parts
  OBVIOUS
<1>2. /\ pc = "idle" /\ inbound # <<>> /\ inbound' = Tail(inbound) /\ Head(inbound).kind = "new"
      /\ localSeq' = localSeq + 1 /\ subject' = o /\ pc' = "new"
      /\ order' = [order EXCEPT ![o].seq = localSeq + 1]
      /\ UNCHANGED <<prices, levels, index, pool, outbound, tradeSeq, trades, verdict>>
      /\ UNCHANGED <<nextId, cancels>>
  BY <1>o DEF ProcessNew, PopCommand, envVars
<1>3. subject = NoObj /\ trades = <<>> /\ verdict = "none"
  BY <1>1, <1>2 DEF Parts, Handler, MachineTypeOK
<1>4. inbound \in Seq(Command) /\ CommandsDistinct
  BY <1>1 DEF Parts, MachineTypeOK, Exclusive, CommandsDistinct
<1>5. /\ inbound' \in Seq(Command) /\ Head(inbound) \in Command /\ Queued(o)
      /\ CommandsDistinct'
      /\ \A x : x # NoObj => (Queued(x)' <=> Queued(x) /\ x # o)
  BY <1>o, <1>2, <1>4, CommandPopped, SMTT(30)
<1>6. o \in Objs /\ o # NoObj
  BY <1>o, <1>2, <1>5, EngineAssumption DEF Command
<1>7. /\ pool[o] = 0 /\ ~ Sold(o) /\ o \notin Resting /\ ~ Maker(o)
      /\ order[o] \in OrderRecord /\ order[o].rem \in Nat /\ order[o].rem = order[o].qty
  BY <1>1, <1>5, <1>6, HeldObjects DEF Parts, Exclusive, Handler
<1>8. localSeq \in Nat /\ order \in [Objs -> OrderRecord]
  BY <1>1 DEF Parts, MachineTypeOK, Book, BookTypeOK
<1>9. /\ order' \in [Objs -> OrderRecord]
      /\ \A x \in Objs : x # o => order'[x] = order[x]
      /\ order'[o].id = order[o].id /\ order'[o].side = order[o].side
      /\ order'[o].type = order[o].type /\ order'[o].price = order[o].price
      /\ order'[o].qty = order[o].qty /\ order'[o].rem = order[o].rem
      /\ order'[o].seq = localSeq'
  <2> DEFINE n == localSeq + 1
  <2>1. n \in Nat /\ order' = [order EXCEPT ![o].seq = n]
    BY <1>2, <1>8
  <2>2. localSeq' = n
    BY <1>2
  <2> HIDE DEF n
  <2>3. order'[o] = [order[o] EXCEPT !.seq = n] /\ \A x \in Objs : x # o => order'[x] = order[x]
    BY <1>6, <1>8, <2>1
  <2>4. [order[o] EXCEPT !.seq = n] \in OrderRecord
    BY <1>7, <2>1 DEF OrderRecord
  <2>5. order' \in [Objs -> OrderRecord]
    BY <1>6, <1>8, <2>1, <2>4
  <2>6. /\ order'[o].id = order[o].id /\ order'[o].side = order[o].side
        /\ order'[o].type = order[o].type /\ order'[o].price = order[o].price
        /\ order'[o].qty = order[o].qty /\ order'[o].rem = order[o].rem
        /\ order'[o].seq = n
    BY <1>7, <2>3 DEF OrderRecord
  <2> QED
    BY <2>2, <2>3, <2>5, <2>6
<1>10. Takes(o)
  BY <1>2, <1>3, <1>5, <1>6, <1>7, <1>9 DEF Takes
<1> QED
  BY <1>6, <1>10

LEMMA ProcessNewKeeps ==
  ASSUME IInv, ProcessNew
  PROVE  IInv'
<1>1. Parts
  BY PartsMean
<1>o. PICK o \in Objs : Takes(o)
  BY <1>1, ProcessNewMeans
<1>2. /\ pc = "idle" /\ localSeq' = localSeq + 1 /\ subject' = o /\ pc' = "new"
      /\ UNCHANGED <<prices, levels, index, pool, outbound, tradeSeq, trades, verdict>>
      /\ UNCHANGED <<nextId, cancels>>
  BY <1>o DEF Takes
<1>3. subject = NoObj /\ trades = <<>> /\ verdict = "none"
  BY <1>o DEF Takes
<1>5. /\ inbound' \in Seq(Command) /\ Queued(o) /\ CommandsDistinct'
      /\ \A x : x # NoObj => (Queued(x)' <=> Queued(x) /\ x # o)
  BY <1>o DEF Takes
<1>6. o \in Objs /\ o # NoObj
  BY <1>o DEF Takes
<1>7. /\ pool[o] = 0 /\ ~ Sold(o) /\ o \notin Resting /\ ~ Maker(o)
      /\ order[o] \in OrderRecord /\ order[o].rem \in Nat /\ order[o].rem = order[o].qty
  BY <1>o DEF Takes
<1>8. localSeq \in Nat
  BY <1>1 DEF Parts, MachineTypeOK
<1>9. /\ order' \in [Objs -> OrderRecord]
      /\ \A x \in Objs : x # o => order'[x] = order[x]
      /\ order'[o].id = order[o].id /\ order'[o].side = order[o].side
      /\ order'[o].type = order[o].type /\ order'[o].price = order[o].price
      /\ order'[o].qty = order[o].qty /\ order'[o].rem = order[o].rem
  BY <1>o DEF Takes
<1>10. Book' /\ Resting' = Resting /\ Identified'
  BY <1>1, <1>2, <1>6, <1>7, <1>9, Touched
<1>11. MachineTypeOK'
  BY <1>1, <1>2, <1>5, <1>6, <1>8 DEF Parts, MachineTypeOK
<1>12. \A x \in Objs : /\ Queued(x)' <=> Queued(x) /\ x # o
                       /\ Sold(x)' <=> Sold(x)
                       /\ InHand(x)' <=> x = o
                       /\ ~ InHand(x) /\ ~ Sold(x)
  <2>1. ASSUME NEW x \in Objs PROVE ~ Sold(x)' /\ ~ Sold(x)
    BY <1>2, <1>3 DEF Sold
  <2>2. ASSUME NEW x \in Objs PROVE (InHand(x)' <=> x = o) /\ ~ InHand(x)
    BY <1>2, <1>3, EngineAssumption DEF InHand
  <2>3. ASSUME NEW x \in Objs PROVE Queued(x)' <=> Queued(x) /\ x # o
    BY <1>5, EngineAssumption
  <2> QED
    BY <2>1, <2>2, <2>3
<1>13. LevelsFilled' /\ MakersFilled'
  BY <1>1, <1>2, <1>3 DEF Parts, LevelsFilled, MakersFilled
<1>14. Handler'
  <2>1. \A x \in Objs : Queued(x)' => order'[x].rem = order'[x].qty
    BY <1>1, <1>9, <1>12 DEF Parts, Handler
  <2> QED
    BY <1>2, <1>3, <1>6, <1>7, <1>9, <2>1 DEF Handler
<1>15. Exclusive'
  <2>1. ASSUME NEW x \in Objs
        PROVE  /\ pool[x] \in {0, 1}
               /\ pool[x] = 0 <=> Queued(x)' \/ Sold(x)' \/ x \in Resting' \/ InHand(x)'
               /\ Queued(x)' => ~ Sold(x)' /\ x \notin Resting' /\ ~ InHand(x)'
               /\ Sold(x)' => x \notin Resting' /\ ~ InHand(x)'
               /\ x \in Resting' => ~ InHand(x)'
    <3>1. CASE x = o
      BY <1>1, <1>5, <1>7, <1>10, <1>12, <3>1 DEF Parts, Exclusive
    <3>2. CASE x # o
      BY <1>1, <1>10, <1>12, <3>2 DEF Parts, Exclusive
    <3> QED
      BY <3>1, <3>2
  <2> QED
    BY <1>2, <1>3, <1>5, <2>1 DEF Exclusive, CommandsDistinct
<1> QED
  BY <1>10, <1>11, <1>13, <1>14, <1>15, PartsMeanNext DEF Parts

(* The order in hand goes to the book.                                     *)
Rest ==
  /\ pc \in {"new", "emit"} /\ trades = <<>>
  /\ order[subject].type \in {"Limit", "PostOnly"} /\ order[subject].rem > 0
  /\ AddOrder(subject) /\ Conclude("Accepted")
  /\ UNCHANGED <<pool, inbound, outbound, localSeq, tradeSeq, subject, trades, envVars>>

Rests ==
  /\ pc' = "report" /\ verdict' = "Accepted"
  /\ UNCHANGED <<pool, inbound, outbound, localSeq, tradeSeq, subject, trades, nextId, cancels>>
  /\ Resting' = Resting \cup {subject}
  /\ \A x \in Objs : x # subject => order'[x] = order[x]
  /\ order'[subject].id = order[subject].id /\ order'[subject].side = order[subject].side
  /\ order'[subject].type = order[subject].type /\ order'[subject].price = order[subject].price
  /\ order'[subject].qty = order[subject].qty /\ order'[subject].rem = order[subject].rem
  /\ order'[subject].seq = order[subject].seq

LEMMA RestMeans ==
  ASSUME Parts, Rest
  PROVE  /\ Rests /\ Book'
         /\ \A s \in Sides, p \in Prices :
              levels'[s][p] = levels[s][p] \/ levels'[s][p].orders # <<>>
<1> DEFINE o == subject
<1>1. /\ pc \in {"new", "emit"} /\ order[o].type \in {"Limit", "PostOnly"} /\ order[o].rem > 0
      /\ AddOrder(o)
  BY DEF Rest
<1>2. /\ o \in Objs /\ o # NoObj /\ verdict = "none" /\ InHand(o) /\ pool[o] = 0
      /\ o \notin Resting /\ ~ Queued(o) /\ ~ Sold(o)
      /\ order[o] \in OrderRecord
      /\ order[o].id \in OrderIds /\ order[o].side \in Sides /\ order[o].price \in Prices
      /\ order[o].rem \in Nat
  BY <1>1, OrderInHand
<1>3. index[order[o].id] = NoLoc
  <2>1. ASSUME index[order[o].id] # NoLoc PROVE FALSE
    <3> DEFINE x == index[order[o].id].obj
    <3>1. x \in Resting /\ order[x].id = order[o].id
      BY <1>2, <2>1, Indexed DEF Parts, Book
    <3>2. x \in Objs
      BY <3>1, RestingAt DEF Parts, Book
    <3>3. pool[x] = 0
      BY <3>1, <3>2, HeldObjects
    <3> HIDE DEF x
    <3>4. x = o
      BY <1>2, <3>1, <3>2, <3>3 DEF Parts, Identified
    <3> QED
      BY <1>2, <3>1, <3>4
  <2> QED
    BY <2>1
<1>4. /\ Book' /\ Resting' = Resting \cup {o}
      /\ order' = [order EXCEPT ![o].status = "Open"]
      /\ \A s \in Sides, p \in Prices :
           levels'[s][p] = levels[s][p] \/ levels'[s][p].orders # <<>>
  BY <1>1, <1>2, <1>3, AddOrderKeeps DEF Parts
<1>5. /\ pc' = "report" /\ verdict' = "Accepted"
      /\ UNCHANGED <<pool, inbound, outbound, localSeq, tradeSeq, subject, trades, nextId, cancels>>
  BY DEF Rest, Conclude, envVars
<1>6. /\ \A x \in Objs : x # o => order'[x] = order[x]
      /\ order'[o].id = order[o].id /\ order'[o].side = order[o].side
      /\ order'[o].type = order[o].type /\ order'[o].price = order[o].price
      /\ order'[o].qty = order[o].qty /\ order'[o].rem = order[o].rem
      /\ order'[o].seq = order[o].seq
  <2>1. order \in [Objs -> OrderRecord]
    BY DEF Parts, Book, BookTypeOK
  <2> QED
    BY <1>2, <1>4, <2>1 DEF OrderRecord
<1> QED
  BY <1>4, <1>5, <1>6 DEF Rests

LEMMA RestKeeps ==
  ASSUME IInv, Rest
  PROVE  IInv'
<1> DEFINE o == subject
<1>1. Parts /\ pc \in {"new", "emit"} /\ trades = <<>> /\ order[subject].type \in {"Limit", "PostOnly"}
  BY PartsMean DEF Rest
<1>2. /\ o \in Objs /\ o # NoObj /\ verdict = "none" /\ InHand(o) /\ pool[o] = 0
      /\ o \notin Resting /\ ~ Queued(o) /\ ~ Sold(o)
      /\ order[o].rem \in Nat
  BY <1>1, OrderInHand
<1>4. /\ Book' /\ Resting' = Resting \cup {o}
      /\ \A s \in Sides, p \in Prices :
           levels'[s][p] = levels[s][p] \/ levels'[s][p].orders # <<>>
  BY <1>1, RestMeans DEF Rests
<1>5. /\ pc' = "report" /\ verdict' = "Accepted"
      /\ UNCHANGED <<pool, inbound, outbound, localSeq, tradeSeq, subject, trades, nextId, cancels>>
  BY <1>1, RestMeans DEF Rests
<1>6. /\ \A x \in Objs : x # o => order'[x] = order[x]
      /\ order'[o].id = order[o].id /\ order'[o].side = order[o].side
      /\ order'[o].type = order[o].type /\ order'[o].price = order[o].price
      /\ order'[o].qty = order[o].qty /\ order'[o].rem = order[o].rem
  BY <1>1, RestMeans DEF Rests
<1> HIDE DEF o
<1>7. Identified'
  <2>1. ASSUME NEW x \in Objs, pool[x] = 0
        PROVE  /\ order'[x].id \in OrderIds /\ order'[x].id <= nextId
               /\ order'[x].side \in Sides /\ order'[x].type \in OrderTypes
               /\ order'[x].type # "Market" => order'[x].price \in Prices
               /\ order'[x].rem <= order'[x].qty /\ order'[x].qty \in Qtys
    <3>1. /\ order[x].id \in OrderIds /\ order[x].id <= nextId
          /\ order[x].side \in Sides /\ order[x].type \in OrderTypes
          /\ order[x].type # "Market" => order[x].price \in Prices
          /\ order[x].rem <= order[x].qty /\ order[x].qty \in Qtys
      BY <1>1, <2>1 DEF Parts, Identified
    <3>2. CASE x = o
      BY <1>6, <3>1, <3>2
    <3>3. CASE x # o
      BY <1>6, <3>1, <3>3
    <3> QED
      BY <3>2, <3>3
  <2>2. \A x \in Objs : pool[x] > 0 => order'[x] = ZeroOrder
    BY <1>1, <1>2, <1>6 DEF Parts, Identified
  <2>3. \A x, m \in Objs : pool[x] = 0 /\ pool[m] = 0 /\ order'[x].id = order'[m].id => x = m
    <3>1. \A x \in Objs : order'[x].id = order[x].id
      BY <1>6
    <3> QED
      BY <1>1, <3>1 DEF Parts, Identified
  <2> QED
    BY <1>5, <2>1, <2>2, <2>3 DEF Identified
<1>8. MachineTypeOK'
  BY <1>1, <1>5 DEF Parts, MachineTypeOK, Verdicts
<1>9. \A x \in Objs : /\ Queued(x)' <=> Queued(x)
                      /\ ~ Sold(x) /\ ~ Sold(x)'
                      /\ InHand(x) <=> x = o
                      /\ ~ InHand(x)'
  BY <1>1, <1>2, <1>5 DEF Queued, Sold, InHand, o
<1>10. LevelsFilled' /\ MakersFilled'
  <2>1. \A s \in Sides, p \in Prices : levels[s][p] # NoNode => levels[s][p].orders # <<>>
    BY <1>1 DEF Parts, LevelsFilled
  <2> QED
    BY <1>1, <1>4, <1>5, <2>1 DEF LevelsFilled, MakersFilled
<1>11. Handler'
  <2>1. \A x \in Objs : Queued(x)' => order'[x].rem = order'[x].qty
    BY <1>1, <1>2, <1>6, <1>9 DEF Parts, Handler
  <2> QED
    BY <1>1, <1>2, <1>4, <1>5, <2>1 DEF Handler, o
<1>12. Exclusive'
  <2>1. ASSUME NEW x \in Objs
        PROVE  /\ pool[x] \in {0, 1}
               /\ pool[x] = 0 <=> Queued(x)' \/ Sold(x)' \/ x \in Resting' \/ InHand(x)'
               /\ Queued(x)' => ~ Sold(x)' /\ x \notin Resting' /\ ~ InHand(x)'
               /\ Sold(x)' => x \notin Resting' /\ ~ InHand(x)'
               /\ x \in Resting' => ~ InHand(x)'
    <3>1. CASE x = o
      BY <1>1, <1>2, <1>4, <1>9, <3>1 DEF Parts, Exclusive
    <3>2. CASE x # o
      BY <1>1, <1>4, <1>9, <3>2 DEF Parts, Exclusive
    <3> QED
      BY <3>1, <3>2
  <2> QED
    BY <1>1, <1>5, <2>1 DEF Parts, Exclusive
<1> QED
  BY <1>4, <1>7, <1>8, <1>10, <1>11, <1>12, PartsMeanNext DEF Parts

LEMMA RestSteps ==
  ASSUME Parts, RestPostOnly \/ RestRemainder
  PROVE  Rest
<1>1. CASE RestPostOnly
  <2>1. pc = "new" /\ trades = <<>> /\ order[subject].rem = order[subject].qty
    BY <1>1 DEF RestPostOnly, Parts, Handler
  <2>2. order[subject].rem > 0
    BY <2>1, OrderInHand
  <2> QED
    BY <1>1, <2>1, <2>2 DEF RestPostOnly, Rest
<1>2. CASE RestRemainder
  BY <1>2 DEF RestRemainder, Matched, Rest
<1> QED
  BY <1>1, <1>2

LEMMA RestStepKeeps ==
  ASSUME IInv, RestPostOnly \/ RestRemainder
  PROVE  IInv'
  BY PartsMean, RestSteps, RestKeeps

LEMMA LeaveLevelKeeps ==
  ASSUME IInv, LeaveLevel
  PROVE  IInv'
<1>1. Parts /\ pc = "fill"
  BY PartsMean DEF LeaveLevel
<1>2. /\ subject \in Objs /\ subject # NoObj /\ order[subject].side \in Sides /\ verdict = "none"
      /\ prices[Opposite(order[subject].side)] # <<>>
  BY <1>1, OrderInHand DEF Parts, Handler
<1>3. /\ PruneBest(subject) /\ pc' = "match"
      /\ UNCHANGED <<pool, inbound, outbound, localSeq, tradeSeq, subject, trades, verdict>>
      /\ UNCHANGED <<nextId, cancels>>
  BY DEF LeaveLevel, envVars
<1> DEFINE opp == Opposite(order[subject].side)
<1>4. /\ Book' /\ Resting' = Resting /\ order' = order
      /\ \A s \in Sides, p \in Prices : levels'[s][p] # NoNode =>
           /\ levels'[s][p] = levels[s][p]
           /\ s = opp /\ p = prices[opp][1] => levels'[s][p].orders # <<>>
  BY <1>1, <1>2, <1>3, PruneKeeps DEF Parts
<1>5. MachineTypeOK'
  BY <1>1, <1>3 DEF Parts, MachineTypeOK
<1>6. LevelsFilled'
  <2>1. ASSUME NEW s \in Sides, NEW p \in Prices, levels'[s][p] # NoNode
        PROVE  levels'[s][p].orders # <<>>
    <3>1. levels'[s][p] = levels[s][p] /\ levels[s][p] # NoNode
      BY <1>4, <2>1
    <3>2. levels[s][p].orders # <<>> \/ (s = opp /\ p = Best(s))
      BY <1>1, <3>1 DEF Parts, LevelsFilled
    <3>3. Best(opp) = prices[opp][1]
      BY <1>2 DEF Best
    <3> QED
      BY <1>4, <2>1, <3>1, <3>2, <3>3
  <2> QED
    BY <2>1 DEF LevelsFilled
<1>7. Identified'
  BY <1>1, <1>3, <1>4 DEF Parts, Identified
<1>8. MakersFilled'
  BY <1>1, <1>3, <1>4 DEF Parts, MakersFilled
<1>9. Handler'
  BY <1>1, <1>2, <1>3, <1>4 DEF Parts, Handler, Queued
<1>10. Exclusive'
  BY <1>1, <1>3, <1>4 DEF Parts, Exclusive, Queued, Sold, InHand
<1> QED
  BY <1>4, <1>5, <1>6, <1>7, <1>8, <1>9, <1>10, PartsMeanNext DEF Parts

\* The taker trades q with m, and c is the record of it.
Executes(m, q, c) ==
  /\ UNCHANGED <<pool, inbound, outbound, pc, localSeq, tradeSeq, subject, verdict>>
  /\ UNCHANGED <<nextId, cancels, prices>>
  /\ m # subject /\ m \in Resting /\ ~ Maker(m)
  /\ order[m].side = Opposite(order[subject].side)
  /\ order[m].price = prices[Opposite(order[subject].side)][1]
  /\ order[subject].rem > 0 /\ q <= order[subject].rem /\ q <= order[m].rem
  /\ q = order[m].rem \/ q = order[subject].rem
  /\ order[m] \in OrderRecord /\ order[m].rem \in Nat
  /\ pool[m] = 0 /\ ~ Sold(m) /\ ~ Queued(m) /\ ~ InHand(m)
  /\ order'[subject].id = order[subject].id /\ order'[subject].side = order[subject].side
  /\ order'[subject].type = order[subject].type
  /\ order'[subject].price = order[subject].price
  /\ order'[subject].qty = order[subject].qty
  /\ order'[subject].seq = order[subject].seq
  /\ order'[subject].rem = order[subject].rem - q
  /\ order'[subject].status = order[subject].status
  /\ order'[m].id = order[m].id /\ order'[m].side = order[m].side
  /\ order'[m].type = order[m].type /\ order'[m].price = order[m].price
  /\ order'[m].seq = order[m].seq
  /\ order'[m].qty = order[m].qty /\ order'[m].rem = order[m].rem - q
  /\ order'[m].status = IF q = order[m].rem THEN "Filled" ELSE "PartiallyFilled"
  /\ \A o \in Objs : o # subject /\ o # m => order'[o] = order[o]
  /\ Resting' = IF q = order[m].rem THEN Resting \ {m} ELSE Resting
  /\ c.maker = m /\ c.qty = q /\ trades' = Append(trades, c)

LEMMA FillMeans ==
  ASSUME Parts, FillMaker
  PROVE  \E m \in Objs, q \in Nat \ {0}, c \in Execution :
           /\ Fill(subject, m, q) /\ Executes(m, q, c) /\ Book'
           /\ \A s \in Sides, p \in Prices : levels'[s][p] # NoNode =>
                \/ levels'[s][p] = levels[s][p]
                \/ /\ s = Opposite(order[subject].side)
                   /\ p = prices[Opposite(order[subject].side)][1]
<1> DEFINE t == subject
           opp == Opposite(order[t].side)
<1>1. Parts /\ pc = "fill"
  BY DEF FillMaker
<1>2. /\ t \in Objs /\ t # NoObj /\ order[t].side \in Sides /\ verdict = "none"
      /\ t \notin Resting /\ ~ Queued(t) /\ ~ Sold(t) /\ ~ Maker(t) /\ InHand(t) /\ pool[t] = 0
      /\ order[t] \in OrderRecord /\ order[t].rem \in Nat
      /\ prices[opp] # <<>>
  BY <1>1, OrderInHand DEF Parts, Handler
<1>3. PICK m \in Objs, q \in 1 .. order[t].rem :
        /\ Fill(t, m, q)
        /\ trades' = Append(trades, [maker |-> m, price |-> Best(order[m].side), qty |-> q])
  BY DEF FillMaker
<1>4. UNCHANGED <<pool, inbound, outbound, pc, localSeq, tradeSeq, subject, verdict, nextId, cancels>>
  BY DEF FillMaker, envVars
<1>5. q \in Nat \ {0}
  BY <1>2
<1>6. /\ Book'
      /\ m \in Resting /\ m # t /\ order[m].side = opp /\ order[m].price = prices[opp][1]
      /\ q <= order[t].rem /\ q <= order[m].rem
      /\ q = order[m].rem \/ q = order[t].rem
      /\ order'[t] = [order[t] EXCEPT !.rem = order[t].rem - q]
      /\ order'[m] = [order[m] EXCEPT !.rem = order[m].rem - q,
                        !.status = IF q = order[m].rem THEN "Filled" ELSE "PartiallyFilled"]
      /\ \A o \in Objs : o # t /\ o # m => order'[o] = order[o]
      /\ Resting' = IF q = order[m].rem THEN Resting \ {m} ELSE Resting
      /\ \A s \in Sides, p \in Prices : levels'[s][p] # NoNode =>
           \/ levels'[s][p] = levels[s][p]
           \/ s = opp /\ p = prices[opp][1]
  BY <1>1, <1>2, <1>3, <1>5, FillKeeps DEF Parts
<1>7. prices' = prices /\ order[t].rem > 0
  BY <1>3 DEF Fill, FillsLevel
<1>8. opp \in Sides /\ prices[opp][1] \in Prices /\ Best(opp) = prices[opp][1]
  BY <1>1, <1>2, OppositeSide, BestLevel DEF Parts
<1>9. /\ order[m] \in OrderRecord /\ order[m].rem \in Nat
      /\ pool[m] = 0 /\ ~ Sold(m) /\ ~ Queued(m) /\ ~ InHand(m)
  BY <1>1, <1>6, HeldObjects DEF Parts, Exclusive
<1>10. ~ Maker(m)
  <2>1. ASSUME NEW k \in DOMAIN trades, trades[k].maker = m PROVE FALSE
    <3>1. order[m].status # "Filled"
      BY <1>1, <1>6 DEF Parts, Book, RestingOpen
    <3>2. order[t].rem = 0
      BY <1>1, <2>1, <3>1 DEF Parts, MakersFilled
    <3> QED
      BY <1>7, <3>2
  <2> QED
    BY <2>1 DEF Maker
<1>11. /\ order'[t].id = order[t].id /\ order'[t].side = order[t].side
       /\ order'[t].type = order[t].type /\ order'[t].price = order[t].price
       /\ order'[t].qty = order[t].qty /\ order'[t].rem = order[t].rem - q
       /\ order'[t].status = order[t].status /\ order'[t].seq = order[t].seq
  BY <1>2, <1>6 DEF OrderRecord
<1>12. /\ order'[m].id = order[m].id /\ order'[m].side = order[m].side
       /\ order'[m].type = order[m].type /\ order'[m].price = order[m].price
       /\ order'[m].qty = order[m].qty /\ order'[m].rem = order[m].rem - q
       /\ order'[m].seq = order[m].seq
       /\ order'[m].status = IF q = order[m].rem THEN "Filled" ELSE "PartiallyFilled"
  BY <1>6, <1>9 DEF OrderRecord
<1> DEFINE c == [maker |-> m, price |-> Best(order[m].side), qty |-> q]
<1>13. trades \in Seq(Execution) /\ c \in Execution /\ c.maker = m /\ trades' = Append(trades, c)
  BY <1>1, <1>3, <1>5, <1>6, <1>8 DEF Parts, MachineTypeOK, Execution
<1>14. c.qty = q
  OBVIOUS
<1> HIDE DEF c
<1>15. Executes(m, q, c)
  BY <1>4, <1>6, <1>7, <1>9, <1>10, <1>11, <1>12, <1>13, <1>14 DEF Executes
<1> QED
  BY <1>3, <1>5, <1>6, <1>13, <1>15

LEMMA FillMakerKeeps ==
  ASSUME IInv, FillMaker
  PROVE  IInv'
<1> DEFINE t == subject
           opp == Opposite(order[t].side)
<1>1. Parts /\ pc = "fill"
  BY PartsMean DEF FillMaker
<1>2. /\ t \in Objs /\ t # NoObj /\ order[t].side \in Sides /\ verdict = "none"
      /\ t \notin Resting /\ ~ Queued(t) /\ ~ Sold(t) /\ ~ Maker(t) /\ InHand(t) /\ pool[t] = 0
      /\ order[t] \in OrderRecord /\ order[t].rem \in Nat
      /\ prices[opp] # <<>>
  BY <1>1, OrderInHand DEF Parts, Handler
<1>3. PICK m \in Objs, q \in Nat \ {0}, c \in Execution :
        /\ Executes(m, q, c) /\ Book'
        /\ \A s \in Sides, p \in Prices : levels'[s][p] # NoNode =>
             \/ levels'[s][p] = levels[s][p]
             \/ s = opp /\ p = prices[opp][1]
  BY <1>1, FillMeans
<1>4. UNCHANGED <<pool, inbound, outbound, pc, localSeq, tradeSeq, subject, verdict, nextId, cancels>>
  BY <1>3 DEF Executes
<1>5. q \in Nat \ {0}
  OBVIOUS
<1>6. /\ Book'
      /\ m \in Resting /\ m # t /\ order[m].side = opp /\ order[m].price = prices[opp][1]
      /\ q <= order[t].rem /\ q <= order[m].rem
      /\ q = order[m].rem \/ q = order[t].rem
      /\ \A o \in Objs : o # t /\ o # m => order'[o] = order[o]
      /\ Resting' = IF q = order[m].rem THEN Resting \ {m} ELSE Resting
      /\ \A s \in Sides, p \in Prices : levels'[s][p] # NoNode =>
           \/ levels'[s][p] = levels[s][p]
           \/ s = opp /\ p = prices[opp][1]
  BY <1>3 DEF Executes
<1>7. prices' = prices /\ order[t].rem > 0
  BY <1>3 DEF Executes
<1>8. opp \in Sides /\ prices[opp][1] \in Prices /\ Best(opp) = prices[opp][1]
  BY <1>1, <1>2, OppositeSide, BestLevel DEF Parts
<1>9. /\ order[m] \in OrderRecord /\ order[m].rem \in Nat
      /\ pool[m] = 0 /\ ~ Sold(m) /\ ~ Queued(m) /\ ~ InHand(m)
  BY <1>3 DEF Executes
<1>10. ~ Maker(m)
  BY <1>3 DEF Executes
<1>11. /\ order'[t].id = order[t].id /\ order'[t].side = order[t].side
       /\ order'[t].type = order[t].type /\ order'[t].price = order[t].price
       /\ order'[t].qty = order[t].qty /\ order'[t].rem = order[t].rem - q
       /\ order'[t].status = order[t].status
  BY <1>3 DEF Executes
<1>12. /\ order'[m].id = order[m].id /\ order'[m].side = order[m].side
       /\ order'[m].type = order[m].type /\ order'[m].price = order[m].price
       /\ order'[m].qty = order[m].qty /\ order'[m].rem = order[m].rem - q
       /\ order'[m].status = IF q = order[m].rem THEN "Filled" ELSE "PartiallyFilled"
  BY <1>3 DEF Executes
<1>13. trades \in Seq(Execution) /\ c \in Execution /\ c.maker = m /\ trades' = Append(trades, c)
  BY <1>1, <1>3 DEF Parts, MachineTypeOK, Executes
<1>14. MakersDistinct
  BY <1>1 DEF Parts, Exclusive, MakersDistinct
<1>15. /\ trades' \in Seq(Execution) /\ Len(trades') = Len(trades) + 1 /\ Len(trades) \in Nat
       /\ DOMAIN trades = 1 .. Len(trades) /\ DOMAIN trades' = 1 .. Len(trades) + 1
       /\ \A i \in 1 .. Len(trades) : trades'[i] = trades[i]
       /\ trades'[Len(trades) + 1] = c
       /\ \A x : Maker(x)' <=> Maker(x) \/ c.maker = x
       /\ MakersDistinct'
  BY <1>10, <1>13, <1>14, TradePushed, SMTT(30)
<1> HIDE DEF t, opp
<1>16. MachineTypeOK'
  BY <1>1, <1>4, <1>15 DEF Parts, MachineTypeOK
<1>17. \A x \in Objs : /\ order'[x].id = order[x].id /\ order'[x].side = order[x].side
                       /\ order'[x].type = order[x].type /\ order'[x].price = order[x].price
                       /\ order'[x].qty = order[x].qty
                       /\ x # t /\ x # m => order'[x] = order[x]
  BY <1>6, <1>11, <1>12
<1>18. Identified'
  <2>1. ASSUME NEW x \in Objs, pool[x] = 0
        PROVE  /\ order'[x].id \in OrderIds /\ order'[x].id <= nextId
               /\ order'[x].side \in Sides /\ order'[x].type \in OrderTypes
               /\ order'[x].type # "Market" => order'[x].price \in Prices
               /\ order'[x].rem <= order'[x].qty /\ order'[x].qty \in Qtys
    <3>1. /\ order[x].id \in OrderIds /\ order[x].id <= nextId
          /\ order[x].side \in Sides /\ order[x].type \in OrderTypes
          /\ order[x].type # "Market" => order[x].price \in Prices
          /\ order[x].rem <= order[x].qty /\ order[x].qty \in Qtys
      BY <1>1, <2>1 DEF Parts, Identified
    <3>2. order'[x].rem <= order[x].rem /\ order'[x].rem \in Int /\ order[x].rem \in Nat
      <4>1. order[x].rem \in Nat
        BY <1>1, HeldObjects
      <4>2. CASE x = t
        BY <1>2, <1>5, <1>11, <4>1, <4>2
      <4>3. CASE x = m
        BY <1>5, <1>9, <1>12, <4>1, <4>3
      <4>4. CASE x # t /\ x # m
        BY <1>17, <4>1, <4>4
      <4> QED
        BY <4>2, <4>3, <4>4
    <3>3. order[x].qty \in Nat
      BY <3>1, EngineAssumption
    <3> QED
      BY <1>17, <3>1, <3>2, <3>3
  <2>2. \A x \in Objs : pool[x] > 0 => order'[x] = ZeroOrder
    BY <1>1, <1>2, <1>9, <1>17 DEF Parts, Identified
  <2>3. \A x, z \in Objs : pool[x] = 0 /\ pool[z] = 0 /\ order'[x].id = order'[z].id => x = z
    BY <1>1, <1>17 DEF Parts, Identified
  <2> QED
    BY <1>4, <2>1, <2>2, <2>3 DEF Identified
<1>19. LevelsFilled'
  <2>1. ASSUME NEW s \in Sides, NEW p \in Prices, levels'[s][p] # NoNode
        PROVE  levels'[s][p].orders # <<>> \/ (s = opp /\ p = Best(opp))
    <3>1. CASE levels'[s][p] = levels[s][p]
      BY <1>1, <2>1, <3>1 DEF Parts, LevelsFilled, opp, t
    <3>2. CASE s = opp /\ p = prices[opp][1]
      BY <1>8, <3>2
    <3> QED
      BY <1>6, <2>1, <3>1, <3>2
  <2>2. Best(opp)' = Best(opp)
    <3>1. opp' = opp
      BY <1>4, <1>11 DEF opp, t
    <3> QED
      BY <1>7, <3>1 DEF Best
  <2>3. Opposite(order'[subject'].side) = opp /\ pc' = "fill"
    BY <1>1, <1>4, <1>11 DEF opp, t
  <2>4. \A s : Best(s)' = Best(s)
    BY <1>7 DEF Best
  <2> QED
    BY <2>1, <2>3, <2>4 DEF LevelsFilled
<1>20. MakersFilled'
  <2>1. ASSUME NEW k \in 1 .. Len(trades)
        PROVE  order'[trades[k].maker].status = "Filled"
    <3>1. trades[k] \in Execution /\ trades[k].maker \in Objs
      <4>1. trades[k] \in Execution
        BY <1>13, <1>15
      <4> QED
        BY <4>1 DEF Execution
    <3>2. trades[k].maker # t /\ trades[k].maker # m
      BY <1>2, <1>10, <1>15 DEF Maker
    <3>3. order[trades[k].maker].status = "Filled"
      BY <1>1, <1>7, <1>15 DEF Parts, MakersFilled, t
    <3> QED
      BY <1>17, <3>1, <3>2, <3>3
  <2>2. order'[m].status = "Filled" \/ (m \in Resting' /\ order'[t].rem = 0)
    <3>1. CASE q = order[m].rem
      BY <1>12, <3>1
    <3>2. CASE q # order[m].rem
      BY <1>2, <1>5, <1>6, <1>11, <3>2
    <3> QED
      BY <3>1, <3>2
  <2>3. subject' = t
    BY <1>4 DEF t
  <2> SUFFICES ASSUME NEW k \in 1 .. Len(trades) + 1
               PROVE  \/ order'[trades'[k].maker].status = "Filled"
                      \/ k = Len(trades) + 1 /\ trades'[k].maker \in Resting' /\ order'[t].rem = 0
    BY <1>15, <2>3 DEF MakersFilled
  <2>4. CASE k \in 1 .. Len(trades)
    BY <1>15, <2>1, <2>4
  <2>5. CASE k = Len(trades) + 1
    BY <1>13, <1>15, <2>2, <2>5
  <2> QED
    BY <1>15, <2>4, <2>5
<1>21. Handler'
  <2>1. \A x \in Objs : Queued(x)' => order'[x].rem = order'[x].qty
    <3>1. ASSUME NEW x \in Objs, Queued(x) PROVE order'[x] = order[x] /\ order[x].rem = order[x].qty
      BY <1>1, <1>2, <1>9, <1>17, <3>1 DEF Parts, Handler
    <3>2. \A x \in Objs : Queued(x)' <=> Queued(x)
      BY <1>4 DEF Queued
    <3> QED
      BY <3>1, <3>2
  <2>2. prices'[Opposite(order'[subject'].side)] # <<>>
    BY <1>2, <1>4, <1>7, <1>11 DEF opp, t
  <2> QED
    BY <1>1, <1>2, <1>4, <2>1, <2>2 DEF Handler, t
<1>22. \A x \in Objs : /\ Queued(x)' <=> Queued(x)
                       /\ InHand(x)' <=> InHand(x)
                       /\ x # m => (Sold(x)' <=> Sold(x))
                       /\ Sold(m)' <=> q = order[m].rem
  <2>1. \A x \in Objs : (Queued(x)' <=> Queued(x)) /\ (InHand(x)' <=> InHand(x))
    BY <1>4 DEF Queued, InHand
  <2>2. ASSUME NEW x \in Objs PROVE Sold(x) <=> Maker(x) /\ order[x].status = "Filled"
    BY DEF Sold, Maker
  <2>3. ASSUME NEW x \in Objs PROVE Sold(x)' <=> Maker(x)' /\ order'[x].status = "Filled"
    BY DEF Sold, Maker
  <2>4. ASSUME NEW x \in Objs, x # m PROVE Sold(x)' <=> Sold(x)
    <3>1. order'[x].status = order[x].status
      BY <1>11, <1>17, <2>4
    <3>2. Maker(x)' <=> Maker(x)
      BY <1>13, <1>15, <2>4
    <3> QED
      BY <2>2, <2>3, <3>1, <3>2
  <2>5. Sold(m)' <=> q = order[m].rem
    <3>1. Maker(m)'
      BY <1>13, <1>15
    <3>2. order'[m].status = "Filled" <=> q = order[m].rem
      BY <1>12
    <3> QED
      BY <2>3, <3>1, <3>2
  <2> QED
    BY <2>1, <2>4, <2>5
<1>23. Exclusive'
  <2>1. ASSUME NEW x \in Objs
        PROVE  /\ pool[x] \in {0, 1}
               /\ pool[x] = 0 <=> Queued(x)' \/ Sold(x)' \/ x \in Resting' \/ InHand(x)'
               /\ Queued(x)' => ~ Sold(x)' /\ x \notin Resting' /\ ~ InHand(x)'
               /\ Sold(x)' => x \notin Resting' /\ ~ InHand(x)'
               /\ x \in Resting' => ~ InHand(x)'
    <3>1. CASE x = m
      BY <1>1, <1>6, <1>9, <1>22, <3>1 DEF Parts, Exclusive
    <3>2. CASE x # m
      BY <1>1, <1>6, <1>22, <3>2 DEF Parts, Exclusive
    <3> QED
      BY <3>1, <3>2
  <2> QED
    BY <1>1, <1>4, <1>15, <2>1 DEF Parts, Exclusive, MakersDistinct
<1> QED
  BY <1>6, <1>16, <1>18, <1>19, <1>20, <1>21, <1>23, PartsMeanNext DEF Parts

(* Publishing, and returning objects to the pool.                          *)
LEMMA ZeroOrderRecord == ZeroOrder \in OrderRecord
  BY DEF ZeroOrder, OrderRecord, Statuses

LEMMA ObjectReturned ==
  ASSUME Parts, NEW o \in Objs, o \notin Resting, pool[o] = 0, PutOrder(o),
         UNCHANGED <<prices, levels, index, nextId>>
  PROVE  /\ Book' /\ Resting' = Resting /\ Identified'
         /\ pool' \in [Objs -> Nat] /\ pool'[o] = 1
         /\ order'[o] = ZeroOrder
         /\ \A x \in Objs : x # o => order'[x] = order[x] /\ pool'[x] = pool[x]
<1>1. order \in [Objs -> OrderRecord] /\ pool \in [Objs -> Nat]
  BY DEF Parts, Book, BookTypeOK, MachineTypeOK
<1>2. /\ order' \in [Objs -> OrderRecord] /\ order'[o] = ZeroOrder
      /\ \A x \in Objs : x # o => order'[x] = order[x]
  BY <1>1, ZeroOrderRecord DEF PutOrder
<1>3. /\ pool' \in [Objs -> Nat] /\ pool'[o] = 1
      /\ \A x \in Objs : x # o => pool'[x] = pool[x]
  BY <1>1 DEF PutOrder
<1>4. \A x \in Resting : order'[x] = order[x]
  <2>1. ASSUME NEW x \in Resting PROVE x \in Objs
    BY RestingAt DEF Parts, Book
  <2> QED
    BY <1>2, <2>1
<1>5. Book' /\ Resting' = Resting
  BY <1>2, <1>4, BookFrame DEF Parts
<1>6. Identified'
  <2>1. ASSUME NEW x \in Objs, pool'[x] > 0 PROVE order'[x] = ZeroOrder
    BY <1>2, <1>3, <2>1 DEF Parts, Identified
  <2>2. ASSUME NEW x \in Objs, pool'[x] = 0
        PROVE  x # o /\ pool[x] = 0 /\ order'[x] = order[x]
    BY <1>2, <1>3, <2>2
  <2> QED
    BY <2>1, <2>2 DEF Parts, Identified
<1> QED
  BY <1>2, <1>3, <1>5, <1>6

LEMMA EventPushed ==
  ASSUME MachineTypeOK, NEW e \in Event, Push(e)
  PROVE  outbound' \in Seq(Event)
<1>1. outbound \in Seq(Event) /\ outbound' = Append(outbound, e)
  BY DEF MachineTypeOK, Push
<1> QED
  BY <1>1, AppendProperties

\* The first trade of the list, c with m, is published.
TradeMessage(m, c) == TradeEvent(localSeq, tradeSeq + 1, order[subject], order[m], c)

Publishes(m, c) ==
  /\ pc = "emit" /\ trades # <<>> /\ c = Head(trades) /\ c.maker = m /\ Maker(m)
  /\ trades' = Tail(trades) /\ tradeSeq' = tradeSeq + 1
  /\ TradeMessage(m, c) \in Event /\ outbound' = Append(outbound, TradeMessage(m, c))
  /\ UNCHANGED <<prices, levels, index, inbound, pc, localSeq, subject, verdict>>
  /\ UNCHANGED <<nextId, cancels>>
  /\ m # subject /\ (Sold(m) \/ m \in Resting) /\ pool[m] = 0 /\ order[m] \in OrderRecord
  /\ Sold(m) <=> order[m].status = "Filled"
  /\ Resting' = Resting
  /\ pool' \in [Objs -> Nat]
  /\ \A x \in Objs : x # m => order'[x] = order[x] /\ pool'[x] = pool[x]
  /\ IF Sold(m) THEN pool'[m] = 1 /\ order'[m] = ZeroOrder
     ELSE order'[m] = order[m] /\ pool'[m] = 0

LEMMA EmitMeans ==
  ASSUME Parts, EmitTrade
  PROVE  \E m \in Objs, c \in Execution : Publishes(m, c) /\ Book' /\ Identified'
<1>t. PICK tr : tr = Head(trades)
  OBVIOUS
<1>m. PICK m : m = tr.maker
  OBVIOUS
<1>2. /\ pc = "emit" /\ trades # <<>> /\ trades' = Tail(trades) /\ ReturnFilled(m)
      /\ tradeSeq' = tradeSeq + 1
      /\ Push(TradeMessage(m, tr))
      /\ UNCHANGED <<prices, levels, index, inbound, pc, localSeq, subject, verdict>>
      /\ UNCHANGED <<nextId, cancels>>
  BY <1>t, <1>m DEF EmitTrade, envVars, TradeMessage
<1>3. /\ subject \in Objs /\ subject # NoObj /\ verdict = "none" /\ ~ Maker(subject)
      /\ order[subject] \in OrderRecord
  BY <1>2, OrderInHand
<1>4. trades \in Seq(Execution) /\ MakersDistinct
  BY DEF Parts, MachineTypeOK, Exclusive, MakersDistinct
<1>5. tr \in Execution /\ Maker(m)
  BY <1>t, <1>m, <1>2, <1>4, TradePopped, SMTT(30)
<1>6. m \in Objs /\ tr.price \in Prices /\ tr.qty \in Nat
  BY <1>m, <1>5 DEF Execution
<1>7. m # subject /\ (Sold(m) \/ m \in Resting) /\ pool[m] = 0 /\ order[m] \in OrderRecord
  BY <1>3, <1>5, <1>6, HeldObjects
<1>8. TradeMessage(m, tr) \in Event /\ outbound' = Append(outbound, TradeMessage(m, tr))
  <2>1. localSeq \in Nat /\ tradeSeq + 1 \in Nat
    BY DEF Parts, MachineTypeOK
  <2>2. TradeMessage(m, tr) \in Event
    BY <1>3, <1>6, <1>7, <2>1 DEF TradeMessage, TradeEvent, Event, OrderRecord
  <2> QED
    BY <1>2, <2>2 DEF Push
<1>9. Sold(m) <=> order[m].status = "Filled"
  BY <1>5 DEF Sold, Maker
<1>10. /\ Book' /\ Resting' = Resting /\ Identified'
       /\ pool' \in [Objs -> Nat]
       /\ \A y \in Objs : y # m => order'[y] = order[y] /\ pool'[y] = pool[y]
       /\ IF Sold(m) THEN pool'[m] = 1 /\ order'[m] = ZeroOrder
          ELSE order'[m] = order[m] /\ pool'[m] = 0
  <2>1. CASE order[m].status = "Filled"
    <3>1. Sold(m) /\ m \notin Resting /\ PutOrder(m)
      BY <1>2, <1>6, <1>9, <2>1 DEF ReturnFilled, Parts, Exclusive
    <3> QED
      BY <1>2, <1>6, <1>7, <3>1, ObjectReturned
  <2>2. CASE order[m].status # "Filled"
    <3>1. ~ Sold(m) /\ UNCHANGED <<order, pool>>
      BY <1>2, <1>9, <2>2 DEF ReturnFilled
    <3>2. Book' /\ Resting' = Resting /\ Identified'
      BY <1>2, <3>1, Untouched
    <3> QED
      BY <1>7, <3>1, <3>2 DEF Parts, MachineTypeOK
  <2> QED
    BY <2>1, <2>2
<1>11. Publishes(m, tr)
  BY <1>2, <1>5, <1>t, <1>m, <1>7, <1>8, <1>9, <1>10 DEF Publishes
<1> QED
  BY <1>5, <1>6, <1>10, <1>11

LEMMA EmitTradeKeeps ==
  ASSUME IInv, EmitTrade
  PROVE  IInv'
<1>1. Parts
  BY PartsMean
<1>m. PICK m \in Objs, c \in Execution : Publishes(m, c) /\ Book' /\ Identified'
  BY <1>1, EmitMeans
<1>2. /\ pc = "emit" /\ trades # <<>> /\ trades' = Tail(trades) /\ tradeSeq' = tradeSeq + 1
      /\ UNCHANGED <<prices, levels, index, inbound, pc, localSeq, subject, verdict>>
      /\ UNCHANGED <<nextId, cancels>>
      /\ m = Head(trades).maker
  BY <1>m DEF Publishes
<1>3. /\ subject \in Objs /\ subject # NoObj /\ verdict = "none" /\ ~ Maker(subject)
      /\ order[subject] \in OrderRecord
  BY <1>1, <1>2, OrderInHand
<1>4. trades \in Seq(Execution) /\ MakersDistinct
  BY <1>1 DEF Parts, MachineTypeOK, Exclusive, MakersDistinct
<1>5. /\ trades' \in Seq(Execution) /\ Len(trades') = Len(trades) - 1 /\ Len(trades) \in Nat \ {0}
      /\ DOMAIN trades = 1 .. Len(trades) /\ DOMAIN trades' = 1 .. Len(trades) - 1
      /\ \A i \in 1 .. Len(trades) - 1 : trades'[i] = trades[i + 1]
      /\ MakersDistinct'
      /\ \A x : Maker(x)' <=> Maker(x) /\ x # m
  BY <1>2, <1>4, TradePopped, SMTT(30)
<1>7. m # subject /\ (Sold(m) \/ m \in Resting) /\ pool[m] = 0 /\ order[m] \in OrderRecord
  BY <1>m DEF Publishes
<1>8. outbound' \in Seq(Event)
  <2>1. outbound \in Seq(Event)
    BY <1>1 DEF Parts, MachineTypeOK
  <2>2. PICK e \in Event : outbound' = Append(outbound, e)
    BY <1>m DEF Publishes
  <2> QED
    BY <2>1, <2>2, AppendProperties
<1>10. /\ Book' /\ Resting' = Resting /\ Identified'
       /\ pool' \in [Objs -> Nat]
       /\ \A x \in Objs : x # m => order'[x] = order[x] /\ pool'[x] = pool[x]
       /\ IF Sold(m) THEN pool'[m] = 1 ELSE order'[m] = order[m] /\ pool'[m] = 0
  BY <1>m DEF Publishes
<1>11. MachineTypeOK'
  BY <1>1, <1>2, <1>5, <1>8, <1>10 DEF Parts, MachineTypeOK
<1>12. LevelsFilled'
  BY <1>1, <1>2 DEF Parts, LevelsFilled
<1>13. MakersFilled'
  <2> SUFFICES ASSUME NEW k \in 1 .. Len(trades) - 1
               PROVE  \/ order'[trades'[k].maker].status = "Filled"
                      \/ /\ k = Len(trades') /\ trades'[k].maker \in Resting'
                         /\ order'[subject'].rem = 0
    BY <1>5 DEF MakersFilled
  <2>x. PICK x : x = trades[k + 1].maker
    OBVIOUS
  <2>1. k + 1 \in 1 .. Len(trades) /\ trades'[k] = trades[k + 1]
    BY <1>5
  <2>2. trades[k + 1] \in Execution
    BY <1>4, <2>1
  <2>3. x \in Objs
    BY <2>x, <2>2 DEF Execution
  <2>4. x # m
    <3>1. Maker(x)'
      BY <1>5, <2>x, <2>1 DEF Maker
    <3> QED
      BY <1>5, <3>1
  <2>5. order[x].status = "Filled"
        \/ (k + 1 = Len(trades) /\ x \in Resting /\ order[subject].rem = 0)
    BY <1>1, <1>5, <2>x, <2>1 DEF Parts, MakersFilled
  <2>6. order'[x] = order[x] /\ order'[subject'] = order[subject]
    BY <1>2, <1>3, <1>7, <1>10, <2>3, <2>4
  <2>7. trades'[k].maker = x
    BY <2>x, <2>1
  <2> QED
    BY <1>5, <1>10, <2>5, <2>6, <2>7
<1>14. \A x \in Objs : /\ Queued(x)' <=> Queued(x)
                       /\ Sold(x)' <=> Sold(x) /\ x # m
                       /\ InHand(x)' <=> InHand(x)
  <2>1. ASSUME NEW x \in Objs PROVE Sold(x)' <=> Sold(x) /\ x # m
    <3>1. Sold(x) <=> Maker(x) /\ order[x].status = "Filled"
      BY DEF Sold, Maker
    <3>2. Sold(x)' <=> Maker(x)' /\ order'[x].status = "Filled"
      BY DEF Sold, Maker
    <3> QED
      BY <1>5, <1>10, <3>1, <3>2
  <2> QED
    BY <1>2, <2>1 DEF Queued, InHand
<1>15. Handler'
  <2>1. ASSUME NEW x \in Objs, Queued(x) PROVE order'[x] = order[x] /\ order[x].rem = order[x].qty
    BY <1>1, <1>7, <1>10, <2>1 DEF Parts, Handler, Exclusive
  <2>2. \A x \in Objs : Queued(x)' => order'[x].rem = order'[x].qty
    BY <1>14, <2>1
  <2> QED
    BY <1>2, <1>3, <2>2 DEF Handler
<1>16. Exclusive'
  <2>1. ASSUME NEW x \in Objs
        PROVE  /\ pool'[x] \in {0, 1}
               /\ pool'[x] = 0 <=> Queued(x)' \/ Sold(x)' \/ x \in Resting' \/ InHand(x)'
               /\ Queued(x)' => ~ Sold(x)' /\ x \notin Resting' /\ ~ InHand(x)'
               /\ Sold(x)' => x \notin Resting' /\ ~ InHand(x)'
               /\ x \in Resting' => ~ InHand(x)'
    <3>1. /\ pool[x] \in {0, 1}
          /\ pool[x] = 0 <=> Queued(x) \/ Sold(x) \/ x \in Resting \/ InHand(x)
          /\ Queued(x) => ~ Sold(x) /\ x \notin Resting /\ ~ InHand(x)
          /\ Sold(x) => x \notin Resting /\ ~ InHand(x)
          /\ x \in Resting => ~ InHand(x)
      BY <1>1 DEF Parts, Exclusive
    <3>2. CASE x = m
      BY <1>7, <1>10, <1>14, <3>1, <3>2
    <3>3. CASE x # m
      BY <1>10, <1>14, <3>1, <3>3
    <3> QED
      BY <3>2, <3>3
  <2> QED
    BY <1>1, <1>2, <1>5, <2>1 DEF Parts, Exclusive, MakersDistinct
<1> QED
  BY <1>10, <1>11, <1>12, <1>13, <1>15, <1>16, PartsMeanNext DEF Parts

\* The event of the command is published and the order is let go of.
Subject == IF subject = NoObj THEN ZeroOrder ELSE order[subject]
Message == OrderEvent(verdict, localSeq, Subject)

Answers ==
  /\ pc = "report" /\ pc' = "idle" /\ subject' = NoObj /\ verdict' = "none"
  /\ UNCHANGED <<prices, levels, index, inbound, localSeq, tradeSeq, trades, nextId, cancels>>
  /\ Message \in Event /\ outbound' = Append(outbound, Message)
  /\ verdict \in Verdicts /\ trades = <<>>
  /\ Resting' = Resting
  /\ pool' \in [Objs -> Nat]
  /\ \A x \in Objs : x # subject => order'[x] = order[x] /\ pool'[x] = pool[x]
  /\ IF verdict = "Accepted" \/ subject = NoObj
       THEN order' = order /\ pool' = pool
       ELSE pool'[subject] = 1 /\ subject \in Objs /\ subject \notin Resting

LEMMA ReportMeans ==
  ASSUME Parts, Report
  PROVE  Answers /\ Book' /\ Identified'
<1>2. /\ pc = "report" /\ Push(Message) /\ pc' = "idle" /\ subject' = NoObj /\ verdict' = "none"
      /\ IF verdict = "Accepted" \/ subject = NoObj
           THEN UNCHANGED <<order, pool>>
           ELSE PutOrder(subject)
      /\ UNCHANGED <<prices, levels, index, inbound, localSeq, tradeSeq, trades, nextId, cancels>>
  BY DEF Report, envVars, Message, Subject
<1>3. /\ verdict \in Verdicts /\ trades = <<>> /\ subject \in Objs \cup {NoObj}
      /\ localSeq \in Nat
  BY <1>2 DEF Parts, Handler, MachineTypeOK
<1>4. Message \in Event /\ outbound' = Append(outbound, Message)
  <2>1. Subject \in OrderRecord
    BY <1>3, ZeroOrderRecord, HeldObjects DEF Subject
  <2>2. Message \in Event
    BY <1>3, <2>1 DEF Message, OrderEvent, Event, OrderRecord
  <2> QED
    BY <1>2, <2>2 DEF Push
<1>5. /\ Book' /\ Resting' = Resting /\ Identified'
      /\ pool' \in [Objs -> Nat]
      /\ \A x \in Objs : x # subject => order'[x] = order[x] /\ pool'[x] = pool[x]
      /\ IF verdict = "Accepted" \/ subject = NoObj
           THEN order' = order /\ pool' = pool
           ELSE pool'[subject] = 1 /\ subject \in Objs /\ subject \notin Resting
  <2>1. CASE verdict = "Accepted" \/ subject = NoObj
    <3>1. UNCHANGED <<order, pool>>
      BY <1>2, <2>1
    <3>2. Book' /\ Resting' = Resting /\ Identified'
      BY <1>2, <3>1, Untouched
    <3> QED
      BY <2>1, <3>1, <3>2 DEF Parts, MachineTypeOK
  <2>2. CASE ~ (verdict = "Accepted" \/ subject = NoObj)
    <3>1. subject \in Objs /\ PutOrder(subject) /\ InHand(subject)
      BY <1>2, <1>3, <2>2 DEF InHand
    <3>2. subject \notin Resting /\ pool[subject] = 0
      BY <3>1 DEF Parts, Exclusive
    <3> QED
      BY <1>2, <2>2, <3>1, <3>2, ObjectReturned
  <2> QED
    BY <2>1, <2>2
<1> QED
  BY <1>2, <1>3, <1>4, <1>5 DEF Answers

LEMMA ReportKeeps ==
  ASSUME IInv, Report
  PROVE  IInv'
<1>1. Parts
  BY PartsMean
<1>a. Answers /\ Book' /\ Identified'
  BY <1>1, ReportMeans
<1>2. /\ pc = "report" /\ pc' = "idle" /\ subject' = NoObj /\ verdict' = "none"
      /\ UNCHANGED <<prices, levels, index, inbound, localSeq, tradeSeq, trades, nextId, cancels>>
  BY <1>a DEF Answers
<1>3. /\ trades = <<>> /\ subject \in Objs \cup {NoObj}
      /\ verdict = "Accepted" => subject \in Resting
      /\ MachineTypeOK
  BY <1>1, <1>2 DEF Parts, Handler, MachineTypeOK
<1>4. outbound' \in Seq(Event)
  <2>1. outbound \in Seq(Event)
    BY <1>3 DEF MachineTypeOK
  <2>2. PICK e \in Event : outbound' = Append(outbound, e)
    BY <1>a DEF Answers
  <2> QED
    BY <2>1, <2>2, AppendProperties
<1>5. /\ Book' /\ Resting' = Resting /\ Identified'
      /\ pool' \in [Objs -> Nat]
      /\ \A x \in Objs : x # subject => order'[x] = order[x] /\ pool'[x] = pool[x]
      /\ IF verdict = "Accepted" \/ subject = NoObj
           THEN order' = order /\ pool' = pool
           ELSE pool'[subject] = 1
  BY <1>a DEF Answers
<1>6. MachineTypeOK'
  BY <1>2, <1>3, <1>4, <1>5 DEF MachineTypeOK
<1>7. LevelsFilled' /\ MakersFilled'
  BY <1>1, <1>2, <1>3 DEF Parts, LevelsFilled, MakersFilled
<1>8. \A x \in Objs : /\ Queued(x)' <=> Queued(x)
                      /\ ~ Sold(x) /\ ~ Sold(x)'
                      /\ ~ InHand(x)'
  BY <1>2, <1>3, EngineAssumption DEF Queued, Sold, InHand
<1>9. Handler'
  <2>1. ASSUME NEW x \in Objs, Queued(x) PROVE order'[x] = order[x] /\ order[x].rem = order[x].qty
    <3>1. ~ InHand(x) /\ order[x].rem = order[x].qty
      BY <1>1, <2>1 DEF Parts, Handler, Exclusive
    <3> QED
      BY <1>5, <3>1 DEF InHand
  <2>2. \A x \in Objs : Queued(x)' => order'[x].rem = order'[x].qty
    BY <1>8, <2>1
  <2> QED
    BY <1>2, <1>3, <2>2 DEF Handler
<1>10. Exclusive'
  <2>1. ASSUME NEW x \in Objs
        PROVE  /\ pool'[x] \in {0, 1}
               /\ pool'[x] = 0 <=> Queued(x)' \/ Sold(x)' \/ x \in Resting' \/ InHand(x)'
               /\ Queued(x)' => ~ Sold(x)' /\ x \notin Resting' /\ ~ InHand(x)'
               /\ Sold(x)' => x \notin Resting' /\ ~ InHand(x)'
               /\ x \in Resting' => ~ InHand(x)'
    <3>1. /\ pool[x] \in {0, 1}
          /\ pool[x] = 0 <=> Queued(x) \/ x \in Resting \/ InHand(x)
          /\ Queued(x) => x \notin Resting /\ ~ InHand(x)
          /\ x \in Resting => ~ InHand(x)
      BY <1>1, <1>8 DEF Parts, Exclusive
    <3>2. CASE InHand(x)
      BY <1>3, <1>5, <1>8, <3>1, <3>2, EngineAssumption DEF InHand
    <3>3. CASE ~ InHand(x)
      BY <1>3, <1>5, <1>8, <3>1, <3>3 DEF InHand
    <3> QED
      BY <3>2, <3>3
  <2> QED
    BY <1>1, <1>2, <2>1 DEF Parts, Exclusive
<1> QED
  BY <1>5, <1>6, <1>7, <1>9, <1>10, PartsMeanNext DEF Parts

\* A cancel is taken; the order o it names is withdrawn, or there is none.
TakesCancel ==
  /\ pc = "idle" /\ pc' = "report" /\ subject = NoObj /\ trades = <<>> /\ verdict = "none"
  /\ localSeq' = localSeq + 1
  /\ UNCHANGED <<pool, outbound, tradeSeq, trades, nextId, cancels>>
  /\ inbound' \in Seq(Command) /\ CommandsDistinct'
  /\ \A x \in Objs : Queued(x)' <=> Queued(x)

NoneFound ==
  /\ subject' = NoObj /\ verdict' = "Rejected"
  /\ UNCHANGED <<order, prices, levels, index>>

Withdraws(o) ==
  /\ subject' = o /\ verdict' = "Cancelled"
  /\ o \in Objs /\ o \in Resting /\ Resting' = Resting \ {o}
  /\ pool[o] = 0 /\ order[o] \in OrderRecord /\ ~ Queued(o)
  /\ \A x \in Objs : x # o => order'[x] = order[x]
  /\ order'[o].id = order[o].id /\ order'[o].side = order[o].side
  /\ order'[o].type = order[o].type /\ order'[o].price = order[o].price
  /\ order'[o].qty = order[o].qty /\ order'[o].rem = order[o].rem
  /\ \A s \in Sides, p \in Prices : levels'[s][p] # NoNode =>
       levels'[s][p] = levels[s][p] \/ levels'[s][p].orders # <<>>

LEMMA ProcessCancelMeans ==
  ASSUME Parts, ProcessCancel
  PROVE  TakesCancel /\ (NoneFound \/ \E o \in Objs : Withdraws(o) /\ Book')
<1>i. PICK id : id = Head(inbound).id
  OBVIOUS
<1>2. /\ pc = "idle" /\ inbound # <<>> /\ inbound' = Tail(inbound) /\ Head(inbound).kind = "cancel"
      /\ localSeq' = localSeq + 1 /\ pc' = "report"
      /\ IF index[id] # NoLoc
           THEN CancelOrder(id) /\ subject' = index[id].obj /\ verdict' = "Cancelled"
           ELSE /\ subject' = NoObj /\ verdict' = "Rejected"
                /\ UNCHANGED <<order, prices, levels, index>>
      /\ UNCHANGED <<pool, outbound, tradeSeq, trades, nextId, cancels>>
  BY <1>i DEF ProcessCancel, PopCommand, Conclude, bookVars, envVars
<1>3. subject = NoObj /\ trades = <<>> /\ verdict = "none"
  BY <1>2 DEF Parts, Handler, MachineTypeOK
<1>4. inbound \in Seq(Command) /\ CommandsDistinct
  BY DEF Parts, MachineTypeOK, Exclusive, CommandsDistinct
<1>5. /\ inbound' \in Seq(Command) /\ Head(inbound) \in Command /\ CommandsDistinct'
      /\ \A x : x # NoObj => (Queued(x)' <=> Queued(x) /\ x # Head(inbound).obj)
  BY <1>2, <1>4, CommandPopped, SMTT(30)
<1>6. Head(inbound).obj = NoObj /\ id \in OrderIds
  BY <1>i, <1>2, <1>5 DEF Command
<1>7. TakesCancel
  <2>1. \A x \in Objs : Queued(x)' <=> Queued(x)
    BY <1>5, <1>6, EngineAssumption
  <2> QED
    BY <1>2, <1>3, <1>5, <2>1 DEF TakesCancel
<1>8. CASE index[id] = NoLoc
  BY <1>2, <1>7, <1>8 DEF NoneFound
<1>9. CASE index[id] # NoLoc
  <2>o. PICK o : o = index[id].obj
    OBVIOUS
  <2>1. CancelOrder(id) /\ subject' = o /\ verdict' = "Cancelled" /\ Book
    BY <1>2, <1>9, <2>o DEF Parts
  <2>2. /\ Book' /\ o \in Resting /\ Resting' = Resting \ {o}
        /\ order' = [order EXCEPT ![o].status = "Cancelled"]
        /\ \A s \in Sides, p \in Prices : levels'[s][p] # NoNode =>
             levels'[s][p] = levels[s][p] \/ levels'[s][p].orders # <<>>
    BY <1>6, <1>9, <2>o, <2>1, CancelOrderKeeps
  <2>3. o \in Objs
    BY <2>2, RestingAt DEF Parts, Book
  <2>4. /\ pool[o] = 0 /\ order[o] \in OrderRecord /\ ~ Queued(o)
    BY <2>2, <2>3, HeldObjects DEF Parts, Exclusive
  <2>5. /\ \A x \in Objs : x # o => order'[x] = order[x]
        /\ order'[o].id = order[o].id /\ order'[o].side = order[o].side
        /\ order'[o].type = order[o].type /\ order'[o].price = order[o].price
        /\ order'[o].qty = order[o].qty /\ order'[o].rem = order[o].rem
    <3>1. order \in [Objs -> OrderRecord]
      BY DEF Parts, Book, BookTypeOK
    <3> QED
      BY <2>2, <2>3, <2>4, <3>1 DEF OrderRecord
  <2>6. Withdraws(o)
    BY <2>1, <2>2, <2>3, <2>4, <2>5 DEF Withdraws
  <2> QED
    BY <1>7, <2>2, <2>3, <2>6
<1> QED
  BY <1>8, <1>9

LEMMA ProcessCancelKeeps ==
  ASSUME IInv, ProcessCancel
  PROVE  IInv'
<1>1. Parts
  BY PartsMean
<1>2. TakesCancel /\ (NoneFound \/ \E o \in Objs : Withdraws(o) /\ Book')
  BY <1>1, ProcessCancelMeans
<1>3. /\ subject = NoObj /\ trades = <<>> /\ verdict = "none" /\ localSeq \in Nat
      /\ pc = "idle" /\ pc' = "report" /\ localSeq' = localSeq + 1
      /\ UNCHANGED <<pool, outbound, tradeSeq, trades, nextId, cancels>>
  BY <1>1, <1>2 DEF TakesCancel, Parts, MachineTypeOK
<1>5. inbound' \in Seq(Command) /\ CommandsDistinct'
  BY <1>2 DEF TakesCancel
<1>7. \A x \in Objs : x # NoObj
  BY EngineAssumption
<1>8. \A x \in Objs : /\ Queued(x)' <=> Queued(x)
                      /\ ~ Sold(x) /\ ~ Sold(x)'
                      /\ ~ InHand(x)
                      /\ verdict' # "Accepted" => (InHand(x)' <=> x = subject')
  BY <1>2, <1>3, <1>7 DEF Sold, InHand, TakesCancel
<1>9. CASE NoneFound
  <2>0. UNCHANGED <<order, prices, levels, index>> /\ subject' = NoObj /\ verdict' = "Rejected"
    BY <1>9 DEF NoneFound
  <2>1. Book' /\ Resting' = Resting /\ Identified'
    BY <1>1, <1>3, <2>0, Untouched
  <2>2. MachineTypeOK'
    BY <1>1, <1>3, <1>5, <2>0 DEF Parts, MachineTypeOK, Verdicts
  <2>3. LevelsFilled' /\ MakersFilled'
    BY <1>1, <1>3, <2>0 DEF Parts, LevelsFilled, MakersFilled
  <2>4. Handler'
    BY <1>1, <1>3, <1>8, <2>0 DEF Parts, Handler
  <2>5. Exclusive'
    BY <1>1, <1>3, <1>5, <1>7, <1>8, <2>0, <2>1 DEF Parts, Exclusive, CommandsDistinct
  <2> QED
    BY <2>1, <2>2, <2>3, <2>4, <2>5, PartsMeanNext DEF Parts
<1>10. CASE \E o \in Objs : Withdraws(o) /\ Book'
  <2>0. PICK o \in Objs : Withdraws(o) /\ Book'
    BY <1>10
  <2>1. subject' = o /\ verdict' = "Cancelled"
    BY <2>0 DEF Withdraws
  <2>2. /\ Book' /\ o \in Resting /\ Resting' = Resting \ {o}
        /\ \A s \in Sides, p \in Prices : levels'[s][p] # NoNode =>
             levels'[s][p] = levels[s][p] \/ levels'[s][p].orders # <<>>
    BY <2>0 DEF Withdraws
  <2>3. o \in Objs
    OBVIOUS
  <2>4. pool[o] = 0 /\ order[o] \in OrderRecord /\ ~ Queued(o)
    BY <2>0 DEF Withdraws
  <2>5. /\ \A x \in Objs : x # o => order'[x] = order[x]
        /\ order'[o].id = order[o].id /\ order'[o].side = order[o].side
        /\ order'[o].type = order[o].type /\ order'[o].price = order[o].price
        /\ order'[o].qty = order[o].qty /\ order'[o].rem = order[o].rem
    BY <2>0 DEF Withdraws
  <2>6. Identified'
    <3>1. ASSUME NEW x \in Objs, pool[x] = 0
          PROVE  /\ order'[x].id \in OrderIds /\ order'[x].id <= nextId
                 /\ order'[x].side \in Sides /\ order'[x].type \in OrderTypes
                 /\ order'[x].type # "Market" => order'[x].price \in Prices
                 /\ order'[x].rem <= order'[x].qty /\ order'[x].qty \in Qtys
      <4>1. /\ order[x].id \in OrderIds /\ order[x].id <= nextId
            /\ order[x].side \in Sides /\ order[x].type \in OrderTypes
            /\ order[x].type # "Market" => order[x].price \in Prices
            /\ order[x].rem <= order[x].qty /\ order[x].qty \in Qtys
        BY <1>1, <3>1 DEF Parts, Identified
      <4>2. CASE x = o
        BY <2>5, <4>1, <4>2
      <4>3. CASE x # o
        BY <2>5, <4>1, <4>3
      <4> QED
        BY <4>2, <4>3
    <3>2. \A x \in Objs : pool[x] > 0 => order'[x] = ZeroOrder
      BY <1>1, <2>4, <2>5 DEF Parts, Identified
    <3>3. \A x, m \in Objs : pool[x] = 0 /\ pool[m] = 0 /\ order'[x].id = order'[m].id => x = m
      <4>1. \A x \in Objs : order'[x].id = order[x].id
        BY <2>5
      <4> QED
        BY <1>1, <4>1 DEF Parts, Identified
    <3> QED
      BY <1>3, <3>1, <3>2, <3>3 DEF Identified
  <2>7. MachineTypeOK'
    BY <1>1, <1>3, <1>5, <2>1, <2>3 DEF Parts, MachineTypeOK, Verdicts
  <2>8. LevelsFilled' /\ MakersFilled'
    <3>1. \A s \in Sides, p \in Prices : levels[s][p] # NoNode => levels[s][p].orders # <<>>
      BY <1>1, <1>3 DEF Parts, LevelsFilled
    <3> QED
      BY <1>3, <2>2, <3>1 DEF LevelsFilled, MakersFilled
  <2>9. Handler'
    <3>1. \A x \in Objs : Queued(x)' => order'[x].rem = order'[x].qty
      BY <1>1, <1>8, <2>4, <2>5 DEF Parts, Handler
    <3> QED
      BY <1>3, <1>7, <2>1, <2>3, <3>1 DEF Handler
  <2>10. Exclusive'
    <3>1. ASSUME NEW x \in Objs
          PROVE  /\ pool[x] \in {0, 1}
                 /\ pool[x] = 0 <=> Queued(x)' \/ Sold(x)' \/ x \in Resting' \/ InHand(x)'
                 /\ Queued(x)' => ~ Sold(x)' /\ x \notin Resting' /\ ~ InHand(x)'
                 /\ Sold(x)' => x \notin Resting' /\ ~ InHand(x)'
                 /\ x \in Resting' => ~ InHand(x)'
      <4>1. CASE x = o
        BY <1>1, <1>8, <2>1, <2>2, <2>4, <4>1 DEF Parts, Exclusive
      <4>2. CASE x # o
        BY <1>1, <1>8, <2>1, <2>2, <4>2 DEF Parts, Exclusive
      <4> QED
        BY <4>1, <4>2
    <3> QED
      BY <1>3, <1>5, <3>1 DEF Exclusive, CommandsDistinct
  <2> QED
    BY <2>2, <2>6, <2>7, <2>8, <2>9, <2>10, PartsMeanNext DEF Parts
<1> QED
  BY <1>2, <1>9, <1>10

-----------------------------------------------------------------------------
(* The invariant.                                                          *)

LEMMA InitHolds == Init => IInv
<1> SUFFICES ASSUME Init PROVE IInv
  OBVIOUS
<1>1. /\ order = [o \in Objs |-> ZeroOrder] /\ prices = [s \in Sides |-> <<>>]
      /\ levels = [s \in Sides |-> [p \in Prices |-> NoNode]]
      /\ index = [i \in OrderIds |-> NoLoc]
      /\ pool = [o \in Objs |-> 1] /\ nextId = 0 /\ cancels = 0
      /\ inbound = <<>> /\ outbound = <<>> /\ pc = "idle" /\ localSeq = 0 /\ tradeSeq = 0
      /\ subject = NoObj /\ trades = <<>> /\ verdict = "none"
  BY DEF Init, BookInit
<1>2. BookTypeOK
  <2>1. order \in [Objs -> OrderRecord]
    BY <1>1, ZeroOrderRecord
  <2>2. prices \in [Sides -> Seq(Prices)]
    BY <1>1
  <2>3. levels \in [Sides -> [Prices -> Node \cup {NoNode}]]
    BY <1>1
  <2> QED
    BY <1>1, <2>1, <2>2, <2>3 DEF BookTypeOK
<1>3. MachineTypeOK
  BY <1>1, EngineAssumption DEF MachineTypeOK
<1>4. Resting = {}
  BY <1>1 DEF Resting
<1>5. SlicesSorted
  <2>1. \A s \in Sides : ToSet(prices[s]) = {} /\ DOMAIN prices[s] = {}
    BY <1>1 DEF ToSet
  <2> QED
    BY <1>1, <2>1 DEF SlicesSorted
<1>6. IndexExact /\ QuantityExact /\ LevelsFilled /\ RestingOpen
  BY <1>1, <1>4 DEF IndexExact, QuantityExact, LevelsFilled, RestingOpen
<1>7. \A o \in Objs : ~ Queued(o) /\ ~ Sold(o) /\ ~ InHand(o)
  BY <1>1, EngineAssumption DEF Queued, Sold, InHand
<1>8. Identified /\ MakersFilled /\ Handler /\ Exclusive
  BY <1>1, <1>4, <1>7 DEF Identified, MakersFilled, Handler, Exclusive
<1> QED
  BY <1>2, <1>3, <1>5, <1>6, <1>8, PartsMean DEF Parts, Book

LEMMA SubmitKeeps ==
  ASSUME IInv, Submit
  PROVE  IInv'
<1>1. CASE \E o \in Objs, side \in Sides, type \in OrderTypes, price \in Prices, qty \in Qtys :
             SubmitOrder(o, side, type, IF type = "Market" THEN 0 ELSE price, qty)
  <2>1. PICK o \in Objs, side \in Sides, type \in OrderTypes, price \in Prices, qty \in Qtys :
          SubmitOrder(o, side, type, IF type = "Market" THEN 0 ELSE price, qty)
    BY <1>1
  <2> DEFINE limit == IF type = "Market" THEN 0 ELSE price
  <2>2. limit \in Prices \cup {0} /\ (type # "Market" => limit \in Prices)
    OBVIOUS
  <2>3. SubmitOrder(o, side, type, limit, qty)
    BY <2>1
  <2> HIDE DEF limit
  <2> QED
    BY <2>2, <2>3, SubmitOrderKeeps
<1>2. CASE \E id \in OrderIds : SubmitCancel(id)
  BY <1>2, SubmitCancelKeeps
<1> QED
  BY <1>1, <1>2 DEF Submit

LEMMA EngineStepKeeps ==
  ASSUME IInv, EngineStep
  PROVE  IInv'
<1>1. CASE ProcessNew \/ ProcessCancel
  BY <1>1, ProcessNewKeeps, ProcessCancelKeeps
<1>2. CASE HandlerStep
  BY <1>2, HandlerStepKeeps
<1>3. CASE RestPostOnly \/ RestRemainder
  BY <1>3, RestStepKeeps
<1>4. CASE FillMaker \/ LeaveLevel \/ EmitTrade
  BY <1>4, FillMakerKeeps, LeaveLevelKeeps, EmitTradeKeeps
<1>5. CASE Report
  BY <1>5, ReportKeeps
<1> QED
  BY <1>1, <1>2, <1>3, <1>4, <1>5 DEF EngineStep, HandlerStep

LEMMA Unchanged ==
  ASSUME IInv, UNCHANGED vars
  PROVE  IInv'
<1>1. /\ UNCHANGED <<order, prices, levels, index, pool, nextId, cancels, inbound, outbound>>
      /\ UNCHANGED <<pc, localSeq, tradeSeq, subject, trades, verdict>>
  BY DEF vars, bookVars, engVars, envVars
<1>2. Parts
  BY PartsMean
<1>3. Book' /\ Resting' = Resting /\ Identified'
  BY <1>1, <1>2, Untouched
<1>4. MachineTypeOK' /\ LevelsFilled' /\ MakersFilled' /\ Handler' /\ Exclusive'
  BY <1>1, <1>2, <1>3
  DEF Parts, MachineTypeOK, LevelsFilled, MakersFilled, Handler, Exclusive, Best, Queued, Sold, InHand
<1> QED
  BY <1>3, <1>4, PartsMeanNext DEF Parts

LEMMA StepKeeps ==
  ASSUME IInv, [Next]_vars
  PROVE  IInv'
  BY SubmitKeeps, EngineStepKeeps, PollEventKeeps, Unchanged DEF Next, PollNothing

(* With or without a consumer that keeps accounts, the invariant of the    *)
(* engine holds: the book is well formed at every step of a handler, and   *)
(* every order object is with exactly one of the pool, the inbound ring,   *)
(* the book, the list of trades and the handler.                           *)
THEOREM Invariance == Spec => []IInv
<1>1. IInv /\ [Next]_vars => IInv'
  BY StepKeeps
<1> QED
  BY InitHolds, <1>1, PTL DEF Spec

(* The same of an engine whose events a consumer polls and applies.        *)
THEOREM StreamInvariance == StreamSpec => []IInv
<1>1. StreamInit => IInv
  BY InitHolds DEF StreamInit
<1>2. IInv /\ [StreamNext]_streamVars => IInv'
  BY StepKeeps DEF StreamNext, streamVars, PollAndApply, Next
<1> QED
  BY <1>1, <1>2, PTL DEF StreamSpec

(* Type correctness of the engine, its book, its rings and the pool.       *)
THEOREM TypeCorrect == Spec => []TypeOK
<1>1. IInv => TypeOK
  BY DEF IInv
<1> QED
  BY Invariance, <1>1, PTL

LEMMA OwnersCounted ==
  ASSUME Parts, NEW o \in Objs
  PROVE  Owners(o) = 1
<1> DEFINE Commands == {k \in DOMAIN inbound : inbound[k].obj = o}
           Sales == {k \in DOMAIN trades : trades[k].maker = o /\ order[o].status = "Filled"}
<1>1. /\ pool[o] \in {0, 1}
      /\ pool[o] = 0 <=> Queued(o) \/ Sold(o) \/ o \in Resting \/ InHand(o)
      /\ Queued(o) => ~ Sold(o) /\ o \notin Resting /\ ~ InHand(o)
      /\ Sold(o) => o \notin Resting /\ ~ InHand(o)
      /\ o \in Resting => ~ InHand(o)
  BY DEF Parts, Exclusive
<1>2. Cardinality(Commands) = IF Queued(o) THEN 1 ELSE 0
  <2>1. CASE Queued(o)
    <3>1. PICK k \in DOMAIN inbound : inbound[k].obj = o
      BY <2>1 DEF Queued
    <3>2. \A j \in DOMAIN inbound : inbound[j].obj = o => j = k
      BY <3>1, EngineAssumption DEF Parts, Exclusive
    <3>3. Commands = {k}
      BY <3>1, <3>2
    <3> QED
      BY <2>1, <3>3, FS_Singleton
  <2>2. CASE ~ Queued(o)
    <3>1. Commands = {}
      BY <2>2 DEF Queued
    <3> QED
      BY <2>2, <3>1, FS_EmptySet
  <2> QED
    BY <2>1, <2>2
<1>3. Cardinality(Sales) = IF Sold(o) THEN 1 ELSE 0
  <2>1. CASE Sold(o)
    <3>1. PICK k \in DOMAIN trades : trades[k].maker = o
      BY <2>1 DEF Sold
    <3>2. \A j \in DOMAIN trades : trades[j].maker = o => j = k
      BY <3>1 DEF Parts, Exclusive
    <3>3. Sales = {k}
      BY <2>1, <3>1, <3>2 DEF Sold
    <3> QED
      BY <2>1, <3>3, FS_Singleton
  <2>2. CASE ~ Sold(o)
    <3>1. Sales = {}
      BY <2>2 DEF Sold
    <3> QED
      BY <2>2, <3>1, FS_EmptySet
  <2> QED
    BY <2>1, <2>2
<1>4. Owners(o) = pool[o] + Cardinality(Commands) + Cardinality(Sales)
                  + (IF o \in Resting THEN 1 ELSE 0) + (IF InHand(o) THEN 1 ELSE 0)
  BY DEF Owners, InHand
<1> HIDE DEF Commands, Sales
<1> QED
  BY <1>1, <1>2, <1>3, <1>4

(* Every order object has exactly one owner: PutOrder never returns one    *)
(* that is queued, rests or has still to be published, and none is lost or *)
(* returned twice.                                                         *)
THEOREM OwnedByOne == StreamSpec => []OneOwner
<1>1. IInv => OneOwner
  BY PartsMean, OwnersCounted DEF OneOwner
<1> QED
  BY StreamInvariance, <1>1, PTL

-----------------------------------------------------------------------------
(* What the consumer will know, event by event.                            *)

IsTrace(f, a, s, n) == f = [k \in 0 .. n |-> IF k = 0 THEN a ELSE After(f[k - 1], s[k])]

Follows(f, a, s, n) ==
  /\ f = [k \in 0 .. n |-> f[k]]
  /\ f[0] = a
  /\ \A k \in 1 .. n : f[k] = After(f[k - 1], s[k])

LEMMA TraceMeans ==
  ASSUME NEW f, NEW a, NEW s, NEW n \in Nat
  PROVE  IsTrace(f, a, s, n) <=> Follows(f, a, s, n)
  BY DEF IsTrace, Follows

LEMMA TraceExists ==
  ASSUME NEW a, NEW s, NEW n \in Nat
  PROVE  \E f : IsTrace(f, a, s, n)
<1> DEFINE Without == {m \in Nat : ~ \E f : IsTrace(f, a, s, m)}
<1> SUFFICES ASSUME Without # {} PROVE FALSE
  OBVIOUS
<1>1. PICK m \in Without : \A x \in Without : m <= x
  BY Least
<1>2. CASE m = 0
  <2> DEFINE f == [k \in 0 .. 0 |-> a]
  <2>1. IsTrace(f, a, s, 0)
    BY DEF IsTrace
  <2> QED
    BY <1>1, <1>2, <2>1
<1>3. CASE m # 0
  <2>1. m - 1 \in Nat /\ m - 1 \notin Without
    BY <1>1, <1>3
  <2>2. PICK f : IsTrace(f, a, s, m - 1)
    BY <2>1
  <2>3. f[0] = a /\ \A k \in 1 .. m - 1 : f[k] = After(f[k - 1], s[k])
    BY <2>1, <2>2, TraceMeans DEF Follows
  <2> DEFINE g == [k \in 0 .. m |-> IF k < m THEN f[k] ELSE After(f[m - 1], s[m])]
  <2>4. g[0] = a /\ g = [k \in 0 .. m |-> g[k]]
    BY <1>1, <1>3, <2>3
  <2>5. \A k \in 0 .. m : g[k] = IF k < m THEN f[k] ELSE After(f[m - 1], s[m])
    OBVIOUS
  <2> HIDE DEF g
  <2>6. ASSUME NEW k \in 1 .. m PROVE g[k] = After(g[k - 1], s[k])
    <3>1. k - 1 \in 0 .. m /\ k - 1 < m /\ k \in 0 .. m
      BY <1>1
    <3>2. g[k - 1] = f[k - 1]
      BY <2>5, <3>1
    <3>3. CASE k < m
      <4>1. k \in 1 .. m - 1
        BY <1>1, <3>3
      <4> QED
        BY <2>3, <2>5, <3>1, <3>2, <3>3, <4>1
    <3>4. CASE k = m
      BY <2>5, <3>1, <3>2, <3>4
    <3> QED
      BY <1>1, <3>3, <3>4
  <2>7. IsTrace(g, a, s, m)
    <3>1. \A k \in 1 .. m : g[k] = After(g[k - 1], s[k])
      BY <2>6
    <3>2. m \in Nat
      BY <1>1
    <3> HIDE DEF Without
    <3> QED
      BY <2>4, <3>1, <3>2, TraceMeans DEF Follows
  <2> QED
    BY <1>1, <2>7
<1> QED
  BY <1>2, <1>3

LEMMA TraceUnique ==
  ASSUME NEW a, NEW s, NEW n \in Nat, NEW f, NEW g, IsTrace(f, a, s, n), IsTrace(g, a, s, n)
  PROVE  f = g
<1> DEFINE Apart == {k \in 0 .. n : f[k] # g[k]}
<1>1. /\ f = [k \in 0 .. n |-> f[k]] /\ g = [k \in 0 .. n |-> g[k]]
      /\ f[0] = a /\ g[0] = a
      /\ \A k \in 1 .. n : f[k] = After(f[k - 1], s[k]) /\ g[k] = After(g[k - 1], s[k])
  BY TraceMeans DEF Follows
<1>2. ASSUME Apart # {} PROVE FALSE
  <2>1. PICK k \in Apart : \A x \in Apart : k <= x
    <3>1. Apart \in SUBSET Nat
      OBVIOUS
    <3> HIDE DEF Apart
    <3> QED
      BY <1>2, <3>1, Least
  <2>2. k # 0
    BY <1>1, <2>1
  <2>3. k - 1 \in 0 .. n /\ k \in 1 .. n /\ k - 1 \notin Apart
    BY <2>1, <2>2
  <2>4. f[k - 1] = g[k - 1]
    BY <2>3
  <2> QED
    BY <1>1, <2>1, <2>3, <2>4
<1>3. \A k \in 0 .. n : f[k] = g[k]
  BY <1>2
<1> QED
  BY <1>1, <1>3

LEMMA SeenTrace ==
  ASSUME Len(outbound) \in Nat
  PROVE  IsTrace(Seen, Now, outbound, Len(outbound))
<1>1. \E f : IsTrace(f, Now, outbound, Len(outbound))
  BY TraceExists
<1> QED
  BY <1>1 DEF IsTrace, Seen

LEMMA SeenTraceNext ==
  ASSUME Len(outbound') \in Nat
  PROVE  IsTrace(Seen', Now', outbound', Len(outbound'))
<1>1. \E f : IsTrace(f, Now', outbound', Len(outbound'))
  BY TraceExists
<1> QED
  BY <1>1 DEF IsTrace, Seen

\* A step that publishes nothing and polls nothing.
LEMMA SeenKept ==
  ASSUME Len(outbound) \in Nat, outbound' = outbound, UNCHANGED consumerVars
  PROVE  Seen' = Seen /\ Len(outbound') = Len(outbound)
<1>1. Now' = Now /\ Len(outbound') = Len(outbound)
  BY DEF Now, consumerVars
<1>2. IsTrace(Seen, Now, outbound, Len(outbound))
  BY SeenTrace
<1>3. IsTrace(Seen', Now', outbound', Len(outbound'))
  BY <1>1, SeenTraceNext
<1>4. IsTrace(Seen', Now, outbound, Len(outbound))
  BY <1>1, <1>3
<1> QED
  BY <1>1, <1>2, <1>4, TraceUnique

LEMMA SeenPushed ==
  ASSUME NEW S, outbound \in Seq(S), NEW e \in S, outbound' = Append(outbound, e),
         UNCHANGED consumerVars
  PROVE  /\ Len(outbound) \in Nat /\ Len(outbound') = Len(outbound) + 1
         /\ \A k \in 0 .. Len(outbound) : Seen'[k] = Seen[k]
         /\ Seen'[Len(outbound) + 1] = After(Seen[Len(outbound)], e)
         /\ \A k \in 1 .. Len(outbound) : outbound'[k] = outbound[k]
         /\ outbound'[Len(outbound) + 1] = e
<1>1. PICK n : n = Len(outbound)
  OBVIOUS
<1>2. /\ n \in Nat /\ Len(outbound') = n + 1
      /\ \A k \in 1 .. n : outbound'[k] = outbound[k]
      /\ outbound'[n + 1] = e
  BY <1>1, AppendProperties, LenProperties
<1>3. Now' = Now
  BY DEF Now, consumerVars
<1>4. IsTrace(Seen, Now, outbound, n)
  BY <1>1, <1>2, SeenTrace
<1>5. IsTrace(Seen', Now, outbound', n + 1)
  BY <1>2, <1>3, SeenTraceNext
<1>6. Seen'[0] = Now /\ \A k \in 1 .. n + 1 : Seen'[k] = After(Seen'[k - 1], outbound'[k])
  <2>1. n + 1 \in Nat
    BY <1>2
  <2>2. Follows(Seen', Now, outbound', n + 1)
    BY <1>5, <2>1, TraceMeans
  <2> QED
    BY <2>1, <2>2 DEF Follows
<1> DEFINE g == [k \in 0 .. n |-> Seen'[k]]
<1>7. /\ g = [k \in 0 .. n |-> g[k]] /\ g[0] = Now
      /\ \A k \in 1 .. n : g[k] = After(g[k - 1], outbound[k])
  <2>1. \A k \in 0 .. n : g[k] = Seen'[k]
    OBVIOUS
  <2>2. 0 \in 0 .. n /\ \A k \in 1 .. n : k \in 0 .. n /\ k - 1 \in 0 .. n /\ k \in 1 .. n + 1
    BY <1>2
  <2> QED
    BY <1>2, <1>6, <2>1, <2>2
<1>8. \A k \in 0 .. n : g[k] = Seen'[k]
  OBVIOUS
<1> HIDE DEF g
<1>9. g = Seen
  <2>1. IsTrace(g, Now, outbound, n)
    <3>1. n \in Nat /\ Follows(g, Now, outbound, n)
      BY <1>2, <1>7 DEF Follows
    <3> QED
      BY <3>1, TraceMeans
  <2> QED
    BY <1>2, <1>4, <2>1, TraceUnique
<1>10. \A k \in 0 .. n : Seen'[k] = Seen[k]
  BY <1>8, <1>9
<1>11. Seen'[n + 1] = After(Seen[n], e)
  <2>1. n \in 0 .. n /\ n + 1 \in 1 .. n + 1 /\ (n + 1) - 1 = n
    BY <1>2
  <2>2. Seen'[n + 1] = After(Seen'[n], outbound'[n + 1])
    BY <1>6, <2>1
  <2> QED
    BY <1>2, <1>10, <2>1, <2>2
<1> QED
  BY <1>1, <1>2, <1>10, <1>11

LEMMA SeenPolled ==
  ASSUME NEW S, outbound \in Seq(S), outbound # <<>>, outbound' = Tail(outbound),
         Now' = After(Now, Head(outbound))
  PROVE  /\ Len(outbound) \in Nat \ {0} /\ Len(outbound') = Len(outbound) - 1
         /\ Seen[0] = Now /\ Head(outbound) = outbound[1]
         /\ \A k \in 0 .. Len(outbound) - 1 : Seen'[k] = Seen[k + 1]
         /\ \A k \in 1 .. Len(outbound) - 1 : outbound'[k] = outbound[k + 1]
<1>1. PICK n : n = Len(outbound)
  OBVIOUS
<1>2. /\ n \in Nat \ {0} /\ Len(outbound') = n - 1 /\ Head(outbound) = outbound[1]
      /\ \A k \in 1 .. n - 1 : outbound'[k] = outbound[k + 1]
  BY <1>1, HeadTailProperties, LenProperties, EmptySeq
<1>3. IsTrace(Seen, Now, outbound, n)
  BY <1>1, <1>2, SeenTrace
<1>4. IsTrace(Seen', Now', outbound', n - 1)
  BY <1>2, SeenTraceNext
<1>5. Seen[0] = Now /\ \A k \in 1 .. n : Seen[k] = After(Seen[k - 1], outbound[k])
  BY <1>2, <1>3, TraceMeans DEF Follows
<1> DEFINE g == [k \in 0 .. n - 1 |-> Seen[k + 1]]
<1>6. \A k \in 0 .. n - 1 : g[k] = Seen[k + 1]
  OBVIOUS
<1>7. g = [k \in 0 .. n - 1 |-> g[k]]
  OBVIOUS
<1> HIDE DEF g
<1>8. g[0] = Now'
  <2>1. 0 \in 0 .. n - 1 /\ 1 \in 1 .. n
    BY <1>2
  <2>2. g[0] = Seen[1] /\ Seen[1] = After(Seen[0], outbound[1])
    BY <1>5, <1>6, <2>1
  <2> QED
    BY <1>2, <1>5, <2>2
<1>9. ASSUME NEW k \in 1 .. n - 1 PROVE g[k] = After(g[k - 1], outbound'[k])
  <2>1. /\ k \in 0 .. n - 1 /\ k - 1 \in 0 .. n - 1 /\ k + 1 \in 1 .. n
        /\ (k + 1) - 1 = k /\ (k - 1) + 1 = k
    BY <1>2
  <2>2. g[k] = Seen[k + 1] /\ g[k - 1] = Seen[k]
    BY <1>6, <2>1
  <2>3. Seen[k + 1] = After(Seen[k], outbound[k + 1])
    BY <1>5, <2>1
  <2> QED
    BY <1>2, <2>2, <2>3
<1>10. g = Seen'
  <2>1. n - 1 \in Nat
    BY <1>2
  <2>2. IsTrace(g, Now', outbound', n - 1)
    <3>1. Follows(g, Now', outbound', n - 1)
      BY <1>7, <1>8, <1>9 DEF Follows
    <3> QED
      BY <2>1, <3>1, TraceMeans
  <2> QED
    BY <1>4, <2>1, <2>2, TraceUnique
<1> QED
  BY <1>1, <1>2, <1>5, <1>6, <1>10

-----------------------------------------------------------------------------
(* The trades that are still to be published.                              *)

MakersIn(s) == {s[k].maker : k \in DOMAIN s}
QtyIn(s, m) == LET k == CHOOSE k \in DOMAIN s : s[k].maker = m IN s[k].qty
LagIn(s, o) == IF o \in MakersIn(s) THEN QtyIn(s, o) ELSE 0
LagsIn(s) == [o \in Objs |-> LagIn(s, o)]
Owing(s) == Cardinality(Units(MakersIn(s), LagsIn(s)))
DistinctIn(s) == \A i, j \in DOMAIN s : s[i].maker = s[j].maker => i = j

LEMMA LagsAre ==
  ASSUME NEW s \in Seq(Execution), DistinctIn(s)
  PROVE  /\ MakersIn(s) \in SUBSET Objs /\ IsFiniteSet(MakersIn(s))
         /\ \A k \in DOMAIN s : s[k].maker \in MakersIn(s) /\ LagIn(s, s[k].maker) = s[k].qty
         /\ \A o \in Objs : LagIn(s, o) \in Nat /\ LagsIn(s)[o] = LagIn(s, o)
         /\ Owing(s) \in Nat
<1>1. \A k \in DOMAIN s : s[k] \in Execution
  OBVIOUS
<1>2. \A k \in DOMAIN s : s[k].maker \in Objs /\ s[k].qty \in Nat
  BY <1>1 DEF Execution
<1>3. MakersIn(s) \in SUBSET Objs
  BY <1>2 DEF MakersIn
<1>4. ASSUME NEW k \in DOMAIN s
      PROVE  s[k].maker \in MakersIn(s) /\ LagIn(s, s[k].maker) = s[k].qty
  <2>1. PICK j : j = CHOOSE i \in DOMAIN s : s[i].maker = s[k].maker
    OBVIOUS
  <2>2. j \in DOMAIN s /\ s[j].maker = s[k].maker
    BY <2>1
  <2>3. j = k
    BY <2>2 DEF DistinctIn
  <2>4. QtyIn(s, s[k].maker) = s[k].qty
    BY <2>1, <2>3 DEF QtyIn
  <2>5. s[k].maker \in MakersIn(s)
    BY DEF MakersIn
  <2> QED
    BY <2>4, <2>5 DEF LagIn
<1>5. ASSUME NEW o \in Objs PROVE LagIn(s, o) \in Nat
  <2>1. CASE o \in MakersIn(s)
    <3>1. PICK k \in DOMAIN s : s[k].maker = o
      BY <2>1 DEF MakersIn
    <3> QED
      BY <1>2, <1>4, <3>1
  <2>2. CASE o \notin MakersIn(s)
    BY <2>2 DEF LagIn
  <2> QED
    BY <2>1, <2>2
<1>6. IsFiniteSet(MakersIn(s))
  <2> DEFINE f == [k \in DOMAIN s |-> s[k].maker]
  <2>1. f \in Surjection(DOMAIN s, MakersIn(s))
    BY DEF Surjection, MakersIn
  <2>2. DOMAIN s = 1 .. Len(s) /\ Len(s) \in Nat
    BY LenProperties
  <2>3. IsFiniteSet(DOMAIN s)
    BY <2>2, FS_Interval
  <2> QED
    BY <2>1, <2>3, FS_Surjection
<1>7. \A o \in Objs : LagsIn(s)[o] = LagIn(s, o)
  BY DEF LagsIn
<1>8. Owing(s) \in Nat
  <2>1. \A o \in MakersIn(s) : LagsIn(s)[o] \in Nat
    BY <1>3, <1>5, <1>7
  <2> QED
    BY <1>6, <2>1, UnitsFinite DEF Owing
<1> QED
  BY <1>3, <1>4, <1>5, <1>6, <1>7, <1>8

\* One trade more, of a maker that had none.
LEMMA LagsWith ==
  ASSUME NEW s \in Seq(Execution), DistinctIn(s), NEW t \in Seq(Execution), DistinctIn(t),
         NEW c \in Execution, c.maker \notin MakersIn(s),
         MakersIn(t) = MakersIn(s) \cup {c.maker},
         \E k \in DOMAIN t : t[k] = c,
         \A k \in DOMAIN s : \E j \in DOMAIN t : t[j] = s[k]
  PROVE  /\ LagIn(s, c.maker) = 0 /\ LagIn(t, c.maker) = c.qty
         /\ \A o : o # c.maker => LagIn(t, o) = LagIn(s, o)
         /\ Owing(t) = Owing(s) + c.qty
<1> DEFINE m == c.maker
<1>1. LagIn(s, m) = 0
  BY DEF LagIn
<1>2. LagIn(t, m) = c.qty /\ m \in MakersIn(t)
  BY LagsAre
<1>3. ASSUME NEW o, o # m PROVE LagIn(t, o) = LagIn(s, o)
  <2>1. CASE o \in MakersIn(s)
    <3>1. PICK k \in DOMAIN s : s[k].maker = o
      BY <2>1 DEF MakersIn
    <3>2. PICK j \in DOMAIN t : t[j] = s[k]
      OBVIOUS
    <3>3. LagIn(s, s[k].maker) = s[k].qty
      BY LagsAre
    <3>4. LagIn(t, t[j].maker) = t[j].qty
      BY LagsAre
    <3> QED
      BY <3>1, <3>2, <3>3, <3>4
  <2>2. CASE o \notin MakersIn(s)
    BY <1>3, <2>2 DEF LagIn
  <2> QED
    BY <2>1, <2>2
<1>4. /\ MakersIn(t) \in SUBSET Objs /\ IsFiniteSet(MakersIn(t))
      /\ \A o \in Objs : LagIn(t, o) \in Nat /\ LagsIn(t)[o] = LagIn(t, o)
      /\ \A o \in Objs : LagsIn(s)[o] = LagIn(s, o)
      /\ Owing(s) \in Nat /\ Owing(t) \in Nat
  BY LagsAre
<1>5. m \in Objs /\ c.qty \in Nat
  BY DEF Execution
<1>6. Cardinality(Units(MakersIn(t) \ {m}, LagsIn(t))) = Owing(t) - LagsIn(t)[m]
  <2>1. \A o \in MakersIn(t) : LagsIn(t)[o] \in Nat
    BY <1>4
  <2>2. m \in MakersIn(t) /\ IsFiniteSet(MakersIn(t))
    BY <1>2, <1>4
  <2>3. PICK S, r, x : S = MakersIn(t) /\ r = LagsIn(t) /\ x = m
    OBVIOUS
  <2>4. Cardinality(Units(S \ {x}, r)) = Cardinality(Units(S, r)) - r[x]
    <3>1. IsFiniteSet(S) /\ (\A o \in S : r[o] \in Nat) /\ x \in S
      BY <2>1, <2>2, <2>3
    <3> QED
      BY <3>1, UnitsWithout
  <2> QED
    BY <2>3, <2>4 DEF Owing
<1>7. Units(MakersIn(t) \ {m}, LagsIn(t)) = Units(MakersIn(s), LagsIn(s))
  <2>1. MakersIn(t) \ {m} = MakersIn(s)
    OBVIOUS
  <2>2. \A o \in MakersIn(s) : LagsIn(t)[o] = LagsIn(s)[o]
    BY <1>3, <1>4
  <2> QED
    BY <2>1, <2>2 DEF Units
<1>8. LagsIn(t)[m] = c.qty
  BY <1>2, <1>4, <1>5
<1> QED
  BY <1>1, <1>2, <1>3, <1>4, <1>5, <1>6, <1>7, <1>8 DEF Owing

LEMMA LagTerms ==
  ASSUME trades \in Seq(Execution), MakersDistinct
  PROVE  /\ Makers = MakersIn(trades) /\ DistinctIn(trades)
         /\ \A o : Lag(o) = LagIn(trades, o)
         /\ \A o : o \in Makers <=> Maker(o)
         /\ Pending = Owing(trades) /\ Pending \in Nat
         /\ \A o \in Objs : Lag(o) \in Nat
<1>1. Makers = MakersIn(trades) /\ DistinctIn(trades)
  BY DEF Makers, MakersIn, DistinctIn, MakersDistinct
<1>2. \A o : Lag(o) = LagIn(trades, o)
  BY DEF Lag, LagIn, Traded, QtyIn, Makers, MakersIn
<1>3. \A o : o \in Makers <=> Maker(o)
  BY DEF Makers, Maker
<1>4. /\ MakersIn(trades) \in SUBSET Objs /\ Owing(trades) \in Nat
      /\ \A o \in Objs : LagIn(trades, o) \in Nat /\ LagsIn(trades)[o] = LagIn(trades, o)
  BY <1>1, LagsAre
<1>5. Pending = Owing(trades)
  <2>1. \A m \in Makers : LagsIn(trades)[m] = Traded(m)
    BY <1>1, <1>2, <1>4 DEF Lag
  <2> QED
    BY <1>1, <2>1 DEF Pending, Owing, Units
<1> QED
  BY <1>1, <1>2, <1>3, <1>4, <1>5

LEMMA LagTermsNext ==
  ASSUME trades' \in Seq(Execution), MakersDistinct'
  PROVE  /\ Makers' = MakersIn(trades') /\ DistinctIn(trades')
         /\ \A o : Lag(o)' = LagIn(trades', o)
         /\ \A o : o \in Makers' <=> Maker(o)'
         /\ Pending' = Owing(trades') /\ Pending' \in Nat
         /\ \A o \in Objs : Lag(o)' \in Nat
<1>1. Makers' = MakersIn(trades') /\ DistinctIn(trades')
  BY DEF Makers, MakersIn, DistinctIn, MakersDistinct
<1>2. \A o : Lag(o)' = LagIn(trades', o)
  BY DEF Lag, LagIn, Traded, QtyIn, Makers, MakersIn
<1>3. \A o : o \in Makers' <=> Maker(o)'
  BY DEF Makers, Maker
<1>4. /\ MakersIn(trades') \in SUBSET Objs /\ Owing(trades') \in Nat
      /\ \A o \in Objs : LagIn(trades', o) \in Nat /\ LagsIn(trades')[o] = LagIn(trades', o)
  BY <1>1, LagsAre
<1>5. Pending' = Owing(trades')
  <2>1. \A m \in Makers' : LagsIn(trades')[m] = Traded(m)'
    BY <1>1, <1>2, <1>4 DEF Lag
  <2> QED
    BY <1>1, <2>1 DEF Pending, Owing, Units
<1> QED
  BY <1>1, <1>2, <1>3, <1>4, <1>5

LEMMA LagsPushed ==
  ASSUME trades \in Seq(Execution), MakersDistinct,
         NEW c \in Execution, ~ Maker(c.maker), trades' = Append(trades, c)
  PROVE  /\ Lag(c.maker) = 0 /\ Lag(c.maker)' = c.qty
         /\ \A o : o # c.maker => Lag(o)' = Lag(o)
         /\ \A o : o \in Makers' <=> o \in Makers \/ o = c.maker
         /\ Pending' = Pending + c.qty
<1>1. PICK m : m = c.maker
  OBVIOUS
<1>2. /\ trades' \in Seq(Execution) /\ Len(trades) \in Nat
      /\ DOMAIN trades = 1 .. Len(trades) /\ DOMAIN trades' = 1 .. Len(trades) + 1
      /\ \A i \in 1 .. Len(trades) : trades'[i] = trades[i]
      /\ trades'[Len(trades) + 1] = c
      /\ \A x : Maker(x)' <=> Maker(x) \/ c.maker = x
      /\ MakersDistinct'
  BY TradePushed, SMTT(30)
<1>3. /\ Makers = MakersIn(trades) /\ DistinctIn(trades)
      /\ \A o : Lag(o) = LagIn(trades, o)
      /\ \A o : o \in Makers <=> Maker(o)
      /\ Pending = Owing(trades)
  BY LagTerms
<1>4. /\ Makers' = MakersIn(trades') /\ DistinctIn(trades')
      /\ \A o : Lag(o)' = LagIn(trades', o)
      /\ \A o : o \in Makers' <=> Maker(o)'
      /\ Pending' = Owing(trades')
  BY <1>2, LagTermsNext
<1>5. c.maker \notin MakersIn(trades) /\ MakersIn(trades') = MakersIn(trades) \cup {c.maker}
  BY <1>2, <1>3, <1>4
<1>6. \E k \in DOMAIN trades' : trades'[k] = c
  BY <1>2
<1>7. \A k \in DOMAIN trades : \E j \in DOMAIN trades' : trades'[j] = trades[k]
  BY <1>2
<1>8. /\ LagIn(trades, c.maker) = 0 /\ LagIn(trades', c.maker) = c.qty
      /\ \A o : o # c.maker => LagIn(trades', o) = LagIn(trades, o)
      /\ Owing(trades') = Owing(trades) + c.qty
  BY <1>2, <1>3, <1>4, <1>5, <1>6, <1>7, LagsWith
<1> QED
  BY <1>1, <1>2, <1>3, <1>4, <1>8

LEMMA LagsPopped ==
  ASSUME trades \in Seq(Execution), MakersDistinct, trades # <<>>, trades' = Tail(trades),
         NEW c, c = Head(trades)
  PROVE  /\ Lag(c.maker) = c.qty /\ Lag(c.maker)' = 0
         /\ \A o : o # c.maker => Lag(o)' = Lag(o)
         /\ \A o : o \in Makers' <=> o \in Makers /\ o # c.maker
         /\ Pending = Pending' + c.qty
<1>1. PICK m : m = c.maker
  OBVIOUS
<1>2. /\ trades' \in Seq(Execution) /\ Len(trades) \in Nat \ {0}
      /\ DOMAIN trades = 1 .. Len(trades) /\ DOMAIN trades' = 1 .. Len(trades) - 1
      /\ c \in Execution /\ c = trades[1] /\ Maker(c.maker)
      /\ \A i \in 1 .. Len(trades) - 1 : trades'[i] = trades[i + 1]
      /\ MakersDistinct'
      /\ \A x : Maker(x)' <=> Maker(x) /\ x # c.maker
  BY TradePopped, SMTT(30)
<1>3. /\ Makers = MakersIn(trades) /\ DistinctIn(trades)
      /\ \A o : Lag(o) = LagIn(trades, o)
      /\ \A o : o \in Makers <=> Maker(o)
      /\ Pending = Owing(trades)
  BY LagTerms
<1>4. /\ Makers' = MakersIn(trades') /\ DistinctIn(trades')
      /\ \A o : Lag(o)' = LagIn(trades', o)
      /\ \A o : o \in Makers' <=> Maker(o)'
      /\ Pending' = Owing(trades')
  BY <1>2, LagTermsNext
<1>5. c.maker \notin MakersIn(trades') /\ MakersIn(trades) = MakersIn(trades') \cup {c.maker}
  BY <1>2, <1>3, <1>4
<1>6. \E k \in DOMAIN trades : trades[k] = c
  BY <1>2
<1>7. \A k \in DOMAIN trades' : \E j \in DOMAIN trades : trades[j] = trades'[k]
  BY <1>2
<1>8. /\ LagIn(trades', c.maker) = 0 /\ LagIn(trades, c.maker) = c.qty
      /\ \A o : o # c.maker => LagIn(trades, o) = LagIn(trades', o)
      /\ Owing(trades) = Owing(trades') + c.qty
  <2>1. PICK s, t : s = trades' /\ t = trades
    OBVIOUS
  <2>2. /\ s \in Seq(Execution) /\ DistinctIn(s) /\ t \in Seq(Execution) /\ DistinctIn(t)
        /\ c \in Execution /\ c.maker \notin MakersIn(s)
        /\ MakersIn(t) = MakersIn(s) \cup {c.maker}
        /\ \E k \in DOMAIN t : t[k] = c
        /\ \A k \in DOMAIN s : \E j \in DOMAIN t : t[j] = s[k]
    BY <1>2, <1>3, <1>4, <1>5, <1>6, <1>7, <2>1
  <2>3. /\ LagIn(s, c.maker) = 0 /\ LagIn(t, c.maker) = c.qty
        /\ \A o : o # c.maker => LagIn(t, o) = LagIn(s, o)
        /\ Owing(t) = Owing(s) + c.qty
    BY <2>2, LagsWith
  <2> QED
    BY <2>1, <2>3
<1> QED
  BY <1>1, <1>2, <1>3, <1>4, <1>8

LEMMA LagsKept ==
  ASSUME trades' = trades
  PROVE  /\ Makers' = Makers /\ Pending' = Pending
         /\ \A o : Lag(o)' = Lag(o)
<1>1. Makers' = Makers /\ \A m : Traded(m)' = Traded(m)
  BY DEF Makers, Traded
<1>2. Pending' = Pending
  BY <1>1 DEF Pending
<1> QED
  BY <1>1, <1>2 DEF Lag

LEMMA NoLags ==
  ASSUME trades = <<>>
  PROVE  Makers = {} /\ Pending = 0 /\ \A o : Lag(o) = 0
<1>1. Makers = {}
  BY DEF Makers
<1>2. Pending = 0
  BY <1>1, FS_EmptySet DEF Pending
<1> QED
  BY <1>1, <1>2 DEF Lag

LEMMA NoLagsNext ==
  ASSUME trades' = <<>>
  PROVE  Makers' = {} /\ Pending' = 0 /\ \A o : Lag(o)' = 0
<1>1. Makers' = {}
  BY DEF Makers
<1>2. Pending' = 0
  BY <1>1, FS_EmptySet DEF Pending
<1> QED
  BY <1>1, <1>2 DEF Lag

-----------------------------------------------------------------------------
(* What a step that publishes nothing leaves the consumer to learn.        *)

NumbersKept ==
  /\ tradeSeq' = tradeSeq
  /\ \/ pc' = pc /\ localSeq' = localSeq
     \/ pc # "idle" /\ pc' # "idle" /\ localSeq' = localSeq
     \/ pc = "idle" /\ pc' # "idle" /\ localSeq' = localSeq + 1

LEMMA NumberedKept ==
  ASSUME NEW c, Numbered(c), NumbersKept
  PROVE  Numbered(c)'
  BY DEF Numbered, NumbersKept

MirrorKept(o) ==
  /\ Shown(o)' /\ ~ Closing(o)' =>
       /\ Shown(o) /\ ~ Closing(o)
       /\ order'[o].id = order[o].id /\ order'[o].side = order[o].side
       /\ order'[o].price = order[o].price
       /\ order'[o].rem + Lag(o)' = order[o].rem + Lag(o)
  /\ Shown(o) \/ Closing(o) => (Shown(o)' \/ Closing(o)') /\ order'[o].id = order[o].id

LEMMA MirroredKept ==
  ASSUME NEW c, Mirrored(c), \A o \in Objs : MirrorKept(o)
  PROVE  Mirrored(c)'
<1>1. c.replica = [i \in OrderIds |-> c.replica[i]]
  BY DEF Mirrored
<1>2. ASSUME NEW o \in Objs, Shown(o)', ~ Closing(o)'
      PROVE  c.replica[order'[o].id] = [side |-> order'[o].side, price |-> order'[o].price,
                                        rem |-> order'[o].rem + Lag(o)']
  <2>1. /\ Shown(o) /\ ~ Closing(o)
        /\ order'[o].id = order[o].id /\ order'[o].side = order[o].side
        /\ order'[o].price = order[o].price
        /\ order'[o].rem + Lag(o)' = order[o].rem + Lag(o)
    BY <1>2 DEF MirrorKept
  <2>2. c.replica[order[o].id] = [side |-> order[o].side, price |-> order[o].price,
                                  rem |-> order[o].rem + Lag(o)]
    BY <2>1 DEF Mirrored
  <2> QED
    BY <2>1, <2>2
<1>3. ASSUME NEW i \in OrderIds,
             \A o \in Objs : Shown(o)' \/ Closing(o)' => order'[o].id # i
      PROVE  c.replica[i] = NotResting
  <2>1. ASSUME NEW o \in Objs, Shown(o) \/ Closing(o) PROVE order[o].id # i
    BY <1>3, <2>1 DEF MirrorKept
  <2> QED
    BY <2>1 DEF Mirrored
<1> QED
  BY <1>1, <1>2, <1>3 DEF Mirrored

LedgerKept(o) ==
  pool'[o] = 0 =>
    \/ /\ pool[o] = 0 /\ order'[o].id = order[o].id /\ order'[o].qty = order[o].qty
       /\ order'[o].rem + Owed(o)' = order[o].rem + Owed(o)
    \/ /\ order'[o].id \in OrderIds /\ order'[o].id > nextId
       /\ Owed(o)' = 0 /\ order'[o].qty = order'[o].rem

LEMMA OwedIsNat ==
  ASSUME Parts, NEW o \in Objs
  PROVE  Owed(o) \in Nat
<1>1. trades \in Seq(Execution) /\ MakersDistinct
  BY DEF Parts, MachineTypeOK, Exclusive, MakersDistinct
<1> QED
  BY <1>1, LagTerms DEF Owed

LEMMA OwedIsNatNext ==
  ASSUME Parts', NEW o \in Objs
  PROVE  Owed(o)' \in Nat /\ order'[o].rem \in Nat /\ order'[o].qty \in Nat
<1>1. trades' \in Seq(Execution) /\ MakersDistinct'
  BY DEF Parts, MachineTypeOK, Exclusive, MakersDistinct
<1>2. Pending' \in Nat /\ Lag(o)' \in Nat
  BY <1>1, LagTermsNext
<1>3. Owed(o)' \in Nat
  BY <1>2 DEF Owed
<1>4. order'[o] \in OrderRecord
  BY DEF Parts, Book, BookTypeOK
<1> QED
  BY <1>3, <1>4 DEF OrderRecord

LEMMA SettledKept ==
  ASSUME NEW c, Settled(c), Parts, Parts', nextId' \in {nextId, nextId + 1},
         \A o \in Objs : LedgerKept(o)
  PROVE  Settled(c)'
<1>1. c.executed \in [OrderIds -> Nat] /\ nextId \in Nat
  <2>1. nextId \in OrderIds \cup {0}
    BY DEF Parts, MachineTypeOK
  <2>2. nextId \in Nat
    BY <2>1, BookAssumption
  <2> QED
    BY <2>2 DEF Settled
<1>2. ASSUME NEW i \in OrderIds, i > nextId' PROVE c.executed[i] = 0
  <2>1. i \in Nat
    BY BookAssumption
  <2>2. i > nextId
    BY <1>1, <1>2, <2>1
  <2> QED
    BY <2>2 DEF Settled
<1>3. ASSUME NEW o \in Objs, pool'[o] = 0
      PROVE  c.executed[order'[o].id] + Owed(o)' = order'[o].qty - order'[o].rem
  <2>1. order'[o].rem \in Nat /\ order'[o].qty \in Nat /\ Owed(o)' \in Nat
    BY OwedIsNatNext
  <2>2. CASE /\ pool[o] = 0 /\ order'[o].id = order[o].id /\ order'[o].qty = order[o].qty
             /\ order'[o].rem + Owed(o)' = order[o].rem + Owed(o)
    <3>1. order[o].rem \in Nat /\ order[o].qty \in Nat /\ Owed(o) \in Nat
          /\ order[o].id \in OrderIds
      BY <2>2, HeldObjects, OwedIsNat
    <3>2. c.executed[order[o].id] + Owed(o) = order[o].qty - order[o].rem
      BY <2>2 DEF Settled
    <3>3. c.executed[order[o].id] \in Nat
      BY <1>1, <3>1
    <3> QED
      BY <2>1, <2>2, <3>1, <3>2, <3>3
  <2>3. CASE /\ order'[o].id \in OrderIds /\ order'[o].id > nextId
             /\ Owed(o)' = 0 /\ order'[o].qty = order'[o].rem
    <3>1. c.executed[order'[o].id] = 0
      BY <2>3 DEF Settled
    <3> QED
      BY <2>1, <2>3, <3>1
  <2> QED
    BY <1>3, <2>2, <2>3 DEF LedgerKept
<1> QED
  BY <1>1, <1>2, <1>3 DEF Settled

Quiet ==
  /\ NumbersKept /\ nextId' \in {nextId, nextId + 1}
  /\ \A o \in Objs : MirrorKept(o) /\ LedgerKept(o)

\* The parts of the invariant that the lemmas about the trades rest on.
LEMMA TradesTyped ==
  ASSUME Parts
  PROVE  trades \in Seq(Execution) /\ MakersDistinct
  BY DEF Parts, MachineTypeOK, Exclusive, MakersDistinct

\* Whatever the engine neither publishes nor changes.
LEMMA UntouchedIsQuiet ==
  ASSUME UNCHANGED <<order, index, pool, nextId, tradeSeq, localSeq, subject, trades, verdict>>,
         pc' = pc \/ {pc, pc'} \subseteq {"new", "match", "fill", "emit"}
  PROVE  Quiet
<1>1. /\ Makers' = Makers /\ Pending' = Pending /\ Resting' = Resting
      /\ \A o : Lag(o)' = Lag(o)
  BY LagsKept, RestingKept
<1>2. NumbersKept
  BY DEF NumbersKept
<1>3. ASSUME NEW o \in Objs
      PROVE  /\ Shown(o)' <=> Shown(o)
             /\ Closing(o)' <=> Closing(o)
             /\ Owed(o)' = Owed(o)
  BY <1>1 DEF Shown, Closing, Owed
<1>4. ASSUME NEW o \in Objs PROVE MirrorKept(o) /\ LedgerKept(o)
  BY <1>1, <1>3 DEF MirrorKept, LedgerKept
<1> QED
  BY <1>2, <1>4 DEF Quiet

LEMMA HandlerStepIsQuiet ==
  ASSUME Parts, HandlerStep
  PROVE  Quiet
<1>1. pc \in {"new", "match", "emit"} /\ SubjectOnly
  BY HandlerSteps
<1>2. /\ ~ Maker(subject) /\ subject \notin Resting
  BY <1>1, OrderInHand
<1>3. /\ \A x \in Objs : x # subject => order'[x] = order[x]
      /\ order'[subject].id = order[subject].id /\ order'[subject].qty = order[subject].qty
      /\ order'[subject].rem = order[subject].rem
      /\ UNCHANGED <<index, pool, localSeq, tradeSeq, subject, trades, nextId>>
      /\ pc' # "idle"
  BY <1>1 DEF SubjectOnly
<1>4. /\ Makers' = Makers /\ Pending' = Pending /\ Resting' = Resting
      /\ \A o : Lag(o)' = Lag(o)
  BY <1>3, LagsKept, RestingKept
<1>5. subject \notin Makers
  <2>1. \A o : o \in Makers <=> Maker(o)
    BY TradesTyped, LagTerms
  <2> QED
    BY <1>2, <2>1
<1>6. NumbersKept
  BY <1>1, <1>3 DEF NumbersKept
<1>7. ASSUME NEW o \in Objs PROVE MirrorKept(o) /\ LedgerKept(o)
  <2>1. /\ Shown(o)' <=> Shown(o)
        /\ ~ Closing(o)
        /\ Closing(o)' => o = subject
        /\ Owed(o)' = Owed(o)
    BY <1>1, <1>3, <1>4 DEF Shown, Closing, Owed
  <2>2. CASE o = subject
    <3>1. ~ Shown(o)
      BY <1>2, <1>5, <2>2 DEF Shown
    <3> QED
      BY <1>3, <2>1, <2>2, <3>1 DEF MirrorKept, LedgerKept
  <2>3. CASE o # subject
    BY <1>3, <1>4, <2>1, <2>3 DEF MirrorKept, LedgerKept
  <2> QED
    BY <2>2, <2>3
<1> QED
  BY <1>3, <1>6, <1>7 DEF Quiet

LEMMA RestIsQuiet ==
  ASSUME Parts, Rest
  PROVE  Quiet
<1>1. Rests /\ pc \in {"new", "emit"} /\ trades = <<>>
  BY RestMeans DEF Rest
<1>2. subject \notin Resting
  BY <1>1, OrderInHand
<1>3. /\ \A x \in Objs : x # subject => order'[x] = order[x]
      /\ order'[subject].id = order[subject].id /\ order'[subject].qty = order[subject].qty
      /\ order'[subject].rem = order[subject].rem
      /\ UNCHANGED <<pool, localSeq, tradeSeq, subject, trades, nextId>>
      /\ pc' = "report" /\ verdict' = "Accepted" /\ Resting' = Resting \cup {subject}
  BY <1>1 DEF Rests
<1>4. Makers' = {} /\ Makers = {} /\ Pending' = Pending /\ \A o : Lag(o)' = Lag(o)
  BY <1>1, <1>3, LagsKept, NoLags
<1>5. NumbersKept
  BY <1>1, <1>3 DEF NumbersKept
<1>6. ASSUME NEW o \in Objs PROVE MirrorKept(o) /\ LedgerKept(o)
  <2>1. /\ ~ Closing(o)
        /\ Closing(o)' <=> o = subject
        /\ Shown(o)' <=> Shown(o) \/ o = subject
        /\ Owed(o)' = Owed(o)
    BY <1>1, <1>3, <1>4 DEF Shown, Closing, Owed
  <2>2. CASE o = subject
    <3>1. ~ Shown(o)
      BY <1>2, <1>4, <2>2 DEF Shown
    <3> QED
      BY <1>3, <2>1, <2>2, <3>1 DEF MirrorKept, LedgerKept
  <2>3. CASE o # subject
    BY <1>3, <1>4, <2>1, <2>3 DEF MirrorKept, LedgerKept
  <2> QED
    BY <2>2, <2>3
<1> QED
  BY <1>3, <1>5, <1>6 DEF Quiet

LEMMA ProcessNewIsQuiet ==
  ASSUME Parts, ProcessNew
  PROVE  Quiet
<1>1. PICK n \in Objs : Takes(n)
  BY ProcessNewMeans
<1>2. /\ pc = "idle" /\ pc' = "new" /\ subject = NoObj /\ subject' = n /\ trades = <<>>
      /\ localSeq' = localSeq + 1
      /\ UNCHANGED <<index, pool, tradeSeq, trades, verdict, nextId>>
      /\ n # NoObj
      /\ \A x \in Objs : x # n => order'[x] = order[x]
      /\ order'[n].id = order[n].id /\ order'[n].side = order[n].side
      /\ order'[n].price = order[n].price
      /\ order'[n].qty = order[n].qty /\ order'[n].rem = order[n].rem
  BY <1>1 DEF Takes
<1>3. /\ Makers' = Makers /\ Pending' = Pending /\ Resting' = Resting
      /\ (\A o : Lag(o)' = Lag(o)) /\ (\A o : Lag(o) = 0) /\ Pending = 0
  BY <1>2, LagsKept, NoLags, RestingKept
<1>4. NumbersKept
  BY <1>2 DEF NumbersKept
<1>5. ASSUME NEW o \in Objs PROVE MirrorKept(o) /\ LedgerKept(o)
  <2>1. /\ ~ Closing(o) /\ ~ Closing(o)'
        /\ Shown(o)' <=> Shown(o)
        /\ Owed(o)' = 0 /\ Owed(o) = 0
    BY <1>2, <1>3 DEF Shown, Closing, Owed
  <2>2. /\ order'[o].id = order[o].id /\ order'[o].side = order[o].side
        /\ order'[o].price = order[o].price
        /\ order'[o].qty = order[o].qty /\ order'[o].rem = order[o].rem
    BY <1>2
  <2> QED
    BY <1>2, <1>3, <2>1, <2>2 DEF MirrorKept, LedgerKept
<1> QED
  BY <1>2, <1>4, <1>5 DEF Quiet

LEMMA ProcessCancelIsQuiet ==
  ASSUME Parts, ProcessCancel
  PROVE  Quiet
<1>1. TakesCancel /\ (NoneFound \/ \E x \in Objs : Withdraws(x))
  BY ProcessCancelMeans
<1>2. /\ pc = "idle" /\ pc' = "report" /\ subject = NoObj /\ trades = <<>>
      /\ localSeq' = localSeq + 1
      /\ UNCHANGED <<pool, tradeSeq, trades, nextId>>
  BY <1>1 DEF TakesCancel
<1>3. /\ Makers' = {} /\ Makers = {} /\ Pending' = 0 /\ Pending = 0
      /\ (\A o : Lag(o)' = Lag(o)) /\ (\A o : Lag(o) = 0)
  BY <1>2, LagsKept, NoLags
<1>4. NumbersKept
  BY <1>2 DEF NumbersKept
<1>5. ASSUME NEW o \in Objs PROVE Owed(o)' = 0 /\ Owed(o) = 0 /\ ~ Closing(o)
  BY <1>2, <1>3 DEF Owed, Closing
<1>6. CASE NoneFound
  <2>1. order' = order /\ index' = index /\ verdict' = "Rejected"
    BY <1>6 DEF NoneFound
  <2>2. Resting' = Resting
    BY <2>1, RestingKept
  <2>3. ASSUME NEW o \in Objs PROVE MirrorKept(o) /\ LedgerKept(o)
    <3>1. ~ Closing(o)' /\ (Shown(o)' <=> Shown(o))
      BY <1>3, <2>1, <2>2 DEF Closing, Shown
    <3> QED
      BY <1>2, <1>3, <1>5, <2>1, <3>1 DEF MirrorKept, LedgerKept
  <2> QED
    BY <1>2, <1>4, <2>3 DEF Quiet
<1>7. CASE \E x \in Objs : Withdraws(x)
  <2>1. PICK w \in Objs : Withdraws(w)
    BY <1>7
  <2>2. /\ subject' = w /\ verdict' = "Cancelled"
        /\ w \in Resting /\ Resting' = Resting \ {w}
        /\ \A x \in Objs : x # w => order'[x] = order[x]
        /\ order'[w].id = order[w].id
        /\ order'[w].qty = order[w].qty /\ order'[w].rem = order[w].rem
    BY <2>1 DEF Withdraws
  <2>3. ASSUME NEW o \in Objs PROVE MirrorKept(o) /\ LedgerKept(o)
    <3>1. /\ Closing(o)' <=> o = w
          /\ Shown(o)' <=> Shown(o) /\ o # w
      BY <1>2, <1>3, <2>2 DEF Closing, Shown
    <3>2. CASE o = w
      BY <1>2, <1>5, <2>2, <3>1, <3>2 DEF MirrorKept, LedgerKept
    <3>3. CASE o # w
      BY <1>2, <1>3, <1>5, <2>2, <3>1, <3>3 DEF MirrorKept, LedgerKept
    <3> QED
      BY <3>2, <3>3
  <2> QED
    BY <1>2, <1>4, <2>3 DEF Quiet
<1> QED
  BY <1>1, <1>6, <1>7

LEMMA FillMakerIsQuiet ==
  ASSUME Parts, FillMaker
  PROVE  Quiet
<1>1. PICK m \in Objs, q \in Nat \ {0}, c \in Execution : Executes(m, q, c)
  BY FillMeans
<1>2. pc = "fill" /\ subject \in Objs /\ subject \notin Resting /\ ~ Maker(subject)
  BY OrderInHand DEF FillMaker
<1>3. /\ UNCHANGED <<pool, pc, localSeq, tradeSeq, subject, verdict, nextId>>
      /\ m # subject /\ m \in Resting /\ ~ Maker(m)
      /\ c.maker = m /\ c.qty = q /\ trades' = Append(trades, c)
  BY <1>1 DEF Executes
<1>4. /\ order'[subject].id = order[subject].id /\ order'[subject].qty = order[subject].qty
      /\ order'[subject].rem = order[subject].rem - q
      /\ order'[m].id = order[m].id /\ order'[m].side = order[m].side
      /\ order'[m].price = order[m].price
      /\ order'[m].qty = order[m].qty /\ order'[m].rem = order[m].rem - q
      /\ \A o \in Objs : o # subject /\ o # m => order'[o] = order[o]
      /\ Resting' = IF q = order[m].rem THEN Resting \ {m} ELSE Resting
  BY <1>1 DEF Executes
<1>5. /\ Lag(m) = 0 /\ Lag(m)' = q
      /\ \A o : o # m => Lag(o)' = Lag(o)
      /\ \A o : o \in Makers' <=> o \in Makers \/ o = m
      /\ Pending' = Pending + q
  <2>1. /\ Lag(c.maker) = 0 /\ Lag(c.maker)' = c.qty
        /\ \A o : o # c.maker => Lag(o)' = Lag(o)
        /\ \A o : o \in Makers' <=> o \in Makers \/ o = c.maker
        /\ Pending' = Pending + c.qty
    BY <1>3, TradesTyped, LagsPushed
  <2>2. PICK x : x = c.maker
    OBVIOUS
  <2> QED
    BY <1>3, <2>1, <2>2
<1>6. /\ Pending \in Nat
      /\ \A o : o \in Makers <=> Maker(o)
  BY TradesTyped, LagTerms
<1>7. order[m].rem \in Nat /\ order[subject].rem \in Nat
  BY <1>2, HeldObjects
<1>8. NumbersKept
  BY <1>3 DEF NumbersKept
<1>9. ASSUME NEW o \in Objs PROVE MirrorKept(o) /\ LedgerKept(o)
  <2>1. ~ Closing(o) /\ ~ Closing(o)'
    BY <1>2, <1>3 DEF Closing
  <2>2. Shown(o)' <=> Shown(o)
    BY <1>3, <1>4, <1>5 DEF Shown
  <2>3. CASE o = subject
    <3>1. ~ Shown(o)
      BY <1>2, <1>6, <2>3 DEF Shown
    <3>2. Owed(o) = Pending /\ Owed(o)' = Pending + q
      BY <1>3, <1>5, <2>3 DEF Owed
    <3> QED
      BY <1>3, <1>4, <1>6, <1>7, <2>1, <2>2, <2>3, <3>1, <3>2 DEF MirrorKept, LedgerKept
  <2>4. CASE o = m
    <3>1. Owed(o) = 0 /\ Owed(o)' = q
      BY <1>3, <1>5, <2>4 DEF Owed
    <3>2. order'[m].rem + q = order[m].rem + 0
      BY <1>4, <1>7
    <3> QED
      BY <1>3, <1>4, <1>5, <2>1, <2>2, <2>4, <3>1, <3>2 DEF MirrorKept, LedgerKept
  <2>5. CASE o # subject /\ o # m
    <3>1. Owed(o)' = Owed(o) /\ Lag(o)' = Lag(o)
      BY <1>3, <1>5, <2>5 DEF Owed
    <3> QED
      BY <1>3, <1>4, <2>1, <2>2, <2>5, <3>1 DEF MirrorKept, LedgerKept
  <2> QED
    BY <2>3, <2>4, <2>5
<1> QED
  BY <1>3, <1>8, <1>9 DEF Quiet

LEMMA SubmitOrderIsQuiet ==
  ASSUME Parts, NEW n \in Objs, NEW side \in Sides, NEW type \in OrderTypes,
         NEW price \in Prices \cup {0}, type # "Market" => price \in Prices, NEW qty \in Qtys,
         SubmitOrder(n, side, type, price, qty)
  PROVE  Quiet
<1>1. PICK r \in OrderRecord, c \in Command : Submits(n, r, c)
  BY SubmitOrderMeans
<1>2. /\ UNCHANGED <<index, pc, localSeq, tradeSeq, subject, trades, verdict>>
      /\ n \notin Resting /\ ~ Maker(n) /\ n # subject
      /\ r.id = nextId + 1 /\ r.qty = r.rem
      /\ order'[n] = r /\ \A x \in Objs : x # n => order'[x] = order[x]
      /\ \A x \in Objs : x # n => pool'[x] = pool[x]
      /\ nextId \in Nat /\ nextId' \in OrderIds /\ nextId' = nextId + 1
  BY <1>1 DEF Submits
<1>3. /\ Makers' = Makers /\ Pending' = Pending /\ Resting' = Resting
      /\ \A o : Lag(o)' = Lag(o)
      /\ \A o : o \in Makers <=> Maker(o)
  BY <1>2, LagsKept, RestingKept, TradesTyped, LagTerms
<1>4. NumbersKept
  BY <1>2 DEF NumbersKept
<1>5. ASSUME NEW o \in Objs PROVE MirrorKept(o) /\ LedgerKept(o)
  <2>1. /\ Shown(o)' <=> Shown(o)
        /\ Closing(o)' <=> Closing(o)
        /\ Owed(o)' = Owed(o)
    BY <1>2, <1>3 DEF Shown, Closing, Owed
  <2>2. CASE o = n
    <3>1. ~ Shown(o) /\ ~ Closing(o) /\ Lag(o) = 0 /\ Owed(o) = 0
      BY <1>2, <1>3, <2>2 DEF Shown, Closing, Lag, Owed
    <3>2. r.id \in OrderIds /\ r.id > nextId
      BY <1>2
    <3> QED
      BY <1>2, <2>1, <2>2, <3>1, <3>2 DEF MirrorKept, LedgerKept
  <2>3. CASE o # n
    BY <1>2, <1>3, <2>1, <2>3 DEF MirrorKept, LedgerKept
  <2> QED
    BY <2>2, <2>3
<1> QED
  BY <1>2, <1>4, <1>5 DEF Quiet

-----------------------------------------------------------------------------
(* The two steps that publish.                                             *)

\* The event e is in sequence for a consumer that knows c, adds up, and leaves
\* it knowing d.
Reports(c, e, d) ==
  /\ outbound' = Append(outbound, e)
  /\ d = After(c, e)
  /\ InSequence(c, e) /\ Balanced(c, e)
  /\ Numbered(d)' /\ Mirrored(d)' /\ Settled(d)'

MakersDone == \A m \in Makers : order[m].status = "Filled" => order[m].rem = 0

LEMMA IdsDiffer ==
  ASSUME Parts, NEW o \in Objs, NEW m \in Objs, pool[o] = 0, pool[m] = 0,
         order[o].id = order[m].id
  PROVE  o = m
  BY DEF Parts, Identified

LEMMA ShownHeld ==
  ASSUME Parts, NEW o \in Objs, Shown(o)
  PROVE  pool[o] = 0
<1>1. \A x : x \in Makers <=> Maker(x)
  BY TradesTyped, LagTerms
<1>2. Maker(o) \/ o \in Resting
  BY <1>1 DEF Shown
<1> QED
  BY <1>2, HeldObjects

LEMMA EmitTradeReports ==
  ASSUME Parts, Parts', MakersDone, EmitTrade,
         NEW c, Numbered(c), Mirrored(c), Settled(c)
  PROVE  \E e \in Event : \E d : Reports(c, e, d)
<1>1. PICK m \in Objs, tr \in Execution : Publishes(m, tr)
  BY EmitMeans
<1>2. PICK e \in Event : e = TradeMessage(m, tr)
  BY <1>1 DEF Publishes
<1>3. PICK d : d = After(c, e)
  OBVIOUS
<1>4. /\ e.type = "Trade" /\ e.seq = localSeq /\ e.trade = tradeSeq + 1
      /\ e.id = order[subject].id /\ e.maker = order[m].id /\ e.qty = tr.qty
  BY <1>2 DEF TradeMessage, TradeEvent
<1>5. /\ pc = "emit" /\ pc' = "emit" /\ trades # <<>> /\ tr = Head(trades) /\ tr.maker = m
      /\ trades' = Tail(trades)
      /\ tradeSeq' = tradeSeq + 1 /\ outbound' = Append(outbound, e)
      /\ UNCHANGED <<localSeq, subject, verdict, nextId>>
      /\ m # subject /\ pool[m] = 0 /\ Maker(m)
  BY <1>1, <1>2 DEF Publishes
<1>6. /\ Sold(m) <=> order[m].status = "Filled"
      /\ Resting' = Resting
      /\ \A x \in Objs : x # m => order'[x] = order[x] /\ pool'[x] = pool[x]
      /\ IF Sold(m) THEN pool'[m] = 1 ELSE order'[m] = order[m] /\ pool'[m] = 0
      /\ Sold(m) \/ m \in Resting
  BY <1>1 DEF Publishes
<1>7. /\ subject \in Objs /\ pool[subject] = 0 /\ subject \notin Resting /\ ~ Maker(subject)
      /\ order[subject].id \in OrderIds
  BY <1>5, OrderInHand
<1>8. order[m].id \in OrderIds /\ order[m].id # order[subject].id /\ order[m].rem \in Nat
  BY <1>5, <1>7, HeldObjects, IdsDiffer
<1>9. /\ Lag(m) = tr.qty /\ Lag(m)' = 0
      /\ \A o : o # m => Lag(o)' = Lag(o)
      /\ \A o : o \in Makers' <=> o \in Makers /\ o # m
      /\ Pending = Pending' + tr.qty
  <2>1. /\ Lag(tr.maker) = tr.qty /\ Lag(tr.maker)' = 0
        /\ \A o : o # tr.maker => Lag(o)' = Lag(o)
        /\ \A o : o \in Makers' <=> o \in Makers /\ o # tr.maker
        /\ Pending = Pending' + tr.qty
    BY <1>5, TradesTyped, LagsPopped
  <2>2. PICK x : x = tr.maker
    OBVIOUS
  <2> QED
    BY <1>5, <2>1, <2>2
<1>10. /\ \A o : o \in Makers <=> Maker(o)
       /\ Pending \in Nat /\ tr.qty \in Nat /\ Pending' \in Nat
  <2>1. trades' \in Seq(Execution) /\ MakersDistinct'
    BY DEF Parts, MachineTypeOK, Exclusive, MakersDistinct
  <2>2. tr.qty \in Nat
    BY DEF Execution
  <2> QED
    BY <2>1, <2>2, TradesTyped, LagTerms, LagTermsNext
<1>11. /\ d.replica = [c.replica EXCEPT ![e.maker] = Reduced(c.replica[e.maker], e.qty)]
       /\ d.executed = [c.executed EXCEPT ![e.id] = c.executed[e.id] + e.qty,
                                          ![e.maker] = c.executed[e.maker] + e.qty]
       /\ d.lastSeq = e.seq /\ d.lastTrade = e.trade /\ d.closed = FALSE
  <2>1. ReplicaAfter(c, e) = [c.replica EXCEPT ![e.maker] = Reduced(c.replica[e.maker], e.qty)]
    BY <1>4 DEF ReplicaAfter
  <2>2. ExecutedAfter(c, e) = [c.executed EXCEPT ![e.id] = c.executed[e.id] + e.qty,
                                                 ![e.maker] = c.executed[e.maker] + e.qty]
    BY <1>4, <1>8 DEF ExecutedAfter
  <2> QED
    BY <1>3, <1>4, <2>1, <2>2 DEF After
<1>12. InSequence(c, e) /\ Balanced(c, e)
  BY <1>4, <1>5 DEF InSequence, Balanced, Numbered
<1>13. Numbered(d)'
  <2>1. ~ d.closed
    BY <1>11
  <2> QED
    BY <1>4, <1>5, <1>11, <2>1 DEF Numbered
<1>14. Mirrored(d)'
  <2>1. /\ c.replica = [i \in OrderIds |-> c.replica[i]]
        /\ d.replica = [i \in OrderIds |-> d.replica[i]]
        /\ d.replica[order[m].id] = Reduced(c.replica[order[m].id], tr.qty)
        /\ \A i \in OrderIds : i # order[m].id => d.replica[i] = c.replica[i]
    <3>1. c.replica = [i \in OrderIds |-> c.replica[i]]
      BY DEF Mirrored
    <3> QED
      BY <1>4, <1>8, <1>11, <3>1
  <2>2. \A o \in Objs : ~ Closing(o) /\ ~ Closing(o)'
    BY <1>5 DEF Closing
  <2>3. Shown(m) /\ m \in Makers
    BY <1>5, <1>10 DEF Shown
  <2>4. c.replica[order[m].id] = [side |-> order[m].side, price |-> order[m].price,
                                  rem |-> order[m].rem + tr.qty]
    BY <1>9, <2>2, <2>3 DEF Mirrored
  <2>5. CASE Sold(m)
    <3>1. order[m].rem = 0 /\ m \notin Resting
      BY <1>6, <2>3, <2>5 DEF MakersDone, Parts, Exclusive
    <3>2. d.replica[order[m].id] = NotResting
      BY <1>8, <1>10, <2>1, <2>4, <3>1 DEF Reduced
    <3>3. ASSUME NEW o \in Objs PROVE Shown(o)' <=> Shown(o) /\ o # m
      BY <1>6, <1>9, <3>1 DEF Shown
    <3>4. ASSUME NEW o \in Objs, Shown(o)'
          PROVE  d.replica[order'[o].id] = [side |-> order'[o].side, price |-> order'[o].price,
                                            rem |-> order'[o].rem + Lag(o)']
      <4>1. /\ Shown(o) /\ o # m /\ order'[o] = order[o] /\ Lag(o)' = Lag(o)
        BY <1>6, <1>9, <3>3, <3>4
      <4>2. order[o].id # order[m].id /\ order[o].id \in OrderIds
        BY <1>5, <4>1, ShownHeld, HeldObjects, IdsDiffer
      <4>3. c.replica[order[o].id] = [side |-> order[o].side, price |-> order[o].price,
                                      rem |-> order[o].rem + Lag(o)]
        BY <2>2, <4>1 DEF Mirrored
      <4> QED
        BY <2>1, <4>1, <4>2, <4>3
    <3>5. ASSUME NEW i \in OrderIds, \A o \in Objs : Shown(o)' \/ Closing(o)' => order'[o].id # i
          PROVE  d.replica[i] = NotResting
      <4>1. CASE i = order[m].id
        BY <3>2, <4>1
      <4>2. CASE i # order[m].id
        <5>1. ASSUME NEW o \in Objs, Shown(o) \/ Closing(o) PROVE order[o].id # i
          <6>1. CASE o = m
            BY <4>2, <6>1
          <6>2. CASE o # m
            BY <1>6, <2>2, <3>3, <3>5, <5>1, <6>2
          <6> QED
            BY <6>1, <6>2
        <5>2. c.replica[i] = NotResting
          BY <5>1 DEF Mirrored
        <5> QED
          BY <2>1, <4>2, <5>2
      <4> QED
        BY <4>1, <4>2
    <3> QED
      BY <2>1, <3>4, <3>5 DEF Mirrored
  <2>6. CASE ~ Sold(m)
    <3>1. order[m].rem > 0 /\ m \in Resting /\ order'[m] = order[m]
      BY <1>6, <2>6 DEF Parts, Book, RestingOpen
    <3>2. d.replica[order[m].id] = [side |-> order[m].side, price |-> order[m].price,
                                    rem |-> order[m].rem]
      <4>1. PICK entry : entry = c.replica[order[m].id]
        OBVIOUS
      <4>2. entry = [side |-> order[m].side, price |-> order[m].price,
                     rem |-> order[m].rem + tr.qty]
        BY <2>4, <4>1
      <4>3. entry.rem # tr.qty /\ entry.rem - tr.qty = order[m].rem
        BY <1>8, <1>10, <3>1, <4>2
      <4>4. Reduced(entry, tr.qty) = [entry EXCEPT !.rem = order[m].rem]
        BY <4>3 DEF Reduced
      <4>5. [entry EXCEPT !.rem = order[m].rem]
              = [side |-> order[m].side, price |-> order[m].price, rem |-> order[m].rem]
        BY <4>2
      <4> QED
        BY <2>1, <4>1, <4>4, <4>5
    <3>3. ASSUME NEW o \in Objs PROVE (Shown(o)' <=> Shown(o)) /\ order'[o] = order[o]
      BY <1>6, <1>9, <3>1 DEF Shown
    <3>4. ASSUME NEW o \in Objs, Shown(o)'
          PROVE  d.replica[order'[o].id] = [side |-> order'[o].side, price |-> order'[o].price,
                                            rem |-> order'[o].rem + Lag(o)']
      <4>1. CASE o = m
        BY <1>8, <1>9, <3>1, <3>2, <4>1
      <4>2. CASE o # m
        <5>1. Shown(o) /\ order'[o] = order[o] /\ Lag(o)' = Lag(o)
          BY <1>9, <3>3, <3>4, <4>2
        <5>2. order[o].id # order[m].id /\ order[o].id \in OrderIds
          BY <1>5, <4>2, <5>1, ShownHeld, HeldObjects, IdsDiffer
        <5>3. c.replica[order[o].id] = [side |-> order[o].side, price |-> order[o].price,
                                        rem |-> order[o].rem + Lag(o)]
          BY <2>2, <5>1 DEF Mirrored
        <5> QED
          BY <2>1, <5>1, <5>2, <5>3
      <4> QED
        BY <4>1, <4>2
    <3>5. ASSUME NEW i \in OrderIds, \A o \in Objs : Shown(o)' \/ Closing(o)' => order'[o].id # i
          PROVE  d.replica[i] = NotResting
      <4>1. \A o \in Objs : Shown(o) \/ Closing(o) => order[o].id # i
        BY <2>2, <3>3, <3>5
      <4>2. c.replica[i] = NotResting /\ i # order[m].id
        BY <2>3, <4>1 DEF Mirrored
      <4> QED
        BY <2>1, <4>2
    <3> QED
      BY <2>1, <3>4, <3>5 DEF Mirrored
  <2> QED
    BY <2>5, <2>6
<1>15. Settled(d)'
  <2>1. /\ c.executed \in [OrderIds -> Nat]
        /\ \A i \in OrderIds : i > nextId => c.executed[i] = 0
    BY DEF Settled
  <2>2. /\ d.executed \in [OrderIds -> Nat]
        /\ d.executed[order[subject].id] = c.executed[order[subject].id] + tr.qty
        /\ d.executed[order[m].id] = c.executed[order[m].id] + tr.qty
        /\ \A i \in OrderIds : i # order[subject].id /\ i # order[m].id =>
             d.executed[i] = c.executed[i]
    <3> DEFINE a == c.executed[order[subject].id] + tr.qty
               b == c.executed[order[m].id] + tr.qty
    <3>1. a \in Nat /\ b \in Nat
      BY <1>7, <1>8, <1>10, <2>1
    <3>2. d.executed = [c.executed EXCEPT ![order[subject].id] = a, ![order[m].id] = b]
      BY <1>4, <1>11
    <3>3. a = c.executed[order[subject].id] + tr.qty /\ b = c.executed[order[m].id] + tr.qty
      OBVIOUS
    <3> HIDE DEF a, b
    <3> QED
      BY <1>7, <1>8, <2>1, <3>1, <3>2, <3>3
  <2>3. ASSUME NEW i \in OrderIds, i > nextId' PROVE d.executed[i] = 0
    <3>1. order[subject].id <= nextId /\ order[m].id <= nextId
      BY <1>5, <1>7 DEF Parts, Identified
    <3>2. i > nextId /\ i # order[subject].id /\ i # order[m].id
      <4>1. nextId \in Nat
        <5>1. nextId \in OrderIds \cup {0}
          BY DEF Parts, MachineTypeOK
        <5> QED
          BY <5>1, BookAssumption
      <4>2. i \in Nat /\ order[subject].id \in Nat /\ order[m].id \in Nat
        BY <1>7, <1>8, BookAssumption
      <4> QED
        BY <1>5, <2>3, <3>1, <4>1, <4>2
    <3> QED
      BY <2>1, <2>2, <3>2
  <2>4. ASSUME NEW o \in Objs, pool'[o] = 0
        PROVE  d.executed[order'[o].id] + Owed(o)' = order'[o].qty - order'[o].rem
    <3>1. order'[o] = order[o] /\ pool[o] = 0
      BY <1>5, <1>6, <2>4
    <3>2. c.executed[order[o].id] + Owed(o) = order[o].qty - order[o].rem
      BY <3>1 DEF Settled
    <3>3. order[o].id \in OrderIds /\ c.executed[order[o].id] \in Nat /\ Owed(o) \in Nat
          /\ order[o].qty \in Nat /\ order[o].rem \in Nat
      BY <2>1, <3>1, HeldObjects, OwedIsNat
    <3>4. CASE o = subject
      <4>1. Owed(o) = Pending /\ Owed(o)' = Pending'
        BY <1>5, <3>4 DEF Owed
      <4> QED
        BY <1>9, <1>10, <2>2, <3>1, <3>2, <3>3, <3>4, <4>1
    <3>5. CASE o = m
      <4>1. Owed(o) = tr.qty /\ Owed(o)' = 0
        BY <1>5, <1>9, <3>5 DEF Owed
      <4> QED
        BY <1>10, <2>2, <3>1, <3>2, <3>3, <3>5, <4>1
    <3>6. CASE o # subject /\ o # m
      <4>1. Owed(o)' = Owed(o)
        BY <1>5, <1>9, <3>6 DEF Owed
      <4>2. order[o].id # order[subject].id /\ order[o].id # order[m].id
        BY <1>5, <1>7, <3>1, <3>6, IdsDiffer
      <4> QED
        BY <2>2, <3>1, <3>2, <3>3, <4>1, <4>2
    <3> QED
      BY <3>4, <3>5, <3>6
  <2> QED
    BY <2>2, <2>3, <2>4 DEF Settled
<1> QED
  BY <1>3, <1>5, <1>12, <1>13, <1>14, <1>15 DEF Reports

\* Who is reported as filled has nothing left.
FilledDone == pc = "report" /\ verdict = "Filled" => order[subject].rem = 0

LEMMA SubjectHeld ==
  ASSUME Parts, pc = "report", subject # NoObj
  PROVE  subject \in Objs /\ pool[subject] = 0 /\ (verdict # "Accepted" => subject \notin Resting)
<1>1. subject \in Objs
  BY DEF Parts, MachineTypeOK
<1>2. CASE verdict = "Accepted"
  <2>1. subject \in Resting
    BY <1>2 DEF Parts, Handler
  <2> QED
    BY <1>1, <1>2, <2>1, HeldObjects
<1>3. CASE verdict # "Accepted"
  <2>1. InHand(subject)
    BY <1>3 DEF InHand
  <2> QED
    BY <1>1, <2>1 DEF Parts, Exclusive
<1> QED
  BY <1>2, <1>3

LEMMA ReportReports ==
  ASSUME Parts, Parts', FilledDone, Report,
         NEW c, Numbered(c), Mirrored(c), Settled(c)
  PROVE  \E e \in Event : \E d : Reports(c, e, d)
<1>1. Answers
  BY ReportMeans
<1>2. /\ pc = "report" /\ pc' = "idle" /\ subject' = NoObj /\ verdict' = "none"
      /\ UNCHANGED <<index, localSeq, tradeSeq, trades, nextId>>
      /\ Message \in Event /\ outbound' = Append(outbound, Message)
      /\ verdict \in Verdicts /\ trades = <<>>
      /\ Resting' = Resting
      /\ \A x \in Objs : x # subject => order'[x] = order[x] /\ pool'[x] = pool[x]
      /\ IF verdict = "Accepted" \/ subject = NoObj
           THEN order' = order /\ pool' = pool
           ELSE pool'[subject] = 1 /\ subject \in Objs /\ subject \notin Resting
  BY <1>1 DEF Answers
<1>3. PICK e \in Event : e = Message
  BY <1>2
<1>4. PICK d : d = After(c, e)
  OBVIOUS
<1>5. /\ e.type = verdict /\ e.seq = localSeq /\ e.id = Subject.id
      /\ e.side = Subject.side /\ e.price = Subject.price
      /\ e.qty = Subject.qty /\ e.rem = Subject.rem
  BY <1>3 DEF Message, OrderEvent
<1>6. /\ Makers = {} /\ Pending = 0 /\ Makers' = {} /\ Pending' = 0
      /\ (\A o : Lag(o) = 0) /\ (\A o : Lag(o)' = 0)
  BY <1>2, NoLags, NoLagsNext
<1>7. verdict \in {"Accepted", "Filled", "Cancelled", "Rejected"} /\ e.type # "Trade"
  BY <1>2, <1>5 DEF Verdicts
<1>8. ASSUME verdict # "Rejected"
      PROVE  /\ subject \in Objs /\ pool[subject] = 0 /\ Subject = order[subject]
             /\ order[subject].id \in OrderIds /\ order[subject].rem \in Nat
             /\ order[subject].qty \in Nat
  <2>1. subject # NoObj
    BY <1>7, <1>8 DEF Parts, Handler
  <2>2. subject \in Objs /\ pool[subject] = 0
    BY <1>2, <2>1, SubjectHeld
  <2> QED
    BY <2>1, <2>2, HeldObjects DEF Subject
<1>9. InSequence(c, e)
  BY <1>2, <1>5, <1>7 DEF InSequence, Numbered
<1>10. Balanced(c, e)
  <2>1. ASSUME e.type \in {"Accepted", "Filled", "Cancelled"}
        PROVE  c.executed[e.id] = e.qty - e.rem /\ (e.type = "Filled" => e.rem = 0)
    <3>1. verdict # "Rejected"
      BY <1>5, <2>1
    <3>2. Owed(subject) = 0
      BY <1>6 DEF Owed
    <3>3. c.executed[order[subject].id] + Owed(subject)
            = order[subject].qty - order[subject].rem
      BY <1>8, <3>1 DEF Settled
    <3>4. c.executed[order[subject].id] \in Nat
      BY <1>8, <3>1 DEF Settled
    <3> QED
      BY <1>2, <1>5, <1>8, <3>1, <3>2, <3>3, <3>4 DEF FilledDone
  <2> QED
    BY <2>1 DEF Balanced
<1>11. /\ d.replica = ReplicaAfter(c, e) /\ d.executed = c.executed
       /\ d.lastSeq = e.seq /\ d.lastTrade = c.lastTrade /\ d.closed = TRUE
  BY <1>4, <1>7 DEF After, ExecutedAfter
<1>12. Numbered(d)'
  <2>1. d.closed
    BY <1>11
  <2>2. tradeSeq = c.lastTrade
    BY DEF Numbered
  <2> QED
    BY <1>2, <1>5, <1>11, <2>1, <2>2 DEF Numbered
<1>13. ASSUME NEW o \in Objs
       PROVE  /\ Shown(o) <=> o \in Resting
              /\ Shown(o)' <=> o \in Resting
              /\ ~ Closing(o)'
              /\ o \in Resting => order'[o] = order[o] /\ pool[o] = 0
              /\ Owed(o) = 0 /\ Owed(o)' = 0
  <2>1. o \in Resting => order'[o] = order[o]
    BY <1>2
  <2>2. o \in Resting => pool[o] = 0
    BY HeldObjects
  <2> QED
    BY <1>2, <1>6, <2>1, <2>2 DEF Shown, Closing, Owed
<1>14. c.replica = [i \in OrderIds |-> c.replica[i]]
  BY DEF Mirrored
<1>15. Mirrored(d)'
  <2>1. CASE verdict = "Accepted"
    <3>1. subject \in Resting /\ Closing(subject)
      BY <1>2, <2>1 DEF Parts, Handler, Closing
    <3>2. /\ d.replica = [i \in OrderIds |-> d.replica[i]]
          /\ d.replica[order[subject].id] = [side |-> order[subject].side,
                price |-> order[subject].price, rem |-> order[subject].rem]
          /\ \A i \in OrderIds : i # order[subject].id => d.replica[i] = c.replica[i]
      <4>1. ReplicaAfter(c, e) =
              [c.replica EXCEPT ![order[subject].id] =
                 [side |-> order[subject].side, price |-> order[subject].price,
                  rem |-> order[subject].rem]]
        BY <1>5, <1>8, <2>1 DEF ReplicaAfter
      <4> QED
        BY <1>8, <1>11, <1>14, <2>1, <4>1
    <3>3. ASSUME NEW o \in Objs, Shown(o)'
          PROVE  d.replica[order'[o].id] = [side |-> order'[o].side, price |-> order'[o].price,
                                            rem |-> order'[o].rem + Lag(o)']
      <4>1. CASE o = subject
        BY <1>6, <1>8, <1>13, <2>1, <3>1, <3>2, <4>1
      <4>2. CASE o # subject
        <5>1. /\ Shown(o) /\ ~ Closing(o) /\ order'[o] = order[o] /\ pool[o] = 0
          BY <1>13, <3>3, <4>2 DEF Closing
        <5>2. order[o].id # order[subject].id /\ order[o].id \in OrderIds
          BY <1>8, <2>1, <4>2, <5>1, HeldObjects, IdsDiffer
        <5>3. c.replica[order[o].id] = [side |-> order[o].side, price |-> order[o].price,
                                        rem |-> order[o].rem + Lag(o)]
          BY <5>1 DEF Mirrored
        <5> QED
          BY <1>6, <3>2, <5>1, <5>2, <5>3
      <4> QED
        BY <4>1, <4>2
    <3>4. ASSUME NEW i \in OrderIds, \A o \in Objs : Shown(o)' \/ Closing(o)' => order'[o].id # i
          PROVE  d.replica[i] = NotResting
      <4>1. i # order[subject].id
        BY <1>8, <1>13, <2>1, <3>1, <3>4
      <4>2. \A o \in Objs : Shown(o) \/ Closing(o) => order[o].id # i
        BY <1>13, <3>4, <4>1 DEF Closing
      <4> QED
        BY <3>2, <4>1, <4>2 DEF Mirrored
    <3> QED
      BY <3>2, <3>3, <3>4 DEF Mirrored
  <2>2. CASE verdict = "Cancelled"
    <3>1. subject \notin Resting
      BY <1>2, <1>8, <2>2, SubjectHeld, EngineAssumption
    <3>2. /\ d.replica = [i \in OrderIds |-> d.replica[i]]
          /\ d.replica[order[subject].id] = NotResting
          /\ \A i \in OrderIds : i # order[subject].id => d.replica[i] = c.replica[i]
      <4>1. ReplicaAfter(c, e) = [c.replica EXCEPT ![order[subject].id] = NotResting]
        BY <1>5, <1>8, <2>2 DEF ReplicaAfter
      <4> QED
        BY <1>8, <1>11, <1>14, <2>2, <4>1
    <3>3. ASSUME NEW o \in Objs, Shown(o)'
          PROVE  d.replica[order'[o].id] = [side |-> order'[o].side, price |-> order'[o].price,
                                            rem |-> order'[o].rem + Lag(o)']
      <4>1. /\ Shown(o) /\ o # subject /\ order'[o] = order[o] /\ pool[o] = 0
        BY <1>13, <3>1, <3>3
      <4>2. order[o].id # order[subject].id /\ order[o].id \in OrderIds
        BY <1>8, <2>2, <4>1, HeldObjects, IdsDiffer
      <4>3. c.replica[order[o].id] = [side |-> order[o].side, price |-> order[o].price,
                                      rem |-> order[o].rem + Lag(o)]
        BY <4>1 DEF Mirrored, Closing
      <4> QED
        BY <1>6, <3>2, <4>1, <4>2, <4>3
    <3>4. ASSUME NEW i \in OrderIds, \A o \in Objs : Shown(o)' \/ Closing(o)' => order'[o].id # i
          PROVE  d.replica[i] = NotResting
      <4>1. CASE i = order[subject].id
        BY <3>2, <4>1
      <4>2. CASE i # order[subject].id
        <5>1. \A o \in Objs : Shown(o) \/ Closing(o) => order[o].id # i
          BY <1>13, <3>4, <4>2 DEF Closing
        <5> QED
          BY <3>2, <4>2, <5>1 DEF Mirrored
      <4> QED
        BY <4>1, <4>2
    <3> QED
      BY <3>2, <3>3, <3>4 DEF Mirrored
  <2>3. CASE verdict \in {"Filled", "Rejected"}
    <3>1. d.replica = c.replica
      BY <1>5, <1>7, <1>11, <2>3 DEF ReplicaAfter
    <3>2. \A o \in Objs : ~ Closing(o)
      BY <2>3 DEF Closing
    <3>3. \A o \in Objs : (Shown(o)' <=> Shown(o)) /\ (Shown(o) => order'[o] = order[o])
      BY <1>13
    <3>4. ASSUME NEW o \in Objs, Shown(o)'
          PROVE  d.replica[order'[o].id] = [side |-> order'[o].side, price |-> order'[o].price,
                                            rem |-> order'[o].rem + Lag(o)']
      <4>1. c.replica[order[o].id] = [side |-> order[o].side, price |-> order[o].price,
                                      rem |-> order[o].rem + Lag(o)]
        BY <3>2, <3>3, <3>4 DEF Mirrored
      <4> QED
        BY <1>6, <3>1, <3>3, <3>4, <4>1
    <3>5. ASSUME NEW i \in OrderIds, \A o \in Objs : Shown(o)' \/ Closing(o)' => order'[o].id # i
          PROVE  d.replica[i] = NotResting
      <4>1. \A o \in Objs : Shown(o) \/ Closing(o) => order[o].id # i
        BY <3>2, <3>3, <3>5
      <4> QED
        BY <3>1, <4>1 DEF Mirrored
    <3> QED
      BY <1>14, <3>1, <3>4, <3>5 DEF Mirrored
  <2> QED
    BY <1>7, <2>1, <2>2, <2>3
<1>16. Settled(d)'
  <2>1. /\ c.executed \in [OrderIds -> Nat]
        /\ \A i \in OrderIds : i > nextId => c.executed[i] = 0
    BY DEF Settled
  <2>2. ASSUME NEW o \in Objs, pool'[o] = 0
        PROVE  d.executed[order'[o].id] + Owed(o)' = order'[o].qty - order'[o].rem
    <3>1. order'[o] = order[o] /\ pool[o] = 0
      BY <1>2, <2>2
    <3>2. c.executed[order[o].id] + Owed(o) = order[o].qty - order[o].rem
      BY <3>1 DEF Settled
    <3> QED
      BY <1>11, <1>13, <3>1, <3>2
  <2> QED
    BY <1>2, <1>11, <2>1, <2>2 DEF Settled
<1> QED
  BY <1>2, <1>3, <1>4, <1>9, <1>10, <1>12, <1>15, <1>16 DEF Reports

-----------------------------------------------------------------------------
(* What an order to be filled or killed can still meet.                    *)

QuantityAt(s) == [p \in Prices |-> levels[s][p].quantity]

LEMMA DepthMeans ==
  ASSUME Book, NEW s \in Sides
  PROVE  /\ ToSet(prices[s]) \in SUBSET Prices /\ IsFiniteSet(ToSet(prices[s]))
         /\ \A p \in ToSet(prices[s]) :
              QuantityAt(s)[p] \in Nat /\ QuantityAt(s)[p] = levels[s][p].quantity
         /\ Depth(s) = Cardinality(Units(ToSet(prices[s]), QuantityAt(s)))
         /\ Depth(s) \in Nat
<1>1. prices[s] \in Seq(Prices) /\ ToSet(prices[s]) = {p \in Prices : levels[s][p] # NoNode}
  BY DEF Book, BookTypeOK, SlicesSorted
<1>2. ToSet(prices[s]) \in SUBSET Prices /\ IsFiniteSet(ToSet(prices[s]))
  BY <1>1, ToSetFinite
<1>3. ASSUME NEW p \in ToSet(prices[s])
      PROVE  QuantityAt(s)[p] \in Nat /\ QuantityAt(s)[p] = levels[s][p].quantity
  <2>1. p \in Prices /\ levels[s][p] # NoNode /\ BookTypeOK /\ IndexExact
    BY <1>1 DEF Book
  <2>2. levels[s][p].quantity \in Nat
    BY <2>1, LevelAt
  <2> QED
    BY <2>1, <2>2 DEF QuantityAt
<1>4. Depth(s) = Cardinality(Units(ToSet(prices[s]), QuantityAt(s)))
  BY <1>3 DEF Depth, Units
<1>5. Cardinality(Units(ToSet(prices[s]), QuantityAt(s))) \in Nat
  BY <1>2, <1>3, UnitsFinite
<1> QED
  BY <1>2, <1>3, <1>4, <1>5

LEMMA DepthMeansNext ==
  ASSUME Book', NEW s \in Sides
  PROVE  /\ ToSet(prices'[s]) = {p \in Prices : levels'[s][p] # NoNode}
         /\ \A p \in ToSet(prices'[s]) :
              QuantityAt(s)'[p] \in Nat /\ QuantityAt(s)'[p] = levels'[s][p].quantity
         /\ Depth(s)' = Cardinality(Units(ToSet(prices'[s]), QuantityAt(s)'))
<1>1. prices'[s] \in Seq(Prices) /\ ToSet(prices'[s]) = {p \in Prices : levels'[s][p] # NoNode}
  BY DEF Book, BookTypeOK, SlicesSorted
<1>2. ASSUME NEW p \in ToSet(prices'[s])
      PROVE  QuantityAt(s)'[p] \in Nat /\ QuantityAt(s)'[p] = levels'[s][p].quantity
  <2>1. p \in Prices /\ levels'[s][p] # NoNode /\ levels'[s][p] \in Node \cup {NoNode}
    BY <1>1 DEF Book, BookTypeOK
  <2>2. levels'[s][p].quantity \in Nat
    BY <2>1 DEF Node
  <2> QED
    BY <2>1, <2>2 DEF QuantityAt
<1>3. Depth(s)' = Cardinality(Units(ToSet(prices'[s]), QuantityAt(s)'))
  BY <1>2 DEF Depth, Units
<1> QED
  BY <1>1, <1>2, <1>3

LEMMA DepthTraded ==
  ASSUME Book, Book', NEW s \in Sides, NEW p \in ToSet(prices[s]), prices' = prices,
         NEW q \in Nat, levels'[s][p].quantity = levels[s][p].quantity - q,
         \A x \in Prices : x # p => levels'[s][x] = levels[s][x]
  PROVE  Depth(s)' = Depth(s) - q
<1>1. PICK S, r, r2 : S = ToSet(prices[s]) /\ r = QuantityAt(s) /\ r2 = QuantityAt(s)'
  OBVIOUS
<1>2. /\ S \in SUBSET Prices /\ IsFiniteSet(S)
      /\ \A x \in S : r[x] \in Nat /\ r[x] = levels[s][x].quantity
      /\ Depth(s) = Cardinality(Units(S, r))
  BY <1>1, DepthMeans
<1>3. ToSet(prices'[s]) = S
  BY <1>1
<1>4. /\ \A x \in S : r2[x] \in Nat /\ r2[x] = levels'[s][x].quantity
      /\ Depth(s)' = Cardinality(Units(S, r2))
  BY <1>1, <1>3, DepthMeansNext
<1>5. p \in S /\ q \in 0 .. r[p] /\ r2[p] = r[p] - q
  BY <1>1, <1>2, <1>4
<1>6. \A x \in S : x # p => r2[x] = r[x]
  BY <1>2, <1>4
<1>7. Cardinality(Units(S, r2)) = Cardinality(Units(S, r)) - q
  BY <1>2, <1>5, <1>6, UnitsTraded
<1> QED
  BY <1>2, <1>4, <1>7

LEMMA DepthPruned ==
  ASSUME Book, Book', NEW s \in Sides, NEW p \in ToSet(prices[s]),
         levels[s][p].quantity = 0, levels'[s][p] = NoNode,
         \A x \in Prices : x # p => levels'[s][x] = levels[s][x]
  PROVE  Depth(s)' = Depth(s)
<1>1. PICK S, T, r, r2 : /\ S = ToSet(prices[s]) /\ T = ToSet(prices'[s])
                         /\ r = QuantityAt(s) /\ r2 = QuantityAt(s)'
  OBVIOUS
<1>2. /\ S \in SUBSET Prices /\ IsFiniteSet(S)
      /\ \A x \in S : r[x] \in Nat /\ r[x] = levels[s][x].quantity
      /\ Depth(s) = Cardinality(Units(S, r))
  BY <1>1, DepthMeans
<1>3. S = {x \in Prices : levels[s][x] # NoNode}
  BY <1>1 DEF Book, SlicesSorted
<1>4. /\ T = {x \in Prices : levels'[s][x] # NoNode}
      /\ \A x \in T : r2[x] \in Nat /\ r2[x] = levels'[s][x].quantity
      /\ Depth(s)' = Cardinality(Units(T, r2))
  BY <1>1, DepthMeansNext
<1>5. p \in S /\ T = S \ {p} /\ r[p] = 0
  BY <1>1, <1>2, <1>3, <1>4
<1>6. \A x \in T : r2[x] = r[x]
  BY <1>2, <1>4, <1>5
<1>7. Units(T, r2) = Units(T, r)
  BY <1>6 DEF Units
<1>8. Cardinality(Units(S \ {p}, r)) = Cardinality(Units(S, r)) - r[p]
  BY <1>2, <1>5, UnitsWithout
<1>9. Cardinality(Units(S, r)) \in Nat
  BY <1>2, UnitsFinite
<1>10. Cardinality(Units(T, r2)) = Cardinality(Units(S \ {p}, r))
  BY <1>5, <1>7
<1>11. PICK n \in Nat : n = Cardinality(Units(S, r))
  BY <1>9
<1>12. Cardinality(Units(T, r2)) = n
  BY <1>5, <1>8, <1>10, <1>11
<1> QED
  BY <1>2, <1>4, <1>11, <1>12

\* The levels of a snapshot are among those of the book.
LEMMA DepthReaches ==
  ASSUME Book, NEW s \in Sides
  PROVE  Liquidity(s) \in Nat /\ Liquidity(s) <= Depth(s)
<1>1. PICK S, T, r : S = ToSet(prices[s]) /\ T = Snapshot(s) /\ r = QuantityAt(s)
  OBVIOUS
<1>2. /\ IsFiniteSet(S)
      /\ \A x \in S : r[x] \in Nat /\ r[x] = levels[s][x].quantity
      /\ Depth(s) = Cardinality(Units(S, r))
  BY <1>1, DepthMeans
<1>3. T \subseteq S
  BY <1>1 DEF Snapshot, ToSet
<1>4. Liquidity(s) = Cardinality(Units(T, r))
  BY <1>1, <1>2, <1>3 DEF Liquidity, Units
<1>5. Units(T, r) \subseteq Units(S, r)
  BY <1>3 DEF Units
<1>6. IsFiniteSet(Units(S, r))
  BY <1>2, UnitsFinite
<1>7. /\ IsFiniteSet(Units(T, r)) /\ Cardinality(Units(T, r)) <= Cardinality(Units(S, r))
      /\ Cardinality(Units(T, r)) \in Nat
  BY <1>5, <1>6, FS_Subset, FS_CardinalityType
<1> QED
  BY <1>2, <1>4, <1>7

LEMMA NoDepth ==
  ASSUME NEW s, prices[s] = <<>>
  PROVE  Depth(s) = 0
<1>1. ToSet(prices[s]) = {}
  BY DEF ToSet
<1>2. UNION {{p} \X (1 .. levels[s][p].quantity) : p \in ToSet(prices[s])} = {}
  BY <1>1
<1> QED
  BY <1>2, FS_EmptySet DEF Depth

FokCovered ==
  pc \in {"match", "fill", "emit"} /\ order[subject].type = "FOK" =>
    order[subject].rem <= IF pc = "emit" THEN 0 ELSE Depth(Opposite(order[subject].side))

LEMMA CoveredMeans == Covered <=> MakersDone /\ FilledDone /\ FokCovered
  BY DEF Covered, MakersDone, FilledDone, FokCovered

LEMMA CoveredMeansNext == Covered' <=> MakersDone' /\ FilledDone' /\ FokCovered'
  BY DEF Covered, MakersDone, FilledDone, FokCovered

LEMMA MakersDoneKept ==
  ASSUME Parts, MakersDone, \A o : Maker(o)' => Maker(o),
         \A o \in Objs : Maker(o) /\ Maker(o)' =>
           order'[o].status = order[o].status /\ order'[o].rem = order[o].rem
  PROVE  MakersDone'
<1>1. \A o : (o \in Makers <=> Maker(o)) /\ (o \in Makers' <=> Maker(o)')
  BY DEF Makers, Maker
<1>2. ASSUME NEW o, Maker(o) PROVE o \in Objs
  <2>1. PICK k \in DOMAIN trades : trades[k].maker = o
    BY <1>2 DEF Maker
  <2>2. trades[k] \in Execution
    BY TradesTyped
  <2> QED
    BY <2>1, <2>2 DEF Execution
<1>3. ASSUME NEW o \in Makers', order'[o].status = "Filled" PROVE order'[o].rem = 0
  <2>1. Maker(o) /\ Maker(o)' /\ o \in Objs /\ o \in Makers
    BY <1>1, <1>2, <1>3
  <2>2. order'[o].status = order[o].status /\ order'[o].rem = order[o].rem
    BY <2>1
  <2> QED
    BY <1>3, <2>1, <2>2 DEF MakersDone
<1> QED
  BY <1>3 DEF MakersDone

\* Nothing about the order in hand and the trades to come has changed.
LEMMA CoveredByRest ==
  ASSUME Parts, Covered, UNCHANGED <<trades, pc, subject, verdict, prices, levels>>,
         \A o \in Objs : pool[o] = 0 => order'[o] = order[o]
  PROVE  Covered'
<1>1. MakersDone /\ FilledDone /\ FokCovered
  BY CoveredMeans
<1>2. MakersDone'
  <2>1. \A o : Maker(o)' <=> Maker(o)
    BY DEF Maker
  <2>2. \A o \in Objs : Maker(o) => order'[o] = order[o]
    BY HeldObjects
  <2> QED
    BY <1>1, <2>1, <2>2, MakersDoneKept
<1>3. FilledDone'
  <2>1. ASSUME pc = "report", verdict = "Filled" PROVE order'[subject].rem = 0
    <3>1. subject # NoObj
      BY <2>1 DEF Parts, Handler
    <3>2. subject \in Objs /\ pool[subject] = 0
      BY <2>1, <3>1, SubjectHeld
    <3> QED
      BY <1>1, <2>1, <3>2 DEF FilledDone
  <2> QED
    BY <2>1 DEF FilledDone
<1>4. FokCovered'
  <2>1. ASSUME pc \in {"match", "fill", "emit"} PROVE order'[subject] = order[subject]
    BY <2>1, OrderInHand
  <2>2. \A s : Depth(s)' = Depth(s)
    BY DEF Depth
  <2> QED
    BY <1>1, <2>1, <2>2 DEF FokCovered
<1> QED
  BY <1>2, <1>3, <1>4, CoveredMeansNext

LEMMA CompleteCovers ==
  ASSUME Parts, FokCovered, Complete
  PROVE  order[subject].rem = 0
<1>1. pc = "emit"
  BY DEF Complete, Matched
<1>2. order[subject].rem \in Nat
  BY <1>1, OrderInHand
<1>3. CASE Matched("FOK")
  <2>1. order[subject].rem <= 0
    BY <1>1, <1>3 DEF Matched, FokCovered
  <2> QED
    BY <1>2, <2>1
<1>4. CASE ~ Matched("FOK")
  BY <1>4 DEF Complete
<1> QED
  BY <1>3, <1>4

LEMMA HandlerStepCovers ==
  ASSUME Parts, Covered, HandlerStep
  PROVE  Covered'
<1>1. pc \in {"new", "match", "emit"} /\ SubjectOnly
  BY HandlerSteps
<1>2. MakersDone /\ FilledDone /\ FokCovered
  BY CoveredMeans
<1>3. /\ subject \in Objs /\ ~ Maker(subject) /\ order[subject].rem \in Nat
      /\ order[subject].side \in Sides
  BY <1>1, OrderInHand
<1>4. /\ \A x \in Objs : x # subject => order'[x] = order[x]
      /\ order'[subject].side = order[subject].side /\ order'[subject].type = order[subject].type
      /\ order'[subject].rem = order[subject].rem
      /\ UNCHANGED <<prices, levels, subject, trades>>
  BY <1>1 DEF SubjectOnly
<1>5. MakersDone'
  <2>1. \A o : Maker(o)' <=> Maker(o)
    BY <1>4 DEF Maker
  <2>2. \A o \in Objs : Maker(o) => order'[o] = order[o]
    BY <1>3, <1>4
  <2> QED
    BY <1>2, <2>1, <2>2, MakersDoneKept
<1>6. FilledDone'
  <2>1. ASSUME pc' = "report", verdict' = "Filled" PROVE order[subject].rem = 0
    <3>1. Complete
      BY <2>1 DEF HandlerStep, StartMatch, EnterLevel, EndMatch, Reject, CancelRemainder, Conclude
    <3> QED
      BY <1>2, <3>1, CompleteCovers
  <2> QED
    BY <1>4, <2>1 DEF FilledDone
<1>7. FokCovered'
  <2> DEFINE opp == Opposite(order[subject].side)
  <2>1. opp \in Sides /\ Book
    BY <1>3, OppositeSide DEF Parts
  <2>2. Depth(opp)' = Depth(opp)
    BY <1>4 DEF Depth
  <2>3. Depth(opp) \in Nat /\ Liquidity(opp) \in Nat /\ Liquidity(opp) <= Depth(opp)
    BY <2>1, DepthMeans, DepthReaches
  <2>4. ASSUME pc' \in {"match", "fill", "emit"}, order[subject].type = "FOK"
        PROVE  order[subject].rem <= IF pc' = "emit" THEN 0 ELSE Depth(opp)
    <3>1. StartMatch \/ EnterLevel \/ EndMatch
      BY <2>4 DEF HandlerStep, Reject, CancelRemainder, Complete, Conclude
    <3>2. CASE StartMatch
      <4>1. pc' = "match" /\ ~ Refuses(order[subject])
        BY <3>2 DEF StartMatch
      <4>2. CanFillCompletely(subject)
        BY <2>4, <4>1 DEF Refuses
      <4>3. Liquidity(opp) >= order[subject].rem
        BY <4>2 DEF CanFillCompletely
      <4> QED
        BY <1>3, <2>3, <4>1, <4>3
    <3>3. CASE EnterLevel
      BY <1>2, <2>4, <3>3 DEF EnterLevel, FokCovered
    <3>4. CASE EndMatch
      <4>1. pc = "match" /\ pc' = "emit" /\ ~ Sweeps(subject)
        BY <3>4 DEF EndMatch
      <4>2. order[subject].rem = 0 \/ prices[opp] = <<>>
        BY <1>3, <2>4, <4>1 DEF Sweeps
      <4>3. order[subject].rem <= Depth(opp)
        BY <1>2, <2>4, <4>1 DEF FokCovered
      <4>4. prices[opp] = <<>> => Depth(opp) = 0
        BY NoDepth
      <4> QED
        BY <1>3, <4>1, <4>2, <4>3, <4>4
    <3> QED
      BY <3>1, <3>2, <3>3, <3>4
  <2> QED
    BY <1>4, <2>2, <2>4 DEF FokCovered
<1> QED
  BY <1>5, <1>6, <1>7, CoveredMeansNext

LEMMA FillMakerCovers ==
  ASSUME Parts, Covered, FillMaker
  PROVE  Covered'
<1>1. PICK m \in Objs, q \in Nat \ {0}, c \in Execution :
        Fill(subject, m, q) /\ Executes(m, q, c) /\ Book'
  BY FillMeans
<1>2. pc = "fill" /\ subject \in Objs /\ ~ Maker(subject) /\ order[subject].side \in Sides
      /\ order[subject].rem \in Nat
  BY OrderInHand DEF FillMaker
<1>3. /\ UNCHANGED <<pc, subject, verdict, prices>>
      /\ m # subject /\ q <= order[subject].rem /\ order[m].rem \in Nat
      /\ order'[subject].side = order[subject].side /\ order'[subject].type = order[subject].type
      /\ order'[subject].rem = order[subject].rem - q
      /\ order'[m].rem = order[m].rem - q
      /\ order'[m].status = IF q = order[m].rem THEN "Filled" ELSE "PartiallyFilled"
      /\ \A o \in Objs : o # subject /\ o # m => order'[o] = order[o]
      /\ c.maker = m /\ trades' = Append(trades, c)
  BY <1>1 DEF Executes
<1>4. MakersDone /\ FokCovered
  BY CoveredMeans
<1>5. MakersDone'
  <2>1. \A o : Maker(o)' <=> Maker(o) \/ o = m
    <3>1. \A o : Maker(o)' <=> Maker(o) \/ c.maker = o
      <4>1. ~ Maker(c.maker)
        BY <1>1 DEF Executes
      <4> QED
        BY <1>3, <4>1, TradesTyped, TradePushed
    <3> QED
      BY <1>3, <3>1
  <2>2. \A o : (o \in Makers <=> Maker(o)) /\ (o \in Makers' <=> Maker(o)')
    BY DEF Makers, Maker
  <2>3. ASSUME NEW o \in Makers', order'[o].status = "Filled" PROVE order'[o].rem = 0
    <3>1. CASE o = m
      BY <1>3, <2>3, <3>1
    <3>2. CASE o # m
      <4>1. Maker(o) /\ o \in Makers
        BY <2>1, <2>2, <2>3, <3>2
      <4>2. o \in Objs
        <5>1. PICK k \in DOMAIN trades : trades[k].maker = o
          BY <4>1 DEF Maker
        <5>2. trades[k] \in Execution
          BY TradesTyped
        <5> QED
          BY <5>1, <5>2 DEF Execution
      <4>3. order'[o] = order[o]
        BY <1>2, <1>3, <3>2, <4>1, <4>2
      <4> QED
        BY <1>4, <2>3, <4>1, <4>3 DEF MakersDone
    <3> QED
      BY <3>1, <3>2
  <2> QED
    BY <2>3 DEF MakersDone
<1>6. FilledDone'
  BY <1>2, <1>3 DEF FilledDone
<1>7. FokCovered'
  <2>1. PICK opp \in Sides : opp = Opposite(order[subject].side)
    BY <1>2, OppositeSide
  <2>2. PICK p : p = prices[opp][1]
    OBVIOUS
  <2>3. Book /\ prices[opp] # <<>>
    BY <1>2, <2>1 DEF Parts, Handler
  <2>4. p \in Prices /\ p \in ToSet(prices[opp])
    BY <2>2, <2>3, BestLevel
  <2>5. levels' = [levels EXCEPT ![opp][p] =
                     [quantity |-> levels[opp][p].quantity - q,
                      orders |-> IF order[m].rem = q THEN Tail(levels[opp][p].orders)
                                 ELSE levels[opp][p].orders]]
    BY <1>1, <2>1, <2>2, Zenon DEF Fill, BestNode
  <2>6. levels \in [Sides -> [Prices -> Node \cup {NoNode}]]
    BY <2>3 DEF Book, BookTypeOK
  <2>7. /\ levels'[opp][p].quantity = levels[opp][p].quantity - q
        /\ \A x \in Prices : x # p => levels'[opp][x] = levels[opp][x]
    BY <2>4, <2>5, <2>6
  <2>8. Depth(opp)' = Depth(opp) - q
    BY <1>1, <1>3, <2>3, <2>4, <2>7, DepthTraded
  <2>9. Depth(opp) \in Nat
    BY <2>3, DepthMeans
  <2> QED
    BY <1>2, <1>3, <1>4, <2>1, <2>8, <2>9 DEF FokCovered
<1> QED
  BY <1>5, <1>6, <1>7, CoveredMeansNext

LEMMA LeaveLevelCovers ==
  ASSUME Parts, Parts', Covered, LeaveLevel
  PROVE  Covered'
<1>1. /\ PruneBest(subject) /\ pc = "fill" /\ pc' = "match"
      /\ UNCHANGED <<subject, trades, verdict, order>>
  BY DEF LeaveLevel, PruneBest
<1>2. order[subject].side \in Sides /\ order[subject].rem \in Nat
  BY <1>1, OrderInHand
<1>3. MakersDone /\ FokCovered
  BY CoveredMeans
<1>4. MakersDone'
  <2>1. \A o : Maker(o)' <=> Maker(o)
    BY <1>1 DEF Maker
  <2> QED
    BY <1>1, <1>3, <2>1, MakersDoneKept
<1>5. FilledDone'
  BY <1>1 DEF FilledDone
<1>6. FokCovered'
  <2>1. PICK opp \in Sides : opp = Opposite(order[subject].side)
    BY <1>2, OppositeSide
  <2>2. PICK p : p = prices[opp][1]
    OBVIOUS
  <2>3. Book /\ Book' /\ prices[opp] # <<>>
    BY <1>1, <2>1 DEF Parts, Handler
  <2>4. p \in Prices /\ p \in ToSet(prices[opp])
    BY <2>2, <2>3, BestLevel
  <2>5. IF levels[opp][p].quantity = 0
          THEN levels' = [levels EXCEPT ![opp][p] = NoNode]
          ELSE UNCHANGED <<levels, prices>>
    BY <1>1, <2>1, <2>2 DEF PruneBest, BestNode
  <2>6. levels \in [Sides -> [Prices -> Node \cup {NoNode}]]
    BY <2>3 DEF Book, BookTypeOK
  <2>7. CASE levels[opp][p].quantity = 0
    <3>1. /\ levels'[opp][p] = NoNode
          /\ \A x \in Prices : x # p => levels'[opp][x] = levels[opp][x]
      BY <2>4, <2>5, <2>6, <2>7
    <3>2. Depth(opp)' = Depth(opp)
      BY <2>3, <2>4, <2>7, <3>1, DepthPruned
    <3> QED
      BY <1>1, <1>3, <2>1, <3>2 DEF FokCovered
  <2>8. CASE levels[opp][p].quantity # 0
    <3>1. UNCHANGED <<levels, prices>>
      BY <2>5, <2>8
    <3>2. Depth(opp)' = Depth(opp)
      BY <3>1 DEF Depth
    <3> QED
      BY <1>1, <1>3, <2>1, <3>2 DEF FokCovered
  <2> QED
    BY <2>7, <2>8
<1> QED
  BY <1>4, <1>5, <1>6, CoveredMeansNext

LEMMA EmitTradeCovers ==
  ASSUME Parts, Covered, EmitTrade
  PROVE  Covered'
<1>1. PICK m \in Objs, c \in Execution : Publishes(m, c)
  BY EmitMeans
<1>2. /\ pc = "emit" /\ pc' = "emit" /\ c = Head(trades) /\ c.maker = m
      /\ trades # <<>> /\ trades' = Tail(trades)
      /\ UNCHANGED <<subject, verdict>> /\ m # subject
      /\ \A x \in Objs : x # m => order'[x] = order[x]
  BY <1>1 DEF Publishes
<1>3. subject \in Objs
  BY <1>2, OrderInHand
<1>4. MakersDone /\ FokCovered
  BY CoveredMeans
<1>5. MakersDone'
  <2>1. \A x : Maker(x)' <=> Maker(x) /\ x # c.maker
    BY <1>2, TradesTyped, TradePopped
  <2> QED
    BY <1>2, <1>4, <2>1, MakersDoneKept
<1>6. FilledDone'
  BY <1>2 DEF FilledDone
<1>7. FokCovered'
  BY <1>2, <1>3, <1>4 DEF FokCovered
<1> QED
  BY <1>5, <1>6, <1>7, CoveredMeansNext

\* Between two orders, or when one is done or rests, nothing is left to cover.
LEMMA NothingToCover ==
  ASSUME trades' = <<>>, pc' \in {"idle", "new", "report"}, verdict' # "Filled"
  PROVE  Covered'
<1>1. Makers' = {}
  BY NoLagsNext
<1> QED
  BY <1>1 DEF Covered

-----------------------------------------------------------------------------
(* The orders of the book as the abstract specification sees them.         *)

(* Disjoint sets hold together as many elements as their sizes say.        *)
LEMMA UnitsByKey ==
  ASSUME NEW P, IsFiniteSet(P), NEW n, NEW U,
         \A p \in P : n[p] \in Nat /\ IsFiniteSet(U[p]) /\ Cardinality(U[p]) = n[p],
         \A p, q \in P : p # q => U[p] \cap U[q] = {}
  PROVE  Cardinality(UNION {U[p] : p \in P}) = Cardinality(Units(P, n))
<1> DEFINE F == [p \in P |-> CHOOSE f : f \in Bijection(1 .. n[p], U[p])]
           S == Units(P, n)
           T == UNION {U[p] : p \in P}
           G == [u \in S |-> F[u[1]][u[2]]]
<1>1. ASSUME NEW p \in P PROVE F[p] \in Bijection(1 .. n[p], U[p])
  <2>1. ExistsBijection(1 .. n[p], U[p])
    BY FS_CardinalityType
  <2>2. \E f : f \in Bijection(1 .. n[p], U[p])
    BY <2>1 DEF ExistsBijection
  <2> QED
    BY <2>2
<1> HIDE DEF F
<1>2. ASSUME NEW p \in P
      PROVE  /\ \A k \in 1 .. n[p] : F[p][k] \in U[p]
             /\ \A j, k \in 1 .. n[p] : F[p][j] = F[p][k] => j = k
             /\ \A x \in U[p] : \E k \in 1 .. n[p] : F[p][k] = x
  BY <1>1 DEF Bijection, Injection, Surjection, IsInjective
<1>3. \A u \in S : u[1] \in P /\ u[2] \in 1 .. n[u[1]] /\ u = <<u[1], u[2]>>
  BY DEF Units
<1>4. \A p \in P : \A k \in 1 .. n[p] : <<p, k>> \in S
  BY DEF Units
<1> HIDE DEF S
<1>5. \A u \in S : G[u] \in U[u[1]] /\ G[u] \in T
  BY <1>2, <1>3
<1>6. ASSUME NEW u \in S, NEW v \in S, G[u] = G[v] PROVE u = v
  <2>1. u[1] = v[1]
    BY <1>3, <1>5, <1>6
  <2>2. u[2] = v[2]
    BY <1>2, <1>3, <1>6, <2>1
  <2> QED
    BY <1>3, <2>1, <2>2
<1>7. ASSUME NEW x \in T PROVE \E u \in S : G[u] = x
  <2>1. PICK p \in P : x \in U[p]
    OBVIOUS
  <2>2. PICK k \in 1 .. n[p] : F[p][k] = x
    BY <1>2, <2>1
  <2>3. <<p, k>> \in S /\ G[<<p, k>>] = x
    BY <1>4, <2>2
  <2> QED
    BY <2>3
<1>8. G \in Bijection(S, T)
  <2>1. G \in [S -> T]
    BY <1>5
  <2> HIDE DEF G, T
  <2>2. G \in Injection(S, T)
    BY <1>6, <2>1 DEF Injection, IsInjective
  <2>3. G \in Surjection(S, T)
    BY <1>7, <2>1 DEF Surjection
  <2> QED
    BY <2>2, <2>3 DEF Bijection
<1>9. IsFiniteSet(S)
  BY UnitsFinite DEF S
<1> HIDE DEF G, T
<1>10. ExistsBijection(S, T)
  BY <1>8 DEF ExistsBijection
<1>11. Cardinality(T) = Cardinality(S)
  BY <1>9, <1>10, FS_Bijection
<1> QED
  BY <1>11 DEF S, T

(* Units may be told by another name of who has them.                      *)
UnitsAs(S, r, h) == UNION {{h[o]} \X (1 .. r[o]) : o \in S}

LEMMA UnitsRenamed ==
  ASSUME NEW S, IsFiniteSet(S), NEW r, \A o \in S : r[o] \in Nat,
         NEW h, \A o, m \in S : h[o] = h[m] => o = m
  PROVE  /\ IsFiniteSet(UnitsAs(S, r, h))
         /\ Cardinality(UnitsAs(S, r, h)) = Cardinality(Units(S, r))
<1> DEFINE U == [o \in S |-> {h[o]} \X (1 .. r[o])]
<1>1. \A o \in S : U[o] = {h[o]} \X (1 .. r[o])
  OBVIOUS
<1>5. {U[o] : o \in S} = {{h[o]} \X (1 .. r[o]) : o \in S}
  OBVIOUS
<1> HIDE DEF U
<1>2. ASSUME NEW o \in S PROVE IsFiniteSet(U[o]) /\ Cardinality(U[o]) = r[o]
  <2>1. PICK x, n : x = h[o] /\ n = r[o] /\ n \in Nat
    OBVIOUS
  <2>2. IsFiniteSet({x} \X (1 .. n)) /\ Cardinality({x} \X (1 .. n)) = n
    BY <2>1, UnitsOfOne
  <2> QED
    BY <1>1, <2>1, <2>2
<1>3. ASSUME NEW o \in S, NEW m \in S, o # m PROVE U[o] \cap U[m] = {}
  BY <1>1, <1>3
<1>4. Cardinality(UNION {U[o] : o \in S}) = Cardinality(Units(S, r))
  <2>1. \A o \in S : r[o] \in Nat /\ IsFiniteSet(U[o]) /\ Cardinality(U[o]) = r[o]
    BY <1>2
  <2>2. \A o, m \in S : o # m => U[o] \cap U[m] = {}
    BY <1>3
  <2> QED
    BY <2>1, <2>2, UnitsByKey
<1>6. IsFiniteSet(UNION {U[o] : o \in S})
  <2>1. U \in Surjection(S, {U[o] : o \in S})
    BY DEF Surjection, U
  <2>2. IsFiniteSet({U[o] : o \in S})
    BY <2>1, FS_Surjection
  <2> QED
    BY <1>2, <2>2, FS_UNION
<1> QED
  BY <1>4, <1>5, <1>6 DEF UnitsAs

(* Two orders that rest are told apart by their identifiers.               *)
LEMMA ViewsDiffer ==
  ASSUME Book, NEW o \in Resting, NEW m \in Resting, AsOrder(o).id = AsOrder(m).id
  PROVE  o = m
<1>1. order[o].id = order[m].id
  BY DEF AsOrder
<1>2. /\ index[order[o].id] = [side |-> order[o].side, price |-> order[o].price, obj |-> o]
      /\ index[order[m].id] = [side |-> order[m].side, price |-> order[m].price, obj |-> m]
  <2>1. BookTypeOK /\ IndexExact
    BY DEF Book
  <2> QED
    BY <2>1, RestingAt
<1> QED
  BY <1>1, <1>2

(* The units of a level, told by the orders as they are seen from outside. *)
ViewUnits(S) == UNION {{AsOrder(o)} \X (1 .. order[o].rem) : o \in S}

LEMMA LevelUnits ==
  ASSUME Book, NEW s \in Sides, NEW p \in Prices, levels[s][p] # NoNode
  PROVE  /\ IsFiniteSet(ViewUnits(ToSet(levels[s][p].orders)))
         /\ Cardinality(ViewUnits(ToSet(levels[s][p].orders))) = levels[s][p].quantity
         /\ levels[s][p].quantity \in Nat
<1>1. PICK queue : queue = levels[s][p].orders
  OBVIOUS
<1>2. PICK S : S = ToSet(queue)
  OBVIOUS
<1>3. /\ levels[s][p].quantity \in Nat /\ queue \in Seq(Objs) /\ IsFiniteSet(S)
      /\ \A o \in S : o \in Resting
  BY <1>1, <1>2, LevelAt DEF Book
<1>4. levels[s][p].quantity = Cardinality(Units(S, Left))
  BY <1>1, <1>2, <1>3, UnitsLeftMeans DEF Book, QuantityExact
<1>5. ASSUME NEW o \in S PROVE o \in Objs /\ Left[o] = order[o].rem /\ Left[o] \in Nat
  <2>1. o \in Objs /\ order \in [Objs -> OrderRecord]
    BY <1>3, RestingAt DEF Book, BookTypeOK
  <2> QED
    BY <2>1 DEF Left, OrderRecord
<1>6. PICK h : \A o \in S : h[o] = AsOrder(o)
  <2> DEFINE h == [o \in S |-> AsOrder(o)]
  <2>1. \A o \in S : h[o] = AsOrder(o)
    OBVIOUS
  <2> HIDE DEF h
  <2> QED
    BY <2>1
<1>7. ASSUME NEW o \in S, NEW m \in S, h[o] = h[m] PROVE o = m
  BY <1>3, <1>6, <1>7, ViewsDiffer
<1>8. /\ IsFiniteSet(UnitsAs(S, Left, h))
      /\ Cardinality(UnitsAs(S, Left, h)) = Cardinality(Units(S, Left))
  <2>1. \A o \in S : Left[o] \in Nat
    BY <1>5
  <2>2. \A o, m \in S : h[o] = h[m] => o = m
    BY <1>7
  <2>3. PICK r : r = Left
    OBVIOUS
  <2>4. \A o \in S : r[o] \in Nat
    BY <2>1, <2>3
  <2>5. /\ IsFiniteSet(UnitsAs(S, r, h))
        /\ Cardinality(UnitsAs(S, r, h)) = Cardinality(Units(S, r))
    BY <1>3, <2>2, <2>4, UnitsRenamed
  <2> QED
    BY <2>3, <2>5
<1>9. UnitsAs(S, Left, h) = ViewUnits(S)
  BY <1>5, <1>6 DEF ViewUnits, UnitsAs
<1> QED
  BY <1>1, <1>2, <1>3, <1>4, <1>8, <1>9

(* Matching counts as FiniteSets does.                                     *)
LEMMA SameSize == \A S : Abstract!Cardinality(S) = Cardinality(S)
  BY DEF Abstract!Cardinality, Cardinality

(* The other side as the abstract specification sees it.                   *)
LEMMA OtherSideIs ==
  ASSUME Book, NEW t, t.side \in Sides
  PROVE  /\ \A o \in Resting : order[o].side = Opposite(t.side) =>
              AsOrder(o) \in Abstract!OtherSide(t)
         /\ \A a \in Abstract!OtherSide(t) : \E o \in Resting :
              a = AsOrder(o) /\ order[o].side = Opposite(t.side)
<1>1. ASSUME NEW o \in Resting
      PROVE  order[o].side # t.side <=> order[o].side = Opposite(t.side)
  <2>1. order[o].side \in Sides
    BY RestingAt DEF Book
  <2> QED
    BY <2>1 DEF Sides, Opposite
<1>2. \A o : AsOrder(o).side = order[o].side
  BY DEF AsOrder
<1> QED
  BY <1>1, <1>2 DEF Abstract!OtherSide, Standing

\* No level is empty.
Stocked(s) == \A p \in Prices : levels[s][p] # NoNode => levels[s][p].orders # <<>>

(* As many prices are better than one of the slice as stand before it.     *)
LEMMA BetterPrices ==
  ASSUME Book, NEW s \in Sides, NEW p \in ToSet(prices[s])
  PROVE  Cardinality({q \in ToSet(prices[s]) : Better(s, q, p)}) < MaxDepth <=> p \in Snapshot(s)
<1>1. PICK list : list = prices[s]
  OBVIOUS
<1>2. list \in Seq(Prices) /\ Sorted(s, list) /\ DOMAIN list = 1 .. Len(list)
  BY <1>1 DEF Book, BookTypeOK, SlicesSorted, Sorted
<1>3. PICK i \in 1 .. Len(list) : list[i] = p
  BY <1>1, <1>2 DEF ToSet
<1>4. \A j \in 1 .. Len(list) : list[j] \in Prices
  BY <1>2
<1>5. ASSUME NEW j \in 1 .. Len(list) PROVE Better(s, list[j], p) <=> j < i
  <2>1. j < i => Better(s, list[j], list[i])
    BY <1>2 DEF Sorted
  <2>2. i < j => Better(s, list[i], list[j])
    BY <1>2 DEF Sorted
  <2>3. i = j \/ i < j \/ j < i
    OBVIOUS
  <2> QED
    BY <1>3, <1>4, <2>1, <2>2, <2>3, BetterOrders
<1>6. ASSUME NEW j \in 1 .. Len(list), NEW k \in 1 .. Len(list), list[j] = list[k] PROVE j = k
  <2>1. j < k => Better(s, list[j], list[k])
    BY <1>2 DEF Sorted
  <2>2. k < j => Better(s, list[k], list[j])
    BY <1>2 DEF Sorted
  <2>3. ~ Better(s, list[j], list[k]) /\ ~ Better(s, list[k], list[j])
    BY <1>4, <1>6, BetterOrders
  <2>4. j = k \/ j < k \/ k < j
    OBVIOUS
  <2> QED
    BY <2>1, <2>2, <2>3, <2>4
<1>7. PICK T : T = {q \in ToSet(prices[s]) : Better(s, q, p)}
  OBVIOUS
<1>8. T = {list[j] : j \in 1 .. i - 1}
  BY <1>1, <1>2, <1>5, <1>7 DEF ToSet
<1>9. Cardinality(T) = i - 1
  <2> DEFINE f == [j \in 1 .. i - 1 |-> list[j]]
  <2>1. f \in Bijection(1 .. i - 1, T)
    <3>1. f \in [1 .. i - 1 -> T]
      BY <1>8
    <3>2. \A j, k \in 1 .. i - 1 : f[j] = f[k] => j = k
      BY <1>6
    <3>3. \A x \in T : \E j \in 1 .. i - 1 : f[j] = x
      BY <1>8
    <3> HIDE DEF f
    <3> QED
      BY <3>1, <3>2, <3>3 DEF Bijection, Injection, Surjection, IsInjective
  <2>2. ExistsBijection(1 .. i - 1, T)
    BY <2>1 DEF ExistsBijection
  <2>3. IsFiniteSet(1 .. i - 1) /\ Cardinality(1 .. i - 1) = i - 1
    <3>1. i - 1 \in Int /\ 1 \in Int /\ (1 > i - 1 => i - 1 = 0)
      OBVIOUS
    <3> QED
      BY <3>1, FS_Interval
  <2> QED
    BY <2>2, <2>3, FS_Bijection
<1>10. p \in Snapshot(s) <=> i <= MaxDepth
  <2>1. p \in Snapshot(s) <=> \E j \in 1 .. Len(list) : j <= MaxDepth /\ list[j] = p
    BY <1>1, <1>2 DEF Snapshot
  <2>2. \A j \in 1 .. Len(list) : list[j] = p => j = i
    BY <1>3, <1>6
  <2> QED
    BY <1>3, <2>1, <2>2
<1>11. MaxDepth \in Nat
  BY BookAssumption
<1> QED
  BY <1>7, <1>9, <1>10, <1>11

(* Which orders are in sight: those at the prices of the snapshot.         *)
LEMMA InSightAt ==
  ASSUME Book, NEW t, t.side \in Sides, NEW s, s = Opposite(t.side), Stocked(s)
  PROVE  /\ \A o \in Resting : order[o].side = s /\ order[o].price \in Snapshot(s) =>
              AsOrder(o) \in Abstract!InSight(t)
         /\ \A a \in Abstract!InSight(t) : \E o \in Resting :
              a = AsOrder(o) /\ order[o].side = s /\ order[o].price \in Snapshot(s)
<1>1. s \in Sides /\ BookTypeOK /\ IndexExact
  BY OppositeSide DEF Book
<1>2. \A o : AsOrder(o).side = order[o].side /\ AsOrder(o).price = order[o].price
  BY DEF AsOrder
<1>3. ToSet(prices[s]) = {p \in Prices : levels[s][p] # NoNode}
  BY <1>1 DEF Book, SlicesSorted
<1>4. ASSUME NEW o \in Resting, order[o].side = s PROVE order[o].price \in ToSet(prices[s])
  <2>1. order[o].price \in Prices /\ levels[order[o].side][order[o].price] # NoNode
    BY <1>1, RestingAt
  <2> QED
    BY <1>3, <1>4, <2>1
<1>5. ASSUME NEW q \in ToSet(prices[s]) PROVE \E o \in Resting : order[o].side = s /\ order[o].price = q
  <2>1. q \in Prices /\ levels[s][q] # NoNode
    BY <1>3
  <2>2. PICK queue : queue = levels[s][q].orders
    OBVIOUS
  <2>3. queue \in Seq(Objs) /\ queue # <<>>
        /\ \A o \in ToSet(queue) : o \in Resting /\ order[o].side = s /\ order[o].price = q
    <3>1. levels[s][q].orders # <<>>
      BY <2>1 DEF Stocked
    <3>2. PICK z \in Sides : z = s
      BY <1>1
    <3>3. levels[z][q] # NoNode
      BY <2>1, <3>2
    <3>4. /\ levels[z][q].orders \in Seq(Objs)
          /\ \A o \in ToSet(levels[z][q].orders) :
               o \in Resting /\ order[o].side = z /\ order[o].price = q
      BY <1>1, <2>1, <3>3, LevelAt
    <3> QED
      BY <2>2, <3>1, <3>2, <3>4
  <2>4. ToSet(queue) # {}
    BY <2>3, EmptyQueue
  <2> QED
    BY <2>3, <2>4
<1>6. ASSUME NEW o \in Resting, order[o].side = s
      PROVE  Abstract!BetterOffers(t, AsOrder(o))
               = {q \in ToSet(prices[s]) : Better(s, q, order[o].price)}
  <2>1. PICK p : p = order[o].price
    OBVIOUS
  <2>2. ASSUME NEW r \in Abstract!OtherSide(t)
        PROVE  r.side = s /\ r.price \in ToSet(prices[s])
    BY <1>2, <1>4, OtherSideIs
  <2>3. ASSUME NEW q \in ToSet(prices[s])
        PROVE  \E r \in Abstract!OtherSide(t) : r.side = s /\ r.price = q
    <3>1. PICK x \in Resting : order[x].side = s /\ order[x].price = q
      BY <1>5
    <3> QED
      BY <1>2, <3>1, OtherSideIs
  <2>4. \A q : Abstract!Beats(s, q, p) <=> Better(s, q, p)
    BY DEF Abstract!Beats, Better
  <2>5. AsOrder(o).price = p
    BY <1>2, <2>1
  <2> QED
    BY <2>1, <2>2, <2>3, <2>4, <2>5 DEF Abstract!BetterOffers
<1>7. ASSUME NEW o \in Resting, order[o].side = s
      PROVE  AsOrder(o) \in Abstract!InSight(t) <=> order[o].price \in Snapshot(s)
  <2>1. AsOrder(o) \in Abstract!OtherSide(t)
    BY <1>7, OtherSideIs
  <2>2. AsOrder(o) \in Abstract!InSight(t)
          <=> Cardinality(Abstract!BetterOffers(t, AsOrder(o))) < MaxDepth
    BY <2>1, SameSize DEF Abstract!InSight
  <2>3. Cardinality({q \in ToSet(prices[s]) : Better(s, q, order[o].price)}) < MaxDepth
          <=> order[o].price \in Snapshot(s)
    BY <1>1, <1>4, <1>7, BetterPrices
  <2> QED
    BY <1>6, <1>7, <2>2, <2>3
<1>8. \A a \in Abstract!InSight(t) : a \in Abstract!OtherSide(t)
  BY DEF Abstract!InSight
<1> QED
  BY <1>7, <1>8, OtherSideIs

(* What the levels of the snapshot hold is what the orders in sight have   *)
(* left.                                                                   *)
LEMMA LiquidityInSight ==
  ASSUME Book, NEW t, t.side \in Sides, NEW s \in Sides, s = Opposite(t.side), Stocked(s)
  PROVE  Abstract!Total(Abstract!InSight(t)) = Liquidity(s) /\ Liquidity(s) \in Nat
<1>1. PICK P, r : P = Snapshot(s) /\ r = QuantityAt(s)
  OBVIOUS
<1>2. /\ ToSet(prices[s]) \in SUBSET Prices /\ IsFiniteSet(ToSet(prices[s]))
      /\ ToSet(prices[s]) = {p \in Prices : levels[s][p] # NoNode}
      /\ \A p \in ToSet(prices[s]) :
           QuantityAt(s)[p] \in Nat /\ QuantityAt(s)[p] = levels[s][p].quantity
  BY DepthMeans DEF Book, SlicesSorted
<1>3. P \subseteq ToSet(prices[s])
  BY <1>1 DEF Snapshot, ToSet
<1>4. /\ IsFiniteSet(P)
      /\ \A p \in P : r[p] \in Nat /\ r[p] = levels[s][p].quantity
                      /\ p \in Prices /\ levels[s][p] # NoNode
  BY <1>1, <1>2, <1>3, FS_Subset
<1>5. Liquidity(s) = Cardinality(Units(P, r))
  <2>1. \A p \in P : r[p] = levels[s][p].quantity
    BY <1>4
  <2>2. Units(P, r) = UNION {{p} \X (1 .. levels[s][p].quantity) : p \in P}
    BY <2>1 DEF Units
  <2> QED
    BY <1>1, <2>2 DEF Liquidity
<1>6. PICK U : \A p \in P : U[p] = ViewUnits(ToSet(levels[s][p].orders))
  <2> DEFINE U == [p \in P |-> ViewUnits(ToSet(levels[s][p].orders))]
  <2>1. \A p \in P : U[p] = ViewUnits(ToSet(levels[s][p].orders))
    OBVIOUS
  <2> HIDE DEF U
  <2> QED
    BY <2>1
<1>7. ASSUME NEW p \in P PROVE IsFiniteSet(U[p]) /\ Cardinality(U[p]) = r[p]
  BY <1>4, <1>6, LevelUnits
<1>8. ASSUME NEW p \in P, NEW o \in ToSet(levels[s][p].orders)
      PROVE  o \in Resting /\ order[o].side = s /\ order[o].price = p
  BY <1>4, LevelOrder DEF Book
<1>9. \A o : AsOrder(o).price = order[o].price /\ AsOrder(o).rem = order[o].rem
  BY DEF AsOrder
<1>10. ASSUME NEW p \in P, NEW x \in U[p]
       PROVE  \E o \in ToSet(levels[s][p].orders) :
                x[1] = AsOrder(o) /\ x[2] \in 1 .. order[o].rem /\ x = <<x[1], x[2]>>
  BY <1>6 DEF ViewUnits
<1>11. ASSUME NEW p \in P, NEW q \in P, p # q PROVE U[p] \cap U[q] = {}
  <2>1. ASSUME NEW x \in U[p] \cap U[q] PROVE FALSE
    <3>1. PICK o \in ToSet(levels[s][p].orders) : x[1] = AsOrder(o)
      BY <1>10
    <3>2. PICK m \in ToSet(levels[s][q].orders) : x[1] = AsOrder(m)
      BY <1>10
    <3>3. order[o].price = p /\ order[m].price = q
      BY <1>8
    <3> QED
      BY <1>9, <1>11, <3>1, <3>2, <3>3
  <2> QED
    BY <2>1
<1>12. Cardinality(UNION {U[p] : p \in P}) = Cardinality(Units(P, r))
  <2>1. \A p \in P : r[p] \in Nat /\ IsFiniteSet(U[p]) /\ Cardinality(U[p]) = r[p]
    BY <1>4, <1>7
  <2>2. \A p, q \in P : p # q => U[p] \cap U[q] = {}
    BY <1>11
  <2> QED
    BY <1>4, <2>1, <2>2, UnitsByKey
<1>13. PICK InSight : InSight = Abstract!InSight(t)
  OBVIOUS
<1>14. /\ \A o \in Resting : order[o].side = s /\ order[o].price \in P => AsOrder(o) \in InSight
       /\ \A a \in InSight : \E o \in Resting :
            a = AsOrder(o) /\ order[o].side = s /\ order[o].price \in P
  BY <1>1, <1>13, InSightAt
<1>15. ASSUME NEW p \in P, NEW x \in U[p]
       PROVE  \E a \in InSight : x \in {a} \X (1 .. a.rem)
  <2>1. PICK o \in ToSet(levels[s][p].orders) :
          x[1] = AsOrder(o) /\ x[2] \in 1 .. order[o].rem /\ x = <<x[1], x[2]>>
    BY <1>10
  <2>2. AsOrder(o) \in InSight
    BY <1>8, <1>14
  <2> QED
    BY <1>9, <2>1, <2>2
<1>16. ASSUME NEW a \in InSight, NEW x \in {a} \X (1 .. a.rem)
       PROVE  \E p \in P : x \in U[p]
  <2>1. PICK o \in Resting : a = AsOrder(o) /\ order[o].side = s /\ order[o].price \in P
    BY <1>14
  <2>2. o \in ToSet(levels[order[o].side][order[o].price].orders)
    BY RestingAt DEF Book
  <2>3. x \in {AsOrder(o)} \X (1 .. order[o].rem)
    BY <1>9, <2>1
  <2>4. x \in ViewUnits(ToSet(levels[s][order[o].price].orders))
    BY <2>1, <2>2, <2>3 DEF ViewUnits
  <2> QED
    BY <1>6, <2>1, <2>4
<1>17. UNION {U[p] : p \in P} = UNION {{a} \X (1 .. a.rem) : a \in InSight}
  BY <1>15, <1>16
<1>18. Abstract!Total(InSight) = Cardinality(UNION {{a} \X (1 .. a.rem) : a \in InSight})
  BY SameSize DEF Abstract!Total
<1>19. Cardinality(Units(P, r)) \in Nat
  BY <1>4, UnitsFinite
<1> QED
  BY <1>5, <1>12, <1>13, <1>17, <1>18, <1>19

(* No order of a side has a better price than the first of its slice.      *)
LEMMA BestFirst ==
  ASSUME Book, NEW s \in Sides, NEW o \in Resting, order[o].side = s
  PROVE  /\ prices[s] # <<>> /\ prices[s][1] \in Prices /\ order[o].price \in Prices
         /\ order[o].price = prices[s][1] \/ Better(s, prices[s][1], order[o].price)
<1>1. PICK list, p : list = prices[s] /\ p = order[o].price
  OBVIOUS
<1>2. list \in Seq(Prices) /\ Sorted(s, list) /\ ToSet(list) = {q \in Prices : levels[s][q] # NoNode}
  BY <1>1 DEF Book, BookTypeOK, SlicesSorted, Sorted
<1>3. p \in Prices /\ levels[s][p] # NoNode
  BY <1>1, RestingAt DEF Book
<1>4. PICK i \in DOMAIN list : list[i] = p
  BY <1>2, <1>3 DEF ToSet
<1>5. i \in 1 .. Len(list) /\ 1 \in 1 .. Len(list) /\ list # <<>> /\ list[1] \in Prices
  BY <1>2, <1>4
<1>6. i = 1 \/ Better(s, list[1], list[i])
  BY <1>2, <1>5 DEF Sorted
<1> QED
  BY <1>1, <1>3, <1>4, <1>5, <1>6

\* The orders of each level stand in line.
InLine == \A s \in Sides, p \in Prices : levels[s][p] # NoNode => Senior(levels[s][p].orders)

(* Nobody on the side comes before the first of the best level.            *)
LEMMA FirstInLine ==
  ASSUME Book, InLine, NEW t, t.side \in Sides, NEW s \in Sides, s = Opposite(t.side),
         prices[s] # <<>>, NEW p, p = prices[s][1], NEW m, m = Head(levels[s][p].orders),
         levels[s][p].orders # <<>>
  PROVE  /\ m \in Resting /\ order[m].side = s /\ order[m].price = p
         /\ AsOrder(m) \in Abstract!OtherSide(t)
         /\ \A a \in Abstract!OtherSide(t) : ~ Abstract!Before(a, AsOrder(m))
<1>1. p \in Prices /\ levels[s][p] # NoNode
  BY BestLevel
<1>2. PICK queue : queue = levels[s][p].orders
  OBVIOUS
<1>3. queue \in Seq(Objs) /\ queue # <<>> /\ m = Head(queue)
  BY <1>1, <1>2, LevelAt DEF Book
<1>4. 1 \in 1 .. Len(queue) /\ m = queue[1] /\ DOMAIN queue = 1 .. Len(queue)
  BY <1>3, TailRemoves
<1>5. m \in ToSet(queue)
  BY <1>4 DEF ToSet
<1>6. m \in Resting /\ order[m].side = s /\ order[m].price = p
  BY <1>1, <1>2, <1>5, LevelOrder DEF Book
<1>7. \A o : AsOrder(o).price = order[o].price /\ AsOrder(o).seq = order[o].seq
             /\ AsOrder(o).side = order[o].side
  BY DEF AsOrder
<1>8. ASSUME NEW o \in Resting, order[o].side = s PROVE ~ Abstract!Before(AsOrder(o), AsOrder(m))
  <2>1. /\ order[o].price \in Prices
        /\ order[o].price = p \/ Better(s, p, order[o].price)
    BY <1>8, BestFirst
  <2>2. ~ Better(s, order[o].price, p)
    BY <1>1, <2>1, BetterOrders, Zenon
  <2>3. ASSUME order[o].price = p PROVE ~ (order[o].seq < order[m].seq)
    <3>1. o \in ToSet(levels[order[o].side][order[o].price].orders) /\ o \in Objs
      BY RestingAt DEF Book
    <3>2. o \in ToSet(queue)
      BY <1>2, <1>8, <2>3, <3>1
    <3>3. PICK k \in 1 .. Len(queue) : queue[k] = o
      BY <1>4, <3>2 DEF ToSet
    <3>4. Senior(queue)
      BY <1>1, <1>2 DEF InLine
    <3>5. k = 1 \/ order[m].seq < order[o].seq
      BY <1>4, <3>3, <3>4 DEF Senior
    <3>6. m \in Objs /\ order \in [Objs -> OrderRecord]
      BY <1>6, RestingAt, Zenon DEF Book, BookTypeOK
    <3>7. order[o].seq \in Nat /\ order[m].seq \in Nat
      BY <3>1, <3>6, SMTT(30) DEF OrderRecord
    <3>8. order[m].seq = order[o].seq \/ order[m].seq < order[o].seq
      BY <1>4, <3>3, <3>5, Zenon
    <3>9. PICK x \in Nat, y \in Nat : x = order[o].seq /\ y = order[m].seq
      BY <3>7
    <3>10. y = x \/ y < x
      BY <3>8, <3>9, Zenon
    <3>11. ~ (x < y)
      BY <3>10
    <3> QED
      BY <3>9, <3>11
  <2>4. Abstract!Beats(s, order[o].price, p) <=> Better(s, order[o].price, p)
    BY DEF Abstract!Beats, Better
  <2> QED
    BY <1>6, <1>7, <1>8, <2>2, <2>3, <2>4, Zenon DEF Abstract!Before
<1> QED
  BY <1>6, <1>8, OtherSideIs, Zenon

(* An order meets nobody's limit when it does not meet the best.           *)
LEMMA NobodyCrosses ==
  ASSUME Book, NEW t, t.side \in Sides, t.price \in Prices, NEW s \in Sides, s = Opposite(t.side),
         prices[s] = <<>> \/ Better(s, t.price, prices[s][1])
  PROVE  \A a \in Abstract!OtherSide(t) : ~ Abstract!Crosses(t, a)
<1>1. \A o : AsOrder(o).price = order[o].price /\ AsOrder(o).side = order[o].side
  BY DEF AsOrder
<1>2. ASSUME NEW o \in Resting, order[o].side = s PROVE ~ Abstract!Crosses(t, AsOrder(o))
  <2>1. PICK p : p = prices[s][1]
    OBVIOUS
  <2>2. /\ prices[s] # <<>> /\ p \in Prices /\ order[o].price \in Prices
        /\ order[o].price = p \/ Better(s, p, order[o].price)
    BY <1>2, <2>1, BestFirst
  <2>3. Better(s, t.price, p)
    BY <2>1, <2>2
  <2>4. Better(s, t.price, order[o].price)
    BY <2>2, <2>3, BetterOrders
  <2> QED
    BY <1>1, <1>2, <2>4 DEF Abstract!Crosses, Abstract!Beats, Better
<1> QED
  BY <1>2, OtherSideIs

(* And nobody is there when there is no best.                              *)
LEMMA NobodyThere ==
  ASSUME Book, NEW t, t.side \in Sides, NEW s \in Sides, s = Opposite(t.side), prices[s] = <<>>
  PROVE  Abstract!OtherSide(t) = {}
<1>1. ASSUME NEW o \in Resting PROVE order[o].side # s
  BY BestFirst
<1> QED
  BY <1>1, OtherSideIs

-----------------------------------------------------------------------------
(* Time: the orders of a level stand in line by their numbers.             *)

Aligned(queue, f) ==
  \A j, k \in DOMAIN queue : j < k => f[queue[j]].seq < f[queue[k]].seq

\* The same queue, or the queue without one of its orders.
Shortened(new, old) == new = old \/ \E k \in 1 .. Len(old) : new = RemoveAt(old, k)

LEMMA AlignedKept ==
  ASSUME NEW f, NEW g, NEW old \in Seq(Objs), Aligned(old, f), NEW new, Shortened(new, old),
         \A o \in ToSet(old) : g[o].seq = f[o].seq
  PROVE  Aligned(new, g)
<1>1. DOMAIN old = 1 .. Len(old) /\ Len(old) \in Nat
  BY LenProperties
<1>2. \A j \in 1 .. Len(old) : g[old[j]].seq = f[old[j]].seq
  BY <1>1 DEF ToSet
<1>3. CASE new = old
  BY <1>1, <1>2, <1>3 DEF Aligned
<1>4. CASE \E k \in 1 .. Len(old) : new = RemoveAt(old, k)
  <2>1. PICK k \in 1 .. Len(old) : new = RemoveAt(old, k)
    BY <1>4
  <2>2. new \in Seq(Objs) /\ Removed(new, old, k)
    BY <2>1, RemovedAt
  <2>3. DOMAIN new = 1 .. Len(old) - 1
    BY <2>2, LenProperties DEF Removed
  <2>4. ASSUME NEW i \in 1 .. Len(old) - 1, NEW j \in 1 .. Len(old) - 1, i < j
        PROVE  g[new[i]].seq < g[new[j]].seq
    <3>1. PICK a, b : a = (IF i < k THEN i ELSE i + 1) /\ b = (IF j < k THEN j ELSE j + 1)
      OBVIOUS
    <3>2. a \in 1 .. Len(old) /\ b \in 1 .. Len(old) /\ a < b
      BY <1>1, <2>4, <3>1
    <3>3. new[i] = old[a] /\ new[j] = old[b]
      BY <2>2, <3>1 DEF Removed
    <3>4. f[old[a]].seq < f[old[b]].seq
      BY <1>1, <3>2 DEF Aligned
    <3> QED
      BY <1>2, <3>2, <3>3, <3>4
  <2> QED
    BY <2>3, <2>4 DEF Aligned
<1> QED
  BY <1>3, <1>4 DEF Shortened

LEMMA AlignedWith ==
  ASSUME NEW f, NEW g, NEW old \in Seq(Objs), Aligned(old, f), NEW o \in Objs,
         \A m \in ToSet(old) : g[m].seq = f[m].seq /\ f[m].seq < g[o].seq
  PROVE  Aligned(Append(old, o), g)
<1>1. DOMAIN old = 1 .. Len(old) /\ Len(old) \in Nat
  BY LenProperties
<1>2. \A j \in 1 .. Len(old) : g[old[j]].seq = f[old[j]].seq /\ f[old[j]].seq < g[o].seq
  BY <1>1 DEF ToSet
<1>3. PICK new : new = Append(old, o)
  OBVIOUS
<1>4. /\ new \in Seq(Objs) /\ Len(new) = Len(old) + 1
      /\ \A j \in 1 .. Len(old) : new[j] = old[j]
      /\ new[Len(old) + 1] = o
  BY <1>3, AppendProperties
<1>5. DOMAIN new = 1 .. Len(old) + 1
  BY <1>4, LenProperties
<1>6. ASSUME NEW i \in 1 .. Len(old) + 1, NEW j \in 1 .. Len(old) + 1, i < j
      PROVE  g[new[i]].seq < g[new[j]].seq
  <2>1. i \in 1 .. Len(old) /\ new[i] = old[i]
    BY <1>1, <1>4, <1>6
  <2>2. CASE j = Len(old) + 1
    <3>1. new[j] = o
      BY <1>4, <2>2
    <3> QED
      BY <1>2, <2>1, <3>1
  <2>3. CASE j # Len(old) + 1
    <3>1. j \in 1 .. Len(old)
      BY <1>1, <2>3
    <3>2. new[j] = old[j]
      BY <1>4, <3>1
    <3>3. f[old[i]].seq < f[old[j]].seq
      BY <1>1, <1>6, <2>1, <3>1 DEF Aligned
    <3> QED
      BY <1>2, <2>1, <3>1, <3>2, <3>3
  <2> QED
    BY <2>2, <2>3
<1> QED
  BY <1>3, <1>5, <1>6 DEF Aligned

Earlier == \A o \in Resting : order[o].seq <= localSeq

Latest ==
  pc \in {"new", "match", "fill", "emit"} =>
    order[subject].seq = localSeq /\ \A o \in Resting : order[o].seq < localSeq

LEMMA InTimeOrderMeans == InTimeOrder <=> InLine /\ Earlier /\ Latest
  BY DEF InTimeOrder, InLine, Earlier, Latest

LEMMA InTimeOrderMeansNext == InTimeOrder' <=> InLine' /\ Earlier' /\ Latest'
  BY DEF InTimeOrder, InLine, Earlier, Latest

(* Levels that lose an order at most keep the others in line.              *)
LEMMA InLineKept ==
  ASSUME Book, InLine, \A o \in Resting : order'[o].seq = order[o].seq,
         \A s \in Sides, p \in Prices : levels'[s][p] # NoNode =>
           levels[s][p] # NoNode /\ Shortened(levels'[s][p].orders, levels[s][p].orders)
  PROVE  InLine'
<1>1. ASSUME NEW s \in Sides, NEW p \in Prices, levels'[s][p] # NoNode
      PROVE  Aligned(levels'[s][p].orders, order')
  <2>1. PICK old, new, f, g : /\ old = levels[s][p].orders /\ new = levels'[s][p].orders
                              /\ f = order /\ g = order'
    OBVIOUS
  <2>2. levels[s][p] # NoNode /\ Shortened(new, old)
    BY <1>1, <2>1
  <2>3. old \in Seq(Objs) /\ \A o \in ToSet(old) : o \in Resting
    BY <2>1, <2>2, LevelAt DEF Book
  <2>4. Aligned(old, f)
    BY <2>1, <2>2 DEF InLine, Senior, Aligned
  <2>5. \A o \in ToSet(old) : g[o].seq = f[o].seq
    BY <2>1, <2>3
  <2>6. Aligned(new, g)
    BY <2>2, <2>3, <2>4, <2>5, AlignedKept
  <2> QED
    BY <2>1, <2>6
<1> QED
  BY <1>1 DEF InLine, Senior, Aligned

\* A step that leaves the numbers of the orders, and the levels, alone.
LEMMA TimeKept ==
  ASSUME Parts, InTimeOrder, UNCHANGED <<levels, localSeq>>, Resting' = Resting,
         \A o \in Resting : order'[o].seq = order[o].seq,
         pc' \in {"new", "match", "fill", "emit"} =>
           /\ pc \in {"new", "match", "fill", "emit"} /\ subject' = subject
           /\ order'[subject].seq = order[subject].seq
  PROVE  InTimeOrder'
<1>1. InLine /\ Earlier /\ Latest
  BY InTimeOrderMeans
<1>2. InLine'
  <2>1. \A s \in Sides, p \in Prices : levels'[s][p] # NoNode =>
           levels[s][p] # NoNode /\ Shortened(levels'[s][p].orders, levels[s][p].orders)
    BY DEF Shortened
  <2> QED
    BY <1>1, <2>1, InLineKept DEF Parts
<1>3. Earlier'
  BY <1>1 DEF Earlier
<1>4. Latest'
  BY <1>1 DEF Latest
<1> QED
  BY <1>2, <1>3, <1>4, InTimeOrderMeansNext

LEMMA ProcessNewKeepsTime ==
  ASSUME Parts, InTimeOrder, ProcessNew
  PROVE  InTimeOrder'
<1>1. PICK o \in Objs : Takes(o)
  BY ProcessNewMeans
<1>2. /\ UNCHANGED <<levels, index>> /\ localSeq' = localSeq + 1 /\ subject' = o
      /\ o \notin Resting /\ order'[o].seq = localSeq'
      /\ \A x \in Objs : x # o => order'[x] = order[x]
  BY <1>1 DEF Takes
<1>3. Resting' = Resting
  BY <1>2, RestingKept
<1>4. \A x \in Resting : x \in Objs /\ order'[x].seq = order[x].seq
  BY <1>2, RestingAt DEF Parts, Book
<1>5. InLine /\ Earlier
  BY InTimeOrderMeans
<1>6. InLine'
  <2>1. \A s \in Sides, p \in Prices : levels'[s][p] # NoNode =>
           levels[s][p] # NoNode /\ Shortened(levels'[s][p].orders, levels[s][p].orders)
    BY <1>2 DEF Shortened
  <2> QED
    BY <1>4, <1>5, <2>1, InLineKept DEF Parts
<1>7. ASSUME NEW x \in Resting PROVE order'[x].seq < localSeq'
  <2>1. order[x].seq \in Nat
    BY <1>4, HeldObjects DEF OrderRecord
  <2>2. localSeq \in Nat
    BY DEF Parts, MachineTypeOK
  <2>3. order'[x].seq = order[x].seq /\ order[x].seq <= localSeq
    BY <1>4, <1>5 DEF Earlier
  <2> QED
    BY <1>2, <2>1, <2>2, <2>3
<1>8. Earlier'
  <2>1. ASSUME NEW x \in Resting PROVE order'[x].seq <= localSeq'
    <3>1. order'[x].seq \in Nat /\ localSeq' \in Nat
      BY <1>2, <1>4, HeldObjects DEF OrderRecord, Parts, MachineTypeOK
    <3> QED
      BY <1>7, <3>1
  <2> QED
    BY <1>3, <2>1 DEF Earlier
<1>9. Latest'
  BY <1>2, <1>3, <1>7 DEF Latest
<1> QED
  BY <1>6, <1>8, <1>9, InTimeOrderMeansNext

LEMMA CancelShortens ==
  ASSUME Book, NEW id \in OrderIds, index[id] # NoLoc, CancelOrder(id)
  PROVE  \A s \in Sides, p \in Prices : levels'[s][p] # NoNode =>
           levels[s][p] # NoNode /\ Shortened(levels'[s][p].orders, levels[s][p].orders)
<1>1. PICK o, side, price, queue, k :
        /\ o = index[id].obj /\ side = index[id].side /\ price = index[id].price
        /\ queue = levels[side][price].orders /\ k = Element(queue, o)
  OBVIOUS
<1>2. o \in Resting /\ order[o].id = id /\ index[id] \in Location
  BY <1>1, Indexed DEF Book
<1>3. /\ side \in Sides /\ price \in Prices /\ order[o].side = side
      /\ levels[side][price] # NoNode /\ o \in ToSet(queue)
  <2>1. /\ levels[order[o].side][order[o].price] # NoNode
        /\ o \in ToSet(levels[order[o].side][order[o].price].orders)
        /\ index[id] = [side |-> order[o].side, price |-> order[o].price, obj |-> o]
        /\ order[o].side \in Sides /\ order[o].price \in Prices
    BY <1>2, RestingAt DEF Book
  <2>2. index[id].side = order[o].side /\ index[id].price = order[o].price
    BY <2>1, SMTT(30)
  <2>3. side = order[o].side /\ price = order[o].price
    BY <1>1, <2>2
  <2> QED
    BY <1>1, <2>1, <2>3, Zenon
<1>4. queue \in Seq(Objs)
  BY <1>1, <1>3, LevelAt DEF Book
<1>5. k \in 1 .. Len(queue)
  <2>1. \E i \in DOMAIN queue : queue[i] = o
    BY <1>3 DEF ToSet
  <2>2. k \in DOMAIN queue
    BY <1>1, <2>1 DEF Element
  <2> QED
    BY <1>4, <2>2, LenProperties
<1>6. PICK left : left = RemoveAt(queue, k)
  OBVIOUS
<1>7. \/ levels' = [levels EXCEPT ![side][price] = NoNode]
      \/ \E n : levels' = [levels EXCEPT ![side][price] = [quantity |-> n, orders |-> left]]
  BY <1>1, <1>3, <1>6, Zenon DEF CancelOrder
<1>8. levels \in [Sides -> [Prices -> Node \cup {NoNode}]]
  BY DEF Book, BookTypeOK
<1>9. ASSUME NEW s \in Sides, NEW p \in Prices, levels'[s][p] # NoNode
      PROVE  levels[s][p] # NoNode /\ Shortened(levels'[s][p].orders, levels[s][p].orders)
  <2>1. CASE s = side /\ p = price
    <3>1. levels'[s][p].orders = left
      BY <1>3, <1>7, <1>8, <1>9, <2>1
    <3> QED
      BY <1>1, <1>3, <1>5, <1>6, <2>1, <3>1, Zenon DEF Shortened
  <2>2. CASE ~ (s = side /\ p = price)
    <3>1. levels'[s][p] = levels[s][p]
      BY <1>3, <1>7, <1>8, <2>2
    <3> QED
      BY <1>9, <3>1 DEF Shortened
  <2> QED
    BY <2>1, <2>2
<1> QED
  BY <1>9

LEMMA ProcessCancelKeepsTime ==
  ASSUME Parts, InTimeOrder, ProcessCancel
  PROVE  InTimeOrder'
<1>1. TakesCancel /\ (NoneFound \/ \E o \in Objs : Withdraws(o) /\ Book')
  BY ProcessCancelMeans
<1>2. pc' = "report" /\ localSeq' = localSeq + 1 /\ inbound # <<>> /\ localSeq \in Nat
  BY <1>1 DEF TakesCancel, ProcessCancel, PopCommand, Parts, MachineTypeOK
<1>3. /\ \A s \in Sides, p \in Prices : levels'[s][p] # NoNode =>
           levels[s][p] # NoNode /\ Shortened(levels'[s][p].orders, levels[s][p].orders)
      /\ Resting' \subseteq Resting /\ \A x \in Resting : order'[x].seq = order[x].seq
  <2>1. PICK id : id = Head(inbound).id
    OBVIOUS
  <2>2. CASE index[id] # NoLoc
    <3>1. CancelOrder(id) /\ verdict' = "Cancelled"
      BY <2>1, <2>2 DEF ProcessCancel, Conclude
    <3>2. id \in OrderIds
      <4>1. inbound \in Seq(Command) /\ Head(inbound).kind = "cancel"
        BY DEF Parts, MachineTypeOK, ProcessCancel, PopCommand
      <4>2. Head(inbound) \in Command
        BY <1>2, <4>1, HeadTailProperties
      <4> QED
        BY <2>1, <4>1, <4>2 DEF Command
    <3>3. PICK o \in Objs : Withdraws(o)
      BY <1>1, <3>1 DEF NoneFound
    <3>4. order \in [Objs -> OrderRecord] /\ index[id].obj \in Resting
      BY <2>2, <3>2, Indexed DEF Parts, Book, BookTypeOK
    <3>5. order' = [order EXCEPT ![index[id].obj].status = "Cancelled"]
      BY <3>1 DEF CancelOrder
    <3>6. \A x \in Objs : order'[x].seq = order[x].seq
      BY <3>4, <3>5 DEF OrderRecord
    <3>7. \A x \in Resting : order'[x].seq = order[x].seq
      BY <3>6, RestingAt DEF Parts, Book
    <3> QED
      BY <2>2, <3>1, <3>2, <3>3, <3>7, CancelShortens DEF Parts, Withdraws
  <2>3. CASE index[id] = NoLoc
    <3>1. UNCHANGED <<order, levels, index>>
      BY <2>1, <2>3 DEF ProcessCancel, bookVars
    <3> QED
      BY <3>1, RestingKept DEF Shortened
  <2> QED
    BY <2>2, <2>3
<1>4. InLine /\ Earlier
  BY InTimeOrderMeans
<1>5. InLine'
  BY <1>3, <1>4, InLineKept DEF Parts
<1>6. Earlier'
  <2>1. ASSUME NEW x \in Resting PROVE order'[x].seq <= localSeq'
    <3>1. order[x].seq \in Nat
      BY RestingAt, HeldObjects DEF Parts, Book, OrderRecord
    <3>2. order'[x].seq = order[x].seq /\ order[x].seq <= localSeq
      BY <1>3, <1>4 DEF Earlier
    <3> QED
      BY <1>2, <3>1, <3>2
  <2> QED
    BY <1>3, <2>1 DEF Earlier
<1>7. Latest'
  BY <1>2 DEF Latest
<1> QED
  BY <1>5, <1>6, <1>7, InTimeOrderMeansNext

LEMMA RestKeepsTime ==
  ASSUME Parts, InTimeOrder, Rest
  PROVE  InTimeOrder'
<1>1. Rests
  BY RestMeans
<1>2. /\ pc \in {"new", "emit"} /\ AddOrder(subject) /\ pc' = "report"
      /\ Resting' = Resting \cup {subject} /\ localSeq' = localSeq
      /\ \A x \in Objs : x # subject => order'[x] = order[x]
      /\ order'[subject].seq = order[subject].seq
  BY <1>1 DEF Rests, Rest
<1>3. subject \in Objs /\ subject \notin Resting /\ order[subject].side \in Sides
      /\ order[subject].price \in Prices
  <2>1. order[subject].type # "Market"
    BY DEF Rest
  <2> QED
    BY <1>2, <2>1, OrderInHand
<1>4. /\ InLine /\ Earlier
      /\ order[subject].seq = localSeq /\ \A o \in Resting : order[o].seq < localSeq
  BY <1>2, InTimeOrderMeans DEF Latest
<1>5. \A x \in Resting : x \in Objs /\ order'[x] = order[x]
  BY <1>2, <1>3, RestingAt DEF Parts, Book
<1>6. InLine'
  <2>1. PICK side, price, old, n :
          /\ side = order[subject].side /\ price = order[subject].price
          /\ old = (IF levels[side][price] = NoNode THEN <<>> ELSE levels[side][price].orders)
          /\ levels' = [levels EXCEPT ![side][price] =
                          [quantity |-> n, orders |-> Append(old, subject)]]
    BY DEF AddOrder, Enqueue, Rest
  <2>2. levels \in [Sides -> [Prices -> Node \cup {NoNode}]] /\ side \in Sides /\ price \in Prices
    BY <1>3, <2>1 DEF Parts, Book, BookTypeOK
  <2>3. /\ old \in Seq(Objs) /\ \A m \in ToSet(old) : m \in Resting
        /\ Aligned(old, order)
    <3>1. CASE levels[side][price] = NoNode
      <4>1. old = <<>> /\ ToSet(old) = {} /\ DOMAIN old = {}
        BY <2>1, <3>1 DEF ToSet
      <4> QED
        BY <4>1 DEF Aligned
    <3>2. CASE levels[side][price] # NoNode
      <4>1. old = levels[side][price].orders
        BY <2>1, <3>2
      <4>2. Senior(levels[side][price].orders)
        BY <1>4, <2>2, <3>2 DEF InLine
      <4> QED
        BY <2>2, <3>2, <4>1, <4>2, LevelAt DEF Parts, Book, Senior, Aligned
    <3> QED
      BY <3>1, <3>2
  <2>4. ASSUME NEW s \in Sides, NEW p \in Prices, levels'[s][p] # NoNode
        PROVE  Aligned(levels'[s][p].orders, order')
    <3>1. CASE s = side /\ p = price
      <4>1. levels'[s][p].orders = Append(old, subject)
        BY <2>1, <2>2, <3>1, Zenon
      <4>2. \A m \in ToSet(old) : order'[m].seq = order[m].seq /\ order[m].seq < order'[subject].seq
        BY <1>2, <1>4, <1>5, <2>3
      <4>3. PICK f, g, o : f = order /\ g = order' /\ o = subject
        OBVIOUS
      <4>4. Aligned(Append(old, o), g)
        BY <1>3, <2>3, <4>2, <4>3, AlignedWith
      <4> QED
        BY <4>1, <4>3, <4>4
    <3>2. CASE ~ (s = side /\ p = price)
      <4>1. levels'[s][p] = levels[s][p]
        BY <2>1, <2>2, <3>2
      <4>2. PICK old2, f, g : old2 = levels[s][p].orders /\ f = order /\ g = order'
        OBVIOUS
      <4>3. old2 \in Seq(Objs) /\ \A m \in ToSet(old2) : m \in Resting
        BY <2>4, <4>1, <4>2, LevelAt DEF Parts, Book
      <4>4. Aligned(old2, f)
        BY <1>4, <2>4, <4>1, <4>2 DEF InLine, Senior, Aligned
      <4>5. Aligned(old2, g)
        BY <1>5, <4>2, <4>3, <4>4, AlignedKept DEF Shortened
      <4> QED
        BY <4>1, <4>2, <4>5, Zenon
    <3> QED
      BY <3>1, <3>2
  <2> QED
    BY <2>4 DEF InLine, Senior, Aligned
<1>7. Earlier'
  <2>1. ASSUME NEW x \in Resting PROVE order'[x].seq <= localSeq'
    BY <1>2, <1>4, <1>5 DEF Earlier
  <2>2. order'[subject].seq <= localSeq'
    <3>1. localSeq \in Nat
      BY DEF Parts, MachineTypeOK
    <3> QED
      BY <1>2, <1>4, <3>1
  <2> QED
    BY <1>2, <2>1, <2>2 DEF Earlier
<1>8. Latest'
  BY <1>2 DEF Latest
<1> QED
  BY <1>6, <1>7, <1>8, InTimeOrderMeansNext

LEMMA FillMakerKeepsTime ==
  ASSUME Parts, InTimeOrder, FillMaker
  PROVE  InTimeOrder'
<1>1. PICK m \in Objs, q \in Nat \ {0}, c \in Execution :
        Fill(subject, m, q) /\ Executes(m, q, c) /\ Book'
  BY FillMeans
<1>2. pc = "fill" /\ subject \in Objs /\ order[subject].side \in Sides
  BY OrderInHand DEF FillMaker
<1>3. /\ UNCHANGED <<pc, subject, localSeq>> /\ Resting' \subseteq Resting
      /\ order'[subject].seq = order[subject].seq
      /\ order'[m].seq = order[m].seq
      /\ \A o \in Objs : o # subject /\ o # m => order'[o] = order[o]
  BY <1>1 DEF Executes
<1>4. \A o \in Objs : order'[o].seq = order[o].seq
  BY <1>3
<1>5. \A o \in Resting : order'[o].seq = order[o].seq
  BY <1>4, RestingAt DEF Parts, Book
<1>6. InLine /\ Earlier /\ Latest
  BY InTimeOrderMeans
<1>7. InLine'
  <2>1. PICK opp \in Sides : opp = Opposite(order[subject].side)
    BY <1>2, OppositeSide
  <2>2. PICK p : p = prices[opp][1]
    OBVIOUS
  <2>3. Book /\ prices[opp] # <<>>
    BY <1>2, <2>1 DEF Parts, Handler
  <2>4. p \in Prices /\ levels[opp][p] # NoNode
    BY <2>2, <2>3, BestLevel
  <2>5. PICK queue : queue = levels[opp][p].orders
    OBVIOUS
  <2>6. queue # <<>> /\ queue \in Seq(Objs)
    BY <1>1, <2>1, <2>2, <2>3, <2>4, <2>5, LevelAt, Zenon DEF Fill, FillsLevel, BestNode, Book
  <2>7. \E n, new : /\ new \in {queue, Tail(queue)}
                    /\ levels' = [levels EXCEPT ![opp][p] = [quantity |-> n, orders |-> new]]
    BY <1>1, <2>1, <2>2, <2>5, Zenon DEF Fill, BestNode
  <2>8. PICK n, new : /\ new \in {queue, Tail(queue)}
                      /\ levels' = [levels EXCEPT ![opp][p] = [quantity |-> n, orders |-> new]]
    BY <2>7
  <2>9. Shortened(new, queue)
    BY <2>6, <2>8, TailRemoves DEF Shortened
  <2>10. levels \in [Sides -> [Prices -> Node \cup {NoNode}]]
    BY <2>3 DEF Book, BookTypeOK
  <2>11. ASSUME NEW s \in Sides, NEW x \in Prices, levels'[s][x] # NoNode
         PROVE  levels[s][x] # NoNode /\ Shortened(levels'[s][x].orders, levels[s][x].orders)
    <3>1. CASE s = opp /\ x = p
      <4>1. levels'[s][x].orders = new
        BY <2>4, <2>8, <2>10, <3>1
      <4> QED
        BY <2>4, <2>5, <2>9, <3>1, <4>1
    <3>2. CASE ~ (s = opp /\ x = p)
      <4>1. levels'[s][x] = levels[s][x]
        BY <2>4, <2>8, <2>10, <3>2
      <4> QED
        BY <2>11, <4>1 DEF Shortened
    <3> QED
      BY <3>1, <3>2
  <2> QED
    BY <1>5, <1>6, <2>3, <2>11, InLineKept
<1>8. Earlier'
  BY <1>3, <1>5, <1>6 DEF Earlier
<1>9. Latest'
  BY <1>2, <1>3, <1>5, <1>6 DEF Latest
<1> QED
  BY <1>7, <1>8, <1>9, InTimeOrderMeansNext

LEMMA LeaveLevelKeepsTime ==
  ASSUME Parts, InTimeOrder, LeaveLevel
  PROVE  InTimeOrder'
<1>1. /\ PruneBest(subject) /\ pc = "fill" /\ pc' = "match" /\ UNCHANGED <<subject, localSeq>>
  BY DEF LeaveLevel
<1>2. order[subject].side \in Sides /\ prices[Opposite(order[subject].side)] # <<>>
  BY <1>1, OrderInHand DEF Parts, Handler
<1>3. /\ Resting' = Resting /\ order' = order
      /\ \A s \in Sides, p \in Prices : levels'[s][p] # NoNode => levels'[s][p] = levels[s][p]
  BY <1>1, <1>2, PruneKeeps DEF Parts
<1>4. InLine /\ Earlier /\ Latest
  BY InTimeOrderMeans
<1>5. InLine'
  <2>1. \A s \in Sides, p \in Prices : levels'[s][p] # NoNode =>
           levels[s][p] # NoNode /\ Shortened(levels'[s][p].orders, levels[s][p].orders)
    BY <1>3 DEF Shortened
  <2> QED
    BY <1>3, <1>4, <2>1, InLineKept DEF Parts
<1>6. Earlier' /\ Latest'
  BY <1>1, <1>3, <1>4 DEF Earlier, Latest
<1> QED
  BY <1>5, <1>6, InTimeOrderMeansNext

LEMMA EngineKeepsTime ==
  ASSUME Parts, InTimeOrder, EngineStep
  PROVE  InTimeOrder'
<1>1. CASE ProcessNew \/ ProcessCancel
  BY <1>1, ProcessNewKeepsTime, ProcessCancelKeepsTime
<1>2. CASE HandlerStep
  <2>1. pc \in {"new", "match", "emit"} /\ SubjectOnly
    BY <1>2, HandlerSteps
  <2>2. /\ UNCHANGED <<levels, index, localSeq, subject>>
        /\ \A x \in Objs : order'[x].seq = order[x].seq
    BY <2>1 DEF SubjectOnly
  <2> QED
    BY <2>1, <2>2, RestingAt, RestingKept, OrderInHand, TimeKept DEF SubjectOnly, Parts, Book
<1>3. CASE RestPostOnly \/ RestRemainder
  BY <1>3, RestSteps, RestKeepsTime
<1>4. CASE FillMaker \/ LeaveLevel
  BY <1>4, FillMakerKeepsTime, LeaveLevelKeepsTime
<1>5. CASE EmitTrade
  <2>1. PICK m \in Objs, c \in Execution : Publishes(m, c)
    BY <1>5, EmitMeans
  <2>2. /\ pc = "emit" /\ UNCHANGED <<levels, pc, localSeq, subject>> /\ Resting' = Resting
        /\ m # subject /\ \A x \in Objs : x # m => order'[x] = order[x]
        /\ ~ Sold(m) => order'[m] = order[m]
    BY <2>1 DEF Publishes
  <2>3. subject \in Objs
    BY <2>2, OrderInHand
  <2>4. ASSUME NEW x \in Resting PROVE order'[x].seq = order[x].seq
    <3>1. x \in Objs /\ (x = m => ~ Sold(m))
      BY RestingAt DEF Parts, Book, Exclusive
    <3> QED
      BY <2>2, <3>1
  <2> QED
    BY <2>2, <2>3, <2>4, TimeKept
<1>6. CASE Report
  <2>1. Answers
    BY <1>6, ReportMeans
  <2>2. /\ pc' = "idle" /\ UNCHANGED <<levels, localSeq>> /\ Resting' = Resting
        /\ \A x \in Objs : x # subject => order'[x] = order[x]
        /\ IF verdict = "Accepted" \/ subject = NoObj THEN order' = order
           ELSE subject \notin Resting
    BY <2>1 DEF Answers
  <2>3. \A x \in Resting : x \in Objs
    BY RestingAt DEF Parts, Book
  <2> QED
    BY <2>2, <2>3, TimeKept
<1> QED
  BY <1>1, <1>2, <1>3, <1>4, <1>5, <1>6 DEF EngineStep, HandlerStep

LEMMA SubmitOrderTouches ==
  ASSUME Parts, NEW o \in Objs, NEW side \in Sides, NEW type \in OrderTypes, NEW price \in Prices,
         NEW qty \in Qtys, SubmitOrder(o, side, type, IF type = "Market" THEN 0 ELSE price, qty)
  PROVE  \E r \in OrderRecord, c \in Command : Submits(o, r, c) /\ Book'
<1> DEFINE limit == IF type = "Market" THEN 0 ELSE price
<1>1. limit \in Prices \cup {0} /\ (type # "Market" => limit \in Prices)
  OBVIOUS
<1>2. SubmitOrder(o, side, type, limit, qty)
  OBVIOUS
<1> HIDE DEF limit
<1>3. \E r \in OrderRecord, c \in Command :
        /\ Submits(o, r, c) /\ Book'
        /\ r.side = side /\ r.type = type /\ r.price = limit /\ r.qty = qty
  BY <1>1, <1>2, SubmitOrderMeans
<1> QED
  BY <1>3

\* What the environment does changes no order that rests or is in hand.
Outside ==
  /\ UNCHANGED <<prices, levels, index, localSeq, pc, subject, trades, verdict>>
  /\ \A x \in Objs : pool[x] = 0 => order'[x] = order[x]

LEMMA StepsOutside ==
  ASSUME Parts, Submit \/ PollEvent \/ PollNothing \/ UNCHANGED vars
  PROVE  Outside
<1>1. CASE Submit
  <2>1. CASE \E id \in OrderIds : SubmitCancel(id)
    BY <2>1 DEF SubmitCancel, Outside, bookVars, engVars
  <2>2. CASE \E o \in Objs, side \in Sides, type \in OrderTypes, price \in Prices, qty \in Qtys :
               SubmitOrder(o, side, type, IF type = "Market" THEN 0 ELSE price, qty)
    <3>1. PICK o \in Objs, side \in Sides, type \in OrderTypes, price \in Prices, qty \in Qtys :
            SubmitOrder(o, side, type, IF type = "Market" THEN 0 ELSE price, qty)
      BY <2>2
    <3>2. PICK r \in OrderRecord, c \in Command : Submits(o, r, c)
      BY <3>1, SubmitOrderTouches
    <3> QED
      BY <3>2 DEF Submits, Outside
  <2> QED
    BY <1>1, <2>1, <2>2 DEF Submit
<1>2. CASE PollEvent
  BY <1>2 DEF PollEvent, Outside, bookVars, engVars
<1>3. CASE PollNothing \/ UNCHANGED vars
  BY <1>3 DEF PollNothing, vars, Outside, bookVars, engVars
<1> QED
  BY <1>1, <1>2, <1>3

LEMMA OutsideKeeps ==
  ASSUME Parts, Outside
  PROVE  /\ Resting' = Resting /\ \A x \in Resting : x \in Objs /\ pool[x] = 0 /\ order'[x] = order[x]
         /\ pc \in {"new", "match", "fill", "emit"} => order'[subject] = order[subject]
<1>1. Resting' = Resting
  BY RestingKept DEF Outside
<1>2. \A x \in Resting : x \in Objs /\ pool[x] = 0
  BY RestingAt, HeldObjects DEF Parts, Book
<1>3. pc \in {"new", "match", "fill", "emit"} => subject \in Objs /\ pool[subject] = 0
  BY OrderInHand
<1> QED
  BY <1>1, <1>2, <1>3 DEF Outside

LEMMA TimeKeptOutside ==
  ASSUME Parts, InTimeOrder, Outside
  PROVE  InTimeOrder'
  BY OutsideKeeps, TimeKept DEF Outside

-----------------------------------------------------------------------------
(* What the sweep may rely on.                                             *)

LEMMA SweepingKept ==
  ASSUME Sweeping, UNCHANGED <<pc, subject, prices, levels>>, order'[subject] = order[subject]
  PROVE  Sweeping'
  BY DEF Sweeping, Untraded, BestNode, CanFillCompletely, Liquidity, Snapshot, Sweeps, Best

LEMMA NothingToSweep ==
  ASSUME pc' \in {"idle", "new", "report"}
  PROVE  Sweeping'
  BY DEF Sweeping

LEMMA HandlerStepSweeps ==
  ASSUME Parts, Sweeping, HandlerStep
  PROVE  Sweeping'
<1>1. pc \in {"new", "match", "emit"} /\ SubjectOnly
  BY HandlerSteps
<1>2. /\ UNCHANGED <<prices, levels, subject>>
      /\ order'[subject].side = order[subject].side /\ order'[subject].type = order[subject].type
      /\ order'[subject].price = order[subject].price
      /\ order'[subject].qty = order[subject].qty /\ order'[subject].rem = order[subject].rem
  BY <1>1 DEF SubjectOnly
<1>3. order[subject].side \in Sides
  BY <1>1, OrderInHand
<1>4. CASE StartMatch
  <2>1. pc' = "match" /\ order[subject].type # "PostOnly" /\ ~ Refuses(order[subject])
    BY <1>4 DEF StartMatch
  <2>2. /\ order[subject].type \in {"Limit", "IOC", "Market", "FOK"}
        /\ order[subject].type = "FOK" => CanFillCompletely(subject)
    BY <2>1 DEF Refuses
  <2> QED
    BY <1>2, <2>1, <2>2 DEF Sweeping, CanFillCompletely, Liquidity, Snapshot
<1>5. CASE EnterLevel
  <2>1. pc = "match" /\ pc' = "fill" /\ Sweeps(subject) /\ order' = order
    BY <1>5 DEF EnterLevel, bookVars
  <2>2. PICK opp \in Sides : opp = Opposite(order[subject].side)
    BY <1>3, OppositeSide
  <2>3. /\ prices[opp] # <<>>
        /\ order[subject].type = "Limit" => ~ Better(opp, order[subject].price, prices[opp][1])
    BY <2>1, <2>2 DEF Sweeps
  <2>4. prices[opp][1] \in Prices /\ prices[opp][1] = Best(opp) /\ levels[opp][prices[opp][1]] # NoNode
    BY <2>3, BestLevel DEF Parts
  <2>5. levels[opp][prices[opp][1]].orders # <<>>
    BY <2>1, <2>4 DEF Parts, LevelsFilled
  <2>6. BestNode(subject).orders # <<>>
    BY <2>2, <2>5 DEF BestNode
  <2>7. /\ order[subject].type \in {"Limit", "IOC", "Market", "FOK"}
        /\ order[subject].type = "FOK" /\ Untraded => CanFillCompletely(subject)
    BY <2>1 DEF Sweeping
  <2> QED
    BY <1>2, <2>1, <2>2, <2>3, <2>4, <2>6, <2>7
    DEF Sweeping, Untraded, BestNode, CanFillCompletely, Liquidity, Snapshot, Best
<1>6. CASE EndMatch
  <2>1. pc = "match" /\ pc' = "emit" /\ ~ Sweeps(subject)
    BY <1>6 DEF EndMatch
  <2>2. ~ Sweeps(subject)'
    BY <1>2, <2>1 DEF Sweeps
  <2>3. order[subject].type \in {"Limit", "IOC", "Market", "FOK"}
    BY <2>1 DEF Sweeping
  <2> QED
    BY <1>2, <2>1, <2>2, <2>3 DEF Sweeping
<1>7. CASE Reject \/ CancelRemainder \/ Complete
  BY <1>7, NothingToSweep DEF Reject, CancelRemainder, Complete, Conclude
<1> QED
  BY <1>4, <1>5, <1>6, <1>7 DEF HandlerStep

LEMMA FillMakerSweeps ==
  ASSUME Parts, Sweeping, FillMaker
  PROVE  Sweeping'
<1>1. PICK m \in Objs, q \in Nat \ {0}, c \in Execution : Executes(m, q, c)
  BY FillMeans
<1>2. /\ UNCHANGED <<pc, subject, prices>>
      /\ order'[subject].side = order[subject].side /\ order'[subject].type = order[subject].type
      /\ order'[subject].price = order[subject].price
      /\ order'[subject].qty = order[subject].qty /\ order'[subject].rem = order[subject].rem - q
  BY <1>1 DEF Executes
<1>3. pc = "fill" /\ subject \in Objs /\ pool[subject] = 0 /\ order[subject].rem \in Nat
      /\ order[subject].qty \in Nat
  BY OrderInHand DEF FillMaker
<1>4. order[subject].rem <= order[subject].qty
  BY <1>3 DEF Parts, Identified
<1>5. ~ Untraded'
  BY <1>2, <1>3, <1>4 DEF Untraded
<1> QED
  BY <1>2, <1>3, <1>5 DEF Sweeping, Best

LEMMA LeaveLevelSweeps ==
  ASSUME Parts, Sweeping, LeaveLevel
  PROVE  Sweeping'
<1>1. pc = "fill" /\ pc' = "match" /\ ~ FillsLevel(subject) /\ UNCHANGED <<subject, order>>
  BY DEF LeaveLevel, PruneBest
<1>2. order[subject].rem \in Nat /\ order[subject].qty \in Nat \ {0}
  BY <1>1, OrderInHand
<1>3. ~ Untraded
  BY <1>1, <1>2 DEF Sweeping, FillsLevel, Untraded
<1> QED
  BY <1>1, <1>3 DEF Sweeping, Untraded

LEMMA EngineSweeps ==
  ASSUME Parts, Sweeping, EngineStep
  PROVE  Sweeping'
<1>1. CASE ProcessNew \/ ProcessCancel \/ RestPostOnly \/ RestRemainder \/ Report
  BY <1>1, NothingToSweep DEF ProcessNew, ProcessCancel, RestPostOnly, RestRemainder, Report, Conclude
<1>2. CASE HandlerStep
  BY <1>2, HandlerStepSweeps
<1>3. CASE FillMaker \/ LeaveLevel
  BY <1>3, FillMakerSweeps, LeaveLevelSweeps
<1>4. CASE EmitTrade
  <2>1. PICK m \in Objs, c \in Execution : Publishes(m, c)
    BY <1>4, EmitMeans
  <2>2. /\ UNCHANGED <<pc, subject, prices, levels>> /\ pc = "emit"
        /\ m # subject /\ \A x \in Objs : x # m => order'[x] = order[x]
    BY <2>1 DEF Publishes
  <2>3. subject \in Objs
    BY <2>2, OrderInHand
  <2> QED
    BY <2>2, <2>3, SweepingKept
<1> QED
  BY <1>1, <1>2, <1>3, <1>4 DEF EngineStep, HandlerStep

LEMMA SweepingKeptOutside ==
  ASSUME Parts, Sweeping, Outside
  PROVE  Sweeping'
<1>1. UNCHANGED <<pc, subject, prices, levels>>
  BY DEF Outside
<1>2. CASE pc \in {"new", "match", "fill", "emit"}
  BY <1>1, <1>2, OutsideKeeps, SweepingKept
<1>3. CASE pc \notin {"new", "match", "fill", "emit"}
  BY <1>1, <1>3 DEF Sweeping
<1> QED
  BY <1>2, <1>3

-----------------------------------------------------------------------------
(* The invariant of matching.                                              *)

LEMMA EngineCovers ==
  ASSUME Parts, Parts', Covered, EngineStep
  PROVE  Covered'
<1>1. CASE ProcessNew
  <2>1. trades = <<>> /\ trades' = trades /\ pc' = "new" /\ verdict' = "none"
    BY <1>1, ProcessNewMeans DEF Takes
  <2> QED
    BY <2>1, NothingToCover
<1>2. CASE ProcessCancel
  <2>1. trades = <<>> /\ trades' = trades /\ pc' = "report" /\ verdict' # "Filled"
    BY <1>2, ProcessCancelMeans DEF TakesCancel, NoneFound, Withdraws
  <2> QED
    BY <2>1, NothingToCover
<1>3. CASE HandlerStep
  BY <1>3, HandlerStepCovers
<1>4. CASE RestPostOnly \/ RestRemainder
  <2>1. Rest
    BY <1>4, RestSteps
  <2>2. trades' = <<>> /\ pc' = "report" /\ verdict' = "Accepted"
    BY <2>1 DEF Rest, Conclude
  <2> QED
    BY <2>2, NothingToCover
<1>5. CASE FillMaker \/ LeaveLevel \/ EmitTrade
  BY <1>5, FillMakerCovers, LeaveLevelCovers, EmitTradeCovers
<1>6. CASE Report
  <2>1. trades' = <<>> /\ pc' = "idle" /\ verdict' = "none"
    BY <1>6, ReportMeans DEF Answers
  <2> QED
    BY <2>1, NothingToCover
<1> QED
  BY <1>1, <1>2, <1>3, <1>4, <1>5, <1>6 DEF EngineStep, HandlerStep

LEMMA CoveredOutside ==
  ASSUME Parts, Covered, Outside
  PROVE  Covered'
  BY CoveredByRest DEF Outside

LEMMA MatchStepKeeps ==
  ASSUME MatchInv, [Next]_vars
  PROVE  MatchInv'
<1>1. IInv /\ Parts /\ Covered /\ InTimeOrder /\ Sweeping
  BY PartsMean DEF MatchInv
<1>2. IInv' /\ Parts'
  BY <1>1, StepKeeps, PartsMeanNext
<1>3. CASE EngineStep
  BY <1>1, <1>2, <1>3, EngineCovers, EngineKeepsTime, EngineSweeps DEF MatchInv
<1>4. CASE Submit \/ PollEvent \/ PollNothing \/ UNCHANGED vars
  <2>1. Outside
    BY <1>1, <1>4, StepsOutside
  <2> QED
    BY <1>1, <1>2, <2>1, CoveredOutside, TimeKeptOutside, SweepingKeptOutside DEF MatchInv
<1> QED
  BY <1>3, <1>4 DEF Next

LEMMA MatchInitHolds == Init => MatchInv
<1> SUFFICES ASSUME Init PROVE MatchInv
  OBVIOUS
<1>1. IInv
  BY InitHolds
<1>2. /\ pc = "idle" /\ trades = <<>> /\ index = [i \in OrderIds |-> NoLoc]
      /\ levels = [s \in Sides |-> [p \in Prices |-> NoNode]]
  BY DEF Init, BookInit
<1>3. Resting = {}
  BY <1>2 DEF Resting
<1>4. InTimeOrder
  BY <1>2, <1>3 DEF InTimeOrder
<1>5. Makers = {}
  BY <1>2 DEF Makers
<1>6. Covered /\ Sweeping
  BY <1>2, <1>5 DEF Covered, Sweeping
<1> QED
  BY <1>1, <1>4, <1>6 DEF MatchInv

(* While an order is matched, what the sweep relies on holds: the order in *)
(* hand came last and the orders of a level stand in the line in which     *)
(* they came; a FOK order that has not traded meets as much as it wants;   *)
(* a level is entered only if its price is met; and what is published has  *)
(* ended the sweep.                                                        *)
THEOREM MatchInvariance == Spec => []MatchInv
<1>1. MatchInv /\ [Next]_vars => MatchInv'
  BY MatchStepKeeps
<1> QED
  BY MatchInitHolds, <1>1, PTL DEF Spec

(* A consumer that reads along disturbs none of it.                        *)
THEOREM StreamMatchInvariance == StreamSpec => []MatchInv
<1>1. StreamInit => MatchInv
  BY MatchInitHolds DEF StreamInit
<1>2. MatchInv /\ [StreamNext]_streamVars => MatchInv'
  BY MatchStepKeeps DEF StreamNext, streamVars, PollAndApply, Next
<1> QED
  BY <1>1, <1>2, PTL DEF StreamSpec

-----------------------------------------------------------------------------
(* Every step of the engine is a step of Matching, or none.                *)

InMatch(at) == at \in {"new", "match", "fill", "emit"}

LEMMA TakerIs ==
  /\ InMatch(pc) => Taker = AsOrder(subject)
  /\ ~ InMatch(pc) => Taker = NoObj
  /\ InMatch(pc') => Taker' = AsOrder(subject)'
  /\ ~ InMatch(pc') => Taker' = NoObj
  BY DEF Taker, InMatch

LEMMA AsOrderFields ==
  ASSUME NEW o
  PROVE  /\ AsOrder(o).id = order[o].id /\ AsOrder(o).side = order[o].side
         /\ AsOrder(o).type = order[o].type /\ AsOrder(o).price = order[o].price
         /\ AsOrder(o).qty = order[o].qty /\ AsOrder(o).rem = order[o].rem
         /\ AsOrder(o).seq = order[o].seq
  BY DEF AsOrder

(* An order at work is not nobody.                                         *)
LEMMA SomebodyTaken ==
  ASSUME Parts, InMatch(pc)
  PROVE  /\ Taker = AsOrder(subject) /\ Taker # NoObj
         /\ Taker.side \in Sides /\ Taker.side = order[subject].side
<1>1. Taker = AsOrder(subject)
  BY TakerIs
<1>2. /\ subject \in Objs /\ order[subject] \in OrderRecord /\ pool[subject] = 0
      /\ order[subject].id \in OrderIds /\ order[subject].side \in Sides
  BY OrderInHand DEF InMatch
<1>3. order[subject].type \in OrderTypes
  BY <1>2 DEF Parts, Identified
<1>4. order[subject].price \in Nat
  <2>1. order[subject].price \in Prices \cup {0}
    BY <1>2, HeldObjects
  <2>2. \A p \in Prices : p \in Nat
    BY BookAssumption
  <2> QED
    BY <2>1, <2>2
<1>5. AsOrder(subject) \in OrderView
  BY <1>2, <1>3, <1>4 DEF AsOrder, OrderView, OrderRecord
<1> QED
  BY <1>1, <1>2, <1>5, AsOrderFields, EngineAssumption

(* A step that leaves the orders that rest alone.                          *)
LEMMA StandingKept ==
  ASSUME Parts, Resting' = Resting, \A o \in Resting : order'[o] = order[o]
  PROVE  Standing' = Standing
  BY DEF Standing, AsOrder

LEMMA ViewKept ==
  ASSUME NEW o, order'[o].id = order[o].id, order'[o].side = order[o].side,
         order'[o].type = order[o].type, order'[o].price = order[o].price,
         order'[o].qty = order[o].qty, order'[o].rem = order[o].rem, order'[o].seq = order[o].seq
  PROVE  AsOrder(o)' = AsOrder(o)
  BY DEF AsOrder

(* A step that is about one order that rests.                              *)
LEMMA StandingChanged ==
  ASSUME Book, NEW m \in Resting, \A o \in Resting : o # m => order'[o] = order[o]
  PROVE  /\ Resting' = Resting \ {m} => Standing' = Standing \ {AsOrder(m)}
         /\ Resting' = Resting => Standing' = (Standing \ {AsOrder(m)}) \cup {AsOrder(m)'}
<1>1. \A o \in Resting : o # m => AsOrder(o) # AsOrder(m)
  BY ViewsDiffer
<1>2. \A o \in Resting : o # m => AsOrder(o)' = AsOrder(o)
  BY DEF AsOrder
<1>3. ASSUME Resting' = Resting \ {m} PROVE Standing' = Standing \ {AsOrder(m)}
  BY <1>1, <1>2, <1>3 DEF Standing
<1>4. ASSUME Resting' = Resting PROVE Standing' = (Standing \ {AsOrder(m)}) \cup {AsOrder(m)'}
  BY <1>1, <1>2, <1>4 DEF Standing
<1> QED
  BY <1>3, <1>4

LEMMA NobodyMoves ==
  ASSUME Parts, Outside
  PROVE  UNCHANGED <<Standing, Taker>>
<1>1. Standing' = Standing
  BY OutsideKeeps, StandingKept
<1>2. pc' = pc /\ subject' = subject
  BY DEF Outside
<1>3. CASE InMatch(pc)
  <2>1. order'[subject] = order[subject]
    BY <1>3, OutsideKeeps DEF InMatch
  <2>2. AsOrder(subject)' = AsOrder(subject)
    BY <1>2, <2>1 DEF AsOrder
  <2> QED
    BY <1>1, <1>2, <1>3, <2>2, TakerIs
<1>4. CASE ~ InMatch(pc)
  BY <1>1, <1>2, <1>4, TakerIs
<1> QED
  BY <1>3, <1>4

(* process takes the next order in hand.                                   *)
LEMMA ProcessNewArrives ==
  ASSUME MatchInv, ProcessNew
  PROVE  Abstract!Arrive
<1>1. Parts /\ InTimeOrder
  BY PartsMean DEF MatchInv
<1>2. PICK o \in Objs : Takes(o)
  BY <1>1, ProcessNewMeans
<1>3. /\ pc = "idle" /\ pc' = "new" /\ subject' = o /\ o \notin Resting /\ UNCHANGED index
      /\ localSeq' = localSeq + 1 /\ order'[o].seq = localSeq' /\ pool[o] = 0
      /\ \A x \in Objs : x # o => order'[x] = order[x]
      /\ order'[o].id = order[o].id /\ order'[o].side = order[o].side
      /\ order'[o].type = order[o].type /\ order'[o].price = order[o].price
      /\ order'[o].qty = order[o].qty /\ order'[o].rem = order[o].rem
      /\ order[o] \in OrderRecord /\ order[o].rem = order[o].qty
  BY <1>2 DEF Takes
<1>4. Taker = NoObj
  BY <1>3, TakerIs DEF InMatch
<1>5. Taker' = [id |-> order[o].id, side |-> order[o].side, type |-> order[o].type,
                price |-> order[o].price, qty |-> order[o].qty, rem |-> order[o].qty,
                seq |-> localSeq + 1]
  <2>1. Taker' = AsOrder(subject)'
    BY <1>3, TakerIs DEF InMatch
  <2> QED
    BY <1>3, <2>1 DEF AsOrder
<1>6. \A x \in Resting : x \in Objs /\ pool[x] = 0
  BY <1>1, RestingAt, HeldObjects DEF Parts, Book
<1>7. Standing' = Standing
  <2>1. Resting' = Resting
    BY <1>3, RestingKept
  <2> QED
    BY <1>1, <1>3, <1>6, <2>1, StandingKept
<1>8. Taker' \in Abstract!Orders
  <2>1. /\ order[o].id \in OrderIds /\ order[o].side \in Sides /\ order[o].type \in OrderTypes
        /\ order[o].qty \in Qtys
    BY <1>1, <1>3 DEF Parts, Identified
  <2>2. order[o].price \in Prices \cup {0} /\ localSeq + 1 \in Nat
    BY <1>1, <1>3 DEF OrderRecord, Parts, MachineTypeOK
  <2> QED
    BY <1>5, <2>1, <2>2 DEF Abstract!Orders, Sides
<1>9. ASSUME NEW a \in Standing PROVE a.seq < Taker'.seq /\ a.id # Taker'.id
  <2>1. PICK x \in Resting : a = AsOrder(x)
    BY <1>9 DEF Standing
  <2>2. x \in Objs /\ pool[x] = 0 /\ x # o
    BY <1>3, <1>6
  <2>3. order[x].id # order[o].id
    BY <1>1, <1>3, <2>2 DEF Parts, Identified
  <2>4. order[x].seq \in Nat /\ localSeq \in Nat /\ order[x].seq <= localSeq
    BY <1>1, <2>2, HeldObjects DEF OrderRecord, Parts, MachineTypeOK, InTimeOrder
  <2>5. a.seq = order[x].seq /\ a.id = order[x].id
    BY <2>1, AsOrderFields
  <2>6. Taker'.seq = localSeq + 1 /\ Taker'.id = order[o].id
    BY <1>5
  <2>7. order[x].seq < localSeq + 1
    BY <2>4
  <2> QED
    BY <2>3, <2>5, <2>6, <2>7
<1>10. Taker'.rem = Taker'.qty
  BY <1>5
<1> QED
  BY <1>4, <1>7, <1>8, <1>9, <1>10 DEF Abstract!Arrive

(* A trade leaves one maker with less, or takes it off the book.           *)
LEMMA LesserIs ==
  ASSUME NEW a \in Nat, NEW b \in Nat
  PROVE  Abstract!Min({a, b}) = IF a < b THEN a ELSE b
<1>1. PICK x \in {a, b} : x = (IF a < b THEN a ELSE b) /\ \A y \in {a, b} : x <= y
  OBVIOUS
<1>2. \A z \in {a, b} : (\A y \in {a, b} : z <= y) => z = x
  BY <1>1
<1>3. Abstract!Min({a, b}) = CHOOSE z \in {a, b} : \A y \in {a, b} : z <= y
  BY DEF Abstract!Min
<1> QED
  BY <1>1, <1>2, <1>3

\* Between two fills only the best level may be empty.
LEMMA StockedBut ==
  ASSUME Parts, InMatch(pc), NEW s \in Sides, s = Opposite(order[subject].side),
         pc = "fill" => levels[s][Best(s)].orders # <<>>
  PROVE  Stocked(s)
  BY DEF Parts, LevelsFilled, Stocked

(* What canFillCompletely adds up is what Matching sees.                   *)
LEMMA FillableIs ==
  ASSUME Parts, InMatch(pc), NEW s \in Sides, s = Opposite(order[subject].side), Stocked(s)
  PROVE  Abstract!Fillable(Taker) <=> CanFillCompletely(subject)
<1>1. PICK t : t = Taker
  OBVIOUS
<1>2. t.side \in Sides /\ s = Opposite(t.side) /\ t.rem = order[subject].rem
  BY <1>1, SomebodyTaken, AsOrderFields
<1>3. Abstract!Total(Abstract!InSight(t)) = Liquidity(s) /\ Liquidity(s) \in Nat
  BY <1>2, LiquidityInSight DEF Parts
<1>4. order[subject].rem \in Nat
  BY OrderInHand DEF InMatch
<1>5. Abstract!Fillable(t) <=> order[subject].rem <= Liquidity(s)
  BY <1>2, <1>3 DEF Abstract!Fillable
<1>6. CanFillCompletely(subject) <=> Liquidity(s) >= order[subject].rem
  BY DEF CanFillCompletely
<1> QED
  BY <1>1, <1>3, <1>4, <1>5, <1>6

(* An iteration of fillLevel is an execution with the first in line.       *)
LEMMA FillMakerTrades ==
  ASSUME MatchInv, FillMaker
  PROVE  Abstract!Trade
<1>1. Parts /\ InTimeOrder /\ Sweeping /\ pc = "fill" /\ InMatch(pc)
  BY PartsMean DEF MatchInv, FillMaker, InMatch
<1>2. PICK m \in Objs, q \in Nat \ {0}, c \in Execution :
        Fill(subject, m, q) /\ Executes(m, q, c)
  BY <1>1, FillMeans
<1>3. PICK t, opp, p, a :
        t = Taker /\ opp = Opposite(order[subject].side) /\ p = prices[opp][1] /\ a = AsOrder(m)
  OBVIOUS
<1>4. /\ t = AsOrder(subject) /\ t # NoObj /\ t.side \in Sides /\ t.side = order[subject].side
      /\ opp \in Sides /\ opp = Opposite(t.side)
  BY <1>1, <1>3, SomebodyTaken, OppositeSide
<1>5. /\ subject \in Objs /\ subject \notin Resting /\ order[subject].rem \in Nat
      /\ order[subject].side \in Sides
  BY <1>1, OrderInHand
<1>6. /\ UNCHANGED <<pc, subject, prices>> /\ m # subject /\ m \in Resting
      /\ order[subject].rem > 0 /\ order[m].rem \in Nat
      /\ order'[subject].id = order[subject].id /\ order'[subject].side = order[subject].side
      /\ order'[subject].type = order[subject].type
      /\ order'[subject].price = order[subject].price
      /\ order'[subject].qty = order[subject].qty
      /\ order'[subject].seq = order[subject].seq
      /\ order'[subject].rem = order[subject].rem - q
      /\ order'[m].id = order[m].id /\ order'[m].side = order[m].side
      /\ order'[m].type = order[m].type /\ order'[m].price = order[m].price
      /\ order'[m].seq = order[m].seq
      /\ order'[m].qty = order[m].qty /\ order'[m].rem = order[m].rem - q
      /\ \A o \in Objs : o # subject /\ o # m => order'[o] = order[o]
      /\ Resting' = IF q = order[m].rem THEN Resting \ {m} ELSE Resting
      /\ q <= order[m].rem
  BY <1>2 DEF Executes
<1>7. /\ prices[opp] # <<>> /\ levels[opp][p].orders # <<>> /\ m = Head(levels[opp][p].orders)
      /\ q = IF order[subject].rem < order[m].rem THEN order[subject].rem ELSE order[m].rem
      /\ p = Best(opp)
  <2>1. prices[opp] # <<>>
    BY <1>1, <1>3 DEF Parts, Handler
  <2> QED
    BY <1>2, <1>3, <2>1, Zenon DEF Fill, FillsLevel, BestNode, MatchQuantity, Best
<1>8. order[subject].type \in {"Limit", "IOC", "Market", "FOK"}
  BY <1>1 DEF Sweeping
<1>9. t.type = "FOK" /\ t.rem = t.qty => Abstract!Fillable(t)
  <2>1. SUFFICES ASSUME t.type = "FOK", t.rem = t.qty PROVE Abstract!Fillable(t)
    OBVIOUS
  <2>2. order[subject].type = "FOK" /\ Untraded
    BY <1>4, <2>1, AsOrderFields DEF Untraded
  <2>3. CanFillCompletely(subject)
    BY <1>1, <2>2 DEF Sweeping
  <2>4. Stocked(opp)
    BY <1>1, <1>3, <1>4, <1>7, StockedBut, Zenon
  <2>5. Abstract!Fillable(Taker)
    BY <1>1, <1>3, <1>4, <2>3, <2>4, FillableIs
  <2> QED
    BY <1>3, <2>5
<1>10. /\ order[m].side = opp /\ order[m].price = p /\ a \in Abstract!OtherSide(t)
       /\ \A b \in Abstract!OtherSide(t) : ~ Abstract!Before(b, a)
  <2>1. Book /\ InLine
    BY <1>1, InTimeOrderMeans DEF Parts
  <2>2. PICK s \in Sides : s = opp
    BY <1>4
  <2>3. /\ t.side \in Sides /\ s = Opposite(t.side) /\ prices[s] # <<>> /\ p = prices[s][1]
        /\ m = Head(levels[s][p].orders) /\ levels[s][p].orders # <<>>
    BY <1>3, <1>4, <1>7, <2>2, Zenon
  <2>4. /\ order[m].side = s /\ order[m].price = p
        /\ AsOrder(m) \in Abstract!OtherSide(t)
        /\ \A b \in Abstract!OtherSide(t) : ~ Abstract!Before(b, AsOrder(m))
    BY <2>1, <2>3, FirstInLine
  <2> QED
    BY <1>3, <2>2, <2>4
<1>11. /\ t.rem = order[subject].rem /\ t.type = order[subject].type
       /\ t.price = order[subject].price
       /\ a.rem = order[m].rem /\ a.side = opp /\ a.price = p
  BY <1>3, <1>4, <1>10, AsOrderFields
<1>12. Abstract!Tradable(t, a)
  <2>1. SUFFICES ASSUME t.type = "Limit" PROVE Abstract!Crosses(t, a)
    BY DEF Abstract!Tradable
  <2>2. ~ Better(opp, order[subject].price, p)
    BY <1>1, <1>3, <1>7, <1>11, <2>1, Zenon DEF Sweeping
  <2> QED
    BY <1>11, <2>2 DEF Abstract!Crosses, Abstract!Beats, Better
<1>13. Abstract!Min({t.rem, a.rem}) = q
  <2>1. PICK x, y : x = order[subject].rem /\ y = order[m].rem /\ x \in Nat /\ y \in Nat
    BY <1>5, <1>6
  <2>2. Abstract!Min({x, y}) = IF x < y THEN x ELSE y
    BY <2>1, LesserIs
  <2> QED
    BY <1>7, <1>11, <2>1, <2>2
<1>14. Taker' = [t EXCEPT !.rem = t.rem - q]
  <2>1. Taker' = AsOrder(subject)'
    BY <1>1, <1>6, TakerIs
  <2> QED
    BY <1>4, <1>6, <1>11, <2>1 DEF AsOrder
<1>15. Standing' = (Standing \ {a}) \cup {r \in {[a EXCEPT !.rem = a.rem - q]} : r.rem > 0}
  <2>1. \A o \in Resting : o # m => order'[o] = order[o]
    BY <1>1, <1>5, <1>6, RestingAt DEF Parts, Book
  <2>2. PICK r : r = [a EXCEPT !.rem = a.rem - q]
    OBVIOUS
  <2>3. r.rem = order[m].rem - q /\ r = AsOrder(m)'
    BY <1>3, <1>6, <1>11, <2>2 DEF AsOrder
  <2>4. CASE q = order[m].rem
    <3>1. Standing' = Standing \ {a}
      BY <1>1, <1>3, <1>6, <2>1, <2>4, StandingChanged DEF Parts
    <3>2. ~ (r.rem > 0)
      BY <1>6, <2>3, <2>4
    <3> QED
      BY <2>2, <3>1, <3>2
  <2>5. CASE q # order[m].rem
    <3>1. Standing' = (Standing \ {a}) \cup {r}
      BY <1>1, <1>3, <1>6, <2>1, <2>3, <2>5, StandingChanged DEF Parts
    <3>2. r.rem > 0
      BY <1>6, <2>3, <2>5
    <3> QED
      BY <2>2, <3>1, <3>2
  <2> QED
    BY <2>4, <2>5
<1>16. t.rem > 0 /\ t.type # "PostOnly"
  BY <1>6, <1>8, <1>11
<1> QED
  BY <1>3, <1>4, <1>9, <1>10, <1>12, <1>13, <1>14, <1>15, <1>16 DEF Abstract!Trade

(* What AddOrder is called for crosses nothing that rests.                 *)
LEMMA RestRests ==
  ASSUME MatchInv, RestPostOnly \/ RestRemainder
  PROVE  Abstract!Rest
<1>1. Parts /\ InTimeOrder /\ Sweeping
  BY PartsMean DEF MatchInv
<1>2. Rest /\ Rests
  BY <1>1, RestSteps, RestMeans
<1>3. /\ pc \in {"new", "emit"} /\ InMatch(pc) /\ pc' = "report" /\ ~ InMatch(pc')
      /\ order[subject].type \in {"Limit", "PostOnly"} /\ order[subject].rem > 0
  BY <1>2 DEF Rest, Rests, InMatch
<1>4. /\ Resting' = Resting \cup {subject}
      /\ \A x \in Objs : x # subject => order'[x] = order[x]
      /\ AsOrder(subject)' = AsOrder(subject)
  BY <1>2, ViewKept DEF Rests
<1>5. subject \in Objs /\ subject \notin Resting /\ order[subject].price \in Prices
      /\ order[subject].side \in Sides
  BY <1>1, <1>3, OrderInHand
<1>6. PICK t : t = Taker
  OBVIOUS
<1>7. /\ t = AsOrder(subject) /\ t # NoObj /\ t.side \in Sides /\ t.side = order[subject].side
      /\ t.price = order[subject].price /\ t.rem = order[subject].rem
      /\ t.type = order[subject].type
  BY <1>1, <1>3, <1>6, SomebodyTaken, AsOrderFields
<1>8. PICK s \in Sides : s = Opposite(t.side)
  BY <1>7, OppositeSide
<1>9. prices[s] = <<>> \/ Better(s, t.price, prices[s][1])
  <2>1. SUFFICES ASSUME prices[s] # <<>> PROVE Better(s, t.price, prices[s][1])
    OBVIOUS
  <2>2. prices[s][1] \in Prices /\ prices[s][1] = Best(s)
    BY <1>1, <2>1, BestLevel DEF Parts
  <2>3. CASE RestPostOnly
    <3>1. ~ WouldCross(subject)
      BY <2>3 DEF RestPostOnly, Refuses
    <3>2. Best(s) > 0
      <4>1. \A p \in Prices : p > 0
        BY BookAssumption
      <4> QED
        BY <2>2, <4>1
    <3> QED
      BY <1>7, <1>8, <2>2, <3>1, <3>2 DEF WouldCross
  <2>4. CASE RestRemainder
    <3>1. pc = "emit" /\ order[subject].type = "Limit"
      BY <2>4 DEF RestRemainder, Matched
    <3>2. ~ Sweeps(subject)
      BY <1>1, <3>1 DEF Sweeping
    <3> QED
      BY <1>3, <1>7, <1>8, <2>1, <3>1, <3>2 DEF Sweeps
  <2> QED
    BY <2>3, <2>4
<1>10. \A a \in Abstract!OtherSide(t) : ~ Abstract!Crosses(t, a)
  <2>1. t.side \in Sides /\ t.price \in Prices /\ Book
    BY <1>1, <1>5, <1>7 DEF Parts
  <2> QED
    BY <1>8, <1>9, <2>1, NobodyCrosses
<1>11. Standing' = Standing \cup {t}
  <2>5. PICK me : me = subject
    OBVIOUS
  <2>6. me \in Resting' /\ AsOrder(me)' = t /\ Resting' = Resting \cup {me}
    BY <1>2, <1>4, <1>7, <2>5, ViewKept DEF Rests
  <2>1. \A o \in Resting : AsOrder(o)' = AsOrder(o)
    <3>1. \A o \in Resting : order'[o] = order[o]
      BY <1>1, <1>4, <1>5, RestingAt DEF Parts, Book
    <3> QED
      BY <3>1 DEF AsOrder
  <2>2. t \in Standing'
    BY <2>6 DEF Standing
  <2>3. \A a \in Standing : a \in Standing'
    <3>1. SUFFICES ASSUME NEW o \in Resting PROVE AsOrder(o) \in Standing'
      BY DEF Standing
    <3>2. o \in Resting' /\ AsOrder(o)' = AsOrder(o)
      BY <1>4, <2>1
    <3> QED
      BY <3>2 DEF Standing
  <2>4. \A a \in Standing' : a \in Standing \cup {t}
    <3>1. SUFFICES ASSUME NEW o \in Resting' PROVE AsOrder(o)' \in Standing \cup {t}
      BY DEF Standing
    <3>2. CASE o = me
      BY <2>6, <3>2
    <3>3. CASE o \in Resting
      BY <2>1, <3>3 DEF Standing
    <3> QED
      BY <2>6, <3>1, <3>2, <3>3
  <2> QED
    BY <2>2, <2>3, <2>4
<1>12. Taker' = NoObj
  BY <1>3, TakerIs
<1> QED
  BY <1>3, <1>6, <1>7, <1>10, <1>11, <1>12 DEF Abstract!Rest

(* Who is refused, cancelled or reported as filled may leave.              *)
LEMMA RefusedLeave ==
  ASSUME MatchInv, Reject
  PROVE  Abstract!MayLeave(Taker)
<1>1. Parts /\ InTimeOrder /\ pc = "new" /\ InMatch(pc) /\ Refuses(order[subject])
  BY PartsMean DEF MatchInv, Reject, InMatch
<1>2. PICK t : t = Taker
  OBVIOUS
<1>3. /\ t = AsOrder(subject) /\ t.side \in Sides /\ t.side = order[subject].side
      /\ t.price = order[subject].price /\ t.rem = order[subject].rem
      /\ t.type = order[subject].type /\ t.qty = order[subject].qty
  BY <1>1, <1>2, SomebodyTaken, AsOrderFields
<1>4. PICK s \in Sides : s = Opposite(t.side)
  BY <1>3, OppositeSide
<1>5. t.rem = t.qty
  BY <1>1, <1>3 DEF Parts, Handler
<1>6. Stocked(s)
  BY <1>1, <1>3, <1>4, StockedBut
<1>7. CASE t.type = "PostOnly"
  <2>1. WouldCross(subject)
    BY <1>1, <1>3, <1>7 DEF Refuses
  <2>2. Best(s) > 0 /\ ~ Better(s, t.price, Best(s))
    BY <1>3, <1>4, <2>1 DEF WouldCross
  <2>3. prices[s] # <<>>
    BY <2>2 DEF Best
  <2>4. PICK p, m : p = prices[s][1] /\ m = Head(levels[s][p].orders)
    OBVIOUS
  <2>5. p \in Prices /\ p = Best(s) /\ levels[s][p] # NoNode
    BY <1>1, <2>3, <2>4, BestLevel DEF Parts
  <2>6. levels[s][p].orders # <<>>
    BY <1>6, <2>5 DEF Stocked
  <2>7. /\ order[m].side = s /\ order[m].price = p
        /\ AsOrder(m) \in Abstract!OtherSide(t)
    <3>1. Book /\ InLine
      BY <1>1, InTimeOrderMeans DEF Parts
    <3>2. t.side \in Sides /\ s \in Sides /\ s = Opposite(t.side)
      BY <1>3, <1>4
    <3>3. /\ prices[s] # <<>> /\ p = prices[s][1] /\ m = Head(levels[s][p].orders)
          /\ levels[s][p].orders # <<>>
      BY <2>3, <2>4, <2>6
    <3> QED
      BY <3>1, <3>2, <3>3, FirstInLine
  <2>8. Abstract!Crosses(t, AsOrder(m))
    <3>1. AsOrder(m).side = s /\ AsOrder(m).price = p
      BY <2>7, AsOrderFields
    <3> QED
      BY <2>2, <2>5, <3>1 DEF Abstract!Crosses, Abstract!Beats, Better
  <2> QED
    BY <1>2, <1>7, <2>7, <2>8 DEF Abstract!MayLeave
<1>8. CASE t.type = "FOK"
  <2>1. ~ CanFillCompletely(subject)
    BY <1>1, <1>3, <1>8 DEF Refuses
  <2>2. ~ Abstract!Fillable(t)
    BY <1>1, <1>2, <1>3, <1>4, <1>6, <2>1, FillableIs
  <2> QED
    BY <1>2, <1>5, <1>8, <2>2 DEF Abstract!MayLeave
<1>9. CASE t.type \notin {"PostOnly", "FOK"}
  <2>1. t.type \notin {"PostOnly", "FOK", "Limit", "IOC", "Market"}
    BY <1>1, <1>3, <1>9 DEF Refuses
  <2> QED
    BY <1>2, <1>5, <2>1 DEF Abstract!MayLeave
<1> QED
  BY <1>7, <1>8, <1>9

LEMMA DoneLeave ==
  ASSUME MatchInv, CancelRemainder \/ Complete
  PROVE  Abstract!MayLeave(Taker)
<1>1. Parts /\ Covered /\ Sweeping /\ pc = "emit" /\ InMatch(pc)
  BY PartsMean DEF MatchInv, CancelRemainder, Complete, Matched, InMatch
<1>2. PICK t : t = Taker
  OBVIOUS
<1>3. /\ t = AsOrder(subject) /\ t.side \in Sides /\ t.side = order[subject].side
      /\ t.rem = order[subject].rem /\ t.type = order[subject].type
  BY <1>1, <1>2, SomebodyTaken, AsOrderFields
<1>4. CASE Complete
  <2>1. t.rem = 0
    BY <1>1, <1>3, <1>4, CompleteCovers, CoveredMeans
  <2>2. t.type \in {"FOK", "Limit", "IOC", "Market"}
    BY <1>3, <1>4 DEF Complete, Matched
  <2> QED
    BY <1>2, <2>1, <2>2 DEF Abstract!MayLeave
<1>5. CASE CancelRemainder
  <2>1. t.type \in {"IOC", "Market"} /\ order[subject].rem > 0
    BY <1>3, <1>5 DEF CancelRemainder, Matched
  <2>2. PICK s \in Sides : s = Opposite(t.side)
    BY <1>3, OppositeSide
  <2>3. prices[s] = <<>>
    <3>1. ~ Sweeps(subject)
      BY <1>1 DEF Sweeping
    <3> QED
      BY <1>3, <2>1, <2>2, <3>1 DEF Sweeps
  <2>4. Abstract!OtherSide(t) = {}
    BY <1>1, <1>3, <2>2, <2>3, NobodyThere DEF Parts
  <2>5. Abstract!Exhausted(t)
    BY <2>4 DEF Abstract!Exhausted
  <2> QED
    BY <1>2, <2>1, <2>5 DEF Abstract!MayLeave
<1> QED
  BY <1>4, <1>5

LEMMA HandlerStepMatches ==
  ASSUME MatchInv, HandlerStep
  PROVE  Abstract!Leave \/ UNCHANGED <<Standing, Taker>>
<1>1. Parts
  BY PartsMean DEF MatchInv
<1>2. pc \in {"new", "match", "emit"} /\ InMatch(pc) /\ SubjectOnly
  BY <1>1, HandlerSteps DEF InMatch
<1>3. /\ subject' = subject /\ UNCHANGED index /\ \A x \in Objs : x # subject => order'[x] = order[x]
      /\ AsOrder(subject)' = AsOrder(subject)
  BY <1>2, ViewKept DEF SubjectOnly
<1>4. Standing' = Standing
  <2>1. subject \notin Resting
    BY <1>1, <1>2, OrderInHand
  <2>2. \A o \in Resting : order'[o] = order[o]
    BY <1>1, <1>3, <2>1, RestingAt DEF Parts, Book
  <2> QED
    BY <1>1, <1>3, <2>2, RestingKept, StandingKept
<1>5. CASE StartMatch \/ EnterLevel \/ EndMatch
  <2>1. InMatch(pc')
    BY <1>5 DEF StartMatch, EnterLevel, EndMatch, InMatch
  <2>2. Taker' = Taker
    BY <1>2, <1>3, <2>1, TakerIs
  <2> QED
    BY <1>4, <2>2
<1>6. CASE Reject \/ CancelRemainder \/ Complete
  <2>1. Abstract!MayLeave(Taker)
    BY <1>6, RefusedLeave, DoneLeave
  <2>2. pc' = "report"
    BY <1>6 DEF Reject, CancelRemainder, Complete, Conclude
  <2>3. Taker' = NoObj /\ Taker # NoObj
    BY <1>1, <1>2, <2>2, TakerIs, SomebodyTaken DEF InMatch
  <2> QED
    BY <1>4, <2>1, <2>3 DEF Abstract!Leave
<1> QED
  BY <1>5, <1>6 DEF HandlerStep

LEMMA ProcessCancelMatches ==
  ASSUME MatchInv, ProcessCancel
  PROVE  Abstract!Cancel \/ UNCHANGED <<Standing, Taker>>
<1>1. Parts
  BY PartsMean DEF MatchInv
<1>2. TakesCancel /\ (NoneFound \/ \E o \in Objs : Withdraws(o))
  BY <1>1, ProcessCancelMeans
<1>3. pc = "idle" /\ pc' = "report"
  BY <1>2 DEF TakesCancel
<1>4. Taker = NoObj /\ Taker' = NoObj
  BY <1>3, TakerIs DEF InMatch
<1>5. CASE NoneFound
  <2>1. Resting' = Resting /\ order' = order
    BY <1>5, RestingKept DEF NoneFound
  <2> QED
    BY <1>1, <1>4, <2>1, StandingKept
<1>6. CASE \E o \in Objs : Withdraws(o)
  <2>1. PICK o \in Objs : Withdraws(o)
    BY <1>6
  <2>2. /\ o \in Resting /\ Resting' = Resting \ {o}
        /\ \A x \in Objs : x # o => order'[x] = order[x]
    BY <2>1 DEF Withdraws
  <2>3. \A x \in Resting : x # o => order'[x] = order[x]
    BY <1>1, <2>2, RestingAt DEF Parts, Book
  <2>4. Standing' = Standing \ {AsOrder(o)}
    BY <1>1, <2>2, <2>3, StandingChanged DEF Parts
  <2>5. AsOrder(o) \in Standing
    BY <2>2 DEF Standing
  <2> QED
    BY <1>4, <2>4, <2>5 DEF Abstract!Cancel
<1> QED
  BY <1>2, <1>5, <1>6

LEMMA EngineStepMatches ==
  ASSUME MatchInv, EngineStep
  PROVE  Abstract!MatchingNext \/ UNCHANGED <<Standing, Taker>>
<1>1. Parts
  BY PartsMean DEF MatchInv
<1>2. CASE ProcessNew
  BY <1>2, ProcessNewArrives DEF Abstract!MatchingNext
<1>3. CASE ProcessCancel
  BY <1>3, ProcessCancelMatches DEF Abstract!MatchingNext
<1>4. CASE HandlerStep
  BY <1>4, HandlerStepMatches DEF Abstract!MatchingNext
<1>5. CASE RestPostOnly \/ RestRemainder
  BY <1>5, RestRests DEF Abstract!MatchingNext
<1>6. CASE FillMaker
  BY <1>6, FillMakerTrades DEF Abstract!MatchingNext
<1>7. CASE LeaveLevel
  <2>1. /\ PruneBest(subject) /\ pc = "fill" /\ pc' = "match" /\ UNCHANGED <<subject>>
    BY <1>7 DEF LeaveLevel
  <2>2. order[subject].side \in Sides /\ prices[Opposite(order[subject].side)] # <<>>
    BY <1>1, <2>1, OrderInHand DEF Parts, Handler
  <2>3. Resting' = Resting /\ order' = order
    BY <1>1, <2>1, <2>2, PruneKeeps DEF Parts
  <2>4. Standing' = Standing
    BY <1>1, <2>3, StandingKept
  <2>5. Taker' = Taker
    BY <2>1, <2>3, TakerIs DEF InMatch, AsOrder
  <2> QED
    BY <2>4, <2>5
<1>8. CASE EmitTrade
  <2>1. PICK m \in Objs, c \in Execution : Publishes(m, c)
    BY <1>1, <1>8, EmitMeans
  <2>2. /\ pc = "emit" /\ pc' = pc /\ subject' = subject /\ Resting' = Resting
        /\ m # subject /\ \A x \in Objs : x # m => order'[x] = order[x]
        /\ ~ Sold(m) => order'[m] = order[m]
    BY <2>1 DEF Publishes
  <2>3. \A x \in Resting : order'[x] = order[x]
    <3>1. ASSUME NEW x \in Resting PROVE x \in Objs /\ (x = m => ~ Sold(m))
      BY <1>1, RestingAt DEF Parts, Book, Exclusive
    <3> QED
      BY <2>2, <3>1
  <2>4. Standing' = Standing
    BY <1>1, <2>2, <2>3, StandingKept
  <2>5. order'[subject] = order[subject]
    BY <1>1, <2>2, OrderInHand
  <2>6. Taker' = Taker
    BY <2>2, <2>5, TakerIs DEF InMatch, AsOrder
  <2> QED
    BY <2>4, <2>6
<1>9. CASE Report
  <2>1. Answers /\ pc = "report"
    BY <1>1, <1>9, ReportMeans DEF Report
  <2>2. /\ pc' = "idle" /\ Resting' = Resting
        /\ \A x \in Objs : x # subject => order'[x] = order[x]
        /\ IF verdict = "Accepted" \/ subject = NoObj THEN order' = order
           ELSE subject \notin Resting
    BY <2>1 DEF Answers
  <2>3. \A x \in Resting : order'[x] = order[x]
    <3>1. \A x \in Resting : x \in Objs
      BY <1>1, RestingAt DEF Parts, Book
    <3> QED
      BY <2>2, <3>1
  <2>4. Standing' = Standing
    BY <1>1, <2>2, <2>3, StandingKept
  <2>5. Taker' = NoObj /\ Taker = NoObj
    BY <2>1, <2>2, TakerIs DEF InMatch
  <2> QED
    BY <2>4, <2>5
<1> QED
  BY <1>2, <1>3, <1>4, <1>5, <1>6, <1>7, <1>8, <1>9 DEF EngineStep, HandlerStep

LEMMA StepMatches ==
  ASSUME MatchInv, [Next]_vars
  PROVE  [Abstract!MatchingNext]_(Abstract!matchingVars)
<1>1. CASE EngineStep
  BY <1>1, EngineStepMatches DEF Abstract!matchingVars
<1>2. CASE Submit \/ PollEvent \/ PollNothing \/ UNCHANGED vars
  <2>1. UNCHANGED <<Standing, Taker>>
    BY <1>2, PartsMean, StepsOutside, NobodyMoves DEF MatchInv
  <2> QED
    BY <2>1 DEF Abstract!matchingVars
<1> QED
  BY <1>1, <1>2 DEF Next

LEMMA InitMatches == Init => Abstract!MatchingInit
<1> SUFFICES ASSUME Init PROVE Abstract!MatchingInit
  OBVIOUS
<1>1. pc = "idle" /\ index = [i \in OrderIds |-> NoLoc]
  BY DEF Init, BookInit
<1>2. Resting = {}
  BY <1>1 DEF Resting
<1>3. Standing = {}
  BY <1>2 DEF Standing
<1>4. Taker = NoObj
  BY <1>1, TakerIs DEF InMatch
<1> QED
  BY <1>3, <1>4 DEF Abstract!MatchingInit

(* The engine matches by price and time as Matching has it: process is     *)
(* Arrive, an iteration of fillLevel is Trade, AddOrder is Rest, a reject, *)
(* a cancelled remainder and a completed order are Leave, handleCancelOrder *)
(* is Cancel or finds nothing, and every other step is none of its.        *)
THEOREM EngineImplementsMatching == Spec => ImplementsMatching
<1>1. MatchInv /\ [Next]_vars => [Abstract!MatchingNext]_(Abstract!matchingVars)
  BY StepMatches
<1> QED
  BY InitMatches, MatchInvariance, <1>1, PTL
  DEF Spec, ImplementsMatching, Abstract!MatchingSpec

-----------------------------------------------------------------------------
(* What the abstract matching promises of its book is then true of the     *)
(* engine's.                                                               *)

\* The part of an order that never changes.
Offer(o) ==
  /\ o = [x \in {"id", "side", "type", "price", "qty", "rem", "seq"} |-> o[x]]
  /\ o.side \in {"Buy", "Sell"} /\ o.price \in Int

LEMMA OffersTyped ==
  ASSUME Parts
  PROVE  /\ \A a \in Standing : Offer(a)
         /\ Taker # NoObj => Offer(Taker)
<1>1. \A p \in Prices \cup {0} : p \in Int
  <2>1. \A p \in Prices : p \in Int
    BY BookAssumption
  <2> QED
    BY <2>1
<1>2. ASSUME NEW o, order[o].side \in Sides, order[o].price \in Prices \cup {0} PROVE Offer(AsOrder(o))
  BY <1>1, <1>2 DEF AsOrder, Offer, Sides
<1>3. ASSUME NEW a \in Standing PROVE Offer(a)
  <2>1. PICK o \in Resting : a = AsOrder(o)
    BY <1>3 DEF Standing
  <2>2. order[o].side \in Sides /\ order[o].price \in Prices
    BY RestingAt DEF Parts, Book
  <2> QED
    BY <1>2, <2>1, <2>2
<1>4. ASSUME Taker # NoObj PROVE Offer(Taker)
  <2>1. InMatch(pc)
    BY <1>4, TakerIs
  <2>2. PICK me : me = subject
    OBVIOUS
  <2>3. order[me].side \in Sides /\ order[me].price \in Prices \cup {0} /\ Taker = AsOrder(me)
    BY <2>1, <2>2, OrderInHand, HeldObjects, SomebodyTaken DEF InMatch
  <2> QED
    BY <1>2, <2>3
<1> QED
  BY <1>3, <1>4

LEMMA StaysUncrossed ==
  ASSUME MatchInv, [Next]_vars, Abstract!NobodyMissesATrade
  PROVE  Abstract!NobodyMissesATrade'
<1>1. [Abstract!MatchingNext]_(Abstract!matchingVars)
  BY StepMatches
<1>2. PICK stood, t : stood = Standing /\ t = Taker
  OBVIOUS
<1>3. (\A a \in stood : Offer(a)) /\ (t # NoObj => Offer(t))
  BY <1>2, OffersTyped, PartsMean DEF MatchInv
<1>4. \A b, a \in stood : b.side = "Buy" /\ a.side = "Sell" => b.price < a.price
  BY <1>2 DEF Abstract!NobodyMissesATrade
<1>5. ASSUME \A x \in Standing' : \E a \in stood : x.side = a.side /\ x.price = a.price
      PROVE  Abstract!NobodyMissesATrade'
  BY <1>4, <1>5 DEF Abstract!NobodyMissesATrade
<1>6. CASE Abstract!Trade
  <2>1. PICK m, q :
          /\ m \in Abstract!OtherSide(t)
          /\ Standing' = (stood \ {m}) \cup {r \in {[m EXCEPT !.rem = @ - q]} : r.rem > 0}
    BY <1>2, <1>6 DEF Abstract!Trade
  <2>2. m \in stood /\ Offer(m)
    BY <1>2, <1>3, <2>1 DEF Abstract!OtherSide
  <2>3. [m EXCEPT !.rem = @ - q].side = m.side /\ [m EXCEPT !.rem = @ - q].price = m.price
    BY <2>2 DEF Offer
  <2> QED
    BY <1>5, <2>1, <2>2, <2>3
<1>7. CASE Abstract!Rest
  <2>1. /\ Offer(t) /\ Standing' = stood \cup {t}
        /\ \A o \in Abstract!OtherSide(t) : ~ Abstract!Crosses(t, o)
    BY <1>2, <1>3, <1>7 DEF Abstract!Rest
  <2>2. \A o \in stood : o.side # t.side => ~ Abstract!Crosses(t, o)
    BY <1>2, <2>1 DEF Abstract!OtherSide
  <2>3. \A o \in stood : /\ t.side = "Buy" /\ o.side = "Sell" => t.price < o.price
                         /\ t.side = "Sell" /\ o.side = "Buy" => o.price < t.price
    BY <1>3, <2>1, <2>2 DEF Offer, Abstract!Crosses, Abstract!Beats
  <2>4. \A b, a \in stood \cup {t} : b.side = "Buy" /\ a.side = "Sell" => b.price < a.price
    BY <1>4, <2>3
  <2> QED
    BY <2>1, <2>4 DEF Abstract!NobodyMissesATrade
<1>8. CASE Standing' \subseteq Standing
  BY <1>2, <1>5, <1>8
<1>9. Abstract!Arrive \/ Abstract!Leave \/ Abstract!Cancel \/ UNCHANGED Abstract!matchingVars
        => Standing' \subseteq Standing
  BY DEF Abstract!Arrive, Abstract!Leave, Abstract!Cancel, Abstract!matchingVars
<1> QED
  BY <1>1, <1>6, <1>7, <1>8, <1>9 DEF Abstract!MatchingNext

(* Between two commands the book is well formed: AddOrder, CancelOrder,    *)
(* fillLevel and Match leave sorted slices that list exactly the levels, a *)
(* cancel index that lists exactly the resting orders, and level           *)
(* quantities that are what their orders have left.  AddOrder appends, so  *)
(* the orders of a level stand in the line in which they came, and Match   *)
(* rests nothing that meets the other side, so no two orders rest that     *)
(* would trade.                                                            *)
THEOREM BookWellFormed == Spec => []BookConsistent
<1>1. Init => Abstract!NobodyMissesATrade
  BY InitMatches DEF Abstract!MatchingInit, Abstract!NobodyMissesATrade
<1>2. MatchInv /\ Abstract!NobodyMissesATrade => BookConsistent
  <2> SUFFICES ASSUME MatchInv, Abstract!NobodyMissesATrade PROVE BookConsistent
    OBVIOUS
  <2>1. IInv /\ InTimeOrder
    BY DEF MatchInv
  <2>2. ASSUME NEW b \in Resting, NEW a \in Resting, order[b].side = "Buy", order[a].side = "Sell"
        PROVE  order[b].price < order[a].price
    <3>1. AsOrder(b) \in Standing /\ AsOrder(a) \in Standing
      BY DEF Standing
    <3>2. /\ AsOrder(b).side = "Buy" /\ AsOrder(b).price = order[b].price
          /\ AsOrder(a).side = "Sell" /\ AsOrder(a).price = order[a].price
      BY <2>2, AsOrderFields
    <3> QED
      BY <3>1, <3>2 DEF Abstract!NobodyMissesATrade
  <2> QED
    BY <2>1, <2>2 DEF IInv, BookConsistent, LevelsFilled, RestingOpen, InTimeOrder
<1>3. MatchInv /\ [Next]_vars /\ Abstract!NobodyMissesATrade => Abstract!NobodyMissesATrade'
  BY StaysUncrossed
<1> QED
  BY MatchInvariance, <1>1, <1>2, <1>3, PTL DEF Spec

-----------------------------------------------------------------------------
(* The invariant of the stream.                                            *)

\* Every event in the ring is in sequence, and adds up.
Orderly ==
  \A k \in 1 .. Len(outbound) :
    InSequence(Seen[k - 1], outbound[k]) /\ Balanced(Seen[k - 1], outbound[k])

\* What a consumer will know that has polled all of them.
Caught == Seen[Len(outbound)]

StreamParts ==
  /\ Covered /\ Orderly
  /\ Numbered(Caught) /\ Mirrored(Caught) /\ Settled(Caught)

Told == IInv /\ StreamParts

\* c is what Caught stands for after the step.
LEMMA CaughtNext ==
  ASSUME NEW c, c = Seen'[Len(outbound')]
  PROVE  /\ Numbered(c)' => Numbered(Caught)'
         /\ Mirrored(c)' => Mirrored(Caught)'
         /\ Settled(c)' => Settled(Caught)'
<1>1. Numbered(c)' => Numbered(Caught)'
  BY DEF Caught, Numbered
<1>2. Mirrored(c)' => Mirrored(Caught)'
  BY DEF Caught, Mirrored, Closing, Shown, Makers, Lag, Traded, Resting
<1>3. Settled(c)' => Settled(Caught)'
  BY DEF Caught, Settled, Owed, Pending, Makers, Lag, Traded
<1> QED
  BY <1>1, <1>2, <1>3

LEMMA OutboundTyped ==
  ASSUME Parts
  PROVE  outbound \in Seq(Event) /\ Len(outbound) \in Nat
<1>1. outbound \in Seq(Event)
  BY DEF Parts, MachineTypeOK
<1> QED
  BY <1>1, LenProperties

LEMMA QuietCaught ==
  ASSUME Parts, Parts', StreamParts, Quiet, NEW c, c = Caught, c = Seen'[Len(outbound')]
  PROVE  Numbered(Caught)' /\ Mirrored(Caught)' /\ Settled(Caught)'
<1>1. Numbered(c) /\ Mirrored(c) /\ Settled(c)
  <2>1. Numbered(Caught) /\ Mirrored(Caught) /\ Settled(Caught)
    BY DEF StreamParts
  <2> QED
    BY <2>1
<1>2. NumbersKept /\ nextId' \in {nextId, nextId + 1}
      /\ \A o \in Objs : MirrorKept(o) /\ LedgerKept(o)
  BY DEF Quiet
<1>3. Numbered(c)' /\ Mirrored(c)' /\ Settled(c)'
  BY <1>1, <1>2, NumberedKept, MirroredKept, SettledKept
<1> QED
  BY <1>3, CaughtNext

LEMMA QuietKeeps ==
  ASSUME Parts, Parts', StreamParts, Quiet, Covered',
         outbound' = outbound, UNCHANGED consumerVars
  PROVE  StreamParts'
<1>1. Len(outbound) \in Nat
  BY OutboundTyped
<1>2. Seen' = Seen /\ Len(outbound') = Len(outbound)
  BY <1>1, SeenKept
<1>3. PICK c : c = Caught
  OBVIOUS
<1>4. c = Seen'[Len(outbound')]
  BY <1>2, <1>3 DEF Caught
<1>5. Numbered(Caught)' /\ Mirrored(Caught)' /\ Settled(Caught)'
  BY <1>3, <1>4, QuietCaught
<1>6. Orderly'
  <2>1. Orderly
    BY DEF StreamParts
  <2> QED
    BY <1>2, <2>1 DEF Orderly
<1> QED
  BY <1>5, <1>6 DEF StreamParts

LEMMA PublishedKeeps ==
  ASSUME Parts, StreamParts, Covered', UNCHANGED consumerVars,
         NEW c, c = Caught, NEW e \in Event, NEW d, Reports(c, e, d)
  PROVE  StreamParts'
<1>1. outbound \in Seq(Event) /\ Len(outbound) \in Nat
  BY OutboundTyped
<1>2. PICK n \in Nat : n = Len(outbound)
  BY <1>1
<1>3. /\ outbound' = Append(outbound, e)
      /\ d = After(c, e)
      /\ InSequence(c, e) /\ Balanced(c, e)
      /\ Numbered(d)' /\ Mirrored(d)' /\ Settled(d)'
  BY DEF Reports
<1>4. /\ Len(outbound') = n + 1
      /\ \A k \in 0 .. n : Seen'[k] = Seen[k]
      /\ Seen'[n + 1] = After(Seen[n], e)
      /\ \A k \in 1 .. n : outbound'[k] = outbound[k]
      /\ outbound'[n + 1] = e
  BY <1>1, <1>2, <1>3, SeenPushed
<1>5. c = Seen[n]
  BY <1>2 DEF Caught
<1>6. d = Seen'[Len(outbound')]
  BY <1>3, <1>4, <1>5
<1>7. Numbered(Caught)' /\ Mirrored(Caught)' /\ Settled(Caught)'
  BY <1>3, <1>6, CaughtNext
<1>8. ASSUME NEW k \in 1 .. n + 1
      PROVE  InSequence(Seen'[k - 1], outbound'[k]) /\ Balanced(Seen'[k - 1], outbound'[k])
  <2>1. CASE k \in 1 .. n
    <3>1. InSequence(Seen[k - 1], outbound[k]) /\ Balanced(Seen[k - 1], outbound[k])
      BY <1>2, <2>1 DEF StreamParts, Orderly
    <3>2. k - 1 \in 0 .. n
      BY <2>1
    <3>3. Seen'[k - 1] = Seen[k - 1] /\ outbound'[k] = outbound[k]
      BY <1>4, <2>1, <3>2
    <3> QED
      BY <3>1, <3>3
  <2>2. CASE k = n + 1
    <3>1. k - 1 = n /\ n \in 0 .. n
      BY <2>2
    <3>2. Seen'[k - 1] = c /\ outbound'[k] = e
      BY <1>4, <1>5, <2>2, <3>1
    <3> QED
      BY <1>3, <3>2
  <2> QED
    BY <2>1, <2>2
<1>9. Orderly'
  <2>1. \A k \in 1 .. Len(outbound') :
          InSequence(Seen'[k - 1], outbound'[k]) /\ Balanced(Seen'[k - 1], outbound'[k])
    BY <1>4, <1>8
  <2> QED
    BY <2>1 DEF Orderly
<1> QED
  BY <1>7, <1>9 DEF StreamParts

LEMMA PollKeepsStream ==
  ASSUME Parts, Parts', StreamParts, PollAndApply
  PROVE  StreamParts'
<1>1. /\ outbound # <<>> /\ outbound' = Tail(outbound)
      /\ UNCHANGED <<order, prices, levels, index, pool, inbound, nextId, cancels>>
      /\ UNCHANGED <<pc, localSeq, tradeSeq, subject, trades, verdict>>
  BY DEF PollAndApply, PollEvent, bookVars, engVars, envVars
<1>2. Now' = After(Now, Head(outbound))
  <2>1. PICK c : c = After(Now, Head(outbound))
    OBVIOUS
  <2>2. /\ replica' = c.replica /\ executed' = c.executed
        /\ lastSeq' = c.lastSeq /\ lastTrade' = c.lastTrade /\ closed' = c.closed
    BY <2>1 DEF PollAndApply
  <2>3. c = [replica |-> c.replica, executed |-> c.executed, lastSeq |-> c.lastSeq,
             lastTrade |-> c.lastTrade, closed |-> c.closed]
    BY <2>1 DEF After
  <2> QED
    BY <2>1, <2>2, <2>3 DEF Now
<1>3. outbound \in Seq(Event)
  BY OutboundTyped
<1>4. PICK n : n = Len(outbound)
  OBVIOUS
<1>5. /\ n \in Nat \ {0} /\ Len(outbound') = n - 1
      /\ \A k \in 0 .. n - 1 : Seen'[k] = Seen[k + 1]
      /\ \A k \in 1 .. n - 1 : outbound'[k] = outbound[k + 1]
  BY <1>1, <1>2, <1>3, <1>4, SeenPolled
<1>6. PICK c : c = Caught
  OBVIOUS
<1>7. c = Seen'[Len(outbound')]
  <2>1. n - 1 \in 0 .. n - 1 /\ (n - 1) + 1 = n
    BY <1>5
  <2> QED
    BY <1>4, <1>5, <1>6, <2>1 DEF Caught
<1>8. Quiet
  BY <1>1, UntouchedIsQuiet
<1>9. Numbered(Caught)' /\ Mirrored(Caught)' /\ Settled(Caught)'
  BY <1>6, <1>7, <1>8, QuietCaught
<1>10. Covered'
  BY <1>1, CoveredByRest DEF StreamParts
<1>11. Orderly'
  <2>1. ASSUME NEW k \in 1 .. n - 1
        PROVE  InSequence(Seen'[k - 1], outbound'[k]) /\ Balanced(Seen'[k - 1], outbound'[k])
    <3>1. k + 1 \in 1 .. n /\ k - 1 \in 0 .. n - 1 /\ (k - 1) + 1 = k /\ (k + 1) - 1 = k
      BY <1>5
    <3>2. InSequence(Seen[k], outbound[k + 1]) /\ Balanced(Seen[k], outbound[k + 1])
      <4>1. PICK j : j = k + 1
        OBVIOUS
      <4>2. InSequence(Seen[j - 1], outbound[j]) /\ Balanced(Seen[j - 1], outbound[j])
        BY <1>4, <3>1, <4>1 DEF StreamParts, Orderly
      <4> QED
        BY <3>1, <4>1, <4>2
    <3>3. Seen'[k - 1] = Seen[k] /\ outbound'[k] = outbound[k + 1]
      BY <1>5, <3>1
    <3> QED
      BY <3>2, <3>3
  <2> QED
    BY <1>5, <2>1 DEF Orderly
<1> QED
  BY <1>9, <1>10, <1>11 DEF StreamParts

LEMMA StreamInitHolds ==
  ASSUME StreamInit
  PROVE  Told
<1>1. IInv
  BY InitHolds DEF StreamInit
<1>2. /\ order = [o \in Objs |-> ZeroOrder] /\ index = [i \in OrderIds |-> NoLoc]
      /\ pool = [o \in Objs |-> 1] /\ nextId = 0
      /\ outbound = <<>> /\ pc = "idle" /\ localSeq = 0 /\ tradeSeq = 0 /\ trades = <<>>
      /\ replica = [i \in OrderIds |-> NotResting] /\ executed = [i \in OrderIds |-> 0]
      /\ lastSeq = 0 /\ lastTrade = 0 /\ closed = TRUE
  BY DEF StreamInit, Init, BookInit
<1>3. Len(outbound) = 0
  BY <1>2
<1>4. PICK c : c = Caught
  OBVIOUS
<1>5. c = Now
  <2>1. Len(outbound) \in Nat
    BY <1>3
  <2>2. Follows(Seen, Now, outbound, Len(outbound))
    BY <2>1, SeenTrace, TraceMeans
  <2> QED
    BY <1>3, <1>4, <2>2 DEF Caught, Follows
<1>6. /\ c.replica = [i \in OrderIds |-> NotResting] /\ c.executed = [i \in OrderIds |-> 0]
      /\ c.lastSeq = 0 /\ c.lastTrade = 0 /\ c.closed = TRUE
  BY <1>2, <1>5 DEF Now
<1>7. Makers = {} /\ Resting = {}
  BY <1>2, NoLags DEF Resting
<1>8. Covered
  BY <1>2, <1>7 DEF Covered
<1>9. Orderly
  BY <1>3 DEF Orderly
<1>10. Numbered(c)
  <2>1. c.closed
    BY <1>6
  <2> QED
    BY <1>2, <1>6, <2>1 DEF Numbered
<1>11. Mirrored(c)
  BY <1>6, <1>7 DEF Mirrored, Shown
<1>12. Settled(c)
  BY <1>2, <1>6 DEF Settled
<1>13. StreamParts
  <2>1. Numbered(Caught) /\ Mirrored(Caught) /\ Settled(Caught)
    BY <1>4, <1>10, <1>11, <1>12
  <2> QED
    BY <1>8, <1>9, <2>1 DEF StreamParts
<1> QED
  BY <1>1, <1>13 DEF Told

LEMMA SubmitKeepsStream ==
  ASSUME Parts, Parts', StreamParts, Submit, UNCHANGED consumerVars
  PROVE  StreamParts'
<1>1. Covered
  BY DEF StreamParts
<1>2. CASE \E n \in Objs, side \in Sides, type \in OrderTypes, price \in Prices, qty \in Qtys :
             SubmitOrder(n, side, type, IF type = "Market" THEN 0 ELSE price, qty)
  <2>1. PICK n \in Objs, side \in Sides, type \in OrderTypes, price \in Prices, qty \in Qtys :
          SubmitOrder(n, side, type, IF type = "Market" THEN 0 ELSE price, qty)
    BY <1>2
  <2> DEFINE limit == IF type = "Market" THEN 0 ELSE price
  <2>2. limit \in Prices \cup {0} /\ (type # "Market" => limit \in Prices)
    OBVIOUS
  <2>3. SubmitOrder(n, side, type, limit, qty)
    BY <2>1
  <2> HIDE DEF limit
  <2>4. Quiet
    BY <2>2, <2>3, SubmitOrderIsQuiet
  <2>5. PICK r \in OrderRecord, c \in Command : Submits(n, r, c)
    BY <2>2, <2>3, SubmitOrderMeans
  <2>6. /\ UNCHANGED <<trades, pc, subject, verdict, prices, levels, outbound>>
        /\ pool[n] = 1 /\ \A x \in Objs : x # n => order'[x] = order[x]
    BY <2>5 DEF Submits
  <2>7. Covered'
    <3>1. \A o \in Objs : pool[o] = 0 => order'[o] = order[o]
      BY <2>6
    <3> QED
      BY <1>1, <2>6, <3>1, CoveredByRest
  <2> QED
    BY <2>4, <2>6, <2>7, QuietKeeps
<1>3. CASE \E id \in OrderIds : SubmitCancel(id)
  <2>1. UNCHANGED <<order, prices, levels, index, pool, outbound, nextId,
                    pc, localSeq, tradeSeq, subject, trades, verdict>>
    BY <1>3 DEF SubmitCancel, bookVars, engVars
  <2>2. Quiet
    BY <2>1, UntouchedIsQuiet
  <2>3. Covered'
    BY <1>1, <2>1, CoveredByRest
  <2> QED
    BY <2>1, <2>2, <2>3, QuietKeeps
<1> QED
  BY <1>2, <1>3 DEF Submit

LEMMA EngineKeepsStream ==
  ASSUME Parts, Parts', StreamParts, EngineStep, UNCHANGED consumerVars
  PROVE  StreamParts'
<1>1. Covered
  BY DEF StreamParts
<1>2. CASE ProcessNew
  <2>1. PICK n \in Objs : Takes(n)
    BY <1>2, ProcessNewMeans
  <2>2. trades' = <<>> /\ pc' = "new" /\ verdict' = "none" /\ outbound' = outbound
    BY <2>1 DEF Takes
  <2> QED
    BY <1>2, <2>2, NothingToCover, ProcessNewIsQuiet, QuietKeeps
<1>3. CASE ProcessCancel
  <2>1. TakesCancel /\ (NoneFound \/ \E x \in Objs : Withdraws(x))
    BY <1>3, ProcessCancelMeans
  <2>2. trades' = <<>> /\ pc' = "report" /\ outbound' = outbound
    BY <2>1 DEF TakesCancel
  <2>3. verdict' # "Filled"
    BY <2>1 DEF NoneFound, Withdraws
  <2> QED
    BY <1>3, <2>2, <2>3, NothingToCover, ProcessCancelIsQuiet, QuietKeeps
<1>4. CASE HandlerStep
  <2>1. outbound' = outbound
    BY <1>4, HandlerSteps DEF SubjectOnly
  <2> QED
    BY <1>1, <1>4, <2>1, HandlerStepCovers, HandlerStepIsQuiet, QuietKeeps
<1>5. CASE RestPostOnly \/ RestRemainder
  <2>1. Rest
    BY <1>5, RestSteps
  <2>2. Rests /\ trades = <<>>
    BY <2>1, RestMeans DEF Rest
  <2>3. trades' = <<>> /\ pc' = "report" /\ verdict' = "Accepted" /\ outbound' = outbound
    BY <2>2 DEF Rests
  <2> QED
    BY <2>1, <2>3, NothingToCover, RestIsQuiet, QuietKeeps
<1>6. CASE FillMaker
  <2>1. outbound' = outbound
    BY <1>6 DEF FillMaker
  <2> QED
    BY <1>1, <1>6, <2>1, FillMakerCovers, FillMakerIsQuiet, QuietKeeps
<1>7. CASE LeaveLevel
  <2>1. /\ UNCHANGED <<order, index, pool, nextId, tradeSeq, localSeq, subject, trades, verdict>>
        /\ outbound' = outbound /\ pc = "fill" /\ pc' = "match"
    BY <1>7 DEF LeaveLevel, PruneBest, envVars
  <2>2. Quiet
    BY <2>1, UntouchedIsQuiet
  <2> QED
    BY <1>1, <1>7, <2>1, <2>2, LeaveLevelCovers, QuietKeeps
<1>8. PICK c : c = Caught
  OBVIOUS
<1>9. /\ Numbered(c) /\ Mirrored(c) /\ Settled(c)
      /\ MakersDone /\ FilledDone
  <2>1. Numbered(Caught) /\ Mirrored(Caught) /\ Settled(Caught)
    BY DEF StreamParts
  <2> QED
    BY <1>1, <1>8, <2>1, CoveredMeans
<1>10. CASE EmitTrade
  <2>1. PICK e \in Event : \E d : Reports(c, e, d)
    BY <1>9, <1>10, EmitTradeReports
  <2>2. PICK d : Reports(c, e, d)
    BY <2>1
  <2> QED
    BY <1>1, <1>8, <1>10, <2>2, EmitTradeCovers, PublishedKeeps
<1>11. CASE Report
  <2>1. PICK e \in Event : \E d : Reports(c, e, d)
    BY <1>9, <1>11, ReportReports
  <2>2. PICK d : Reports(c, e, d)
    BY <2>1
  <2>3. Answers
    BY <1>11, ReportMeans
  <2>4. trades' = <<>> /\ pc' = "idle" /\ verdict' = "none"
    BY <2>3 DEF Answers
  <2> QED
    BY <1>8, <2>2, <2>4, NothingToCover, PublishedKeeps
<1> QED
  BY <1>2, <1>3, <1>4, <1>5, <1>6, <1>7, <1>10, <1>11 DEF EngineStep, HandlerStep

LEMMA StreamStepKeeps ==
  ASSUME Told, [StreamNext]_streamVars
  PROVE  Told'
<1>1. IInv /\ StreamParts
  BY DEF Told
<1>2. IInv'
  BY <1>1, StepKeeps DEF StreamNext, streamVars, PollAndApply, Next
<1>3. Parts /\ Parts'
  BY <1>1, <1>2, PartsMean, PartsMeanNext
<1> SUFFICES StreamParts'
  BY <1>2 DEF Told
<1>4. CASE PollAndApply
  BY <1>1, <1>3, <1>4, PollKeepsStream
<1>5. CASE Submit /\ UNCHANGED consumerVars
  BY <1>1, <1>3, <1>5, SubmitKeepsStream
<1>6. CASE EngineStep /\ UNCHANGED consumerVars
  BY <1>1, <1>3, <1>6, EngineKeepsStream
<1>7. CASE UNCHANGED <<vars, consumerVars>>
  <2>1. /\ UNCHANGED <<order, prices, levels, index, pool, nextId, outbound>>
        /\ UNCHANGED <<pc, localSeq, tradeSeq, subject, trades, verdict>>
        /\ UNCHANGED consumerVars
    BY <1>7 DEF vars, bookVars, engVars, envVars
  <2>2. Quiet
    BY <2>1, UntouchedIsQuiet
  <2>3. Covered'
    BY <1>1, <1>3, <2>1, CoveredByRest DEF StreamParts
  <2> QED
    BY <1>1, <1>3, <2>1, <2>2, <2>3, QuietKeeps
<1> QED
  BY <1>4, <1>5, <1>6, <1>7 DEF StreamNext, streamVars, PollNothing

LEMMA ToldAlways == StreamSpec => []Told
<1>1. StreamInit => Told
  BY StreamInitHolds
<1>2. Told /\ [StreamNext]_streamVars => Told'
  BY StreamStepKeeps
<1> QED
  BY <1>1, <1>2, PTL DEF StreamSpec

(* What the consumer will know when it has polled all that is in the ring  *)
(* is in step with the engine: with its numbering, with its book but for   *)
(* the trades and the order event to come, and with what every order has   *)
(* traded.  Emitting, reporting, recycling and polling all keep it so.     *)
THEOREM StreamTold == StreamSpec => []StreamInv
<1>1. Told /\ MatchInv => StreamInv
  BY DEF Told, StreamParts, StreamInv, Caught, Orderly
<1> QED
  BY ToldAlways, StreamMatchInvariance, <1>1, PTL

LEMMA NextEvent ==
  ASSUME Told, outbound # <<>>
  PROVE  InSequence(Now, Head(outbound)) /\ Balanced(Now, Head(outbound))
<1>1. Parts /\ Orderly
  BY PartsMean DEF Told, StreamParts
<1>2. outbound \in Seq(Event) /\ Len(outbound) \in Nat
  BY <1>1, OutboundTyped
<1>3. Head(outbound) = outbound[1] /\ 1 \in 1 .. Len(outbound)
  BY <1>2, EmptySeq
<1>4. Seen[0] = Now
  BY <1>2, SeenTrace, TraceMeans DEF Follows
<1> QED
  <2>1. 1 - 1 = 0
    OBVIOUS
  <2>2. InSequence(Seen[1 - 1], outbound[1]) /\ Balanced(Seen[1 - 1], outbound[1])
    BY <1>1, <1>3 DEF Orderly
  <2> QED
    BY <1>3, <1>4, <2>1, <2>2

(* process numbers every command and emitTrades every trade, and neither   *)
(* skips a number: the event a consumer polls is of the command it is      *)
(* hearing of, or of the next one when it has heard how that one ended.    *)
THEOREM StreamIsGapless == StreamSpec => StreamGapless
<1>1. Told /\ [StreamNext]_streamVars =>
        [outbound # <<>> /\ PollAndApply => InSequence(Now, Head(outbound))]_streamVars
  BY NextEvent
<1> QED
  BY ToldAlways, <1>1, PTL DEF StreamSpec, StreamGapless

(* What an accepted, filled or cancelled order is said to have traded is   *)
(* what the trade events that were published for it add up to, and a       *)
(* filled order, of type FOK too, has nothing left.                        *)
THEOREM LedgerIsBalanced == StreamSpec => LedgerBalances
<1>1. Told /\ [StreamNext]_streamVars =>
        [outbound # <<>> /\ PollAndApply => Balanced(Now, Head(outbound))]_streamVars
  BY NextEvent
<1> QED
  BY ToldAlways, <1>1, PTL DEF StreamSpec, LedgerBalances

(* A consumer that has polled the last event of the last command has the   *)
(* engine's book, order by order: side, price and what is left.            *)
THEOREM ReplicaIsTheBook == StreamSpec => []ReplicaAgrees
<1>1. Told => ReplicaAgrees
  <2> SUFFICES ASSUME Told, pc = "idle", outbound = <<>> PROVE replica = BookView
    BY DEF ReplicaAgrees
  <2>1. Parts /\ Mirrored(Caught)
    BY PartsMean DEF Told, StreamParts
  <2>2. PICK c : c = Caught
    OBVIOUS
  <2>3. c.replica = replica /\ Mirrored(c)
    <3>1. Len(outbound) = 0 /\ Len(outbound) \in Nat
      OBVIOUS
    <3>2. Seen[0] = Now
      BY <3>1, SeenTrace, TraceMeans DEF Follows
    <3> QED
      BY <2>1, <2>2, <3>1, <3>2 DEF Caught, Now
  <2>4. Makers = {} /\ \A o : Lag(o) = 0
    BY <2>1, NoLags DEF Parts, Handler
  <2>5. \A o \in Objs : (Shown(o) <=> o \in Resting) /\ ~ Closing(o)
    BY <2>4 DEF Shown, Closing
  <2>6. replica = [i \in OrderIds |-> replica[i]]
    BY <2>3 DEF Mirrored
  <2>7. BookTypeOK /\ IndexExact
    BY <2>1 DEF Parts, Book
  <2>8. ASSUME NEW i \in OrderIds
        PROVE  replica[i] = IF index[i] = NoLoc THEN NotResting
                            ELSE LET r == order[index[i].obj]
                                 IN [side |-> r.side, price |-> r.price, rem |-> r.rem]
    <3>1. CASE index[i] = NoLoc
      <4>1. ASSUME NEW o \in Objs, Shown(o) \/ Closing(o) PROVE order[o].id # i
        <5>1. o \in Resting
          BY <2>5, <4>1
        <5>2. index[order[o].id] # NoLoc
          BY <2>7, <5>1, RestingAt
        <5> QED
          BY <3>1, <5>2
      <4>2. c.replica[i] = NotResting
        BY <2>3, <4>1 DEF Mirrored
      <4> QED
        BY <2>3, <3>1, <4>2
    <3>2. CASE index[i] # NoLoc
      <4>1. PICK o : o = index[i].obj
        OBVIOUS
      <4>2. o \in Resting /\ order[o].id = i
        BY <2>7, <3>2, <4>1, Indexed
      <4>3. o \in Objs
        BY <2>7, <4>2, RestingAt
      <4>4. order[o].rem \in Nat
        BY <2>1, <4>3, HeldObjects
      <4>5. c.replica[order[o].id] = [side |-> order[o].side, price |-> order[o].price,
                                      rem |-> order[o].rem + Lag(o)]
        BY <2>3, <2>5, <4>2, <4>3 DEF Mirrored
      <4>6. order[o].rem + Lag(o) = order[o].rem
        BY <2>4, <4>4
      <4> QED
        BY <2>3, <3>2, <4>1, <4>2, <4>5, <4>6
    <3> QED
      BY <3>1, <3>2
  <2> QED
    BY <2>6, <2>8 DEF BookView
<1> QED
  BY ToldAlways, <1>1, PTL

-----------------------------------------------------------------------------
(* The abstract matching, which the engine implements, on its own: for any *)
(* set of resting orders and any order in hand.                            *)

VARIABLES rest, taker

M == INSTANCE Matching WITH Nobody <- NoObj

TypedOrders == (\A o \in rest : Offer(o)) /\ (taker # NoObj => Offer(taker))

(***************************************************************************)
(* The trades of a handler remove and shorten resting orders, cancels      *)
(* remove them, and an order rests only when its limit meets nobody's.     *)
(***************************************************************************)
THEOREM BookStaysUncrossed == M!MatchingSpec => []M!NobodyMissesATrade
<1> DEFINE Inv == TypedOrders /\ M!NobodyMissesATrade
<1>1. M!MatchingInit => Inv
  BY DEF M!MatchingInit, TypedOrders, M!NobodyMissesATrade
<1>2. Inv /\ [M!MatchingNext]_M!matchingVars => Inv'
  <2> SUFFICES ASSUME Inv, [M!MatchingNext]_M!matchingVars PROVE Inv'
    OBVIOUS
  <2>1. CASE M!Arrive
    BY <2>1, BookAssumption DEF M!Arrive, M!Orders, TypedOrders, M!NobodyMissesATrade, Offer
  <2>2. CASE M!Trade
    <3>1. PICK m \in M!OtherSide(taker) :
            LET q == M!Min({taker.rem, m.rem})
            IN /\ taker' = [taker EXCEPT !.rem = @ - q]
               /\ rest' = (rest \ {m}) \cup {r \in {[m EXCEPT !.rem = @ - q]} : r.rem > 0}
      BY <2>2 DEF M!Trade
    <3> DEFINE q == M!Min({taker.rem, m.rem})
               left == [m EXCEPT !.rem = m.rem - q]
    <3>2. m \in rest /\ taker # NoObj
      BY <2>2 DEF M!Trade, M!OtherSide
    <3>3. taker' = [taker EXCEPT !.rem = taker.rem - q] /\ rest' \subseteq rest \cup {left}
      BY <3>1
    <3> HIDE DEF q
    <3>4. Offer(left) /\ left.side = m.side /\ left.price = m.price
      BY <3>2 DEF TypedOrders, Offer
    <3>5. Offer(taker')
      BY <3>2, <3>3 DEF TypedOrders, Offer
    <3>6. \A o \in rest' : Offer(o) /\ \E r \in rest : o.side = r.side /\ o.price = r.price
      BY <3>2, <3>3, <3>4 DEF TypedOrders
    <3> QED
      BY <3>5, <3>6 DEF TypedOrders, M!NobodyMissesATrade, Offer
  <2>3. CASE M!Rest
    BY <2>3 DEF M!Rest, M!OtherSide, M!Crosses, M!Beats, TypedOrders, M!NobodyMissesATrade, Offer
  <2>4. CASE M!Leave
    BY <2>4 DEF M!Leave, TypedOrders, M!NobodyMissesATrade, Offer
  <2>5. CASE M!Cancel
    BY <2>5 DEF M!Cancel, TypedOrders, M!NobodyMissesATrade, Offer
  <2>6. CASE UNCHANGED M!matchingVars
    BY <2>6 DEF M!matchingVars, TypedOrders, M!NobodyMissesATrade, Offer
  <2> QED
    BY <2>1, <2>2, <2>3, <2>4, <2>5, <2>6 DEF M!MatchingNext
<1> QED
  BY <1>1, <1>2, PTL DEF M!MatchingSpec
=============================================================================
