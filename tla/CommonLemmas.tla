---------------------------- MODULE CommonLemmas ----------------------------
(***************************************************************************)
(* What several proofs need: of ring buffers, the sequence numbers that    *)
(* share a slot and the window of a history that is between the tail and   *)
(* the head; and of counters, sums written as sizes of finite sets.        *)
(***************************************************************************)
EXTENDS Integers, Sequences, FiniteSets, SequenceTheorems, FiniteSetTheorems, TLAPS

(* A sequence number is its lap and its slot.                              *)
LEMMA LapAndSlot ==
  ASSUME NEW c \in Nat \ {0}, NEW s \in Nat
  PROVE s % c \in 0 .. c - 1 /\ s \div c \in Nat /\ s = c * (s \div c) + (s % c)
  OBVIOUS

(* Two sequence numbers less than a lap apart have different slots.        *)
LEMMA OneSlotPerLap ==
  ASSUME NEW c \in Nat \ {0}, NEW s \in Nat, NEW t \in Nat,
         s % c = t % c, s <= t, t < s + c
  PROVE s = t
  <1> DEFINE d == (t \div c) - (s \div c)
  <1>1. t \div c \in Nat /\ s \div c \in Nat
    OBVIOUS
  <1>2. t - s = c * d /\ d \in Int
    <2> DEFINE x == t \div c  y == s \div c  r == s % c
    <2>1. t = c * x + (t % c)
      OBVIOUS
    <2>2. s = c * y + r /\ r \in Nat
      OBVIOUS
    <2>3. t = c * x + r
      BY <2>1
    <2>4. d = x - y /\ x \in Nat /\ y \in Nat
      BY <1>1
    <2> HIDE DEF x, y, r, d
    <2> QED BY <2>2, <2>3, <2>4
  <1> HIDE DEF d
  <1>3. d > 0 => c * d >= c
    BY <1>2
  <1>4. d < 0 => c * d < 0
    BY <1>2
  <1>5. d = 0 => c * d = 0
    BY <1>2
  <1> QED BY <1>2, <1>3, <1>4, <1>5
-----------------------------------------------------------------------------
(* What is between a tail t and a head n, when everything that ever entered *)
(* is the sequence s.                                                      *)

(* An element that enters goes to the end of the window.                   *)
LEMMA WindowGrows ==
  ASSUME NEW S, NEW s \in Seq(S), NEW x \in S, NEW t \in Nat, NEW n \in Nat,
         Len(s) = n, t <= n
  PROVE /\ Len(SubSeq(s, t + 1, n)) = n - t
        /\ SubSeq(Append(s, x), t + 1, n + 1) = Append(SubSeq(s, t + 1, n), x)
  <1> DEFINE u == Append(s, x)
             q == SubSeq(s, t + 1, n)
             r == SubSeq(u, t + 1, n + 1)
             a == Append(q, x)
  <1>1. /\ u \in Seq(S) /\ Len(u) = n + 1
        /\ \A i \in 1 .. n : u[i] = s[i]
        /\ u[n + 1] = x
    BY AppendProperties
  <1>2. q \in Seq(S) /\ Len(q) = n - t /\ \A i \in 1 .. n - t : q[i] = s[t + i]
    BY SubSeqProperties
  <1> HIDE DEF u, q
  <1>3. r \in Seq(S) /\ Len(r) = n - t + 1 /\ \A i \in 1 .. n - t + 1 : r[i] = u[t + i]
    BY <1>1, SubSeqProperties
  <1>4. /\ a \in Seq(S) /\ Len(a) = n - t + 1
        /\ \A i \in 1 .. n - t : a[i] = q[i]
        /\ a[n - t + 1] = x
    BY <1>2, AppendProperties
  <1> HIDE DEF r, a
  <1>5. ASSUME NEW i \in 1 .. Len(r) PROVE r[i] = a[i]
    <2>1. i \in 1 .. n - t + 1
      BY <1>3
    <2>2. CASE i <= n - t
      <3>1. i \in 1 .. n - t /\ t + i \in 1 .. n
        BY <2>1, <2>2
      <3> QED BY <1>1, <1>2, <1>3, <1>4, <2>1, <3>1
    <2>3. CASE i = n - t + 1
      BY <1>1, <1>3, <1>4, <2>1, <2>3
    <2> QED BY <2>1, <2>2, <2>3
  <1>6. r = a
    BY <1>3, <1>4, <1>5, SeqEqual
  <1> QED BY <1>2, <1>6 DEF u, q, r, a

(* When the tail advances, the window loses its first element.             *)
LEMMA WindowShrinks ==
  ASSUME NEW S, NEW s \in Seq(S), NEW t \in Nat, NEW n \in Nat,
         Len(s) = n, t < n
  PROVE /\ SubSeq(s, t + 1, n) # <<>>
        /\ Head(SubSeq(s, t + 1, n)) = s[t + 1]
        /\ Tail(SubSeq(s, t + 1, n)) = SubSeq(s, t + 1 + 1, n)
  <1>1. t + 1 \in 1 .. Len(s) /\ n \in t + 1 .. Len(s)
    OBVIOUS
  <1>2. Len(SubSeq(s, t + 1, n)) = n - t
    BY SubSeqProperties
  <1>3. SubSeq(s, t + 1, n) # <<>>
    BY <1>2
  <1> QED BY <1>1, <1>3, HeadTailOfSubSeq

(* What agrees with the beginning of s is the beginning of s.              *)
LEMMA Beginning ==
  ASSUME NEW S, NEW s \in Seq(S), NEW p \in Seq(S), NEW t \in Nat,
         Len(p) = t, t <= Len(s), \A i \in 1 .. t : p[i] = s[i]
  PROVE p = SubSeq(s, 1, t)
  <1> DEFINE b == SubSeq(s, 1, t)
  <1>1. b \in Seq(S) /\ Len(b) = t /\ \A i \in 1 .. t : b[i] = s[i]
    BY SubSeqProperties
  <1> HIDE DEF b
  <1>2. p = b
    BY <1>1, SeqEqual
  <1> QED BY <1>2 DEF b
-----------------------------------------------------------------------------
(* Sums.  Units(S, r) is a set with r[o] elements for every o in S.        *)

Units(S, r) == UNION {{o} \X (1 .. r[o]) : o \in S}

LEMMA UnitsOfOne ==
  ASSUME NEW o, NEW n \in Nat
  PROVE  IsFiniteSet({o} \X (1 .. n)) /\ Cardinality({o} \X (1 .. n)) = n
<1>1. IsFiniteSet({o}) /\ Cardinality({o}) = 1
  BY FS_Singleton
<1>2. IsFiniteSet(1 .. n) /\ Cardinality(1 .. n) = n
  BY FS_Interval
<1>3. /\ IsFiniteSet({o} \X (1 .. n))
      /\ Cardinality({o} \X (1 .. n)) = Cardinality({o}) * Cardinality(1 .. n)
  BY <1>1, <1>2, FS_Product
<1> QED
  BY <1>1, <1>2, <1>3

LEMMA UnitsFinite ==
  ASSUME NEW S, IsFiniteSet(S), NEW r, \A o \in S : r[o] \in Nat
  PROVE  IsFiniteSet(Units(S, r)) /\ Cardinality(Units(S, r)) \in Nat
<1> DEFINE Parts == {{o} \X (1 .. r[o]) : o \in S}
           f == [o \in S |-> {o} \X (1 .. r[o])]
<1>1. f \in Surjection(S, Parts)
  BY DEF Surjection
<1>2. IsFiniteSet(Parts)
  BY <1>1, FS_Surjection
<1>3. \A T \in Parts : IsFiniteSet(T)
  <2>1. ASSUME NEW o \in S PROVE IsFiniteSet({o} \X (1 .. r[o]))
    BY UnitsOfOne
  <2> QED
    BY <2>1
<1>4. IsFiniteSet(UNION Parts)
  BY <1>2, <1>3, FS_UNION
<1> QED
  BY <1>4, FS_CardinalityType DEF Units

(* What leaves takes its units along.                                      *)
LEMMA UnitsWithout ==
  ASSUME NEW S, IsFiniteSet(S), NEW r, \A o \in S : r[o] \in Nat, NEW o \in S
  PROVE  Cardinality(Units(S \ {o}, r)) = Cardinality(Units(S, r)) - r[o]
<1> DEFINE Mine == {o} \X (1 .. r[o])
           Theirs == Units(S \ {o}, r)
<1>1. IsFiniteSet(S \ {o})
  BY FS_Difference
<1>2. IsFiniteSet(Theirs) /\ Cardinality(Theirs) \in Nat
  BY <1>1, UnitsFinite
<1>3. IsFiniteSet(Mine) /\ Cardinality(Mine) = r[o]
  BY UnitsOfOne
<1>4. Units(S, r) = Theirs \cup Mine
  BY DEF Units
<1>5. Theirs \cap Mine = {}
  BY DEF Units
<1>6. Cardinality({}) = 0 /\ r[o] \in Nat
  BY FS_EmptySet
<1> HIDE DEF Mine, Theirs
<1>7. Cardinality(Theirs \cup Mine)
        = Cardinality(Theirs) + Cardinality(Mine) - Cardinality(Theirs \cap Mine)
  BY <1>2, <1>3, FS_Union
<1>8. Cardinality(Theirs \cup Mine) = Cardinality(Theirs) + r[o]
  <2>1. Cardinality(Theirs \cap Mine) = 0
    BY <1>5, <1>6
  <2> QED
    BY <1>2, <1>3, <1>6, <1>7, <2>1
<1>9. Cardinality(Units(S, r)) = Cardinality(Theirs) + r[o]
  BY <1>4, <1>8
<1> QED
  BY <1>2, <1>6, <1>9 DEF Theirs

(* Of what shrinks by q there are q units less.                            *)
LEMMA UnitsTraded ==
  ASSUME NEW S, IsFiniteSet(S), NEW r, \A o \in S : r[o] \in Nat, NEW o \in S,
         NEW q \in 0 .. r[o], NEW r2, r2[o] = r[o] - q, \A m \in S : m # o => r2[m] = r[m]
  PROVE  Cardinality(Units(S, r2)) = Cardinality(Units(S, r)) - q
<1>1. Units(S \ {o}, r2) = Units(S \ {o}, r)
  BY DEF Units
<1>2. \A m \in S : r2[m] \in Nat
  OBVIOUS
<1>3. Cardinality(Units(S \ {o}, r)) = Cardinality(Units(S, r)) - r[o]
  BY UnitsWithout
<1>4. Cardinality(Units(S \ {o}, r2)) = Cardinality(Units(S, r2)) - r2[o]
  BY <1>2, UnitsWithout
<1>5. Cardinality(Units(S, r)) \in Nat /\ Cardinality(Units(S, r2)) \in Nat
  BY <1>2, UnitsFinite
<1> QED
  BY <1>1, <1>3, <1>4, <1>5

(* Of what grows by one there is one unit more.                            *)
LEMMA UnitsRaised ==
  ASSUME NEW S, IsFiniteSet(S), NEW r, \A o \in S : r[o] \in Nat, NEW o \in S,
         NEW r2, r2[o] = r[o] + 1, \A m \in S : m # o => r2[m] = r[m]
  PROVE  Cardinality(Units(S, r2)) = Cardinality(Units(S, r)) + 1
<1>1. Units(S \ {o}, r2) = Units(S \ {o}, r)
  BY DEF Units
<1>2. \A m \in S : r2[m] \in Nat
  OBVIOUS
<1>3. Cardinality(Units(S \ {o}, r)) = Cardinality(Units(S, r)) - r[o]
  BY UnitsWithout
<1>4. Cardinality(Units(S \ {o}, r2)) = Cardinality(Units(S, r2)) - r2[o]
  BY <1>2, UnitsWithout
<1>5. Cardinality(Units(S, r)) \in Nat /\ Cardinality(Units(S, r2)) \in Nat
  BY <1>2, UnitsFinite
<1> QED
  BY <1>1, <1>3, <1>4, <1>5

LEMMA UnitsSame ==
  ASSUME NEW S, NEW r, NEW r2, \A o \in S : r[o] = r2[o]
  PROVE  Units(S, r) = Units(S, r2)
  BY DEF Units

LEMMA UnitsOfNone ==
  ASSUME NEW r
  PROVE  Cardinality(Units({}, r)) = 0
<1>1. Units({}, r) = {}
  BY DEF Units
<1> QED
  BY <1>1, FS_EmptySet

(* What comes brings its units along.                                      *)
LEMMA UnitsWith ==
  ASSUME NEW S, IsFiniteSet(S), NEW o, o \notin S, NEW r, \A m \in S \cup {o} : r[m] \in Nat
  PROVE  Cardinality(Units(S \cup {o}, r)) = Cardinality(Units(S, r)) + r[o]
<1>1. IsFiniteSet(S \cup {o}) /\ (S \cup {o}) \ {o} = S
  BY FS_AddElement
<1>2. Cardinality(Units((S \cup {o}) \ {o}, r)) = Cardinality(Units(S \cup {o}, r)) - r[o]
  BY <1>1, UnitsWithout
<1>3. Cardinality(Units(S \cup {o}, r)) \in Nat /\ r[o] \in Nat
  BY <1>1, UnitsFinite
<1> QED
  BY <1>1, <1>2, <1>3

(* Sums over sets that have nothing in common.                             *)
LEMMA Together ==
  ASSUME NEW S, IsFiniteSet(S), NEW T, IsFiniteSet(T), S \cap T = {}
  PROVE  IsFiniteSet(S \cup T) /\ Cardinality(S \cup T) = Cardinality(S) + Cardinality(T)
<1>1. Cardinality(S) \in Nat /\ Cardinality(T) \in Nat /\ Cardinality({}) = 0
  BY FS_CardinalityType, FS_EmptySet
<1>2. /\ IsFiniteSet(S \cup T)
      /\ Cardinality(S \cup T) = Cardinality(S) + Cardinality(T) - Cardinality(S \cap T)
  BY FS_Union
<1>3. Cardinality(S \cap T) = 0
  BY <1>1
<1> QED
  BY <1>1, <1>2, <1>3

LEMMA UnitsTogether ==
  ASSUME NEW S, IsFiniteSet(S), NEW T, IsFiniteSet(T), S \cap T = {},
         NEW r, \A o \in S \cup T : r[o] \in Nat
  PROVE  Cardinality(Units(S \cup T, r)) = Cardinality(Units(S, r)) + Cardinality(Units(T, r))
<1>1. IsFiniteSet(Units(S, r)) /\ IsFiniteSet(Units(T, r))
  BY UnitsFinite
<1>2. Units(S \cup T, r) = Units(S, r) \cup Units(T, r) /\ Units(S, r) \cap Units(T, r) = {}
  BY DEF Units
<1> QED
  BY <1>1, <1>2, Together

(* Who has more units.                                                     *)
LEMMA UnitsGrow ==
  ASSUME NEW S, IsFiniteSet(S), NEW r, NEW r2,
         \A o \in S : r[o] \in Nat /\ r2[o] \in Nat /\ r[o] <= r2[o]
  PROVE  Cardinality(Units(S, r)) <= Cardinality(Units(S, r2))
<1>1. \A o \in S : 1 .. r[o] \subseteq 1 .. r2[o]
  OBVIOUS
<1>2. Units(S, r) \in SUBSET Units(S, r2)
  BY <1>1 DEF Units
<1>3. IsFiniteSet(Units(S, r2))
  BY UnitsFinite
<1> QED
  BY <1>2, <1>3, FS_Subset

(* A sum over an interval, term by term.                                   *)
LEMMA UnitsUpTo ==
  ASSUME NEW b \in Nat, NEW r, \A i \in 0 .. b : r[i] \in Nat
  PROVE  Cardinality(Units(0 .. b, r)) = Cardinality(Units(0 .. b - 1, r)) + r[b]
<1>1. 0 .. b = (0 .. b - 1) \cup {b} /\ b \notin 0 .. b - 1
  OBVIOUS
<1>2. IsFiniteSet(0 .. b - 1)
  BY FS_Interval
<1> QED
  BY <1>1, <1>2, UnitsWith
=============================================================================
