---------------------------- MODULE StressProofs ----------------------------
(***************************************************************************)
(* Proofs about cmd/stress: the counts that the driver reports, for any    *)
(* makers, takers, depths and sizes of the rings, and the latency          *)
(* histogram, for any goroutines, histograms and samples.                  *)
(***************************************************************************)
EXTENDS Histogram, Stress, CommonLemmas

(* The driver.                                                             *)

(* Events of some kinds in a sequence of them.                             *)

Number(kinds, s) == Cardinality(Among(kinds, s))

LEMMA AmongFinite ==
  ASSUME NEW S, NEW s \in Seq(S), NEW kinds
  PROVE  /\ IsFiniteSet(Among(kinds, s)) /\ Number(kinds, s) \in Nat
         /\ s = <<>> => Number(kinds, s) = 0
<1>1. DOMAIN s = 1 .. Len(s) /\ Len(s) \in Nat
  OBVIOUS
<1>2. IsFiniteSet(DOMAIN s)
  BY <1>1, FS_Interval
<1>3. Among(kinds, s) \in SUBSET DOMAIN s
  BY DEF Among
<1>4. IsFiniteSet(Among(kinds, s))
  BY <1>2, <1>3, FS_Subset
<1>5. s = <<>> => Among(kinds, s) = {}
  BY DEF Among
<1> QED
  BY <1>4, <1>5, FS_CardinalityType, FS_EmptySet DEF Number

LEMMA AmongAppend ==
  ASSUME NEW S, NEW s \in Seq(S), NEW e \in S, NEW kinds
  PROVE  Number(kinds, Append(s, e)) = Number(kinds, s) + (IF e \in kinds THEN 1 ELSE 0)
<1>1. PICK n : n = Len(s)
  OBVIOUS
<1>2. PICK t : t = Append(s, e)
  OBVIOUS
<1>3. /\ n \in Nat /\ DOMAIN s = 1 .. n /\ DOMAIN t = 1 .. n + 1
      /\ t[n + 1] = e /\ \A i \in 1 .. n : t[i] = s[i]
  BY <1>1, <1>2, AppendProperties
<1>4. CASE e \in kinds
  <2>1. Among(kinds, t) = Among(kinds, s) \cup {n + 1} /\ n + 1 \notin Among(kinds, s)
    BY <1>3, <1>4 DEF Among
  <2> QED
    BY <1>2, <1>4, <2>1, AmongFinite, FS_AddElement DEF Number
<1>5. CASE e \notin kinds
  <2>1. Among(kinds, t) = Among(kinds, s)
    BY <1>3, <1>5 DEF Among
  <2> QED
    BY <1>2, <1>5, <2>1, AmongFinite DEF Number
<1> QED
  BY <1>4, <1>5

LEMMA AmongTail ==
  ASSUME NEW S, NEW s \in Seq(S), s # <<>>, NEW kinds
  PROVE  Number(kinds, s) = Number(kinds, Tail(s)) + (IF s[1] \in kinds THEN 1 ELSE 0)
<1>1. PICK n : n = Len(s)
  OBVIOUS
<1>2. PICK t : t = Tail(s)
  OBVIOUS
<1>3. /\ n \in Nat \ {0} /\ DOMAIN s = 1 .. n /\ DOMAIN t = 1 .. n - 1 /\ t \in Seq(S)
      /\ \A i \in 1 .. n - 1 : t[i] = s[i + 1]
  BY <1>1, <1>2, HeadTailProperties, LenProperties, EmptySeq
<1>4. PICK T : T = Among(kinds, t)
  OBVIOUS
<1> DEFINE U == {i + 1 : i \in T}
           f == [i \in T |-> i + 1]
<1>5. T \subseteq Nat /\ IsFiniteSet(T) /\ Cardinality(T) \in Nat
  <2>1. IsFiniteSet(T) /\ Cardinality(T) \in Nat
    BY <1>3, <1>4, AmongFinite DEF Number
  <2>2. T \subseteq 1 .. n - 1
    BY <1>3, <1>4 DEF Among
  <2> QED
    BY <2>1, <2>2
<1>6. IsFiniteSet(U) /\ Cardinality(U) = Cardinality(T)
  <2>1. f \in Bijection(T, U)
    BY <1>5 DEF Bijection, Injection, Surjection, IsInjective
  <2>2. ExistsBijection(T, U)
    BY <2>1 DEF ExistsBijection
  <2> QED
    BY <1>5, <2>2, FS_Bijection
<1>7. \A i : i \in Among(kinds, s) /\ i # 1 <=> i \in U
  <2>1. ASSUME NEW i, i \in Among(kinds, s), i # 1 PROVE i \in U
    <3>1. i - 1 \in T /\ i = (i - 1) + 1
      BY <1>3, <1>4, <2>1 DEF Among
    <3> QED
      BY <3>1
  <2>2. ASSUME NEW i \in T PROVE i + 1 \in Among(kinds, s) /\ i + 1 # 1
    BY <1>3, <1>4, <2>2 DEF Among
  <2> QED
    BY <2>1, <2>2
<1>8. 1 \in Among(kinds, s) <=> s[1] \in kinds
  BY <1>3 DEF Among
<1> HIDE DEF U
<1>9. CASE s[1] \in kinds
  <2>1. Among(kinds, s) = U \cup {1} /\ 1 \notin U
    BY <1>7, <1>8, <1>9
  <2> QED
    BY <1>2, <1>4, <1>5, <1>6, <1>9, <2>1, FS_AddElement DEF Number
<1>10. CASE s[1] \notin kinds
  <2>1. Among(kinds, s) = U
    BY <1>7, <1>8, <1>10
  <2> QED
    BY <1>2, <1>4, <1>5, <1>6, <1>10, <2>1 DEF Number
<1> QED
  BY <1>9, <1>10

(* A trade and its fill.                                                   *)
LEMMA PairedAppend ==
  ASSUME NEW S, NEW s \in Seq(S), NEW e \in S, e \notin {"Trade", "Filled"}, Paired(s)
  PROVE  Paired(Append(s, e))
<1>1. PICK n : n = Len(s)
  OBVIOUS
<1>2. PICK t : t = Append(s, e)
  OBVIOUS
<1>3. /\ n \in Nat /\ DOMAIN s = 1 .. n /\ DOMAIN t = 1 .. n + 1 /\ Len(t) = n + 1
      /\ t[n + 1] = e /\ \A i \in 1 .. n : t[i] = s[i]
  BY <1>1, <1>2, AppendProperties
<1>4. Paired(t)
  BY <1>1, <1>3 DEF Paired
<1> QED
  BY <1>2, <1>4

LEMMA PairedTwo ==
  ASSUME NEW S, NEW s \in Seq(S), "Trade" \in S, "Filled" \in S, Paired(s)
  PROVE  Paired(Append(Append(s, "Trade"), "Filled"))
<1>1. PICK n : n = Len(s)
  OBVIOUS
<1>2. PICK t : t = Append(s, "Trade")
  OBVIOUS
<1>3. PICK u : u = Append(t, "Filled")
  OBVIOUS
<1>4. /\ n \in Nat /\ DOMAIN s = 1 .. n /\ t \in Seq(S) /\ Len(t) = n + 1
      /\ t[n + 1] = "Trade" /\ \A i \in 1 .. n : t[i] = s[i]
  BY <1>1, <1>2, AppendProperties
<1>5. /\ DOMAIN u = 1 .. n + 2 /\ Len(u) = n + 2
      /\ u[n + 2] = "Filled" /\ \A i \in 1 .. n + 1 : u[i] = t[i]
  BY <1>3, <1>4, AppendProperties
<1>6. /\ u[n + 1] = "Trade" /\ \A i \in 1 .. n : u[i] = s[i]
  BY <1>4, <1>5
<1>7. Paired(u)
  BY <1>1, <1>4, <1>5, <1>6 DEF Paired
<1> QED
  BY <1>2, <1>3, <1>7

LEMMA PairedTail ==
  ASSUME NEW S, NEW s \in Seq(S), s # <<>>, Paired(s)
  PROVE  /\ Paired(Tail(s))
         /\ Tail(s) # <<>> /\ Tail(s)[1] = "Filled" <=> s[1] = "Trade"
<1>1. PICK n : n = Len(s)
  OBVIOUS
<1>2. PICK t : t = Tail(s)
  OBVIOUS
<1>3. /\ n \in Nat \ {0} /\ DOMAIN s = 1 .. n /\ DOMAIN t = 1 .. n - 1 /\ Len(t) = n - 1
      /\ \A i \in 1 .. n - 1 : t[i] = s[i + 1]
      /\ t # <<>> <=> n > 1
  <2>1. n \in Nat \ {0} /\ DOMAIN s = 1 .. n
    BY <1>1, EmptySeq, LenProperties
  <2>2. t \in Seq(S) /\ Len(t) = n - 1 /\ \A i \in 1 .. n - 1 : t[i] = s[i + 1]
    BY <1>1, <1>2, HeadTailProperties
  <2>3. DOMAIN t = 1 .. n - 1
    BY <2>2, LenProperties
  <2>4. t # <<>> <=> Len(t) # 0
    BY <2>2, EmptySeq
  <2> QED
    BY <2>1, <2>2, <2>3, <2>4
<1>4. /\ \A i \in 1 .. n : s[i] = "Trade" => i < n /\ s[i + 1] = "Filled"
      /\ \A i \in 1 .. n : s[i] = "Filled" /\ i > 1 => s[i - 1] = "Trade"
  BY <1>1, <1>3 DEF Paired
<1>5. \A i \in 1 .. n - 1 : t[i] = "Trade" => i < n - 1 /\ t[i + 1] = "Filled"
  BY <1>3, <1>4
<1>6. \A i \in 1 .. n - 1 : t[i] = "Filled" /\ i > 1 => t[i - 1] = "Trade"
  BY <1>3, <1>4
<1>7. Paired(t)
  BY <1>3, <1>5, <1>6 DEF Paired
<1>8. t # <<>> /\ t[1] = "Filled" <=> s[1] = "Trade"
  BY <1>3, <1>4
<1> QED
  BY <1>2, <1>7, <1>8

(* An event pushed is still on its way.                                    *)
LEMMA Pushed ==
  ASSUME NEW S, NEW s \in Seq(S), NEW t \in Seq(S), t # <<>>
  PROVE  /\ Head(t) \in S /\ Tail(t) \in Seq(S)
         /\ Append(s, Head(t)) \o Tail(t) = s \o t
<1>1. PICK e : e = Head(t)
  OBVIOUS
<1>2. PICK v : v = Tail(t)
  OBVIOUS
<1>3. PICK n : n = Len(t)
  OBVIOUS
<1>4. /\ e \in S /\ e = t[1] /\ v \in Seq(S) /\ Len(v) = n - 1 /\ n \in Nat \ {0}
      /\ \A i \in 1 .. n - 1 : v[i] = t[i + 1]
  BY <1>1, <1>2, <1>3, HeadTailProperties, LenProperties, EmptySeq
<1>5. <<e>> \in Seq(S) /\ Len(<<e>>) = 1 /\ <<e>>[1] = e
  BY <1>4
<1>6. <<e>> \o v = t
  <2>1. PICK u : u = <<e>> \o v
    OBVIOUS
  <2>2. /\ u \in Seq(S) /\ Len(u) = n
        /\ \A i \in 1 .. n : u[i] = IF i <= 1 THEN <<e>>[i] ELSE v[i - 1]
    BY <1>4, <1>5, <2>1, ConcatProperties
  <2>3. \A i \in 1 .. n : u[i] = t[i]
    <3> SUFFICES ASSUME NEW i \in 1 .. n PROVE u[i] = t[i]
      OBVIOUS
    <3>1. CASE i = 1
      BY <1>4, <1>5, <2>2, <3>1
    <3>2. CASE i # 1
      <4>1. u[i] = v[i - 1] /\ i - 1 \in 1 .. n - 1 /\ (i - 1) + 1 = i
        BY <1>4, <2>2, <3>2
      <4> QED
        BY <1>4, <4>1
    <3> QED
      BY <3>1, <3>2
  <2> QED
    BY <1>3, <1>4, <2>1, <2>2, <2>3, SeqEqual
<1>7. Append(s, e) = s \o <<e>>
  BY <1>4, AppendIsConcat
<1>8. (s \o <<e>>) \o v = s \o (<<e>> \o v)
  BY <1>4, <1>5, ConcatAssociative
<1> QED
  BY <1>1, <1>2, <1>4, <1>6, <1>7, <1>8

(* An event polled is the first of those on their way.                     *)
LEMMA Polled ==
  ASSUME NEW S, NEW s \in Seq(S), NEW t \in Seq(S), s # <<>>
  PROVE  /\ s \o t \in Seq(S) /\ s \o t # <<>>
         /\ Head(s) \in S /\ Head(s) = (s \o t)[1] /\ Tail(s) \in Seq(S)
         /\ Tail(s) \o t = Tail(s \o t)
<1>1. PICK n : n = Len(s)
  OBVIOUS
<1>2. PICK m : m = Len(t)
  OBVIOUS
<1>3. PICK u : u = s \o t
  OBVIOUS
<1>4. PICK v : v = Tail(s)
  OBVIOUS
<1>5. /\ n \in Nat \ {0} /\ m \in Nat /\ Head(s) \in S /\ Head(s) = s[1]
      /\ v \in Seq(S) /\ Len(v) = n - 1 /\ \A i \in 1 .. n - 1 : v[i] = s[i + 1]
  BY <1>1, <1>2, <1>4, HeadTailProperties, LenProperties, EmptySeq
<1>6. /\ u \in Seq(S) /\ Len(u) = n + m
      /\ \A i \in 1 .. n + m : u[i] = IF i <= n THEN s[i] ELSE t[i - n]
  BY <1>1, <1>2, <1>3, ConcatProperties
<1>7. u # <<>> /\ u[1] = s[1]
  BY <1>5, <1>6
<1>8. PICK w : w = Tail(u)
  OBVIOUS
<1>9. /\ w \in Seq(S) /\ Len(w) = n + m - 1 /\ \A i \in 1 .. n + m - 1 : w[i] = u[i + 1]
  BY <1>5, <1>6, <1>7, <1>8, HeadTailProperties
<1>10. PICK x : x = v \o t
  OBVIOUS
<1>11. /\ x \in Seq(S) /\ Len(x) = n + m - 1
       /\ \A i \in 1 .. n + m - 1 : x[i] = IF i <= n - 1 THEN v[i] ELSE t[i - (n - 1)]
  <2>1. /\ x \in Seq(S) /\ Len(x) = Len(v) + Len(t)
        /\ \A i \in 1 .. Len(v) + Len(t) : x[i] = IF i <= Len(v) THEN v[i] ELSE t[i - Len(v)]
    BY <1>5, <1>10, ConcatProperties
  <2>2. Len(v) + Len(t) = n + m - 1
    BY <1>2, <1>5
  <2> QED
    BY <1>5, <2>1, <2>2
<1>12. \A i \in 1 .. n + m - 1 : w[i] = x[i]
  <2> SUFFICES ASSUME NEW i \in 1 .. n + m - 1 PROVE w[i] = x[i]
    OBVIOUS
  <2>1. w[i] = u[i + 1] /\ i + 1 \in 1 .. n + m
    BY <1>5, <1>9
  <2>2. CASE i <= n - 1
    <3>1. u[i + 1] = s[i + 1] /\ x[i] = v[i] /\ i \in 1 .. n - 1
      BY <1>5, <1>6, <1>11, <2>1, <2>2
    <3> QED
      BY <1>5, <2>1, <3>1
  <2>3. CASE ~ i <= n - 1
    <3>1. u[i + 1] = t[(i + 1) - n] /\ x[i] = t[i - (n - 1)] /\ (i + 1) - n = i - (n - 1)
      BY <1>5, <1>6, <1>11, <2>1, <2>3
    <3> QED
      BY <2>1, <3>1
  <2> QED
    BY <2>2, <2>3
<1>13. w = x
  BY <1>9, <1>11, <1>12, SeqEqual
<1> QED
  BY <1>3, <1>4, <1>5, <1>6, <1>7, <1>8, <1>10, <1>13

-----------------------------------------------------------------------------
(* The equations between the counts, and what each event does to them.     *)

Answers == Events \ {"Trade"}

Balance(sub, counts, waiting, told, resting, d) ==
  /\ sub = counts["Accepted"] + counts["Filled"] + counts["Cancelled"] + waiting + Number(Answers, told)
  /\ counts["Trade"] = counts["Filled"] + (IF told # <<>> /\ told[1] = "Filled" THEN 1 ELSE 0)
  /\ resting + counts["Trade"] + Number({"Trade"}, told)
       = 2 * d + counts["Accepted"] + Number({"Accepted"}, told)

LEMMA FourEvents ==
  /\ Events = {"Accepted", "Trade", "Filled", "Cancelled"}
  /\ Answers = {"Accepted", "Filled", "Cancelled"}
  BY DEF Events, Answers

LEMMA FirstStays ==
  ASSUME NEW S, NEW s \in Seq(S), NEW e \in S
  PROVE  /\ Append(s, e) \in Seq(S) /\ Append(s, e) # <<>>
         /\ Append(s, e)[1] = IF s = <<>> THEN e ELSE s[1]
  BY AppendProperties, LenProperties, EmptySeq

LEMMA OneToTell ==
  ASSUME NEW sub \in Nat, NEW counts \in [Events -> Nat], NEW waiting \in Nat,
         NEW told \in Seq(Events), NEW resting \in Nat, NEW d \in Nat,
         Balance(sub, counts, waiting, told, resting, d),
         NEW e \in {"Accepted", "Cancelled"}, NEW waiting2, waiting2 = waiting - 1,
         NEW resting2, resting2 = resting + (IF e = "Accepted" THEN 1 ELSE 0)
  PROVE  Balance(sub, counts, waiting2, Append(told, e), resting2, d)
<1>1. PICK t : t = Append(told, e)
  OBVIOUS
<1>2. e \in Events
  BY FourEvents
<1>3. /\ Number(Answers, t) = Number(Answers, told) + 1
      /\ Number({"Trade"}, t) = Number({"Trade"}, told)
      /\ Number({"Accepted"}, t) = Number({"Accepted"}, told) + (IF e = "Accepted" THEN 1 ELSE 0)
  <2>1. \A kinds : /\ Number(kinds, t) = Number(kinds, told) + (IF e \in kinds THEN 1 ELSE 0)
                   /\ Number(kinds, told) \in Nat
    BY <1>1, <1>2, AmongAppend, AmongFinite
  <2>2. e \in Answers /\ e \notin {"Trade"} /\ (e \in {"Accepted"} <=> e = "Accepted")
    BY FourEvents
  <2> QED
    BY <2>1, <2>2
<1>4. /\ Number(Answers, told) \in Nat /\ Number({"Trade"}, told) \in Nat
      /\ Number({"Accepted"}, told) \in Nat
  BY AmongFinite
<1>5. /\ counts["Accepted"] \in Nat /\ counts["Filled"] \in Nat
      /\ counts["Cancelled"] \in Nat /\ counts["Trade"] \in Nat
  BY FourEvents
<1>6. t # <<>> /\ t[1] = "Filled" <=> told # <<>> /\ told[1] = "Filled"
  BY <1>1, <1>2, FirstStays
<1>7. Balance(sub, counts, waiting2, t, resting2, d)
  <2>1. PICK a \in Nat, f \in Nat, c \in Nat, tr \in Nat :
          a = counts["Accepted"] /\ f = counts["Filled"] /\ c = counts["Cancelled"] /\ tr = counts["Trade"]
    BY <1>5
  <2>2. PICK x \in Nat, y \in Nat, z \in Nat :
          x = Number(Answers, told) /\ y = Number({"Trade"}, told) /\ z = Number({"Accepted"}, told)
    BY <1>4
  <2>3. PICK one \in {0, 1} : one = IF e = "Accepted" THEN 1 ELSE 0
    OBVIOUS
  <2>4. /\ sub = a + f + c + waiting + x
        /\ tr = f + (IF told # <<>> /\ told[1] = "Filled" THEN 1 ELSE 0)
        /\ resting + tr + y = 2 * d + a + z
    BY <2>1, <2>2 DEF Balance
  <2>5. /\ sub = a + f + c + waiting2 + (x + 1)
        /\ tr = f + (IF t # <<>> /\ t[1] = "Filled" THEN 1 ELSE 0)
        /\ resting2 + tr + y = 2 * d + a + (z + one)
    BY <1>6, <2>3, <2>4
  <2>6. x + 1 = Number(Answers, t) /\ y = Number({"Trade"}, t) /\ z + one = Number({"Accepted"}, t)
    BY <1>3, <2>2, <2>3
  <2> QED
    BY <2>1, <2>5, <2>6 DEF Balance
<1> QED
  BY <1>1, <1>7

LEMMA TwoToTell ==
  ASSUME NEW sub \in Nat, NEW counts \in [Events -> Nat], NEW waiting \in Nat,
         NEW told \in Seq(Events), NEW resting \in Nat, NEW d \in Nat,
         Balance(sub, counts, waiting, told, resting, d),
         NEW waiting2, waiting2 = waiting - 1, NEW resting2, resting2 = resting - 1
  PROVE  Balance(sub, counts, waiting2, Append(Append(told, "Trade"), "Filled"), resting2, d)
<1>1. PICK t : t = Append(told, "Trade")
  OBVIOUS
<1>2. PICK u : u = Append(t, "Filled")
  OBVIOUS
<1>3. "Trade" \in Events /\ "Filled" \in Events
  BY FourEvents
<1>4. t \in Seq(Events)
  BY <1>1, <1>3, FirstStays
<1>5. /\ Number(Answers, u) = Number(Answers, told) + 1
      /\ Number({"Trade"}, u) = Number({"Trade"}, told) + 1
      /\ Number({"Accepted"}, u) = Number({"Accepted"}, told)
  <2>1. /\ \A kinds : Number(kinds, t) = Number(kinds, told) + (IF "Trade" \in kinds THEN 1 ELSE 0)
        /\ \A kinds : Number(kinds, u) = Number(kinds, t) + (IF "Filled" \in kinds THEN 1 ELSE 0)
        /\ \A kinds : Number(kinds, told) \in Nat
    <3>1. \A kinds : Number(kinds, t) = Number(kinds, told) + (IF "Trade" \in kinds THEN 1 ELSE 0)
      BY <1>1, <1>3, AmongAppend
    <3>2. \A kinds : Number(kinds, u) = Number(kinds, t) + (IF "Filled" \in kinds THEN 1 ELSE 0)
      BY <1>2, <1>3, <1>4, AmongAppend
    <3> QED
      BY <3>1, <3>2, AmongFinite
  <2>2. /\ "Trade" \notin Answers /\ "Filled" \in Answers
        /\ "Filled" \notin {"Trade"} /\ "Trade" \notin {"Accepted"} /\ "Filled" \notin {"Accepted"}
    BY FourEvents
  <2> QED
    BY <2>1, <2>2
<1>6. /\ Number(Answers, told) \in Nat /\ Number({"Trade"}, told) \in Nat
      /\ Number({"Accepted"}, told) \in Nat
  BY AmongFinite
<1>7. /\ counts["Accepted"] \in Nat /\ counts["Filled"] \in Nat
      /\ counts["Cancelled"] \in Nat /\ counts["Trade"] \in Nat
  BY FourEvents
<1>8. u # <<>> /\ u[1] = "Filled" <=> told # <<>> /\ told[1] = "Filled"
  BY <1>1, <1>2, <1>3, <1>4, FirstStays
<1>9. Balance(sub, counts, waiting2, u, resting2, d)
  <2>1. PICK a \in Nat, f \in Nat, c \in Nat, tr \in Nat :
          a = counts["Accepted"] /\ f = counts["Filled"] /\ c = counts["Cancelled"] /\ tr = counts["Trade"]
    BY <1>7
  <2>2. PICK x \in Nat, y \in Nat, z \in Nat :
          x = Number(Answers, told) /\ y = Number({"Trade"}, told) /\ z = Number({"Accepted"}, told)
    BY <1>6
  <2>3. /\ sub = a + f + c + waiting + x
        /\ tr = f + (IF told # <<>> /\ told[1] = "Filled" THEN 1 ELSE 0)
        /\ resting + tr + y = 2 * d + a + z
    BY <2>1, <2>2 DEF Balance
  <2>4. /\ sub = a + f + c + waiting2 + (x + 1)
        /\ tr = f + (IF u # <<>> /\ u[1] = "Filled" THEN 1 ELSE 0)
        /\ resting2 + tr + (y + 1) = 2 * d + a + z
    BY <1>8, <2>3
  <2>5. x + 1 = Number(Answers, u) /\ y + 1 = Number({"Trade"}, u) /\ z = Number({"Accepted"}, u)
    BY <1>5, <2>2
  <2> QED
    BY <2>1, <2>4, <2>5 DEF Balance
<1> QED
  BY <1>1, <1>2, <1>9

LEMMA OneHeard ==
  ASSUME NEW sub \in Nat, NEW counts \in [Events -> Nat], NEW waiting \in Nat,
         NEW told \in Seq(Events), told # <<>>, Paired(told), NEW resting \in Nat, NEW d \in Nat,
         Balance(sub, counts, waiting, told, resting, d),
         NEW counts2, counts2 = [counts EXCEPT ![told[1]] = @ + 1]
  PROVE  Balance(sub, counts2, waiting, Tail(told), resting, d)
<1>1. PICK t : t = Tail(told)
  OBVIOUS
<1>2. PICK e : e = told[1]
  OBVIOUS
<1>3. e \in Events
  BY <1>2, HeadTailProperties
<1>4. /\ Number(Answers, told) = Number(Answers, t) + (IF e = "Trade" THEN 0 ELSE 1)
      /\ Number({"Trade"}, told) = Number({"Trade"}, t) + (IF e = "Trade" THEN 1 ELSE 0)
      /\ Number({"Accepted"}, told) = Number({"Accepted"}, t) + (IF e = "Accepted" THEN 1 ELSE 0)
  <2>1. \A kinds : Number(kinds, told) = Number(kinds, t) + (IF e \in kinds THEN 1 ELSE 0)
    BY <1>1, <1>2, AmongTail
  <2>2. /\ e \in Answers <=> e # "Trade"
        /\ e \in {"Trade"} <=> e = "Trade"
        /\ e \in {"Accepted"} <=> e = "Accepted"
    BY <1>3, FourEvents
  <2> QED
    BY <2>1, <2>2
<1>5. /\ Number(Answers, t) \in Nat /\ Number({"Trade"}, t) \in Nat /\ Number({"Accepted"}, t) \in Nat
  <2>1. t \in Seq(Events)
    BY <1>1, HeadTailProperties
  <2> QED
    BY <2>1, AmongFinite
<1>6. /\ counts["Accepted"] \in Nat /\ counts["Filled"] \in Nat
      /\ counts["Cancelled"] \in Nat /\ counts["Trade"] \in Nat
  BY FourEvents
<1>7. \A k \in Events : counts2[k] = counts[k] + (IF k = e THEN 1 ELSE 0)
  BY <1>2, <1>3
<1>8. /\ counts2["Accepted"] = counts["Accepted"] + (IF e = "Accepted" THEN 1 ELSE 0)
      /\ counts2["Filled"] = counts["Filled"] + (IF e = "Filled" THEN 1 ELSE 0)
      /\ counts2["Cancelled"] = counts["Cancelled"] + (IF e = "Cancelled" THEN 1 ELSE 0)
      /\ counts2["Trade"] = counts["Trade"] + (IF e = "Trade" THEN 1 ELSE 0)
  BY <1>7, FourEvents
<1>9. t # <<>> /\ t[1] = "Filled" <=> e = "Trade"
  BY <1>1, <1>2, PairedTail
<1>10. e \in {"Accepted", "Trade", "Filled", "Cancelled"}
  BY <1>3, FourEvents
<1>11. PICK a \in Nat, f \in Nat, c \in Nat, tr \in Nat :
         a = counts["Accepted"] /\ f = counts["Filled"] /\ c = counts["Cancelled"] /\ tr = counts["Trade"]
  BY <1>6
<1>12. PICK x \in Nat, y \in Nat, z \in Nat :
         x = Number(Answers, t) /\ y = Number({"Trade"}, t) /\ z = Number({"Accepted"}, t)
  BY <1>5
<1>13. Balance(sub, counts2, waiting, t, resting, d)
  <2>1. PICK isA \in {0, 1}, isF \in {0, 1}, isC \in {0, 1}, isT \in {0, 1} :
          /\ isA = IF e = "Accepted" THEN 1 ELSE 0
          /\ isF = IF e = "Filled" THEN 1 ELSE 0
          /\ isC = IF e = "Cancelled" THEN 1 ELSE 0
          /\ isT = IF e = "Trade" THEN 1 ELSE 0
    OBVIOUS
  <2>2. isA + isF + isC + isT = 1
    BY <1>10, <2>1
  <2>3. /\ x + (1 - isT) = Number(Answers, told) /\ y + isT = Number({"Trade"}, told)
        /\ z + isA = Number({"Accepted"}, told)
    BY <1>4, <1>12, <2>1
  <2>4. /\ sub = a + f + c + waiting + (x + (1 - isT))
        /\ tr = f + (IF told # <<>> /\ told[1] = "Filled" THEN 1 ELSE 0)
        /\ resting + tr + (y + isT) = 2 * d + a + (z + isA)
    BY <1>11, <2>3 DEF Balance
  <2>5. tr = f + isF
    BY <1>2, <2>1, <2>4
  <2>6. /\ sub = (a + isA) + (f + isF) + (c + isC) + waiting + x
        /\ tr + isT = (f + isF) + isT
        /\ resting + (tr + isT) + y = 2 * d + (a + isA) + z
    BY <2>2, <2>4, <2>5
  <2>7. /\ a + isA = counts2["Accepted"] /\ f + isF = counts2["Filled"]
        /\ c + isC = counts2["Cancelled"] /\ tr + isT = counts2["Trade"]
    BY <1>8, <1>11, <2>1
  <2>8. isT = IF t # <<>> /\ t[1] = "Filled" THEN 1 ELSE 0
    BY <1>9, <2>1
  <2> QED
    BY <1>12, <2>6, <2>7, <2>8 DEF Balance
<1> QED
  BY <1>1, <1>13

-----------------------------------------------------------------------------
(* The steps of the driver.                                                *)

Orders == {"ask", "bid", "buy", "sell"}

LEMMA ToldTyped == DriverTypes => Told \in Seq(Events)
  BY ConcatProperties DEF DriverTypes, Told

\* What a submission does to the ring.
LEMMA SubmitTypes ==
  ASSUME DriverTypes, NEW order \in Orders, Submit(order)
  PROVE  /\ inbound' \in Seq(Orders) /\ Len(inbound') = Len(inbound) + 1
         /\ \A i \in DOMAIN inbound' : inbound'[i] = order \/ \E j \in DOMAIN inbound : inbound'[i] = inbound[j]
<1>1. inbound \in Seq(Orders) /\ inbound' = Append(inbound, order)
  BY DEF DriverTypes, Submit, Orders
<1> QED
  BY <1>1, AppendProperties

LEMMA EmittedTyped ==
  /\ <<"Accepted">> \in Seq(Events) /\ <<"Cancelled">> \in Seq(Events)
  /\ <<"Trade", "Filled">> \in Seq(Events)
<1>1. /\ "Accepted" \in Events /\ "Cancelled" \in Events
      /\ "Trade" \in Events /\ "Filled" \in Events
  BY FourEvents
<1>2. \A S : \A e \in S, f \in S : <<e>> \in Seq(S) /\ <<e, f>> \in Seq(S)
  OBVIOUS
<1> QED
  BY <1>1, <1>2

\* What the engine answers.
LEMMA ProcessMeans ==
  ASSUME DriverTypes, Process
  PROVE  /\ inbound \in Seq(Orders) /\ inbound # <<>> /\ inbound' = Tail(inbound)
         /\ Head(inbound) \in Orders
         /\ Told = outbound /\ Told' = outbound \o emit'
         /\ book' \in [{"ask", "bid"} -> Nat]
         /\ \/ /\ emit' = <<"Accepted">>
               /\ Head(inbound) \in {"ask", "bid"}
               /\ book'["ask"] + book'["bid"] = book["ask"] + book["bid"] + 1
            \/ /\ emit' = <<"Trade", "Filled">>
               /\ Head(inbound) \notin {"ask", "bid"}
               /\ book'["ask"] + book'["bid"] = book["ask"] + book["bid"] - 1
            \/ /\ emit' = <<"Cancelled">>
               /\ Head(inbound) \notin {"ask", "bid"}
               /\ book'["ask"] + book'["bid"] = book["ask"] + book["bid"]
<1>1. PICK order : order = Head(inbound)
  OBVIOUS
<1>2. /\ inbound \in Seq(Orders) /\ inbound # <<>> /\ inbound' = Tail(inbound)
      /\ emit = <<>> /\ outbound' = outbound
  BY DEF Process, DriverTypes, Orders
<1>3. order \in Orders
  BY <1>1, <1>2, HeadTailProperties
<1>4. Told = outbound /\ Told' = outbound \o emit'
  BY <1>2, ConcatEmptySeq DEF Told, DriverTypes
<1>5. /\ book \in [{"ask", "bid"} -> Nat] /\ DOMAIN book = {"ask", "bid"}
      /\ book["ask"] \in Nat /\ book["bid"] \in Nat
  BY DEF DriverTypes
<1>6. CASE order \in {"ask", "bid"}
  <2>1. book' = [book EXCEPT ![order] = @ + 1] /\ emit' = <<"Accepted">>
    BY <1>1, <1>5, <1>6 DEF Process
  <2>2. /\ book' \in [{"ask", "bid"} -> Nat]
        /\ book'["ask"] + book'["bid"] = book["ask"] + book["bid"] + 1
    BY <1>5, <1>6, <2>1
  <2> QED
    BY <1>1, <1>2, <1>3, <1>4, <1>6, <2>1, <2>2
<1>7. CASE order \notin {"ask", "bid"}
  <2>1. PICK side : side = Side[order]
    OBVIOUS
  <2>2. side \in {"ask", "bid"}
    BY <1>3, <1>7, <2>1 DEF Orders, Side
  <2>3. CASE book[side] > 0
    <3>1. book' = [book EXCEPT ![side] = @ - 1] /\ emit' = <<"Trade", "Filled">>
      BY <1>1, <1>5, <1>7, <2>1, <2>3 DEF Process
    <3>2. /\ book' \in [{"ask", "bid"} -> Nat]
          /\ book'["ask"] + book'["bid"] = book["ask"] + book["bid"] - 1
      BY <1>5, <2>2, <2>3, <3>1
    <3> QED
      BY <1>1, <1>2, <1>3, <1>4, <1>7, <3>1, <3>2
  <2>4. CASE ~ book[side] > 0
    <3>1. book' = book /\ emit' = <<"Cancelled">>
      BY <1>1, <1>5, <1>7, <2>1, <2>4 DEF Process
    <3> QED
      BY <1>1, <1>2, <1>3, <1>4, <1>5, <1>7, <3>1
  <2> QED
    BY <2>3, <2>4
<1> QED
  BY <1>6, <1>7

\* Which order a producer places next.
LEMMA PlaceMeans ==
  ASSUME DriverTypes, NEW p \in Producers, Place(p)
  PROVE  /\ prod[p] \in {"ask", "bid", "take"}
         /\ \E order \in Orders : Submit(order)
         /\ Following(prod[p]) \in {"bid", "check"}
<1>1. DOMAIN book = {"ask", "bid"} /\ prod[p] \in {"check", "ask", "bid", "take", "done"}
  BY DEF DriverTypes
<1>2. DOMAIN Side = {"buy", "sell"}
  BY DEF Side
<1>3. PICK order \in IF prod[p] = "take" THEN DOMAIN Side ELSE {prod[p]} \cap DOMAIN book : Submit(order)
  BY DEF Place
<1> QED
  BY <1>1, <1>2, <1>3 DEF Orders, Following

LEMMA TypeStep ==
  ASSUME DriverTypes, [DriverNext]_driverVars
  PROVE  DriverTypes'
<1>0. Process =>
        /\ inbound \in Seq(Orders) /\ inbound # <<>> /\ inbound' = Tail(inbound)
        /\ emit' \in {<<"Accepted">>, <<"Trade", "Filled">>, <<"Cancelled">>}
        /\ book' \in [{"ask", "bid"} -> Nat]
  BY ProcessMeans
<1> USE DEF DriverTypes
<1>1. CASE Fill
  <2>1. inbound' \in Seq(Orders)
    BY <1>1, SubmitTypes DEF Fill, Orders
  <2> QED
    BY <1>1, <2>1 DEF Fill, Orders, engVars, counters
<1>2. CASE Drain
  <2>1. outbound' \in Seq(Events)
    BY <1>2, HeadTailProperties DEF Drain
  <2> QED
    BY <1>2, <2>1 DEF Drain, engVars, counters
<1>3. CASE Process
  <2>1. inbound' \in Seq(Orders)
    <3>1. inbound \in Seq(Orders) /\ inbound # <<>> /\ inbound' = Tail(inbound)
      BY <1>0, <1>3
    <3> QED
      BY <3>1, HeadTailProperties
  <2>2. emit' \in Seq(Events) /\ book' \in [{"ask", "bid"} -> Nat]
    <3>1. book' \in [{"ask", "bid"} -> Nat]
      BY <1>0, <1>3
    <3>2. emit' \in {<<"Accepted">>, <<"Trade", "Filled">>, <<"Cancelled">>}
      BY <1>0, <1>3
    <3> QED
      BY <3>1, <3>2, EmittedTyped
  <2> QED
    BY <1>3, <2>1, <2>2 DEF Process, Orders, warmVars, counters
<1>4. CASE PushEvent
  <2>1. emit # <<>> /\ outbound' = Append(outbound, Head(emit)) /\ emit' = Tail(emit)
    BY <1>4 DEF PushEvent
  <2>2. Head(emit) \in Events /\ Tail(emit) \in Seq(Events)
    BY <2>1, HeadTailProperties
  <2>3. outbound' \in Seq(Events) /\ emit' \in Seq(Events)
    BY <2>1, <2>2, AppendProperties
  <2> QED
    BY <1>4, <2>3 DEF PushEvent, warmVars, counters
<1>5. ASSUME NEW p \in Producers, Begin(p) PROVE DriverTypes'
  BY <1>5 DEF Begin, warmVars, engVars, counters
<1>6. ASSUME NEW p \in Producers, Place(p) PROVE DriverTypes'
  <2>1. inbound' \in Seq(Orders) /\ Following(prod[p]) \in {"bid", "check"}
    BY <1>6, PlaceMeans, SubmitTypes
  <2>2. prod' \in [Producers -> {"check", "ask", "bid", "take", "done"}]
    BY <1>6, <2>1 DEF Place
  <2> QED
    BY <1>6, <2>1, <2>2 DEF Place, Orders, warmVars, engVars
<1>7. ASSUME NEW p \in Producers, Leave(p) PROVE DriverTypes'
  BY <1>7 DEF Leave, warmVars, engVars, counters
<1>8. CASE Consume
  <2>1. CASE outbound = <<>>
    BY <1>8, <2>1 DEF Consume, warmVars, engVars
  <2>2. CASE outbound # <<>>
    <3>1. Head(outbound) \in Events /\ Tail(outbound) \in Seq(Events)
      BY <2>2, HeadTailProperties
    <3>2. outbound' = Tail(outbound) /\ seen' = [seen EXCEPT ![Head(outbound)] = @ + 1]
      BY <1>8, <2>2 DEF Consume
    <3>3. outbound' \in Seq(Events) /\ seen' \in [Events -> Nat]
      BY <3>1, <3>2
    <3> QED
      BY <1>8, <2>2, <3>3 DEF Consume, warmVars, engVars
  <2> QED
    BY <2>1, <2>2
<1>9. CASE LookAtClock \/ TimePasses \/ Report \/ UNCHANGED driverVars
  BY <1>9 DEF LookAtClock, TimePasses, Report, driverVars, warmVars, engVars, counters
<1> QED
  BY <1>1, <1>2, <1>3, <1>4, <1>5, <1>6, <1>7, <1>8, <1>9 DEF DriverNext, Produce

LEMMA TwoMore ==
  ASSUME NEW S, NEW s \in Seq(S), NEW e \in S, NEW f \in S
  PROVE  s \o <<e, f>> = Append(Append(s, e), f)
<1>1. PICK t : t = Append(s, e)
  OBVIOUS
<1>2. PICK u : u = Append(t, f)
  OBVIOUS
<1>3. PICK n : n = Len(s)
  OBVIOUS
<1>4. /\ n \in Nat /\ t \in Seq(S) /\ Len(t) = n + 1 /\ t[n + 1] = e
      /\ \A i \in 1 .. n : t[i] = s[i]
  BY <1>1, <1>3, AppendProperties
<1>5. /\ u \in Seq(S) /\ Len(u) = n + 2 /\ u[n + 2] = f
      /\ \A i \in 1 .. n + 1 : u[i] = t[i]
  BY <1>2, <1>4, AppendProperties
<1>6. <<e, f>> \in Seq(S) /\ Len(<<e, f>>) = 2 /\ <<e, f>>[1] = e /\ <<e, f>>[2] = f
  OBVIOUS
<1>7. PICK v : v = s \o <<e, f>>
  OBVIOUS
<1>8. /\ v \in Seq(S) /\ Len(v) = n + 2
      /\ \A i \in 1 .. n + 2 : v[i] = IF i <= n THEN s[i] ELSE <<e, f>>[i - n]
  BY <1>3, <1>6, <1>7, ConcatProperties
<1>9. \A i \in 1 .. n + 2 : v[i] = u[i]
  <2> SUFFICES ASSUME NEW i \in 1 .. n + 2 PROVE v[i] = u[i]
    OBVIOUS
  <2>1. CASE i <= n
    BY <1>4, <1>5, <1>8, <2>1
  <2>2. CASE i = n + 1
    <3>1. i - n = 1 /\ ~ i <= n /\ i \in 1 .. n + 1
      BY <1>4, <2>2
    <3> QED
      BY <1>4, <1>5, <1>6, <1>8, <2>2, <3>1
  <2>3. CASE i = n + 2
    <3>1. i - n = 2 /\ ~ i <= n
      BY <1>4, <2>3
    <3> QED
      BY <1>5, <1>6, <1>8, <2>3, <3>1
  <2> QED
    BY <1>4, <2>1, <2>2, <2>3
<1>10. v = u
  BY <1>5, <1>8, <1>9, SeqEqual
<1> QED
  BY <1>1, <1>2, <1>7, <1>10

LEMMA AccountedMeans ==
  /\ Accounted <=> (phase \in {"work", "end"} =>
       Balance(submitted, seen, Len(inbound), Told, book["ask"] + book["bid"], depth))
  /\ Accounted' <=> (phase' \in {"work", "end"} =>
       Balance(submitted', seen', Len(inbound'), Told', book'["ask"] + book'["bid"], depth'))
<1>1. \A kinds : OnTheirWay(kinds) = Number(kinds, Told)
  BY DEF Number, OnTheirWay
<1>2. \A kinds : OnTheirWay(kinds)' = Number(kinds, Told')
  BY DEF Number, OnTheirWay, Among
<1>3. Accounted <=> (phase \in {"work", "end"} =>
        Balance(submitted, seen, Len(inbound), Told, book["ask"] + book["bid"], depth))
  BY <1>1 DEF Accounted, Balance, Answers
<1>4. Accounted' <=> (phase' \in {"work", "end"} =>
        Balance(submitted', seen', Len(inbound'), Told', book'["ask"] + book'["bid"], depth'))
  BY <1>2 DEF Accounted, Balance, Answers, Events
<1> QED
  BY <1>3, <1>4

Inv == DriverInv /\ depth \in Nat

LEMMA InvTypes ==
  ASSUME Inv
  PROVE  /\ DriverTypes /\ WarmingUp /\ Paired(Told) /\ Accounted
         /\ Told \in Seq(Events) /\ Len(Told) \in Nat
         /\ inbound \in Seq(Orders) /\ Len(inbound) \in Nat
         /\ depth \in Nat /\ placed \in Nat /\ received \in Nat /\ submitted \in Nat
         /\ seen \in [Events -> Nat] /\ DOMAIN prod = Producers
         /\ book["ask"] \in Nat /\ book["bid"] \in Nat /\ book["ask"] + book["bid"] \in Nat
<1>1. DriverTypes /\ WarmingUp /\ Paired(Told) /\ Accounted /\ depth \in Nat
  BY DEF Inv, DriverInv
<1>2. Told \in Seq(Events) /\ Len(Told) \in Nat
  BY <1>1, ToldTyped
<1> QED
  BY <1>1, <1>2 DEF DriverTypes, Orders

Rest == WarmingUp /\ Paired(Told) /\ Accounted

LEMMA FillRest == ASSUME Inv, Fill PROVE Rest'
<1>1. /\ phase = "fill" /\ placed' = placed + 1
      /\ phase' = IF placed' = 2 * depth THEN "drain" ELSE "fill"
      /\ UNCHANGED <<depth, received, prod, outbound, book, emit, submitted, seen>>
  BY DEF Fill, engVars, counters
<1>2. PICK order \in {"ask", "bid"} : Submit(order)
  BY DEF Fill
<1>3. Len(inbound') = Len(inbound) + 1
      /\ \A i \in DOMAIN inbound' : inbound'[i] = order \/ \E j \in DOMAIN inbound : inbound'[i] = inbound[j]
  BY <1>2, InvTypes, SubmitTypes DEF Orders
<1>4. Told' = Told
  BY <1>1 DEF Told
<1>5. WarmingUp'
  <2>1. /\ \A p \in Producers : prod[p] = "check"
        /\ \A i \in DOMAIN inbound : inbound[i] \in {"ask", "bid"}
        /\ \A i \in DOMAIN Told : Told[i] = "Accepted"
        /\ submitted = 0 /\ \A e \in Events : seen[e] = 0
        /\ placed = received + Len(Told) + Len(inbound)
        /\ book["ask"] + book["bid"] + Len(inbound) = placed
        /\ received = 0 /\ placed < 2 * depth
    BY <1>1, InvTypes DEF WarmingUp
  <2>2. \A i \in DOMAIN inbound' : inbound'[i] \in {"ask", "bid"}
    BY <1>3, <2>1
  <2>3. /\ placed' = received + Len(Told) + Len(inbound')
        /\ book["ask"] + book["bid"] + Len(inbound') = placed'
        /\ placed' = 2 * depth \/ placed' < 2 * depth
    <3>1. PICK told \in Nat, waiting \in Nat, resting \in Nat, d \in Nat, n \in Nat :
            /\ told = Len(Told) /\ waiting = Len(inbound) /\ resting = book["ask"] + book["bid"]
            /\ d = depth /\ n = placed
      BY InvTypes
    <3>2. placed' = n + 1 /\ Len(inbound') = waiting + 1 /\ received = 0
      BY <1>1, <1>3, <2>1, <3>1
    <3>3. n = 0 + told + waiting /\ resting + waiting = n /\ n < 2 * d
      BY <2>1, <3>1
    <3>4. /\ n + 1 = 0 + told + (waiting + 1) /\ resting + (waiting + 1) = n + 1
          /\ n + 1 = 2 * d \/ n + 1 < 2 * d
      BY <3>3
    <3> QED
      BY <3>1, <3>2, <3>4
  <2> QED
    BY <1>1, <1>4, <2>1, <2>2, <2>3 DEF WarmingUp, Events
<1>6. phase' \notin {"work", "end"}
  BY <1>1
<1> QED
  BY <1>4, <1>5, <1>6, InvTypes, AccountedMeans DEF Rest, Paired

LEMMA DrainRest == ASSUME Inv, Drain PROVE Rest'
<1>1. /\ phase = "drain" /\ received' = received + 1
      /\ phase' = IF received' = 2 * depth THEN "work" ELSE "drain"
      /\ outbound # <<>> /\ outbound' = Tail(outbound)
      /\ UNCHANGED <<depth, placed, prod, inbound, book, emit, submitted, seen>>
  BY DEF Drain, WarmupEvents, engVars, counters
<1>2. PICK told : told = Told
  OBVIOUS
<1>3. /\ told \in Seq(Events) /\ told # <<>> /\ Told' = Tail(told)
  <2>1. outbound \in Seq(Events) /\ emit \in Seq(Events)
    BY InvTypes DEF DriverTypes
  <2>2. Told = outbound \o emit /\ Told' = Tail(outbound) \o emit
    BY <1>1 DEF Told
  <2> QED
    BY <1>1, <1>2, <2>1, <2>2, Polled
<1>4. /\ \A p \in Producers : prod[p] = "check"
      /\ \A i \in DOMAIN inbound : inbound[i] \in {"ask", "bid"}
      /\ \A i \in DOMAIN told : told[i] = "Accepted"
      /\ submitted = 0 /\ \A e \in Events : seen[e] = 0
      /\ placed = received + Len(told) + Len(inbound)
      /\ book["ask"] + book["bid"] + Len(inbound) = placed
      /\ placed = 2 * depth
  BY <1>1, <1>2, InvTypes DEF WarmingUp
<1>5. /\ Tail(told) \in Seq(Events) /\ Len(Tail(told)) = Len(told) - 1 /\ Len(told) \in Nat \ {0}
      /\ \A i \in 1 .. Len(told) - 1 : Tail(told)[i] = told[i + 1]
  BY <1>3, HeadTailProperties, LenProperties, EmptySeq
<1>6. \A i \in DOMAIN Tail(told) : Tail(told)[i] = "Accepted"
  <2>1. DOMAIN Tail(told) = 1 .. Len(told) - 1 /\ DOMAIN told = 1 .. Len(told)
    BY <1>3, <1>5, LenProperties
  <2> QED
    BY <1>4, <1>5, <2>1
<1>7. placed = received' + Len(Tail(told)) + Len(inbound)
  BY <1>1, <1>4, <1>5, InvTypes
<1>8. WarmingUp'
  BY <1>1, <1>3, <1>4, <1>6, <1>7 DEF WarmingUp, Events
<1>9. Paired(Told)'
  <2>1. Paired(Tail(told))
    BY <1>2, <1>3, InvTypes, PairedTail
  <2> QED
    BY <1>3, <2>1 DEF Paired
<1>10. Accounted'
  <2> SUFFICES ASSUME phase' \in {"work", "end"}
               PROVE  Balance(submitted', seen', Len(inbound'), Told', book'["ask"] + book'["bid"], depth')
    BY AccountedMeans
  <2>1. received' = 2 * depth
    BY <1>1
  <2>2. Len(Tail(told)) = 0 /\ Len(inbound) = 0
    <3>1. PICK n \in Nat, told2 \in Nat, waiting \in Nat :
            n = 2 * depth /\ told2 = Len(Tail(told)) /\ waiting = Len(inbound)
      <4>1. depth \in Nat /\ 2 * depth \in Nat /\ Len(inbound) \in Nat
        BY InvTypes
      <4>2. Len(Tail(told)) \in Nat
        BY <1>5
      <4> QED
        BY <4>1, <4>2
    <3>2. n = n + told2 + waiting
      BY <1>4, <1>7, <2>1, <3>1
    <3>3. told2 = 0 /\ waiting = 0
      BY <3>2
    <3> QED
      BY <3>1, <3>3
  <2>3. Tail(told) = <<>>
    BY <1>5, <2>2, EmptySeq
  <2>4. \A kinds : Number(kinds, Tail(told)) = 0
    BY <1>5, <2>3, AmongFinite
  <2>5. book["ask"] + book["bid"] = 2 * depth
    BY <1>4, <2>2, InvTypes
  <2>6. /\ seen["Accepted"] = 0 /\ seen["Filled"] = 0 /\ seen["Cancelled"] = 0 /\ seen["Trade"] = 0
    BY <1>4, FourEvents
  <2>7. Balance(submitted, seen, Len(inbound), Tail(told), book["ask"] + book["bid"], depth)
    BY <1>4, <2>2, <2>3, <2>4, <2>5, <2>6, InvTypes DEF Balance
  <2> QED
    BY <1>1, <1>3, <2>7
<1> QED
  BY <1>8, <1>9, <1>10 DEF Rest

LEMMA ProcessRest == ASSUME Inv, Process PROVE Rest'
<1>1. UNCHANGED <<depth, phase, placed, received, prod, submitted, seen>>
  BY DEF Process, warmVars, counters
<1>2. PICK told : told = Told
  OBVIOUS
<1>3. PICK waiting \in Nat : waiting = Len(inbound)
  BY InvTypes
<1>4. PICK resting \in Nat : resting = book["ask"] + book["bid"]
  BY InvTypes
<1>5. /\ inbound \in Seq(Orders) /\ inbound # <<>> /\ inbound' = Tail(inbound)
      /\ told = outbound /\ Told' = outbound \o emit' /\ told \in Seq(Events)
  BY <1>2, InvTypes, ProcessMeans
<1>6. /\ Len(inbound') = waiting - 1
      /\ \A i \in DOMAIN inbound' : \E j \in DOMAIN inbound : inbound'[i] = inbound[j]
      /\ \E j \in DOMAIN inbound : Head(inbound) = inbound[j]
  <2>1. /\ Tail(inbound) \in Seq(Orders) /\ Len(Tail(inbound)) = waiting - 1 /\ waiting \in Nat \ {0}
        /\ \A i \in 1 .. waiting - 1 : Tail(inbound)[i] = inbound[i + 1]
    BY <1>3, <1>5, HeadTailProperties, LenProperties, EmptySeq
  <2>2. DOMAIN Tail(inbound) = 1 .. waiting - 1 /\ DOMAIN inbound = 1 .. waiting
    BY <1>3, <1>5, <2>1, LenProperties
  <2>3. Head(inbound) = inbound[1] /\ 1 \in DOMAIN inbound
    BY <1>5, <2>1, <2>2
  <2>4. \A i \in DOMAIN Tail(inbound) : i + 1 \in DOMAIN inbound /\ Tail(inbound)[i] = inbound[i + 1]
    BY <2>1, <2>2
  <2>5. \A i \in DOMAIN inbound' : \E j \in DOMAIN inbound : inbound'[i] = inbound[j]
    BY <1>5, <2>4
  <2>6. Len(inbound') = waiting - 1
    BY <1>5, <2>1
  <2> QED
    BY <2>3, <2>5, <2>6
<1>7. /\ "Accepted" \in Events /\ "Cancelled" \in Events
      /\ "Trade" \in Events /\ "Filled" \in Events
  BY FourEvents
<1>8. /\ Paired(told)
      /\ phase \in {"work", "end"} => Balance(submitted, seen, waiting, told, resting, depth)
      /\ submitted \in Nat /\ seen \in [Events -> Nat] /\ depth \in Nat
  BY <1>2, <1>3, <1>4, InvTypes, AccountedMeans
<1>9. ASSUME emit' = <<"Accepted">>, Head(inbound) \in {"ask", "bid"},
             book'["ask"] + book'["bid"] = resting + 1
      PROVE  Rest'
  <2>1. PICK told2 : told2 = Append(told, "Accepted")
    OBVIOUS
  <2>2. Told' = told2
    BY <1>5, <1>7, <1>9, <2>1, AppendIsConcat
  <2>3. Paired(told2)
    BY <1>5, <1>7, <1>8, <2>1, PairedAppend
  <2>4. phase \in {"work", "end"} =>
          Balance(submitted, seen, waiting - 1, told2, book'["ask"] + book'["bid"], depth)
    BY <1>5, <1>8, <1>9, <2>1, OneToTell
  <2>5. WarmingUp'
    <3> SUFFICES ASSUME phase \in {"fill", "drain"} PROVE WarmingUp'
      BY <1>1 DEF WarmingUp
    <3>1. /\ \A p \in Producers : prod[p] = "check"
          /\ \A i \in DOMAIN inbound : inbound[i] \in {"ask", "bid"}
          /\ \A i \in DOMAIN told : told[i] = "Accepted"
          /\ submitted = 0 /\ \A e \in Events : seen[e] = 0
          /\ placed = received + Len(told) + waiting
          /\ resting + waiting = placed
          /\ phase = "fill" => received = 0 /\ placed < 2 * depth
          /\ phase = "drain" => placed = 2 * depth
      BY <1>2, <1>3, <1>4, InvTypes DEF WarmingUp
    <3>2. \A i \in DOMAIN inbound' : inbound'[i] \in {"ask", "bid"}
      BY <1>6, <3>1
    <3>3. Len(told2) = Len(told) + 1 /\ Len(told) \in Nat
          /\ \A i \in DOMAIN told2 : told2[i] = "Accepted"
      <4>1. /\ told2 \in Seq(Events) /\ Len(told2) = Len(told) + 1 /\ Len(told) \in Nat
            /\ told2[Len(told) + 1] = "Accepted" /\ \A i \in 1 .. Len(told) : told2[i] = told[i]
        BY <1>5, <1>7, <2>1, AppendProperties
      <4>2. DOMAIN told2 = 1 .. Len(told) + 1 /\ DOMAIN told = 1 .. Len(told)
        BY <1>5, <4>1
      <4> QED
        BY <3>1, <4>1, <4>2
    <3>4. /\ placed = received + Len(told2) + (waiting - 1)
          /\ (resting + 1) + (waiting - 1) = placed
      <4>1. placed \in Nat /\ received \in Nat
        BY InvTypes
      <4> QED
        BY <3>1, <3>3, <4>1
    <3> QED
      BY <1>1, <1>6, <1>9, <2>2, <3>1, <3>2, <3>3, <3>4 DEF WarmingUp, Events
  <2>6. Accounted'
    BY <1>1, <1>6, <2>2, <2>4, AccountedMeans
  <2> QED
    BY <2>2, <2>3, <2>5, <2>6 DEF Rest, Paired
<1>10. Head(inbound) \notin {"ask", "bid"} => phase \notin {"fill", "drain"}
  BY <1>6, InvTypes DEF WarmingUp
<1>11. ASSUME emit' = <<"Trade", "Filled">>, Head(inbound) \notin {"ask", "bid"},
              book'["ask"] + book'["bid"] = resting - 1, book'["ask"] + book'["bid"] \in Nat
       PROVE  Rest'
  <2>1. PICK told2 : told2 = Append(Append(told, "Trade"), "Filled")
    OBVIOUS
  <2>2. Told' = told2
    BY <1>5, <1>7, <1>11, <2>1, TwoMore
  <2>3. Paired(told2)
    BY <1>5, <1>7, <1>8, <2>1, PairedTwo
  <2>4. phase \in {"work", "end"} =>
          Balance(submitted, seen, waiting - 1, told2, book'["ask"] + book'["bid"], depth)
    BY <1>5, <1>8, <1>11, <2>1, TwoToTell
  <2>5. WarmingUp'
    BY <1>1, <1>10, <1>11 DEF WarmingUp
  <2>6. Accounted'
    BY <1>1, <1>6, <2>2, <2>4, AccountedMeans
  <2> QED
    BY <2>2, <2>3, <2>5, <2>6 DEF Rest, Paired
<1>12. ASSUME emit' = <<"Cancelled">>, Head(inbound) \notin {"ask", "bid"},
              book'["ask"] + book'["bid"] = resting
       PROVE  Rest'
  <2>1. PICK told2 : told2 = Append(told, "Cancelled")
    OBVIOUS
  <2>2. Told' = told2
    BY <1>5, <1>7, <1>12, <2>1, AppendIsConcat
  <2>3. Paired(told2)
    BY <1>5, <1>7, <1>8, <2>1, PairedAppend
  <2>4. phase \in {"work", "end"} =>
          Balance(submitted, seen, waiting - 1, told2, resting, depth)
    <3>1. "Cancelled" \in {"Accepted", "Cancelled"}
          /\ resting = resting + (IF "Cancelled" = "Accepted" THEN 1 ELSE 0)
      OBVIOUS
    <3> QED
      BY <1>5, <1>8, <2>1, <3>1, OneToTell
  <2>5. WarmingUp'
    BY <1>1, <1>10, <1>12 DEF WarmingUp
  <2>6. Accounted'
    BY <1>1, <1>6, <1>12, <2>2, <2>4, AccountedMeans
  <2> QED
    BY <2>2, <2>3, <2>5, <2>6 DEF Rest, Paired
<1>13. book'["ask"] + book'["bid"] \in Nat
  <2>1. book' \in [{"ask", "bid"} -> Nat]
    BY InvTypes, ProcessMeans
  <2> QED
    BY <2>1
<1>14. \/ /\ emit' = <<"Accepted">> /\ Head(inbound) \in {"ask", "bid"}
          /\ book'["ask"] + book'["bid"] = resting + 1
       \/ /\ emit' = <<"Trade", "Filled">> /\ Head(inbound) \notin {"ask", "bid"}
          /\ book'["ask"] + book'["bid"] = resting - 1
       \/ /\ emit' = <<"Cancelled">> /\ Head(inbound) \notin {"ask", "bid"}
          /\ book'["ask"] + book'["bid"] = resting
  <2>1. DriverTypes
    BY InvTypes
  <2>2. \/ /\ emit' = <<"Accepted">>
           /\ Head(inbound) \in {"ask", "bid"}
           /\ book'["ask"] + book'["bid"] = book["ask"] + book["bid"] + 1
        \/ /\ emit' = <<"Trade", "Filled">>
           /\ Head(inbound) \notin {"ask", "bid"}
           /\ book'["ask"] + book'["bid"] = book["ask"] + book["bid"] - 1
        \/ /\ emit' = <<"Cancelled">>
           /\ Head(inbound) \notin {"ask", "bid"}
           /\ book'["ask"] + book'["bid"] = book["ask"] + book["bid"]
    BY <2>1, ProcessMeans
  <2>3. /\ book["ask"] + book["bid"] + 1 = resting + 1
        /\ book["ask"] + book["bid"] - 1 = resting - 1
        /\ book["ask"] + book["bid"] = resting
    BY <1>4, InvTypes
  <2> QED
    BY <2>2, <2>3, Zenon
<1> QED
  BY <1>9, <1>11, <1>12, <1>13, <1>14

LEMMA PlaceRest == ASSUME Inv, NEW p \in Producers, Place(p) PROVE Rest'
<1>1. /\ UNCHANGED <<depth, phase, placed, received, outbound, book, emit, seen>>
      /\ submitted' = submitted + 1
  BY DEF Place, warmVars, engVars
<1>2. prod[p] # "check" /\ \E order \in Orders : Submit(order)
  BY InvTypes, PlaceMeans
<1>3. phase \notin {"fill", "drain"}
  BY <1>2, InvTypes DEF WarmingUp
<1>4. Len(inbound') = Len(inbound) + 1
  BY <1>2, InvTypes, SubmitTypes
<1>5. Told' = Told
  BY <1>1 DEF Told
<1>6. WarmingUp'
  BY <1>1, <1>3 DEF WarmingUp
<1>7. Accounted'
  <2> SUFFICES ASSUME phase \in {"work", "end"}
               PROVE  Balance(submitted + 1, seen, Len(inbound) + 1, Told, book["ask"] + book["bid"], depth)
    BY <1>1, <1>4, <1>5, AccountedMeans
  <2>1. Balance(submitted, seen, Len(inbound), Told, book["ask"] + book["bid"], depth)
    BY InvTypes, AccountedMeans
  <2>2. PICK sub \in Nat, waiting \in Nat, a \in Nat, f \in Nat, c \in Nat, x \in Nat :
          /\ sub = submitted /\ waiting = Len(inbound) /\ a = seen["Accepted"] /\ f = seen["Filled"]
          /\ c = seen["Cancelled"] /\ x = Number(Answers, Told)
    BY InvTypes, FourEvents, AmongFinite
  <2>3. sub = a + f + c + waiting + x
    BY <2>1, <2>2 DEF Balance
  <2>4. sub + 1 = a + f + c + (waiting + 1) + x
    BY <2>3
  <2> QED
    BY <2>1, <2>2, <2>4 DEF Balance
<1> QED
  BY <1>5, <1>6, <1>7, InvTypes DEF Rest, Paired

LEMMA ConsumeRest == ASSUME Inv, Consume, outbound # <<>> PROVE Rest'
<1>1. /\ phase = "work" /\ outbound' = Tail(outbound) /\ seen' = [seen EXCEPT ![Head(outbound)] = @ + 1]
      /\ UNCHANGED <<depth, phase, placed, received, prod, inbound, book, emit, submitted>>
  BY DEF Consume, warmVars, engVars
<1>2. PICK told : told = Told
  OBVIOUS
<1>3. /\ told \in Seq(Events) /\ told # <<>> /\ Told' = Tail(told) /\ Head(outbound) = told[1]
  <2>1. outbound \in Seq(Events) /\ emit \in Seq(Events)
    BY InvTypes DEF DriverTypes
  <2>2. Told = outbound \o emit /\ Told' = Tail(outbound) \o emit
    BY <1>1 DEF Told
  <2> QED
    BY <1>2, <2>1, <2>2, Polled
<1>4. /\ Paired(told)
      /\ Balance(submitted, seen, Len(inbound), told, book["ask"] + book["bid"], depth)
  BY <1>1, <1>2, InvTypes, AccountedMeans
<1>5. Paired(Tail(told))
  BY <1>3, <1>4, PairedTail
<1>6. Balance(submitted, seen', Len(inbound), Tail(told), book["ask"] + book["bid"], depth)
  <2>1. seen' = [seen EXCEPT ![told[1]] = @ + 1]
    BY <1>1, <1>3
  <2>2. /\ submitted \in Nat /\ seen \in [Events -> Nat] /\ Len(inbound) \in Nat /\ depth \in Nat
        /\ book["ask"] + book["bid"] \in Nat
    BY InvTypes
  <2> QED
    BY <1>3, <1>4, <2>1, <2>2, OneHeard
<1>7. Accounted'
  BY <1>1, <1>3, <1>6, AccountedMeans
<1>8. WarmingUp'
  BY <1>1 DEF WarmingUp
<1> QED
  BY <1>3, <1>5, <1>7, <1>8 DEF Rest, Paired

LEMMA PushRest == ASSUME Inv, PushEvent PROVE Rest'
<1>1. /\ emit # <<>> /\ outbound' = Append(outbound, Head(emit)) /\ emit' = Tail(emit)
      /\ UNCHANGED <<depth, phase, placed, received, prod, inbound, book, submitted, seen>>
  BY DEF PushEvent, warmVars, counters
<1>2. outbound \in Seq(Events) /\ emit \in Seq(Events)
  BY InvTypes DEF DriverTypes
<1>3. Told' = Told
  <2>1. Told = outbound \o emit /\ Told' = Append(outbound, Head(emit)) \o Tail(emit)
    BY <1>1 DEF Told
  <2> QED
    BY <1>1, <1>2, <2>1, Pushed
<1>4. WarmingUp'
  BY <1>1, <1>3, InvTypes DEF WarmingUp, Events
<1>5. Accounted'
  BY <1>1, <1>3, InvTypes, AccountedMeans
<1> QED
  BY <1>3, <1>4, <1>5, InvTypes DEF Rest, Paired

\* Steps that no number notices.
Quiet ==
  /\ UNCHANGED <<depth, placed, received, inbound, outbound, book, emit, submitted, seen>>
  /\ \/ UNCHANGED <<phase, prod>>
     \/ phase = "work" /\ phase' \in {"work", "end"}

LEMMA QuietRest == Inv /\ Quiet => Rest'
<1> SUFFICES ASSUME Inv, Quiet PROVE Rest'
  OBVIOUS
<1> USE DEF Quiet
<1>1. Told' = Told
  BY DEF Told
<1>2. WarmingUp'
  BY <1>1, InvTypes DEF WarmingUp, Events
<1>3. Accounted'
  BY <1>1, InvTypes, AccountedMeans
<1> QED
  BY <1>1, <1>2, <1>3, InvTypes DEF Rest, Paired

LEMMA InvStep == ASSUME Inv, [DriverNext]_driverVars PROVE Inv'
<1>1. DriverTypes'
  BY InvTypes, TypeStep
<1>2. depth' \in Nat
  BY <1>1, StressAssumption DEF DriverTypes
<1>3. ASSUME NEW p \in Producers, Produce(p) PROVE Rest'
  <2>1. CASE Place(p)
    BY <2>1, PlaceRest
  <2>2. CASE Begin(p) \/ Leave(p)
    <3>1. Quiet
      BY <2>2 DEF Quiet, Begin, Leave, warmVars, engVars, counters
    <3> QED
      BY <3>1, QuietRest
  <2> QED
    BY <1>3, <2>1, <2>2 DEF Produce
<1>4. ASSUME Consume PROVE Rest'
  <2>1. CASE outbound # <<>>
    BY <1>4, <2>1, ConsumeRest
  <2>2. CASE outbound = <<>>
    <3>1. Quiet
      BY <1>4, <2>2 DEF Quiet, Consume, warmVars, engVars
    <3> QED
      BY <3>1, QuietRest
  <2> QED
    BY <2>1, <2>2
<1>5. ASSUME LookAtClock \/ TimePasses \/ Report \/ UNCHANGED driverVars PROVE Rest'
  <2>1. Quiet
    BY <1>5 DEF Quiet, LookAtClock, TimePasses, Report, driverVars, warmVars, engVars, counters
  <2> QED
    BY <2>1, QuietRest
<1>6. ASSUME Fill \/ Drain \/ Process \/ PushEvent PROVE Rest'
  BY <1>6, FillRest, DrainRest, ProcessRest, PushRest
<1>7. Rest'
  BY <1>3, <1>4, <1>5, <1>6 DEF DriverNext
<1> QED
  BY <1>1, <1>2, <1>7 DEF Rest, Inv, DriverInv

LEMMA InitInv == ASSUME DriverInit PROVE Inv
<1>1. /\ depth \in Depths /\ phase = "fill" /\ placed = 0 /\ received = 0 /\ submitted = 0
      /\ prod = [p \in Producers |-> "check"]
      /\ inbound = <<>> /\ outbound = <<>> /\ emit = <<>>
      /\ book = [side \in {"ask", "bid"} |-> 0] /\ seen = [e \in Events |-> 0]
  BY DEF DriverInit
<1>2. depth \in Nat /\ depth > 0
  BY <1>1, StressAssumption
<1>3. DriverTypes
  <2>1. /\ <<>> \in Seq({"ask", "bid", "buy", "sell"}) /\ <<>> \in Seq(Events)
    OBVIOUS
  <2> QED
    BY <1>1, <1>2, <2>1 DEF DriverInit, DriverTypes
<1>4. Told = <<>> /\ Len(Told) = 0 /\ DOMAIN Told = {}
  BY <1>1 DEF Told
<1>5. Paired(Told)
  BY <1>4 DEF Paired
<1>6. WarmingUp
  BY <1>1, <1>2, <1>4 DEF WarmingUp
<1>7. Accounted
  BY <1>1 DEF Accounted
<1> QED
  BY <1>2, <1>3, <1>5, <1>6, <1>7 DEF Inv, DriverInv

(***************************************************************************)
(* For any makers, takers, depths and rings: until the warm-up ends every  *)
(* order it has placed is on its way to the engine, rests and has been     *)
(* accepted, and nobody else is at work; a trade is followed by its fill;  *)
(* and after it the counts of orders, events and resting orders add up.    *)
(***************************************************************************)
THEOREM DriverInvariance == DriverSpec => []DriverInv
<1>1. DriverInit => Inv
  BY InitInv
<1>2. Inv /\ [DriverNext]_driverVars => Inv'
  BY InvStep
<1>3. Inv => DriverInv
  BY DEF Inv
<1> QED
  BY <1>1, <1>2, <1>3, PTL DEF DriverSpec

(***************************************************************************)
(* The report accounts for every order, every trade and its fill, and what *)
(* rests is what was accepted and not traded.                              *)
(***************************************************************************)
THEOREM ReportIsRight == DriverSpec => []ReportAccounts
<1>1. Inv => ReportAccounts
  <2> SUFFICES ASSUME Inv, phase = "end" PROVE ReportAccounts
    BY DEF ReportAccounts
  <2>1. Balance(submitted, seen, Len(inbound), Told, book["ask"] + book["bid"], depth)
    BY InvTypes, AccountedMeans
  <2>2. \A kinds : OnTheirWay(kinds) = Number(kinds, Told)
    BY DEF Number, OnTheirWay
  <2>3. submitted = seen["Accepted"] + seen["Filled"] + seen["Cancelled"]
                      + Len(inbound) + OnTheirWay(Events \ {"Trade"})
    BY <2>1, <2>2 DEF Balance, Answers
  <2>4. PICK a \in Nat, f \in Nat, t \in Nat, resting \in Nat, d \in Nat, y \in Nat, z \in Nat :
          /\ a = seen["Accepted"] /\ f = seen["Filled"] /\ t = seen["Trade"]
          /\ resting = book["ask"] + book["bid"] /\ d = depth
          /\ y = OnTheirWay({"Trade"}) /\ z = OnTheirWay({"Accepted"})
    BY <2>2, InvTypes, FourEvents, AmongFinite
  <2>5. t \in {f, f + 1} /\ resting + t + y = 2 * d + a + z
    <3>1. /\ seen["Trade"] = seen["Filled"] + (IF Told # <<>> /\ Told[1] = "Filled" THEN 1 ELSE 0)
          /\ (book["ask"] + book["bid"]) + seen["Trade"] + Number({"Trade"}, Told)
               = 2 * depth + seen["Accepted"] + Number({"Accepted"}, Told)
      BY <2>1 DEF Balance
    <3>2. y = Number({"Trade"}, Told) /\ z = Number({"Accepted"}, Told)
      BY <2>2, <2>4
    <3>3. PICK one \in {0, 1} : one = IF Told # <<>> /\ Told[1] = "Filled" THEN 1 ELSE 0
      OBVIOUS
    <3>4. t = f + one
      BY <2>4, <3>1, <3>3
    <3>5. resting + t + y = 2 * d + a + z
      BY <2>4, <3>1, <3>2
    <3> QED
      BY <3>4, <3>5
  <2>6. resting = 2 * d + a + z - t - y
    BY <2>5
  <2> QED
    BY <2>3, <2>4, <2>5, <2>6 DEF ReportAccounts
<1>2. DriverInit => Inv
  BY InitInv
<1>3. Inv /\ [DriverNext]_driverVars => Inv'
  BY InvStep
<1> QED
  BY <1>1, <1>2, <1>3, PTL DEF DriverSpec

\* While the warm-up submits, nobody polls: what is placed is in one of the rings
\* or is the one order that the engine has in its hands.
Holding ==
  /\ phase = "fill" => Len(inbound) <= InCap /\ Len(outbound) <= OutCap /\ Len(emit) <= 1
  /\ OnlyWhatFitsIsPlaced

LEMMA FillHolding == ASSUME Inv, Inv', Holding, Fill PROVE Holding'
<1>1. /\ phase = "fill" /\ phase' \in {"fill", "drain"}
      /\ UNCHANGED <<depth, outbound, emit>>
      /\ \E order \in Orders : Submit(order)
  BY DEF Fill, warmVars, engVars, Orders
<1>2. /\ inbound' \in Seq(Orders) /\ Len(inbound) < InCap /\ Len(inbound') = Len(inbound) + 1
      /\ Len(inbound) \in Nat /\ InCap \in Nat /\ OutCap \in Nat
  BY <1>1, InvTypes, SubmitTypes, StressAssumption DEF Submit, DriverTypes
<1>3. Len(inbound') <= InCap /\ Len(outbound') <= OutCap /\ Len(emit') <= 1
  BY <1>1, <1>2 DEF Holding
<1>4. ASSUME phase' = "drain" PROVE Fits'
  <2>1. /\ placed' = received' + Len(Told)' + Len(inbound') /\ placed' = 2 * depth'
        /\ received' = 0
    <3>1. WarmingUp'
      BY DEF Inv, DriverInv
    <3>2. received' = received /\ received = 0
      BY <1>1, InvTypes DEF WarmingUp, Fill
    <3> QED
      BY <1>4, <3>1, <3>2 DEF WarmingUp
  <2>2. Len(Told)' = Len(outbound') + Len(emit') /\ Len(outbound') \in Nat /\ Len(emit') \in Nat
    <3>1. outbound \in Seq(Events) /\ emit \in Seq(Events)
      BY InvTypes DEF DriverTypes
    <3> QED
      BY <1>1, <3>1, ConcatProperties DEF Told
  <2>3. PICK a \in Nat, b \in Nat, c \in Nat, d \in Nat :
          a = Len(outbound') /\ b = Len(emit') /\ c = Len(inbound') /\ d = depth'
    <3>1. depth \in Nat /\ depth' = depth
      BY <1>1 DEF Inv
    <3>2. Len(inbound') \in Nat
      BY <1>2
    <3> QED
      BY <2>2, <3>1, <3>2
  <2>4. d + d = a + b + c /\ a <= OutCap /\ b <= 1 /\ c <= InCap
    <3>1. 2 * d = 0 + (a + b) + c
      BY <2>1, <2>2, <2>3
    <3> QED
      BY <1>3, <2>3, <3>1
  <2>5. d + d <= InCap + OutCap + 1
    <3>1. \A m, n \in Nat : a <= n /\ b <= 1 /\ c <= m => a + b + c <= m + n + 1
      OBVIOUS
    <3> QED
      BY <1>2, <2>4, <3>1
  <2> QED
    BY <2>3, <2>5 DEF Fits
<1> QED
  BY <1>1, <1>3, <1>4 DEF Holding, OnlyWhatFitsIsPlaced

LEMMA EngineHolding ==
  ASSUME Inv, Holding, Process \/ PushEvent
  PROVE  Holding'
<1>1. UNCHANGED <<depth, phase>>
  BY DEF Process, PushEvent, warmVars
<1>2. OnlyWhatFitsIsPlaced'
  BY <1>1 DEF Holding, OnlyWhatFitsIsPlaced, Fits
<1>3. SUFFICES ASSUME phase = "fill"
               PROVE  Len(inbound') <= InCap /\ Len(outbound') <= OutCap /\ Len(emit') <= 1
  BY <1>1, <1>2 DEF Holding
<1>4. /\ inbound \in Seq(Orders) /\ outbound \in Seq(Events) /\ emit \in Seq(Events)
      /\ InCap \in Nat /\ OutCap \in Nat
  BY InvTypes, StressAssumption DEF DriverTypes, Orders
<1>5. Len(inbound) <= InCap /\ Len(outbound) <= OutCap /\ Len(emit) <= 1
  BY <1>3 DEF Holding
<1>6. CASE PushEvent
  <2>1. /\ emit # <<>> /\ Len(outbound) < OutCap /\ inbound' = inbound
        /\ outbound' = Append(outbound, Head(emit)) /\ emit' = Tail(emit)
    BY <1>6 DEF PushEvent
  <2>2. Len(outbound') = Len(outbound) + 1 /\ Len(emit') = Len(emit) - 1
        /\ Len(outbound) \in Nat /\ Len(emit) \in Nat
    BY <1>4, <2>1, AppendProperties, HeadTailProperties
  <2> QED
    BY <1>4, <1>5, <2>1, <2>2
<1>7. CASE Process
  <2>1. /\ inbound # <<>> /\ inbound' = Tail(inbound) /\ outbound' = outbound
    BY <1>7 DEF Process
  <2>2. Len(inbound') = Len(inbound) - 1 /\ Len(inbound) \in Nat /\ Head(inbound) = inbound[1]
        /\ 1 \in DOMAIN inbound
    BY <1>4, <2>1, HeadTailProperties
  <2>3. Head(inbound) \in {"ask", "bid"}
    BY <1>3, <2>2, InvTypes DEF WarmingUp
  <2>4. DOMAIN book = {"ask", "bid"}
    BY InvTypes DEF DriverTypes
  <2>5. emit' = <<"Accepted">>
    BY <1>7, <2>3, <2>4 DEF Process
  <2> QED
    BY <1>4, <1>5, <2>1, <2>2, <2>5
<1> QED
  BY <1>6, <1>7

LEMMA HoldingStep ==
  ASSUME Inv, Inv', Holding, [DriverNext]_driverVars
  PROVE  Holding'
<1>1. CASE Fill
  BY <1>1, FillHolding
<1>2. CASE Process \/ PushEvent
  BY <1>2, EngineHolding
<1>3. CASE \/ Drain \/ (\E p \in Producers : Produce(p))
           \/ Consume \/ LookAtClock \/ TimePasses \/ Report
  <2>1. phase # "fill" /\ phase' # "fill" /\ depth' = depth
    <3>1. CASE Drain
      BY <3>1 DEF Drain
    <3>2. ASSUME NEW p \in Producers, Produce(p) PROVE phase # "fill" /\ phase' = phase /\ depth' = depth
      <4>1. CASE Place(p)
        <5>1. prod[p] # "check"
          BY <4>1, InvTypes, PlaceMeans
        <5> QED
          BY <4>1, <5>1, InvTypes DEF WarmingUp, Place, warmVars
      <4>2. CASE Begin(p) \/ Leave(p)
        BY <4>2 DEF Begin, Leave, warmVars
      <4> QED
        BY <3>2, <4>1, <4>2 DEF Produce
    <3>3. CASE Consume \/ LookAtClock \/ TimePasses \/ Report
      BY <3>3 DEF Consume, LookAtClock, TimePasses, Report, warmVars
    <3> QED
      BY <1>3, <3>1, <3>2, <3>3
  <2> QED
    BY <2>1 DEF Holding, OnlyWhatFitsIsPlaced, Fits
<1>4. CASE UNCHANGED driverVars
  BY <1>4 DEF Holding, OnlyWhatFitsIsPlaced, Fits, driverVars, warmVars, engVars
<1> QED
  BY <1>1, <1>2, <1>3, <1>4 DEF DriverNext

(***************************************************************************)
(* The warm-up has submitted everything only for a depth whose orders fit, *)
(* but for one, into the two rings: for a greater one it never ends.       *)
(***************************************************************************)
THEOREM WarmupNeedsRoom == DriverSpec => []OnlyWhatFitsIsPlaced
<1>1. DriverInit => Inv /\ Holding
  <2>1. DriverInit => Holding
    BY StressAssumption DEF DriverInit, Holding, OnlyWhatFitsIsPlaced
  <2> QED
    BY <2>1, InitInv
<1>2. Inv /\ Holding /\ [DriverNext]_driverVars => (Inv /\ Holding)'
  BY InvStep, HoldingStep
<1>3. Holding => OnlyWhatFitsIsPlaced
  BY DEF Holding
<1> QED
  BY <1>1, <1>2, <1>3, PTL DEF DriverSpec

-----------------------------------------------------------------------------
(* The histogram: the maximum.                                             *)

USE HistogramAssumption DEF HistogramAssumption

LEMMA ClampPositive == ASSUME NEW ns \in Samples PROVE Clamp(ns) \in Nat \ {0}
  BY DEF Clamp

RecordTypes ==
  /\ count \in [Hists -> Nat] /\ max \in [Hists -> Nat]
  /\ pc \in [Recorders -> {"idle", "bucket", "count", "sum", "load", "cas"}]
  /\ log \in Seq(Entries)
  /\ at \in [Recorders -> 0 .. Len(log)]
  /\ cur \in [Recorders -> Nat]

MaxInv == RecordTypes /\ MaxExact /\ Raising

LEMMA EntryTyped == ASSUME NEW e \in Entries PROVE e.h \in Hists /\ e.ns \in Nat /\ e.ns > 0
<1>1. PICK ns \in Samples : e.ns = Clamp(ns)
  BY DEF Entries
<1> QED
  BY <1>1, ClampPositive DEF Entries

\* What the steps' proofs use of the types.
Typed ==
  /\ DOMAIN pc = Recorders /\ DOMAIN at = Recorders /\ DOMAIN cur = Recorders
  /\ DOMAIN max = Hists
  /\ \A h \in Hists : max[h] \in Nat
  /\ \A r \in Recorders : cur[r] \in Nat
  /\ \A k \in DOMAIN log : log[k].h \in Hists /\ log[k].ns \in Nat

LEMMA TypesTyped == RecordTypes => Typed
<1> SUFFICES ASSUME RecordTypes PROVE Typed
  OBVIOUS
<1>1. \A k \in DOMAIN log : log[k] \in Entries
  BY DEF RecordTypes
<1>2. \A k \in DOMAIN log : log[k].h \in Hists /\ log[k].ns \in Nat
  BY <1>1, EntryTyped
<1> QED
  BY <1>2 DEF RecordTypes, Typed

\* Who moves on without leaving, or enters with a new entry, keeps the others'
\* entries in progress.
LEMMA StaysInProgress ==
  ASSUME Typed, NEW r \in Recorders, NEW k, InProgress(k),
         NEW to, pc' = [pc EXCEPT ![r] = to], to # "idle",
         \/ UNCHANGED at
         \/ pc[r] = "idle" /\ \E new : at' = [at EXCEPT ![r] = new]
  PROVE  InProgress(k)'
<1>1. PICK q \in Recorders : pc[q] # "idle" /\ at[q] = k
  BY DEF InProgress
<1>2. pc'[q] # "idle" /\ at'[q] = k
  BY <1>1 DEF Typed
<1> QED
  BY <1>2 DEF InProgress

LEMMA InitMaxInv == Init => MaxInv
  BY DEF Init, MaxInv, RecordTypes, MaxExact, Raising, InProgress

\* A new entry of log is in progress; the others are as they were.
LEMMA RecordMaxInv ==
  ASSUME MaxInv, NEW r \in Recorders, NEW h \in Hists, NEW ns \in Samples, Record(r, h, ns)
  PROVE  MaxInv'
<1> DEFINE e == [h |-> h, ns |-> Clamp(ns)]
<1>0. PICK new : new = Len(log) + 1
  OBVIOUS
<1>1. log \in Seq(Entries) /\ e \in Entries
  BY ClampPositive DEF MaxInv, RecordTypes, Entries
<1>2. /\ log' \in Seq(Entries)
      /\ Len(log') = new /\ new \in DOMAIN log'
      /\ \A k \in DOMAIN log : k \in DOMAIN log' /\ log'[k] = log[k]
      /\ \A k \in DOMAIN log' : k \in DOMAIN log \/ k = new
  BY <1>0, <1>1 DEF Record
<1>3. /\ at' = [at EXCEPT ![r] = new] /\ pc' = [pc EXCEPT ![r] = "bucket"]
      /\ pc[r] = "idle" /\ UNCHANGED <<count, max, cur>>
  BY <1>0 DEF Record, GoTo, histVars
<1>4. Typed
  BY TypesTyped DEF MaxInv
<1>5. RecordTypes'
  <2>1. new \in 0 .. Len(log') /\ \A i \in 0 .. Len(log) : i \in 0 .. Len(log')
    BY <1>1, <1>2
  <2> QED
    BY <1>2, <1>3, <2>1 DEF MaxInv, RecordTypes
<1>6. MaxExact'
  <2>1. ASSUME NEW k, InProgress(k) PROVE InProgress(k)'
    <3>1. \E n : at' = [at EXCEPT ![r] = n]
      BY <1>3
    <3> QED
      BY <1>3, <1>4, <2>1, <3>1, StaysInProgress
  <2>2. InProgress(new)'
    <3>1. pc'[r] # "idle" /\ at'[r] = new
      BY <1>3, <1>4 DEF Typed
    <3> QED
      BY <3>1 DEF InProgress
  <2>3. ASSUME NEW k \in DOMAIN log', ~InProgress(k)' PROVE log'[k].ns <= max'[log'[k].h]
    <3>1. k # new
      BY <2>2, <2>3
    <3>2. k \in DOMAIN log /\ log'[k] = log[k]
      BY <1>2, <3>1
    <3>3. ~InProgress(k)
      BY <2>1, <2>3
    <3> QED
      BY <1>3, <3>2, <3>3 DEF MaxExact, MaxInv
  <2>4. ASSUME NEW g \in Hists
        PROVE  max'[g] = 0 \/ \E k \in DOMAIN log' : log'[k] = [h |-> g, ns |-> max'[g]]
    BY <1>2, <1>3 DEF MaxExact, MaxInv
  <2> QED
    BY <2>3, <2>4 DEF MaxExact
<1>7. Raising'
  <2> SUFFICES ASSUME NEW q \in Recorders
               PROVE  /\ pc'[q] # "idle" => at'[q] \in DOMAIN log'
                      /\ pc'[q] = "cas" => cur'[q] < log'[at'[q]].ns
    BY DEF Raising, Sample
  <2>1. CASE q = r
    BY <1>2, <1>3, <1>4, <2>1 DEF Typed
  <2>2. CASE q # r
    <3>1. pc'[q] = pc[q] /\ at'[q] = at[q] /\ cur'[q] = cur[q]
      BY <1>3, <1>4, <2>2 DEF Typed
    <3>2. /\ pc[q] # "idle" => at[q] \in DOMAIN log
          /\ pc[q] = "cas" => cur[q] < log[at[q]].ns
      BY DEF MaxInv, Raising, Sample
    <3> QED
      BY <1>2, <3>1, <3>2
  <2> QED
    BY <2>1, <2>2
<1> QED
  BY <1>5, <1>6, <1>7 DEF MaxInv

\* The three additions concern neither the maximum nor who is in progress.
LEMMA AddMaxInv ==
  ASSUME MaxInv, NEW r \in Recorders, AddBucket(r) \/ AddCount(r) \/ AddSum(r)
  PROVE  MaxInv'
<1>1. /\ UNCHANGED <<max, at, cur, log>>
      /\ count' \in [Hists -> Nat]
  <2>1. pc[r] # "idle" /\ UNCHANGED <<max, at, cur, log>>
    BY DEF AddBucket, AddCount, AddSum, GoTo
  <2>2. Home(r) \in Hists
    BY <2>1, TypesTyped DEF MaxInv, Typed, Raising, Home
  <2>3. count' = count \/ count' = [count EXCEPT ![Home(r)] = @ + 1]
    BY DEF AddBucket, AddCount, AddSum
  <2>4. count \in [Hists -> Nat]
    BY DEF MaxInv, RecordTypes
  <2> QED
    BY <2>1, <2>2, <2>3, <2>4
<1>2. PICK to \in {"count", "sum", "load"} : pc[r] # "idle" /\ pc' = [pc EXCEPT ![r] = to]
  BY DEF AddBucket, AddCount, AddSum, GoTo
<1>3. \A q \in Recorders : /\ pc'[q] = "idle" <=> pc[q] = "idle"
                           /\ pc'[q] = "cas" => pc[q] = "cas"
  BY <1>2, TypesTyped DEF MaxInv, Typed
<1>4. RecordTypes'
  BY <1>1, <1>2 DEF MaxInv, RecordTypes
<1> QED
  BY <1>1, <1>3, <1>4 DEF MaxInv, MaxExact, Raising, InProgress, Sample

\* What is known of a recorder that is about to look at the maximum.
LEMMA AtMaximum ==
  ASSUME MaxInv, NEW r \in Recorders, pc[r] \in {"load", "cas"}
  PROVE  /\ at[r] \in DOMAIN log
         /\ Home(r) \in Hists /\ Home(r) = log[at[r]].h
         /\ Sample(r) \in Nat /\ Sample(r) = log[at[r]].ns
         /\ log[at[r]] = [h |-> Home(r), ns |-> Sample(r)]
         /\ pc[r] = "cas" => cur[r] < Sample(r)
<1>1. at[r] \in DOMAIN log /\ (pc[r] = "cas" => cur[r] < Sample(r))
  BY DEF MaxInv, Raising
<1>2. log[at[r]] \in Entries
  BY <1>1 DEF MaxInv, RecordTypes
<1>3. log[at[r]].h \in Hists /\ log[at[r]].ns \in Nat
  BY <1>2, EntryTyped
<1>4. log[at[r]] = [h |-> log[at[r]].h, ns |-> log[at[r]].ns]
  BY <1>2 DEF Entries
<1> QED
  BY <1>1, <1>3, <1>4 DEF Home, Sample

\* A recorder leaves when the maximum it loads is not below its sample.
LEMMA LoadMaxInv ==
  ASSUME MaxInv, NEW r \in Recorders, LoadMax(r)
  PROVE  MaxInv'
<1> DEFINE m == max[Home(r)]
           to == IF Sample(r) <= m THEN "idle" ELSE "cas"
<1>1. /\ pc[r] = "load" /\ pc' = [pc EXCEPT ![r] = to] /\ cur' = [cur EXCEPT ![r] = m]
      /\ UNCHANGED <<count, max, at, log>>
  BY DEF LoadMax, GoTo, histVars
<1>2. Typed
  BY TypesTyped DEF MaxInv
<1>3. /\ at[r] \in DOMAIN log /\ Home(r) = log[at[r]].h /\ Sample(r) = log[at[r]].ns
      /\ Sample(r) \in Nat /\ m \in Nat
  BY <1>1, <1>2, AtMaximum DEF Typed
<1>4. RecordTypes'
  BY <1>1, <1>3 DEF MaxInv, RecordTypes
<1>5. MaxExact'
  <2> SUFFICES ASSUME NEW k \in DOMAIN log, ~InProgress(k)'
               PROVE  log[k].ns <= max[log[k].h]
    BY <1>1 DEF MaxExact, MaxInv
  <2>1. CASE InProgress(k)
    <3>1. to = "idle"
      BY <1>1, <1>2, <2>1, StaysInProgress
    <3>2. PICK q \in Recorders : pc[q] # "idle" /\ at[q] = k
      BY <2>1 DEF InProgress
    <3>3. q = r
      BY <1>1, <1>2, <3>2 DEF InProgress, Typed
    <3> QED
      BY <1>3, <3>1, <3>2, <3>3
  <2>2. CASE ~InProgress(k)
    BY <2>2 DEF MaxExact, MaxInv
  <2> QED
    BY <2>1, <2>2
<1>6. Raising'
  <2> SUFFICES ASSUME NEW q \in Recorders
               PROVE  /\ pc'[q] # "idle" => at[q] \in DOMAIN log
                      /\ pc'[q] = "cas" => cur'[q] < log[at[q]].ns
    BY <1>1 DEF Raising, Sample
  <2>1. CASE q = r
    BY <1>1, <1>2, <1>3, <2>1 DEF Typed
  <2>2. CASE q # r
    BY <1>1, <1>2, <2>2 DEF Typed, MaxInv, Raising, Sample
  <2> QED
    BY <2>1, <2>2
<1> QED
  BY <1>4, <1>5, <1>6 DEF MaxInv

\* A compare-and-swap that succeeds only ever raises the maximum.
LEMMA CasMaxInv ==
  ASSUME MaxInv, NEW r \in Recorders, CasMax(r)
  PROVE  MaxInv'
<1> DEFINE h == Home(r)
<1>1. pc[r] = "cas" /\ UNCHANGED <<count, at, cur, log>>
  BY DEF CasMax
<1>2. Typed
  BY TypesTyped DEF MaxInv
<1>3. /\ at[r] \in DOMAIN log /\ h \in Hists
      /\ h = log[at[r]].h /\ Sample(r) = log[at[r]].ns
      /\ log[at[r]] = [h |-> h, ns |-> Sample(r)]
      /\ Sample(r) \in Nat /\ cur[r] < Sample(r)
  BY <1>1, AtMaximum
<1>4. PICK to \in {"idle", "load"} : pc' = [pc EXCEPT ![r] = to]
  BY DEF CasMax, GoTo
<1>5. Raising'
  <2>1. \A q \in Recorders : /\ pc'[q] # "idle" => pc[q] # "idle"
                             /\ pc'[q] = "cas" => pc[q] = "cas"
    BY <1>1, <1>2, <1>4 DEF Typed
  <2> QED
    BY <1>1, <2>1 DEF MaxInv, Raising, Sample
<1>6. CASE max[h] = cur[r]
  <2>1. max' = [max EXCEPT ![h] = Sample(r)]
    BY <1>6 DEF CasMax
  <2>2. /\ \A g \in Hists : max'[g] \in Nat /\ max[g] <= max'[g]
        /\ max'[h] = Sample(r) /\ \A g \in Hists \ {h} : max'[g] = max[g]
    BY <1>2, <1>3, <1>6, <2>1 DEF Typed
  <2>3. RecordTypes'
    BY <1>1, <1>3, <1>4, <2>1 DEF MaxInv, RecordTypes
  <2>4. ASSUME NEW k \in DOMAIN log, ~InProgress(k)'
        PROVE  log[k].ns <= max'[log[k].h]
    <3>1. CASE k = at[r]
      BY <1>3, <2>2, <3>1
    <3>2. CASE k # at[r]
      <4>1. ~InProgress(k)
        BY <1>1, <1>2, <1>4, <2>4, <3>2 DEF InProgress, Typed
      <4>2. log[k].ns <= max[log[k].h]
        BY <4>1 DEF MaxInv, MaxExact
      <4>3. log[k].h \in Hists /\ log[k].ns \in Nat /\ max[log[k].h] \in Nat
        BY <1>2 DEF Typed
      <4> QED
        BY <2>2, <4>2, <4>3
    <3> QED
      BY <3>1, <3>2
  <2>5. ASSUME NEW g \in Hists
        PROVE  max'[g] = 0 \/ \E k \in DOMAIN log : log[k] = [h |-> g, ns |-> max'[g]]
    BY <1>3, <2>2 DEF MaxInv, MaxExact
  <2>6. MaxExact'
    BY <1>1, <2>4, <2>5 DEF MaxExact
  <2> QED
    BY <1>5, <2>3, <2>6 DEF MaxInv
<1>7. CASE max[h] # cur[r]
  <2>1. pc' = [pc EXCEPT ![r] = "load"] /\ UNCHANGED max
    BY <1>7 DEF CasMax, GoTo
  <2>2. RecordTypes'
    BY <1>1, <2>1 DEF MaxInv, RecordTypes
  <2>3. \A k : InProgress(k) => InProgress(k)'
    BY <1>1, <1>2, <2>1, StaysInProgress
  <2>4. MaxExact'
    BY <1>1, <2>1, <2>3 DEF MaxInv, MaxExact
  <2> QED
    BY <1>5, <2>2, <2>4 DEF MaxInv
<1> QED
  BY <1>6, <1>7

LEMMA MaxStep ==
  ASSUME MaxInv, [Next]_vars
  PROVE  MaxInv'
<1>1. ASSUME NEW r \in Recorders, NEW h \in Hists, NEW ns \in Samples, Record(r, h, ns)
      PROVE  MaxInv'
  BY <1>1, RecordMaxInv
<1>2. ASSUME NEW r \in Recorders, RecordStep(r) PROVE MaxInv'
  BY <1>2, AddMaxInv, LoadMaxInv, CasMaxInv DEF RecordStep
<1>3. CASE (\E h \in Hists : Percentile(h) \/ Merge(h)) \/ ReadBucket \/ Answered
           \/ UNCHANGED vars
  <2>1. UNCHANGED <<count, max, pc, at, cur, log>>
    BY <1>3 DEF Percentile, Merge, ReadBucket, Answered, vars, histVars
  <2> QED
    BY <2>1 DEF MaxInv, RecordTypes, MaxExact, Raising, InProgress, Sample
<1> QED
  BY <1>1, <1>2, <1>3 DEF Next

-----------------------------------------------------------------------------
(* Sums of buckets.                                                        *)

LEMMA CountIs == ASSUME NEW f, NEW b PROVE SampleCount(f, b) = Cardinality(Units(0 .. b, f))
  BY DEF SampleCount, SumOver, Units

LEMMA CountTyped ==
  ASSUME NEW f \in [Bins -> Nat], NEW b \in -1 .. K - 1
  PROVE  SampleCount(f, b) \in Nat
<1>1. IsFiniteSet(0 .. b)
  BY FS_Interval
<1>2. \A i \in 0 .. b : f[i] \in Nat
  BY DEF Bins
<1> QED
  BY <1>1, <1>2, CountIs, UnitsFinite

LEMMA CountNone == ASSUME NEW f PROVE SampleCount(f, -1) = 0
<1>1. 0 .. -1 = {}
  OBVIOUS
<1> QED
  BY <1>1, CountIs, UnitsOfNone

LEMMA CountNext ==
  ASSUME NEW f \in [Bins -> Nat], NEW b \in Bins
  PROVE  SampleCount(f, b) = SampleCount(f, b - 1) + f[b]
<1>1. b \in Nat /\ \A i \in 0 .. b : f[i] \in Nat
  BY DEF Bins
<1> QED
  BY <1>1, CountIs, UnitsUpTo

LEMMA CountGrows ==
  ASSUME NEW f \in [Bins -> Nat], NEW g \in [Bins -> Nat], \A i \in Bins : f[i] <= g[i],
         NEW b \in -1 .. K - 1
  PROVE  SampleCount(f, b) <= SampleCount(g, b)
<1>1. IsFiniteSet(0 .. b)
  BY FS_Interval
<1>2. \A i \in 0 .. b : f[i] \in Nat /\ g[i] \in Nat /\ f[i] <= g[i]
  BY DEF Bins
<1> QED
  BY <1>1, <1>2, CountIs, UnitsGrow

LEMMA CountRaised ==
  ASSUME NEW f \in [Bins -> Nat], NEW g, NEW b \in Bins, g = [f EXCEPT ![b] = @ + 1]
  PROVE  /\ g \in [Bins -> Nat] /\ \A i \in Bins : f[i] <= g[i]
         /\ SampleCount(g, K - 1) = SampleCount(f, K - 1) + 1
<1>1. g \in [Bins -> Nat] /\ \A i \in Bins : f[i] <= g[i]
  OBVIOUS
<1>2. g[b] = f[b] + 1 /\ \A i \in Bins : i # b => g[i] = f[i]
  OBVIOUS
<1>3. IsFiniteSet(Bins) /\ \A i \in Bins : f[i] \in Nat
  <2>1. IsFiniteSet(Bins)
    BY FS_Interval DEF Bins
  <2> QED
    BY <2>1
<1>4. Cardinality(Units(Bins, g)) = Cardinality(Units(Bins, f)) + 1
  BY <1>2, <1>3, UnitsRaised
<1>6. /\ SampleCount(g, K - 1) = Cardinality(Units(Bins, g))
      /\ SampleCount(f, K - 1) = Cardinality(Units(Bins, f))
  BY CountIs DEF Bins
<1> QED
  BY <1>1, <1>4, <1>6

-----------------------------------------------------------------------------
(* The calls that are past a step.                                         *)

OtherTypes ==
  /\ buckets \in [Hists -> [Bins -> Nat]]
  /\ sum \in [Hists -> Nat]
  /\ reader \in [h : Hists \cup {"none"}, target : Nat, pos : 0 .. K, cum : Nat,
                 answer : {None} \cup {Midpoint(b) : b \in Bins} \cup Nat, began : [Bins -> Nat]]
  /\ merged \in [buckets : [Bins -> Nat], count : Nat, sum : Nat, max : Nat]
  /\ left \subseteq Hists

LEMMA InvMeans == IInv <=> MaxInv /\ OtherTypes /\ Counted /\ Scanning /\ Merging
  BY DEF IInv, MaxInv, TypeOK, RecordTypes, OtherTypes

LEMMA InvMeansNext == IInv' <=> (MaxInv /\ OtherTypes /\ Counted /\ Scanning /\ Merging)'
  BY DEF IInv, MaxInv, TypeOK, RecordTypes, OtherTypes

OneEach == \A r, q \in Recorders : pc[r] # "idle" /\ at[r] = at[q] => r = q

LEMMA BinTyped == ASSUME NEW e \in Entries PROVE Bin(e.ns) \in Bins
<1>1. PICK ns \in Samples : e.ns = Clamp(ns)
  BY DEF Entries
<1>2. \E b \in Bins : Falls(e.ns, b)
  BY <1>1
<1> QED
  BY <1>2 DEF Bin

LEMMA InHand ==
  ASSUME MaxInv, NEW r \in Recorders, pc[r] # "idle"
  PROVE  /\ at[r] \in DOMAIN log
         /\ Home(r) \in Hists /\ Home(r) = log[at[r]].h
         /\ Sample(r) \in Nat /\ Sample(r) = log[at[r]].ns
         /\ Bin(Sample(r)) \in Bins
<1>1. at[r] \in DOMAIN log
  BY DEF MaxInv, Raising
<1>2. log[at[r]] \in Entries
  BY <1>1 DEF MaxInv, RecordTypes
<1> QED
  BY <1>1, <1>2, EntryTyped, BinTyped DEF Home, Sample

LEMMA PastFinite ==
  ASSUME RecordTypes, NEW h, NEW steps
  PROVE  /\ Past(h, steps) \subseteq DOMAIN log /\ IsFiniteSet(Past(h, steps))
         /\ Cardinality(Past(h, steps)) \in Nat
         /\ \A k \in DOMAIN log : Ns[k] \in Nat /\ Ns[k] = log[k].ns
<1>1. log \in Seq(Entries) /\ DOMAIN log = 1 .. Len(log) /\ Len(log) \in Nat
  BY DEF RecordTypes
<1>2. IsFiniteSet(DOMAIN log)
  BY <1>1, FS_Interval
<1>3. Past(h, steps) \in SUBSET DOMAIN log
  BY DEF Past
<1>4. IsFiniteSet(Past(h, steps)) /\ Cardinality(Past(h, steps)) \in Nat
  BY <1>2, <1>3, FS_Subset, FS_CardinalityType
<1> QED
  BY <1>3, <1>4, TypesTyped DEF Typed, Ns

(* A call takes a step.                                                    *)
Moves(r, to) ==
  /\ Typed /\ OneEach
  /\ pc[r] # "idle" /\ at[r] \in DOMAIN log
  /\ pc' = [pc EXCEPT ![r] = to] /\ UNCHANGED <<at, log>>

LEMMA MovesMeans ==
  ASSUME NEW r \in Recorders, NEW to, Moves(r, to), NEW k \in DOMAIN log, NEW steps
  PROVE  (\A q \in Recorders : at'[q] = k => pc'[q] \notin steps)
           <=> IF k = at[r] THEN to \notin steps
                            ELSE \A q \in Recorders : at[q] = k => pc[q] \notin steps
<1>1. pc'[r] = to /\ \A q \in Recorders : q # r => pc'[q] = pc[q] /\ at[q] # at[r]
  BY DEF Moves, Typed, OneEach
<1>2. at' = at
  BY DEF Moves
<1> QED
  BY <1>1, <1>2

LEMMA PastSame ==
  ASSUME NEW r \in Recorders, NEW to, Moves(r, to), NEW h, NEW steps,
         pc[r] \in steps <=> to \in steps
  PROVE  Past(h, steps)' = Past(h, steps)
<1>1. log' = log /\ \A q \in Recorders : at[q] = at[r] => q = r
  BY DEF Moves, OneEach
<1>2. \A k \in DOMAIN log :
        (\A q \in Recorders : at'[q] = k => pc'[q] \notin steps)
          <=> (\A q \in Recorders : at[q] = k => pc[q] \notin steps)
  BY <1>1, MovesMeans
<1> QED
  BY <1>1, <1>2 DEF Past

LEMMA PastOther ==
  ASSUME NEW r \in Recorders, NEW to, Moves(r, to), NEW h, NEW steps, log[at[r]].h # h
  PROVE  Past(h, steps)' = Past(h, steps)
<1>1. log' = log
  BY DEF Moves
<1>2. \A k \in DOMAIN log : log[k].h = h =>
        ((\A q \in Recorders : at'[q] = k => pc'[q] \notin steps)
           <=> (\A q \in Recorders : at[q] = k => pc[q] \notin steps))
  BY MovesMeans
<1> QED
  BY <1>1, <1>2 DEF Past

LEMMA PastMore ==
  ASSUME NEW r \in Recorders, NEW to, Moves(r, to), NEW h, NEW steps, log[at[r]].h = h,
         pc[r] \in steps, to \notin steps
  PROVE  at[r] \notin Past(h, steps) /\ Past(h, steps)' = Past(h, steps) \cup {at[r]}
<1>1. log' = log /\ at[r] \in DOMAIN log
  BY DEF Moves
<1>2. \A k \in DOMAIN log :
        (\A q \in Recorders : at'[q] = k => pc'[q] \notin steps)
          <=> IF k = at[r] THEN TRUE
                           ELSE \A q \in Recorders : at[q] = k => pc[q] \notin steps
  BY MovesMeans
<1> QED
  BY <1>1, <1>2 DEF Past

(* When nobody is inside Record, all calls are past everything.            *)
LEMMA PastAll ==
  ASSUME \A r \in Recorders : pc[r] = "idle", NEW h, NEW steps, "idle" \notin steps
  PROVE  Past(h, steps) = {k \in DOMAIN log : log[k].h = h}
  BY DEF Past

-----------------------------------------------------------------------------
(* Record keeps the sums.                                                  *)

\* What the sums of one histogram are.
CountedIn(h) ==
  /\ \A b \in Bins : buckets[h][b] = Cardinality(InBin(Past(h, {"bucket"}), b))
  /\ SampleCount(buckets[h], K - 1) = Cardinality(Past(h, {"bucket"}))
  /\ count[h] = Cardinality(Past(h, {"bucket", "count"}))
  /\ sum[h] = SumOver(Ns, Past(h, {"bucket", "count", "sum"}))

LEMMA CountedMeans ==
  /\ Counted <=> OneEach /\ \A h \in Hists : CountedIn(h)
  /\ Counted' <=> OneEach' /\ \A h \in Hists : CountedIn(h)'
  BY DEF Counted, CountedIn, OneEach

LEMMA SumIs == ASSUME NEW f, NEW S PROVE SumOver(f, S) = Cardinality(Units(S, f))
  BY DEF SumOver, Units

Sums == {{"bucket"}, {"bucket", "count"}, {"bucket", "count", "sum"}}

(* A step that no sum notices.                                             *)
LEMMA CountedKept ==
  ASSUME NEW h, CountedIn(h), UNCHANGED <<buckets, count, sum, log>>,
         \A steps \in Sums : Past(h, steps)' = Past(h, steps)
  PROVE  CountedIn(h)'
  BY DEF CountedIn, InBin, Ns, Sums

LEMMA OneEachMoves == ASSUME NEW r \in Recorders, NEW to, Moves(r, to) PROVE OneEach'
  BY DEF Moves, Typed, OneEach

(* The looks at the maximum.                                               *)
LEMMA MaximumCounts ==
  ASSUME MaxInv, Counted, NEW r \in Recorders, LoadMax(r) \/ CasMax(r)
  PROVE  Counted'
<1>1. /\ pc[r] \in {"load", "cas"} /\ UNCHANGED <<buckets, count, sum, at, log>>
      /\ \E to \in {"idle", "load", "cas"} : pc' = [pc EXCEPT ![r] = to]
  BY DEF LoadMax, CasMax, GoTo, histVars
<1>2. PICK to \in {"idle", "load", "cas"} : pc' = [pc EXCEPT ![r] = to]
  BY <1>1
<1>3. Moves(r, to)
  BY <1>1, <1>2, TypesTyped, CountedMeans, InHand DEF MaxInv, Moves
<1>4. ASSUME NEW h \in Hists PROVE CountedIn(h)'
  <2>1. \A steps \in Sums : pc[r] \in steps <=> to \in steps
    BY <1>1 DEF Sums
  <2>2. \A steps \in Sums : Past(h, steps)' = Past(h, steps)
    BY <1>3, <2>1, PastSame
  <2> QED
    BY <1>1, <2>2, CountedMeans, CountedKept
<1> QED
  BY <1>3, <1>4, OneEachMoves, CountedMeans

(* The call that takes a step, and the sums of a histogram it is not for.  *)
LEMMA OthersCounted ==
  ASSUME NEW r \in Recorders, NEW to, Moves(r, to), NEW h, CountedIn(h), log[at[r]].h # h,
         buckets'[h] = buckets[h], count'[h] = count[h], sum'[h] = sum[h]
  PROVE  CountedIn(h)'
<1>1. \A steps \in Sums : Past(h, steps)' = Past(h, steps)
  BY PastOther
<1>2. log' = log
  BY DEF Moves
<1> QED
  BY <1>1, <1>2 DEF CountedIn, InBin, Ns, Sums

LEMMA BucketCounts ==
  ASSUME MaxInv, OtherTypes, Counted, NEW r \in Recorders, AddBucket(r)
  PROVE  Counted'
<1>1. PICK a : a = at[r]
  OBVIOUS
<1>2. PICK h : h = Home(r)
  OBVIOUS
<1>3. PICK b : b = Bin(Sample(r))
  OBVIOUS
<1>4. /\ pc[r] = "bucket" /\ pc' = [pc EXCEPT ![r] = "count"]
      /\ UNCHANGED <<count, sum, at, log>>
      /\ buckets' = [buckets EXCEPT ![h][b] = @ + 1]
  BY <1>2, <1>3 DEF AddBucket, GoTo
<1>5. /\ a \in DOMAIN log /\ h \in Hists /\ h = log[a].h /\ b = Bin(log[a].ns) /\ b \in Bins
  BY <1>1, <1>2, <1>3, <1>4, InHand
<1>6. Moves(r, "count")
  BY <1>4, TypesTyped, CountedMeans, InHand DEF MaxInv, Moves
<1>7. ASSUME NEW g \in Hists, g # h PROVE CountedIn(g)'
  <2>1. buckets'[g] = buckets[g] /\ count'[g] = count[g] /\ sum'[g] = sum[g]
    BY <1>4, <1>7 DEF OtherTypes
  <2> QED
    BY <1>1, <1>5, <1>6, <1>7, <2>1, CountedMeans, OthersCounted
<1>8. CountedIn(h)'
  <2>1. PICK P : P = Past(h, {"bucket"})
    OBVIOUS
  <2>2. a \notin P /\ Past(h, {"bucket"})' = P \cup {a}
    <3>1. pc[r] \in {"bucket"} /\ "count" \notin {"bucket"} /\ log[at[r]].h = h
      BY <1>1, <1>4, <1>5
    <3>2. at[r] \notin Past(h, {"bucket"}) /\ Past(h, {"bucket"})' = Past(h, {"bucket"}) \cup {at[r]}
      BY <1>6, <3>1, PastMore
    <3> QED
      BY <1>1, <2>1, <3>2
  <2>3. /\ Past(h, {"bucket", "count"})' = Past(h, {"bucket", "count"})
        /\ Past(h, {"bucket", "count", "sum"})' = Past(h, {"bucket", "count", "sum"})
    BY <1>4, <1>6, PastSame
  <2>4. IsFiniteSet(P) /\ Cardinality(P) \in Nat
    BY <2>1, PastFinite DEF MaxInv
  <2>5. /\ buckets[h] \in [Bins -> Nat] /\ buckets'[h] = [buckets[h] EXCEPT ![b] = @ + 1]
    BY <1>4, <1>5 DEF OtherTypes
  <2>6. SampleCount(buckets'[h], K - 1) = SampleCount(buckets[h], K - 1) + 1
    BY <1>5, <2>5, CountRaised
  <2>7. CountedIn(h)
    BY <1>5, CountedMeans
  <2>8. SampleCount(buckets'[h], K - 1) = Cardinality(P \cup {a})
    <3>1. Cardinality(P \cup {a}) = Cardinality(P) + 1
      BY <2>2, <2>4, FS_AddElement
    <3> QED
      BY <2>1, <2>6, <2>7, <3>1 DEF CountedIn
  <2>9. ASSUME NEW c \in Bins PROVE buckets'[h][c] = Cardinality(InBin(P \cup {a}, c))
    <3>1. buckets[h][c] = Cardinality(InBin(P, c))
      BY <2>1, <2>7 DEF CountedIn
    <3>2. CASE c = b
      <4>1. InBin(P \cup {a}, c) = InBin(P, c) \cup {a} /\ a \notin InBin(P, c)
        BY <1>5, <2>2, <3>2 DEF InBin
      <4>2. IsFiniteSet(InBin(P, c))
        <5>1. InBin(P, c) \in SUBSET P
          BY DEF InBin
        <5> QED
          BY <2>4, <5>1, FS_Subset
      <4>3. Cardinality(InBin(P \cup {a}, c)) = Cardinality(InBin(P, c)) + 1
        BY <4>1, <4>2, FS_AddElement
      <4> QED
        BY <2>5, <3>1, <3>2, <4>3
    <3>3. CASE c # b
      <4>1. InBin(P \cup {a}, c) = InBin(P, c)
        BY <1>5, <3>3 DEF InBin
      <4> QED
        BY <2>5, <3>1, <3>3, <4>1
    <3> QED
      BY <3>2, <3>3
  <2>10. \A S, c : InBin(S, c)' = InBin(S, c)
    BY <1>4 DEF InBin
  <2>11. Ns' = Ns
    BY <1>4 DEF Ns
  <2> QED
    BY <1>4, <2>2, <2>3, <2>7, <2>8, <2>9, <2>10, <2>11 DEF CountedIn
<1> QED
  BY <1>6, <1>7, <1>8, OneEachMoves, CountedMeans

LEMMA CountCounts ==
  ASSUME MaxInv, OtherTypes, Counted, NEW r \in Recorders, AddCount(r)
  PROVE  Counted'
<1>1. PICK a : a = at[r]
  OBVIOUS
<1>2. PICK h : h = Home(r)
  OBVIOUS
<1>3. /\ pc[r] = "count" /\ pc' = [pc EXCEPT ![r] = "sum"]
      /\ UNCHANGED <<buckets, sum, at, log>>
      /\ count' = [count EXCEPT ![h] = @ + 1]
  BY <1>2 DEF AddCount, GoTo
<1>4. a \in DOMAIN log /\ h \in Hists /\ h = log[a].h
  BY <1>1, <1>2, <1>3, InHand
<1>5. Moves(r, "sum")
  BY <1>3, TypesTyped, CountedMeans, InHand DEF MaxInv, Moves
<1>6. count \in [Hists -> Nat]
  BY DEF MaxInv, RecordTypes
<1>7. ASSUME NEW g \in Hists, g # h PROVE CountedIn(g)'
  <2>1. buckets'[g] = buckets[g] /\ count'[g] = count[g] /\ sum'[g] = sum[g]
    BY <1>3, <1>6, <1>7
  <2> QED
    BY <1>1, <1>4, <1>5, <1>7, <2>1, CountedMeans, OthersCounted
<1>8. CountedIn(h)'
  <2>1. PICK P : P = Past(h, {"bucket", "count"})
    OBVIOUS
  <2>2. a \notin P /\ Past(h, {"bucket", "count"})' = P \cup {a}
    <3>1. pc[r] \in {"bucket", "count"} /\ "sum" \notin {"bucket", "count"} /\ log[at[r]].h = h
      BY <1>1, <1>3, <1>4
    <3>2. /\ at[r] \notin Past(h, {"bucket", "count"})
          /\ Past(h, {"bucket", "count"})' = Past(h, {"bucket", "count"}) \cup {at[r]}
      BY <1>5, <3>1, PastMore
    <3> QED
      BY <1>1, <2>1, <3>2
  <2>3. /\ Past(h, {"bucket"})' = Past(h, {"bucket"})
        /\ Past(h, {"bucket", "count", "sum"})' = Past(h, {"bucket", "count", "sum"})
    <3>1. /\ pc[r] \in {"bucket"} <=> "sum" \in {"bucket"}
          /\ pc[r] \in {"bucket", "count", "sum"} <=> "sum" \in {"bucket", "count", "sum"}
      BY <1>3
    <3> QED
      BY <1>5, <3>1, PastSame
  <2>4. IsFiniteSet(P) /\ Cardinality(P) \in Nat
    BY <2>1, PastFinite DEF MaxInv
  <2>5. CountedIn(h)
    BY <1>4, CountedMeans
  <2>6. count'[h] = Cardinality(P \cup {a})
    <3>1. Cardinality(P \cup {a}) = Cardinality(P) + 1
      BY <2>2, <2>4, FS_AddElement
    <3>2. count'[h] = count[h] + 1
      BY <1>3, <1>4, <1>6
    <3> QED
      BY <2>1, <2>5, <3>1, <3>2 DEF CountedIn
  <2>7. Ns' = Ns /\ \A S, b : InBin(S, b)' = InBin(S, b)
    BY <1>3 DEF InBin, Ns
  <2> QED
    BY <1>3, <2>2, <2>3, <2>5, <2>6, <2>7 DEF CountedIn
<1> QED
  BY <1>5, <1>7, <1>8, OneEachMoves, CountedMeans

LEMMA SumCounts ==
  ASSUME MaxInv, OtherTypes, Counted, NEW r \in Recorders, AddSum(r)
  PROVE  Counted'
<1> DEFINE all == {"bucket", "count", "sum"}
<1>1. PICK a : a = at[r]
  OBVIOUS
<1>2. PICK h : h = Home(r)
  OBVIOUS
<1>3. /\ pc[r] = "sum" /\ pc' = [pc EXCEPT ![r] = "load"]
      /\ UNCHANGED <<buckets, count, at, log>>
      /\ sum' = [sum EXCEPT ![h] = @ + Sample(r)]
  BY <1>2 DEF AddSum, GoTo
<1>4. a \in DOMAIN log /\ h \in Hists /\ h = log[a].h /\ Sample(r) = Ns[a]
  BY <1>1, <1>2, <1>3, InHand DEF Ns
<1>5. Moves(r, "load")
  BY <1>3, TypesTyped, CountedMeans, InHand DEF MaxInv, Moves
<1>6. sum \in [Hists -> Nat]
  BY DEF OtherTypes
<1>7. ASSUME NEW g \in Hists, g # h PROVE CountedIn(g)'
  <2>1. buckets'[g] = buckets[g] /\ count'[g] = count[g] /\ sum'[g] = sum[g]
    BY <1>3, <1>6, <1>7
  <2> QED
    BY <1>1, <1>4, <1>5, <1>7, <2>1, CountedMeans, OthersCounted
<1>8. CountedIn(h)'
  <2>1. PICK P : P = Past(h, all)
    OBVIOUS
  <2>2. a \notin P /\ Past(h, all)' = P \cup {a}
    <3>1. pc[r] \in all /\ "load" \notin all /\ log[at[r]].h = h
      BY <1>1, <1>3, <1>4
    <3>2. at[r] \notin Past(h, all) /\ Past(h, all)' = Past(h, all) \cup {at[r]}
      BY <1>5, <3>1, PastMore
    <3> QED
      BY <1>1, <2>1, <3>2
  <2>3. /\ Past(h, {"bucket"})' = Past(h, {"bucket"})
        /\ Past(h, {"bucket", "count"})' = Past(h, {"bucket", "count"})
    <3>1. /\ pc[r] \in {"bucket"} <=> "load" \in {"bucket"}
          /\ pc[r] \in {"bucket", "count"} <=> "load" \in {"bucket", "count"}
      BY <1>3
    <3> QED
      BY <1>5, <3>1, PastSame
  <2>4. IsFiniteSet(P) /\ P \subseteq DOMAIN log /\ \A k \in DOMAIN log : Ns[k] \in Nat
    BY <2>1, PastFinite DEF MaxInv
  <2>5. CountedIn(h)
    BY <1>4, CountedMeans
  <2>6. sum'[h] = SumOver(Ns, P \cup {a})
    <3>1. \A k \in P \cup {a} : Ns[k] \in Nat
      BY <1>4, <2>4
    <3>2. SumOver(Ns, P \cup {a}) = SumOver(Ns, P) + Ns[a]
      BY <2>2, <2>4, <3>1, SumIs, UnitsWith
    <3>3. sum'[h] = sum[h] + Ns[a]
      BY <1>3, <1>4, <1>6
    <3> QED
      BY <2>1, <2>5, <3>2, <3>3 DEF CountedIn
  <2>7. Ns' = Ns /\ \A S, b : InBin(S, b)' = InBin(S, b)
    BY <1>3 DEF InBin, Ns
  <2>8. SumOver(Ns, Past(h, all))' = SumOver(Ns, P \cup {a})
    BY <2>2, <2>7
  <2> QED
    BY <1>3, <2>3, <2>5, <2>6, <2>7, <2>8 DEF CountedIn
<1> QED
  BY <1>5, <1>7, <1>8, OneEachMoves, CountedMeans

LEMMA NewCounts ==
  ASSUME MaxInv, Counted, NEW r \in Recorders, NEW h \in Hists, NEW ns \in Samples, Record(r, h, ns)
  PROVE  Counted'
<1>1. PICK new : new = Len(log) + 1
  OBVIOUS
<1>2. /\ pc[r] = "idle" /\ pc' = [pc EXCEPT ![r] = "bucket"] /\ at' = [at EXCEPT ![r] = new]
      /\ UNCHANGED <<buckets, count, sum>>
  BY <1>1 DEF Record, GoTo, histVars
<1>3. log \in Seq(Entries) /\ [h |-> h, ns |-> Clamp(ns)] \in Entries
  BY ClampPositive DEF MaxInv, RecordTypes, Entries
<1>4. /\ new \in DOMAIN log' /\ new \notin DOMAIN log
      /\ \A k \in DOMAIN log : k \in DOMAIN log' /\ log'[k] = log[k]
      /\ \A k \in DOMAIN log' : k \in DOMAIN log \/ k = new
  BY <1>1, <1>3 DEF Record
<1>5. Typed /\ OneEach /\ \A q \in Recorders : at[q] # new
  BY <1>1, TypesTyped, CountedMeans DEF MaxInv, RecordTypes
<1>6. /\ pc'[r] = "bucket" /\ at'[r] = new
      /\ \A q \in Recorders : q # r => pc'[q] = pc[q] /\ at'[q] = at[q]
  BY <1>2, <1>5 DEF Typed
<1>7. OneEach'
  BY <1>5, <1>6 DEF OneEach
<1>8. ASSUME NEW g \in Hists PROVE CountedIn(g)'
  <2>1. ASSUME NEW steps \in Sums PROVE Past(g, steps)' = Past(g, steps)
    <3>1. "bucket" \in steps /\ "idle" \notin steps
      BY DEF Sums
    <3>2. new \notin Past(g, steps)' /\ new \notin Past(g, steps)
      BY <1>4, <1>6, <3>1 DEF Past
    <3>3. \A k \in DOMAIN log :
            (\A q \in Recorders : at'[q] = k => pc'[q] \notin steps)
              <=> (\A q \in Recorders : at[q] = k => pc[q] \notin steps)
      BY <1>2, <1>4, <1>5, <1>6, <3>1
    <3>4. \A k : k \in Past(g, steps)' <=> k \in Past(g, steps)
      BY <1>4, <3>2, <3>3 DEF Past
    <3> QED
      BY <3>4 DEF Past
  <2>2. \A steps \in Sums : Past(g, steps) \subseteq DOMAIN log
    BY DEF Past
  <2>3. \A S \in SUBSET DOMAIN log : \A b : InBin(S, b)' = InBin(S, b)
    BY <1>4 DEF InBin
  <2>4. \A S \in SUBSET DOMAIN log : SumOver(Ns, S)' = SumOver(Ns, S)
    <3> SUFFICES ASSUME NEW S \in SUBSET DOMAIN log PROVE SumOver(Ns, S)' = SumOver(Ns, S)
      OBVIOUS
    <3>1. \A k \in S : Ns'[k] = Ns[k]
      BY <1>4 DEF Ns
    <3>2. Units(S, Ns') = Units(S, Ns)
      BY <3>1, UnitsSame
    <3> QED
      BY <3>2 DEF SumOver, Units
  <2>5. CountedIn(g)
    BY CountedMeans
  <2> QED
    BY <1>2, <2>1, <2>2, <2>3, <2>4, <2>5 DEF CountedIn, Sums
<1> QED
  BY <1>7, <1>8, CountedMeans

LEMMA CountedStep ==
  ASSUME MaxInv, OtherTypes, Counted, [Next]_vars
  PROVE  Counted'
<1>1. ASSUME NEW r \in Recorders, NEW h \in Hists, NEW ns \in Samples, Record(r, h, ns)
      PROVE  Counted'
  BY <1>1, NewCounts
<1>2. ASSUME NEW r \in Recorders, RecordStep(r) PROVE Counted'
  BY <1>2, BucketCounts, CountCounts, SumCounts, MaximumCounts DEF RecordStep
<1>3. CASE (\E h \in Hists : Percentile(h) \/ Merge(h)) \/ ReadBucket \/ Answered
           \/ UNCHANGED vars
  <2>1. UNCHANGED <<buckets, count, sum, pc, at, log>>
    BY <1>3 DEF Percentile, Merge, ReadBucket, Answered, vars, histVars
  <2>2. \A h \in Hists : \A steps \in Sums : Past(h, steps)' = Past(h, steps)
    BY <2>1 DEF Past
  <2>3. OneEach'
    BY <2>1, CountedMeans DEF OneEach
  <2> QED
    BY <2>1, <2>2, <2>3, CountedMeans, CountedKept
<1> QED
  BY <1>1, <1>2, <1>3 DEF Next

-----------------------------------------------------------------------------
(* The types of the rest.                                                  *)

LEMMA PositionNext ==
  ASSUME NEW p, p \in 0 .. K, p # K
  PROVE  p \in Bins /\ p + 1 \in 0 .. K
  BY DEF Bins

LEMMA OtherTypesStep ==
  ASSUME MaxInv, OtherTypes, [Next]_vars
  PROVE  OtherTypes'
<1> USE DEF OtherTypes
<1>1. ASSUME NEW r \in Recorders, AddBucket(r) PROVE OtherTypes'
  <2>1. Home(r) \in Hists /\ Bin(Sample(r)) \in Bins
    BY <1>1, InHand DEF AddBucket, GoTo
  <2>2. buckets' \in [Hists -> [Bins -> Nat]]
    BY <1>1, <2>1 DEF AddBucket
  <2> QED
    BY <1>1, <2>2 DEF AddBucket, mergeVars
<1>2. ASSUME NEW r \in Recorders, AddSum(r) PROVE OtherTypes'
  <2>1. Home(r) \in Hists /\ Sample(r) \in Nat
    BY <1>2, InHand DEF AddSum, GoTo
  <2>2. sum' \in [Hists -> Nat]
    BY <1>2, <2>1 DEF AddSum
  <2> QED
    BY <1>2, <2>2 DEF AddSum, mergeVars
<1>3. ASSUME NEW h \in Hists, Percentile(h) PROVE OtherTypes'
  <2>1. count[h] \in Nat /\ buckets[h] \in [Bins -> Nat]
    BY DEF MaxInv, RecordTypes
  <2>2. PICK target \in Ranks(count[h]) :
          reader' = [Idle EXCEPT !.h = h, !.target = target, !.began = buckets[h]]
    BY <1>3 DEF Percentile
  <2>3. target \in Nat
    BY <2>1 DEF Ranks
  <2>4. reader' = [h |-> h, target |-> target, pos |-> 0, cum |-> 0, answer |-> None,
                   began |-> buckets[h]]
    BY <2>2 DEF Idle
  <2>5. 0 \in 0 .. K
    OBVIOUS
  <2> QED
    BY <1>3, <2>1, <2>3, <2>4, <2>5 DEF Percentile, histVars, mergeVars
<1>4. ASSUME ReadBucket PROVE OtherTypes'
  <2>1. /\ reader.h \in Hists /\ max[reader.h] \in Nat
        /\ reader.pos \in 0 .. K /\ (reader.pos # K => reader.pos \in Bins)
    BY <1>4 DEF ReadBucket, MaxInv, RecordTypes, Bins
  <2>2. reader.pos # K => buckets[reader.h][reader.pos] \in Nat
    BY <2>1
  <2>3. PICK cum : cum = reader.cum + buckets[reader.h][reader.pos]
    OBVIOUS
  <2>4. reader.pos # K => cum \in Nat
    BY <2>2, <2>3
  <2>5. reader' = IF reader.pos = K
                    THEN [reader EXCEPT !.answer = max[reader.h]]
                    ELSE IF cum > reader.target
                           THEN [reader EXCEPT !.answer = Midpoint(reader.pos)]
                           ELSE [reader EXCEPT !.cum = cum, !.pos = @ + 1]
    BY <1>4, <2>3 DEF ReadBucket
  <2>6. reader' \in [h : Hists \cup {"none"}, target : Nat, pos : 0 .. K, cum : Nat,
                     answer : {None} \cup {Midpoint(b) : b \in Bins} \cup Nat, began : [Bins -> Nat]]
    <3>1. CASE reader.pos = K
      BY <2>1, <2>5, <3>1
    <3>2. CASE reader.pos # K /\ cum > reader.target
      BY <2>1, <2>5, <3>2
    <3>3. CASE reader.pos # K /\ ~ cum > reader.target
      <4>1. reader.pos + 1 \in 0 .. K
        BY <2>1, <3>3, PositionNext
      <4> QED
        BY <2>4, <2>5, <3>3, <4>1
    <3> QED
      BY <3>1, <3>2, <3>3
  <2> QED
    BY <1>4, <2>6 DEF ReadBucket, histVars, mergeVars
<1>5. ASSUME Answered PROVE OtherTypes'
  BY <1>5 DEF Answered, Idle, None, EmptyBins, histVars, mergeVars
<1>6. ASSUME NEW h \in Hists, Merge(h) PROVE OtherTypes'
  <2>1. count[h] \in Nat /\ sum[h] \in Nat /\ max[h] \in Nat /\ buckets[h] \in [Bins -> Nat]
    BY DEF MaxInv, RecordTypes
  <2>2. MergedMax(h) \in Nat
    BY <2>1 DEF MergedMax
  <2>3. [b \in Bins |-> merged.buckets[b] + buckets[h][b]] \in [Bins -> Nat]
    BY <2>1
  <2>4. merged' \in [buckets : [Bins -> Nat], count : Nat, sum : Nat, max : Nat]
    BY <1>6, <2>1, <2>2, <2>3 DEF Merge
  <2> QED
    BY <1>6, <2>4 DEF Merge, histVars
<1>7. CASE (\E r \in Recorders : AddCount(r) \/ LoadMax(r) \/ CasMax(r)
              \/ \E h \in Hists, ns \in Samples : Record(r, h, ns))
           \/ UNCHANGED vars
  <2>1. UNCHANGED <<buckets, sum, reader, merged, left>>
    BY <1>7 DEF Record, AddCount, LoadMax, CasMax, vars, histVars, mergeVars
  <2> QED
    BY <2>1
<1> QED
  BY <1>1, <1>2, <1>3, <1>4, <1>5, <1>6, <1>7 DEF Next, RecordStep

-----------------------------------------------------------------------------
(* A scan of the buckets.                                                  *)

LEMMA ReaderTyped ==
  ASSUME OtherTypes, reader.h \in Hists
  PROVE  /\ reader.began \in [Bins -> Nat] /\ buckets[reader.h] \in [Bins -> Nat]
         /\ reader.cum \in Nat /\ reader.target \in Nat
         /\ reader.pos \in 0 .. K /\ (reader.pos # K => reader.pos \in Bins)
<1>1. reader.pos \in 0 .. K
  BY DEF OtherTypes
<1> QED
  BY <1>1, PositionNext DEF OtherTypes

\* What began and what is there now, between which the scan moves.
Between(began, now, pos, cum, target) ==
  /\ \A b \in Bins : began[b] <= now[b]
  /\ SampleCount(began, pos - 1) <= cum /\ cum <= SampleCount(now, pos - 1)
  /\ cum <= target /\ target < SampleCount(began, K - 1)

LEMMA ScanningMeans ==
  /\ Scanning <=> /\ reader.answer # None => reader.h \in Hists
                  /\ reader.h \in Hists => Between(reader.began, buckets[reader.h], reader.pos,
                                                   reader.cum, reader.target)
  /\ Scanning' <=> /\ reader'.answer # None => reader'.h \in Hists
                   /\ reader'.h \in Hists => Between(reader'.began, buckets'[reader'.h], reader'.pos,
                                                     reader'.cum, reader'.target)
  BY DEF Scanning, Between, SampleCount, SumOver

LEMMA StillBetween ==
  ASSUME NEW f \in [Bins -> Nat], NEW g \in [Bins -> Nat], NEW g2 \in [Bins -> Nat],
         \A b \in Bins : g[b] <= g2[b],
         NEW pos \in 0 .. K, NEW cum \in Nat, NEW target, Between(f, g, pos, cum, target)
  PROVE  Between(f, g2, pos, cum, target)
<1>1. pos - 1 \in -1 .. K - 1
  OBVIOUS
<1>2. /\ SampleCount(g, pos - 1) <= SampleCount(g2, pos - 1)
      /\ SampleCount(g, pos - 1) \in Nat /\ SampleCount(g2, pos - 1) \in Nat
  BY <1>1, CountTyped, CountGrows
<1>3. \A b \in Bins : f[b] <= g[b] /\ f[b] \in Nat /\ g[b] \in Nat /\ g2[b] \in Nat
  BY DEF Between
<1>4. \A b \in Bins : f[b] <= g2[b]
  BY <1>3
<1> QED
  BY <1>2, <1>4 DEF Between

\* A rank below the count is a rank among the samples in the buckets.
LEMMA BeginsBetween ==
  ASSUME MaxInv, OtherTypes, Counted, NEW h \in Hists, NEW target \in Ranks(count[h])
  PROVE  Between(buckets[h], buckets[h], 0, 0, target)
<1>1. buckets[h] \in [Bins -> Nat] /\ count[h] \in Nat
  BY DEF MaxInv, RecordTypes, OtherTypes
<1>2. \A b \in Bins : buckets[h][b] <= buckets[h][b]
  BY <1>1
<1>3. SampleCount(buckets[h], 0 - 1) = 0
  BY CountNone
<1>4. count[h] <= SampleCount(buckets[h], K - 1)
  <2>1. Past(h, {"bucket", "count"}) \in SUBSET Past(h, {"bucket"})
    BY DEF Past
  <2>2. Cardinality(Past(h, {"bucket", "count"})) <= Cardinality(Past(h, {"bucket"}))
    BY <2>1, PastFinite, FS_Subset DEF MaxInv
  <2> QED
    BY <2>2, CountedMeans DEF CountedIn
<1>5. SampleCount(buckets[h], K - 1) \in Nat
  BY <1>1, CountTyped
<1>6. 0 <= target /\ target < SampleCount(buckets[h], K - 1)
  BY <1>1, <1>4, <1>5 DEF Ranks
<1> QED
  BY <1>2, <1>3, <1>6 DEF Between

\* One bucket further.
LEMMA NextBetween ==
  ASSUME NEW f \in [Bins -> Nat], NEW g \in [Bins -> Nat], NEW pos \in Bins, NEW cum \in Nat,
         NEW target \in Nat, Between(f, g, pos, cum, target)
  PROVE  /\ SampleCount(f, pos - 1) <= target
         /\ cum + g[pos] <= SampleCount(g, pos)
         /\ cum + g[pos] <= target => Between(f, g, pos + 1, cum + g[pos], target)
<1>1. pos - 1 \in -1 .. K - 1 /\ pos \in -1 .. K - 1 /\ (pos + 1) - 1 = pos
  BY DEF Bins
<1>2. /\ SampleCount(f, pos) = SampleCount(f, pos - 1) + f[pos]
      /\ SampleCount(g, pos) = SampleCount(g, pos - 1) + g[pos]
      /\ f[pos] <= g[pos] /\ f[pos] \in Nat /\ g[pos] \in Nat
  BY CountNext DEF Between
<1>3. SampleCount(f, pos - 1) \in Nat /\ SampleCount(g, pos - 1) \in Nat
  BY <1>1, CountTyped
<1>4. SampleCount(f, pos - 1) <= cum /\ cum <= SampleCount(g, pos - 1) /\ cum <= target
  BY DEF Between
<1>5. /\ SampleCount(f, pos - 1) <= target
      /\ cum + g[pos] <= SampleCount(g, pos)
      /\ SampleCount(f, pos) <= cum + g[pos]
  BY <1>2, <1>3, <1>4
<1> QED
  BY <1>1, <1>5 DEF Between

\* What ReadBucket does in terms of these.
LEMMA ReadBucketMeans ==
  ASSUME OtherTypes, Scanning, ReadBucket
  PROVE  /\ reader.h \in Hists /\ reader.pos \in Bins
         /\ Between(reader.began, buckets[reader.h], reader.pos, reader.cum, reader.target)
         /\ \/ /\ reader' = [reader EXCEPT !.answer = Midpoint(reader.pos)]
               /\ reader.cum + buckets[reader.h][reader.pos] > reader.target
            \/ /\ reader' = [reader EXCEPT !.cum = reader.cum + buckets[reader.h][reader.pos],
                                           !.pos = reader.pos + 1]
               /\ reader.cum + buckets[reader.h][reader.pos] <= reader.target
<1>1. reader.h \in Hists
  BY DEF ReadBucket
<1>2. Between(reader.began, buckets[reader.h], reader.pos, reader.cum, reader.target)
  BY <1>1, ScanningMeans
<1>3. reader.pos # K
  <2> SUFFICES ASSUME reader.pos = K PROVE FALSE
    OBVIOUS
  <2>1. SampleCount(reader.began, K - 1) \in Nat
    BY <1>1, ReaderTyped, CountTyped
  <2> QED
    BY <1>1, <1>2, <2>1, ReaderTyped DEF Between
<1>4. reader.pos \in Bins /\ reader.cum \in Nat /\ reader.target \in Nat
      /\ buckets[reader.h][reader.pos] \in Nat
  BY <1>1, <1>3, ReaderTyped
<1>5. ~ reader.cum + buckets[reader.h][reader.pos] > reader.target
        => reader.cum + buckets[reader.h][reader.pos] <= reader.target
  BY <1>4
<1> QED
  BY <1>1, <1>2, <1>3, <1>4, <1>5 DEF ReadBucket

\* Buckets only grow while samples are recorded.
LEMMA BucketsGrow ==
  ASSUME MaxInv, OtherTypes, NEW r \in Recorders, AddBucket(r), NEW h \in Hists
  PROVE  /\ buckets[h] \in [Bins -> Nat] /\ buckets'[h] \in [Bins -> Nat]
         /\ \A b \in Bins : buckets[h][b] <= buckets'[h][b]
<1>1. PICK g : g = Home(r)
  OBVIOUS
<1>2. PICK c : c = Bin(Sample(r))
  OBVIOUS
<1>3. buckets' = [buckets EXCEPT ![g][c] = @ + 1] /\ g \in Hists /\ c \in Bins
  BY <1>1, <1>2, InHand DEF AddBucket, GoTo
<1>4. buckets \in [Hists -> [Bins -> Nat]]
  BY DEF OtherTypes
<1>5. CASE h = g
  <2>1. buckets[h] \in [Bins -> Nat] /\ buckets'[h] = [buckets[h] EXCEPT ![c] = @ + 1]
    BY <1>3, <1>4, <1>5
  <2> QED
    BY <1>3, <2>1, CountRaised
<1>6. CASE h # g
  <2>1. buckets[h] \in [Bins -> Nat] /\ buckets'[h] = buckets[h]
    BY <1>3, <1>4, <1>6
  <2> QED
    BY <2>1
<1> QED
  BY <1>5, <1>6

\* Who else is at work leaves the reader and the buckets alone.
LEMMA OtherSteps ==
  ASSUME [Next]_vars
  PROVE  \/ \E r \in Recorders : AddBucket(r)
         \/ \E h \in Hists : Percentile(h)
         \/ ReadBucket
         \/ Answered
         \/ UNCHANGED <<buckets, reader>>
<1>1. ASSUME NEW r \in Recorders, NEW h \in Hists, NEW ns \in Samples, Record(r, h, ns)
      PROVE  UNCHANGED <<buckets, reader>>
  BY <1>1 DEF Record, histVars
<1>2. ASSUME NEW r \in Recorders, AddCount(r) \/ AddSum(r) \/ LoadMax(r) \/ CasMax(r)
      PROVE  UNCHANGED <<buckets, reader>>
  BY <1>2 DEF AddCount, AddSum, LoadMax, CasMax, histVars
<1>3. ASSUME NEW h \in Hists, Merge(h) PROVE UNCHANGED <<buckets, reader>>
  BY <1>3 DEF Merge, histVars
<1>4. UNCHANGED vars => UNCHANGED <<buckets, reader>>
  BY DEF vars, histVars
<1> QED
  BY <1>1, <1>2, <1>3, <1>4 DEF Next, RecordStep

LEMMA ScanningStep ==
  ASSUME MaxInv, OtherTypes, Counted, Scanning, [Next]_vars
  PROVE  Scanning'
<1>1. ASSUME NEW r \in Recorders, AddBucket(r) PROVE Scanning'
  <2>1. reader' = reader
    BY <1>1 DEF AddBucket
  <2>2. ASSUME reader.h \in Hists
        PROVE  Between(reader.began, buckets'[reader.h], reader.pos, reader.cum, reader.target)
    <3>1. /\ buckets[reader.h] \in [Bins -> Nat] /\ buckets'[reader.h] \in [Bins -> Nat]
          /\ \A b \in Bins : buckets[reader.h][b] <= buckets'[reader.h][b]
      BY <1>1, <2>2, BucketsGrow
    <3>2. Between(reader.began, buckets[reader.h], reader.pos, reader.cum, reader.target)
      BY <2>2, ScanningMeans
    <3>3. /\ reader.began \in [Bins -> Nat] /\ reader.pos \in 0 .. K /\ reader.cum \in Nat
      BY <2>2, ReaderTyped
    <3> QED
      BY <3>1, <3>2, <3>3, StillBetween
  <2> QED
    BY <2>1, <2>2, ScanningMeans
<1>2. ASSUME NEW h \in Hists, Percentile(h) PROVE Scanning'
  <2>1. PICK target \in Ranks(count[h]) :
          reader' = [Idle EXCEPT !.h = h, !.target = target, !.began = buckets[h]]
    BY <1>2 DEF Percentile
  <2>2. reader' = [h |-> h, target |-> target, pos |-> 0, cum |-> 0, answer |-> None,
                   began |-> buckets[h]]
    BY <2>1 DEF Idle
  <2>3. buckets' = buckets
    BY <1>2 DEF Percentile, histVars
  <2>4. Between(buckets[h], buckets[h], 0, 0, target)
    BY BeginsBetween
  <2> QED
    BY <2>2, <2>3, <2>4, ScanningMeans
<1>3. ASSUME ReadBucket PROVE Scanning'
  <2>1. buckets' = buckets
    BY <1>3 DEF ReadBucket, histVars
  <2>2. reader.h \in Hists /\ reader.pos \in Bins
        /\ Between(reader.began, buckets[reader.h], reader.pos, reader.cum, reader.target)
    BY <1>3, ReadBucketMeans
  <2>3. CASE reader' = [reader EXCEPT !.answer = Midpoint(reader.pos)]
    <3>1. /\ reader'.h = reader.h /\ reader'.began = reader.began /\ reader'.pos = reader.pos
          /\ reader'.cum = reader.cum /\ reader'.target = reader.target
      BY <2>3 DEF OtherTypes
    <3> QED
      BY <2>1, <2>2, <3>1, ScanningMeans
  <2>4. CASE /\ reader' = [reader EXCEPT !.cum = reader.cum + buckets[reader.h][reader.pos],
                                        !.pos = reader.pos + 1]
             /\ reader.cum + buckets[reader.h][reader.pos] <= reader.target
    <3>1. /\ reader'.h = reader.h /\ reader'.began = reader.began /\ reader'.pos = reader.pos + 1
          /\ reader'.cum = reader.cum + buckets[reader.h][reader.pos]
          /\ reader'.target = reader.target /\ reader'.answer = reader.answer
      BY <2>4 DEF OtherTypes
    <3>2. Between(reader.began, buckets[reader.h], reader.pos + 1,
                  reader.cum + buckets[reader.h][reader.pos], reader.target)
      BY <2>2, <2>4, ReaderTyped, NextBetween
    <3> QED
      BY <2>1, <2>2, <3>1, <3>2, ScanningMeans
  <2> QED
    BY <1>3, <2>3, <2>4, ReadBucketMeans
<1>4. ASSUME Answered PROVE Scanning'
  <2>1. reader'.h = "none" /\ reader'.answer = None
    BY <1>4 DEF Answered, Idle
  <2> QED
    BY <2>1, ScanningMeans
<1>5. CASE UNCHANGED <<buckets, reader>>
  BY <1>5, ScanningMeans
<1> QED
  BY <1>1, <1>2, <1>3, <1>4, <1>5, OtherSteps

(* The answer of a scan.                                                   *)
LEMMA BracketedStep ==
  ASSUME MaxInv, OtherTypes, Counted, Scanning, PercentileBracketed, [Next]_vars
  PROVE  PercentileBracketed'
<1> DEFINE Bracket(f, g, answer, target) ==
             answer # None =>
               \E b \in Bins : /\ answer = Midpoint(b)
                              /\ SampleCount(f, b - 1) <= target
                              /\ target < SampleCount(g, b)
<1>1. /\ PercentileBracketed <=> Bracket(reader.began, buckets[reader.h], reader.answer, reader.target)
      /\ PercentileBracketed' <=> Bracket(reader'.began, buckets'[reader'.h], reader'.answer, reader'.target)
  BY DEF PercentileBracketed, SampleCount, SumOver
<1>2. ASSUME NEW r \in Recorders, AddBucket(r) PROVE PercentileBracketed'
  <2>1. reader' = reader
    BY <1>2 DEF AddBucket
  <2>2. ASSUME reader.answer # None
        PROVE  \E b \in Bins : /\ reader.answer = Midpoint(b)
                              /\ SampleCount(reader.began, b - 1) <= reader.target
                              /\ reader.target < SampleCount(buckets'[reader.h], b)
    <3>1. PICK b \in Bins : /\ reader.answer = Midpoint(b)
                            /\ SampleCount(reader.began, b - 1) <= reader.target
                            /\ reader.target < SampleCount(buckets[reader.h], b)
      BY <2>2 DEF PercentileBracketed
    <3>2. reader.h \in Hists
      BY <2>2, ScanningMeans
    <3>3. /\ buckets[reader.h] \in [Bins -> Nat] /\ buckets'[reader.h] \in [Bins -> Nat]
          /\ \A c \in Bins : buckets[reader.h][c] <= buckets'[reader.h][c]
      BY <1>2, <3>2, BucketsGrow
    <3>4. b \in -1 .. K - 1
      BY DEF Bins
    <3>5. /\ SampleCount(buckets[reader.h], b) <= SampleCount(buckets'[reader.h], b)
          /\ SampleCount(buckets[reader.h], b) \in Nat /\ SampleCount(buckets'[reader.h], b) \in Nat
      BY <3>3, <3>4, CountGrows, CountTyped
    <3>6. reader.target < SampleCount(buckets'[reader.h], b)
      BY <3>1, <3>2, <3>5, ReaderTyped
    <3> QED
      BY <3>1, <3>6
  <2> QED
    BY <1>1, <2>1, <2>2
<1>3. ASSUME NEW h \in Hists, Percentile(h) PROVE PercentileBracketed'
  <2>1. reader'.answer = None
    BY <1>3 DEF Percentile, Idle
  <2> QED
    BY <1>1, <2>1
<1>4. ASSUME ReadBucket PROVE PercentileBracketed'
  <2>1. buckets' = buckets /\ reader.answer = None
    BY <1>4 DEF ReadBucket, histVars
  <2>2. reader.h \in Hists /\ reader.pos \in Bins
        /\ Between(reader.began, buckets[reader.h], reader.pos, reader.cum, reader.target)
    BY <1>4, ReadBucketMeans
  <2>3. CASE /\ reader' = [reader EXCEPT !.answer = Midpoint(reader.pos)]
             /\ reader.cum + buckets[reader.h][reader.pos] > reader.target
    <3>1. /\ reader'.h = reader.h /\ reader'.began = reader.began
          /\ reader'.answer = Midpoint(reader.pos) /\ reader'.target = reader.target
      BY <2>3 DEF OtherTypes
    <3>2. /\ SampleCount(reader.began, reader.pos - 1) <= reader.target
          /\ reader.cum + buckets[reader.h][reader.pos] <= SampleCount(buckets[reader.h], reader.pos)
      BY <2>2, ReaderTyped, NextBetween
    <3>3. /\ buckets[reader.h][reader.pos] \in Nat /\ reader.cum \in Nat /\ reader.target \in Nat
          /\ SampleCount(buckets[reader.h], reader.pos) \in Nat
      <4>1. /\ buckets[reader.h] \in [Bins -> Nat] /\ reader.cum \in Nat /\ reader.target \in Nat
        BY <2>2, ReaderTyped
      <4>2. reader.pos \in -1 .. K - 1
        BY <2>2 DEF Bins
      <4>3. buckets[reader.h][reader.pos] \in Nat
        BY <2>2, <4>1
      <4>4. SampleCount(buckets[reader.h], reader.pos) \in Nat
        BY <4>1, <4>2, CountTyped
      <4> QED
        BY <4>1, <4>3, <4>4
    <3>4. reader.target < SampleCount(buckets[reader.h], reader.pos)
      BY <2>3, <3>2, <3>3
    <3> QED
      BY <1>1, <2>1, <2>2, <3>1, <3>2, <3>4
  <2>4. CASE reader' = [reader EXCEPT !.cum = reader.cum + buckets[reader.h][reader.pos],
                                      !.pos = reader.pos + 1]
    <3>1. reader'.answer = None
      BY <2>1, <2>4 DEF OtherTypes
    <3> QED
      BY <1>1, <3>1
  <2> QED
    BY <1>4, <2>3, <2>4, ReadBucketMeans
<1>5. ASSUME Answered PROVE PercentileBracketed'
  <2>1. reader'.answer = None
    BY <1>5 DEF Answered, Idle
  <2> QED
    BY <1>1, <2>1
<1>6. CASE UNCHANGED <<buckets, reader>>
  BY <1>1, <1>6
<1> QED
  BY <1>2, <1>3, <1>4, <1>5, <1>6, OtherSteps

-----------------------------------------------------------------------------
(* The merge.                                                              *)

LEMMA GoneFinite ==
  ASSUME RecordTypes, NEW S, S \subseteq DOMAIN log
  PROVE  /\ IsFiniteSet(S)
         /\ \A b : IsFiniteSet(InBin(S, b)) /\ InBin(S, b) \subseteq S
         /\ \A k \in S : Ns[k] \in Nat /\ Ns[k] = log[k].ns /\ log[k].h \in Hists
<1>1. IsFiniteSet(DOMAIN log)
  <2>1. DOMAIN log = 1 .. Len(log) /\ Len(log) \in Nat
    BY DEF RecordTypes
  <2> QED
    BY <2>1, FS_Interval
<1>2. IsFiniteSet(S)
  BY <1>1, FS_Subset
<1>3. \A b : InBin(S, b) \in SUBSET S
  BY DEF InBin
<1> QED
  BY <1>2, <1>3, FS_Subset, TypesTyped DEF Typed, Ns

\* What the merge of one more histogram brings.
LEMMA MergeBrings ==
  ASSUME MaxInv, Counted, NEW h \in Hists, \A r \in Recorders : pc[r] = "idle",
         NEW A, A = {k \in DOMAIN log : log[k].h = h}
  PROVE  /\ \A b \in Bins : buckets[h][b] = Cardinality(InBin(A, b))
         /\ count[h] = Cardinality(A) /\ sum[h] = SumOver(Ns, A)
         /\ max[h] \in Nat /\ max[h] \in {0} \cup {log[k].ns : k \in A}
         /\ \A k \in A : log[k].ns <= max[h] /\ log[k].ns \in Nat
<1>1. \A steps \in Sums : Past(h, steps) = A
  <2>1. \A steps \in Sums : "idle" \notin steps
    BY DEF Sums
  <2> QED
    BY <2>1, PastAll
<1>2. CountedIn(h)
  BY CountedMeans
<1>3. /\ \A b \in Bins : buckets[h][b] = Cardinality(InBin(A, b))
      /\ count[h] = Cardinality(A) /\ sum[h] = SumOver(Ns, A)
  BY <1>1, <1>2 DEF CountedIn, Sums
<1>4. \A k \in A : log[k].ns <= max[h] /\ log[k].ns \in Nat
  BY TypesTyped DEF MaxInv, MaxExact, InProgress, Typed
<1>5. max[h] \in Nat /\ (max[h] = 0 \/ \E k \in DOMAIN log : log[k] = [h |-> h, ns |-> max[h]])
  BY TypesTyped DEF MaxInv, MaxExact, Typed
<1>6. max[h] \in {0} \cup {log[k].ns : k \in A}
  BY <1>5
<1> QED
  BY <1>3, <1>4, <1>5, <1>6

LEMMA MergeMerging ==
  ASSUME MaxInv, OtherTypes, Counted, Merging, NEW h \in Hists, Merge(h)
  PROVE  Merging'
<1>1. PICK A : A = {k \in DOMAIN log : log[k].h = h}
  OBVIOUS
<1>2. PICK G : G = Gone
  OBVIOUS
<1>3. h \in left /\ (\A r \in Recorders : pc[r] = "idle") /\ UNCHANGED <<pc, log>>
      /\ left' = left \ {h}
  BY DEF Merge
<1>4. /\ \A b \in Bins : buckets[h][b] = Cardinality(InBin(A, b))
      /\ count[h] = Cardinality(A) /\ sum[h] = SumOver(Ns, A)
      /\ max[h] \in Nat /\ max[h] \in {0} \cup {log[k].ns : k \in A}
      /\ \A k \in A : log[k].ns <= max[h] /\ log[k].ns \in Nat
  BY <1>1, <1>3, MergeBrings
<1>5. A \subseteq DOMAIN log /\ G \subseteq DOMAIN log /\ A \cap G = {}
  BY <1>1, <1>2, <1>3 DEF Gone
<1>6. Gone' = G \cup A
  <2>1. \A k \in DOMAIN log : log[k].h \notin left' <=> log[k].h \notin left \/ log[k].h = h
    BY <1>3
  <2> QED
    BY <1>1, <1>2, <1>3, <2>1 DEF Gone
<1>7. /\ merged'.buckets = [b \in Bins |-> merged.buckets[b] + buckets[h][b]]
      /\ merged'.count = merged.count + count[h]
      /\ merged'.sum = merged.sum + sum[h]
      /\ merged'.max = MergedMax(h)
  BY DEF Merge
<1>8. /\ \A b \in Bins : merged.buckets[b] = Cardinality(InBin(G, b))
      /\ merged.count = Cardinality(G) /\ merged.sum = SumOver(Ns, G)
      /\ merged.max \in {0} \cup {log[k].ns : k \in G} /\ merged.max \in Nat
      /\ \A k \in G : log[k].ns <= merged.max
  BY <1>2 DEF Merging, OtherTypes
<1>9. /\ IsFiniteSet(A) /\ IsFiniteSet(G)
      /\ \A b : IsFiniteSet(InBin(A, b)) /\ IsFiniteSet(InBin(G, b))
      /\ \A b : InBin(A, b) \subseteq A /\ InBin(G, b) \subseteq G
      /\ \A k \in G \cup A : Ns[k] \in Nat /\ log[k].ns \in Nat
  BY <1>5, GoneFinite DEF MaxInv
<1>10. \A b \in Bins : merged'.buckets[b] = Cardinality(InBin(G \cup A, b))
  <2> SUFFICES ASSUME NEW b \in Bins PROVE merged'.buckets[b] = Cardinality(InBin(G \cup A, b))
    OBVIOUS
  <2>1. InBin(G \cup A, b) = InBin(G, b) \cup InBin(A, b) /\ InBin(G, b) \cap InBin(A, b) = {}
    BY <1>5 DEF InBin
  <2>2. Cardinality(InBin(G \cup A, b)) = Cardinality(InBin(G, b)) + Cardinality(InBin(A, b))
    BY <1>9, <2>1, Together
  <2> QED
    BY <1>4, <1>7, <1>8, <2>2
<1>11. merged'.count = Cardinality(G \cup A)
  <2>1. G \cap A = {}
    BY <1>5
  <2> QED
    BY <1>4, <1>7, <1>8, <1>9, <2>1, Together
<1>12. merged'.sum = SumOver(Ns, G \cup A)
  <2>1. G \cap A = {}
    BY <1>5
  <2>2. SumOver(Ns, G \cup A) = SumOver(Ns, G) + SumOver(Ns, A)
    BY <1>9, <2>1, SumIs, UnitsTogether
  <2> QED
    BY <1>4, <1>7, <1>8, <2>2
<1>13. /\ merged'.max \in {0} \cup {log[k].ns : k \in G \cup A}
       /\ \A k \in G \cup A : log[k].ns <= merged'.max
  <2>1. CASE max[h] <= merged.max
    <3>1. merged'.max = merged.max
      BY <1>7, <2>1 DEF MergedMax
    <3> QED
      BY <1>4, <1>8, <1>9, <2>1, <3>1
  <2>2. CASE ~ max[h] <= merged.max
    <3>1. merged'.max = max[h]
      BY <1>7, <2>2 DEF MergedMax
    <3> QED
      BY <1>4, <1>8, <1>9, <2>2, <3>1
  <2> QED
    BY <2>1, <2>2
<1>14. Ns' = Ns /\ \A S, b : InBin(S, b)' = InBin(S, b)
  BY <1>3 DEF Ns, InBin
<1> QED
  BY <1>3, <1>6, <1>10, <1>11, <1>12, <1>13, <1>14 DEF Merging

\* Before the merge nothing is merged.
LEMMA NothingGone ==
  ASSUME RecordTypes, left = Hists
  PROVE  /\ Gone = {} /\ SumOver(Ns, {}) = 0 /\ Cardinality({}) = 0 /\ \A b : InBin({}, b) = {}
<1>1. Gone = {}
  BY TypesTyped DEF Typed, Gone
<1> QED
  BY <1>1, SumIs, UnitsOfNone, FS_EmptySet DEF InBin

LEMMA MergingStep ==
  ASSUME MaxInv, MaxInv', OtherTypes, Counted, Merging, [Next]_vars
  PROVE  Merging'
<1>1. ASSUME NEW h \in Hists, Merge(h) PROVE Merging'
  BY <1>1, MergeMerging
<1>2. ASSUME left = Hists, left' = Hists, merged' = merged PROVE Merging'
  <2>1. /\ Gone = {} /\ SumOver(Ns, {}) = 0 /\ Cardinality({}) = 0 /\ \A b : InBin({}, b) = {}
    BY <1>2, NothingGone DEF MaxInv
  <2>2. Gone' = {}
    <3>1. Typed'
      <4>1. RecordTypes'
        BY DEF MaxInv
      <4> QED
        BY <4>1, TypesTyped, PTL
    <3> QED
      BY <1>2, <3>1 DEF Typed, Gone
  <2>3. /\ \A b \in Bins : merged.buckets[b] = 0
        /\ merged.count = 0 /\ merged.sum = 0 /\ merged.max = 0
    BY <2>1 DEF Merging
  <2>4. (\A b : InBin({}, b)' = {}) /\ SumOver(Ns, {})' = 0
    BY <2>1 DEF InBin, SumOver
  <2> QED
    BY <1>2, <2>1, <2>2, <2>3, <2>4 DEF Merging
<1>3. ASSUME NEW r \in Recorders,
             RecordStep(r) \/ \E h \in Hists, ns \in Samples : Record(r, h, ns)
      PROVE  Merging'
  <2>1. left = Hists
    BY <1>3 DEF RecordStep, Record, AddBucket, AddCount, AddSum, LoadMax, CasMax, GoTo, Merging
  <2>2. UNCHANGED <<left, merged>>
    BY <1>3 DEF RecordStep, Record, AddBucket, AddCount, AddSum, LoadMax, CasMax, mergeVars
  <2> QED
    BY <1>2, <2>1, <2>2
<1>4. CASE (\E h \in Hists : Percentile(h)) \/ ReadBucket \/ Answered \/ UNCHANGED vars
  <2>1. UNCHANGED <<pc, log, left, merged>>
    BY <1>4 DEF Percentile, ReadBucket, Answered, vars, mergeVars
  <2> QED
    BY <2>1 DEF Merging, Gone, Ns, InBin, SumOver
<1> QED
  BY <1>1, <1>3, <1>4 DEF Next

-----------------------------------------------------------------------------
(* The theorems.                                                           *)

LEMMA InitIInv == Init => IInv
<1> SUFFICES ASSUME Init PROVE IInv
  OBVIOUS
<1>1. /\ log = <<>> /\ left = Hists /\ (\A r \in Recorders : pc[r] = "idle") /\ reader = Idle
      /\ buckets = [h \in Hists |-> EmptyBins] /\ count = [h \in Hists |-> 0]
      /\ sum = [h \in Hists |-> 0]
      /\ merged = [buckets |-> EmptyBins, count |-> 0, sum |-> 0, max |-> 0]
  BY DEF Init
<1>2. MaxInv
  BY InitMaxInv
<1>3. EmptyBins \in [Bins -> Nat]
  BY DEF EmptyBins
<1>4. OtherTypes
  <2>1. 0 \in 0 .. K
    OBVIOUS
  <2> QED
    BY <1>1, <1>3, <2>1 DEF OtherTypes, Idle
<1>5. SumOver(Ns, {}) = 0 /\ Cardinality({}) = 0 /\ \A b : InBin({}, b) = {}
  BY SumIs, UnitsOfNone, FS_EmptySet DEF InBin
<1>6. Counted
  <2>1. \A h, steps : Past(h, steps) = {}
    BY <1>1 DEF Past
  <2>2. SampleCount(EmptyBins, K - 1) = 0
    <3>1. Units(0 .. K - 1, EmptyBins) = {}
      BY DEF Units, EmptyBins, Bins
    <3> QED
      BY <3>1, CountIs, FS_EmptySet
  <2>3. \A h \in Hists : CountedIn(h)
    BY <1>1, <1>5, <2>1, <2>2 DEF CountedIn, EmptyBins
  <2>4. OneEach
    BY <1>1 DEF OneEach
  <2> QED
    BY <2>3, <2>4, CountedMeans
<1>7. Scanning
  BY <1>1, ScanningMeans DEF Idle
<1>8. Merging
  <2>1. Gone = {}
    BY <1>1 DEF Gone
  <2> QED
    BY <1>1, <1>5, <2>1 DEF Merging, EmptyBins
<1> QED
  BY <1>2, <1>4, <1>6, <1>7, <1>8, InvMeans

(***************************************************************************)
(* However the goroutines interleave: the maximum is never below a sample  *)
(* whose Record has returned and always one that was recorded; every       *)
(* sample is in the buckets, the count and the sum of its histogram, once, *)
(* as soon as its call is past the atomic operation; a scan knows no more  *)
(* and no fewer samples than its buckets hold; and so it is for a merge.   *)
(***************************************************************************)
THEOREM Invariance == Spec => []IInv
<1>1. IInv /\ [Next]_vars => IInv'
  <2> SUFFICES ASSUME IInv, [Next]_vars PROVE IInv'
    OBVIOUS
  <2>1. MaxInv /\ OtherTypes /\ Counted /\ Scanning /\ Merging
    BY InvMeans
  <2>2. MaxInv'
    BY <2>1, MaxStep
  <2> QED
    BY <2>1, <2>2, OtherTypesStep, CountedStep, ScanningStep, MergingStep, InvMeansNext
<1> QED
  BY InitIInv, <1>1, PTL DEF Spec

(***************************************************************************)
(* A percentile that is read while others record is the midpoint of a      *)
(* bucket that holds the rank, and a scan finds one: it never runs out of  *)
(* buckets.                                                                *)
(***************************************************************************)
THEOREM Bracketed == Spec => []PercentileBracketed
<1>1. Init => PercentileBracketed
  BY DEF Init, PercentileBracketed, Idle
<1>2. IInv /\ PercentileBracketed /\ [Next]_vars => PercentileBracketed'
  BY InvMeans, BracketedStep
<1> QED
  BY Invariance, <1>1, <1>2, PTL DEF Spec

(***************************************************************************)
(* What is merged of all histograms accounts for every sample once.        *)
(***************************************************************************)
THEOREM Merged == Spec => []MergedExact
<1>1. IInv => MergedExact
  <2> SUFFICES ASSUME IInv, left = {}
               PROVE  /\ \A b \in Bins : merged.buckets[b] = Cardinality(InBin(DOMAIN log, b))
                      /\ merged.count = Len(log)
                      /\ merged.sum = SumOver(Ns, DOMAIN log)
                      /\ merged.max = Max({0} \cup {log[k].ns : k \in DOMAIN log})
    BY DEF MergedExact
  <2>1. Gone = DOMAIN log
    BY DEF Gone
  <2>2. /\ \A b \in Bins : merged.buckets[b] = Cardinality(InBin(DOMAIN log, b))
        /\ merged.count = Cardinality(DOMAIN log)
        /\ merged.sum = SumOver(Ns, DOMAIN log)
        /\ merged.max \in {0} \cup {log[k].ns : k \in DOMAIN log}
        /\ \A k \in DOMAIN log : log[k].ns <= merged.max
    BY <2>1 DEF IInv, Merging
  <2>3. Cardinality(DOMAIN log) = Len(log)
    <3>1. PICK n : n = Len(log)
      OBVIOUS
    <3>2. DOMAIN log = 1 .. n /\ n \in Nat
      BY <3>1 DEF IInv, TypeOK
    <3>3. Cardinality(1 .. n) = n
      BY <3>2, FS_Interval
    <3> QED
      BY <3>1, <3>2, <3>3
  <2>4. merged.max = Max({0} \cup {log[k].ns : k \in DOMAIN log})
    <3>1. PICK S : S = {0} \cup {log[k].ns : k \in DOMAIN log}
      OBVIOUS
    <3>2. PICK m : m = merged.max
      OBVIOUS
    <3>3. m \in Nat /\ \A k \in DOMAIN log : log[k].ns \in Nat
      BY <3>2, TypesTyped, InvMeans DEF OtherTypes, MaxInv, Typed
    <3>4. m \in S /\ \A n \in S : n \in Nat /\ m >= n
      BY <2>2, <3>1, <3>2, <3>3
    <3>5. \A n \in S : (\A i \in S : n >= i) => n = m
      BY <3>4
    <3> QED
      BY <3>1, <3>2, <3>4, <3>5 DEF Max
  <2> QED
    BY <2>2, <2>3, <2>4
<1> QED
  BY Invariance, <1>1, PTL
=============================================================================
