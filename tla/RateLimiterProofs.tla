------------------------- MODULE RateLimiterProofs --------------------------
(***************************************************************************)
(* The rate limiter for any number of callers, any rate and any burst: the *)
(* inductive invariant, the bound on every window, and that calls with a   *)
(* present reading are served.                                             *)
(***************************************************************************)
EXTENDS RateLimiter, TLAPS

USE RateAssumption DEF RateAssumption

(* The bound on a sum of costs when one more call is admitted.             *)
LEMMA OneMore ==
  ASSUME NEW n \in Int
  PROVE n * Cost \in Int /\ (n + 1) * Cost = n * Cost + Cost
  OBVIOUS

(* What a call refills, in terms of the bucket before.                     *)
LEMMA RefillBound ==
  ASSUME IInv, NEW c \in Callers
  PROVE /\ Refilled(c) \in Int
        /\ Refilled(c) <= Max
        /\ Refilled(c) <= tokens + (now[c] - lastTime)
        /\ Refilled(c) = Max \/ Refilled(c) = tokens + (now[c] - lastTime)
        /\ now[c] \in Nat /\ now[c] <= clock
  <1>1. tokens \in Int /\ lastTime \in Nat /\ now[c] \in Nat /\ now[c] <= clock
    BY DEF IInv, TypeOK, Timely
  <1>2. tokens + (now[c] - lastTime) \in Int
    BY <1>1
  <1>3. Max \in Int
    BY RateAssumption DEF RateAssumption
  <1> QED BY <1>1, <1>2, <1>3 DEF Refilled, AtMost

LEMMA InitIInv == Init => IInv
  <1> SUFFICES ASSUME Init PROVE IInv
    OBVIOUS
  <1>1. TypeOK /\ Timely
    BY DEF Init, TypeOK, Timely
  <1>2. DOMAIN stamps = {}
    BY DEF Init
  <1>3. Potential /\ EveryWindowBounded
    BY <1>2 DEF Potential, EveryWindowBounded
  <1>4. NotShort
    BY DEF Init, NotShort, AtMost
  <1> QED BY <1>1, <1>3, <1>4 DEF IInv

(* Time passes: what the bucket would hold grows as the ideal one does.    *)
LEMMA TickStep == ASSUME IInv, Tick PROVE IInv'
  <1>1. TypeOK' /\ Timely'
    <2>1. clock' = clock + 1 /\ clock \in Nat /\ ideal' = AtMost(ideal + 1, Max) /\ ideal \in Int
      BY DEF IInv, TypeOK, Tick
    <2>2. ideal' \in Int
      BY <2>1 DEF AtMost
    <2> QED BY <2>1, <2>2 DEF IInv, TypeOK, Timely, Tick, bucketVars
  <1>2. Potential' /\ EveryWindowBounded'
    BY DEF IInv, Potential, EveryWindowBounded, Tick, bucketVars
  <1>3. NotShort'
    <2>1. clock \in Nat /\ tokens \in Int /\ lastTime \in Nat /\ ideal \in Int
      BY DEF IInv, TypeOK
    <2> QED BY <2>1 DEF IInv, NotShort, Tick, AtMost, bucketVars
  <1> QED BY <1>1, <1>2, <1>3 DEF IInv

(* A caller reads the clock.                                               *)
LEMMA ReadStep == ASSUME IInv, NEW c \in Callers, ReadClock(c) PROVE IInv'
  <1>1. TypeOK' /\ Timely'
    BY DEF IInv, TypeOK, Timely, ReadClock, bucketVars
  <1>2. Potential' /\ EveryWindowBounded' /\ NotShort'
    BY DEF IInv, Potential, EveryWindowBounded, NotShort, ReadClock, bucketVars
  <1> QED BY <1>1, <1>2 DEF IInv

(* A call is refused: the bucket is refilled and nothing is taken.         *)
LEMMA RefuseStep == ASSUME IInv, NEW c \in Callers, Refuse(c) PROVE IInv'
  <1>1. /\ tokens' = Refilled(c) /\ lastTime' = now[c]
        /\ UNCHANGED <<clock, stamps, ideal>>
        /\ now' = [now EXCEPT ![c] = 0] /\ pc' = [pc EXCEPT ![c] = "idle"]
    BY DEF Refuse, Return
  <1> DEFINE r == Refilled(c)
  <1>r. /\ r \in Int /\ r <= Max /\ r <= tokens + (now[c] - lastTime)
        /\ r = Max \/ r = tokens + (now[c] - lastTime)
        /\ now[c] \in Nat /\ now[c] <= clock
    BY RefillBound
  <1>t. tokens \in Int /\ lastTime \in Nat /\ clock \in Nat /\ ideal \in Int
    BY DEF IInv, TypeOK
  <1> HIDE DEF r
  <1>2. TypeOK' /\ Timely'
    BY <1>1, RefillBound DEF IInv, TypeOK, Timely
  <1>3. Potential'
    <2> SUFFICES ASSUME NEW i \in DOMAIN stamps
                 PROVE (Len(stamps) - i + 1) * Cost + r <= Max + (now[c] - stamps[i])
      BY <1>1 DEF Potential, r
    <2> DEFINE sum == (Len(stamps) - i + 1) * Cost
    <2>1. sum + tokens <= Max + (lastTime - stamps[i])
      BY DEF IInv, Potential
    <2>2. i \in Nat /\ Len(stamps) \in Nat /\ stamps[i] \in Nat
      BY DEF IInv, TypeOK
    <2>3. sum \in Int
      BY <2>2, OneMore
    <2> HIDE DEF sum
    <2>4. r \in Int /\ r <= tokens + (now[c] - lastTime) /\ now[c] \in Nat
      BY <1>r
    <2>5. tokens \in Int /\ lastTime \in Nat /\ stamps[i] \in Nat
      BY <1>t, <2>2
    <2>6. sum + r <= Max + (now[c] - stamps[i])
      BY <2>1, <2>3, <2>4, <2>5
    <2> QED BY <2>6 DEF sum
  <1>4. EveryWindowBounded'
    BY <1>1 DEF IInv, EveryWindowBounded
  <1>5. NotShort'
    <2>1. ideal <= Max /\ ideal <= tokens + (clock - lastTime)
      BY <1>t DEF IInv, NotShort, AtMost
    <2>2. ideal <= r + (clock - now[c])
      BY <2>1, <1>r, <1>t
    <2> QED BY <2>1, <2>2, <1>r, <1>t, <1>1 DEF NotShort, AtMost, r
  <1> QED BY <1>2, <1>3, <1>4, <1>5 DEF IInv

(* A call is admitted: a token is taken from both buckets.                 *)
LEMMA AdmitStep == ASSUME IInv, NEW c \in Callers, Admit(c) PROVE IInv'
  <1> DEFINE n == Len(stamps)
  <1>1. /\ tokens' = Refilled(c) - Cost /\ Refilled(c) >= Cost /\ lastTime' = now[c]
        /\ stamps' = Append(stamps, now[c]) /\ ideal' = ideal - Cost /\ clock' = clock
        /\ now' = [now EXCEPT ![c] = 0] /\ pc' = [pc EXCEPT ![c] = "idle"]
    BY DEF Admit, Return
  <1> DEFINE r == Refilled(c)
  <1>r. /\ r \in Int /\ r <= Max /\ r <= tokens + (now[c] - lastTime)
        /\ r = Max \/ r = tokens + (now[c] - lastTime)
        /\ r >= Cost /\ tokens' = r - Cost /\ now[c] <= clock
    BY <1>1, RefillBound
  <1>t. clock \in Nat /\ ideal \in Int
    BY DEF IInv, TypeOK
  <1>2. now[c] \in Nat /\ n \in Nat /\ stamps \in Seq(Nat) /\ tokens \in Int /\ lastTime \in Nat
    BY DEF IInv, TypeOK
  <1>3. /\ DOMAIN stamps' = 1 .. n + 1 /\ Len(stamps') = n + 1
        /\ stamps'[n + 1] = now[c]
        /\ \A i \in 1 .. n : stamps'[i] = stamps[i] /\ stamps[i] \in Nat
    BY <1>1, <1>2
  <1>4. TypeOK' /\ Timely'
    <2>1. stamps' \in Seq(Nat)
      BY <1>1, <1>2
    <2> QED BY <1>1, <2>1, RefillBound DEF IInv, TypeOK, Timely
  <1>5. ASSUME NEW i \in 1 .. n + 1
        PROVE (n + 1 - i + 1) * Cost + tokens' <= Max + (now[c] - stamps'[i])
    <2>1. CASE i = n + 1
      <3>1. (n + 1 - i + 1) * Cost = Cost
        BY <2>1, <1>2
      <3> QED BY <3>1, <2>1, <1>1, <1>2, <1>3, RefillBound
    <2>2. CASE i \in 1 .. n
      <3> DEFINE sum == (n - i + 1) * Cost
      <3>1. sum + tokens <= Max + (lastTime - stamps[i])
        BY <2>2, <1>2 DEF IInv, Potential
      <3>2. sum \in Int /\ (n - i + 1 + 1) * Cost = sum + Cost
        BY <2>2, <1>2, OneMore
      <3>3. n + 1 - i + 1 = n - i + 1 + 1
        BY <2>2, <1>2
      <3>4. (n + 1 - i + 1) * Cost = sum + Cost
        BY <3>2, <3>3
      <3> HIDE DEF sum
      <3>5. sum + Cost + tokens' <= Max + (now[c] - stamps[i])
        <4>1. stamps[i] \in Nat /\ sum \in Int /\ tokens \in Int /\ lastTime \in Nat /\ now[c] \in Nat
          BY <2>2, <1>2, <1>3, <3>2
        <4>2. r \in Int /\ r <= tokens + (now[c] - lastTime) /\ tokens' = r - Cost
          BY <1>r
        <4> HIDE DEF r
        <4>3. sum + r <= Max + (now[c] - stamps[i])
          BY <3>1, <4>1, <4>2
        <4>4. sum + Cost + tokens' = sum + r
          BY <4>1, <4>2
        <4> QED BY <4>3, <4>4
      <3> QED BY <3>4, <3>5, <2>2, <1>3
    <2> QED BY <2>1, <2>2, <1>2
  <1>6. Potential'
    BY <1>1, <1>3, <1>5 DEF Potential
  <1>7. EveryWindowBounded'
    <2> SUFFICES ASSUME NEW i \in 1 .. n + 1, NEW j \in 1 .. n + 1, i <= j
                 PROVE (j - i + 1) * Cost <= Max + (stamps'[j] - stamps'[i])
      BY <1>3 DEF EveryWindowBounded
    <2>1. CASE j = n + 1
      <3> DEFINE sum == (n + 1 - i + 1) * Cost
      <3>1. sum + tokens' <= Max + (now[c] - stamps'[i])
        BY <1>5
      <3>2. sum \in Int /\ tokens' \in Nat /\ stamps'[i] \in Nat
        BY <1>1, <1>2, <1>3, OneMore, RefillBound
      <3> HIDE DEF sum
      <3>3. sum <= Max + (now[c] - stamps'[i])
        BY <3>1, <3>2, <1>2
      <3> QED BY <3>3, <2>1, <1>3 DEF sum
    <2>2. CASE j \in 1 .. n
      <3>1. i \in 1 .. n
        BY <2>2, <1>2
      <3>2. (j - i + 1) * Cost <= Max + (stamps[j] - stamps[i])
        <4>1. i \in DOMAIN stamps /\ j \in DOMAIN stamps
          BY <3>1, <2>2, <1>2
        <4> QED BY <4>1 DEF IInv, EveryWindowBounded
      <3>3. stamps'[i] = stamps[i] /\ stamps'[j] = stamps[j]
        BY <3>1, <2>2, <1>3
      <3> QED BY <3>2, <3>3
    <2> QED BY <2>1, <2>2, <1>2
  <1>8. NotShort'
    <2> HIDE DEF r
    <2>1. ideal <= Max /\ ideal <= tokens + (clock - lastTime)
      BY <1>t, <1>2 DEF IInv, NotShort, AtMost
    <2>2. ideal <= r + (clock - now[c])
      BY <2>1, <1>r, <1>t, <1>2
    <2>3. ideal - Cost <= Max
      BY <2>1, <1>t
    <2>4. r \in Int /\ clock \in Nat /\ ideal \in Int /\ now[c] \in Nat
      BY <1>r, <1>t, <1>2
    <2>5. ideal - Cost <= (r - Cost) + (clock - now[c])
      BY <2>2, <2>4
    <2>6. tokens' = r - Cost /\ clock' = clock /\ lastTime' = now[c]
      BY <1>r, <1>1
    <2>7. ideal - Cost <= tokens' + (clock' - lastTime')
      BY <2>5, <2>6
    <2> QED BY <2>3, <2>7, <1>1 DEF NotShort, AtMost
  <1> QED BY <1>4, <1>6, <1>7, <1>8 DEF IInv

LEMMA StepIInv == IInv /\ [Next]_vars => IInv'
  <1> SUFFICES ASSUME IInv, [Next]_vars PROVE IInv'
    OBVIOUS
  <1>1. CASE Tick
    BY <1>1, TickStep
  <1>2. ASSUME NEW c \in Callers, ReadClock(c) PROVE IInv'
    BY <1>2, ReadStep
  <1>3. ASSUME NEW c \in Callers, Admit(c) PROVE IInv'
    BY <1>3, AdmitStep
  <1>4. ASSUME NEW c \in Callers, Refuse(c) PROVE IInv'
    BY <1>4, RefuseStep
  <1>5. CASE UNCHANGED vars
    BY <1>5 DEF vars, bucketVars, IInv, TypeOK, Timely, Potential, NotShort, EveryWindowBounded
  <1> QED BY <1>1, <1>2, <1>3, <1>4, <1>5 DEF Next

(***************************************************************************)
(* The inductive invariant of the token bucket (gateway.go, allow).        *)
(***************************************************************************)
THEOREM Invariance == Spec => []IInv
  <1> QED BY InitIInv, StepIInv, PTL DEF Spec

(***************************************************************************)
(* No window ever admits more than a full bucket and what was refilled in  *)
(* it, whatever the order in which old readings of the clock arrive.       *)
(***************************************************************************)
THEOREM RateBounded == Spec => []EveryWindowBounded
  <1>1. IInv => EveryWindowBounded
    BY DEF IInv
  <1> QED BY <1>1, Invariance, PTL

(***************************************************************************)
(* A call with a present reading is refused only if a bucket that reads    *)
(* the clock under the lock would be short of a token too.                 *)
(***************************************************************************)
THEOREM FreshServed == Spec => FreshCallsServed
  <1> DEFINE Fresh == \A c \in Callers : now[c] = clock /\ Refuse(c) => ideal < Cost
  <1>1. IInv => Fresh
    <2> SUFFICES ASSUME IInv, NEW c \in Callers, now[c] = clock, Refuse(c)
                 PROVE ideal < Cost
      OBVIOUS
    <2>1. Refilled(c) < Cost
      BY DEF Refuse
    <2>2. ideal <= Refilled(c)
      BY DEF IInv, NotShort, Refilled
    <2> QED BY <2>1, <2>2, RefillBound DEF IInv, TypeOK
  <1> QED BY <1>1, Invariance, PTL DEF FreshCallsServed
=============================================================================
