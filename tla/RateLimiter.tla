---------------------------- MODULE RateLimiter -----------------------------
(***************************************************************************)
(* The token bucket of one user in pkg/gateway, shared by the goroutines   *)
(* that place orders for that user.                                        *)
(*                                                                         *)
(* allow reads the clock before it takes the lock, so a goroutine that is  *)
(* held up enters with an old reading, after others that read later: the   *)
(* time since the last refill is then negative and lastTime goes back.     *)
(*                                                                         *)
(* A tick of the clock refills one unit and an order costs Cost units.     *)
(* (The code counts tokens in float64; its rounding is not modelled.  The  *)
(* clock does not run backwards.)                                          *)
(***************************************************************************)
EXTENDS Integers, Sequences

CONSTANTS Callers,   \* goroutines that place orders for the user
          Cost,      \* units in a token
          Max,       \* units in a full bucket: MaxOrdersPerSecond tokens
          MaxClock   \* bound: ticks

ASSUME RateAssumption == Cost \in Nat \ {0} /\ Max \in Nat /\ MaxClock \in Nat

VARIABLES clock,
          tokens, lastTime,   \* the bucket
          pc, now,            \* each caller: position and reading of the clock
          stamps,   \* history: the readings of the admitted calls, in their order
          ideal     \* history: the bucket, were the clock read under the lock

bucketVars == <<tokens, lastTime>>
vars == <<clock, bucketVars, pc, now, stamps, ideal>>

AtMost(x, y) == IF x > y THEN y ELSE x

\* newTokenBucket; callers read the clock after it.
Init ==
  /\ clock = 0
  /\ tokens = Max /\ lastTime = 0
  /\ pc = [c \in Callers |-> "idle"]
  /\ now = [c \in Callers |-> 0]
  /\ stamps = <<>>
  /\ ideal = Max

Tick ==
  /\ clock < MaxClock
  /\ clock' = clock + 1
  /\ ideal' = AtMost(ideal + 1, Max)
  /\ UNCHANGED <<bucketVars, pc, now, stamps>>

ReadClock(c) ==
  /\ pc[c] = "idle"
  /\ now' = [now EXCEPT ![c] = clock]
  /\ pc' = [pc EXCEPT ![c] = "allow"]
  /\ UNCHANGED <<clock, bucketVars, stamps, ideal>>

\* A bug the runs notice: the bucket has no rim.
RefilledNoCap(c) == tokens + (now[c] - lastTime)

Refilled(c) == AtMost(tokens + (now[c] - lastTime), Max)

\* The rest of allow, under the lock.
Return(c) ==
  /\ pc[c] = "allow"
  /\ pc' = [pc EXCEPT ![c] = "idle"]
  /\ now' = [now EXCEPT ![c] = 0]
  /\ lastTime' = now[c]
  /\ UNCHANGED clock

Admit(c) ==
  /\ Return(c)
  /\ Refilled(c) >= Cost
  /\ tokens' = Refilled(c) - Cost
  /\ stamps' = Append(stamps, now[c])
  /\ ideal' = ideal - Cost

\* A bug the runs notice: a refused call pays as well.
RefuseAndCharge(c) ==
  /\ Return(c)
  /\ Refilled(c) < Cost
  /\ tokens' = Refilled(c) - Cost
  /\ UNCHANGED <<stamps, ideal>>

Refuse(c) ==
  /\ Return(c)
  /\ Refilled(c) < Cost
  /\ tokens' = Refilled(c)
  /\ UNCHANGED <<stamps, ideal>>

Next == Tick \/ \E c \in Callers : ReadClock(c) \/ Admit(c) \/ Refuse(c)

Spec == Init /\ [][Next]_vars
-----------------------------------------------------------------------------
(***************************************************************************)
(* The rate is bounded over every window: any run of consecutive           *)
(* admissions costs at most a full bucket and what was refilled between    *)
(* the readings of the first and the last of them, also when readings come *)
(* out of order.                                                           *)
(***************************************************************************)
EveryWindowBounded ==
  \A i, j \in DOMAIN stamps :
    i <= j => (j - i + 1) * Cost <= Max + (stamps[j] - stamps[i])

(***************************************************************************)
(* Old readings are at nobody else's expense: a call whose reading is      *)
(* still the present time is refused only if a bucket that always reads    *)
(* the clock under the lock would be short of a token as well.             *)
(***************************************************************************)
FreshCallsServed ==
  [][\A c \in Callers : now[c] = clock /\ Refuse(c) => ideal < Cost]_vars
-----------------------------------------------------------------------------
(* Why these hold.                                                         *)

TypeOK ==
  /\ clock \in Nat
  /\ tokens \in Int /\ lastTime \in Nat
  /\ pc \in [Callers -> {"idle", "allow"}]
  /\ now \in [Callers -> Nat]
  /\ stamps \in Seq(Nat)
  /\ ideal \in Int

Timely == lastTime <= clock /\ (\A c \in Callers : now[c] <= clock) /\ tokens <= Max

\* tokens - lastTime only ever falls, and by Cost with each admission.
Potential ==
  \A i \in DOMAIN stamps :
    (Len(stamps) - i + 1) * Cost + tokens <= Max + (lastTime - stamps[i])

\* What the bucket would hold for a call that reads the clock now.
NotShort == ideal <= AtMost(tokens + (clock - lastTime), Max)

IInv == TypeOK /\ Timely /\ Potential /\ NotShort /\ EveryWindowBounded
=============================================================================
