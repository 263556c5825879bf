-------------------------------- MODULE Mpsc --------------------------------
(***************************************************************************)
(* pkg/mpsc/ring.go: the lock-free multi-producer single-consumer ring     *)
(* through which every command reaches a matching engine.                  *)
(*                                                                         *)
(* One action per access to shared memory.  A producer inside TrySubmit    *)
(* loads the cursor, loads the tail, races with a compare-and-swap for the *)
(* cursor, writes the command pointer and publishes the lap number; the    *)
(* engine goroutine inside TryPop compares the lap, reads the pointer,     *)
(* clears it and advances the tail.  All of these interleave.              *)
(*                                                                         *)
(* Sequence numbers are natural numbers: the code's uint64 counters would  *)
(* wrap after 2^64 commands.  The one place where the width matters, the   *)
(* subtraction of a tail larger than the loaded cursor, is kept (Full).    *)
(***************************************************************************)
EXTENDS Integers, Sequences, FiniteSets

CONSTANTS Producers,   \* goroutines that submit
          Spinning,    \* those that retry until accepted (Submit, cmd/stress);
                       \* the others give up (the gateway)
          Cmds,        \* the command pointers
          Cap,         \* len(slots)
          Nil          \* the nil pointer

\* New rounds the capacity up to a power of two, at least 2; the algorithm
\* itself only needs a slot to exist.
ASSUME MpscAssumption ==
  /\ Cap \in Nat \ {0}
  /\ Spinning \subseteq Producers
  /\ Nil \notin Cmds

Never == -1               \* _never, a lap no published slot can have
Index(seq) == seq % Cap    \* seq & mask
Lap(seq) == seq \div Cap   \* seq >> log2
Slots == 0 .. Cap - 1

VARIABLES cursor,    \* prod.cursor: the next sequence number to claim
          tail,      \* cons.tail: the next sequence number to consume
          lap,       \* slots[i].lap
          slot,      \* slots[i].cmd
          pc, cmd, cur,   \* each producer's position, argument and loaded cursor
          cpc, got,  \* the consumer's position and the pointer it read
          claimed,   \* history: claimed[s + 1] is the command that won number s
          popped     \* history: what TryPop returned, oldest first

prodVars == <<pc, cmd, cur>>
consVars == <<cpc, got>>
vars == <<cursor, tail, lap, slot, prodVars, consVars, claimed, popped>>

Init ==
  /\ cursor = 0 /\ tail = 0
  /\ lap = [i \in Slots |-> Never]
  /\ slot = [i \in Slots |-> Nil]
  /\ pc = [p \in Producers |-> "idle"]
  /\ cmd = [p \in Producers |-> Nil]
  /\ cur = [p \in Producers |-> 0]
  /\ cpc = "poll" /\ got = Nil
  /\ claimed = <<>> /\ popped = <<>>
-----------------------------------------------------------------------------
(* TrySubmit.  A returning call forgets its locals.                        *)

\* A command is submitted by the goroutine that owns it, and again only after
\* a refusal.
Owned(c) == \/ \E s \in 1 .. Len(claimed) : claimed[s] = c
            \/ \E p \in Producers : cmd[p] = c

Return(p) ==
  /\ pc' = [pc EXCEPT ![p] = "idle"]
  /\ cmd' = [cmd EXCEPT ![p] = Nil]
  /\ cur' = [cur EXCEPT ![p] = 0]

Call(p, c) ==
  /\ pc[p] = "idle"
  /\ ~Owned(c)
  /\ pc' = [pc EXCEPT ![p] = "load"]
  /\ cmd' = [cmd EXCEPT ![p] = c]
  /\ UNCHANGED <<cursor, tail, lap, slot, cur, consVars, claimed, popped>>

LoadCursor(p) ==
  /\ pc[p] = "load"
  /\ cur' = [cur EXCEPT ![p] = cursor]
  /\ pc' = [pc EXCEPT ![p] = "check"]
  /\ UNCHANGED <<cursor, tail, lap, slot, cmd, consVars, claimed, popped>>

\* Bugs the runs notice: one slot too many, and one too few.
FullOneLate(c, t) == c < t \/ c - t > Cap
FullOneEarly(c, t) == c < t \/ c - t >= Cap - 1

\* cur - tail >= len(slots) on uint64: when the consumer has overtaken the
\* loaded cursor the difference wraps around to a huge number.
Full(c, t) == c < t \/ c - t >= Cap

CheckFull(p) ==
  /\ pc[p] = "check"
  /\ pc' = [pc EXCEPT ![p] = IF Full(cur[p], tail) THEN "full" ELSE "cas"]
  /\ UNCHANGED <<cursor, tail, lap, slot, cmd, cur, consVars, claimed, popped>>

\* TrySubmit returns false.  Submit and the loops of cmd/stress call again at
\* once; the gateway reports the refusal.
Refused(p) ==
  /\ pc[p] = "full"
  /\ \/ /\ p \in Spinning
        /\ pc' = [pc EXCEPT ![p] = "load"]
        /\ cur' = [cur EXCEPT ![p] = 0]
        /\ UNCHANGED cmd
     \/ p \notin Spinning /\ Return(p)
  /\ UNCHANGED <<cursor, tail, lap, slot, consVars, claimed, popped>>

\* A bug the runs notice: a store in place of the compare-and-swap.
ClaimNoCompare(p) ==
  /\ pc[p] = "cas"
  /\ cursor' = cur[p] + 1
  /\ claimed' = Append(claimed, cmd[p])
  /\ pc' = [pc EXCEPT ![p] = "write"]
  /\ UNCHANGED <<tail, lap, slot, cmd, cur, consVars, popped>>

Claim(p) ==
  /\ pc[p] = "cas"
  /\ cursor = cur[p]
  /\ cursor' = cursor + 1
  /\ claimed' = Append(claimed, cmd[p])
  /\ pc' = [pc EXCEPT ![p] = "write"]
  /\ UNCHANGED <<tail, lap, slot, cmd, cur, consVars, popped>>

\* A bug the runs notice: the compare-and-swap is retried without a new load.
LostRaceNoReload(p) ==
  /\ pc[p] = "cas"
  /\ cursor # cur[p]
  /\ UNCHANGED vars

LostRace(p) ==
  /\ pc[p] = "cas"
  /\ cursor # cur[p]
  /\ pc' = [pc EXCEPT ![p] = "load"]
  /\ cur' = [cur EXCEPT ![p] = 0]
  /\ UNCHANGED <<cursor, tail, lap, slot, cmd, consVars, claimed, popped>>

WriteSlot(p) ==
  /\ pc[p] = "write"
  /\ slot' = [slot EXCEPT ![Index(cur[p])] = cmd[p]]
  /\ pc' = [pc EXCEPT ![p] = "publish"]
  /\ UNCHANGED <<cursor, tail, lap, cmd, cur, consVars, claimed, popped>>

\* A bug the runs notice: the store of the lap is missing.
PublishNothing(p) ==
  /\ pc[p] = "publish"
  /\ Return(p)
  /\ UNCHANGED <<cursor, tail, lap, slot, consVars, claimed, popped>>

Publish(p) ==
  /\ pc[p] = "publish"
  /\ lap' = [lap EXCEPT ![Index(cur[p])] = Lap(cur[p])]
  /\ Return(p)
  /\ UNCHANGED <<cursor, tail, slot, consVars, claimed, popped>>

Step(p) ==
  \/ LoadCursor(p) \/ CheckFull(p) \/ Refused(p) \/ Claim(p)
  \/ LostRace(p) \/ WriteSlot(p) \/ Publish(p)
-----------------------------------------------------------------------------
(* TryPop, called by the engine goroutine alone.                           *)

\* A bug the runs notice: any published lap will do.
ReadyAnyLap == lap[Index(tail)] # Never

Ready == lap[Index(tail)] = Lap(tail)

PollEmpty ==
  /\ cpc = "poll" /\ ~Ready
  /\ UNCHANGED vars

PollReady ==
  /\ cpc = "poll" /\ Ready
  /\ cpc' = "read"
  /\ UNCHANGED <<cursor, tail, lap, slot, prodVars, got, claimed, popped>>

ReadSlot ==
  /\ cpc = "read"
  /\ got' = slot[Index(tail)]
  /\ cpc' = "clear"
  /\ UNCHANGED <<cursor, tail, lap, slot, prodVars, claimed, popped>>

\* A bug the runs notice: the slot is cleared after the tail has moved on.
ClearNextSlot ==
  /\ cpc = "clear"
  /\ slot' = [slot EXCEPT ![Index(tail + 1)] = Nil]
  /\ cpc' = "advance"
  /\ UNCHANGED <<cursor, tail, lap, prodVars, got, claimed, popped>>

ClearSlot ==
  /\ cpc = "clear"
  /\ slot' = [slot EXCEPT ![Index(tail)] = Nil]
  /\ cpc' = "advance"
  /\ UNCHANGED <<cursor, tail, lap, prodVars, got, claimed, popped>>

Advance ==
  /\ cpc = "advance"
  /\ tail' = tail + 1
  /\ popped' = Append(popped, got)
  /\ got' = Nil
  /\ cpc' = "poll"
  /\ UNCHANGED <<cursor, lap, slot, prodVars, claimed>>

Consume == PollReady \/ ReadSlot \/ ClearSlot \/ Advance
-----------------------------------------------------------------------------
Next ==
  \/ \E p \in Producers : Step(p) \/ \E c \in Cmds : Call(p, c)
  \/ PollEmpty
  \/ Consume

Spec == Init /\ [][Next]_vars

\* The Go scheduler preempts and resumes every goroutine, and the engine
\* goroutine polls for ever; nobody is obliged to submit.
Fairness == (\A p \in Producers : WF_vars(Step(p))) /\ WF_vars(Consume)

FairSpec == Spec /\ Fairness
-----------------------------------------------------------------------------
Claiming == {p \in Producers : pc[p] \in {"write", "publish"}}

TypeOK ==
  /\ cursor \in Nat /\ tail \in Nat
  /\ lap \in [Slots -> Nat \cup {Never}]
  /\ slot \in [Slots -> Cmds \cup {Nil}]
  /\ pc \in [Producers -> {"idle", "load", "check", "full", "cas", "write", "publish"}]
  /\ cmd \in [Producers -> Cmds \cup {Nil}]
  /\ cur \in [Producers -> Nat]
  /\ cpc \in {"poll", "read", "clear", "advance"}
  /\ got \in Cmds \cup {Nil}
  /\ claimed \in Seq(Cmds)
  /\ popped \in Seq(Cmds \cup {Nil})

(***************************************************************************)
(* The pointer in a slot is an ordinary Go variable.  No two goroutines    *)
(* are ever about to touch the same slot with one of them writing: neither *)
(* two producers, nor a producer and the consumer (ring.go says "we        *)
(* exclusively own slot[cur & mask]").                                     *)
(***************************************************************************)
NoSlotRace ==
  /\ \A p, q \in Claiming : p # q => Index(cur[p]) # Index(cur[q])
  /\ \A p \in Claiming : cpc \in {"read", "clear", "advance"} => Index(cur[p]) # Index(tail)

(***************************************************************************)
(* Whatever the interleaving of claims, writes and publications, TryPop    *)
(* returns the claimed commands exactly once each, in the order of the     *)
(* claims, and never a pointer that is not there yet.                      *)
(***************************************************************************)
DeliveredInClaimOrder == popped = SubSeq(claimed, 1, tail)

(***************************************************************************)
(* A command whose TrySubmit has returned true is in the slot of its       *)
(* sequence number, under that number's lap, until the consumer has read   *)
(* it: no later lap and no clearing ever overwrites it.                    *)
(***************************************************************************)
Unread(s) == tail <= s /\ s < cursor /\ ~(s = tail /\ cpc = "advance")

PublishedIntact ==
  \A s \in tail .. cursor - 1 :
    (Unread(s) /\ \A p \in Claiming : cur[p] # s)
      => slot[Index(s)] = claimed[s + 1] /\ lap[Index(s)] = Lap(s)

-----------------------------------------------------------------------------
(* Why these hold: the inductive invariant.                                *)

\* No more numbers are claimed than there are slots.
Bounds == tail <= cursor /\ cursor <= tail + Cap /\ Len(claimed) = cursor

\* A cursor that passed the check for a full ring and is still the current one
\* may be claimed: the tail can only have moved on.
MayClaim ==
  \A p \in Producers :
    /\ pc[p] # "idle" => cmd[p] \in Cmds
    /\ pc[p] \in {"check", "full", "cas"} => cur[p] <= cursor
    /\ pc[p] = "cas" /\ cur[p] = cursor => cursor < tail + Cap

\* A claimed number belongs to one producer until it is published.
Claims ==
  /\ \A p \in Claiming :
       /\ tail <= cur[p] /\ cur[p] < cursor
       /\ claimed[cur[p] + 1] = cmd[p]
       /\ lap[Index(cur[p])] # Lap(cur[p])
       /\ pc[p] = "publish" => slot[Index(cur[p])] = cmd[p]
  /\ \A p, q \in Claiming : cur[p] = cur[q] => p = q

\* What lies between the tail and the cursor is being written or published.
Published ==
  \A s \in tail .. cursor - 1 :
    \/ \E p \in Claiming : cur[p] = s
    \/ /\ lap[Index(s)] = Lap(s)
       /\ Unread(s) => slot[Index(s)] = claimed[s + 1]

\* A lap in a slot was put there for a number that was claimed.
LapsClaimed ==
  \A i \in Slots : lap[i] # Never =>
    \E s \in 0 .. cursor - 1 : Index(s) = i /\ Lap(s) = lap[i]

ConsumerReady ==
  /\ cpc # "poll" => Ready
  /\ cpc \in {"clear", "advance"} => got = claimed[tail + 1]

Delivered == Len(popped) = tail /\ \A i \in 1 .. tail : popped[i] = claimed[i]

IInv ==
  TypeOK /\ Bounds /\ MayClaim /\ Claims /\ Published /\ LapsClaimed /\ ConsumerReady /\ Delivered
-----------------------------------------------------------------------------
\* The ring implements the bounded FIFO queue: a command enters with the
\* successful compare-and-swap and leaves when the tail advances.
Fifo == INSTANCE BoundedFifo WITH
          Elems <- Cmds, N <- Cap,
          queue <- SubSeq(claimed, tail + 1, cursor), delivered <- popped

ImplementsFifo == Fifo!Spec

(***************************************************************************)
(* Every command that won a sequence number reaches the engine, although   *)
(* a producer that stalls between its claim and its publication holds up   *)
(* everything behind it (FIFO with the consumer's fairness).               *)
(***************************************************************************)
ImplementsFairFifo == Fifo!FairSpec

(***************************************************************************)
(* The submission loop is lock-free: while a goroutine spins in Submit for *)
(* a command that has no number yet, the n-th claim is always followed by  *)
(* another one.  (Whose, nothing promises: TrySubmit is not fair.)         *)
(***************************************************************************)
Pending(p) == pc[p] \in {"load", "check", "full", "cas"}

SpinningIsProductive ==
  \A n \in 0 .. Cardinality(Cmds) :
    (Len(claimed) = n /\ \E p \in Spinning : Pending(p)) ~> (Len(claimed) > n)
=============================================================================
