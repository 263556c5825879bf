----------------------------- MODULE Disruptor -----------------------------
(***************************************************************************)
(* pkg/disruptor: a single-producer single-consumer ring of pointers, and  *)
(* a third goroutine that asks for its length.  One action per access to   *)
(* shared memory: each side loads the other's counter, touches the slot,   *)
(* and advances its own counter, which nobody else writes.  Counters do    *)
(* not wrap (uint64 in the code).                                          *)
(***************************************************************************)
EXTENDS Integers, Sequences

CONSTANTS Items,    \* pointers that are pushed
          Nil,
          Cap,      \* len(slots)
          MaxPush   \* bound: how many items are pushed

ASSUME DisruptorAssumption ==
  /\ Cap \in Nat \ {0}
  /\ Nil \notin Items
  /\ MaxPush \in Nat

Index(seq) == seq % Cap
Slots == 0 .. Cap - 1

VARIABLES head, tail, slots,
          ppc, item, spins,     \* the producer; whether it is in Push or in TryPush
          cpc, got,             \* the consumer
          lpc, lhead, ltail, answer,  \* Len: the head it loaded, the tail then, the answer
          pushed, polled        \* history: items pushed and items popped

prodVars == <<ppc, item, spins>>
consVars == <<cpc, got>>
lenVars == <<lpc, lhead, ltail, answer>>
vars == <<head, tail, slots, prodVars, consVars, lenVars, pushed, polled>>

Init ==
  /\ head = 0 /\ tail = 0
  /\ slots = [s \in Slots |-> Nil]
  /\ ppc = "idle" /\ item = Nil /\ spins = FALSE
  /\ cpc = "idle" /\ got = Nil
  /\ lpc = "idle" /\ lhead = 0 /\ ltail = 0 /\ answer = 0
  /\ pushed = <<>> /\ polled = <<>>
-----------------------------------------------------------------------------
(* TryPush and Push.                                                       *)

Begin(i, spin) ==
  /\ ppc = "idle" /\ head < MaxPush
  /\ ppc' = "load" /\ item' = i /\ spins' = spin
  /\ UNCHANGED <<head, tail, slots, consVars, lenVars, pushed, polled>>

\* A bug the runs notice: one slot too many.
FullOneLate == head - tail > Cap

Full == head - tail >= Cap

\* The load of the tail and the comparison.  TryPush gives up, Push spins.
CheckRoom ==
  /\ ppc = "load"
  /\ ppc' = IF ~Full THEN "store" ELSE IF spins THEN "load" ELSE "idle"
  /\ UNCHANGED <<head, tail, slots, item, spins, consVars, lenVars, pushed, polled>>

StoreSlot ==
  /\ ppc = "store"
  /\ slots' = [slots EXCEPT ![Index(head)] = item]
  /\ ppc' = "add"
  /\ UNCHANGED <<head, tail, item, spins, consVars, lenVars, pushed, polled>>

AddHead ==
  /\ ppc = "add"
  /\ head' = head + 1
  /\ pushed' = Append(pushed, item)
  /\ ppc' = "idle"
  /\ UNCHANGED <<tail, slots, item, spins, consVars, lenVars, polled>>

Produce == CheckRoom \/ StoreSlot \/ AddHead
-----------------------------------------------------------------------------
(* TryPop, and Pop, which calls it until there is an item.                 *)

\* A bug the runs notice: the consumer waits for a second item.
HasTwo == head > tail + 1

HasItem == head # tail

FindItem ==
  /\ cpc = "idle" /\ HasItem
  /\ cpc' = "read"
  /\ UNCHANGED <<head, tail, slots, prodVars, got, lenVars, pushed, polled>>

ReadSlot ==
  /\ cpc = "read"
  /\ got' = slots[Index(tail)]
  /\ cpc' = "add"
  /\ UNCHANGED <<head, tail, slots, prodVars, lenVars, pushed, polled>>

AddTail ==
  /\ cpc = "add"
  /\ tail' = tail + 1
  /\ polled' = Append(polled, got)
  /\ cpc' = "idle"
  /\ UNCHANGED <<head, slots, prodVars, got, lenVars, pushed>>

Consume == FindItem \/ ReadSlot \/ AddTail
-----------------------------------------------------------------------------
(* Len, called by anybody.                                                 *)

LenLoadHead ==
  /\ lpc = "idle"
  /\ lhead' = head /\ ltail' = tail
  /\ lpc' = "tail"
  /\ UNCHANGED <<head, tail, slots, prodVars, consVars, answer, pushed, polled>>

\* A bug the runs notice: without its guard the subtraction underflows.
DifferenceOnly(h, t) == h - t

Difference(h, t) == IF h < t THEN 0 ELSE h - t

LenLoadTail ==
  /\ lpc = "tail"
  /\ answer' = Difference(lhead, tail)
  /\ lpc' = "answered"
  /\ UNCHANGED <<head, tail, slots, prodVars, consVars, lhead, ltail, pushed, polled>>

LenReturn ==
  /\ lpc = "answered"
  /\ lpc' = "idle" /\ lhead' = 0 /\ ltail' = 0 /\ answer' = 0
  /\ UNCHANGED <<head, tail, slots, prodVars, consVars, pushed, polled>>

CallLen == LenLoadHead \/ LenLoadTail \/ LenReturn
-----------------------------------------------------------------------------
Next ==
  \/ \E i \in Items, spin \in BOOLEAN : Begin(i, spin)
  \/ Produce
  \/ Consume
  \/ CallLen

Spec == Init /\ [][Next]_vars

\* The consumer pops in a loop; nobody has to push or to ask for the length.
FairSpec == Spec /\ WF_vars(Produce) /\ WF_vars(Consume)
-----------------------------------------------------------------------------
TypeOK ==
  /\ head \in Nat /\ tail \in Nat
  /\ slots \in [Slots -> Items \cup {Nil}]
  /\ ppc \in {"idle", "load", "store", "add"} /\ spins \in BOOLEAN
  /\ item \in Items \cup {Nil} /\ (ppc # "idle" => item \in Items)
  /\ cpc \in {"idle", "read", "add"} /\ got \in Items \cup {Nil}
  /\ lpc \in {"idle", "tail", "answered"}
  /\ lhead \in Nat /\ ltail \in Nat /\ answer \in Int
  /\ pushed \in Seq(Items) /\ polled \in Seq(Items)

Bounds == tail <= head /\ head <= tail + Cap /\ Len(pushed) = head /\ Len(polled) = tail

\* While the producer goes on, the tail it has looked at can only move away.
Producing ==
  /\ ppc \in {"store", "add"} => head < tail + Cap
  /\ ppc = "add" => slots[Index(head)] = item

\* Whatever is between the counters is in its slot.
Stored == \A s \in tail .. head - 1 : slots[Index(s)] = pushed[s + 1]

Consuming ==
  /\ cpc # "idle" => tail < head
  /\ cpc = "add" => got = pushed[tail + 1]

Delivered == \A i \in 1 .. tail : polled[i] = pushed[i]

Measuring == lpc # "idle" => ltail <= lhead /\ ltail <= tail

(***************************************************************************)
(* Len never claims more items than there were when it was called, and     *)
(* misses no more of them than have been popped since: both counters move  *)
(* between its two loads, and the tail may pass the head it has loaded.    *)
(***************************************************************************)
LenHonest ==
  lpc = "answered" =>
    /\ 0 <= answer /\ answer <= lhead - ltail
    /\ (lhead - ltail) - answer <= tail - ltail

IInv ==
  TypeOK /\ Bounds /\ Producing /\ Stored /\ Consuming /\ Delivered /\ Measuring /\ LenHonest

(***************************************************************************)
(* The ring implements the bounded FIFO queue, and with fairness whatever  *)
(* is pushed is popped.                                                    *)
(***************************************************************************)
Fifo == INSTANCE BoundedFifo WITH
          Elems <- Items, N <- Cap,
          queue <- SubSeq(pushed, tail + 1, head), delivered <- polled

ImplementsFifo == Fifo!Spec
ImplementsFairFifo == Fifo!FairSpec
=============================================================================
