----------------------------- MODULE EventRing ------------------------------
(***************************************************************************)
(* pkg/offheap/ring.go: the single-producer single-consumer ring through   *)
(* which a matching engine publishes its events.  The slots are C memory:  *)
(* an event is 128 bytes, two cache lines, written and copied in pieces.   *)
(*                                                                         *)
(* A slot is a pair, one component per cache line.  The engine goroutine   *)
(* zeroes it, writes one line and then the other, and advances the head;   *)
(* the consumer goroutine copies the lines one by one into its own event   *)
(* and advances the tail.  One action per access to shared memory.         *)
(* Sequence numbers do not wrap (uint64 in the code).                      *)
(***************************************************************************)
EXTENDS Integers, Sequences

CONSTANTS Events,   \* what the engine publishes
          Zero,     \* a cache line of zero bytes
          Cap,      \* mask + 1
          MaxPush   \* bound: how many events are published

ASSUME EventRingAssumption ==
  /\ Cap \in Nat \ {0}
  /\ Zero \notin Events
  /\ MaxPush \in Nat

Index(seq) == seq % Cap
Slots == 0 .. Cap - 1
Whole(e) == <<e, e>>

VARIABLES head,        \* producer.head: events published
          tail,        \* consumer.tail: events consumed
          slab,        \* the slots, as pairs of cache lines
          ppc, evt, ptail,   \* the producer: position, event, loaded tail
          cpc, dst,    \* the consumer: position, the event it is filling in
          pushed,      \* history: the events whose push has returned
          polled       \* history: what TryPop gave the consumer

prodVars == <<ppc, evt, ptail>>
consVars == <<cpc, dst>>
vars == <<head, tail, slab, prodVars, consVars, pushed, polled>>

Init ==
  /\ head = 0 /\ tail = 0
  /\ slab \in [Slots -> {<<e, f>> : e, f \in Events \cup {Zero}}]  \* malloc does not clear
  /\ ppc = "idle" /\ evt = Zero /\ ptail = 0
  /\ cpc = "idle" /\ dst = Whole(Zero)
  /\ pushed = <<>> /\ polled = <<>>
-----------------------------------------------------------------------------
(* PushOrder, PushOrderWithReason and PushTrade, called by the engine.     *)

Push(e) ==
  /\ ppc = "idle"
  /\ head < MaxPush
  /\ evt' = e
  /\ ppc' = "load"
  /\ UNCHANGED <<head, tail, slab, ptail, consVars, pushed, polled>>

\* acquireSlot loads the head, which only this goroutine changes, and the tail.
LoadTail ==
  /\ ppc = "load"
  /\ ptail' = tail
  /\ ppc' = "check"
  /\ UNCHANGED <<head, tail, slab, evt, consVars, pushed, polled>>

\* Bugs the runs notice: one slot too many, and a loop that never loads again.
AcquireOneLate ==
  /\ ppc = "check"
  /\ ppc' = IF head - ptail <= Cap THEN "zero" ELSE "load"
  /\ UNCHANGED <<head, tail, slab, evt, ptail, consVars, pushed, polled>>

AcquireNoReload ==
  /\ ppc = "check"
  /\ ppc' = IF head - ptail < Cap THEN "zero" ELSE "check"
  /\ UNCHANGED <<head, tail, slab, evt, ptail, consVars, pushed, polled>>

\* A full ring: Gosched and load again.
AcquireSlot ==
  /\ ppc = "check"
  /\ ppc' = IF head - ptail < Cap THEN "zero" ELSE "load"
  /\ UNCHANGED <<head, tail, slab, evt, ptail, consVars, pushed, polled>>

ZeroSlot ==
  /\ ppc = "zero"
  /\ slab' = [slab EXCEPT ![Index(head)] = Whole(Zero)]
  /\ ppc' = "line1"
  /\ UNCHANGED <<head, tail, evt, ptail, consVars, pushed, polled>>

\* A bug the runs notice: the second cache line is not written.
WriteLine1Only ==
  /\ ppc = "line1"
  /\ slab' = [slab EXCEPT ![Index(head)] = <<evt, @[2]>>]
  /\ ppc' = "publish"
  /\ UNCHANGED <<head, tail, evt, ptail, consVars, pushed, polled>>

WriteLine1 ==
  /\ ppc = "line1"
  /\ slab' = [slab EXCEPT ![Index(head)] = <<evt, @[2]>>]
  /\ ppc' = "line2"
  /\ UNCHANGED <<head, tail, evt, ptail, consVars, pushed, polled>>

WriteLine2 ==
  /\ ppc = "line2"
  /\ slab' = [slab EXCEPT ![Index(head)] = <<@[1], evt>>]
  /\ ppc' = "publish"
  /\ UNCHANGED <<head, tail, evt, ptail, consVars, pushed, polled>>

Publish ==
  /\ ppc = "publish"
  /\ head' = head + 1
  /\ pushed' = Append(pushed, Whole(evt))
  /\ ppc' = "idle" /\ evt' = Zero /\ ptail' = 0
  /\ UNCHANGED <<tail, slab, consVars, polled>>

Produce ==
  LoadTail \/ AcquireSlot \/ ZeroSlot \/ WriteLine1 \/ WriteLine2 \/ Publish
-----------------------------------------------------------------------------
(* TryPop, called by the consumer.  The tail it loads is its own.          *)

\* A bug the runs notice: the last event is left in the ring.
HasTwoEvents == head > tail + 1

HasEvent == head # tail

PollEmpty ==
  /\ cpc = "idle" /\ ~HasEvent
  /\ UNCHANGED vars

PollReady ==
  /\ cpc = "idle" /\ HasEvent
  /\ cpc' = "line1"
  /\ UNCHANGED <<head, tail, slab, prodVars, dst, pushed, polled>>

CopyLine1 ==
  /\ cpc = "line1"
  /\ dst' = <<slab[Index(tail)][1], dst[2]>>
  /\ cpc' = "line2"
  /\ UNCHANGED <<head, tail, slab, prodVars, pushed, polled>>

CopyLine2 ==
  /\ cpc = "line2"
  /\ dst' = <<dst[1], slab[Index(tail)][2]>>
  /\ cpc' = "release"
  /\ UNCHANGED <<head, tail, slab, prodVars, pushed, polled>>

Release ==
  /\ cpc = "release"
  /\ tail' = tail + 1
  /\ polled' = Append(polled, dst)
  /\ cpc' = "idle"
  /\ UNCHANGED <<head, slab, prodVars, dst, pushed>>

Consume == PollReady \/ CopyLine1 \/ CopyLine2 \/ Release
-----------------------------------------------------------------------------
Next ==
  \/ \E e \in Events : Push(e)
  \/ Produce
  \/ PollEmpty
  \/ Consume

Spec == Init /\ [][Next]_vars

\* Both goroutines keep running and the consumer polls in a loop; the engine
\* need not have anything to publish.
FairSpec == Spec /\ WF_vars(Produce) /\ WF_vars(Consume)
-----------------------------------------------------------------------------
Lines == Events \cup {Zero}

TypeOK ==
  /\ head \in Nat /\ tail \in Nat
  /\ slab \in [Slots -> Lines \X Lines]
  /\ ppc \in {"idle", "load", "check", "zero", "line1", "line2", "publish"}
  /\ evt \in Lines
  /\ ptail \in Nat
  /\ cpc \in {"idle", "line1", "line2", "release"}
  /\ dst \in Lines \X Lines
  /\ pushed \in Seq(Lines \X Lines)
  /\ polled \in Seq(Lines \X Lines)

(***************************************************************************)
(* The slot the engine is filling is never the slot the consumer is        *)
(* copying, also when the engine decides on a tail it loaded long ago (the *)
(* "Memory-ordering proof" of ring.go covers visibility, not reuse).       *)
(***************************************************************************)
NoSlotRace ==
  (/\ ppc \in {"zero", "line1", "line2", "publish"}
   /\ cpc \in {"line1", "line2", "release"})
  => Index(head) # Index(tail)

(***************************************************************************)
(* The consumer gets every published event once, in order, and whole:      *)
(* never half of one event and half of another, and never a zeroed or      *)
(* leftover line of the slot's earlier use.                                *)
(***************************************************************************)
EventsWhole == polled = SubSeq(pushed, 1, tail)

-----------------------------------------------------------------------------
(* Why these hold: the inductive invariant.                                *)

Bounds == tail <= head /\ head <= tail + Cap /\ Len(pushed) = head

\* The engine's idea of the tail may be old, so it errs on the safe side.
Producing ==
  /\ ppc # "idle" => evt \in Events
  /\ ptail <= tail
  /\ ppc \in {"zero", "line1", "line2", "publish"} => head - ptail < Cap
  /\ ppc = "line2" => slab[Index(head)][1] = evt
  /\ ppc = "publish" => slab[Index(head)] = Whole(evt)

Published == \A s \in tail .. head - 1 : slab[Index(s)] = pushed[s + 1]

Consuming ==
  /\ cpc # "idle" => tail < head
  /\ cpc = "line2" => dst[1] = pushed[tail + 1][1]
  /\ cpc = "release" => dst = pushed[tail + 1]

Delivered == Len(polled) = tail /\ \A i \in 1 .. tail : polled[i] = pushed[i]

IInv == TypeOK /\ Bounds /\ Producing /\ Published /\ Consuming /\ Delivered
-----------------------------------------------------------------------------
(***************************************************************************)
(* The ring implements the bounded FIFO queue: an event enters when the    *)
(* head advances and leaves when the tail does.  With fairness, every      *)
(* published event is delivered.                                           *)
(***************************************************************************)
Fifo == INSTANCE BoundedFifo WITH
          Elems <- {Whole(e) : e \in Events}, N <- Cap,
          queue <- SubSeq(pushed, tail + 1, head), delivered <- polled

ImplementsFifo == Fifo!Spec
ImplementsFairFifo == Fifo!FairSpec

(***************************************************************************)
(* acquireSlot waits without a time limit.  A push returns as long as the  *)
(* consumer goroutine keeps polling.                                       *)
(***************************************************************************)
PushReturns == (ppc # "idle") ~> (ppc = "idle")
=============================================================================
