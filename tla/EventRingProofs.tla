--------------------------- MODULE EventRingProofs --------------------------
(***************************************************************************)
(* Proofs about pkg/offheap/ring.go for any events, any capacity and any   *)
(* number of pushes.                                                       *)
(***************************************************************************)
EXTENDS EventRing, CommonLemmas, SequenceTheorems, TLAPS

-----------------------------------------------------------------------------
(* The geometry of the ring.                                               *)

\* head & mask and tail & mask are slots.
LEMMA IndexInSlots ==
  ASSUME TypeOK
  PROVE Index(head) \in Slots /\ Index(tail) \in Slots
  BY LapAndSlot, EventRingAssumption DEF TypeOK, Index, Slots

\* Two numbers less than a lap apart do not share a slot.
LEMMA Distinct ==
  ASSUME NEW s \in Nat, NEW t \in Nat, s < t, t < s + Cap
  PROVE Index(s) # Index(t)
  <1> SUFFICES ASSUME s % Cap = t % Cap PROVE FALSE
    BY DEF Index
  <1>1. s <= t /\ s # t
    OBVIOUS
  <1> QED BY <1>1, OneSlotPerLap, EventRingAssumption

\* While the producer has a slot, the head is less than a lap ahead of the
\* tail, so its slot is none of those the consumer may read.
LEMMA HeadSlotFree ==
  ASSUME IInv, ppc \in {"zero", "line1", "line2", "publish"}
  PROVE /\ head < tail + Cap
        /\ \A s \in tail .. head - 1 : Index(s) # Index(head)
  <1>1. /\ head \in Nat /\ tail \in Nat /\ ptail \in Nat /\ Cap \in Nat
        /\ ptail <= tail /\ head - ptail < Cap
    BY EventRingAssumption DEF IInv, TypeOK, Producing
  <1>2. head < tail + Cap
    BY <1>1
  <1>3. ASSUME NEW s \in tail .. head - 1 PROVE Index(s) # Index(head)
    BY <1>1, <1>2, Distinct
  <1> QED BY <1>2, <1>3

-----------------------------------------------------------------------------
(* The invariant is inductive.                                             *)

\* New establishes it, whatever malloc left in the slots.
LEMMA InitIInv == Init => IInv
  <1> SUFFICES ASSUME Init PROVE IInv
    OBVIOUS
  <1>1. slab \in [Slots -> Lines \X Lines]
    BY DEF Init, Lines
  <1>2. TypeOK
    BY <1>1 DEF Init, TypeOK, Lines, Whole
  <1>3. Bounds /\ Producing /\ Published /\ Consuming /\ Delivered
    BY EventRingAssumption DEF Init, Bounds, Producing, Published, Consuming, Delivered
  <1> QED BY <1>2, <1>3 DEF IInv

\* The start of a push and the loops of acquireSlot touch no slot.
LEMMA AcquireStep ==
  ASSUME IInv, (\E e \in Events : Push(e)) \/ LoadTail \/ AcquireSlot
  PROVE IInv'
  <1> USE DEF IInv, consVars
  <1>1. UNCHANGED <<head, tail, slab, cpc, dst, pushed, polled>>
    BY DEF Push, LoadTail, AcquireSlot
  <1>2. TypeOK' /\ Producing'
    <2>1. CASE \E e \in Events : Push(e)
      BY <2>1, EventRingAssumption DEF Push, TypeOK, Producing, Lines
    <2>2. CASE LoadTail
      BY <2>2 DEF LoadTail, TypeOK, Producing
    <2>3. CASE AcquireSlot
      BY <2>3 DEF AcquireSlot, TypeOK, Producing
    <2> QED BY <2>1, <2>2, <2>3
  <1>3. Bounds' /\ Published' /\ Consuming' /\ Delivered'
    BY <1>1 DEF Bounds, Published, Consuming, Delivered
  <1> QED BY <1>2, <1>3

\* zero_slot and the writes of the fields stay within the head's slot.
LEMMA FillStep ==
  ASSUME IInv, ZeroSlot \/ WriteLine1 \/ WriteLine2
  PROVE IInv'
  <1> USE DEF IInv, consVars
  <1>1. UNCHANGED <<head, tail, evt, ptail, cpc, dst, pushed, polled>>
    BY DEF ZeroSlot, WriteLine1, WriteLine2
  <1>2. Index(head) \in Slots
    BY IndexInSlots
  <1>3. slab \in [Slots -> Lines \X Lines] /\ evt \in Lines /\ Zero \in Lines
    BY DEF TypeOK, Lines
  <1>4. PICK a \in Lines, b \in Lines : slab[Index(head)] = <<a, b>>
    BY <1>2, <1>3
  <1>5. /\ slab' \in [Slots -> Lines \X Lines]
        /\ \A i \in Slots : i # Index(head) => slab'[i] = slab[i]
        /\ ppc' = "line2" => slab'[Index(head)][1] = evt
        /\ ppc' = "publish" => slab'[Index(head)] = Whole(evt)
        /\ ppc' \in {"line1", "line2", "publish"}
    <2>1. CASE ZeroSlot
      BY <1>2, <1>3, <2>1 DEF ZeroSlot, Whole
    <2>2. CASE WriteLine1
      <3>1. slab' = [slab EXCEPT ![Index(head)] = <<evt, b>>] /\ ppc' = "line2"
        BY <1>2, <1>3, <1>4, <2>2 DEF WriteLine1
      <3> QED BY <1>2, <1>3, <3>1
    <2>3. CASE WriteLine2
      <3>1. slab' = [slab EXCEPT ![Index(head)] = <<a, evt>>] /\ ppc' = "publish"
        BY <1>2, <1>3, <1>4, <2>3 DEF WriteLine2
      <3>2. a = evt
        BY <1>4, <2>3 DEF WriteLine2, Producing
      <3> QED BY <1>2, <1>3, <3>1, <3>2 DEF Whole
    <2> QED BY <2>1, <2>2, <2>3
  <1>6. ppc \in {"zero", "line1", "line2", "publish"}
    BY DEF ZeroSlot, WriteLine1, WriteLine2
  <1>7. TypeOK'
    BY <1>1, <1>5 DEF TypeOK
  <1>8. Producing'
    BY <1>1, <1>5, <1>6 DEF Producing
  <1>9. Published'
    <2> SUFFICES ASSUME NEW s \in tail .. head - 1 PROVE slab'[Index(s)] = slab[Index(s)]
      BY <1>1 DEF Published
    <2>1. Index(s) # Index(head)
      BY <1>6, HeadSlotFree
    <2>2. s \in Nat
      BY DEF TypeOK
    <2>3. Index(s) \in Slots
      BY <2>2, LapAndSlot, EventRingAssumption DEF Index, Slots
    <2> QED BY <1>5, <2>1, <2>3
  <1>10. Bounds' /\ Consuming' /\ Delivered'
    BY <1>1 DEF Bounds, Consuming, Delivered
  <1> QED BY <1>7, <1>8, <1>9, <1>10

\* head.Add(1) publishes a slot that holds the whole event.
LEMMA PublishStep ==
  ASSUME IInv, Publish
  PROVE IInv'
  <1> USE DEF IInv
  <1>1. /\ ppc = "publish" /\ head' = head + 1 /\ pushed' = Append(pushed, Whole(evt))
        /\ ppc' = "idle" /\ evt' = Zero /\ ptail' = 0
        /\ UNCHANGED <<tail, slab, cpc, dst, polled>>
    BY DEF Publish, consVars
  <1>2. /\ head \in Nat /\ tail \in Nat /\ tail <= head /\ head < tail + Cap
        /\ pushed \in Seq(Lines \X Lines) /\ Len(pushed) = head
        /\ slab[Index(head)] = Whole(evt) /\ Whole(evt) \in Lines \X Lines
    BY <1>1, HeadSlotFree DEF Bounds, TypeOK, Producing, Whole
  <1>3. /\ pushed' \in Seq(Lines \X Lines) /\ Len(pushed') = head + 1
        /\ \A i \in 1 .. head : pushed'[i] = pushed[i]
        /\ pushed'[head + 1] = Whole(evt)
    BY <1>1, <1>2, AppendProperties
  <1>4. TypeOK'
    BY <1>1, <1>2, <1>3 DEF TypeOK, Lines
  <1>5. Bounds' /\ Producing'
    BY <1>1, <1>2, <1>3, EventRingAssumption DEF Bounds, Producing
  <1>6. Published'
    <2> SUFFICES ASSUME NEW s \in tail .. head PROVE slab[Index(s)] = pushed'[s + 1]
      BY <1>1, <1>2 DEF Published
    <2>1. CASE s = head
      BY <1>2, <1>3, <2>1
    <2>2. CASE s # head
      <3>1. s \in tail .. head - 1 /\ s + 1 \in 1 .. head
        BY <1>2, <2>2
      <3> QED BY <1>3, <3>1 DEF Published
    <2> QED BY <2>1, <2>2
  <1>7. Consuming'
    <2>1. tail < head => pushed'[tail + 1] = pushed[tail + 1]
      BY <1>2, <1>3
    <2> QED BY <1>1, <1>2, <2>1 DEF Consuming
  <1>8. Delivered'
    BY <1>1, <1>2, <1>3 DEF Delivered
  <1> QED BY <1>4, <1>5, <1>6, <1>7, <1>8

\* TryPop finds an event and copies it.
LEMMA CopyStep ==
  ASSUME IInv, PollReady \/ CopyLine1 \/ CopyLine2
  PROVE IInv'
  <1> USE DEF IInv
  <1>1. UNCHANGED <<head, tail, slab, ppc, evt, ptail, pushed, polled>>
    BY DEF PollReady, CopyLine1, CopyLine2, prodVars
  <1>2. /\ head \in Nat /\ tail \in Nat /\ tail <= head
        /\ dst \in Lines \X Lines /\ slab \in [Slots -> Lines \X Lines]
        /\ Index(tail) \in Slots
    BY IndexInSlots DEF TypeOK, Bounds
  <1>3. tail < head => slab[Index(tail)] = pushed[tail + 1]
    BY <1>2 DEF Published
  <1>4. PICK a \in Lines, b \in Lines : slab[Index(tail)] = <<a, b>>
    BY <1>2
  <1>5. PICK x \in Lines, y \in Lines : dst = <<x, y>>
    BY <1>2
  <1>6. TypeOK' /\ Consuming'
    <2>1. CASE PollReady
      BY <1>1, <1>2, <2>1 DEF PollReady, HasEvent, TypeOK, Consuming
    <2>2. CASE CopyLine1
      <3>1. dst' = <<a, y>> /\ cpc' = "line2" /\ cpc = "line1"
        BY <1>4, <1>5, <2>2 DEF CopyLine1
      <3> QED BY <1>1, <1>2, <1>3, <1>4, <3>1 DEF TypeOK, Consuming
    <2>3. CASE CopyLine2
      <3>1. dst' = <<x, b>> /\ cpc' = "release" /\ cpc = "line2"
        BY <1>4, <1>5, <2>3 DEF CopyLine2
      <3>2. tail < head /\ x = pushed[tail + 1][1]
        BY <1>5, <3>1 DEF Consuming
      <3>3. pushed[tail + 1] = <<a, b>>
        BY <1>3, <1>4, <3>2
      <3>4. dst' = pushed[tail + 1]
        BY <3>1, <3>2, <3>3
      <3> QED BY <1>1, <1>2, <3>1, <3>2, <3>4 DEF TypeOK, Consuming
    <2> QED BY <2>1, <2>2, <2>3
  <1>7. Bounds' /\ Producing' /\ Published' /\ Delivered'
    BY <1>1 DEF Bounds, Producing, Published, Delivered
  <1> QED BY <1>6, <1>7

\* tail.Add(1) gives the slot back.
LEMMA ReleaseStep ==
  ASSUME IInv, Release
  PROVE IInv'
  <1> USE DEF IInv
  <1>1. /\ cpc = "release" /\ tail' = tail + 1 /\ polled' = Append(polled, dst)
        /\ cpc' = "idle"
        /\ UNCHANGED <<head, slab, ppc, evt, ptail, dst, pushed>>
    BY DEF Release, prodVars
  <1>2. /\ head \in Nat /\ tail \in Nat /\ tail < head /\ head <= tail + Cap
        /\ dst = pushed[tail + 1] /\ dst \in Lines \X Lines
        /\ polled \in Seq(Lines \X Lines) /\ Len(polled) = tail
        /\ \A i \in 1 .. tail : polled[i] = pushed[i]
    BY <1>1 DEF TypeOK, Bounds, Consuming, Delivered
  <1>3. /\ polled' \in Seq(Lines \X Lines) /\ Len(polled') = tail + 1
        /\ \A i \in 1 .. tail : polled'[i] = polled[i]
        /\ polled'[tail + 1] = dst
    BY <1>1, <1>2, AppendProperties
  <1>4. TypeOK'
    BY <1>1, <1>2, <1>3 DEF TypeOK
  <1>5. Bounds' /\ Consuming'
    BY <1>1, <1>2, EventRingAssumption DEF Bounds, Consuming
  <1>6. Producing'
    BY <1>1, <1>2 DEF Producing, TypeOK
  <1>7. Published'
    BY <1>1, <1>2 DEF Published
  <1>8. Delivered'
    BY <1>1, <1>2, <1>3 DEF Delivered
  <1> QED BY <1>4, <1>5, <1>6, <1>7, <1>8

(* The inductive invariant holds in every reachable state.                 *)
THEOREM Invariance == Spec => []IInv
  <1>1. ASSUME IInv, [Next]_vars PROVE IInv'
    <2>1. CASE UNCHANGED vars
      BY <1>1, <2>1 DEF IInv, TypeOK, Bounds, Producing, Published, Consuming, Delivered,
         vars, prodVars, consVars
    <2>2. CASE (\E e \in Events : Push(e)) \/ Produce
      BY <1>1, <2>2, AcquireStep, FillStep, PublishStep DEF Produce
    <2>3. CASE Consume
      BY <1>1, <2>3, CopyStep, ReleaseStep DEF Consume
    <2> QED BY <1>1, <2>1, <2>2, <2>3 DEF Next, PollEmpty
  <1> QED BY <1>1, InitIInv, PTL DEF Spec
-----------------------------------------------------------------------------
(* The properties.                                                         *)

(* The consumer never copies the slot the engine is writing.               *)
THEOREM SlotsNeverRace == Spec => []NoSlotRace
  <1>1. IInv => NoSlotRace
    <2> SUFFICES ASSUME IInv,
                        ppc \in {"zero", "line1", "line2", "publish"},
                        cpc \in {"line1", "line2", "release"}
                 PROVE Index(tail) # Index(head)
      BY DEF NoSlotRace
    <2>1. tail \in tail .. head - 1
      BY DEF IInv, Consuming, TypeOK
    <2> QED BY <2>1, HeadSlotFree
  <1> QED BY <1>1, Invariance, PTL

(* Every event is delivered whole, once and in order.                      *)
THEOREM EventsDelivered == Spec => []EventsWhole
  <1>1. ASSUME IInv PROVE EventsWhole
    <2>1. /\ pushed \in Seq(Lines \X Lines) /\ polled \in Seq(Lines \X Lines)
          /\ tail \in Nat /\ tail <= Len(pushed)
          /\ Len(polled) = tail /\ \A i \in 1 .. tail : polled[i] = pushed[i]
      BY <1>1 DEF IInv, TypeOK, Bounds, Delivered
    <2> QED BY <2>1, Beginning DEF EventsWhole
  <1> QED BY <1>1, Invariance, PTL
-----------------------------------------------------------------------------
(* The ring implements the bounded FIFO queue.                             *)

\* head.Add(1) is the moment an event enters the queue.
LEMMA PublishEnqueues ==
  ASSUME IInv, Publish
  PROVE Whole(evt) \in {Whole(e) : e \in Events} /\ Fifo!Enqueue(Whole(evt))
  <1>1. /\ ppc = "publish" /\ head' = head + 1 /\ pushed' = Append(pushed, Whole(evt))
        /\ UNCHANGED <<tail, polled>>
    BY DEF Publish
  <1>2. /\ head \in Nat /\ tail \in Nat /\ tail <= head /\ head < tail + Cap
        /\ pushed \in Seq(Lines \X Lines) /\ Len(pushed) = head
        /\ evt \in Events /\ Whole(evt) \in Lines \X Lines
    BY <1>1, HeadSlotFree DEF IInv, TypeOK, Bounds, Producing, Whole
  <1>3. /\ Len(SubSeq(pushed, tail + 1, head)) = head - tail
        /\ SubSeq(pushed', tail' + 1, head') = Append(SubSeq(pushed, tail + 1, head), Whole(evt))
    BY <1>1, <1>2, WindowGrows
  <1>4. head - tail < Cap
    BY <1>2, EventRingAssumption
  <1> QED BY <1>1, <1>2, <1>3, <1>4 DEF Fifo!Enqueue

\* tail.Add(1) is the moment it leaves.
LEMMA ReleaseDequeues ==
  ASSUME IInv, Release
  PROVE Fifo!Dequeue
  <1>1. /\ cpc = "release" /\ tail' = tail + 1 /\ polled' = Append(polled, dst)
        /\ UNCHANGED <<head, pushed>>
    BY DEF Release
  <1>2. /\ head \in Nat /\ tail \in Nat /\ tail < head /\ dst = pushed[tail + 1]
        /\ pushed \in Seq(Lines \X Lines) /\ Len(pushed) = head
    BY <1>1 DEF IInv, TypeOK, Bounds, Consuming
  <1> QED BY <1>1, <1>2, WindowShrinks DEF Fifo!Dequeue

(* Every behaviour of the ring is, seen through the refinement mapping, a  *)
(* behaviour of BoundedFifo.                                               *)
THEOREM Refinement == Spec => ImplementsFifo
  <1>1. Init => Fifo!Init
    <2> SUFFICES ASSUME Init PROVE SubSeq(pushed, tail + 1, head) = <<>> /\ polled = <<>>
      BY DEF Fifo!Init
    <2> QED BY SubSeqEmpty DEF Init
  <1>2. ASSUME IInv, [Next]_vars PROVE [Fifo!Next]_(Fifo!fifoVars)
    <2>1. CASE Publish
      BY <1>2, <2>1, PublishEnqueues DEF Fifo!Next
    <2>2. CASE Release
      BY <1>2, <2>2, ReleaseDequeues DEF Fifo!Next
    <2>3. ASSUME UNCHANGED <<head, tail, pushed, polled>> PROVE UNCHANGED Fifo!fifoVars
      BY <2>3 DEF Fifo!fifoVars
    <2>4. CASE \/ \E e \in Events : Push(e)
               \/ LoadTail \/ AcquireSlot \/ ZeroSlot \/ WriteLine1 \/ WriteLine2
      BY <2>3, <2>4 DEF Push, LoadTail, AcquireSlot, ZeroSlot, WriteLine1, WriteLine2
    <2>5. CASE PollEmpty \/ PollReady \/ CopyLine1 \/ CopyLine2 \/ UNCHANGED vars
      BY <2>3, <2>5 DEF PollEmpty, PollReady, CopyLine1, CopyLine2, vars
    <2> QED BY <1>2, <2>1, <2>2, <2>4, <2>5 DEF Next, Produce, Consume
  <1> QED BY <1>1, <1>2, Invariance, PTL DEF Spec, ImplementsFifo, Fifo!Spec
=============================================================================
