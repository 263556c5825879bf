--------------------------- MODULE DisruptorProofs --------------------------
(***************************************************************************)
(* Proofs about pkg/disruptor for any items, any capacity and any number   *)
(* of pushes.                                                              *)
(***************************************************************************)
EXTENDS Disruptor, CommonLemmas, SequenceTheorems, TLAPS

-----------------------------------------------------------------------------
(* The geometry of the ring.                                               *)

\* The slot of a sequence number.
LEMMA IndexInSlots ==
  ASSUME NEW s \in Nat
  PROVE Index(s) \in Slots
  BY LapAndSlot, DisruptorAssumption DEF Index, Slots

\* While the producer has a slot, it is none of those the consumer may read.
LEMMA HeadSlotFree ==
  ASSUME IInv, ppc \in {"store", "add"}
  PROVE /\ head < tail + Cap
        /\ \A s \in tail .. head - 1 : Index(s) # Index(head)
  <1>1. head \in Nat /\ tail \in Nat /\ Cap \in Nat /\ head < tail + Cap
    BY DisruptorAssumption DEF IInv, TypeOK, Producing
  <1>2. ASSUME NEW s \in tail .. head - 1, Index(s) = Index(head) PROVE FALSE
    <2>1. s \in Nat /\ s <= head /\ head < s + Cap /\ s # head
      BY <1>1
    <2> QED BY <1>1, <1>2, <2>1, OneSlotPerLap, DisruptorAssumption DEF Index
  <1> QED BY <1>1, <1>2

-----------------------------------------------------------------------------
(* The invariant is inductive.                                             *)

\* New establishes it.
LEMMA InitIInv == Init => IInv
  <1> SUFFICES ASSUME Init PROVE IInv
    OBVIOUS
  <1>1. slots \in [Slots -> Items \cup {Nil}]
    BY DEF Init
  <1>2. TypeOK
    <2>1. head = 0 /\ tail = 0 /\ lhead = 0 /\ ltail = 0 /\ answer = 0
      BY DEF Init
    <2>2. ppc = "idle" /\ item = Nil /\ spins = FALSE /\ cpc = "idle" /\ got = Nil /\ lpc = "idle"
      BY DEF Init
    <2>3. pushed \in Seq(Items) /\ polled \in Seq(Items)
      BY DEF Init
    <2>4. /\ ppc \in {"idle", "load", "store", "add"} /\ spins \in BOOLEAN
          /\ item \in Items \cup {Nil} /\ (ppc # "idle" => item \in Items)
          /\ cpc \in {"idle", "read", "add"} /\ got \in Items \cup {Nil}
          /\ lpc \in {"idle", "tail", "answered"}
      BY <2>2
    <2> QED BY <1>1, <2>1, <2>3, <2>4 DEF TypeOK
  <1>3. Bounds /\ Producing /\ Stored /\ Consuming /\ Delivered /\ Measuring /\ LenHonest
    BY DisruptorAssumption
    DEF Init, Bounds, Producing, Stored, Consuming, Delivered, Measuring, LenHonest
  <1> QED BY <1>2, <1>3 DEF IInv

\* The start of a push and the look at the tail.
LEMMA RoomStep ==
  ASSUME IInv, (\E i \in Items, spin \in BOOLEAN : Begin(i, spin)) \/ CheckRoom
  PROVE IInv'
  <1> USE DEF IInv
  <1>1. UNCHANGED <<head, tail, slots, cpc, got, lpc, lhead, ltail, answer, pushed, polled>>
    BY DEF Begin, CheckRoom, consVars, lenVars
  <1>2. TypeOK' /\ Producing'
    <2>1. CASE \E i \in Items, spin \in BOOLEAN : Begin(i, spin)
      BY <1>1, <2>1 DEF Begin, TypeOK, Producing
    <2>2. CASE CheckRoom
      BY <1>1, <2>2, DisruptorAssumption DEF CheckRoom, Full, TypeOK, Producing
    <2> QED BY <2>1, <2>2
  <1>3. Bounds' /\ Stored' /\ Consuming' /\ Delivered' /\ Measuring' /\ LenHonest'
    BY <1>1 DEF Bounds, Stored, Consuming, Delivered, Measuring, LenHonest
  <1> QED BY <1>2, <1>3

\* The store stays within the head's slot.
LEMMA StoreStep ==
  ASSUME IInv, StoreSlot
  PROVE IInv'
  <1> USE DEF IInv
  <1>1. /\ ppc = "store" /\ ppc' = "add" /\ slots' = [slots EXCEPT ![Index(head)] = item]
        /\ UNCHANGED <<head, tail, item, spins, cpc, got, lpc, lhead, ltail, answer, pushed, polled>>
    BY DEF StoreSlot, consVars, lenVars
  <1>2. /\ head \in Nat /\ tail \in Nat /\ item \in Items
        /\ slots \in [Slots -> Items \cup {Nil}] /\ Index(head) \in Slots
    BY <1>1, IndexInSlots DEF TypeOK
  <1>3. /\ slots' \in [Slots -> Items \cup {Nil}] /\ slots'[Index(head)] = item
        /\ \A s \in Slots : s # Index(head) => slots'[s] = slots[s]
    BY <1>1, <1>2
  <1>4. TypeOK' /\ Producing'
    BY <1>1, <1>2, <1>3 DEF TypeOK, Producing
  <1>5. Stored'
    <2> SUFFICES ASSUME NEW s \in tail .. head - 1 PROVE slots'[Index(s)] = slots[Index(s)]
      BY <1>1 DEF Stored
    <2>1. s \in Nat /\ Index(s) # Index(head)
      BY <1>1, <1>2, HeadSlotFree
    <2> QED BY <1>3, <2>1, IndexInSlots
  <1>6. Bounds' /\ Consuming' /\ Delivered' /\ Measuring' /\ LenHonest'
    BY <1>1 DEF Bounds, Consuming, Delivered, Measuring, LenHonest
  <1> QED BY <1>4, <1>5, <1>6

\* head.Add(1) publishes a slot that holds the item.
LEMMA AddHeadStep ==
  ASSUME IInv, AddHead
  PROVE IInv'
  <1> USE DEF IInv
  <1>1. /\ ppc = "add" /\ ppc' = "idle" /\ head' = head + 1 /\ pushed' = Append(pushed, item)
        /\ UNCHANGED <<tail, slots, item, spins, cpc, got, lpc, lhead, ltail, answer, polled>>
    BY DEF AddHead, consVars, lenVars
  <1>2. /\ head \in Nat /\ tail \in Nat /\ tail <= head /\ head < tail + Cap
        /\ item \in Items /\ slots[Index(head)] = item
        /\ pushed \in Seq(Items) /\ Len(pushed) = head
    BY <1>1 DEF TypeOK, Bounds, Producing
  <1>3. /\ pushed' \in Seq(Items) /\ Len(pushed') = head + 1
        /\ \A i \in 1 .. head : pushed'[i] = pushed[i]
        /\ pushed'[head + 1] = item
    BY <1>1, <1>2, AppendProperties
  <1>4. TypeOK'
    BY <1>1, <1>2, <1>3 DEF TypeOK
  <1>5. Bounds' /\ Producing'
    BY <1>1, <1>2, <1>3, DisruptorAssumption DEF Bounds, Producing
  <1>6. Stored'
    <2> SUFFICES ASSUME NEW s \in tail .. head PROVE slots[Index(s)] = pushed'[s + 1]
      BY <1>1, <1>2 DEF Stored
    <2>1. CASE s = head
      BY <1>2, <1>3, <2>1
    <2>2. CASE s # head
      <3>1. s \in tail .. head - 1 /\ s + 1 \in 1 .. head
        BY <1>2, <2>2
      <3> QED BY <1>3, <3>1 DEF Stored
    <2> QED BY <2>1, <2>2
  <1>7. Consuming'
    <2>1. tail < head => pushed'[tail + 1] = pushed[tail + 1]
      BY <1>2, <1>3
    <2> QED BY <1>1, <1>2, <2>1 DEF Consuming
  <1>8. Delivered'
    BY <1>1, <1>2, <1>3 DEF Delivered
  <1>9. Measuring' /\ LenHonest'
    BY <1>1, <1>2 DEF Measuring, LenHonest, TypeOK
  <1> QED BY <1>4, <1>5, <1>6, <1>7, <1>8, <1>9

\* TryPop finds an item and reads it.
LEMMA ReadStep ==
  ASSUME IInv, FindItem \/ ReadSlot
  PROVE IInv'
  <1> USE DEF IInv
  <1>1. UNCHANGED <<head, tail, slots, ppc, item, spins, lpc, lhead, ltail, answer, pushed, polled>>
    BY DEF FindItem, ReadSlot, prodVars, lenVars
  <1>2. head \in Nat /\ tail \in Nat /\ tail <= head /\ slots[Index(tail)] \in Items \cup {Nil}
    BY IndexInSlots DEF TypeOK, Bounds
  <1>3. TypeOK' /\ Consuming'
    <2>1. CASE FindItem
      BY <1>1, <1>2, <2>1 DEF FindItem, HasItem, TypeOK, Consuming
    <2>2. CASE ReadSlot
      <3>1. cpc = "read" /\ cpc' = "add" /\ got' = slots[Index(tail)] /\ tail < head
        BY <2>2 DEF ReadSlot, Consuming
      <3>2. slots[Index(tail)] = pushed[tail + 1]
        BY <1>2, <3>1 DEF Stored
      <3> QED BY <1>1, <1>2, <3>1, <3>2 DEF TypeOK, Consuming
    <2> QED BY <2>1, <2>2
  <1>4. Bounds' /\ Producing' /\ Stored' /\ Delivered' /\ Measuring' /\ LenHonest'
    BY <1>1 DEF Bounds, Producing, Stored, Delivered, Measuring, LenHonest
  <1> QED BY <1>3, <1>4

\* tail.Add(1) gives the slot back, possibly between the two loads of Len.
LEMMA AddTailStep ==
  ASSUME IInv, AddTail
  PROVE IInv'
  <1> USE DEF IInv
  <1>1. /\ cpc = "add" /\ cpc' = "idle" /\ tail' = tail + 1 /\ polled' = Append(polled, got)
        /\ UNCHANGED <<head, slots, ppc, item, spins, got, lpc, lhead, ltail, answer, pushed>>
    BY DEF AddTail, prodVars, lenVars
  <1>2. /\ head \in Nat /\ tail \in Nat /\ tail < head /\ head <= tail + Cap
        /\ got = pushed[tail + 1] /\ pushed \in Seq(Items) /\ Len(pushed) = head
        /\ polled \in Seq(Items) /\ Len(polled) = tail
    BY <1>1 DEF TypeOK, Bounds, Consuming
  <1>3. got \in Items
    BY <1>2
  <1>4. /\ polled' \in Seq(Items) /\ Len(polled') = tail + 1
        /\ \A i \in 1 .. tail : polled'[i] = polled[i]
        /\ polled'[tail + 1] = got
    BY <1>1, <1>2, <1>3, AppendProperties
  <1>5. TypeOK'
    BY <1>1, <1>2, <1>4 DEF TypeOK
  <1>6. Bounds' /\ Producing' /\ Consuming'
    BY <1>1, <1>2, <1>4, DisruptorAssumption DEF Bounds, Producing, Consuming
  <1>7. Stored'
    BY <1>1, <1>2 DEF Stored
  <1>8. Delivered'
    BY <1>1, <1>2, <1>4 DEF Delivered
  <1>9. Measuring' /\ LenHonest'
    BY <1>1, <1>2 DEF Measuring, LenHonest, TypeOK
  <1> QED BY <1>5, <1>6, <1>7, <1>8, <1>9

\* Len reads the head, then the tail, and answers.
LEMMA LenStep ==
  ASSUME IInv, CallLen
  PROVE IInv'
  <1> USE DEF IInv
  <1>1. UNCHANGED <<head, tail, slots, ppc, item, spins, cpc, got, pushed, polled>>
    BY DEF CallLen, LenLoadHead, LenLoadTail, LenReturn, prodVars, consVars
  <1>2. head \in Nat /\ tail \in Nat /\ lhead \in Nat /\ ltail \in Nat /\ tail <= head
    BY DEF TypeOK, Bounds
  <1>3. TypeOK' /\ Measuring' /\ LenHonest'
    <2>1. CASE LenLoadHead
      BY <1>1, <1>2, <2>1 DEF LenLoadHead, TypeOK, Measuring, LenHonest
    <2>2. CASE LenLoadTail
      <3>1. /\ lpc = "tail" /\ lpc' = "answered" /\ lhead' = lhead /\ ltail' = ltail
            /\ answer' = Difference(lhead, tail) /\ ltail <= lhead /\ ltail <= tail
        BY <2>2 DEF LenLoadTail, Measuring
      <3>2. answer' \in Nat /\ answer' <= lhead - ltail /\ (lhead - ltail) - answer' <= tail - ltail
        BY <1>2, <3>1 DEF Difference
      <3> QED BY <1>1, <1>2, <3>1, <3>2 DEF TypeOK, Measuring, LenHonest
    <2>3. CASE LenReturn
      BY <1>1, <2>3 DEF LenReturn, TypeOK, Measuring, LenHonest
    <2> QED BY <2>1, <2>2, <2>3 DEF CallLen
  <1>4. Bounds' /\ Producing' /\ Stored' /\ Consuming' /\ Delivered'
    BY <1>1 DEF Bounds, Producing, Stored, Consuming, Delivered
  <1> QED BY <1>3, <1>4

(* The inductive invariant holds in every reachable state.                 *)
THEOREM Invariance == Spec => []IInv
  <1>1. ASSUME IInv, [Next]_vars PROVE IInv'
    <2>1. CASE UNCHANGED vars
      BY <1>1, <2>1
      DEF IInv, TypeOK, Bounds, Producing, Stored, Consuming, Delivered, Measuring, LenHonest,
          vars, prodVars, consVars, lenVars
    <2>2. CASE (\E i \in Items, spin \in BOOLEAN : Begin(i, spin)) \/ Produce
      BY <1>1, <2>2, RoomStep, StoreStep, AddHeadStep DEF Produce
    <2>3. CASE Consume
      BY <1>1, <2>3, ReadStep, AddTailStep DEF Consume
    <2> QED BY <1>1, <2>1, <2>2, <2>3, LenStep DEF Next
  <1> QED BY <1>1, InitIInv, PTL DEF Spec
-----------------------------------------------------------------------------
(* The properties.                                                         *)

(* Len never overstates what was in the ring when it was called, and       *)
(* understates it by no more than what has been popped since.              *)
THEOREM LenIsHonest == Spec => []LenHonest
  <1>1. IInv => LenHonest
    BY DEF IInv
  <1> QED BY <1>1, Invariance, PTL

\* head.Add(1) is the moment an item enters the queue.
LEMMA AddHeadEnqueues ==
  ASSUME IInv, AddHead
  PROVE item \in Items /\ Fifo!Enqueue(item)
  <1>1. /\ ppc = "add" /\ head' = head + 1 /\ pushed' = Append(pushed, item)
        /\ UNCHANGED <<tail, polled>>
    BY DEF AddHead
  <1>2. /\ head \in Nat /\ tail \in Nat /\ tail <= head /\ head < tail + Cap
        /\ pushed \in Seq(Items) /\ Len(pushed) = head /\ item \in Items
    BY <1>1 DEF IInv, TypeOK, Bounds, Producing
  <1>3. /\ Len(SubSeq(pushed, tail + 1, head)) = head - tail
        /\ SubSeq(pushed', tail' + 1, head') = Append(SubSeq(pushed, tail + 1, head), item)
    BY <1>1, <1>2, WindowGrows
  <1>4. head - tail < Cap
    BY <1>2, DisruptorAssumption
  <1> QED BY <1>1, <1>2, <1>3, <1>4 DEF Fifo!Enqueue

\* tail.Add(1) is the moment it leaves.
LEMMA AddTailDequeues ==
  ASSUME IInv, AddTail
  PROVE Fifo!Dequeue
  <1>1. /\ cpc = "add" /\ tail' = tail + 1 /\ polled' = Append(polled, got)
        /\ UNCHANGED <<head, pushed>>
    BY DEF AddTail
  <1>2. /\ head \in Nat /\ tail \in Nat /\ tail < head /\ got = pushed[tail + 1]
        /\ pushed \in Seq(Items) /\ Len(pushed) = head
    BY <1>1 DEF IInv, TypeOK, Bounds, Consuming
  <1> QED BY <1>1, <1>2, WindowShrinks DEF Fifo!Dequeue

(* Every behaviour of the ring is, seen through the refinement mapping, a  *)
(* behaviour of BoundedFifo.                                               *)
THEOREM Refinement == Spec => ImplementsFifo
  <1>1. Init => Fifo!Init
    <2> SUFFICES ASSUME Init PROVE SubSeq(pushed, tail + 1, head) = <<>> /\ polled = <<>>
      BY DEF Fifo!Init
    <2> QED BY SubSeqEmpty DEF Init
  <1>2. ASSUME IInv, [Next]_vars PROVE [Fifo!Next]_(Fifo!fifoVars)
    <2>1. CASE AddHead
      BY <1>2, <2>1, AddHeadEnqueues DEF Fifo!Next
    <2>2. CASE AddTail
      BY <1>2, <2>2, AddTailDequeues DEF Fifo!Next
    <2>3. ASSUME UNCHANGED <<head, tail, pushed, polled>> PROVE UNCHANGED Fifo!fifoVars
      BY <2>3 DEF Fifo!fifoVars
    <2>4. CASE (\E i \in Items, spin \in BOOLEAN : Begin(i, spin)) \/ CheckRoom \/ StoreSlot
      BY <2>3, <2>4 DEF Begin, CheckRoom, StoreSlot
    <2>5. CASE FindItem \/ ReadSlot \/ CallLen \/ UNCHANGED vars
      BY <2>3, <2>5 DEF FindItem, ReadSlot, CallLen, LenLoadHead, LenLoadTail, LenReturn, vars
    <2> QED BY <1>2, <2>1, <2>2, <2>4, <2>5 DEF Next, Produce, Consume
  <1> QED BY <1>1, <1>2, Invariance, PTL DEF Spec, ImplementsFifo, Fifo!Spec
=============================================================================
