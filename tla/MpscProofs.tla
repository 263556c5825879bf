----------------------------- MODULE MpscProofs -----------------------------
(***************************************************************************)
(* Proofs about pkg/mpsc/ring.go for any number of producers, any set of   *)
(* commands and any capacity.  IInv of Mpsc.tla is shown to be inductive,  *)
(* one lemma per kind of step, and everything else follows from it.        *)
(***************************************************************************)
EXTENDS MpscBackpressure, CommonLemmas, SequenceTheorems, TLAPS

-----------------------------------------------------------------------------
(* The geometry of the ring.                                               *)

(* A sequence number is its lap and its index.                             *)
LEMMA Geometry ==
  ASSUME NEW s \in Nat
  PROVE /\ Index(s) \in Slots
        /\ Lap(s) \in Nat
        /\ s = Cap * Lap(s) + Index(s)
  BY LapAndSlot, MpscAssumption DEF Index, Lap, Slots

(* Two numbers less than a lap apart do not share a slot (seq & mask).     *)
LEMMA SameSlot ==
  ASSUME NEW s \in Nat, NEW t \in Nat, Index(s) = Index(t), s <= t, t < s + Cap
  PROVE s = t
  BY OneSlotPerLap, MpscAssumption DEF Index

(* Index and lap together identify a sequence number.                      *)
LEMMA SameLap ==
  ASSUME NEW s \in Nat, NEW t \in Nat, Index(s) = Index(t), Lap(s) = Lap(t)
  PROVE s = t
  <1>1. s = Cap * Lap(s) + Index(s)
    BY Geometry
  <1>2. t = Cap * Lap(t) + Index(t)
    BY Geometry
  <1> QED BY <1>1, <1>2

\* The part of Geometry that type correctness needs.
LEMMA IndexInSlots == \A s \in Nat : Index(s) \in Slots /\ Lap(s) \in Nat
  BY Geometry

(* Between the tail and the cursor every number has a slot of its own.     *)
LEMMA Distinct ==
  ASSUME IInv, NEW s \in tail .. cursor - 1, NEW t \in tail .. cursor - 1, s # t
  PROVE Index(s) # Index(t)
  <1>1. s \in Nat /\ t \in Nat /\ s < t + Cap /\ t < s + Cap
    BY MpscAssumption DEF IInv, TypeOK, Bounds
  <1> QED BY <1>1, SameSlot

(* When the consumer sees the lap it waits for, the number at the tail has *)
(* been claimed, and its producer is done with the slot.                   *)
LEMMA ReadyIsPublished ==
  ASSUME IInv, Ready
  PROVE /\ tail < cursor
        /\ \A p \in Claiming : cur[p] # tail /\ Index(cur[p]) # Index(tail)
  <1> USE DEF IInv
  <1>1. tail \in Nat /\ cursor \in Nat /\ Index(tail) \in Slots /\ Lap(tail) \in Nat
    BY IndexInSlots DEF TypeOK
  <1>2. lap[Index(tail)] = Lap(tail) /\ Lap(tail) # Never
    BY <1>1 DEF Ready, Never
  <1>3. PICK s \in 0 .. cursor - 1 : Index(s) = Index(tail) /\ Lap(s) = Lap(tail)
    BY <1>1, <1>2 DEF LapsClaimed
  <1>4. s = tail
    BY <1>1, <1>3, SameLap
  <1>5. tail < cursor
    BY <1>1, <1>3, <1>4
  <1>6. ASSUME NEW p \in Claiming PROVE cur[p] # tail /\ Index(cur[p]) # Index(tail)
    <2>1. p \in Producers /\ cur[p] \in tail .. cursor - 1
      BY DEF Claims, Claiming, TypeOK
    <2>2. cur[p] # tail
      BY <1>2, <2>1 DEF Claims
    <2> QED BY <1>1, <1>5, <2>1, <2>2, Distinct
  <1> QED BY <1>5, <1>6

-----------------------------------------------------------------------------
(* The invariant is inductive.                                             *)

\* New establishes it.
LEMMA InitIInv == Init => IInv
  <1> SUFFICES ASSUME Init PROVE IInv
    OBVIOUS
  <1>1. TypeOK
    BY MpscAssumption DEF Init, TypeOK
  <1>2. Bounds /\ MayClaim /\ Claims /\ Published /\ LapsClaimed /\ ConsumerReady /\ Delivered
    BY MpscAssumption DEF Init, Bounds, MayClaim, Claims, Published, LapsClaimed,
       ConsumerReady, Delivered, Claiming
  <1> QED BY <1>1, <1>2 DEF IInv

\* Every step keeps the types.
LEMMA TypeStep == IInv /\ [Next]_vars => TypeOK'
  <1> SUFFICES ASSUME IInv, [Next]_vars PROVE TypeOK'
    OBVIOUS
  <1> TypeOK
    BY DEF IInv
  <1> USE DEF TypeOK
  <1>0. Index(tail) \in Slots /\ \A p \in Producers : Index(cur[p]) \in Slots /\ Lap(cur[p]) \in Nat
    BY IndexInSlots
  <1>1. ASSUME NEW p \in Producers, NEW c \in Cmds, Call(p, c) PROVE TypeOK'
    BY <1>1 DEF Call, consVars
  <1>2. ASSUME NEW p \in Producers, LoadCursor(p) PROVE TypeOK'
    BY <1>2 DEF LoadCursor, consVars
  <1>3. ASSUME NEW p \in Producers, CheckFull(p) PROVE TypeOK'
    BY <1>3 DEF CheckFull, consVars
  <1>4. ASSUME NEW p \in Producers, Refused(p) PROVE TypeOK'
    <2>1. /\ pc' \in {[pc EXCEPT ![p] = "load"], [pc EXCEPT ![p] = "idle"]}
          /\ cur' = [cur EXCEPT ![p] = 0]
          /\ cmd' \in {cmd, [cmd EXCEPT ![p] = Nil]}
          /\ UNCHANGED <<cursor, tail, lap, slot, cpc, got, claimed, popped>>
      BY <1>4 DEF Refused, Return, consVars
    <2> QED BY <2>1
  <1>5. ASSUME NEW p \in Producers, Claim(p) PROVE TypeOK'
    <2>1. cmd[p] \in Cmds
      BY <1>5 DEF IInv, MayClaim, Claim
    <2>2. claimed' \in Seq(Cmds)
      BY <1>5, <2>1 DEF Claim
    <2>3. cursor' = cursor + 1 /\ pc' = [pc EXCEPT ![p] = "write"]
      BY <1>5 DEF Claim
    <2>4. UNCHANGED <<tail, lap, slot, cmd, cur, cpc, got, popped>>
      BY <1>5 DEF Claim, consVars
    <2> QED BY <2>2, <2>3, <2>4
  <1>6. ASSUME NEW p \in Producers, LostRace(p) PROVE TypeOK'
    BY <1>6 DEF LostRace, consVars
  <1>7. ASSUME NEW p \in Producers, WriteSlot(p) PROVE TypeOK'
    BY <1>0, <1>7 DEF WriteSlot, consVars
  <1>8. ASSUME NEW p \in Producers, Publish(p) PROVE TypeOK'
    BY <1>0, <1>8 DEF Publish, Return, consVars
  <1>9. CASE Consume
    <2>1. CASE PollReady
      BY <2>1 DEF PollReady, prodVars
    <2>2. CASE ReadSlot
      BY <1>0, <2>2 DEF ReadSlot, prodVars
    <2>3. CASE ClearSlot
      BY <1>0, <2>3 DEF ClearSlot, prodVars
    <2>4. CASE Advance
      <3>1. popped' \in Seq(Cmds \cup {Nil})
        BY <2>4 DEF Advance
      <3>2. /\ tail' \in Nat /\ got' = Nil /\ cpc' = "poll"
            /\ UNCHANGED <<cursor, lap, slot, pc, cmd, cur, claimed>>
        BY <2>4 DEF Advance, prodVars
      <3> QED BY <3>1, <3>2
    <2> QED BY <1>9, <2>1, <2>2, <2>3, <2>4 DEF Consume
  <1>10. CASE UNCHANGED vars
    BY <1>10 DEF vars, prodVars, consVars
  <1> QED
    BY <1>1, <1>2, <1>3, <1>4, <1>5, <1>6, <1>7, <1>8, <1>9, <1>10
    DEF Next, Step, PollEmpty

(* A step that only moves a producer about outside the section between its *)
(* claim and its publication leaves everything but MayClaim alone.         *)
LEMMA LocalStep ==
  ASSUME IInv, TypeOK', MayClaim', NEW p \in Producers,
         pc[p] \notin {"write", "publish"}, pc'[p] \notin {"write", "publish"},
         \A q \in Producers : q # p => pc'[q] = pc[q] /\ cmd'[q] = cmd[q] /\ cur'[q] = cur[q],
         UNCHANGED <<cursor, tail, lap, slot, cpc, got, claimed, popped>>
  PROVE IInv'
  <1>1. Claiming' = Claiming /\ p \notin Claiming
    BY DEF Claiming
  <1>2. \A q \in Claiming : q \in Producers /\ pc'[q] = pc[q] /\ cmd'[q] = cmd[q] /\ cur'[q] = cur[q]
    BY <1>1 DEF Claiming
  <1>3. Bounds' /\ LapsClaimed' /\ ConsumerReady' /\ Delivered'
    BY DEF IInv, Bounds, LapsClaimed, ConsumerReady, Ready, Delivered
  <1>4. Claims'
    BY <1>1, <1>2 DEF IInv, Claims
  <1>5. Published'
    BY <1>1, <1>2 DEF IInv, Published, Unread
  <1> QED BY <1>3, <1>4, <1>5 DEF IInv

\* The steps of TrySubmit before the claim.
LEMMA OutsideStep ==
  ASSUME IInv, TypeOK', NEW p \in Producers,
         \/ \E c \in Cmds : Call(p, c)
         \/ LoadCursor(p) \/ CheckFull(p) \/ Refused(p) \/ LostRace(p)
  PROVE IInv'
  <1> USE DEF IInv, TypeOK, MayClaim, Bounds
  <1>1. CASE \E c \in Cmds : Call(p, c)
    <2>1. MayClaim'
      BY <1>1 DEF Call, consVars
    <2> QED BY <1>1, <2>1, LocalStep DEF Call, consVars
  <1>2. CASE LoadCursor(p)
    <2>1. MayClaim'
      BY <1>2 DEF LoadCursor, consVars
    <2> QED BY <1>2, <2>1, LocalStep DEF LoadCursor, consVars
  <1>3. CASE CheckFull(p)
    <2>1. MayClaim'
      BY <1>3, MpscAssumption DEF CheckFull, Full, consVars
    <2> QED BY <1>3, <2>1, LocalStep DEF CheckFull, consVars
  <1>4. CASE Refused(p)
    <2>1. MayClaim'
      BY <1>4 DEF Refused, Return, consVars
    <2> QED BY <1>4, <2>1, LocalStep DEF Refused, Return, consVars
  <1>5. CASE LostRace(p)
    <2>1. MayClaim'
      BY <1>5 DEF LostRace, consVars
    <2> QED BY <1>5, <2>1, LocalStep DEF LostRace, consVars
  <1> QED BY <1>1, <1>2, <1>3, <1>4, <1>5

\* A claimed number lies between the tail and the cursor.
LEMMA ClaimedRange ==
  ASSUME IInv, NEW p \in Claiming
  PROVE p \in Producers /\ cur[p] \in Nat /\ cur[p] \in tail .. cursor - 1
  BY DEF IInv, Claims, Claiming, TypeOK

\* The slot of a claimed number is nobody else's.
LEMMA OthersSlots ==
  ASSUME IInv, NEW p \in Claiming
  PROVE \A s \in tail .. cursor - 1 : s # cur[p] => Index(s) # Index(cur[p])
  BY ClaimedRange, Distinct

(* The compare-and-swap.  The number it wins was never published before:   *)
(* no slot holds its lap.                                                  *)
LEMMA ClaimStep ==
  ASSUME IInv, TypeOK', NEW p \in Producers, Claim(p)
  PROVE IInv'
  <1> USE DEF IInv
  <1>1. /\ cur[p] = cursor /\ cursor' = cursor + 1
        /\ pc' = [pc EXCEPT ![p] = "write"]
        /\ UNCHANGED <<tail, lap, slot, cmd, cur, cpc, got, popped>>
    BY DEF Claim, consVars
  <1>2. cmd[p] \in Cmds /\ tail <= cursor /\ cursor < tail + Cap /\ cursor \in Nat /\ tail \in Nat
    BY DEF MayClaim, Claim, Bounds, TypeOK
  <1>3. /\ Len(claimed') = cursor + 1
        /\ claimed'[cursor + 1] = cmd[p]
        /\ \A i \in 1 .. cursor : claimed'[i] = claimed[i]
    BY <1>2 DEF Claim, Bounds, TypeOK
  <1>4. Claiming' = Claiming \cup {p} /\ p \notin Claiming
    BY <1>1 DEF Claiming, TypeOK, Claim
  <1>5. Bounds'
    BY <1>1, <1>2, <1>3, MpscAssumption DEF Bounds
  <1>6. MayClaim'
    <2> SUFFICES ASSUME NEW q \in Producers
                 PROVE /\ pc'[q] # "idle" => cmd'[q] \in Cmds
                       /\ pc'[q] \in {"check", "full", "cas"} => cur'[q] <= cursor'
                       /\ pc'[q] = "cas" => cur'[q] # cursor'
      BY DEF MayClaim
    <2>1. CASE q = p
      BY <1>1, <1>2, <2>1 DEF TypeOK
    <2>2. CASE q # p
      BY <1>1, <1>2, <2>2 DEF TypeOK, MayClaim
    <2> QED BY <2>1, <2>2
  <1>7. lap[Index(cursor)] # Lap(cursor)
    <2> SUFFICES ASSUME lap[Index(cursor)] = Lap(cursor) PROVE FALSE
      OBVIOUS
    <2>1. Index(cursor) \in Slots /\ Lap(cursor) # Never
      BY <1>2, IndexInSlots DEF Never
    <2>2. PICK s \in 0 .. cursor - 1 : Index(s) = Index(cursor) /\ Lap(s) = Lap(cursor)
      BY <2>1 DEF LapsClaimed
    <2> QED BY <1>2, <2>2, SameLap
  <1>8. Claims'
    <2>1. ASSUME NEW q \in Claiming'
          PROVE /\ tail' <= cur'[q] /\ cur'[q] < cursor'
                /\ claimed'[cur'[q] + 1] = cmd'[q]
                /\ lap'[Index(cur'[q])] # Lap(cur'[q])
                /\ pc'[q] = "publish" => slot'[Index(cur'[q])] = cmd'[q]
      <3>1. CASE q = p
        BY <1>1, <1>2, <1>3, <1>7, <3>1 DEF TypeOK
      <3>2. CASE q # p
        <4>1. q \in Claiming /\ q \in Producers /\ cur[q] \in tail .. cursor - 1 /\ pc'[q] = pc[q]
          BY <1>1, <1>4, <3>2, ClaimedRange DEF TypeOK
        <4>2. claimed'[cur[q] + 1] = claimed[cur[q] + 1]
          BY <1>2, <1>3, <4>1
        <4> QED BY <1>1, <1>2, <4>1, <4>2 DEF Claims
      <3> QED BY <3>1, <3>2
    <2>2. ASSUME NEW q \in Claiming', NEW r \in Claiming', cur'[q] = cur'[r] PROVE q = r
      <3>1. \A t \in Claiming : cur[t] # cursor
        BY <1>2, ClaimedRange
      <3> QED BY <1>1, <1>4, <2>2, <3>1 DEF Claims
    <2> QED BY <2>1, <2>2 DEF Claims
  <1>9. Published'
    <2> SUFFICES ASSUME NEW s \in tail' .. cursor' - 1
                 PROVE \/ \E q \in Claiming' : cur'[q] = s
                       \/ /\ lap'[Index(s)] = Lap(s)
                          /\ Unread(s)' => slot'[Index(s)] = claimed'[s + 1]
      BY DEF Published
    <2>1. CASE s = cursor
      BY <1>1, <1>4, <2>1
    <2>2. CASE s # cursor
      <3>1. s \in tail .. cursor - 1 /\ claimed'[s + 1] = claimed[s + 1]
        BY <1>1, <1>2, <1>3, <2>2
      <3>2. Unread(s)' <=> Unread(s)
        BY <1>1, <1>2, <3>1 DEF Unread
      <3> QED BY <1>1, <1>4, <3>1, <3>2 DEF Published
    <2> QED BY <2>1, <2>2
  <1>10. LapsClaimed'
    BY <1>1, <1>2 DEF LapsClaimed
  <1>11. ConsumerReady'
    <2>1. Ready' <=> Ready
      BY <1>1 DEF Ready
    <2>2. Ready => tail + 1 \in 1 .. cursor
      BY <1>2, ReadyIsPublished
    <2>3. Ready => claimed'[tail + 1] = claimed[tail + 1]
      BY <1>3, <2>2
    <2> QED BY <1>1, <2>1, <2>3 DEF ConsumerReady, TypeOK
  <1>12. Delivered'
    BY <1>1, <1>2, <1>3 DEF Delivered
  <1> QED BY <1>5, <1>6, <1>8, <1>9, <1>10, <1>11, <1>12

\* s.cmd = cmd disturbs no other slot.
LEMMA WriteStep ==
  ASSUME IInv, TypeOK', NEW p \in Producers, WriteSlot(p)
  PROVE IInv'
  <1> USE DEF IInv
  <1>1. /\ slot' = [slot EXCEPT ![Index(cur[p])] = cmd[p]]
        /\ pc' = [pc EXCEPT ![p] = "publish"]
        /\ UNCHANGED <<cursor, tail, lap, cmd, cur, cpc, got, claimed, popped>>
    BY DEF WriteSlot, consVars
  <1>2. Claiming' = Claiming /\ p \in Claiming
    BY <1>1 DEF Claiming, TypeOK, WriteSlot
  <1>3. Index(cur[p]) \in Slots /\ cur[p] \in tail .. cursor - 1
    BY <1>2, ClaimedRange, IndexInSlots
  <1>4. ASSUME NEW s \in tail .. cursor - 1, s # cur[p]
        PROVE slot'[Index(s)] = slot[Index(s)]
    <2>1. Index(s) # Index(cur[p])
      BY <1>2, <1>4, OthersSlots
    <2> QED BY <1>1, <2>1 DEF TypeOK
  <1>5. Bounds' /\ LapsClaimed' /\ ConsumerReady' /\ Delivered'
    BY <1>1 DEF Bounds, LapsClaimed, ConsumerReady, Ready, Delivered
  <1>6. MayClaim'
    BY <1>1, <1>2 DEF MayClaim, TypeOK, Claiming
  <1>7. Claims'
    <2>1. ASSUME NEW q \in Claiming, pc'[q] = "publish"
          PROVE slot'[Index(cur[q])] = cmd[q]
      <3>1. CASE q = p
        BY <1>1, <1>3, <3>1 DEF TypeOK
      <3>2. CASE q # p
        <4>1. q \in Producers /\ cur[q] \in tail .. cursor - 1 /\ cur[q] # cur[p]
          BY <1>2, <3>2, ClaimedRange DEF Claims
        <4>2. pc[q] = "publish"
          BY <1>1, <2>1, <3>2, <4>1 DEF TypeOK
        <4> QED BY <1>4, <4>1, <4>2 DEF Claims
      <3> QED BY <3>1, <3>2
    <2> QED BY <1>1, <1>2, <2>1 DEF Claims
  <1>8. Published'
    <2> SUFFICES ASSUME NEW s \in tail .. cursor - 1, \A q \in Claiming : cur[q] # s
                 PROVE /\ lap[Index(s)] = Lap(s)
                       /\ Unread(s) => slot'[Index(s)] = claimed[s + 1]
      BY <1>1, <1>2 DEF Published, Unread
    <2> QED BY <1>2, <1>4 DEF Published
  <1> QED BY <1>5, <1>6, <1>7, <1>8

\* s.lap.Store hands the slot over to the consumer.
LEMMA PublishStep ==
  ASSUME IInv, TypeOK', NEW p \in Producers, Publish(p)
  PROVE IInv'
  <1> USE DEF IInv
  <1>1. /\ lap' = [lap EXCEPT ![Index(cur[p])] = Lap(cur[p])]
        /\ pc' = [pc EXCEPT ![p] = "idle"]
        /\ \A q \in Producers : q # p => cmd'[q] = cmd[q] /\ cur'[q] = cur[q]
        /\ UNCHANGED <<cursor, tail, slot, cpc, got, claimed, popped>>
    BY DEF Publish, Return, consVars, TypeOK
  <1>2. Claiming' = Claiming \ {p} /\ p \in Claiming /\ pc[p] = "publish"
    BY <1>1 DEF Claiming, TypeOK, Publish
  <1>3. Index(cur[p]) \in Slots /\ cur[p] \in tail .. cursor - 1 /\ Lap(cur[p]) \in Nat
    BY <1>2, ClaimedRange, IndexInSlots
  <1>4. ASSUME NEW s \in tail .. cursor - 1, s # cur[p]
        PROVE lap'[Index(s)] = lap[Index(s)]
    <2>1. Index(s) # Index(cur[p])
      BY <1>2, <1>4, OthersSlots
    <2> QED BY <1>1, <2>1 DEF TypeOK
  <1>5. Bounds' /\ Delivered'
    BY <1>1 DEF Bounds, Delivered
  <1>6. MayClaim'
    BY <1>1 DEF MayClaim, TypeOK
  <1>7. Claims'
    <2>1. ASSUME NEW q \in Claiming'
          PROVE /\ q \in Claiming /\ cur'[q] = cur[q] /\ cmd'[q] = cmd[q] /\ pc'[q] = pc[q]
                /\ lap'[Index(cur[q])] = lap[Index(cur[q])]
      <3>1. q \in Claiming /\ q # p /\ q \in Producers /\ cur[q] \in tail .. cursor - 1
        BY <1>2, ClaimedRange
      <3>2. cur[q] # cur[p]
        BY <1>2, <3>1 DEF Claims
      <3> QED BY <1>1, <1>4, <3>1, <3>2 DEF TypeOK
    <2> QED BY <1>1, <2>1 DEF Claims
  <1>8. Published'
    <2> SUFFICES ASSUME NEW s \in tail .. cursor - 1, \A q \in Claiming' : cur'[q] # s
                 PROVE /\ lap'[Index(s)] = Lap(s)
                       /\ Unread(s) => slot[Index(s)] = claimed[s + 1]
      BY <1>1 DEF Published, Unread
    <2>1. CASE s = cur[p]
      BY <1>1, <1>2, <1>3, <2>1 DEF Claims, TypeOK
    <2>2. CASE s # cur[p]
      <3>1. \A q \in Claiming : cur[q] # s
        BY <1>1, <1>2, <2>2 DEF Claiming
      <3> QED BY <1>4, <2>2, <3>1 DEF Published
    <2> QED BY <2>1, <2>2
  <1>9. LapsClaimed'
    BY <1>1, <1>3 DEF LapsClaimed, TypeOK, Bounds
  <1>10. ConsumerReady'
    <2>1. ASSUME Ready PROVE Ready'
      <3>1. Index(cur[p]) # Index(tail)
        BY <1>2, <2>1, ReadyIsPublished
      <3> QED BY <1>1, <2>1, <3>1 DEF Ready, TypeOK
    <2> QED BY <1>1, <2>1 DEF ConsumerReady
  <1> QED BY <1>5, <1>6, <1>7, <1>8, <1>9, <1>10

\* TryPop finds the lap it waits for.
LEMMA PollStep ==
  ASSUME IInv, TypeOK', PollReady
  PROVE IInv'
  <1> USE DEF IInv
  <1>1. /\ Ready /\ cpc = "poll" /\ cpc' = "read"
        /\ UNCHANGED <<cursor, tail, lap, slot, pc, cmd, cur, got, claimed, popped>>
    BY DEF PollReady, prodVars
  <1>2. Claiming' = Claiming
    BY <1>1 DEF Claiming
  <1>3. Bounds' /\ MayClaim' /\ LapsClaimed' /\ ConsumerReady' /\ Delivered' /\ Claims'
    BY <1>1, <1>2 DEF Bounds, MayClaim, LapsClaimed, ConsumerReady, Ready, Delivered, Claims
  <1>4. Published'
    BY <1>1, <1>2 DEF Published, Unread
  <1> QED BY <1>3, <1>4

\* What TryPop is about to read is the command that claimed the tail's number.
LEMMA TailIsPublished ==
  ASSUME IInv, Ready
  PROVE /\ tail \in tail .. cursor - 1
        /\ cpc # "advance" => slot[Index(tail)] = claimed[tail + 1]
  <1>1. tail \in Nat /\ cursor \in Nat /\ tail < cursor /\ \A p \in Claiming : cur[p] # tail
    BY ReadyIsPublished DEF IInv, TypeOK
  <1>2. tail \in tail .. cursor - 1
    BY <1>1
  <1>3. cpc # "advance" => Unread(tail)
    BY <1>1 DEF Unread
  <1> QED BY <1>1, <1>2, <1>3 DEF IInv, Published

\* cmd := s.cmd.
LEMMA ReadStep ==
  ASSUME IInv, TypeOK', ReadSlot
  PROVE IInv'
  <1> USE DEF IInv
  <1>1. /\ cpc = "read" /\ cpc' = "clear" /\ got' = slot[Index(tail)]
        /\ UNCHANGED <<cursor, tail, lap, slot, pc, cmd, cur, claimed, popped>>
    BY DEF ReadSlot, prodVars
  <1>2. Claiming' = Claiming
    BY <1>1 DEF Claiming
  <1>3. Ready /\ got' = claimed[tail + 1]
    BY <1>1, TailIsPublished DEF ConsumerReady
  <1>4. Bounds' /\ MayClaim' /\ LapsClaimed' /\ ConsumerReady' /\ Delivered' /\ Claims'
    BY <1>1, <1>2, <1>3 DEF Bounds, MayClaim, LapsClaimed, ConsumerReady, Ready, Delivered, Claims
  <1>5. Published'
    BY <1>1, <1>2 DEF Published, Unread
  <1> QED BY <1>4, <1>5

\* s.cmd = nil: the pointer has been read and no producer is at the slot yet.
LEMMA ClearStep ==
  ASSUME IInv, TypeOK', ClearSlot
  PROVE IInv'
  <1> USE DEF IInv
  <1>1. /\ cpc = "clear" /\ cpc' = "advance"
        /\ slot' = [slot EXCEPT ![Index(tail)] = Nil]
        /\ UNCHANGED <<cursor, tail, lap, pc, cmd, cur, got, claimed, popped>>
    BY DEF ClearSlot, prodVars
  <1>2. Claiming' = Claiming
    BY <1>1 DEF Claiming
  <1>3. Ready /\ tail \in tail .. cursor - 1 /\ got = claimed[tail + 1]
    BY <1>1, TailIsPublished DEF ConsumerReady
  <1>4. Bounds' /\ MayClaim' /\ LapsClaimed' /\ ConsumerReady' /\ Delivered'
    BY <1>1, <1>3 DEF Bounds, MayClaim, LapsClaimed, ConsumerReady, Ready, Delivered
  <1>5. ASSUME NEW s \in tail .. cursor - 1, s # tail
        PROVE slot'[Index(s)] = slot[Index(s)]
    BY <1>1, <1>3, <1>5, Distinct DEF TypeOK
  <1>6. Claims'
    <2>1. ASSUME NEW p \in Claiming PROVE slot'[Index(cur[p])] = slot[Index(cur[p])]
      BY <1>3, <1>5, ClaimedRange, ReadyIsPublished
    <2> QED BY <1>1, <1>2, <2>1 DEF Claims
  <1>7. Published'
    <2> SUFFICES ASSUME NEW s \in tail .. cursor - 1, \A q \in Claiming : cur[q] # s
                 PROVE /\ lap[Index(s)] = Lap(s)
                       /\ Unread(s)' => slot'[Index(s)] = claimed[s + 1]
      BY <1>1, <1>2 DEF Published
    <2>1. s = tail => ~Unread(s)'
      BY <1>1 DEF Unread
    <2>2. s # tail => Unread(s)
      BY <1>1 DEF Unread, TypeOK
    <2> QED BY <1>5, <2>1, <2>2 DEF Published
  <1> QED BY <1>4, <1>6, <1>7

\* tail.Add(1) frees the slot.
LEMMA AdvanceStep ==
  ASSUME IInv, TypeOK', Advance
  PROVE IInv'
  <1> USE DEF IInv
  <1>1. /\ cpc = "advance" /\ cpc' = "poll" /\ tail' = tail + 1
        /\ UNCHANGED <<cursor, lap, slot, pc, cmd, cur, claimed>>
    BY DEF Advance, prodVars
  <1>2. Claiming' = Claiming
    BY <1>1 DEF Claiming
  <1>3. /\ tail \in Nat /\ cursor \in Nat /\ tail < cursor /\ got = claimed[tail + 1]
        /\ \A p \in Claiming : cur[p] # tail
    BY <1>1, ReadyIsPublished DEF ConsumerReady, TypeOK
  <1>4. Bounds'
    BY <1>1, <1>3, MpscAssumption DEF Bounds
  <1>5. MayClaim'
    BY <1>1, <1>3, MpscAssumption DEF MayClaim
  <1>6. LapsClaimed' /\ ConsumerReady'
    BY <1>1 DEF LapsClaimed, ConsumerReady
  <1>7. Claims'
    <2>1. \A p \in Claiming : tail + 1 <= cur[p]
      BY <1>3, ClaimedRange
    <2> QED BY <1>1, <1>2, <2>1 DEF Claims
  <1>8. Published'
    <2> SUFFICES ASSUME NEW s \in tail + 1 .. cursor - 1, \A q \in Claiming : cur[q] # s
                 PROVE lap[Index(s)] = Lap(s) /\ slot[Index(s)] = claimed[s + 1]
      BY <1>1, <1>2 DEF Published
    <2>1. s \in tail .. cursor - 1 /\ Unread(s)
      BY <1>3 DEF Unread
    <2> QED BY <2>1 DEF Published
  <1>9. Delivered'
    <2>1. popped' = Append(popped, got) /\ popped \in Seq(Cmds \cup {Nil}) /\ Len(popped) = tail
      BY DEF Advance, TypeOK, Delivered
    <2>2. /\ Len(popped') = tail + 1
          /\ popped'[tail + 1] = got
          /\ \A i \in 1 .. tail : popped'[i] = popped[i]
      BY <1>3, <2>1
    <2> QED BY <1>1, <1>3, <2>2 DEF Delivered
  <1> QED BY <1>4, <1>5, <1>6, <1>7, <1>8, <1>9

(* The inductive invariant holds in every reachable state.                 *)
THEOREM Invariance == Spec => []IInv
  <1>1. ASSUME IInv, [Next]_vars PROVE IInv'
    <2>1. TypeOK'
      BY <1>1, TypeStep
    <2>2. CASE UNCHANGED vars
      BY <1>1, <2>2 DEF IInv, TypeOK, Bounds, MayClaim, Claims, Published, LapsClaimed,
         ConsumerReady, Delivered, Claiming, Unread, Ready, vars, prodVars, consVars
    <2>3. ASSUME NEW p \in Producers, Step(p) \/ \E c \in Cmds : Call(p, c) PROVE IInv'
      BY <1>1, <2>1, <2>3, OutsideStep, ClaimStep, WriteStep, PublishStep DEF Step
    <2>4. CASE Consume
      BY <1>1, <2>1, <2>4, PollStep, ReadStep, ClearStep, AdvanceStep DEF Consume
    <2> QED BY <1>1, <2>2, <2>3, <2>4 DEF Next, PollEmpty
  <1> QED BY <1>1, InitIInv, PTL DEF Spec

-----------------------------------------------------------------------------
(* The properties.                                                         *)

(* Every variable keeps its type; in particular TryPop never sees a lap    *)
(* that is neither published nor _never.                                   *)
THEOREM TypeCorrect == Spec => []TypeOK
  BY Invariance, PTL DEF IInv

(* The plain pointer in a slot is never accessed by two goroutines at once *)
(* (ring.go: "We exclusively own slot[cur & mask]").                       *)
THEOREM SlotsNeverRace == Spec => []NoSlotRace
  <1>1. ASSUME IInv PROVE NoSlotRace
    <2>1. ASSUME NEW p \in Claiming, NEW q \in Claiming, p # q
          PROVE Index(cur[p]) # Index(cur[q])
      <3>1. cur[p] # cur[q]
        BY <1>1, <2>1 DEF IInv, Claims
      <3> QED BY <1>1, <3>1, ClaimedRange, Distinct
    <2>2. ASSUME NEW p \in Claiming, cpc \in {"read", "clear", "advance"}
          PROVE Index(cur[p]) # Index(tail)
      <3>1. Ready
        BY <1>1, <2>2 DEF IInv, ConsumerReady
      <3> QED BY <1>1, <3>1, ReadyIsPublished
    <2> QED BY <2>1, <2>2 DEF NoSlotRace
  <1> QED BY <1>1, Invariance, PTL

(* A submitted command stays in its slot until TryPop has read it.         *)
THEOREM NothingOverwritten == Spec => []PublishedIntact
  <1>1. IInv => PublishedIntact
    BY DEF IInv, Published, PublishedIntact
  <1> QED BY <1>1, Invariance, PTL

(* TryPop returns the claimed commands, each once, in the order of the     *)
(* claims.                                                                 *)
THEOREM ExactlyOnceInOrder == Spec => []DeliveredInClaimOrder
  <1>1. ASSUME IInv PROVE DeliveredInClaimOrder
    <2>1. /\ claimed \in Seq(Cmds \cup {Nil}) /\ popped \in Seq(Cmds \cup {Nil})
          /\ tail \in Nat /\ tail <= Len(claimed)
          /\ Len(popped) = tail /\ \A i \in 1 .. tail : popped[i] = claimed[i]
      BY <1>1 DEF IInv, TypeOK, Bounds, Delivered
    <2> QED BY <2>1, Beginning DEF DeliveredInClaimOrder
  <1> QED BY <1>1, Invariance, PTL

-----------------------------------------------------------------------------
(* The ring implements the bounded FIFO queue.                             *)

\* A successful compare-and-swap is the moment a command enters the queue.
LEMMA ClaimEnqueues ==
  ASSUME IInv, IInv', NEW p \in Producers, Claim(p)
  PROVE Fifo!Enqueue(cmd[p])
  <1>1. /\ cursor' = cursor + 1 /\ claimed' = Append(claimed, cmd[p])
        /\ tail' = tail /\ popped' = popped
    BY DEF Claim
  <1>2. /\ tail \in Nat /\ cursor \in Nat /\ tail <= cursor /\ cursor + 1 <= tail + Cap
        /\ claimed \in Seq(Cmds) /\ Len(claimed) = cursor
    BY <1>1 DEF IInv, TypeOK, Bounds
  <1>3. cmd[p] \in Cmds
    BY DEF IInv, MayClaim, Claim
  <1>4. /\ Len(SubSeq(claimed, tail + 1, cursor)) = cursor - tail
        /\ SubSeq(claimed', tail' + 1, cursor') = Append(SubSeq(claimed, tail + 1, cursor), cmd[p])
    BY <1>1, <1>2, <1>3, WindowGrows
  <1>5. cursor - tail < Cap
    BY <1>2, MpscAssumption
  <1> QED BY <1>1, <1>4, <1>5 DEF Fifo!Enqueue

\* Advancing the tail is the moment it leaves.
LEMMA AdvanceDequeues ==
  ASSUME IInv, Advance
  PROVE Fifo!Dequeue
  <1>1. /\ tail' = tail + 1 /\ popped' = Append(popped, got)
        /\ UNCHANGED <<cursor, claimed>> /\ cpc = "advance"
    BY DEF Advance
  <1>2. Ready /\ got = claimed[tail + 1]
    BY <1>1 DEF IInv, ConsumerReady
  <1>3. /\ tail \in Nat /\ cursor \in Nat /\ tail < cursor
        /\ claimed \in Seq(Cmds) /\ Len(claimed) = cursor
    BY <1>2, ReadyIsPublished DEF IInv, TypeOK, Bounds
  <1> QED BY <1>1, <1>2, <1>3, WindowShrinks DEF Fifo!Dequeue

(* Every behaviour of the ring is, seen through the refinement mapping, a  *)
(* behaviour of BoundedFifo.                                               *)
THEOREM Refinement == Spec => ImplementsFifo
  <1>1. Init => Fifo!Init
    <2> SUFFICES ASSUME Init PROVE SubSeq(claimed, tail + 1, cursor) = <<>> /\ popped = <<>>
      BY DEF Fifo!Init
    <2> QED BY SubSeqEmpty DEF Init
  <1>2. ASSUME IInv, IInv', [Next]_vars PROVE [Fifo!Next]_(Fifo!fifoVars)
    <2>1. ASSUME NEW p \in Producers, Claim(p) PROVE Fifo!Next
      <3>1. cmd[p] \in Cmds
        BY <1>2, <2>1 DEF IInv, MayClaim, Claim
      <3> QED BY <1>2, <2>1, <3>1, ClaimEnqueues DEF Fifo!Next
    <2>2. CASE Advance
      BY <1>2, <2>2, AdvanceDequeues DEF Fifo!Next
    <2>3. ASSUME UNCHANGED <<tail, cursor, claimed, popped>> PROVE UNCHANGED Fifo!fifoVars
      BY <2>3 DEF Fifo!fifoVars
    <2>4. ASSUME NEW p \in Producers,
                 \/ \E c \in Cmds : Call(p, c)
                 \/ LoadCursor(p) \/ CheckFull(p) \/ Refused(p) \/ LostRace(p)
                 \/ WriteSlot(p) \/ Publish(p)
          PROVE UNCHANGED <<tail, cursor, claimed, popped>>
      BY <2>4 DEF Call, LoadCursor, CheckFull, Refused, LostRace, WriteSlot, Publish
    <2>5. ASSUME PollReady \/ ReadSlot \/ ClearSlot \/ UNCHANGED vars
          PROVE UNCHANGED <<tail, cursor, claimed, popped>>
      BY <2>5 DEF PollReady, ReadSlot, ClearSlot, vars
    <2> QED BY <1>2, <2>1, <2>2, <2>3, <2>4, <2>5 DEF Next, Step, Consume, PollEmpty
  <1> QED BY <1>1, <1>2, Invariance, PTL DEF Spec, ImplementsFifo, Fifo!Spec
-----------------------------------------------------------------------------
(* What a refusal means.                                                   *)

\* A producer is refused by its own look at the tail, or it was already.
LEMMA RefusedBy ==
  ASSUME TypeOK, [Next]_vars, NEW q \in Producers, pc'[q] = "full"
  PROVE /\ tail \in Nat /\ tail' \in Nat /\ tail <= tail'
        /\ \/ pc[q] = "full" /\ cur'[q] = cur[q]
           \/ CheckFull(q) /\ Full(cur[q], tail)
  <1>1. TypeOK
    OBVIOUS
  <1>2. CASE UNCHANGED vars
    BY <1>1, <1>2 DEF TypeOK, vars, prodVars
  <1>3. CASE Consume \/ PollEmpty
    BY <1>1, <1>3 DEF TypeOK, Consume, PollEmpty, PollReady, ReadSlot, ClearSlot, Advance, vars, prodVars
  <1>4. ASSUME NEW p \in Producers, Step(p) \/ \E c \in Cmds : Call(p, c)
        PROVE /\ tail \in Nat /\ tail' = tail
              /\ \/ pc[q] = "full" /\ cur'[q] = cur[q]
                 \/ CheckFull(q) /\ Full(cur[q], tail)
    <2>1. tail \in Nat /\ pc \in [Producers -> {"idle", "load", "check", "full", "cas", "write", "publish"}]
          /\ cur \in [Producers -> Nat]
      BY DEF TypeOK
    <2>2. CASE p = q
      BY <1>4, <2>1, <2>2 DEF Step, Call, LoadCursor, CheckFull, Refused, Return, Claim, LostRace, WriteSlot, Publish
    <2>3. CASE p # q
      BY <1>4, <2>1, <2>3 DEF Step, Call, LoadCursor, CheckFull, Refused, Return, Claim, LostRace, WriteSlot, Publish
    <2> QED BY <2>2, <2>3
  <1> QED BY <1>2, <1>3, <1>4 DEF Next

(* TrySubmit answers false only when the ring was full at some moment of   *)
(* the call, or when the consumer has passed the cursor the call had       *)
(* loaded, so that another command was accepted and processed instead.     *)
THEOREM RefusalMeans == BSpec => []RefusedWhenFullOrOvertaken
  <1>1. BInit => Init /\ RefusedWhenFullOrOvertaken
    BY DEF BInit, Init, RefusedWhenFullOrOvertaken
  <1>2. [BNext]_bvars => [Next]_vars
    BY DEF BNext, bvars
  <1>3. BSpec => Spec
    BY <1>1, <1>2, PTL DEF BSpec, Spec
  <1>4. ASSUME IInv, [BNext]_bvars, RefusedWhenFullOrOvertaken
        PROVE RefusedWhenFullOrOvertaken'
    <2>1. SUFFICES ASSUME NEW q \in Producers, pc'[q] = "full"
                   PROVE sawFull'[q] \/ cur'[q] < tail'
      BY DEF RefusedWhenFullOrOvertaken
    <2>2. /\ tail \in Nat /\ tail' \in Nat /\ tail <= tail'
          /\ \/ pc[q] = "full" /\ cur'[q] = cur[q]
             \/ CheckFull(q) /\ Full(cur[q], tail)
      BY <1>2, <1>4, <2>1, RefusedBy DEF IInv
    <2>3. cur[q] \in Nat /\ cursor \in Nat
      BY <1>4 DEF IInv, TypeOK
    <2>4. CASE UNCHANGED bvars
      BY <1>4, <2>1, <2>4 DEF RefusedWhenFullOrOvertaken, bvars, vars, prodVars
    <2>5. CASE BNext
      <3>1. sawFull'[q] = (RingFull' \/ (sawFull[q] /\ ~Begins(q)))
        BY <2>1, <2>5 DEF BNext
      <3>2. CASE pc[q] = "full" /\ cur'[q] = cur[q]
        <4>1. sawFull[q] \/ cur[q] < tail
          BY <1>4, <3>2 DEF RefusedWhenFullOrOvertaken
        <4>2. ~Begins(q)
          BY <2>1 DEF Begins
        <4>3. CASE sawFull[q]
          BY <3>1, <4>2, <4>3, Zenon
        <4>4. CASE cur[q] < tail
          BY <2>2, <2>3, <3>2, <4>4
        <4> QED BY <4>1, <4>3, <4>4
      <3>3. CASE CheckFull(q) /\ Full(cur[q], tail)
        <4>1. /\ pc[q] = "check" /\ cur'[q] = cur[q] /\ tail' = tail /\ cursor' = cursor
          BY <3>3 DEF CheckFull
        <4>2. cur[q] <= cursor
          BY <1>4, <4>1 DEF IInv, MayClaim
        <4>3. cur[q] < tail \/ cursor - tail >= Cap
          BY <2>2, <2>3, <3>3, <4>2, MpscAssumption DEF Full
        <4> QED BY <3>1, <4>1, <4>3 DEF RingFull
      <3> QED BY <2>2, <3>2, <3>3
    <2> QED BY <1>4, <2>4, <2>5
  <1>5. BSpec => []IInv
    BY <1>3, Invariance, PTL
  <1> QED BY <1>1, <1>4, <1>5, PTL DEF BSpec
=============================================================================
