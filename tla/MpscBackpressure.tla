-------------------------- MODULE MpscBackpressure --------------------------
(***************************************************************************)
(* What a refusal by TrySubmit means.  Mpsc with one history variable: at  *)
(* some moment since the call began, were all slots taken?                 *)
(***************************************************************************)
EXTENDS Mpsc

VARIABLE sawFull

bvars == <<vars, sawFull>>

RingFull == cursor - tail >= Cap

BInit == Init /\ sawFull = [p \in Producers |-> FALSE]

\* A call begins when the producer enters TrySubmit, also when Submit calls it
\* again; a compare-and-swap that loses stays within the call.
Begins(p) == pc'[p] = "load" /\ pc[p] \in {"idle", "full"}

BNext ==
  /\ Next
  /\ sawFull' = [p \in Producers |->
                   IF pc'[p] = "idle" THEN FALSE
                   ELSE RingFull' \/ (sawFull[p] /\ ~Begins(p))]

BSpec == BInit /\ [][BNext]_bvars
BFairSpec == BSpec /\ Fairness
-----------------------------------------------------------------------------
(***************************************************************************)
(* ring.go: "Returns false when the ring is full (back-pressure signal)".  *)
(***************************************************************************)
RefusedOnlyWhenFull == \A p \in Producers : pc[p] = "full" => sawFull[p]

(***************************************************************************)
(* What the code guarantees: a refused producer met a full ring, or the    *)
(* consumer has meanwhile taken the very number the producer had loaded,   *)
(* so some other command was accepted and processed instead.               *)
(***************************************************************************)
RefusedWhenFullOrOvertaken ==
  \A p \in Producers : pc[p] = "full" => sawFull[p] \/ cur[p] < tail
=============================================================================
