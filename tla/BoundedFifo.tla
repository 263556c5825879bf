---------------------------- MODULE BoundedFifo ----------------------------
(***************************************************************************)
(* What every ring buffer of the engine promises to the goroutines around  *)
(* it: a FIFO queue of at most N elements, each of which is handed to the  *)
(* consumer once and in the order in which it entered.  pkg/mpsc and       *)
(* pkg/offheap are both shown to implement this module.                    *)
(***************************************************************************)
EXTENDS Integers, Sequences

CONSTANTS Elems,   \* what can be queued
          N        \* the number of slots

VARIABLES queue,      \* the elements inside, oldest first
          delivered   \* everything the consumer was given, oldest first

fifoVars == <<queue, delivered>>

Init == queue = <<>> /\ delivered = <<>>

Enqueue(e) ==
  /\ Len(queue) < N
  /\ queue' = Append(queue, e)
  /\ UNCHANGED delivered

Dequeue ==
  /\ queue # <<>>
  /\ delivered' = Append(delivered, Head(queue))
  /\ queue' = Tail(queue)

Next == Dequeue \/ \E e \in Elems : Enqueue(e)

Spec == Init /\ [][Next]_fifoVars

\* The consumer keeps taking what there is.
FairSpec == Spec /\ WF_fifoVars(Dequeue)
=============================================================================
