------------------------------- MODULE Stress -------------------------------
(***************************************************************************)
(* cmd/stress: the driver around one engine.  A warm-up goroutine fills    *)
(* the book and then drains the events; after it makers and takers submit  *)
(* until the deadline while a consumer polls, and main reports when all    *)
(* have returned.  Symbols share nothing but counters, so one stands for   *)
(* all.                                                                    *)
(*                                                                         *)
(* The rings are bounded queues (see Mpsc and EventRing).  Every order is  *)
(* one lot, asks are above the mid price and bids below it, and takers go  *)
(* through any price (see Engine), so a book is the number of its orders.  *)
(***************************************************************************)
EXTENDS Integers, Sequences, FiniteSets

CONSTANTS Makers, Takers,
          Depths,      \* what -depth may be; takers need 2 or more
          InCap, OutCap,
          MaxOrders    \* bound: producers stop to begin rounds after so many orders

ASSUME StressAssumption ==
  /\ Makers \cap Takers = {}
  /\ Depths \subseteq Nat \ {0, 1}
  /\ InCap \in Nat \ {0} /\ OutCap \in Nat \ {0}

VARIABLES depth,
          phase,      \* of main: fill and drain (the warm-up), work, end (the report)
          placed, received,  \* by the warm-up
          clock,      \* before the deadline, after it, 500 ms after it
          prod,       \* where each maker and taker is
          consumer,   \* at the top of its loop, with an empty ring, or gone
          inbound, outbound,
          book,       \* resting orders of each side
          emit,       \* events the engine has still to push
          submitted,  \* totalSubmitted
          seen        \* totalTrades and the other counts of events

warmVars == <<depth, placed, received>>
engVars == <<book, emit>>
counters == <<submitted, seen>>
driverVars == <<warmVars, phase, clock, prod, consumer, inbound, outbound, engVars, counters>>

Producers == Makers \cup Takers
Events == {"Accepted", "Trade", "Filled", "Cancelled"}
Side == [buy |-> "ask", sell |-> "bid"]   \* the side a taker trades with

DriverInit ==
  /\ depth \in Depths
  /\ phase = "fill" /\ placed = 0 /\ received = 0
  /\ clock = "run"
  /\ prod = [p \in Producers |-> "check"]
  /\ consumer = "top"
  /\ inbound = <<>> /\ outbound = <<>>
  /\ book = [side \in {"ask", "bid"} |-> 0] /\ emit = <<>>
  /\ submitted = 0 /\ seen = [e \in Events |-> 0]
-----------------------------------------------------------------------------
(* warmup: 2 * depth orders, and only then the events.                     *)

\* TrySubmit succeeds when there is room; until then Submit, or the driver's
\* own loop around TrySubmit, spins.
Submit(order) == Len(inbound) < InCap /\ inbound' = Append(inbound, order)

Fill ==
  /\ phase = "fill"
  /\ Submit(IF placed < depth THEN "ask" ELSE "bid")
  /\ placed' = placed + 1
  /\ phase' = IF placed' = 2 * depth THEN "drain" ELSE "fill"
  /\ UNCHANGED <<depth, received, clock, prod, consumer, outbound, engVars, counters>>

\* Bugs the runs notice: one event too many, or those of one side.
OneEventMore == 2 * depth + 1
EventsOfOneSide == depth

WarmupEvents == 2 * depth

Drain ==
  /\ phase = "drain"
  /\ outbound # <<>> /\ outbound' = Tail(outbound)
  /\ received' = received + 1
  /\ phase' = IF received' = WarmupEvents THEN "work" ELSE "drain"
  /\ UNCHANGED <<depth, placed, clock, prod, consumer, inbound, engVars, counters>>
-----------------------------------------------------------------------------
(* The engine: one event for an order that rests, two for a taker that     *)
(* meets somebody, one for a taker that does not.                          *)

Process ==
  /\ emit = <<>> /\ inbound # <<>>
  /\ inbound' = Tail(inbound)
  /\ LET order == Head(inbound)
     IN IF order \in DOMAIN book
          THEN /\ book' = [book EXCEPT ![order] = @ + 1]
               /\ emit' = <<"Accepted">>
          ELSE IF book[Side[order]] > 0
            THEN /\ book' = [book EXCEPT ![Side[order]] = @ - 1]
                 /\ emit' = <<"Trade", "Filled">>
            ELSE emit' = <<"Cancelled">> /\ UNCHANGED book
  /\ UNCHANGED <<warmVars, phase, clock, prod, consumer, outbound, counters>>

\* A bug the runs notice: the last slot is never used.
PushEventOneEarly ==
  /\ emit # <<>> /\ Len(outbound) + 1 < OutCap
  /\ outbound' = Append(outbound, Head(emit))
  /\ emit' = Tail(emit)
  /\ UNCHANGED <<warmVars, phase, clock, prod, consumer, inbound, book, counters>>

PushEvent ==
  /\ emit # <<>> /\ Len(outbound) < OutCap
  /\ outbound' = Append(outbound, Head(emit))
  /\ emit' = Tail(emit)
  /\ UNCHANGED <<warmVars, phase, clock, prod, consumer, inbound, book, counters>>
-----------------------------------------------------------------------------
(* runMaker and runTaker look at the clock between rounds, and never while *)
(* they spin.                                                              *)

Begin(p) ==
  /\ phase = "work"
  /\ prod[p] = "check" /\ clock = "run" /\ submitted < MaxOrders
  /\ prod' = [prod EXCEPT ![p] = IF p \in Makers THEN "ask" ELSE "take"]
  /\ UNCHANGED <<warmVars, phase, clock, consumer, inbound, outbound, engVars, counters>>

Following(pc) == IF pc = "ask" THEN "bid" ELSE "check"

Place(p) ==
  /\ \E order \in IF prod[p] = "take" THEN DOMAIN Side ELSE {prod[p]} \cap DOMAIN book :
       Submit(order)
  /\ prod' = [prod EXCEPT ![p] = Following(@)]
  /\ submitted' = submitted + 1
  /\ UNCHANGED <<warmVars, phase, clock, consumer, outbound, engVars, seen>>

Leave(p) ==
  /\ phase = "work"
  /\ prod[p] = "check" /\ clock # "run"
  /\ prod' = [prod EXCEPT ![p] = "done"]
  /\ UNCHANGED <<warmVars, phase, clock, consumer, inbound, outbound, engVars, counters>>

Produce(p) == Begin(p) \/ Place(p) \/ Leave(p)
-----------------------------------------------------------------------------
(* runConsumer.                                                            *)

Consume ==
  /\ phase = "work" /\ consumer = "top" /\ clock # "late"
  /\ IF outbound = <<>>
       THEN consumer' = "empty" /\ UNCHANGED <<outbound, seen>>
       ELSE /\ outbound' = Tail(outbound)
            /\ seen' = [seen EXCEPT ![Head(outbound)] = @ + 1]
            /\ UNCHANGED consumer
  /\ UNCHANGED <<warmVars, phase, clock, prod, inbound, engVars, submitted>>

\* The look at the clock after an empty poll, and the one at the top of the loop.
LookAtClock ==
  /\ phase = "work"
  /\ \/ consumer = "empty" /\ consumer' = IF clock = "run" THEN "top" ELSE "gone"
     \/ consumer = "top" /\ clock = "late" /\ consumer' = "gone"
  /\ UNCHANGED <<warmVars, phase, clock, prod, inbound, outbound, engVars, counters>>

TimePasses ==
  /\ phase = "work" /\ clock # "late"
  /\ clock' = IF clock = "run" THEN "after" ELSE "late"
  /\ UNCHANGED <<warmVars, phase, prod, consumer, inbound, outbound, engVars, counters>>

\* wg.Wait returns, and main prints the final report.
Report ==
  /\ phase = "work" /\ consumer = "gone"
  /\ \A p \in Producers : prod[p] = "done"
  /\ phase' = "end"
  /\ UNCHANGED <<warmVars, clock, prod, consumer, inbound, outbound, engVars, counters>>

DriverNext ==
  \/ Fill \/ Drain
  \/ Process \/ PushEvent
  \/ \E p \in Producers : Produce(p)
  \/ Consume \/ LookAtClock
  \/ TimePasses \/ Report

DriverSpec == DriverInit /\ [][DriverNext]_driverVars

\* Every goroutine is scheduled, and time passes.
FairDriverSpec ==
  /\ DriverSpec
  /\ WF_driverVars(Fill \/ Drain \/ Report) /\ WF_driverVars(Process \/ PushEvent)
  /\ WF_driverVars(Consume \/ LookAtClock) /\ WF_driverVars(TimePasses)
  /\ \A p \in Producers : WF_driverVars(Produce(p))
-----------------------------------------------------------------------------
(***************************************************************************)
(* The warm-up gets to its end exactly for the depths whose orders fit,    *)
(* with one in the engine's hands, into the two rings: it polls nothing    *)
(* until it has submitted everything.  For a greater depth warmup, engine  *)
(* and main wait for one another for ever.                                 *)
(***************************************************************************)
Fits == depth + depth <= InCap + OutCap + 1

OnlyWhatFitsIsPlaced == phase # "fill" => Fits

WarmupEndsIffItFits ==
  /\ (phase = "fill" /\ Fits) ~> phase = "work"
  /\ []OnlyWhatFitsIsPlaced

(***************************************************************************)
(* After the deadline main gets to its report, unless the consumer has     *)
(* left and every slot of the event ring is taken: nobody polls then, the  *)
(* engine blocks, and a producer whose order finds no room spins for ever. *)
(***************************************************************************)
Stranded == consumer = "gone" /\ Len(outbound) = OutCap

WorkEnds == phase = "work" ~> phase = "end" \/ Stranded

Told == outbound \o emit

Among(kinds, events) == {i \in DOMAIN events : events[i] \in kinds}

OnTheirWay(kinds) == Cardinality(Among(kinds, Told))

(***************************************************************************)
(* The counts of the report.  Every order counted as submitted since the   *)
(* warm-up is answered by exactly one acceptance, fill or cancel that the  *)
(* consumer has counted, or by one the consumer did not wait for; the same *)
(* goes for a trade and its fill; and what rests is what was accepted and  *)
(* not traded.                                                             *)
(***************************************************************************)
ReportAccounts ==
  phase = "end" =>
    /\ submitted = seen["Accepted"] + seen["Filled"] + seen["Cancelled"]
                     + Len(inbound) + OnTheirWay(Events \ {"Trade"})
    /\ seen["Trade"] \in {seen["Filled"], seen["Filled"] + 1}
    /\ book["ask"] + book["bid"]
         = 2 * depth + seen["Accepted"] + OnTheirWay({"Accepted"})
             - seen["Trade"] - OnTheirWay({"Trade"})
-----------------------------------------------------------------------------
DriverTypes ==
  /\ depth \in Depths /\ placed \in Nat /\ received \in Nat
  /\ phase \in {"fill", "drain", "work", "end"}
  /\ clock \in {"run", "after", "late"}
  /\ prod \in [Producers -> {"check", "ask", "bid", "take", "done"}]
  /\ consumer \in {"top", "empty", "gone"}
  /\ inbound \in Seq({"ask", "bid", "buy", "sell"})
  /\ outbound \in Seq(Events) /\ emit \in Seq(Events)
  /\ book \in [{"ask", "bid"} -> Nat]
  /\ submitted \in Nat /\ seen \in [Events -> Nat]

\* Until the warm-up ends nobody else is at work, and its orders rest.
WarmingUp ==
  phase \in {"fill", "drain"} =>
    /\ \A p \in Producers : prod[p] = "check"
    /\ \A i \in DOMAIN inbound : inbound[i] \in {"ask", "bid"}
    /\ \A i \in DOMAIN Told : Told[i] = "Accepted"
    /\ submitted = 0 /\ \A e \in Events : seen[e] = 0
    /\ placed = received + Len(Told) + Len(inbound)
    /\ book["ask"] + book["bid"] + Len(inbound) = placed
    /\ phase = "fill" => received = 0 /\ placed < 2 * depth
    /\ phase = "drain" => placed = 2 * depth

\* A trade is followed by its fill at once.
Paired(events) ==
  /\ \A i \in DOMAIN events : events[i] = "Trade" => i < Len(events) /\ events[i + 1] = "Filled"
  /\ \A i \in DOMAIN events : events[i] = "Filled" /\ i > 1 => events[i - 1] = "Trade"

\* After it every order counted and every event is accounted for.
Accounted ==
  phase \in {"work", "end"} =>
    /\ submitted = seen["Accepted"] + seen["Filled"] + seen["Cancelled"]
                     + Len(inbound) + OnTheirWay(Events \ {"Trade"})
    /\ seen["Trade"] = seen["Filled"] + (IF Told # <<>> /\ Told[1] = "Filled" THEN 1 ELSE 0)
    /\ book["ask"] + book["bid"] + seen["Trade"] + OnTheirWay({"Trade"})
         = 2 * depth + seen["Accepted"] + OnTheirWay({"Accepted"})

DriverInv == DriverTypes /\ WarmingUp /\ Paired(Told) /\ Accounted
=============================================================================
