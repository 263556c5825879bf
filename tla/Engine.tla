------------------------------- MODULE Engine -------------------------------
(***************************************************************************)
(* pkg/engine: the matching engine of one symbol, with its order book,     *)
(* the goroutines that submit commands to it, the goroutine that polls its *)
(* events, and the pool (pkg/pool) through which order objects return to   *)
(* the submitters.                                                         *)
(*                                                                         *)
(* The inbound and the outbound ring are the bounded FIFO queues that Mpsc *)
(* and EventRing are shown to implement.  The handler of a command runs    *)
(* step by step: an iteration of a matching loop, or the push of an event  *)
(* and the return of the objects that follows it, is one action; pushing   *)
(* waits while the outbound ring is full.                                  *)
(***************************************************************************)
EXTENDS OrderBook

CONSTANTS NoObj,       \* the nil *types.Order
          OrderTypes,  \* Limit, Market, IOC, FOK, PostOnly, or anything else
          Qtys,        \* order quantities, positive (the gateway validates that)
          InCap,       \* size of the inbound ring
          OutCap,      \* size of the outbound ring
          MaxCancels   \* bound: how many cancels are submitted

\* What of an order decides how it is matched.
OrderView ==
  [id : OrderIds, side : Sides, type : OrderTypes, price : Nat, qty : Nat, rem : Nat, seq : Nat]

ASSUME EngineAssumption ==
  /\ Qtys \subseteq Nat \ {0}
  /\ NoObj \notin Objs /\ NoObj \notin OrderView
  /\ InCap \in Nat \ {0} /\ OutCap \in Nat \ {0}
  /\ MaxCancels \in Nat

VARIABLES pool,      \* how many times each object is in orderPool
          nextId,    \* the last identifier given to an order
          cancels,   \* cancels submitted
          inbound,   \* commands the engine has not popped
          outbound,  \* events the consumer has not polled
          pc,        \* where the engine goroutine is in process
          localSeq, tradeSeq,
          subject,   \* the order the handler is about
          trades,    \* what Match returned and emitTrades has still to publish
          verdict    \* the event that will end the handler

engVars == <<pc, localSeq, tradeSeq, subject, trades, verdict>>
envVars == <<nextId, cancels>>
vars == <<bookVars, pool, inbound, outbound, engVars, envVars>>

Init ==
  /\ BookInit
  /\ pool = [o \in Objs |-> 1]
  /\ nextId = 0 /\ cancels = 0
  /\ inbound = <<>> /\ outbound = <<>>
  /\ pc = "idle"
  /\ localSeq = 0 /\ tradeSeq = 0
  /\ subject = NoObj /\ trades = <<>> /\ verdict = "none"
-----------------------------------------------------------------------------
(* Submitters and the consumer.                                            *)

\* A submitter takes an object from the pool, fills it in and submits it.
SubmitOrder(o, side, type, price, qty) ==
  /\ nextId + 1 \in OrderIds
  /\ pool[o] > 0
  /\ Len(inbound) < InCap
  /\ nextId' = nextId + 1
  /\ pool' = [pool EXCEPT ![o] = @ - 1]
  /\ order' = [order EXCEPT ![o] =
       [id |-> nextId', side |-> side, type |-> type, price |-> price,
        qty |-> qty, rem |-> qty, status |-> "New", seq |-> 0]]
  /\ inbound' = Append(inbound, [kind |-> "new", obj |-> o, id |-> 0])
  /\ UNCHANGED <<prices, levels, index, outbound, engVars, cancels>>

SubmitCancel(id) ==
  /\ cancels < MaxCancels
  /\ Len(inbound) < InCap
  /\ cancels' = cancels + 1
  /\ inbound' = Append(inbound, [kind |-> "cancel", obj |-> NoObj, id |-> id])
  /\ UNCHANGED <<bookVars, pool, outbound, engVars, nextId>>

Submit ==
  \/ \E o \in Objs, side \in Sides, type \in OrderTypes, price \in Prices, qty \in Qtys :
       SubmitOrder(o, side, type, IF type = "Market" THEN 0 ELSE price, qty)
  \/ \E id \in OrderIds : SubmitCancel(id)

PollEvent ==
  /\ outbound # <<>>
  /\ outbound' = Tail(outbound)
  /\ UNCHANGED <<bookVars, pool, inbound, engVars, envVars>>
-----------------------------------------------------------------------------
(* The engine goroutine: process and handleNewOrder.                       *)

PutOrder(o) ==
  /\ order' = [order EXCEPT ![o] = ZeroOrder]
  /\ pool' = [pool EXCEPT ![o] = @ + 1]

Conclude(v) == verdict' = v /\ pc' = "report"

\* A bug the runs notice: cancels are not numbered.
PopNumbersOrders(kind) ==
  /\ pc = "idle"
  /\ inbound # <<>> /\ Head(inbound).kind = kind
  /\ inbound' = Tail(inbound)
  /\ localSeq' = IF kind = "new" THEN localSeq + 1 ELSE localSeq

\* run pops a command and process numbers it.
PopCommand(kind) ==
  /\ pc = "idle"
  /\ inbound # <<>> /\ Head(inbound).kind = kind
  /\ inbound' = Tail(inbound)
  /\ localSeq' = localSeq + 1

ProcessNew ==
  /\ PopCommand("new")
  /\ subject' = Head(inbound).obj
  /\ order' = [order EXCEPT ![subject'].seq = localSeq']
  /\ pc' = "new"
  /\ UNCHANGED <<prices, levels, index, pool, outbound, tradeSeq, trades, verdict, envVars>>

Refuses(r) ==
  \/ r.type = "PostOnly" /\ WouldCross(subject)
  \/ r.type = "FOK" /\ ~CanFillCompletely(subject)
  \/ r.type \notin {"PostOnly", "FOK", "Limit", "IOC", "Market"}

Reject ==
  /\ pc = "new"
  /\ Refuses(order[subject])
  /\ order' = [order EXCEPT ![subject].status = "Rejected"]
  /\ Conclude("Rejected")
  /\ UNCHANGED <<prices, levels, index, pool, inbound, outbound,
                 localSeq, tradeSeq, subject, trades, envVars>>

RestPostOnly ==
  /\ pc = "new"
  /\ order[subject].type = "PostOnly" /\ ~Refuses(order[subject])
  /\ AddOrder(subject)
  /\ Conclude("Accepted")
  /\ UNCHANGED <<pool, inbound, outbound, localSeq, tradeSeq, subject, trades, envVars>>

StartMatch ==
  /\ pc = "new"
  /\ order[subject].type # "PostOnly" /\ ~Refuses(order[subject])
  /\ pc' = "match"
  /\ UNCHANGED <<bookVars, pool, inbound, outbound,
                 localSeq, tradeSeq, subject, trades, verdict, envVars>>

EnterLevel ==
  /\ pc = "match"
  /\ Sweeps(subject)
  /\ pc' = "fill"
  /\ UNCHANGED <<bookVars, pool, inbound, outbound,
                 localSeq, tradeSeq, subject, trades, verdict, envVars>>

FillMaker ==
  /\ pc = "fill"
  /\ \E m \in Objs, q \in 1 .. order[subject].rem :
       /\ Fill(subject, m, q)
       /\ trades' = Append(trades, [maker |-> m, price |-> Best(order[m].side), qty |-> q])
  /\ UNCHANGED <<pool, inbound, outbound, pc, localSeq, tradeSeq, subject, verdict, envVars>>

LeaveLevel ==
  /\ pc = "fill"
  /\ ~FillsLevel(subject)
  /\ PruneBest(subject)
  /\ pc' = "match"
  /\ UNCHANGED <<pool, inbound, outbound, localSeq, tradeSeq, subject, trades, verdict, envVars>>

EndMatch ==
  /\ pc = "match"
  /\ ~Sweeps(subject)
  /\ order' = [order EXCEPT ![subject].status = StatusAfterMatch(order[subject])]
  /\ pc' = "emit"
  /\ UNCHANGED <<prices, levels, index, pool, inbound, outbound,
                 localSeq, tradeSeq, subject, trades, verdict, envVars>>
-----------------------------------------------------------------------------
(* Publishing events; each push waits for a free slot.                     *)

Push(e) == Len(outbound) < OutCap /\ outbound' = Append(outbound, e)

\* A bug the runs notice: the remaining quantity is reported as it was submitted.
OrderEventAsSubmitted(type, seq, r) ==
  [type |-> type, seq |-> seq, id |-> r.id, maker |-> 0, trade |-> 0, status |-> r.status,
   side |-> r.side, price |-> r.price, qty |-> r.qty, rem |-> r.qty]

OrderEvent(type, seq, r) ==
  [type |-> type, seq |-> seq, id |-> r.id, maker |-> 0, trade |-> 0, status |-> r.status,
   side |-> r.side, price |-> r.price, qty |-> r.qty, rem |-> r.rem]

\* A bug the runs notice: the quantity of a trade is the maker's.
TradeEventOfMaker(seq, n, taker, maker, tr) ==
  [type |-> "Trade", seq |-> seq, id |-> taker.id, maker |-> maker.id, trade |-> n,
   status |-> maker.status, side |-> taker.side, price |-> tr.price, qty |-> maker.qty,
   rem |-> taker.rem]

TradeEvent(seq, n, taker, maker, tr) ==
  [type |-> "Trade", seq |-> seq, id |-> taker.id, maker |-> maker.id, trade |-> n,
   status |-> maker.status, side |-> taker.side, price |-> tr.price, qty |-> tr.qty,
   rem |-> taker.rem]

\* A bug the runs notice: a maker with something left is recycled as well.
ReturnAnyMaker(m) == PutOrder(m)

ReturnFilled(m) == IF order[m].status = "Filled" THEN PutOrder(m) ELSE UNCHANGED <<order, pool>>

\* An iteration of emitTrades: a maker that is filled goes back to the pool.
EmitTrade ==
  LET tr == Head(trades)
      m == tr.maker
  IN /\ pc = "emit"
     /\ trades # <<>>
     /\ tradeSeq' = tradeSeq + 1
     /\ Push(TradeEvent(localSeq, tradeSeq', order[subject], order[m], tr))
     /\ trades' = Tail(trades)
     /\ ReturnFilled(m)
     /\ UNCHANGED <<prices, levels, index, inbound, pc, localSeq, subject, verdict, envVars>>

Matched(type) == pc = "emit" /\ trades = <<>> /\ order[subject].type = type

RestRemainder ==
  /\ Matched("Limit") /\ order[subject].rem > 0
  /\ AddOrder(subject)
  /\ Conclude("Accepted")
  /\ UNCHANGED <<pool, inbound, outbound, localSeq, tradeSeq, subject, trades, envVars>>

CancelRemainder ==
  /\ Matched("IOC") \/ Matched("Market")
  /\ order[subject].rem > 0
  /\ order' = [order EXCEPT ![subject].status = "Cancelled"]
  /\ Conclude("Cancelled")
  /\ UNCHANGED <<prices, levels, index, pool, inbound, outbound,
                 localSeq, tradeSeq, subject, trades, envVars>>

\* A FOK order is reported as filled without a look at what remains of it.
Complete ==
  /\ \/ Matched("FOK")
     \/ (\E type \in {"Limit", "IOC", "Market"} : Matched(type)) /\ order[subject].rem = 0
  /\ Conclude("Filled")
  /\ UNCHANGED <<bookVars, pool, inbound, outbound,
                 localSeq, tradeSeq, subject, trades, envVars>>

\* handleCancelOrder, up to its event.
ProcessCancel ==
  /\ PopCommand("cancel")
  /\ LET id == Head(inbound).id
     IN IF index[id] # NoLoc
          THEN /\ CancelOrder(id)
               /\ subject' = index[id].obj
               /\ Conclude("Cancelled")
          ELSE /\ subject' = NoObj
               /\ Conclude("Rejected")
               /\ UNCHANGED bookVars
  /\ UNCHANGED <<pool, outbound, tradeSeq, trades, envVars>>

\* The event that ends every handler, and the return of the order to the pool
\* unless it now rests in the book.
Report ==
  /\ pc = "report"
  /\ Push(OrderEvent(verdict, localSeq, IF subject = NoObj THEN ZeroOrder ELSE order[subject]))
  /\ IF verdict = "Accepted" \/ subject = NoObj
       THEN UNCHANGED <<order, pool>>
       ELSE PutOrder(subject)
  /\ pc' = "idle" /\ subject' = NoObj /\ verdict' = "none"
  /\ UNCHANGED <<prices, levels, index, inbound, localSeq, tradeSeq, trades, envVars>>

EngineStep ==
  \/ ProcessNew \/ ProcessCancel
  \/ Reject \/ RestPostOnly \/ StartMatch
  \/ EnterLevel \/ FillMaker \/ LeaveLevel \/ EndMatch
  \/ EmitTrade \/ RestRemainder \/ CancelRemainder \/ Complete
  \/ Report
-----------------------------------------------------------------------------
\* Both polling goroutines find their rings empty.
PollNothing ==
  /\ pc = "idle" /\ inbound = <<>> /\ outbound = <<>>
  /\ UNCHANGED vars

Next == Submit \/ EngineStep \/ PollEvent \/ PollNothing

Spec == Init /\ [][Next]_vars

\* The engine and the consumer goroutine run for ever; nobody has to submit.
FairSpec == Spec /\ WF_vars(EngineStep) /\ WF_vars(PollEvent)
-----------------------------------------------------------------------------
Statuses == {"none", "New", "Open", "PartiallyFilled", "Filled", "Cancelled", "Rejected"}
Verdicts == {"Accepted", "Filled", "Cancelled", "Rejected"}

OrderRecord ==
  [id : OrderIds \cup {0}, side : Sides \cup {"none"}, type : OrderTypes \cup {"none"},
   price : Prices \cup {0}, qty : Nat, rem : Nat, status : Statuses, seq : Nat]

Event ==
  [type : Verdicts \cup {"Trade"}, seq : Nat, id : OrderIds \cup {0},
   maker : OrderIds \cup {0}, trade : Nat, status : Statuses, side : Sides \cup {"none"},
   price : Prices \cup {0}, qty : Nat, rem : Nat]

BookTypeOK ==
  /\ order \in [Objs -> OrderRecord]
  /\ prices \in [Sides -> Seq(Prices)]
  /\ levels \in [Sides -> [Prices -> Node \cup {NoNode}]]
  /\ index \in [OrderIds -> Location \cup {NoLoc}]

TypeOK ==
  /\ BookTypeOK
  /\ pool \in [Objs -> Nat]
  /\ nextId \in OrderIds \cup {0} /\ cancels \in 0 .. MaxCancels
  /\ inbound \in Seq([kind : {"new"}, obj : Objs, id : {0}]
                     \cup [kind : {"cancel"}, obj : {NoObj}, id : OrderIds])
  /\ outbound \in Seq(Event)
  /\ pc \in {"idle", "new", "match", "fill", "emit", "report"}
  /\ localSeq \in Nat /\ tradeSeq \in Nat
  /\ subject \in Objs \cup {NoObj}
  /\ trades \in Seq([maker : Objs, price : Prices, qty : Nat])
  /\ verdict \in Verdicts \cup {"none"}

\* The orders of a level stand in line by their numbers.
Senior(queue) ==
  \A j, k \in DOMAIN queue : j < k => order[queue[j]].seq < order[queue[k]].seq

(***************************************************************************)
(* Between two commands the book is well formed: sorted slices that list   *)
(* exactly the levels, a cancel index that lists exactly the resting       *)
(* orders, level quantities that are the sum of what their orders have     *)
(* left, and no empty level.  The orders at a price stand in the line in   *)
(* which they came, and no two orders rest that would trade.               *)
(***************************************************************************)
BookConsistent ==
  pc = "idle" =>
    /\ SlicesSorted /\ IndexExact /\ QuantityExact
    /\ \A s \in Sides, p \in Prices : levels[s][p] # NoNode => levels[s][p].orders # <<>>
    /\ \A o \in Resting : order[o].rem > 0
    /\ \A s \in Sides, p \in Prices : levels[s][p] # NoNode => Senior(levels[s][p].orders)
    /\ \A b, a \in Resting : order[b].side = "Buy" /\ order[a].side = "Sell" =>
         order[b].price < order[a].price

(***************************************************************************)
(* Every order object has exactly one owner: the pool, a queued command,   *)
(* the book, the handler, or the list of filled makers about to be         *)
(* published.  No object is recycled while someone still refers to it, and *)
(* none is lost or returned twice.                                         *)
(***************************************************************************)
Owners(o) ==
  pool[o]
  + Cardinality({k \in DOMAIN inbound : inbound[k].obj = o})
  + Cardinality({k \in DOMAIN trades : trades[k].maker = o /\ order[o].status = "Filled"})
  + (IF o \in Resting THEN 1 ELSE 0)
  + (IF o = subject /\ verdict # "Accepted" THEN 1 ELSE 0)

OneOwner == \A o \in Objs : Owners(o) = 1
-----------------------------------------------------------------------------
(* Why these hold: the inductive invariant.                                *)

\* A level is empty only between the last fill and the look at its quantity.
LevelsFilled ==
  \A s \in Sides, p \in Prices : levels[s][p] # NoNode =>
    \/ levels[s][p].orders # <<>>
    \/ pc = "fill" /\ s = Opposite(order[subject].side) /\ p = Best(s)

\* What rests can trade.
RestingOpen ==
  \A o \in Resting :
    /\ order[o].rem > 0 /\ order[o].status \in {"Open", "PartiallyFilled"}
    /\ order[o].type \in {"Limit", "PostOnly"}

\* An object is zeroed in the pool, and outside it is one submitted order.
Identified ==
  /\ \A o \in Objs : pool[o] > 0 => order[o] = ZeroOrder
  /\ \A o \in Objs : pool[o] = 0 =>
       /\ order[o].id \in OrderIds /\ order[o].id <= nextId
       /\ order[o].side \in Sides /\ order[o].type \in OrderTypes
       /\ order[o].type # "Market" => order[o].price \in Prices
       /\ order[o].rem <= order[o].qty /\ order[o].qty \in Qtys
  /\ \A o, m \in Objs : pool[o] = 0 /\ pool[m] = 0 /\ order[o].id = order[m].id => o = m

\* Who holds an object that is not in the pool.
Queued(o) == \E k \in DOMAIN inbound : inbound[k].obj = o
Sold(o) == (\E k \in DOMAIN trades : trades[k].maker = o) /\ order[o].status = "Filled"
InHand(o) == o = subject /\ verdict # "Accepted"

Exclusive ==
  /\ \A o \in Objs :
       /\ pool[o] \in {0, 1}
       /\ pool[o] = 0 <=> Queued(o) \/ Sold(o) \/ o \in Resting \/ InHand(o)
       /\ Queued(o) => ~Sold(o) /\ o \notin Resting /\ ~InHand(o)
       /\ Sold(o) => o \notin Resting /\ ~InHand(o)
       /\ o \in Resting => ~InHand(o)
  /\ \A j, k \in DOMAIN inbound : inbound[j].obj = inbound[k].obj =>
       j = k \/ inbound[j].obj = NoObj
  /\ \A j, k \in DOMAIN trades : trades[j].maker = trades[k].maker => j = k

\* Every maker in the list of trades is filled, except the last when it took
\* all that the taker had left.
MakersFilled ==
  \A k \in DOMAIN trades :
    LET m == trades[k].maker
    IN order[m].status = "Filled"
       \/ (k = Len(trades) /\ m \in Resting /\ order[subject].rem = 0)

\* What the handler gets, and what it holds at each of its steps.
Handler ==
  /\ \A o \in Objs : Queued(o) => order[o].rem = order[o].qty
  /\ pc = "idle" => subject = NoObj
  /\ pc \in {"new", "match", "fill", "emit"} => subject \in Objs
  /\ pc = "report" <=> verdict # "none"
  /\ pc \in {"idle", "new", "report"} => trades = <<>>
  /\ pc = "new" => order[subject].rem = order[subject].qty
  /\ pc = "fill" => prices[Opposite(order[subject].side)] # <<>>
  /\ pc = "report" => (verdict = "Accepted" => subject \in Resting)
  /\ subject = NoObj => verdict \in {"none", "Rejected"}

IInv ==
  /\ TypeOK
  /\ SlicesSorted /\ IndexExact /\ QuantityExact
  /\ LevelsFilled /\ RestingOpen
  /\ Identified /\ Exclusive /\ MakersFilled /\ Handler

\* The order in hand came last.
InTimeOrder ==
  /\ \A s \in Sides, p \in Prices : levels[s][p] # NoNode => Senior(levels[s][p].orders)
  /\ \A o \in Resting : order[o].seq <= localSeq
  /\ pc \in {"new", "match", "fill", "emit"} =>
       order[subject].seq = localSeq /\ \A o \in Resting : order[o].seq < localSeq

\* What the sweep may rely on.
Untraded == order[subject].rem = order[subject].qty

Sweeping ==
  /\ pc \in {"match", "fill", "emit"} => order[subject].type \in {"Limit", "IOC", "Market", "FOK"}
  /\ pc = "fill" /\ order[subject].type = "Limit" =>
       LET opp == Opposite(order[subject].side) IN ~Better(opp, order[subject].price, Best(opp))
  /\ pc = "fill" /\ Untraded => BestNode(subject).orders # <<>>
  /\ pc \in {"match", "fill"} /\ order[subject].type = "FOK" /\ Untraded =>
       CanFillCompletely(subject)
  /\ pc = "emit" => ~Sweeps(subject)

\* Who is reported as filled has nothing left.  An order to be filled or killed
\* meets as much as it wants.
Makers == {trades[k].maker : k \in DOMAIN trades}

Depth(side) ==
  Cardinality(UNION {{p} \X (1 .. levels[side][p].quantity) : p \in ToSet(prices[side])})

Covered ==
  /\ \A m \in Makers : order[m].status = "Filled" => order[m].rem = 0
  /\ pc = "report" /\ verdict = "Filled" => order[subject].rem = 0
  /\ pc \in {"match", "fill", "emit"} /\ order[subject].type = "FOK" =>
       order[subject].rem <= IF pc = "emit" THEN 0 ELSE Depth(Opposite(order[subject].side))

MatchInv == IInv /\ Covered /\ InTimeOrder /\ Sweeping
-----------------------------------------------------------------------------
(***************************************************************************)
(* The engine implements price-time priority matching: through levels,     *)
(* sorted slices, a cancel index and recycled objects, every execution is  *)
(* with the first order of the other side, a Limit or PostOnly order       *)
(* rests only when it crosses nothing, what does not rest leaves only when *)
(* it is filled or has nobody left to trade with, and FOK is all or        *)
(* nothing, by what can be bought or sold at the best MaxDepth prices.     *)
(***************************************************************************)
AsOrder(o) ==
  [id |-> order[o].id, side |-> order[o].side, type |-> order[o].type,
   price |-> order[o].price, qty |-> order[o].qty, rem |-> order[o].rem, seq |-> order[o].seq]

Standing == {AsOrder(o) : o \in Resting}

Taker == IF pc \in {"new", "match", "fill", "emit"} THEN AsOrder(subject) ELSE NoObj

Abstract == INSTANCE Matching WITH Nobody <- NoObj, rest <- Standing, taker <- Taker

ImplementsMatching == Abstract!MatchingSpec

(***************************************************************************)
(* Every command that reaches the inbound ring is processed to its last    *)
(* event, as long as the consumer keeps polling.                           *)
(***************************************************************************)
Answered == IF pc = "idle" THEN localSeq ELSE localSeq - 1

CommandsAnswered ==
  \A n \in 1 .. Cardinality(OrderIds) + MaxCancels :
    (nextId + cancels >= n) ~> (Answered >= n)
-----------------------------------------------------------------------------
(* What comments of the code say and the code does not do.                 *)

(***************************************************************************)
(* types.go on IOC: "fill what crosses, cancel rest"; engine.go on FOK: it *)
(* is filled when there is "enough crossable liquidity".  Neither would    *)
(* ever trade at a price worse than its own.                               *)
(***************************************************************************)
FillsOnlyWhatCrosses ==
  pc \in {"match", "fill", "emit"} /\ order[subject].type \in {"IOC", "FOK"} =>
    \A k \in DOMAIN trades :
      ~Better(order[subject].side, trades[k].price, order[subject].price)
=============================================================================
