----------------------------- MODULE OrderBook ------------------------------
(***************************************************************************)
(* pkg/orderbook: the resting orders of one symbol.  The book is private   *)
(* to the engine goroutine; this module gives its state, its operations as *)
(* actions on that state, and what makes a book well formed.  Engine.tla   *)
(* says when the operations are called.                                    *)
(*                                                                         *)
(* Orders are objects in memory (types.Order), recycled through a pool, so *)
(* the book holds references: order maps each object to its fields.        *)
(***************************************************************************)
EXTENDS Integers, Sequences, FiniteSets, SequencesExt

CONSTANTS Objs,      \* the types.Order objects in memory
          OrderIds,  \* order identifiers, all positive; 0 is the zeroed field
          Prices,    \* limit prices, all positive; 0 means no price
          NoNode,    \* no entry in the map of price levels
          NoLoc,     \* no entry in the cancel index
          MaxDepth   \* price levels the FOK pre-check looks at, 4096 in the code

Sides == {"Buy", "Sell"}
Opposite(side) == IF side = "Buy" THEN "Sell" ELSE "Buy"

\* priceNode and orderLoc.
Node == [quantity : Nat, orders : Seq(Objs)]
Location == [side : Sides, price : Prices, obj : Objs]

ASSUME BookAssumption ==
  /\ OrderIds \subseteq Nat \ {0}
  /\ Prices \subseteq Nat \ {0}
  /\ MaxDepth \in Nat \ {0}
  /\ NoNode \notin Node
  /\ NoLoc \notin Location

VARIABLES order,    \* the fields of each object
          prices,   \* bidPrices and askPrices, the best price first
          levels,   \* bids and asks: price -> priceNode
          index     \* orders: order id -> where it rests

bookVars == <<order, prices, levels, index>>

ZeroOrder == [id |-> 0, side |-> "none", type |-> "none", price |-> 0,
              qty |-> 0, rem |-> 0, status |-> "none", seq |-> 0]

BookInit ==
  /\ order = [o \in Objs |-> ZeroOrder]
  /\ prices = [s \in Sides |-> <<>>]
  /\ levels = [s \in Sides |-> [p \in Prices |-> NoNode]]
  /\ index = [i \in OrderIds |-> NoLoc]
-----------------------------------------------------------------------------
(* The sorted price slices: bids descending, asks ascending.               *)

Better(side, p, q) == IF side = "Buy" THEN p > q ELSE p < q

\* Where sort.Search finds p, or where p belongs.
PricePosition(side, p) ==
  1 + Cardinality({i \in DOMAIN prices[side] : Better(side, prices[side][i], p)})

InsertPrice(side, p) ==
  [prices EXCEPT ![side] = InsertAt(@, PricePosition(side, p), p)]

\* A bug the runs notice: the level is deleted and its price is not.
KeepPrice(side, p) == prices

RemovePrice(side, p) ==
  LET i == PricePosition(side, p)
  IN IF i \in DOMAIN prices[side] /\ prices[side][i] = p
       THEN [prices EXCEPT ![side] = RemoveAt(@, i)]
       ELSE prices

\* BestBid and BestAsk.
Best(side) == IF prices[side] = <<>> THEN 0 ELSE prices[side][1]
-----------------------------------------------------------------------------
(* The operations.                                                         *)

\* A bug the runs notice: a new order goes to the front of its level.
EnqueueFirst(orders, o) == <<o>> \o orders

\* PushBack on the level's list.
Enqueue(orders, o) == Append(orders, o)

AddOrder(o) ==
  LET r == order[o]
      new == levels[r.side][r.price] = NoNode
      node == IF new THEN [quantity |-> 0, orders |-> <<>>] ELSE levels[r.side][r.price]
  IN /\ order' = [order EXCEPT ![o].status = "Open"]
     /\ prices' = IF new THEN InsertPrice(r.side, r.price) ELSE prices
     /\ levels' = [levels EXCEPT ![r.side][r.price] =
                     [quantity |-> node.quantity + r.rem, orders |-> Enqueue(node.orders, o)]]
     /\ index' = [index EXCEPT ![r.id] = [side |-> r.side, price |-> r.price, obj |-> o]]

\* Where an object is in a level's list: loc.element.
Element(orders, o) == CHOOSE k \in DOMAIN orders : orders[k] = o

\* Of an order that is in the index.
CancelOrder(id) ==
  LET loc == index[id]
      o == loc.obj
      node == levels[loc.side][loc.price]
      rest == RemoveAt(node.orders, Element(node.orders, o))
  IN /\ order' = [order EXCEPT ![o].status = "Cancelled"]
     /\ index' = [index EXCEPT ![id] = NoLoc]
     /\ IF rest = <<>>
          THEN /\ levels' = [levels EXCEPT ![order[o].side][loc.price] = NoNode]
               /\ prices' = RemovePrice(order[o].side, loc.price)
          ELSE /\ levels' = [levels EXCEPT ![loc.side][loc.price] =
                               [quantity |-> node.quantity - order[o].rem, orders |-> rest]]
               /\ UNCHANGED prices

\* Match: the condition of the sweep over the price levels.  Only an order of
\* type Limit has its price compared with the level's.
Sweeps(t) ==
  LET r == order[t]
      opp == Opposite(r.side)
  IN /\ r.rem > 0
     /\ prices[opp] # <<>>
     /\ r.type = "Limit" => ~Better(opp, r.price, prices[opp][1])

\* fillLevel works on the best level of the other side.
BestNode(t) ==
  LET opp == Opposite(order[t].side) IN levels[opp][prices[opp][1]]

FillsLevel(t) == order[t].rem > 0 /\ BestNode(t).orders # <<>>

\* A bug the runs notice: the taker's remainder, however little the maker has.
WholeRemainder(t, m) == order[t].rem

MatchQuantity(t, m) == IF order[t].rem < order[m].rem THEN order[t].rem ELSE order[m].rem

\* One iteration of fillLevel: the oldest maker m of the level trades quantity q.
Fill(t, m, q) ==
  LET opp == Opposite(order[t].side)
      p == prices[opp][1]
      node == BestNode(t)
      filled == order[m].rem = q
  IN /\ FillsLevel(t)
     /\ m = Head(node.orders)
     /\ q = MatchQuantity(t, m)
     /\ order' = [order EXCEPT ![t].rem = @ - q,
                               ![m].rem = @ - q,
                               ![m].status = IF filled THEN "Filled" ELSE "PartiallyFilled"]
     /\ levels' = [levels EXCEPT ![opp][p] =
                     [quantity |-> node.quantity - q,
                      orders |-> IF filled THEN Tail(node.orders) ELSE node.orders]]
     /\ index' = IF filled THEN [index EXCEPT ![order[m].id] = NoLoc] ELSE index
     /\ UNCHANGED prices

\* A bug the runs notice: an exhausted level stays.
KeepLevel(t) == UNCHANGED bookVars

\* Back in Match after fillLevel: drop the level if nothing is left of it.
PruneBest(t) ==
  LET opp == Opposite(order[t].side)
      p == prices[opp][1]
  IN /\ IF BestNode(t).quantity = 0
          THEN /\ levels' = [levels EXCEPT ![opp][p] = NoNode]
               /\ prices' = [prices EXCEPT ![opp] = Tail(@)]
          ELSE UNCHANGED <<levels, prices>>
     /\ UNCHANGED <<order, index>>

\* The taker's status at the end of Match.
StatusAfterMatch(r) ==
  IF r.rem = 0 THEN "Filled" ELSE IF r.qty > r.rem THEN "PartiallyFilled" ELSE r.status

\* The prices of a depth snapshot.
Snapshot(side) ==
  {prices[side][i] : i \in {i \in DOMAIN prices[side] : i <= MaxDepth}}

\* canFillCompletely: the loop over a snapshot of the other side's levels, whose
\* quantities are added up unit by unit.  Its comparison of prices is for type
\* Limit and it is called for type FOK alone, so every level counts.
Liquidity(side) ==
  Cardinality(UNION {{p} \X (1 .. levels[side][p].quantity) : p \in Snapshot(side)})

CanFillCompletely(t) == Liquidity(Opposite(order[t].side)) >= order[t].rem

\* wouldCross, for PostOnly.
WouldCross(t) ==
  LET opp == Opposite(order[t].side)
  IN Best(opp) > 0 /\ ~Better(opp, order[t].price, Best(opp))
-----------------------------------------------------------------------------
(* Well-formed books.                                                      *)

Resting == {index[i].obj : i \in {i \in OrderIds : index[i] # NoLoc}}

\* The slice holds the prices that have a level, best first.
SlicesSorted ==
  \A s \in Sides :
    /\ ToSet(prices[s]) = {p \in Prices : levels[s][p] # NoNode}
    /\ \A i, j \in DOMAIN prices[s] : i < j => Better(s, prices[s][i], prices[s][j])

\* The cancel index and the levels list the same objects, each once.
IndexExact ==
  /\ \A i \in OrderIds : index[i] # NoLoc =>
       LET loc == index[i]
       IN /\ levels[loc.side][loc.price] # NoNode
          /\ loc.obj \in ToSet(levels[loc.side][loc.price].orders)
          /\ order[loc.obj].id = i
  /\ \A s \in Sides, p \in Prices : levels[s][p] # NoNode =>
       LET queue == levels[s][p].orders
       IN /\ IsInjective(queue)
          /\ \A o \in ToSet(queue) :
               /\ order[o].id \in OrderIds
               /\ index[order[o].id] = [side |-> s, price |-> p, obj |-> o]
               /\ order[o].side = s /\ order[o].price = p

\* A level's quantity is what its orders still have to trade, counted in units.
UnitsLeft(queue) == UNION {{o} \X (1 .. order[o].rem) : o \in ToSet(queue)}

QuantityExact ==
  \A s \in Sides, p \in Prices : levels[s][p] # NoNode =>
    levels[s][p].quantity = Cardinality(UnitsLeft(levels[s][p].orders))
=============================================================================
