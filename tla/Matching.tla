------------------------------ MODULE Matching ------------------------------
(***************************************************************************)
(* What the matching engine promises about the orders of one symbol:       *)
(* price-time priority, without levels, slices, cancel index, pooled       *)
(* objects, rings or events.  A state is the set of orders that rest and   *)
(* the order being handled.  Engine.tla is shown to implement this module. *)
(*                                                                         *)
(* As in the code, a limit binds orders of type Limit and PostOnly, and    *)
(* neither IOC nor FOK orders.                                             *)
(***************************************************************************)
EXTENDS Integers, FiniteSets, FiniteSetsExt

CONSTANTS OrderIds, OrderTypes, Prices, Qtys,
          MaxDepth, \* prices at which a FOK order looks for liquidity
          Nobody    \* no order is being handled

Orders ==
  [id : OrderIds, side : {"Buy", "Sell"}, type : OrderTypes, price : Prices \cup {0},
   qty : Qtys, rem : Qtys, seq : Nat]

VARIABLES rest,     \* the orders in the book
          taker     \* the order being handled

matchingVars == <<rest, taker>>

MatchingInit == rest = {} /\ taker = Nobody

\* Whether price p is better than q for the one who rests at p.
Beats(side, p, q) == IF side = "Buy" THEN p > q ELSE p < q

\* Price first, then time.
Before(a, b) == Beats(a.side, a.price, b.price) \/ (a.price = b.price /\ a.seq < b.seq)

OtherSide(t) == {o \in rest : o.side # t.side}

\* The two limits meet.
Crosses(t, o) == ~Beats(o.side, t.price, o.price)

Tradable(t, o) == t.type = "Limit" => Crosses(t, o)

Exhausted(t) == \A o \in OtherSide(t) : ~Tradable(t, o)

\* What orders have left, counted in units.
Total(orders) == Cardinality(UNION {{o} \X (1 .. o.rem) : o \in orders})

\* The other side's orders at its MaxDepth best prices.
BetterOffers(t, o) == {r.price : r \in {r \in OtherSide(t) : Beats(r.side, r.price, o.price)}}

InSight(t) == {o \in OtherSide(t) : Cardinality(BetterOffers(t, o)) < MaxDepth}

Fillable(t) == t.rem <= Total(InSight(t))
-----------------------------------------------------------------------------
Arrive ==
  /\ taker = Nobody
  /\ taker' \in Orders
  /\ taker'.rem = taker'.qty
  /\ \A o \in rest : o.seq < taker'.seq /\ o.id # taker'.id
  /\ UNCHANGED rest

\* The first order of the other side trades all that both can.  An order to be
\* filled or killed starts only if it can be filled.
Trade ==
  /\ taker # Nobody /\ taker.rem > 0 /\ taker.type # "PostOnly"
  /\ taker.type = "FOK" /\ taker.rem = taker.qty => Fillable(taker)
  /\ \E m \in OtherSide(taker) :
       /\ Tradable(taker, m)
       /\ \A o \in OtherSide(taker) : ~Before(o, m)
       /\ LET q == Min({taker.rem, m.rem})
          IN /\ taker' = [taker EXCEPT !.rem = @ - q]
             /\ rest' = (rest \ {m}) \cup {r \in {[m EXCEPT !.rem = @ - q]} : r.rem > 0}

\* What is left of a limit order rests, once it meets nothing that rests.
Rest ==
  /\ taker # Nobody /\ taker.type \in {"Limit", "PostOnly"} /\ taker.rem > 0
  /\ \A o \in OtherSide(taker) : ~Crosses(taker, o)
  /\ rest' = rest \cup {taker}
  /\ taker' = Nobody

\* An order leaves: it is filled; or it must not rest and there is nobody left
\* to trade with; or, untouched, it may not trade at all.
MayLeave(t) ==
  CASE t.type = "Limit" -> t.rem = 0
    [] t.type \in {"IOC", "Market"} -> t.rem = 0 \/ Exhausted(t)
    [] t.type = "FOK" -> t.rem = 0 \/ (t.rem = t.qty /\ ~Fillable(t))
    [] t.type = "PostOnly" -> \E o \in OtherSide(t) : Crosses(t, o)
    [] OTHER -> t.rem = t.qty

Leave ==
  /\ taker # Nobody /\ MayLeave(taker)
  /\ taker' = Nobody
  /\ UNCHANGED rest

Cancel ==
  /\ taker = Nobody
  /\ \E o \in rest : rest' = rest \ {o}
  /\ UNCHANGED taker

MatchingNext == Arrive \/ Trade \/ Rest \/ Leave \/ Cancel

MatchingSpec == MatchingInit /\ [][MatchingNext]_matchingVars
-----------------------------------------------------------------------------
(***************************************************************************)
(* No two orders rest that would trade with each other.                    *)
(***************************************************************************)
NobodyMissesATrade ==
  \A b \in rest, a \in rest : b.side = "Buy" /\ a.side = "Sell" => b.price < a.price
=============================================================================
