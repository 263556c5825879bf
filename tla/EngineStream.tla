---------------------------- MODULE EngineStream ----------------------------
(***************************************************************************)
(* What a downstream consumer learns from the events it polls.  Engine     *)
(* with a consumer that keeps, from the events alone, a replica of the     *)
(* book, a ledger of executed quantities and its place in the numbering.   *)
(* types.go promises such consumers (risk, persistence, market data) an    *)
(* event "for every state transition".                                     *)
(***************************************************************************)
EXTENDS Engine

CONSTANT NotResting  \* the replica's entry for an order that does not rest

VARIABLES replica,    \* id -> side, price and remaining quantity of a resting order
          executed,   \* id -> quantity executed in trades, as taker or maker
          lastSeq, lastTrade,  \* the last sequence number and trade id seen
          closed      \* has the order event of command lastSeq been seen?

consumerVars == <<replica, executed, lastSeq, lastTrade, closed>>
streamVars == <<vars, consumerVars>>

StreamInit ==
  /\ Init
  /\ replica = [i \in OrderIds |-> NotResting]
  /\ executed = [i \in OrderIds |-> 0]
  /\ lastSeq = 0 /\ lastTrade = 0 /\ closed = TRUE

Now == [replica |-> replica, executed |-> executed, lastSeq |-> lastSeq,
        lastTrade |-> lastTrade, closed |-> closed]

\* What a consumer that knows c makes of the event e.
Reduced(entry, qty) ==
  IF entry.rem = qty THEN NotResting ELSE [entry EXCEPT !.rem = @ - qty]

ReplicaAfter(c, e) ==
  CASE e.type = "Trade" -> [c.replica EXCEPT ![e.maker] = Reduced(@, e.qty)]
    [] e.type = "Accepted" ->
         [c.replica EXCEPT ![e.id] = [side |-> e.side, price |-> e.price, rem |-> e.rem]]
    [] e.type = "Cancelled" -> [c.replica EXCEPT ![e.id] = NotResting]
    [] OTHER -> c.replica

ExecutedAfter(c, e) ==
  IF e.type = "Trade" THEN [c.executed EXCEPT ![e.id] = @ + e.qty, ![e.maker] = @ + e.qty]
  ELSE c.executed

After(c, e) ==
  [replica |-> ReplicaAfter(c, e), executed |-> ExecutedAfter(c, e), lastSeq |-> e.seq,
   lastTrade |-> IF e.type = "Trade" THEN e.trade ELSE c.lastTrade,
   closed |-> e.type # "Trade"]

PollAndApply ==
  /\ PollEvent
  /\ LET c == After(Now, Head(outbound))
     IN /\ replica' = c.replica /\ executed' = c.executed
        /\ lastSeq' = c.lastSeq /\ lastTrade' = c.lastTrade /\ closed' = c.closed

StreamNext ==
  \/ PollAndApply
  \/ (Submit \/ EngineStep \/ PollNothing) /\ UNCHANGED consumerVars

StreamSpec == StreamInit /\ [][StreamNext]_streamVars
-----------------------------------------------------------------------------
(***************************************************************************)
(* A consumer that applies every event has rebuilt the engine's book when  *)
(* it has polled the last event of the last command, and nobody needs to   *)
(* read the book itself.                                                   *)
(***************************************************************************)
BookView ==
  [i \in OrderIds |->
     IF index[i] = NoLoc THEN NotResting
     ELSE LET r == order[index[i].obj] IN [side |-> r.side, price |-> r.price, rem |-> r.rem]]

ReplicaAgrees == pc = "idle" /\ outbound = <<>> => replica = BookView

(***************************************************************************)
(* The stream has no gap and no duplicate: the events of a command follow  *)
(* each other, its trades first and then exactly one order event, the next *)
(* event belongs to the next command, and trade ids count up by one.       *)
(* ("localSeq: intra-symbol sequence; monotone, no gaps", engine.go)       *)
(***************************************************************************)
InSequence(c, e) ==
  /\ e.seq = IF c.closed THEN c.lastSeq + 1 ELSE c.lastSeq
  /\ e.type = "Trade" => e.trade = c.lastTrade + 1

StreamGapless ==
  [][outbound # <<>> /\ PollAndApply => InSequence(Now, Head(outbound))]_streamVars

(***************************************************************************)
(* Whenever an order is reported accepted, filled or cancelled, the        *)
(* quantity reported as done is exactly what the trades published before   *)
(* have added up to, with the order on either side of them.                *)
(***************************************************************************)
Balanced(c, e) ==
  e.type \in {"Accepted", "Filled", "Cancelled"} =>
    /\ c.executed[e.id] = e.qty - e.rem
    /\ e.type = "Filled" => e.rem = 0

LedgerBalances ==
  [][outbound # <<>> /\ PollAndApply => Balanced(Now, Head(outbound))]_streamVars
-----------------------------------------------------------------------------
(* Why these hold: the inductive invariant, about what the consumer will   *)
(* know when it has polled all events that are in the ring.                *)

\* After the first k of them.
Seen[k \in 0 .. Len(outbound)] == IF k = 0 THEN Now ELSE After(Seen[k - 1], outbound[k])

\* The last event is one of the command the engine works on, or the last of the
\* command it is done with.
Numbered(c) ==
  /\ localSeq = IF pc # "idle" /\ c.closed THEN c.lastSeq + 1 ELSE c.lastSeq
  /\ pc = "idle" => c.closed
  /\ tradeSeq = c.lastTrade

\* The replica lags behind by the trades and the order event to come.
Traded(m) == LET k == CHOOSE k \in DOMAIN trades : trades[k].maker = m IN trades[k].qty
Lag(o) == IF o \in Makers THEN Traded(o) ELSE 0

Closing(o) == pc = "report" /\ verdict \in {"Accepted", "Cancelled"} /\ o = subject
Shown(o) == o \in Makers \cup Resting

Mirrored(c) ==
  /\ c.replica = [i \in OrderIds |-> c.replica[i]]
  /\ \A o \in Objs : Shown(o) /\ ~Closing(o) =>
       c.replica[order[o].id] = [side |-> order[o].side, price |-> order[o].price,
                                 rem |-> order[o].rem + Lag(o)]
  /\ \A i \in OrderIds :
       (\A o \in Objs : Shown(o) \/ Closing(o) => order[o].id # i) => c.replica[i] = NotResting

\* And so does the ledger, by the quantities of the trades to come.
Pending == Cardinality(UNION {{m} \X (1 .. Traded(m)) : m \in Makers})
Owed(o) == IF o = subject THEN Pending ELSE Lag(o)

Settled(c) ==
  /\ c.executed \in [OrderIds -> Nat]
  /\ \A i \in OrderIds : i > nextId => c.executed[i] = 0
  /\ \A o \in Objs : pool[o] = 0 =>
       c.executed[order[o].id] + Owed(o) = order[o].qty - order[o].rem

StreamInv ==
  /\ MatchInv
  /\ Numbered(Seen[Len(outbound)])
  /\ Mirrored(Seen[Len(outbound)])
  /\ Settled(Seen[Len(outbound)])
  /\ \A k \in 1 .. Len(outbound) :
       InSequence(Seen[k - 1], outbound[k]) /\ Balanced(Seen[k - 1], outbound[k])
=============================================================================
