# Verification of the oktrading matching engine

TLA+ models of the engine in `src/`, TLC runs that check them on small
instances, and TLAPS proofs of the parts that have to hold at every size.

## The system

Every symbol has an engine: one goroutine that owns an order book, takes
commands from an inbound ring and publishes events to an outbound ring.

```
 gateway / clients ──commands──▶ mpsc.Ring ──▶ Engine.run ──▶ offheap.EventRing ──events──▶ consumer
  (many goroutines)                            OrderBook                                 (one goroutine)
         ▲                                        │
         └──────────── pool.orderPool ◀───────────┘  order objects, recycled
```

| component | state | operations | what is hard | what makes it correct |
|---|---|---|---|---|
| `pkg/mpsc` | cursor, tail, slots with lap numbers | TrySubmit, Submit, TryPop | lock-free; producers race, publish out of order, decide on stale loads | exactly once, in claim order, never two goroutines in one slot |
| `pkg/offheap` | head, tail, a slab of 128-byte slots | Push…, TryPop | the engine decides on a stale tail; copies are not atomic; pushes block | events whole, once, in order; pushes return |
| `pkg/orderbook` | sorted price slices, levels, cancel index | Match, AddOrder, CancelOrder, Snapshot | four structures that must agree after any sequence of calls | well formed, uncrossed, price-time priority |
| `pkg/engine` | the book, two sequence counters | six order types, cancel, Start, Stop | blocks inside a handler, publishes after the fact, recycles objects | all-or-nothing FOK, gap-free stream, every command answered |
| `pkg/pool` | free objects | Get, Put | objects recycled while others still refer to them | one owner at a time |
| `pkg/gateway` | order counter, token buckets | PlaceOrder, CancelOrder | clock read outside the lock; refusal after side effects | rate bound, honest errors |
| `pkg/shard` | map of engines, counter | GetOrCreate, Submit, StopAll | racing creators, stop during creation | one running engine per symbol |
| `pkg/disruptor` | head, tail, slots of pointers | TryPush, Push, TryPop, Pop, Len | a third goroutine asks for the length while both ends move | once, in order; an honest length |
| `cmd/stress`: histogram | buckets, count, sum, maximum | Record, Percentile, Merge | each a step of its own, read meanwhile | exact maximum, a percentile that brackets its rank, a merge that loses nothing |
| `cmd/stress`: driver | counters, deadline, two rings and a book | warm-up, makers, takers, consumer, report | submits without draining; the consumer leaves before the producers | it ends, and its counts add up |
| `cmd/engine` | consumer, deadline | goroutines that call the gateway, a consumer, StopAll | the consumer leaves when StopAll is called | stopping ends |
| `pkg/sequencer`, `pkg/affinity` | a counter; – | Next, Peek; system call | | |

## Modules

| module | models | builds on |
|---|---|---|
| `BoundedFifo` | what a ring promises: a FIFO queue of at most N elements | |
| `Mpsc` | `pkg/mpsc/ring.go`, one action per shared access | instantiates `BoundedFifo` |
| `MpscBackpressure` | `Mpsc` with a history of whether the ring was full during a call | `Mpsc` |
| `EventRing` | `pkg/offheap/ring.go`, one action per shared access | instantiates `BoundedFifo` |
| `Disruptor` | `pkg/disruptor/ring_buffer.go`, one action per shared access | instantiates `BoundedFifo` |
| `Matching` | what the engine promises: price-time priority over a set of orders | |
| `OrderBook` | `pkg/orderbook`, and the two read-only checks of the engine | |
| `Engine` | `pkg/engine` between submitters, consumer and pool | `OrderBook`, instantiates `Matching` |
| `EngineStream` | `Engine` and a consumer that keeps a book and a ledger from events | `Engine` |
| `Exchange` | `pkg/shard`, the life cycle of engines, the calls of `pkg/gateway` into them, the consumer of `cmd/engine` | |
| `RateLimiter` | the token bucket of `pkg/gateway` | |
| `Histogram` | `cmd/stress/histogram.go`, one action per atomic operation | |
| `Stress` | `cmd/stress/main.go` around one engine | |
| `CommonLemmas`, `MpscProofs`, `EventRingProofs`, `DisruptorProofs`, `EngineProofs` (also of `EngineStream` and `Matching`), `ExchangeProofs`, `StressProofs` (of `Stress` and `Histogram`), `RateLimiterProofs` | proofs | |
| `MCMpsc`, `MCEngine`, `MCEngineStream`, `MCExchange` | symmetry, constraints and instances for TLC | |

The rings are modelled at the grain of single memory accesses and shown to
implement `BoundedFifo`; the engine is then modelled over two bounded FIFO
queues, so that its state space is spent on the engine. `Exchange` has several
engines of which it keeps only what their life cycle depends on: a command is
processed to one event, whatever it does to a book.

### Mpsc

`cursor`, `tail`, `lap` and `slot` are the fields of `Ring`; `pc`, `cmd` and `cur`
are a producer's position inside `TrySubmit`, its argument and the cursor it
loaded; `cpc` and `got` are the consumer's in `TryPop`. `LoadCursor`, `CheckFull`
(the load of the tail with the comparison), `Claim` and `LostRace` (the two ways
the compare-and-swap ends), `WriteSlot`, `Publish`; `PollEmpty`, `PollReady`,
`ReadSlot`, `ClearSlot`, `Advance`. `Full` keeps the unsigned subtraction of the
code: a tail larger than the loaded cursor looks like a full ring. `claimed` and
`popped` are history. Counters are natural numbers; a wrap after 2^64 commands is
not modelled. A producer is `Spinning` (Submit, and the loops of `cmd/stress`) or
takes a refusal for an answer (the gateway).

### EventRing

A slot is a pair, one component per cache line of `RawEvent`; the engine zeroes it,
writes one line and then the other, and the consumer copies them one by one. The
slab starts with arbitrary contents, as `malloc` leaves it. The names of the fields
are abstracted; the order within a cache line cannot be told apart by any property.

### OrderBook and Engine

`prices`, `levels` and `index` are `bidPrices/askPrices`, `bids/asks` and `orders`,
with the two sides as one function. `order` maps each object in memory to its
fields, so that aliasing and recycling are visible. A binary search is modelled by
the position it finds. The engine's `pc` says where `process` is: `new` (the switch
on the type), `match` and `fill` (the loops of `Match` and `fillLevel`, one
action per iteration), `emit` (`emitTrades`, one action per trade: it may block
on the ring in between), `report` (the last event and the return of the order).
`pool` counts how often an object is in the pool, so that a double return shows.

Abstracted: symbols (an engine has one), users and `ClientOID` (the engine
does not read them), timestamps, reasons of rejections. The number of levels that the
FOK pre-check looks at, 4096 in the code, is `MaxDepth`. Orders enter with `Remaining = Quantity > 0`, as every client of the
repository sets them (the gateway does not check `Remaining`), with unique
identifiers, as the gateway's counter gives them.

### Matching

The abstract side of the engine: the set of resting orders and the order being
handled, without levels, slices, cancel index, list positions, pooled objects, rings or
events. `Trade` is one execution, with the order that is first by price and then by
sequence number; `Rest`, `Leave` and `Cancel` say when an order may end up in
the book or go. The mapping in `Engine` takes the resting objects to `rest` and
the handler's order, from the switch on its type to its last trade event, to `taker`.
An order in the book keeps the sequence number the engine stamped on it, so time
priority is stated by numbers here and kept by list positions there. A FOK order
starts to trade only when the resting orders at the `MaxDepth` best prices can fill it,
told from the orders here and from the levels' quantities there, and leaves only untouched
or filled. As in the code, the limit of IOC and FOK orders binds nobody (see below).

### EngineStream

The consumer knows nothing but the events: it removes an order from its replica
when trades have used it up, adds what is reported accepted, and sums executed
quantities per order. It is the downstream consumer that `types.Event` is for. What
it makes of an event is `After`, and `Seen[k]` is what it will know after the first `k` of
the events in the ring: the invariant `StreamInv` compares the last of these with the
engine. It includes `MatchInv`, the invariant that the refinement of `Matching` rests on.

### Exchange

`engines` and `count` are the manager's map and counter; `pc` is a call's position in
`PlaceOrder` → `GetOrCreate` → `TrySubmit` or `CancelOrder` → `Get` → `TrySubmit`, with
one action per access to the map (`Load`, `LoadOrStore`, `Get`), for `Start`, for the
counter and for the steps of `TrySubmit`: `ReadNumber` loads the cursor, `Claim` wins a
number and `Publish` publishes it. `Refuse` is possible on a full ring and, as in
`MpscBackpressure`, when the engine has passed the number that was read (`number` counts down
to 0). A call of `Loops` that is over may be made again, for ever (`Again`), with the symbol it had and
when its earlier command has left its engine: one command per caller is in the
system. Callers of the same goroutine (`After`) take turns. An engine is named by the call whose
candidate it is, which stays the same when that call is made again, since the map never
loses an engine. `run` is where its
goroutine is: `made` (not started), `poll`, `process` (which waits for room in the
outbound ring), `look` (at quit, after `QuitPeriod` empty polls in a row) or
`exited`. `StopAll` visits the map entry by entry (`Visit`) while others add to it,
closes each quit channel in a goroutine of its own (`CloseQuit`) and waits
(`Stopped`). The inbound ring is a queue with a published flag per entry. One consumer
polls all engines, as the one of `cmd/engine/main.go:49` does, until it leaves at its deadline
(`ConsumerLeaves`), which may be before, during or after `StopAll`, or never.

### RateLimiter

`tokens` and `lastTime` are the fields of `tokenBucket`. `allow` is two actions, because
the clock is read before the lock is taken: `ReadClock`, then `Admit` or `Refuse`.
A tick of the clock refills one unit, an order costs `Cost` units and the bucket holds
`Max`; the rounding of `float64` is not modelled, and the clock does not run
backwards. `ideal` is a bucket, charged for the same admissions, that reads the clock
under the lock: what the code would be without that race.

### Disruptor

As `EventRing`, with one atomic pointer per slot. `spins` tells `Push`, which tries
again, from `TryPush`, which gives up. `Len` is two loads by a third goroutine; `ltail`
is the tail at the time of the first, which the code does not know and the property
needs.

### Histogram

Each of the atomic operations of `Record` is an action, with the load and the
compare-and-swap of the loop apart. `Percentile` takes the count first and then a
bucket at a time. A percentile p is the rank it stands for: every rank below the count
is tried. The program reads percentiles of the merged histogram alone and has one
recorder per histogram; the model lets several goroutines record into one and a reader
come at any time, as the comment in `histogram.go:16` promises. `Merge` is one action,
taken when all recorders are done, as `main` does after `wg.Wait`; merging while others
record is not promised to be exact. Sums do not wrap.

### Stress

One symbol, since symbols share only counters. `phase` is where `main` and the
warm-up are, `clock` is before the deadline, after it, or 500 ms after it; `prod` is each
maker's and taker's position, `consumer` the consumer's. All orders are one lot,
asks lie above the mid price and bids below, and a taker trades at any price, so a book
is the number of orders on each side, and the engine answers an order with one
event, or two when it trades. `Place` is the submission and the counting of it; a
maker or taker whose ring is full waits there, without a look at the clock, as the
loops around `TrySubmit` do. The names of its specification begin with `Driver`, so that one
proof module can extend it and `Histogram`, two parts of one program.

## Runs

| run | bounds | checks |
|---|---|---|
| `Mpsc` | 3 producers (2 spinning), 4 commands, 2 slots | `IInv`, `NoSlotRace`, `DeliveredInClaimOrder`, `PublishedIntact`, `RefusedWhenFullOrOvertaken`, `ImplementsFifo`, `ImplementsFairFifo`, `SpinningIsProductive` |
| `MpscSpurious` | 5 commands, with symmetry | `RefusedOnlyWhenFull` is violated |
| `EventRing` | 5 pushes of 2 kinds of events, 2 slots | `IInv`, `NoSlotRace`, `EventsWhole`, `ImplementsFairFifo`, `PushReturns` |
| `EngineBook` | 4 orders, 1 cancel, 2 prices, 2 quantities; Limit, IOC, FOK, PostOnly; snapshot of 1 level | `BookConsistent`, `ImplementsMatching` |
| `EngineStream` | 3 orders in 2 objects, 1 cancel, all types, rings of 1 | `StreamInv`, `OneOwner`, `ReplicaAgrees`, `StreamGapless`, `LedgerBalances` |
| `EngineLive` | 2 orders, 1 cancel, rings of 1, no symmetry | `CommandsAnswered` |
| `EngineLimits` | 2 orders | `FillsOnlyWhatCrosses` is violated |
| `Exchange` | 2 orders and a cancel that is made again and again, by 2 goroutines, 2 symbols, inbound ring of 2, outbound ring of 1, look at quit every 2 empty polls | `IInv`, `OneEnginePerSymbol`, `ShardsCounted`, `StopDrains`, `AcceptedIsProcessed`, `StopReturns` |
| `RateLimiter` | 3 callers, 2 units per token, a bucket of 4, 6 ticks | `IInv`, `EveryWindowBounded`, `FreshCallsServed` |
| `Histogram` | 2 recorders, 2 histograms of 3 buckets, 3 samples, a reader | `IInv`, `PercentileBracketed`, `MergedExact`, `RecordReturns` |
| `Stress` | 1 maker, 2 takers, 4 orders, rings of 2, depths 2 and 3 | `ReportAccounts`, `WarmupEndsIffItFits`, `WorkEnds` |
| `Disruptor` | 5 pushes of 2 items, 2 slots, a caller of `Len` | `IInv`, `LenHonest`, `ImplementsFairFifo` |

Why the bounds are enough. Two slots and four or five items make every slot be
reused, with producers and consumer on different laps at once; the
algorithm sees a sequence number only through its slot and its lap. In the book,
two prices per side give sweeps over a level boundary and a level that empties and
returns; four orders give two makers at one level, a taker, and an order that meets
what the taker left; quantities 1 and 2 give exact, partial and multiple fills.
`EngineBook` submits a command when the previous one is done (its properties do not
depend on when the consumer polls; `EngineStream` drops that constraint) and, since
sides mirror each other, looks at histories whose first order buys. Its snapshot of one
level hides the second price from FOK orders; the other runs show them the whole book. `EngineStream`
has fewer objects than orders, so that objects are recycled, and event rings so small
that the engine blocks between any two events. `MaxCancels` and `OrderIds` bound the
number of commands, `MaxPush` the number of events, `Cmds` the number of submissions.
In `Exchange` two orders race for one symbol or work on two, the cancel comes from the
goroutine of the first order, and with the ring of two they can fill it; a period of
two is the shortest in which a command can come between empty polls. One call that is
made again and again is enough to keep an engine from two empty polls in a row for ever. In
`RateLimiter` a full bucket is two orders, and `MaxClock` leaves time to empty and fill
it and for readings that are old by more than a token. `Histogram` has two recorders that race
for one maximum or work apart, samples in each bucket, one of them clamped; `Stress` has
a depth that fits the rings and one that does not, and as many producers as it takes to
fill both rings after the consumer has left; `MaxSamples` and `MaxOrders` bound how much
is recorded and submitted.

Deadlock is checked in every run but `Exchange`, which comes to rest when
each caller's last command is over, or left with an engine that has exited or waits for a consumer
that is gone, `Histogram`, which ends when everything is merged, and
`Stress`, which ends with the report (or hangs, which its liveness properties are about).
In the others an empty poll or the next
call is a step of the system, so a state without a successor would be a real one.

Fairness. `Mpsc`: the scheduler resumes every producer inside a call and the engine
keeps polling (`WF` on each producer's steps and on the consumer's). Nobody has to
call. `EventRing` and `Engine`: the engine's goroutine keeps running and the consumer
keeps polling; nobody has to submit. `cmd/stress` and `cmd/engine` have such a
consumer while they run; what happens when it stops is a hazard of its own: `Stress` and `Exchange` have a consumer that leaves.
`Exchange`: goroutines inside a call or inside
`StopAll` and the engines run on, and the consumer polls every engine while it stays,
also those being stopped. Nobody has to call, to call again or to stop calling, and the consumer
may leave or not: what that means for stopping is in the statement of `StopReturns` and not
assumed. `Histogram`: a goroutine inside `Record` runs on.
`Stress`: every goroutine is scheduled and time passes. `Disruptor`: as `EventRing`.
No strong fairness is assumed: a producer may lose the compare-and-swap race for ever,
and `SpinningIsProductive` promises only that then others succeed.

## What the runs found

- `TrySubmit` can refuse a command on a ring that was never full during the call,
  even on an empty one (`mpsc/ring.go:100`): the consumer overtakes the cursor the
  producer loaded, and the unsigned difference wraps around. The comment at line 93
  says a refusal means full. `RefusedWhenFullOrOvertaken` is what does hold: a refused
  caller met a full ring, or its number has meanwhile been claimed by another
  producer and consumed. Harmless for `Submit`, which retries; the gateway reports
  `ErrBufferFull`.
- IOC orders ignore their price limit (`orderbook.go:117` and `132` compare prices for
  type Limit only), against "fill what crosses, cancel rest" (`types.go:31`).
- The FOK pre-check counts all liquidity, crossable or not (`engine.go:325`, `335`),
  against its comment; the order is then filled beyond its limit. It is filled in
  full, though, as `Matching` says. Both are seen in `EngineLimits`.
- The warm-up of the stress driver ends exactly when twice the depth is at most what the
  two rings hold, and one (`WarmupEndsIffItFits`); with a greater `-depth` it hangs.
- After the deadline the driver may hang as well: the consumer leaves at its first empty
  poll, and when the engine then fills the event ring, a producer that waits for
  room in the inbound ring waits for ever (`WorkEnds` without its exception does not hold).
- `StopAll` need not return. `run` looks at quit after 16384 empty polls in a row and
  starts to count anew with every command (`engine.go:168` to `183`), so an engine that is
  given commands often enough is never stopped; and an engine that waits for room in its outbound
  ring looks at nothing. The one caller of `StopAll`, `cmd/engine/main.go:134`, calls it when its
  consumer's deadline comes, too (line 53): if an engine has, or is given, more events than its ring
  takes, `main` does not end (the dozen orders of the demo are far fewer). `StopReturns` says that there is no third reason. TLC refutes
  it without either exception (with the first left out, one caller that goes on keeps
  an engine busy for ever; with the second, the consumer leaves before the second event),
  and `AcceptedIsProcessed` without either of its two.

`StopDrains` says exactly what stopping promises: what was accepted before `StopAll` is
processed, except for a command whose publication, or the publication of one claimed
before it, came after the engine's last empty poll. It speaks of the engines that were
registered before the call; one that is registered during `Range` may be missed, and runs on.

More divergences are visible by reading and are not runs:

- `ActiveCount` "returns the number of currently running engine shards"
  (`shard/manager.go:118`), but nothing lowers the counter when an engine exits.
  `ShardsCounted` is what does hold: apart from creators on their way to the counter, it
  is the number of shards in the map.
- A cancel that meets a full inbound ring is answered `ErrSymbolNotFound`
  (`gateway/gateway.go:110`), as if the symbol had no engine.
- `pool.go:9` says the consumer returns orders to the pool, while the engine does
  (`engine.go:361`, and after every terminal event); `types.go:124` says
  `EvtOrderFilled` is for partial fills too, while it is published for complete ones only.
- `types.go:115` says of a command's `UserID` that it is "used for cancel authorisation".
  `CancelOrder` sets it (`gateway.go:107`), and neither the engine nor the book reads it: a cancel
  is decided by the order's number alone, in the code and in `Engine`.
- The header of `cmd/stress/main.go` (lines 17 to 20) tells of a cancel goroutine, which
  does not exist, and of a book that never runs dry, which takers can empty;
  the "interrupt handler for early exit" (line 191) prints and stops nothing.

## Proofs

The proof modules prove, for every number of producers, commands, events, items, slots,
recorders, samples, orders, objects, prices, calls, symbols, makers, takers and callers, and for
every rate, burst and depth:

- `Spec => []IInv`, the inductive invariant, of which `TypeOK` is a part, for the three
  rings, the engine with its book, the exchange, the histogram and the token bucket, and
  `DriverSpec => []DriverInv` for the stress driver;
- `Spec => []NoSlotRace`, `[]PublishedIntact`, `[]DeliveredInClaimOrder` and
  `[]RefusedWhenFullOrOvertaken` for the command ring; `[]NoSlotRace` and `[]EventsWhole`
  for the event ring; `[]LenHonest` for the ring of pointers;
- `Spec => ImplementsFifo` for all three rings: each step is a step of `BoundedFifo`
  or changes nothing in it;
- `Spec => []BookConsistent` for the engine and `StreamSpec => []OneOwner` for the engine
  with its consumer: the four structures of the book agree between commands, the orders of
  a level stand in the line in which they came, and an order
  object is in one place at a time, never pooled twice and never pooled while it rests,
  waits, is handled or is named by a trade that is still to be published;
- `StreamSpec => StreamGapless`, `LedgerBalances` and `[]ReplicaAgrees` for the event
  stream: no number is skipped or repeated, what an order is reported to have done is what
  its trades add up to, FOK orders reported filled have nothing left, and the book
  rebuilt from the events is the engine's;
- `Spec => ImplementsMatching` for the engine: every step of a handler is a step of
  `Matching` or changes nothing in it, so each execution is with the order that is first by
  price and time, for any number of levels, orders and units;
- `MatchingSpec => []NobodyMissesATrade` for the abstract matching, and with it, as part of
  `BookConsistent`, for the engine: a book is never crossed, whatever mix of order
  types, partial fills and cancels led there;
- `Spec => []OneEnginePerSymbol`, `[]ShardsCounted` and `[]StopDrains` for the exchange;
- `Spec => []PercentileBracketed` and `[]MergedExact` for the histogram;
- `DriverSpec => []ReportAccounts` and `[]OnlyWhatFitsIsPlaced`, the safety half of
  `WarmupEndsIffItFits`, for the driver;
- `Spec => []EveryWindowBounded` and `Spec => FreshCallsServed` for the token bucket.

The safety properties are not inductive. What carries them, for the command ring:
the cursor is never more than `Cap` ahead of the tail (`Bounds`); that needs a bound
on what a producer may still claim after it has checked a tail that has moved since
(`MayClaim`: if the compare-and-swap can succeed at all, the cursor is still the
one that was checked, and the tail can only have grown). A claimed number is in the
hands of exactly one producer (`Claims`) or published (`Published`), and a lap found
in a slot belongs to a number that was claimed (`LapsClaimed`), so the consumer's
comparison of laps cannot be fooled by an older round; hence what it reads is the
command claimed under its tail (`ConsumerReady`, `Delivered`). Two numbers less than
a lap apart have different slots (`CommonLemmas`), which turns statements about numbers
into statements about slots. For the event ring the argument is the same with one
producer: its stale tail is never larger than the real one (`Producing`). The ring of
pointers is the event ring with one word per slot; what `Len` answers follows from the
counters only growing (`Measuring`). `CommonLemmas` also has what the three refinements
share: how the window between tail and head changes when either advances.

That a refusal means a full ring or a lost number (`RefusalMeans`) needs the history
variable and one more fact: what a producer saw when it loaded the cursor can only be
overtaken by others claiming its number and the consumer reading it.

For the engine the book's structures are tied together one pair at a time. `SlicesSorted`:
a side's slice is sorted and holds exactly the prices that have a level. `IndexExact`: the
cancel index points to exactly the orders in the levels' lists, each once, at
its own side and price. `QuantityExact`: a level's quantity is the number of units left in
its orders. That sum is written as the cardinality of a set of pairs of an order and a
unit, so that adding, filling and removing an order are statements about finite sets and
need no induction. Sorting rests on lemmas about the positions at which a slice is cut
(`Position`, `InsertedAt`, `RemovedAt`). In the middle of a command the book is well
formed but for the best level of the other side, which `LevelsFilled` allows to be empty
while `Match` is about to prune it. Ownership is not inductive without the handler's
state: `Handler` says for each `pc` where the order in hand is (not yet resting, on its way
to the ring or the pool) and that orders waiting in the ring are untouched, `MakersFilled`
that what pending trades name is either still resting or completely filled and not
yet returned, `Identified` that no two live objects carry one identifier, and
`Exclusive` adds up the places an object can be in.

The refinement of `Matching` needs to know why the head of the best level's list is the
order that is first by price and time. By price, since slices are sorted and `Best` is
their first; by time, because of `InTimeOrder`: the numbers along each list grow, and
the order in hand has the largest of all. A cancel or a fill takes one position out of a
list and an arrival goes to its end, so the lists stay in line (`AlignedWith`,
`Shortened`). What `Match` has checked
before `fillLevel` runs is gone from the code's state, and `Sweeping` keeps it: the price of
the level is met, a FOK order that has not traded yet can be filled, and when the sweep is over
nothing of the other side is left that it would trade with. That the pre-check over
levels is the check over orders of `Matching` compares two sums, one by price and one by
order: both are numbers of units, and units of orders go to units of their levels one to
one (`UnitsByKey`, `FillableIs`); levels the pre-check may look at are those with fewer than
`MaxDepth` better prices. The rest is one lemma per step: `ProcessNew` is an
arrival, `FillMaker` a trade, `Rest...` a `Rest`, `process` being done with an order that
does not rest a `Leave`, `CancelOrder` a `Cancel`, and everything else moves neither the
standing orders nor the taker. `MatchInv` puts `Covered`, `InTimeOrder` and `Sweeping`
on top of `IInv`.

For the event stream none of the three properties says anything about a consumer that is
behind, and the ring may hold any number of events, so the invariant is about what the
consumer will know when it has polled them all (`Seen[Len(outbound)]`). `Seen` is a
recursive function over the events in the ring; that an event pushed extends it by one
value, and an event polled shifts it, follows from its values being determined one by one
(`TraceUnique`, `SeenPushed`, `SeenPolled`). That consumer is not quite in step with the
engine: `Match` has changed the book for all trades before the first is
published. `Mirrored` therefore gives a maker's entry the quantity of the trade that is still to
come (`Lag`), and leaves out the order whose acceptance or cancellation is about to be
reported (`Closing`); `Settled` does so for the ledger, where the order in hand owes the sum of
all trades to come (`Pending`, again a number of units), and `Numbered` for the numbers. Most
steps publish nothing and leave all of this alone (`Quiet`); `EmitTradeReports` and
`ReportReports` are about the two that publish. `Covered` is what the code relies on
without a look: a maker with status `Filled` has nothing left when its trade is emitted, and
a FOK order that passed the pre-check is filled by the sweep, because the quantities of the levels
that are left (`Depth`) never fall below what it still wants.

For the exchange: every engine was created by a call whose position says so (`Creators`), and
that, made again, finds it in the map and makes no second one (`LoadMakes`), an
engine that the map does not hold was never started and gets no command, and the counter
is behind the map by exactly the creators on their way to it (`Progress`). `StopDrains` rests on
`Commands` (an accepted command is in a ring, in an engine's hand or processed), `Unseen`
(what an engine that has looked at quit has left behind was published after its last
empty poll, or behind such an entry) and `Stopping` (who has closed which quit channel).

For the histogram: a recorder that is about to swap has loaded a maximum below its
sample (`Raising`), and the swap succeeds only on that maximum, so the maximum never
falls; the samples that are not below it yet are those of recorders inside `Record`
(`MaxExact`). What a bucket, the count and the sum hold is what the log holds of the calls that
are `Past` the step that adds to it (`Counted`): each step takes one call out of one of these
exceptions. All sums are numbers of pairs (`SumOver`), as in the book, so that one more sample is
one more element. Since a call is past its bucket before it is past the count, the buckets never
hold fewer samples than a count that was read. A scan therefore keeps between what
its buckets held when it began and what they hold now (`Scanning`), and has met its rank at
the last bucket at the latest. A merge has what the log holds of the histograms that are `Gone`
(`Merging`), and by then no call is on its way.

For the driver the events that are in the ring or still in the engine's hands are one sequence,
`Told`: a push leaves it alone, a poll takes its first and an order handled adds one event, or a
trade and its fill (`Paired`). The equations of the report hold at every step after the warm-up
(`Accounted`), if the events on their way are counted with the others, and `WarmingUp` gives them
their start: what the warm-up has placed rests and is accepted. That only what fits is placed
comes from the same count of orders and from the sizes of the rings (`Holding`).

For the token bucket the invariant is a potential: `tokens - lastTime` never rises, for a
refill adds to the tokens at most what it adds to the time, also when that is
negative, and an admission takes `Cost` from it. So from the admission with reading
`r` on, the cost of all later admissions and the present tokens are together at most
`Max + lastTime - r` (`Potential`); with the last of them this is the bound on the
window. `NotShort` compares the bucket, as a call with a present reading would find it,
with the ideal one: a late refill with an old reading can only leave more there,
because it moves `lastTime` back by as much as it takes away.

The assumptions are those in `MpscAssumption`, `EventRingAssumption`,
`DisruptorAssumption`, `BookAssumption`, `EngineAssumption`, `ExchangeAssumption`,
`HistogramAssumption`, `StressAssumption` and `RateAssumption`: a slot exists, spinning
producers are producers, nobody is maker and taker, samples and prices are integers, every sample
has a bucket, as every `int64` has one of 64, a token costs something,
there are finitely many symbols, and the
values that stand for nil or for nothing (`NoNode`, `NoLoc`, `NoObj`, `None`, `"none"`) are none of
the things that could be there, nor what `Matching` sees of an order (`OrderView`).

Every safety property that a run checks is proved. Only model-checked: liveness
(`ImplementsFairFifo`, `SpinningIsProductive`, `PushReturns`, `CommandsAnswered`,
`AcceptedIsProcessed`, `StopReturns`, `RecordReturns`, `WorkEnds`, and that the warm-up ends when it
fits), which is out of the prover's reach.

## Plan

1. Done: rings, book, engine, event stream; proofs of the rings.
2. Done: `Exchange`, with the life cycle of an engine: racing `GetOrCreate`, `Start`, the
   quit polling of `run`, `StopAll` against a full outbound ring and unpublished commands.
3. Done: `RateLimiter`: token buckets with stale readings, the rate bound proved.
4. Done: `Matching`, an abstract specification that `Engine` implements.
5. Done: `Disruptor` as a third implementation of `BoundedFifo`; `Histogram`; `Stress`; the
   refinements of all rings proved.
6. Done: proofs about the exchange, the engine's book and its ownership of objects, and
   `RefusedWhenFullOrOvertaken`.
7. Done: proofs about the event stream.
8. Done: the proof of the refinement of `Matching`, and with it of time order and an
   uncrossed book in the engine itself.
9. Done: the sums of the histogram and of the driver's report, proved as numbers of samples
   and events.

## Not modelled

The gateway's validation, a pure check of fields, its order counter, one atomic addition
(orders may reach a ring in another order than their numbers; the engine
compares identifiers only for equality), and its map of buckets under a mutex; a second
`Stop` of an engine, which panics; `pkg/sequencer`, one atomic counter that nothing imports;
`EventRing.Free`, which nothing calls; the demo `cmd/engine`, a dozen timed calls and a
polling loop; flags, CPU pinning and printing. Level quantities and the histogram's sum
are not given a width: nothing in the code bounds them, and TLC cannot count that far.
Go's memory model is not modelled beyond sequential consistency: the shared accesses of
all rings that carry the ordering are atomic.
