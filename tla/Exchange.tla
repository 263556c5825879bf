------------------------------ MODULE Exchange ------------------------------
(***************************************************************************)
(* Several engines at once: pkg/shard, which creates an engine for each    *)
(* symbol on demand and stops them all, the life cycle of an engine        *)
(* (Start, the loop of run with its look at quit, Stop), and the calls     *)
(* through which pkg/gateway reaches them.                                 *)
(*                                                                         *)
(* Goroutines that place and cancel orders run GetOrCreate or Get and then *)
(* TrySubmit, again and again, while another goroutine is in StopAll and   *)
(* the consumer of the events may have left.  The inbound ring is a queue  *)
(* whose entries are claimed first and published later (Mpsc.tla); a       *)
(* command stands for the call that submitted it and has one event; the    *)
(* outbound ring is the number of events in it.                            *)
(***************************************************************************)
EXTENDS Integers, Sequences, FiniteSets

CONSTANTS Places,      \* calls of PlaceOrder, past validation and rate limit
          Cancels,     \* calls of CancelOrder
          Symbols,
          Target,      \* the symbols each call may be about
          After,       \* the calls of the same goroutine that come before it
          Loops,       \* the calls that may be made again and again
          None,        \* no engine
          InCap, OutCap,
          QuitPeriod   \* empty polls between two looks at quit, 16384 in the code

Callers == Places \cup Cancels
Engines == Places   \* each call of GetOrCreate creates at most one engine

ASSUME ExchangeAssumption ==
  /\ Places \cap Cancels = {}
  /\ Loops \subseteq Callers /\ None \notin Callers
  /\ Target \in [Callers -> SUBSET Symbols]
  /\ After \in [Callers -> SUBSET Callers]
  /\ InCap \in Nat \ {0} /\ OutCap \in Nat \ {0} /\ QuitPeriod \in Nat \ {0}
  /\ IsFiniteSet(Symbols)

VARIABLES
  engines, count,      \* the manager: symbol -> engine, and the counter
  pc, sym, eng, outcome,   \* a call: position, symbol, engine found, result
  number,              \* a call in TrySubmit: the place in the ring of the number it read
  run,                 \* each engine: made, and where its goroutine is
  quit, polls,         \* quit is closed; empty polls since the last look at it
  ring, busy, events,  \* inbound ring, the command in process, outbound ring
  stop, seen, stopping,    \* StopAll: position, symbols visited, engines found
  consumer,            \* the goroutine that polls the events of all engines
  processed,           \* history: commands processed to their event
  known,               \* history: the shards when StopAll was called
  early,               \* history: accepted by then and not processed since
  late                 \* history: in the ring, published since the last empty poll

mgrVars == <<engines, count>>
callVars == <<pc, sym, eng, outcome, number>>
engVars == <<run, quit, polls, ring, busy, events>>
stopVars == <<stop, seen, stopping, early, known>>
vars == <<mgrVars, callVars, engVars, stopVars, consumer, processed, late>>

Init ==
  /\ engines = [s \in Symbols |-> None] /\ count = 0
  /\ pc = [c \in Callers |-> "idle"]
  /\ sym = [c \in Callers |-> None]
  /\ eng = [c \in Callers |-> None]
  /\ outcome = [c \in Callers |-> "none"]
  /\ number = [c \in Callers |-> 0]
  /\ run = [e \in Engines |-> "none"]
  /\ quit = [e \in Engines |-> FALSE]
  /\ polls = [e \in Engines |-> 0]
  /\ ring = [e \in Engines |-> <<>>]
  /\ busy = [e \in Engines |-> None]
  /\ events = [e \in Engines |-> 0]
  /\ stop = "no" /\ seen = {} /\ stopping = {}
  /\ consumer = "polls"
  /\ processed = {} /\ early = {} /\ known = {}
  /\ late = [e \in Engines |-> {}]
-----------------------------------------------------------------------------
(* PlaceOrder and CancelOrder.                                             *)

Goto(c, at) == pc' = [pc EXCEPT ![c] = at]
Finish(c, result) == Goto(c, "done") /\ outcome' = [outcome EXCEPT ![c] = result]

Call(c, s) ==
  /\ pc[c] = "idle"
  /\ \A d \in After[c] : pc[d] = "done"
  /\ sym' = [sym EXCEPT ![c] = s]
  /\ Goto(c, IF c \in Places THEN "load" ELSE "get")
  /\ UNCHANGED <<mgrVars, eng, outcome, number, engVars, stopVars, consumer,
                 processed, late>>

\* The goroutine makes the call again, for the same symbol, when its earlier
\* command has left its engine: a caller has one command in the system.
Through(c) ==
  \A e \in Engines : busy[e] # c /\ \A k \in DOMAIN ring[e] : ring[e][k].cmd # c

Again(c) ==
  /\ c \in Loops /\ pc[c] = "done" /\ Through(c)
  /\ \A d \in Callers : c \in After[d] \/ d \in After[c] => pc[d] \in {"idle", "done"}
  /\ Goto(c, IF c \in Places THEN "load" ELSE "get")
  /\ eng' = [eng EXCEPT ![c] = None]
  /\ outcome' = [outcome EXCEPT ![c] = "none"]
  /\ processed' = processed \ {c}
  /\ UNCHANGED <<mgrVars, sym, number, engVars, stopVars, consumer, late>>

\* GetOrCreate: the engine is there, or a candidate is made.
Load(c) ==
  /\ pc[c] = "load"
  /\ IF engines[sym[c]] # None
       THEN Goto(c, "submit") /\ eng' = [eng EXCEPT ![c] = engines[sym[c]]] /\ UNCHANGED run
       ELSE Goto(c, "store") /\ run' = [run EXCEPT ![c] = "made"] /\ UNCHANGED eng
  /\ UNCHANGED <<mgrVars, sym, outcome, number, quit, polls, ring, busy, events,
                 stopVars, consumer, processed, late>>

\* Bugs the runs notice: a Store that takes no notice of another engine, a
\* loser of the race that counts as well, and a winner that does not start.
StoreAnyway(c) ==
  /\ pc[c] = "store"
  /\ engines' = [engines EXCEPT ![sym[c]] = c]
  /\ eng' = [eng EXCEPT ![c] = c]
  /\ Goto(c, "start")
  /\ UNCHANGED <<count, sym, outcome, number, engVars, stopVars, consumer, processed, late>>

LoadOrStoreThen(c, winner, loser) ==
  /\ pc[c] = "store"
  /\ IF engines[sym[c]] = None
       THEN /\ engines' = [engines EXCEPT ![sym[c]] = c]
            /\ Goto(c, winner)
       ELSE Goto(c, loser) /\ UNCHANGED engines
  /\ eng' = [eng EXCEPT ![c] = engines'[sym[c]]]
  /\ UNCHANGED <<count, sym, outcome, number, engVars, stopVars, consumer, processed, late>>

LoserCounts(c) == LoadOrStoreThen(c, "start", "count")
WinnerForgetsStart(c) == LoadOrStoreThen(c, "count", "submit")

LoadOrStore(c) == LoadOrStoreThen(c, "start", "submit")

Start(c) ==
  /\ pc[c] = "start"
  /\ run' = [run EXCEPT ![c] = "poll"]
  /\ Goto(c, "count")
  /\ UNCHANGED <<mgrVars, sym, eng, outcome, number, quit, polls, ring, busy, events,
                 stopVars, consumer, processed, late>>

CountShard(c) ==
  /\ pc[c] = "count"
  /\ count' = count + 1
  /\ Goto(c, "submit")
  /\ UNCHANGED <<engines, sym, eng, outcome, number, engVars, stopVars, consumer,
                 processed, late>>

\* SubmitToSymbol does not create an engine.
Get(c) ==
  /\ pc[c] = "get"
  /\ IF engines[sym[c]] # None
       THEN /\ Goto(c, "submit") /\ eng' = [eng EXCEPT ![c] = engines[sym[c]]]
            /\ UNCHANGED outcome
       ELSE Finish(c, "ErrSymbolNotFound") /\ UNCHANGED eng
  /\ UNCHANGED <<mgrVars, sym, number, engVars, stopVars, consumer, processed, late>>

\* TrySubmit reads the next number, which the engine may pass by while the call
\* goes on; it wins the next number, read again if another call won the first.
ReadNumber(c) ==
  /\ pc[c] = "submit"
  /\ number' = [number EXCEPT ![c] = Len(ring[eng[c]]) + 1]
  /\ Goto(c, "claim")
  /\ UNCHANGED <<mgrVars, sym, eng, outcome, engVars, stopVars, consumer, processed, late>>

Claim(c) ==
  /\ pc[c] = "claim"
  /\ Len(ring[eng[c]]) < InCap
  /\ ring' = [ring EXCEPT ![eng[c]] = Append(@, [cmd |-> c, ready |-> FALSE])]
  /\ number' = [number EXCEPT ![c] = 0]
  /\ Goto(c, "publish")
  /\ UNCHANGED <<mgrVars, sym, eng, outcome, run, quit, polls, busy, events,
                 stopVars, consumer, processed, late>>

\* The ring is full, or seems to be: the distance to a tail that has passed the
\* number is negative and taken as unsigned (MpscBackpressure.tla).
Refuse(c) ==
  /\ pc[c] = "claim"
  /\ Len(ring[eng[c]]) = InCap \/ number[c] = 0
  /\ number' = [number EXCEPT ![c] = 0]
  /\ Finish(c, IF c \in Places THEN "ErrBufferFull" ELSE "ErrSymbolNotFound")
  /\ UNCHANGED <<mgrVars, sym, eng, engVars, stopVars, consumer, processed, late>>

Publish(c) ==
  /\ pc[c] = "publish"
  /\ ring' = [ring EXCEPT ![eng[c]] =
                [k \in DOMAIN @ |-> IF @[k].cmd = c THEN [cmd |-> c, ready |-> TRUE] ELSE @[k]]]
  /\ late' = [late EXCEPT ![eng[c]] = @ \cup {c}]
  /\ Finish(c, "ok")
  /\ UNCHANGED <<mgrVars, sym, eng, number, run, quit, polls, busy, events, stopVars,
                 consumer, processed>>

CallStep(c) ==
  \/ Load(c) \/ LoadOrStore(c) \/ Start(c) \/ CountShard(c)
  \/ Get(c) \/ ReadNumber(c) \/ Claim(c) \/ Refuse(c) \/ Publish(c)
-----------------------------------------------------------------------------
(* run, the goroutine of engine e, and the consumer of its events.         *)

HasCommand(e) == ring[e] # <<>> /\ Head(ring[e]).ready

Pop(e) ==
  /\ run[e] = "poll" /\ HasCommand(e)
  /\ ring' = [ring EXCEPT ![e] = Tail(@)]
  /\ busy' = [busy EXCEPT ![e] = Head(ring[e]).cmd]
  /\ polls' = [polls EXCEPT ![e] = 0]
  /\ run' = [run EXCEPT ![e] = "process"]
  /\ late' = [late EXCEPT ![e] = @ \ {busy'[e]}]
  /\ number' = [c \in Callers |->
                  number[c] - IF eng[c] = e /\ number[c] > 0 THEN 1 ELSE 0]
  /\ UNCHANGED <<mgrVars, pc, sym, eng, outcome, quit, events, stopVars, consumer,
                 processed>>

\* A bug the runs notice: an event is put into a full ring.
ProcessNoWait(e) ==
  /\ run[e] = "process"
  /\ events' = [events EXCEPT ![e] = @ + 1]
  /\ processed' = processed \cup {busy[e]} /\ early' = early \ {busy[e]}
  /\ busy' = [busy EXCEPT ![e] = None]
  /\ run' = [run EXCEPT ![e] = "poll"]
  /\ UNCHANGED <<mgrVars, callVars, quit, polls, ring, stop, seen, stopping, known,
                 consumer, late>>

\* Waits in the handler while the outbound ring is full.
Process(e) ==
  /\ run[e] = "process"
  /\ events[e] < OutCap
  /\ events' = [events EXCEPT ![e] = @ + 1]
  /\ processed' = processed \cup {busy[e]} /\ early' = early \ {busy[e]}
  /\ busy' = [busy EXCEPT ![e] = None]
  /\ run' = [run EXCEPT ![e] = "poll"]
  /\ UNCHANGED <<mgrVars, callVars, quit, polls, ring, stop, seen, stopping, known,
                 consumer, late>>

\* Bugs the runs notice: every poll counts, and the empty polls are not counted.
EveryPollCounts(e) ==
  /\ run[e] = "poll"
  /\ polls' = [polls EXCEPT ![e] = (@ + 1) % QuitPeriod]
  /\ run' = [run EXCEPT ![e] = IF polls'[e] = 0 THEN "look" ELSE "poll"]
  /\ late' = [late EXCEPT ![e] = {}]
  /\ UNCHANGED <<mgrVars, callVars, quit, ring, busy, events, stopVars, consumer,
                 processed>>

NoPollCounts(e) ==
  /\ run[e] = "poll" /\ ~HasCommand(e)
  /\ late' = [late EXCEPT ![e] = {}]
  /\ UNCHANGED <<mgrVars, callVars, engVars, stopVars, consumer, processed>>

PollNothing(e) ==
  /\ run[e] = "poll" /\ ~HasCommand(e)
  /\ polls' = [polls EXCEPT ![e] = (@ + 1) % QuitPeriod]
  /\ run' = [run EXCEPT ![e] = IF polls'[e] = 0 THEN "look" ELSE "poll"]
  /\ late' = [late EXCEPT ![e] = {}]
  /\ UNCHANGED <<mgrVars, callVars, quit, ring, busy, events, stopVars, consumer,
                 processed>>

LookAtQuit(e) ==
  /\ run[e] = "look"
  /\ run' = [run EXCEPT ![e] = IF quit[e] THEN "exited" ELSE "poll"]
  /\ UNCHANGED <<mgrVars, callVars, quit, polls, ring, busy, events, stopVars,
                 consumer, processed, late>>

EngineStep(e) == Pop(e) \/ Process(e) \/ PollNothing(e) \/ LookAtQuit(e)

\* One consumer polls all engines until its deadline.
PollEvent(e) ==
  /\ consumer = "polls"
  /\ events[e] > 0
  /\ events' = [events EXCEPT ![e] = @ - 1]
  /\ UNCHANGED <<mgrVars, callVars, run, quit, polls, ring, busy, stopVars, consumer,
                 processed, late>>

ConsumerLeaves ==
  /\ consumer = "polls"
  /\ consumer' = "gone"
  /\ UNCHANGED <<mgrVars, callVars, engVars, stopVars, processed, late>>
-----------------------------------------------------------------------------
(* StopAll: Range over the map, a goroutine in Stop for each engine found. *)

StopAll ==
  /\ stop = "no"
  /\ stop' = "range"
  /\ early' = {c \in Callers : outcome[c] = "ok"} \ processed
  /\ known' = {engines[s] : s \in Symbols} \ {None}
  /\ UNCHANGED <<mgrVars, callVars, engVars, seen, stopping, consumer, processed, late>>

\* An engine registered while Range is under way may be missed.
Visit(s) ==
  /\ stop = "range" /\ s \notin seen
  /\ seen' = seen \cup {s}
  /\ stopping' = IF engines[s] = None THEN stopping ELSE stopping \cup {engines[s]}
  /\ stop' = IF seen' = Symbols THEN "wait" ELSE "range"
  /\ UNCHANGED <<mgrVars, callVars, engVars, early, known, consumer, processed, late>>

CloseQuit(e) ==
  /\ e \in stopping /\ ~quit[e]
  /\ quit' = [quit EXCEPT ![e] = TRUE]
  /\ UNCHANGED <<mgrVars, callVars, run, polls, ring, busy, events, stopVars,
                 consumer, processed, late>>

Stopped ==
  /\ stop = "wait"
  /\ \A e \in stopping : run[e] = "exited"
  /\ stop' = "returned"
  /\ UNCHANGED <<mgrVars, callVars, engVars, seen, stopping, early, known, consumer,
                 processed, late>>

StopStep == (\E s \in Symbols : Visit(s)) \/ (\E e \in Engines : CloseQuit(e)) \/ Stopped
-----------------------------------------------------------------------------
Next ==
  \/ \E c \in Callers : CallStep(c) \/ Again(c) \/ \E s \in Target[c] : Call(c, s)
  \/ \E e \in Engines : EngineStep(e) \/ PollEvent(e)
  \/ ConsumerLeaves
  \/ StopAll \/ StopStep

Spec == Init /\ [][Next]_vars

\* Goroutines that are inside a call, and the engines, keep running; the
\* consumer polls every engine while it stays.  Nobody has to call, to call
\* again, to stop calling, or to leave.
FairSpec ==
  /\ Spec
  /\ \A c \in Callers : WF_vars(CallStep(c))
  /\ \A e \in Engines : WF_vars(EngineStep(e)) /\ WF_vars(PollEvent(e))
  /\ WF_vars(StopStep)
-----------------------------------------------------------------------------
\* A number in an inbound ring, claimed and perhaps published.
Entry == [cmd : Callers, ready : BOOLEAN]

TypeOK ==
  /\ engines \in [Symbols -> Engines \cup {None}]
  /\ count \in 0 .. Cardinality(Symbols)
  /\ pc \in [Callers -> {"idle", "load", "store", "start", "count", "get", "submit",
                      "claim", "publish", "done"}]
  /\ sym \in [Callers -> Symbols \cup {None}]
  /\ eng \in [Callers -> Engines \cup {None}]
  /\ outcome \in [Callers -> {"none", "ok", "ErrBufferFull", "ErrSymbolNotFound"}]
  /\ number \in [Callers -> Nat]
  /\ run \in [Engines -> {"none", "made", "poll", "process", "look", "exited"}]
  /\ quit \in [Engines -> BOOLEAN]
  /\ polls \in [Engines -> 0 .. QuitPeriod - 1]
  /\ ring \in [Engines -> Seq(Entry)]
  /\ busy \in [Engines -> Callers \cup {None}]
  /\ events \in [Engines -> 0 .. OutCap]
  /\ stop \in {"no", "range", "wait", "returned"}
  /\ seen \subseteq Symbols /\ stopping \subseteq Engines
  /\ consumer \in {"polls", "gone"}
  /\ processed \subseteq Callers /\ early \subseteq Callers /\ known \subseteq Engines
  /\ late \in [Engines -> SUBSET Callers]

(***************************************************************************)
(* Racing creators agree on one engine for each symbol: only the engine in *)
(* the map ever runs, every call submits to that one, and a candidate that *)
(* lost the race receives nothing.  ("Each trading pair is assigned exactly *)
(* one Engine instance", shard/manager.go.)                                *)
(***************************************************************************)
Registered == {engines[s] : s \in Symbols} \ {None}

OneEnginePerSymbol ==
  /\ \A e \in Engines : run[e] \notin {"none", "made"} => e \in Registered
  /\ \A c \in Callers : eng[c] # None => engines[sym[c]] = eng[c]
  /\ \A e \in Engines : ring[e] # <<>> => e \in Registered

(***************************************************************************)
(* The manager's counter is the number of shards in its map, but for those *)
(* whose creator has not come to count them yet.                           *)
(***************************************************************************)
Creating == {c \in Places : pc[c] \in {"start", "count"}}

ShardsCounted == count + Cardinality(Creating) = Cardinality(Registered)

(***************************************************************************)
(* StopAll drains.  When it has returned, every shard it was called on has *)
(* exited, and what had been accepted before the call has been processed,  *)
(* with one exception: a command that was published, or behind one that    *)
(* was published, after the engine had found its ring empty for the last   *)
(* time or not at all is left in the ring although its caller was told it  *)
(* was accepted.                                                           *)
(***************************************************************************)
LeftBehind(e) ==
  ring[e] # <<>> /\ (~Head(ring[e]).ready \/ Head(ring[e]).cmd \in late[e])

StopDrains ==
  stop = "returned" =>
    /\ \A e \in known : run[e] = "exited"
    /\ \A c \in early : LeftBehind(eng[c])

-----------------------------------------------------------------------------
(* Why these hold: the inductive invariant.                                *)

\* What a call knows at each of its steps, and who has come how far.
Progress ==
  /\ \A c \in Callers :
       /\ pc[c] # "idle" => sym[c] \in Symbols
       /\ pc[c] \in {"start", "count", "submit", "claim", "publish"} => eng[c] # None
       /\ outcome[c] = "ok" => eng[c] # None
       /\ eng[c] # None => pc[c] \in {"start", "count", "submit", "claim", "publish", "done"}
       /\ outcome[c] = "ok" => pc[c] = "done"
       /\ pc[c] \in {"load", "store", "start", "count"} => c \in Places
  /\ \A c \in Places :
       /\ pc[c] \in {"store", "start"} => run[c] = "made"
       /\ pc[c] \in {"start", "count"} => engines[sym[c]] = c

\* The engine in the map is the candidate of the call that put it there.
Creators ==
  \A s \in Symbols : engines[s] # None =>
    /\ sym[engines[s]] = s
    /\ pc[engines[s]] \notin {"idle", "store"}

\* A command is in the ring of its engine from its claim to its pop, ready from
\* the moment its caller is told that it was accepted.
Queued(c, ready) ==
  \E k \in DOMAIN ring[eng[c]] : ring[eng[c]][k] = [cmd |-> c, ready |-> ready]

InProcess(c) == run[eng[c]] = "process" /\ busy[eng[c]] = c

Commands ==
  /\ \A c \in Callers :
       /\ pc[c] = "publish" => Queued(c, FALSE)
       /\ outcome[c] = "ok" => c \in processed \/ InProcess(c) \/ Queued(c, TRUE)
  /\ \A e \in Engines : \A k \in DOMAIN ring[e] :
       ring[e][k].ready => outcome[ring[e][k].cmd] = "ok"
  /\ \A e \in Engines : run[e] = "process" => busy[e] # None

\* What is in the ring of an engine that looks at quit, or has seen it closed,
\* came after its last poll.
Unseen ==
  \A e \in Engines : run[e] \in {"look", "exited"} => ring[e] = <<>> \/ LeftBehind(e)

\* StopAll has met every shard it was called on, or has its symbol before it.
Stopping ==
  /\ known \subseteq Registered
  /\ known \subseteq stopping \cup {engines[s] : s \in Symbols \ seen}
  /\ stop = "no" => seen = {}
  /\ stop \in {"wait", "returned"} => seen = Symbols
  /\ stop = "returned" => \A e \in stopping : run[e] = "exited"
  /\ \A c \in early : outcome[c] = "ok" /\ eng[c] \in known /\ c \notin processed

IInv ==
  TypeOK /\ OneEnginePerSymbol /\ ShardsCounted /\ Progress /\ Creators /\ Commands
  /\ Unseen /\ Stopping
-----------------------------------------------------------------------------
(***************************************************************************)
(* An engine that waits in a handler for room that nobody makes any more.  *)
(***************************************************************************)
Stranded(e) == consumer = "gone" /\ run[e] = "process" /\ events[e] = OutCap

(***************************************************************************)
(* An accepted command is processed, also by an engine whose creator had   *)
(* not started it when the command was submitted, and however many follow, *)
(* unless StopAll is called or the consumer has left and the engine has    *)
(* come to wait for it.                                                    *)
(***************************************************************************)
AcceptedIsProcessed ==
  \A c \in Callers :
    (outcome[c] = "ok") ~> \/ c \in processed \/ stop # "no"
                           \/ \E e \in Engines : eng[c] = e /\ Stranded(e)

(***************************************************************************)
(* StopAll returns, also when it meets engines that are not started yet or *)
(* that wait for room in their outbound ring, with two exceptions: one of  *)
(* the engines it stops is given commands for ever, so that it may never   *)
(* find its ring empty often enough to look at quit, or waits for room     *)
(* when the consumer has left.                                             *)
(***************************************************************************)
StopReturns ==
  \/ (stop # "no") ~> (stop = "returned" \/ \E e \in stopping : Stranded(e))
  \/ \E e \in Engines : []<><<Pop(e) /\ e \in stopping>>_vars
=============================================================================
