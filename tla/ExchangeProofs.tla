--------------------------- MODULE ExchangeProofs ---------------------------
(***************************************************************************)
(* For any number of calls and symbols, any sizes of the rings and any     *)
(* period: one engine for each symbol, the counter of shards, and what     *)
(* StopAll leaves behind.                                                  *)
(***************************************************************************)
EXTENDS Exchange, FiniteSetTheorems, SequenceTheorems, TLAPS

USE ExchangeAssumption DEF ExchangeAssumption, Callers, Engines

\* There are no more engines than symbols.
LEMMA RegisteredFinite ==
  ASSUME TypeOK
  PROVE  /\ IsFiniteSet(Registered)
         /\ Cardinality(Registered) \in Nat
         /\ Cardinality(Registered) <= Cardinality(Symbols)
<1> DEFINE used == {s \in Symbols : engines[s] # None}
           f == [s \in used |-> engines[s]]
<1>1. IsFiniteSet(used) /\ Cardinality(used) <= Cardinality(Symbols)
  BY FS_Subset
<1>2. f \in Surjection(used, Registered)
  BY DEF Surjection, Registered
<1>3. IsFiniteSet(Registered) /\ Cardinality(Registered) <= Cardinality(used)
  BY <1>1, <1>2, FS_Surjection
<1> QED
  BY <1>1, <1>3, FS_CardinalityType

\* Who is about to start or count an engine has it in the map.
LEMMA CreatingFinite ==
  ASSUME TypeOK, Progress
  PROVE  IsFiniteSet(Creating) /\ Cardinality(Creating) \in Nat
<1>1. ASSUME NEW c \in Creating PROVE c \in Registered
  <2>1. c \in Places /\ pc[c] # "idle" /\ engines[sym[c]] = c
    BY DEF Creating, Progress
  <2>2. sym[c] \in Symbols /\ c # None
    BY <2>1 DEF Progress
  <2> QED
    BY <2>1, <2>2 DEF Registered
<1>2. Creating \in SUBSET Registered
  BY <1>1
<1> QED
  BY <1>2, RegisteredFinite, FS_Subset, FS_CardinalityType

LEMMA InitIInv == Init => IInv
<1> SUFFICES ASSUME Init PROVE IInv
  OBVIOUS
<1>1. Registered = {} /\ Creating = {} /\ Cardinality({}) = 0 /\ Cardinality(Symbols) \in Nat
  BY FS_EmptySet, FS_CardinalityType DEF Init, Registered, Creating
<1>2. TypeOK
  BY <1>1 DEF Init, TypeOK
<1>3. OneEnginePerSymbol /\ ShardsCounted
  BY <1>1 DEF Init, OneEnginePerSymbol, ShardsCounted
<1>4. Progress /\ Creators
  BY DEF Init, Progress, Creators
<1>5. Commands /\ Unseen
  <2>1. \A e \in Engines : ring[e] = <<>> /\ DOMAIN ring[e] = {}
    BY DEF Init
  <2> QED
    BY <2>1 DEF Init, Commands, Unseen
<1>6. Stopping
  BY DEF Init, Stopping
<1> QED
  BY <1>2, <1>3, <1>4, <1>5, <1>6 DEF IInv

\* What is known of a call that is under way.
LEMMA UnderWay ==
  ASSUME IInv, NEW c \in Callers
  PROVE  /\ pc[c] # "idle" => sym[c] \in Symbols
         /\ pc[c] \in {"load", "store", "start", "count"} => c \in Places
         /\ pc[c] \in {"submit", "claim", "publish"} => eng[c] \in Engines
  BY DEF IInv, Progress, TypeOK

\* What Publish does to a ring.
LEMMA PublishedRing ==
  ASSUME TypeOK, NEW c \in Callers, Publish(c), eng[c] \in Engines
  PROVE  /\ ring' \in [Engines -> Seq(Entry)]
         /\ \A e \in Engines : e # eng[c] => ring'[e] = ring[e]
         /\ \A e \in Engines : DOMAIN ring'[e] = DOMAIN ring[e] /\ Len(ring'[e]) = Len(ring[e])
         /\ \A e \in Engines : \A k \in DOMAIN ring[e] :
              ring'[e][k] = IF e = eng[c] /\ ring[e][k].cmd = c
                              THEN [cmd |-> c, ready |-> TRUE] ELSE ring[e][k]
<1> DEFINE old == ring[eng[c]]
           new == [k \in DOMAIN old |->
                    IF old[k].cmd = c THEN [cmd |-> c, ready |-> TRUE] ELSE old[k]]
<1>1. old \in Seq(Entry) /\ ring \in [Engines -> Seq(Entry)]
  BY DEF TypeOK
<1>2. \A k \in DOMAIN old : old[k] \in Entry
  <2> HIDE DEF old
  <2> QED
    BY <1>1
<1>3. \A k \in DOMAIN old : new[k] = IF old[k].cmd = c THEN [cmd |-> c, ready |-> TRUE] ELSE old[k]
  OBVIOUS
<1>4. \A k \in DOMAIN old : new[k] \in Entry
  BY <1>2, <1>3 DEF Entry
<1>5. new \in Seq(Entry) /\ DOMAIN new = DOMAIN old /\ Len(new) = Len(old)
  <2>1. DOMAIN old = 1 .. Len(old) /\ Len(old) \in Nat
    BY <1>1
  <2> HIDE DEF old
  <2>2. new \in [1 .. Len(old) -> Entry]
    BY <1>4, <2>1
  <2>3. DOMAIN new = DOMAIN old
    OBVIOUS
  <2> HIDE DEF new
  <2>4. new \in Seq(Entry)
    BY <2>1, <2>2, SeqDef
  <2> QED
    BY <2>1, <2>3, <2>4
<1>6. ring' = [ring EXCEPT ![eng[c]] = new]
  BY DEF Publish
<1> HIDE DEF new
<1> QED
  BY <1>1, <1>3, <1>5, <1>6

LEMMA CallTypes ==
  ASSUME IInv, NEW c \in Callers, CallStep(c) \/ \E s \in Target[c] : Call(c, s)
  PROVE  TypeOK'
<1> USE DEF Goto, Finish
<1>0. TypeOK
  BY DEF IInv
<1>1. ASSUME NEW s \in Target[c], Call(c, s) PROVE TypeOK'
  BY <1>0, <1>1 DEF TypeOK, Call, mgrVars, engVars, stopVars
<1>2. CASE Load(c)
  <2>1. c \in Places /\ sym[c] \in Symbols
    BY <1>2, UnderWay DEF Load
  <2>2. /\ eng' \in [Callers -> Engines \cup {None}]
        /\ run' \in [Engines -> {"none", "made", "poll", "process", "look", "exited"}]
        /\ pc' \in [Callers -> {"idle", "load", "store", "start", "count", "get", "submit",
                                "claim", "publish", "done"}]
    BY <1>0, <1>2, <2>1 DEF TypeOK, Load
  <2> QED
    BY <1>0, <1>2, <2>2 DEF TypeOK, Load, mgrVars, stopVars
<1>3. CASE LoadOrStore(c)
  <2>1. c \in Places /\ sym[c] \in Symbols
    BY <1>3, UnderWay DEF LoadOrStore, LoadOrStoreThen
  <2>2. engines' \in [Symbols -> Engines \cup {None}]
    <3>1. engines' = engines \/ engines' = [engines EXCEPT ![sym[c]] = c]
      BY <1>3 DEF LoadOrStore, LoadOrStoreThen
    <3>2. engines \in [Symbols -> Engines \cup {None}]
      BY <1>0 DEF TypeOK
    <3> QED
      BY <2>1, <3>1, <3>2
  <2>3. engines'[sym[c]] \in Engines \cup {None}
    BY <2>1, <2>2
  <2>4. /\ eng' \in [Callers -> Engines \cup {None}]
        /\ pc' \in [Callers -> {"idle", "load", "store", "start", "count", "get", "submit",
                                "claim", "publish", "done"}]
    BY <1>0, <1>3, <2>3 DEF TypeOK, LoadOrStore, LoadOrStoreThen
  <2> QED
    BY <1>0, <1>3, <2>2, <2>4 DEF TypeOK, LoadOrStore, LoadOrStoreThen, engVars, stopVars
<1>4. CASE Start(c)
  BY <1>0, <1>4 DEF TypeOK, Start, mgrVars, stopVars
<1>5. CASE CountShard(c)
  <2>1. c \in Creating
    BY <1>5, UnderWay DEF CountShard, Creating
  <2>2. Cardinality(Creating) \in Nat \ {0}
    BY <2>1, CreatingFinite, FS_EmptySet DEF IInv
  <2>3. count + Cardinality(Creating) <= Cardinality(Symbols)
    BY <1>0, RegisteredFinite DEF IInv, ShardsCounted
  <2>4. Cardinality(Symbols) \in Nat /\ count \in Nat
    BY <1>0, FS_CardinalityType DEF TypeOK
  <2>5. count + 1 \in 0 .. Cardinality(Symbols)
    BY <2>2, <2>3, <2>4
  <2> QED
    BY <1>0, <1>5, <2>5 DEF TypeOK, CountShard, engVars, stopVars
<1>6. CASE Get(c)
  <2>1. sym[c] \in Symbols
    BY <1>6, UnderWay DEF Get
  <2>2. /\ eng' \in [Callers -> Engines \cup {None}]
        /\ outcome' \in [Callers -> {"none", "ok", "ErrBufferFull", "ErrSymbolNotFound"}]
        /\ pc' \in [Callers -> {"idle", "load", "store", "start", "count", "get", "submit",
                                "claim", "publish", "done"}]
    BY <1>0, <1>6, <2>1 DEF TypeOK, Get
  <2> QED
    BY <1>0, <1>6, <2>2 DEF TypeOK, Get, mgrVars, engVars, stopVars
<1>7. CASE Claim(c)
  <2>1. eng[c] \in Engines
    BY <1>7, UnderWay DEF Claim
  <2>2. [cmd |-> c, ready |-> FALSE] \in Entry
    BY DEF Entry
  <2>3. Append(ring[eng[c]], [cmd |-> c, ready |-> FALSE]) \in Seq(Entry)
    BY <1>0, <2>1, <2>2, AppendProperties DEF TypeOK
  <2>4. ring' \in [Engines -> Seq(Entry)]
    BY <1>0, <1>7, <2>3 DEF TypeOK, Claim
  <2> QED
    BY <1>0, <1>7, <2>4 DEF TypeOK, Claim, mgrVars, stopVars
<1>8. CASE Refuse(c)
  BY <1>0, <1>8 DEF TypeOK, Refuse, mgrVars, engVars, stopVars
<1>9. CASE Publish(c)
  <2>1. eng[c] \in Engines
    BY <1>9, UnderWay DEF Publish
  <2>2. ring' \in [Engines -> Seq(Entry)]
    BY <1>0, <1>9, <2>1, PublishedRing
  <2>3. /\ late' \in [Engines -> SUBSET Callers]
        /\ outcome' \in [Callers -> {"none", "ok", "ErrBufferFull", "ErrSymbolNotFound"}]
        /\ pc' \in [Callers -> {"idle", "load", "store", "start", "count", "get", "submit",
                                "claim", "publish", "done"}]
    BY <1>0, <1>9, <2>1 DEF TypeOK, Publish
  <2> QED
    BY <1>0, <1>9, <2>2, <2>3 DEF TypeOK, Publish, mgrVars, stopVars
<1>10. CASE ReadNumber(c)
  <2>1. eng[c] \in Engines
    BY <1>10, UnderWay DEF ReadNumber
  <2>2. Len(ring[eng[c]]) + 1 \in Nat
    <3>1. ring[eng[c]] \in Seq(Entry)
      BY <1>0, <2>1 DEF TypeOK
    <3> QED
      BY <3>1
  <2> QED
    BY <1>0, <1>10, <2>2 DEF TypeOK, ReadNumber, mgrVars, engVars, stopVars
<1> QED
  BY <1>1, <1>2, <1>3, <1>4, <1>5, <1>6, <1>7, <1>8, <1>9, <1>10 DEF CallStep

LEMMA EngineTypes ==
  ASSUME IInv, NEW e \in Engines, EngineStep(e) \/ PollEvent(e)
  PROVE  TypeOK'
<1>0. TypeOK
  BY DEF IInv
<1>1. CASE Pop(e)
  <2>1. /\ ring[e] \in Seq(Entry) /\ ring[e] # <<>>
        /\ ring' = [ring EXCEPT ![e] = Tail(ring[e])]
    BY <1>0, <1>1 DEF TypeOK, Pop, HasCommand
  <2>2. Tail(ring[e]) \in Seq(Entry) /\ Head(ring[e]) \in Entry
    BY <2>1, HeadTailProperties
  <2>3. Head(ring[e]).cmd \in Callers
    BY <2>2 DEF Entry
  <2>4. /\ ring' \in [Engines -> Seq(Entry)]
        /\ busy' \in [Engines -> Callers \cup {None}]
        /\ late' \in [Engines -> SUBSET Callers]
    BY <1>0, <1>1, <2>1, <2>2, <2>3 DEF TypeOK, Pop
  <2>5. number' \in [Callers -> Nat]
    BY <1>0, <1>1 DEF TypeOK, Pop
  <2> QED
    BY <1>0, <1>1, <2>4, <2>5 DEF TypeOK, Pop, mgrVars, stopVars
<1>2. CASE Process(e)
  <2>1. events[e] + 1 \in 0 .. OutCap /\ busy[e] \in Callers
    BY <1>0, <1>2 DEF TypeOK, Process, IInv, Commands
  <2>2. /\ events' \in [Engines -> 0 .. OutCap]
        /\ busy' \in [Engines -> Callers \cup {None}]
        /\ processed' \subseteq Callers /\ early' \subseteq Callers
    BY <1>0, <1>2, <2>1 DEF TypeOK, Process
  <2> QED
    BY <1>0, <1>2, <2>2 DEF TypeOK, Process, mgrVars, callVars
<1>3. CASE PollNothing(e)
  <2>1. (polls[e] + 1) % QuitPeriod \in 0 .. QuitPeriod - 1
    BY <1>0 DEF TypeOK
  <2>2. /\ polls' \in [Engines -> 0 .. QuitPeriod - 1]
        /\ late' \in [Engines -> SUBSET Callers]
    BY <1>0, <1>3, <2>1 DEF TypeOK, PollNothing
  <2> QED
    BY <1>0, <1>3, <2>2 DEF TypeOK, PollNothing, mgrVars, callVars, stopVars
<1>4. CASE LookAtQuit(e)
  BY <1>0, <1>4 DEF TypeOK, LookAtQuit, mgrVars, callVars, stopVars
<1>5. CASE PollEvent(e)
  <2>1. events[e] - 1 \in 0 .. OutCap
    BY <1>0, <1>5 DEF TypeOK, PollEvent
  <2> QED
    BY <1>0, <1>5, <2>1 DEF TypeOK, PollEvent, mgrVars, callVars, stopVars
<1> QED
  BY <1>1, <1>2, <1>3, <1>4, <1>5 DEF EngineStep

LEMMA StopTypes ==
  ASSUME IInv, StopAll \/ StopStep \/ ConsumerLeaves
  PROVE  TypeOK'
<1>0. TypeOK
  BY DEF IInv
<1>1. CASE StopAll
  <2>1. known' \subseteq Engines /\ early' \subseteq Callers
    BY <1>0, <1>1 DEF TypeOK, StopAll
  <2> QED
    BY <1>0, <1>1, <2>1 DEF TypeOK, StopAll, mgrVars, callVars, engVars
<1>2. ASSUME NEW s \in Symbols, Visit(s) PROVE TypeOK'
  BY <1>0, <1>2 DEF TypeOK, Visit, mgrVars, callVars, engVars
<1>3. ASSUME NEW e \in Engines, CloseQuit(e) PROVE TypeOK'
  BY <1>0, <1>3 DEF TypeOK, CloseQuit, mgrVars, callVars, stopVars
<1>4. CASE Stopped
  BY <1>0, <1>4 DEF TypeOK, Stopped, mgrVars, callVars, engVars
<1>5. CASE ConsumerLeaves
  BY <1>0, <1>5 DEF TypeOK, ConsumerLeaves, mgrVars, callVars, engVars, stopVars
<1> QED
  BY <1>1, <1>2, <1>3, <1>4, <1>5 DEF StopStep
-----------------------------------------------------------------------------
\* What the other steps' proofs use of the types.
Typed ==
  /\ DOMAIN pc = Callers /\ DOMAIN sym = Callers /\ DOMAIN eng = Callers
  /\ DOMAIN outcome = Callers /\ DOMAIN run = Engines /\ DOMAIN ring = Engines
  /\ DOMAIN busy = Engines /\ DOMAIN late = Engines /\ DOMAIN engines = Symbols
  /\ \A s \in Symbols : engines[s] # None => engines[s] \in Engines
  /\ \A c \in Callers : eng[c] # None => eng[c] \in Engines
  /\ \A e \in Engines : ring[e] \in Seq(Entry)

LEMMA TypesTyped == TypeOK => Typed
  BY DEF TypeOK, Typed

\* A step of a call moves that call, and the map only when it stores its engine.
LEMMA ProgressStep ==
  ASSUME IInv, NEW c \in Callers, CallStep(c) \/ \E s \in Target[c] : Call(c, s)
  PROVE  Progress' /\ Creators'
<1> USE DEF Goto, Finish
<1>0. Typed /\ Progress /\ Creators
  BY TypesTyped DEF IInv
<1>1. ASSUME NEW s \in Target[c], Call(c, s) PROVE Progress' /\ Creators'
  BY <1>0, <1>1 DEF Typed, Progress, Creators, Call, mgrVars, engVars
<1>2. CASE Load(c)
  <2>1. Progress'
    BY <1>0, <1>2 DEF Typed, Progress, Load, mgrVars
  <2>2. Creators'
    BY <1>0, <1>2 DEF Typed, Creators, Load, mgrVars
  <2> QED
    BY <2>1, <2>2
<1>3. CASE LoadOrStore(c)
  <2>1. /\ c \in Places /\ c # None /\ sym[c] \in Symbols /\ pc[c] = "store"
        /\ UNCHANGED <<sym, outcome, run>>
        /\ eng' = [eng EXCEPT ![c] = engines'[sym[c]]]
    BY <1>0, <1>3 DEF Progress, LoadOrStore, LoadOrStoreThen, engVars
  <2>2. CASE engines[sym[c]] = None
    <3>1. engines' = [engines EXCEPT ![sym[c]] = c] /\ pc' = [pc EXCEPT ![c] = "start"]
      BY <1>3, <2>2 DEF LoadOrStore, LoadOrStoreThen
    <3>2. Progress'
      BY <1>0, <2>1, <2>2, <3>1 DEF Typed, Progress
    <3>3. Creators'
      BY <1>0, <2>1, <2>2, <3>1 DEF Typed, Creators
    <3> QED
      BY <3>2, <3>3
  <2>3. CASE engines[sym[c]] # None
    <3>1. UNCHANGED engines /\ pc' = [pc EXCEPT ![c] = "submit"]
      BY <1>3, <2>3 DEF LoadOrStore, LoadOrStoreThen
    <3>2. Progress'
      BY <1>0, <2>1, <2>3, <3>1 DEF Typed, Progress
    <3>3. Creators'
      BY <1>0, <2>1, <2>3, <3>1 DEF Typed, Creators
    <3> QED
      BY <3>2, <3>3
  <2> QED
    BY <2>2, <2>3
<1>4. CASE Start(c)
  BY <1>0, <1>4 DEF Typed, Progress, Creators, Start, mgrVars
<1>5. CASE CountShard(c)
  BY <1>0, <1>5 DEF Typed, Progress, Creators, CountShard, engVars
<1>6. CASE Get(c)
  BY <1>0, <1>6 DEF Typed, Progress, Creators, Get, mgrVars, engVars
<1>7. CASE Claim(c)
  BY <1>0, <1>7 DEF Typed, Progress, Creators, Claim, mgrVars
<1>8. CASE Refuse(c)
  BY <1>0, <1>8 DEF Typed, Progress, Creators, Refuse, mgrVars, engVars
<1>9. CASE Publish(c)
  BY <1>0, <1>9 DEF Typed, Progress, Creators, Publish, mgrVars
<1>10. CASE ReadNumber(c)
  BY <1>0, <1>10 DEF Typed, Progress, Creators, ReadNumber, mgrVars, engVars
<1> QED
  BY <1>1, <1>2, <1>3, <1>4, <1>5, <1>6, <1>7, <1>8, <1>9, <1>10 DEF CallStep

LEMMA OneEngineStep ==
  ASSUME IInv, NEW c \in Callers, CallStep(c) \/ \E s \in Target[c] : Call(c, s)
  PROVE  OneEnginePerSymbol'
<1> USE DEF Goto, Finish
<1>0. Typed /\ Progress /\ Creators /\ OneEnginePerSymbol
  BY TypesTyped DEF IInv
<1>1. CASE LoadOrStore(c)
  <2>1. /\ c \in Places /\ sym[c] \in Symbols /\ UNCHANGED <<sym, engVars>>
        /\ eng' = [eng EXCEPT ![c] = engines'[sym[c]]]
        /\ \/ UNCHANGED engines
           \/ engines[sym[c]] = None /\ engines' = [engines EXCEPT ![sym[c]] = c]
    BY <1>0, <1>1 DEF Progress, LoadOrStore, LoadOrStoreThen
  <2>2. Registered \subseteq Registered'
    BY <1>0, <2>1 DEF Typed, Registered
  <2>3. ASSUME NEW d \in Callers, eng'[d] # None PROVE engines'[sym'[d]] = eng'[d]
    BY <1>0, <2>1, <2>3 DEF Typed, OneEnginePerSymbol, Progress
  <2> QED
    BY <1>0, <2>1, <2>2, <2>3 DEF OneEnginePerSymbol, engVars
<1>2. CASE Start(c)
  <2>1. c \in Registered
    BY <1>0, <1>2 DEF Progress, Registered, Start
  <2> QED
    BY <1>0, <1>2, <2>1 DEF Typed, Registered, OneEnginePerSymbol, Start, mgrVars
<1>3. CASE Claim(c)
  <2>1. eng[c] \in Registered
    BY <1>0, <1>3 DEF Progress, Registered, Claim, OneEnginePerSymbol
  <2> QED
    BY <1>0, <1>3, <2>1 DEF Typed, Registered, OneEnginePerSymbol, Claim, mgrVars
<1>4. CASE Publish(c)
  <2>1. eng[c] \in Engines
    BY <1>0, <1>4 DEF Progress, Publish, Typed
  <2>2. \A e \in Engines : ring'[e] # <<>> => ring[e] # <<>>
    <3>1. \A e \in Engines : /\ ring'[e] \in Seq(Entry) /\ ring[e] \in Seq(Entry)
                             /\ Len(ring'[e]) = Len(ring[e])
      BY <1>0, <1>4, <2>1, PublishedRing DEF IInv, Typed
    <3> QED
      BY <3>1
  <2> QED
    BY <1>0, <1>4, <2>2 DEF Registered, OneEnginePerSymbol, Publish, mgrVars
<1>5. ASSUME NEW s \in Target[c], Call(c, s) PROVE OneEnginePerSymbol'
  BY <1>0, <1>5 DEF Typed, Registered, OneEnginePerSymbol, Call, mgrVars, engVars, Progress
<1>6. CASE Load(c)
  BY <1>0, <1>6 DEF Typed, Registered, OneEnginePerSymbol, Load, mgrVars
<1>7. CASE CountShard(c)
  BY <1>0, <1>7 DEF Typed, Registered, OneEnginePerSymbol, CountShard, engVars
<1>8. CASE Get(c)
  BY <1>0, <1>8 DEF Typed, Registered, OneEnginePerSymbol, Get, mgrVars, engVars
<1>9. CASE Refuse(c)
  BY <1>0, <1>9 DEF Typed, Registered, OneEnginePerSymbol, Refuse, mgrVars, engVars
<1>10. CASE ReadNumber(c)
  BY <1>0, <1>10 DEF Typed, Registered, OneEnginePerSymbol, ReadNumber, mgrVars, engVars
<1> QED
  BY <1>1, <1>2, <1>3, <1>4, <1>5, <1>6, <1>7, <1>8, <1>9, <1>10 DEF CallStep

\* The winner of the race for a symbol is in the map before it is counted.
LEMMA CountStep ==
  ASSUME IInv, NEW c \in Callers, CallStep(c) \/ \E s \in Target[c] : Call(c, s)
  PROVE  ShardsCounted'
<1> USE DEF Goto, Finish
<1>0. Typed /\ Progress /\ Creators /\ ShardsCounted /\ count \in Nat
  BY TypesTyped DEF IInv, TypeOK
<1>f. /\ IsFiniteSet(Registered) /\ Cardinality(Registered) \in Nat
      /\ IsFiniteSet(Creating) /\ Cardinality(Creating) \in Nat
  BY RegisteredFinite, CreatingFinite DEF IInv
<1>1. CASE LoadOrStore(c) /\ engines[sym[c]] = None
  <2>1. /\ c \in Places /\ sym[c] \in Symbols /\ c \notin Registered /\ c \notin Creating
        /\ engines' = [engines EXCEPT ![sym[c]] = c] /\ pc' = [pc EXCEPT ![c] = "start"]
        /\ UNCHANGED count
    BY <1>0, <1>1 DEF Progress, Creators, Registered, Creating, LoadOrStore, LoadOrStoreThen
  <2>2. Registered' = Registered \cup {c}
    BY <1>0, <1>1, <2>1 DEF Typed, Registered
  <2>3. Creating' = Creating \cup {c}
    BY <1>0, <2>1 DEF Typed, Creating
  <2>4. /\ Cardinality(Registered \cup {c}) = Cardinality(Registered) + 1
        /\ Cardinality(Creating \cup {c}) = Cardinality(Creating) + 1
    BY <1>f, <2>1, FS_AddElement
  <2> QED
    BY <1>0, <1>f, <2>1, <2>2, <2>3, <2>4 DEF ShardsCounted
<1>2. CASE CountShard(c)
  <2>1. /\ c \in Creating /\ count' = count + 1
        /\ Creating' = Creating \ {c} /\ Registered' = Registered
    BY <1>0, <1>2 DEF Typed, Progress, Creating, Registered, CountShard
  <2>2. Cardinality(Creating \ {c}) = Cardinality(Creating) - 1
    BY <1>f, <2>1, FS_RemoveElement
  <2> QED
    BY <1>0, <1>f, <2>1, <2>2 DEF ShardsCounted
<1>3. CASE LoadOrStore(c) /\ engines[sym[c]] # None
  <2>1. UNCHANGED mgrVars /\ pc' = [pc EXCEPT ![c] = "submit"] /\ pc[c] = "store"
    BY <1>3 DEF LoadOrStore, LoadOrStoreThen, mgrVars
  <2>2. Creating' = Creating /\ Registered' = Registered
    BY <1>0, <2>1 DEF Typed, Creating, Registered, mgrVars
  <2> QED
    BY <1>0, <2>1, <2>2 DEF ShardsCounted, mgrVars
<1>4. CASE \/ Load(c) \/ Start(c) \/ Get(c) \/ ReadNumber(c) \/ Claim(c) \/ Refuse(c)
           \/ Publish(c) \/ \E s \in Target[c] : Call(c, s)
  <2>1. UNCHANGED mgrVars
    BY <1>4 DEF Load, Start, Get, ReadNumber, Claim, Refuse, Publish, Call
  <2>2. \A d \in Callers : pc'[d] \in {"start", "count"} <=> pc[d] \in {"start", "count"}
    BY <1>0, <1>4 DEF Typed, Load, Start, Get, ReadNumber, Claim, Refuse, Publish, Call
  <2>3. Creating' = Creating
    BY <2>2 DEF Creating
  <2> QED
    BY <1>0, <2>1, <2>3 DEF ShardsCounted, Registered, mgrVars
<1> QED
  BY <1>1, <1>2, <1>3, <1>4 DEF CallStep

\* Steps that concern neither a command nor an engine that may have looked at
\* quit, nor StopAll.
Kept(c) ==
  /\ UNCHANGED <<ring, busy, processed, late>>
  /\ \A d \in Callers : pc[d] = "publish" \/ outcome[d] = "ok" => eng'[d] = eng[d]
  /\ \A d \in Callers : /\ pc'[d] = "publish" <=> pc[d] = "publish"
                        /\ outcome'[d] = "ok" <=> outcome[d] = "ok"
  /\ \A e \in Engines : run[e] \in {"poll", "process", "look", "exited"} => run'[e] = run[e]
  /\ \A e \in Engines : run'[e] \in {"process", "look", "exited"} => run'[e] = run[e]

LEMMA KeptStep ==
  ASSUME IInv, NEW c \in Callers, Kept(c)
  PROVE  Commands' /\ Unseen'
<1>0. Typed /\ Commands /\ Unseen
  BY TypesTyped DEF IInv
<1>1. ASSUME NEW d \in Callers, pc'[d] = "publish" PROVE Queued(d, FALSE)'
  BY <1>0, <1>1 DEF Kept, Commands, Queued
<1>2. ASSUME NEW d \in Callers, outcome'[d] = "ok"
      PROVE  d \in processed' \/ InProcess(d)' \/ Queued(d, TRUE)'
  <2>1. eng'[d] = eng[d] /\ (d \in processed \/ InProcess(d) \/ Queued(d, TRUE))
    BY <1>0, <1>2 DEF Kept, Commands
  <2>2. eng[d] \in Engines
    BY <1>0, <1>2 DEF Kept, IInv, Progress, Typed
  <2> QED
    BY <2>1, <2>2 DEF Kept, Queued, InProcess
<1>3. /\ \A e \in Engines : \A k \in DOMAIN ring'[e] :
           ring'[e][k].ready => outcome'[ring'[e][k].cmd] = "ok"
      /\ \A e \in Engines : run'[e] = "process" => busy'[e] # None
  <2>1. \A e \in Engines : \A k \in DOMAIN ring[e] : ring[e][k].cmd \in Callers
    <3>1. \A e \in Engines : \A k \in DOMAIN ring[e] : ring[e][k] \in Entry
      BY <1>0 DEF Typed
    <3> QED
      BY <3>1 DEF Entry
  <2> QED
    BY <1>0, <2>1 DEF Kept, Commands
<1>4. Unseen'
  BY <1>0 DEF Kept, Unseen, LeftBehind
<1> QED
  BY <1>1, <1>2, <1>3, <1>4 DEF Commands

\* Who makes a candidate does not have an engine in the map: a call that is made
\* again finds the one it put there.
LEMMA LoadMakes ==
  ASSUME IInv, NEW c \in Callers, Load(c), ~UNCHANGED run
  PROVE  run[c] \in {"none", "made"}
<1>1. c \in Engines /\ engines[sym[c]] = None
  BY DEF Load, IInv, Progress
<1>2. ASSUME c \in Registered PROVE FALSE
  <2>1. PICK s \in Symbols : engines[s] = c /\ c # None
    BY <1>2 DEF Registered
  <2>2. sym[c] = s
    BY <2>1 DEF IInv, Creators
  <2> QED
    BY <1>1, <2>1, <2>2
<1> QED
  BY <1>1, <1>2 DEF IInv, OneEnginePerSymbol

LEMMA KeptSteps ==
  ASSUME IInv, NEW c \in Callers,
         \/ Load(c) \/ LoadOrStore(c) \/ Start(c) \/ CountShard(c) \/ Get(c)
         \/ ReadNumber(c) \/ Refuse(c) \/ \E s \in Target[c] : Call(c, s)
  PROVE  Kept(c)
<1> USE DEF Goto, Finish, mgrVars, engVars
<1>0. Typed /\ Progress
  BY TypesTyped DEF IInv
<1>1. CASE Load(c)
  <2>1. c \in Engines /\ (UNCHANGED run \/ run[c] \in {"none", "made"})
    BY <1>1, LoadMakes DEF Load, IInv, Progress
  <2> QED
    BY <1>0, <1>1, <2>1 DEF Typed, Progress, Kept, Load
<1>2. CASE LoadOrStore(c)
  BY <1>0, <1>2 DEF Typed, Progress, Kept, LoadOrStore, LoadOrStoreThen
<1>3. CASE Start(c)
  BY <1>0, <1>3 DEF Typed, Progress, Kept, Start
<1>4. CASE CountShard(c)
  BY <1>0, <1>4 DEF Typed, Progress, Kept, CountShard
<1>5. CASE Get(c)
  BY <1>0, <1>5 DEF Typed, Progress, Kept, Get
<1>6. CASE Refuse(c)
  BY <1>0, <1>6 DEF Typed, Progress, Kept, Refuse
<1>7. ASSUME NEW s \in Target[c], Call(c, s) PROVE Kept(c)
  BY <1>0, <1>7 DEF Typed, Progress, Kept, Call
<1>8. CASE ReadNumber(c)
  BY <1>0, <1>8 DEF Typed, Progress, Kept, ReadNumber
<1> QED
  BY <1>1, <1>2, <1>3, <1>4, <1>5, <1>6, <1>7, <1>8

\* What an entry of a ring is, and where.
LEMMA Entries ==
  ASSUME Typed, NEW e \in Engines
  PROVE  /\ Len(ring[e]) \in Nat /\ DOMAIN ring[e] = 1 .. Len(ring[e])
         /\ \A k \in DOMAIN ring[e] : ring[e][k] \in Entry /\ ring[e][k].cmd \in Callers
<1>1. ring[e] \in Seq(Entry)
  BY DEF Typed
<1>2. \A k \in DOMAIN ring[e] : ring[e][k] \in Entry
  BY <1>1
<1>3. \A x \in Entry : x.cmd \in Callers
  BY DEF Entry
<1> QED
  BY <1>1, <1>2, <1>3

\* A claim puts an entry that is not ready at the end of a ring.
LEMMA ClaimStep ==
  ASSUME IInv, NEW c \in Callers, Claim(c)
  PROVE  Commands' /\ Unseen'
<1> DEFINE e == eng[c]
           x == [cmd |-> c, ready |-> FALSE]
<1>0. Typed /\ Commands /\ Unseen /\ Progress
  BY TypesTyped DEF IInv
<1>1. /\ pc[c] = "claim" /\ e \in Engines /\ ring[e] \in Seq(Entry) /\ x \in Entry
      /\ ring' = [ring EXCEPT ![e] = Append(ring[e], x)]
      /\ pc' = [pc EXCEPT ![c] = "publish"]
      /\ UNCHANGED <<eng, outcome, run, busy, processed, late>>
  BY <1>0 DEF Claim, Goto, Progress, Typed, Entry
<1>2. /\ Len(ring'[e]) = Len(ring[e]) + 1 /\ DOMAIN ring'[e] = 1 .. Len(ring[e]) + 1
      /\ \A k \in DOMAIN ring[e] : k \in DOMAIN ring'[e] /\ ring'[e][k] = ring[e][k]
      /\ Len(ring[e]) + 1 \in DOMAIN ring'[e]
      /\ ring'[e][Len(ring[e]) + 1] = x
      /\ \A k \in DOMAIN ring'[e] : k \in DOMAIN ring[e] \/ k = Len(ring[e]) + 1
  <2>1. ring'[e] = Append(ring[e], x)
    BY <1>0, <1>1 DEF Typed
  <2> HIDE DEF e, x
  <2> QED
    BY <1>1, <2>1, AppendProperties, LenProperties
<1>3. \A f \in Engines : f # e => ring'[f] = ring[f]
  BY <1>0, <1>1 DEF Typed
<1>4. ASSUME NEW d \in Callers, NEW ready \in BOOLEAN, eng[d] \in Engines, Queued(d, ready)
      PROVE  Queued(d, ready)'
  BY <1>1, <1>2, <1>3, <1>4 DEF Queued
<1>5. ASSUME NEW d \in Callers, pc'[d] = "publish" PROVE Queued(d, FALSE)'
  <2>1. CASE d = c
    BY <1>1, <1>2, <2>1 DEF Queued
  <2>2. CASE d # c
    <3>1. pc[d] = "publish" /\ eng[d] \in Engines
      BY <1>0, <1>1, <1>5, <2>2 DEF Typed, Progress
    <3> QED
      BY <1>0, <1>4, <3>1 DEF Commands
  <2> QED
    BY <2>1, <2>2
<1>6. ASSUME NEW d \in Callers, outcome'[d] = "ok"
      PROVE  d \in processed' \/ InProcess(d)' \/ Queued(d, TRUE)'
  <2>1. eng[d] \in Engines /\ (d \in processed \/ InProcess(d) \/ Queued(d, TRUE))
    BY <1>0, <1>1, <1>6 DEF Typed, Progress, Commands
  <2> QED
    BY <1>1, <1>4, <2>1 DEF InProcess
<1>7. \A f \in Engines : \A k \in DOMAIN ring'[f] :
        ring'[f][k].ready => outcome'[ring'[f][k].cmd] = "ok"
  BY <1>0, <1>1, <1>2, <1>3 DEF Commands
<1>8. ASSUME NEW f \in Engines, run[f] \in {"look", "exited"}
      PROVE  ring'[f] = <<>> \/ LeftBehind(f)'
  <2>1. CASE f = e /\ ring[e] = <<>>
    <3>1. ring'[e] # <<>> /\ Head(ring'[e]) = x
      BY <1>1, <1>2, <2>1
    <3> QED
      BY <2>1, <3>1 DEF LeftBehind
  <2>2. CASE f = e /\ ring[e] # <<>>
    <3>1. ring'[e] # <<>> /\ Head(ring'[e]) = Head(ring[e])
      BY <1>1, <1>2, <2>2
    <3> QED
      BY <1>0, <1>1, <1>8, <2>2, <3>1 DEF Unseen, LeftBehind
  <2>3. CASE f # e
    BY <1>0, <1>1, <1>3, <1>8, <2>3 DEF Unseen, LeftBehind
  <2> QED
    BY <2>1, <2>2, <2>3
<1> QED
  BY <1>0, <1>1, <1>5, <1>6, <1>7, <1>8 DEF Commands, Unseen

\* A publication makes the caller's own entry ready, and the engine has not seen it.
LEMMA PublishStep ==
  ASSUME IInv, NEW c \in Callers, Publish(c)
  PROVE  Commands' /\ Unseen'
<1> DEFINE e == eng[c]
<1>0. Typed /\ Commands /\ Unseen /\ Progress
  BY TypesTyped DEF IInv
<1>1. /\ pc[c] = "publish" /\ e \in Engines
      /\ pc' = [pc EXCEPT ![c] = "done"] /\ outcome' = [outcome EXCEPT ![c] = "ok"]
      /\ late' = [late EXCEPT ![e] = @ \cup {c}]
      /\ UNCHANGED <<eng, run, busy, processed>>
  BY <1>0 DEF Publish, Finish, Goto, Progress, Typed
<1>2. /\ \A f \in Engines : /\ ring[f] \in Seq(Entry) /\ ring'[f] \in Seq(Entry)
                            /\ DOMAIN ring'[f] = DOMAIN ring[f] /\ Len(ring'[f]) = Len(ring[f])
      /\ \A f \in Engines : \A k \in DOMAIN ring[f] :
           ring'[f][k] = IF f = e /\ ring[f][k].cmd = c
                           THEN [cmd |-> c, ready |-> TRUE] ELSE ring[f][k]
  BY <1>0, <1>1, PublishedRing DEF IInv, Typed
<1>3. ASSUME NEW d \in Callers, d # c, NEW ready \in BOOLEAN, eng[d] \in Engines, Queued(d, ready)
      PROVE  Queued(d, ready)'
  <2>1. PICK k \in DOMAIN ring[eng[d]] : ring[eng[d]][k] = [cmd |-> d, ready |-> ready]
    BY <1>3 DEF Queued
  <2>2. ring[eng[d]][k].cmd # c
    BY <1>3, <2>1
  <2>3. k \in DOMAIN ring'[eng[d]] /\ ring'[eng[d]][k] = ring[eng[d]][k]
    BY <1>2, <1>3, <2>1, <2>2
  <2> QED
    BY <1>1, <2>1, <2>3 DEF Queued
<1>4. ASSUME NEW d \in Callers, pc'[d] = "publish" PROVE Queued(d, FALSE)'
  BY <1>0, <1>1, <1>3, <1>4 DEF Typed, Progress, Commands
<1>5. ASSUME NEW d \in Callers, outcome'[d] = "ok"
      PROVE  d \in processed' \/ InProcess(d)' \/ Queued(d, TRUE)'
  <2>1. CASE d = c
    <3>1. PICK k \in DOMAIN ring[e] : ring[e][k] = [cmd |-> c, ready |-> FALSE]
      BY <1>0, <1>1 DEF Commands, Queued
    <3>2. k \in DOMAIN ring'[e] /\ ring'[e][k] = [cmd |-> c, ready |-> TRUE]
      <4>1. ring[e][k].cmd = c
        BY <3>1
      <4> QED
        BY <1>1, <1>2, <4>1
    <3> QED
      BY <1>1, <2>1, <3>2 DEF Queued
  <2>2. CASE d # c
    <3>1. outcome[d] = "ok" /\ eng[d] \in Engines
      BY <1>0, <1>1, <1>5, <2>2 DEF Typed, Progress
    <3>2. d \in processed \/ InProcess(d) \/ Queued(d, TRUE)
      BY <1>0, <3>1 DEF Commands
    <3> QED
      BY <1>1, <1>3, <2>2, <3>1, <3>2 DEF InProcess
  <2> QED
    BY <2>1, <2>2
<1>6. ASSUME NEW f \in Engines, NEW k \in DOMAIN ring'[f], ring'[f][k].ready
      PROVE  outcome'[ring'[f][k].cmd] = "ok"
  <2>1. CASE f = e /\ ring[f][k].cmd = c
    BY <1>0, <1>1, <1>2, <2>1 DEF Typed
  <2>2. CASE ~(f = e /\ ring[f][k].cmd = c)
    <3>1. ring'[f][k] = ring[f][k] /\ ring[f][k].cmd \in Callers /\ k \in DOMAIN ring[f]
      BY <1>0, <1>2, <2>2, Entries
    <3> QED
      BY <1>0, <1>1, <1>6, <3>1 DEF Typed, Commands
  <2> QED
    BY <2>1, <2>2
<1>7. ASSUME NEW f \in Engines, run[f] \in {"look", "exited"}, ring'[f] # <<>>
      PROVE  LeftBehind(f)'
  <2>1. /\ ring[f] # <<>> /\ 1 \in DOMAIN ring[f]
        /\ Head(ring[f]) = ring[f][1] /\ Head(ring'[f]) = ring'[f][1]
    BY <1>2, <1>7
  <2>2. ~ring[f][1].ready \/ ring[f][1].cmd \in late[f]
    BY <1>0, <1>7, <2>1 DEF Unseen, LeftBehind
  <2>3. ~ring'[f][1].ready \/ ring'[f][1].cmd \in late'[f]
    BY <1>0, <1>1, <1>2, <2>1, <2>2 DEF Typed
  <2> QED
    BY <1>7, <2>1, <2>3 DEF LeftBehind
<1> QED
  BY <1>0, <1>1, <1>4, <1>5, <1>6, <1>7 DEF Commands, Unseen

\* The engine takes a ready entry from the head, and forgets it when it has
\* processed it.
LEMMA PopStep ==
  ASSUME IInv, NEW e \in Engines, Pop(e)
  PROVE  Commands' /\ Unseen'
<1> DEFINE x == Head(ring[e])
<1>0. Typed /\ Commands /\ Unseen /\ Progress
  BY TypesTyped DEF IInv
<1>1. /\ run[e] = "poll" /\ ring[e] \in Seq(Entry) /\ ring[e] # <<>> /\ x.ready
      /\ ring' = [ring EXCEPT ![e] = Tail(ring[e])]
      /\ busy' = [busy EXCEPT ![e] = x.cmd] /\ run' = [run EXCEPT ![e] = "process"]
      /\ \A f \in Engines : f # e => late'[f] = late[f]
      /\ UNCHANGED <<pc, eng, outcome, processed>>
  BY <1>0 DEF Pop, HasCommand, Typed
<1>2. /\ x = ring[e][1] /\ x.cmd \in Callers /\ x.cmd # None
  <2>1. x = ring[e][1] /\ 1 \in DOMAIN ring[e]
    BY <1>1
  <2> HIDE DEF x
  <2> QED
    BY <1>0, <2>1, Entries
<1>3. /\ \A f \in Engines : f # e => ring'[f] = ring[f]
      /\ DOMAIN ring'[e] = 1 .. Len(ring[e]) - 1
      /\ \A k \in DOMAIN ring'[e] : k + 1 \in DOMAIN ring[e] /\ ring'[e][k] = ring[e][k + 1]
      /\ \A k \in DOMAIN ring[e] : k = 1 \/ (k - 1 \in DOMAIN ring'[e] /\ ring'[e][k - 1] = ring[e][k])
  <2>1. ring'[e] = Tail(ring[e]) /\ \A f \in Engines : f # e => ring'[f] = ring[f]
    BY <1>0, <1>1 DEF Typed
  <2>2. /\ DOMAIN ring[e] = 1 .. Len(ring[e]) /\ Len(ring[e]) \in Nat
        /\ DOMAIN Tail(ring[e]) = 1 .. Len(ring[e]) - 1
        /\ \A k \in 1 .. Len(ring[e]) - 1 : Tail(ring[e])[k] = ring[e][k + 1]
    BY <1>1, HeadTailProperties, LenProperties
  <2> QED
    BY <2>1, <2>2
<1>4. ASSUME NEW d \in Callers, pc'[d] = "publish" PROVE Queued(d, FALSE)'
  <2>1. PICK k \in DOMAIN ring[eng[d]] : ring[eng[d]][k] = [cmd |-> d, ready |-> FALSE]
    BY <1>0, <1>1, <1>4 DEF Commands, Queued
  <2>2. eng[d] \in Engines
    BY <1>0, <1>1, <1>4 DEF Progress, Typed
  <2>3. ~(eng[d] = e /\ k = 1)
    BY <1>1, <1>2, <2>1
  <2> QED
    <3>1. PICK j \in DOMAIN ring'[eng[d]] : ring'[eng[d]][j] = [cmd |-> d, ready |-> FALSE]
      <4>1. CASE eng[d] = e
        BY <1>3, <2>1, <2>3, <4>1
      <4>2. CASE eng[d] # e
        BY <1>3, <2>1, <2>2, <4>2
      <4> QED
        BY <4>1, <4>2
    <3> QED
      BY <1>1, <3>1 DEF Queued
<1>5. ASSUME NEW d \in Callers, outcome'[d] = "ok"
      PROVE  d \in processed' \/ InProcess(d)' \/ Queued(d, TRUE)'
  <2>1. eng[d] \in Engines /\ (d \in processed \/ InProcess(d) \/ Queued(d, TRUE))
    BY <1>0, <1>1, <1>5 DEF Progress, Typed, Commands
  <2>2. CASE d \in processed
    BY <1>1, <2>2
  <2>3. CASE InProcess(d)
    BY <1>0, <1>1, <2>1, <2>3 DEF InProcess, Typed
  <2>4. CASE Queued(d, TRUE)
    <3>1. PICK k \in DOMAIN ring[eng[d]] : ring[eng[d]][k] = [cmd |-> d, ready |-> TRUE]
      BY <2>4 DEF Queued
    <3>2. CASE eng[d] = e /\ k = 1
      <4>1. x.cmd = d
        BY <1>2, <3>1, <3>2
      <4> QED
        BY <1>0, <1>1, <3>2, <4>1 DEF InProcess, Typed
    <3>3. CASE ~(eng[d] = e /\ k = 1)
      <4>1. PICK j \in DOMAIN ring'[eng[d]] : ring'[eng[d]][j] = [cmd |-> d, ready |-> TRUE]
        <5>1. CASE eng[d] = e
          BY <1>3, <3>1, <3>3, <5>1
        <5>2. CASE eng[d] # e
          BY <1>3, <2>1, <3>1, <5>2
        <5> QED
          BY <5>1, <5>2
      <4> QED
        BY <1>1, <4>1 DEF Queued
    <3> QED
      BY <3>2, <3>3
  <2> QED
    BY <2>1, <2>2, <2>3, <2>4
<1>6. \A f \in Engines : \A k \in DOMAIN ring'[f] :
        ring'[f][k].ready => outcome'[ring'[f][k].cmd] = "ok"
  BY <1>0, <1>1, <1>3 DEF Commands
<1>7. \A f \in Engines : run'[f] = "process" => busy'[f] # None
  BY <1>0, <1>1, <1>2 DEF Commands, Typed
<1>8. Unseen'
  BY <1>0, <1>1, <1>3 DEF Unseen, LeftBehind, Typed
<1> QED
  BY <1>4, <1>5, <1>6, <1>7, <1>8 DEF Commands

LEMMA ProcessStep ==
  ASSUME IInv, NEW e \in Engines, Process(e) \/ PollNothing(e) \/ LookAtQuit(e)
  PROVE  Commands' /\ Unseen'
<1>0. Typed /\ Commands /\ Unseen /\ Progress
  BY TypesTyped DEF IInv
<1>1. CASE Process(e)
  <2>1. /\ run[e] = "process" /\ run' = [run EXCEPT ![e] = "poll"]
        /\ processed' = processed \cup {busy[e]} /\ busy' = [busy EXCEPT ![e] = None]
        /\ UNCHANGED <<pc, eng, outcome, ring, late>>
    BY <1>1 DEF Process, callVars
  <2>2. ASSUME NEW d \in Callers, outcome[d] = "ok"
        PROVE  d \in processed' \/ InProcess(d)' \/ Queued(d, TRUE)'
    <3>1. d \in processed \/ InProcess(d) \/ Queued(d, TRUE)
      BY <1>0, <2>2 DEF Commands
    <3>2. eng[d] \in Engines
      BY <1>0, <2>2 DEF Progress, Typed
    <3> QED
      BY <1>0, <2>1, <3>1, <3>2 DEF Typed, InProcess, Queued
  <2>3. \A d \in Callers : pc'[d] = "publish" => Queued(d, FALSE)'
    BY <1>0, <2>1 DEF Commands, Queued
  <2>4. Commands'
    BY <1>0, <2>1, <2>2, <2>3 DEF Commands, Typed
  <2>5. Unseen'
    BY <1>0, <2>1 DEF Unseen, LeftBehind, Typed
  <2> QED
    BY <2>4, <2>5
<1>2. CASE PollNothing(e) \/ LookAtQuit(e)
  <2>1. /\ UNCHANGED <<pc, eng, outcome, ring, busy, processed>>
        /\ \A f \in Engines : f # e => run'[f] = run[f] /\ late'[f] = late[f]
        /\ run[e] # "process" /\ run'[e] # "process"
    BY <1>0, <1>2 DEF PollNothing, LookAtQuit, callVars, Typed
  <2>2. \A d \in Callers : eng[d] \in Engines /\ InProcess(d) => InProcess(d)'
    BY <2>1 DEF InProcess
  <2>3. Commands'
    <3>1. ASSUME NEW d \in Callers, outcome[d] = "ok"
          PROVE  d \in processed' \/ InProcess(d)' \/ Queued(d, TRUE)'
      <4>1. d \in processed \/ InProcess(d) \/ Queued(d, TRUE)
        BY <1>0, <3>1 DEF Commands
      <4>2. eng[d] \in Engines
        BY <1>0, <3>1 DEF Progress, Typed
      <4>3. Queued(d, TRUE) => Queued(d, TRUE)'
        BY <2>1 DEF Queued
      <4> QED
        BY <2>1, <2>2, <4>1, <4>2, <4>3
    <3>2. \A d \in Callers : pc'[d] = "publish" => Queued(d, FALSE)'
      BY <1>0, <2>1 DEF Commands, Queued
    <3> QED
      BY <1>0, <2>1, <3>1, <3>2 DEF Commands
  <2>4. ring'[e] = <<>> \/ LeftBehind(e)' \/ run'[e] \notin {"look", "exited"}
    BY <1>0, <1>2 DEF PollNothing, LookAtQuit, HasCommand, Unseen, LeftBehind, Typed
  <2>5. Unseen'
    BY <1>0, <2>1, <2>4 DEF Unseen, LeftBehind
  <2> QED
    BY <2>3, <2>5
<1> QED
  BY <1>1, <1>2

\* What a step of a call leaves to StopAll: shards stay in the map, those that
\* have exited do not run again, and who has been accepted stays accepted.
LEMMA StoppingKept ==
  ASSUME IInv, UNCHANGED <<stop, seen, stopping, known>>,
         \A c \in early' : c \in early /\ c \notin processed',
         \A s \in Symbols : engines[s] # None => engines'[s] = engines[s],
         \A e \in Engines : run[e] = "exited" => run'[e] = "exited",
         \A c \in Callers : outcome[c] = "ok" => outcome'[c] = "ok" /\ eng'[c] = eng[c]
  PROVE  Stopping'
<1>0. Stopping /\ Typed
  BY TypesTyped DEF IInv
<1>1. Registered \subseteq Registered'
  BY <1>0 DEF Registered, Typed
<1>2. known \subseteq stopping \cup {engines'[s] : s \in Symbols \ seen}
  <2> SUFFICES ASSUME NEW e \in known, e \notin stopping
               PROVE  \E s \in Symbols \ seen : engines'[s] = e
    OBVIOUS
  <2>1. PICK s \in Symbols \ seen : engines[s] = e
    BY <1>0 DEF Stopping
  <2>2. e # None
    BY <1>0 DEF Stopping, Registered
  <2> QED
    BY <2>1, <2>2
<1>3. \A e \in stopping : e \in Engines
  BY DEF IInv, TypeOK
<1>4. \A c \in early : c \in Callers
  BY DEF IInv, TypeOK
<1> QED
  BY <1>0, <1>1, <1>2, <1>3, <1>4 DEF Stopping

LEMMA CallStopping ==
  ASSUME IInv, NEW c \in Callers, CallStep(c) \/ \E s \in Target[c] : Call(c, s)
  PROVE  Stopping'
<1>0. Typed /\ Progress /\ Creators
  BY TypesTyped DEF IInv
<1>1. UNCHANGED <<stop, seen, stopping, known, early, processed>>
  BY DEF stopVars, CallStep, Load, LoadOrStore, LoadOrStoreThen, Start, CountShard, Get, ReadNumber,
         Claim, Refuse, Publish, Call
<1>2. \A s \in Symbols : engines[s] # None => engines'[s] = engines[s]
  <2>1. CASE LoadOrStore(c)
    BY <1>0, <2>1 DEF LoadOrStore, LoadOrStoreThen, Typed
  <2>2. CASE ~LoadOrStore(c)
    BY <2>2 DEF CallStep, Load, Start, CountShard, Get, ReadNumber, Claim, Refuse, Publish,
                Call, mgrVars
  <2> QED
    BY <2>1, <2>2
<1>3. \A e \in Engines : run[e] = "exited" => run'[e] = "exited"
  <2>1. CASE Load(c)
    <3>1. c \in Engines /\ (UNCHANGED run \/ run[c] # "exited")
      BY <1>0, <2>1, LoadMakes DEF Progress, Load
    <3> QED
      BY <1>0, <2>1, <3>1 DEF Load, Typed
  <2>2. CASE Start(c)
    <3>1. c \in Engines /\ run[c] = "made"
      BY <1>0, <2>2 DEF Start, Progress
    <3> QED
      BY <1>0, <2>2, <3>1 DEF Start, Typed
  <2>3. CASE ~Load(c) /\ ~Start(c)
    BY <2>3 DEF CallStep, LoadOrStore, LoadOrStoreThen, CountShard, Get, ReadNumber, Claim,
                Refuse, Publish, Call, engVars
  <2> QED
    BY <2>1, <2>2, <2>3
<1>4. /\ pc[c] # "done"
      /\ \A d \in Callers : d # c => outcome'[d] = outcome[d] /\ eng'[d] = eng[d]
  BY <1>0 DEF CallStep, Load, LoadOrStore, LoadOrStoreThen, Start, CountShard, Get, ReadNumber,
              Claim, Refuse, Publish, Call, Finish, Typed
<1>5. \A d \in Callers : outcome[d] = "ok" => outcome'[d] = "ok" /\ eng'[d] = eng[d]
  BY <1>0, <1>4 DEF Progress
<1>6. \A d \in early' : d \in early /\ d \notin processed'
  BY <1>1 DEF IInv, Stopping
<1> QED
  BY <1>1, <1>2, <1>3, <1>5, <1>6, StoppingKept

\* The steps of the engines, the consumer and StopAll leave the calls alone.
LEMMA OtherSteps ==
  ASSUME IInv, UNCHANGED <<mgrVars, pc, sym, eng, outcome>>,
         \A e \in Engines : run'[e] \in {"none", "made"} <=> run[e] \in {"none", "made"},
         \A e \in Engines : run[e] = "made" => run'[e] = "made",
         \A e \in Engines : ring'[e] # <<>> => ring[e] # <<>>
  PROVE  OneEnginePerSymbol' /\ ShardsCounted' /\ Progress' /\ Creators'
<1>0. Typed
  BY TypesTyped DEF IInv
<1>1. OneEnginePerSymbol'
  BY DEF IInv, OneEnginePerSymbol, Registered, mgrVars
<1>2. ShardsCounted'
  BY DEF IInv, ShardsCounted, Creating, Registered, mgrVars
<1>3. Progress' /\ Creators'
  BY DEF IInv, Progress, Creators, mgrVars
<1> QED
  BY <1>1, <1>2, <1>3

LEMMA CallIInv ==
  ASSUME IInv, NEW c \in Callers, CallStep(c) \/ \E s \in Target[c] : Call(c, s)
  PROVE  IInv'
<1>1. Commands' /\ Unseen'
  <2>1. CASE Claim(c)
    BY <2>1, ClaimStep
  <2>2. CASE Publish(c)
    BY <2>2, PublishStep
  <2>3. CASE ~Claim(c) /\ ~Publish(c)
    BY <2>3, KeptSteps, KeptStep DEF CallStep
  <2> QED
    BY <2>1, <2>2, <2>3
<1> QED
  BY <1>1, CallTypes, ProgressStep, OneEngineStep, CountStep, CallStopping DEF IInv

\* A call that is made again has no command of its own left anywhere, so what was
\* accepted from it before has been processed.
LEMMA AgainIInv ==
  ASSUME IInv, NEW c \in Callers, Again(c)
  PROVE  IInv'
<1>0. Typed /\ Progress /\ Creators /\ Commands /\ Unseen /\ Stopping
  BY TypesTyped DEF IInv
<1>1. /\ pc[c] = "done" /\ pc' = [pc EXCEPT ![c] = IF c \in Places THEN "load" ELSE "get"]
      /\ eng' = [eng EXCEPT ![c] = None] /\ outcome' = [outcome EXCEPT ![c] = "none"]
      /\ processed' = processed \ {c}
      /\ UNCHANGED <<engines, count, sym, run, ring, busy, late, stop, seen, stopping, known,
                     early>>
  BY DEF Again, Goto, mgrVars, engVars, stopVars
<1>2. TypeOK'
  <2>1. TypeOK
    BY DEF IInv
  <2> QED
    BY <1>1, <2>1 DEF TypeOK, Again, mgrVars, engVars, stopVars
<1>3. OneEnginePerSymbol' /\ ShardsCounted'
  <2>1. Registered' = Registered /\ Creating' = Creating
    BY <1>0, <1>1 DEF Registered, Creating, Typed
  <2> QED
    BY <1>0, <1>1, <2>1 DEF IInv, OneEnginePerSymbol, ShardsCounted, Typed
<1>4. Progress' /\ Creators'
  BY <1>0, <1>1 DEF Typed, Progress, Creators
<1>5. Commands'
  <2>1. ASSUME NEW d \in Callers, pc'[d] = "publish" PROVE Queued(d, FALSE)'
    BY <1>0, <1>1, <2>1 DEF Typed, Commands, Queued
  <2>2. ASSUME NEW d \in Callers, outcome'[d] = "ok"
        PROVE  d \in processed' \/ InProcess(d)' \/ Queued(d, TRUE)'
    BY <1>0, <1>1, <2>2 DEF Typed, Commands, Queued, InProcess
  <2>3. ASSUME NEW e \in Engines, NEW k \in DOMAIN ring[e], ring[e][k].ready
        PROVE  outcome'[ring[e][k].cmd] = "ok"
    <3>1. ring[e][k].cmd # c /\ ring[e][k].cmd \in Callers
      BY <1>0, Entries DEF Again, Through
    <3> QED
      BY <1>0, <1>1, <2>3, <3>1 DEF Typed, Commands
  <2> QED
    BY <1>0, <1>1, <2>1, <2>2, <2>3 DEF Commands
<1>6. Unseen'
  BY <1>0, <1>1 DEF Unseen, LeftBehind
<1>7. Stopping'
  <2>1. outcome[c] = "ok" => c \in processed
    <3>1. ASSUME outcome[c] = "ok" PROVE ~InProcess(c) /\ ~Queued(c, TRUE)
      BY <1>0, <3>1 DEF Again, Through, InProcess, Queued, Progress, Typed
    <3> QED
      BY <1>0, <3>1 DEF Commands
  <2>2. \A d \in early : /\ d # c /\ d \in Callers /\ d \notin processed
                        /\ outcome[d] = "ok" /\ eng[d] \in known
    BY <1>0, <2>1 DEF IInv, TypeOK, Stopping
  <2> QED
    BY <1>0, <1>1, <2>2 DEF Typed, Stopping, Registered
<1> QED
  BY <1>2, <1>3, <1>4, <1>5, <1>6, <1>7 DEF IInv

LEMMA EngineIInv ==
  ASSUME IInv, NEW e \in Engines, EngineStep(e)
  PROVE  IInv'
<1>0. Typed
  BY TypesTyped DEF IInv
<1>1. /\ UNCHANGED <<mgrVars, pc, sym, eng, outcome, stop, seen, stopping, known>>
      /\ \A c \in early' : c \in early /\ c \notin processed'
  BY DEF EngineStep, Pop, Process, PollNothing, LookAtQuit, callVars, stopVars, IInv, Stopping
<1>2. \A f \in Engines : /\ run'[f] \in {"none", "made"} <=> run[f] \in {"none", "made"}
                         /\ run[f] = "made" => run'[f] = "made"
                         /\ run[f] = "exited" => run'[f] = "exited"
  BY <1>0 DEF EngineStep, Pop, Process, PollNothing, LookAtQuit, Typed
<1>3. \A f \in Engines : ring'[f] # <<>> => ring[f] # <<>>
  <2>1. CASE Pop(e)
    BY <1>0, <2>1 DEF Pop, HasCommand, Typed
  <2>2. CASE ~Pop(e)
    BY <2>2 DEF EngineStep, Process, PollNothing, LookAtQuit
  <2> QED
    BY <2>1, <2>2
<1>4. Commands' /\ Unseen'
  BY PopStep, ProcessStep DEF EngineStep
<1>5. OneEnginePerSymbol' /\ ShardsCounted' /\ Progress' /\ Creators'
  BY <1>1, <1>2, <1>3, OtherSteps
<1>6. Stopping'
  BY <1>1, <1>2, StoppingKept DEF mgrVars
<1>7. TypeOK'
  BY EngineTypes
<1> QED
  BY <1>4, <1>5, <1>6, <1>7 DEF IInv

LEMMA StopIInv ==
  ASSUME IInv, StopAll \/ StopStep \/ ConsumerLeaves \/ \E e \in Engines : PollEvent(e)
  PROVE  IInv'
<1>0. Typed /\ Commands /\ Unseen /\ Stopping
  BY TypesTyped DEF IInv
<1>1. UNCHANGED <<mgrVars, callVars, run, ring, busy, processed, late>>
  BY DEF StopAll, StopStep, Visit, CloseQuit, Stopped, ConsumerLeaves, PollEvent, engVars
<1>2. TypeOK'
  BY EngineTypes, StopTypes
<1>3. OneEnginePerSymbol' /\ ShardsCounted' /\ Progress' /\ Creators'
  BY <1>1, OtherSteps DEF callVars
<1>4. Commands' /\ Unseen'
  BY <1>0, <1>1 DEF Commands, Queued, InProcess, Unseen, LeftBehind, callVars
<1>5. Stopping'
  <2>1. CASE StopAll
    <3>1. ASSUME NEW c \in early'
          PROVE  outcome[c] = "ok" /\ eng[c] \in Registered /\ c \notin processed
      BY <2>1, <3>1 DEF StopAll, IInv, Progress, OneEnginePerSymbol, Registered
    <3>2. known' = Registered
      BY <2>1 DEF StopAll, Registered
    <3>3. known' \subseteq {engines[s] : s \in Symbols \ seen}
      BY <1>0, <2>1, <3>2 DEF StopAll, Stopping, Registered
    <3> QED
      BY <1>1, <2>1, <3>1, <3>2, <3>3 DEF StopAll, Stopping, Registered, mgrVars, callVars
  <2>2. ASSUME NEW s \in Symbols, Visit(s) PROVE Stopping'
    <3>1. known \subseteq stopping' \cup {engines[t] : t \in Symbols \ seen'}
      <4> SUFFICES ASSUME NEW e \in known, e \notin stopping'
                   PROVE  \E t \in Symbols \ seen' : engines[t] = e
        OBVIOUS
      <4>1. e # None /\ e \notin stopping
        BY <1>0, <2>2 DEF Stopping, Registered, Visit
      <4>2. PICK t \in Symbols \ seen : engines[t] = e
        BY <1>0, <4>1 DEF Stopping
      <4>3. t # s
        BY <2>2, <4>1, <4>2 DEF Visit
      <4> QED
        BY <2>2, <4>2, <4>3 DEF Visit
    <3> QED
      BY <1>0, <1>1, <2>2, <3>1 DEF Visit, Stopping, Registered, mgrVars, callVars
  <2>3. CASE Stopped
    BY <1>0, <1>1, <2>3 DEF Stopped, Stopping, Registered, mgrVars, callVars
  <2>4. ASSUME NEW e \in Engines, CloseQuit(e) \/ PollEvent(e) PROVE Stopping'
    BY <1>0, <1>1, <2>4 DEF CloseQuit, PollEvent, stopVars, Stopping, Registered, mgrVars, callVars
  <2>5. CASE ConsumerLeaves
    BY <1>0, <1>1, <2>5 DEF ConsumerLeaves, stopVars, Stopping, Registered, mgrVars, callVars
  <2> QED
    BY <2>1, <2>2, <2>3, <2>4, <2>5 DEF StopStep
<1> QED
  BY <1>2, <1>3, <1>4, <1>5 DEF IInv

LEMMA NextIInv == IInv /\ [Next]_vars => IInv'
<1> SUFFICES ASSUME IInv, [Next]_vars PROVE IInv'
  OBVIOUS
<1>1. CASE Next
  BY <1>1, CallIInv, AgainIInv, EngineIInv, StopIInv DEF Next
<1>2. CASE UNCHANGED vars
  BY <1>2 DEF vars, mgrVars, callVars, engVars, stopVars, IInv, TypeOK, OneEnginePerSymbol,
              ShardsCounted, Creating, Registered, Progress, Creators, Commands, Queued,
              InProcess, Unseen, LeftBehind, Stopping
<1> QED
  BY <1>1, <1>2

(***************************************************************************)
(* The inductive invariant: who has come how far, what is in which ring,   *)
(* what StopAll has still to meet.                                         *)
(***************************************************************************)
THEOREM Invariance == Spec => []IInv
  BY InitIInv, NextIInv, PTL DEF Spec

(***************************************************************************)
(* However many goroutines create engines for however many symbols: only   *)
(* the engine in the map of shards runs and receives commands.             *)
(***************************************************************************)
THEOREM OneEngine == Spec => []OneEnginePerSymbol
<1>1. IInv => OneEnginePerSymbol
  BY DEF IInv
<1> QED
  BY <1>1, Invariance, PTL

(***************************************************************************)
(* The counter of shards differs from the map by the creators on their way *)
(* to it, and by nothing else.                                             *)
(***************************************************************************)
THEOREM Counted == Spec => []ShardsCounted
<1>1. IInv => ShardsCounted
  BY DEF IInv
<1> QED
  BY <1>1, Invariance, PTL

(***************************************************************************)
(* When StopAll returns, the shards it was called on have exited and what  *)
(* they had accepted before is processed, or came after their last poll.   *)
(***************************************************************************)
THEOREM Drained == Spec => []StopDrains
<1>1. IInv => StopDrains
  <2> SUFFICES ASSUME IInv, stop = "returned"
               PROVE  /\ \A e \in known : run[e] = "exited"
                      /\ \A c \in early : LeftBehind(eng[c])
    BY DEF StopDrains
  <2>1. \A e \in known : e \in Engines /\ run[e] = "exited"
    BY DEF IInv, Stopping, TypeOK
  <2>2. ASSUME NEW c \in early PROVE LeftBehind(eng[c])
    <3>1. /\ c \in Callers /\ c \notin processed /\ outcome[c] = "ok"
          /\ eng[c] \in Engines /\ run[eng[c]] = "exited"
      BY <2>1 DEF IInv, Stopping, TypeOK
    <3>2. Queued(c, TRUE)
      BY <3>1 DEF IInv, Commands, InProcess
    <3>3. ring[eng[c]] # <<>>
      BY <3>2 DEF Queued
    <3> QED
      BY <3>1, <3>3 DEF IInv, Unseen
  <2> QED
    BY <2>1, <2>2
<1> QED
  BY <1>1, Invariance, PTL
=============================================================================
