----------------------------- MODULE Histogram -----------------------------
(***************************************************************************)
(* cmd/stress/histogram.go: the latency histogram.  Goroutines record      *)
(* samples with one atomic operation at a time, a reader computes a        *)
(* percentile meanwhile, and in the end, when everybody has finished, the  *)
(* histograms are merged into one.                                         *)
(***************************************************************************)
EXTENDS Integers, Sequences, FiniteSets, FiniteSetsExt

CONSTANTS Recorders,   \* goroutines that record
          Hists,       \* the histograms they record into
          Samples,     \* measured differences; a clock may step back
          K,           \* number of buckets (64)
          MaxSamples   \* bound: how many samples are recorded

Bins == 0 .. K - 1

\* Samples that are not positive count as 1 ns.
Clamp(ns) == IF ns <= 0 THEN 1 ELSE ns

Falls(ns, b) == 2^b <= ns /\ ns < 2^(b + 1)

\* 64 buckets have room for every int64.
ASSUME HistogramAssumption ==
  /\ Samples \subseteq Int
  /\ K \in Nat \ {0}
  /\ \A ns \in Samples : \E b \in Bins : Falls(Clamp(ns), b)
  /\ MaxSamples \in Nat
  /\ "none" \notin Hists

VARIABLES buckets, count, sum, max,  \* of each histogram
          pc, at, cur,   \* of each recorder: the next step, its entry of log, what it loaded
          reader,        \* a call of Percentile in progress, or its answer
          merged, left,  \* the merged histogram; the histograms not yet merged into it
          log            \* what Record was called with (for the properties)

histVars == <<buckets, count, sum, max>>
mergeVars == <<merged, left>>
vars == <<histVars, pc, at, cur, reader, mergeVars, log>>

EmptyBins == [b \in Bins |-> 0]

\* bits.Len64(ns) - 1.
Bin(ns) == CHOOSE b \in Bins : Falls(ns, b)

Midpoint(b) == 2^b + 2^b \div 2

None == -1

Idle == [h |-> "none", target |-> 0, pos |-> 0, cum |-> 0, answer |-> None, began |-> EmptyBins]

Init ==
  /\ buckets = [h \in Hists |-> EmptyBins]
  /\ count = [h \in Hists |-> 0] /\ sum = [h \in Hists |-> 0] /\ max = [h \in Hists |-> 0]
  /\ pc = [r \in Recorders |-> "idle"]
  /\ at = [r \in Recorders |-> 0]
  /\ cur = [r \in Recorders |-> 0]
  /\ reader = Idle
  /\ merged = [buckets |-> EmptyBins, count |-> 0, sum |-> 0, max |-> 0]
  /\ left = Hists
  /\ log = <<>>
-----------------------------------------------------------------------------
(* Record.                                                                 *)

Home(r) == log[at[r]].h
Sample(r) == log[at[r]].ns

GoTo(r, from, to) == pc[r] = from /\ pc' = [pc EXCEPT ![r] = to]

Record(r, h, ns) ==
  /\ left = Hists
  /\ Len(log) < MaxSamples
  /\ GoTo(r, "idle", "bucket")
  /\ log' = Append(log, [h |-> h, ns |-> Clamp(ns)])
  /\ at' = [at EXCEPT ![r] = Len(log) + 1]
  /\ UNCHANGED <<histVars, cur, reader, mergeVars>>

AddBucket(r) ==
  /\ GoTo(r, "bucket", "count")
  /\ buckets' = [buckets EXCEPT ![Home(r)][Bin(Sample(r))] = @ + 1]
  /\ UNCHANGED <<count, sum, max, at, cur, reader, mergeVars, log>>

AddCount(r) ==
  /\ GoTo(r, "count", "sum")
  /\ count' = [count EXCEPT ![Home(r)] = @ + 1]
  /\ UNCHANGED <<buckets, sum, max, at, cur, reader, mergeVars, log>>

AddSum(r) ==
  /\ GoTo(r, "sum", "load")
  /\ sum' = [sum EXCEPT ![Home(r)] = @ + Sample(r)]
  /\ UNCHANGED <<buckets, count, max, at, cur, reader, mergeVars, log>>

LoadMax(r) ==
  /\ GoTo(r, "load", IF Sample(r) <= max[Home(r)] THEN "idle" ELSE "cas")
  /\ cur' = [cur EXCEPT ![r] = max[Home(r)]]
  /\ UNCHANGED <<histVars, at, reader, mergeVars, log>>

\* A bug the runs notice: the maximum is stored without a comparison.
StoreMax(r) ==
  /\ GoTo(r, "cas", "idle")
  /\ max' = [max EXCEPT ![Home(r)] = Sample(r)]
  /\ UNCHANGED <<buckets, count, sum, at, cur, reader, mergeVars, log>>

\* A bug the runs notice: after a lost race the old value is compared again.
CasMaxNoReload(r) ==
  /\ pc[r] = "cas"
  /\ IF max[Home(r)] = cur[r]
       THEN /\ GoTo(r, "cas", "idle")
            /\ max' = [max EXCEPT ![Home(r)] = Sample(r)]
       ELSE GoTo(r, "cas", "cas") /\ UNCHANGED max
  /\ UNCHANGED <<buckets, count, sum, at, cur, reader, mergeVars, log>>

CasMax(r) ==
  /\ pc[r] = "cas"
  /\ IF max[Home(r)] = cur[r]
       THEN /\ GoTo(r, "cas", "idle")
            /\ max' = [max EXCEPT ![Home(r)] = Sample(r)]
       ELSE GoTo(r, "cas", "load") /\ UNCHANGED max
  /\ UNCHANGED <<buckets, count, sum, at, cur, reader, mergeVars, log>>

RecordStep(r) == AddBucket(r) \/ AddCount(r) \/ AddSum(r) \/ LoadMax(r) \/ CasMax(r)
-----------------------------------------------------------------------------
(* Percentile.  For a p in [0, 1] the target is any rank below the count.  *)

\* A bug the runs notice: for p = 1 the rank is the count itself.
RanksTooHigh(n) == 1 .. n

Ranks(n) == 0 .. n - 1

Percentile(h) ==
  /\ reader.h = "none"
  /\ \E target \in Ranks(count[h]) :
       reader' = [Idle EXCEPT !.h = h, !.target = target, !.began = buckets[h]]
  /\ UNCHANGED <<histVars, pc, at, cur, mergeVars, log>>

\* One iteration of the loop over the buckets; when it runs out of buckets the
\* answer is the maximum.
ReadBucket ==
  /\ reader.h \in Hists /\ reader.answer = None
  /\ reader' =
       IF reader.pos = K
         THEN [reader EXCEPT !.answer = max[reader.h]]
         ELSE LET cum == reader.cum + buckets[reader.h][reader.pos]
              IN IF cum > reader.target
                   THEN [reader EXCEPT !.answer = Midpoint(reader.pos)]
                   ELSE [reader EXCEPT !.cum = cum, !.pos = @ + 1]
  /\ UNCHANGED <<histVars, pc, at, cur, mergeVars, log>>

Answered ==
  /\ reader.answer # None
  /\ reader' = Idle
  /\ UNCHANGED <<histVars, pc, at, cur, mergeVars, log>>
-----------------------------------------------------------------------------
\* A bug the runs notice: the maximum of the histogram merged last.
LastMax(h) == max[h]

MergedMax(h) == IF max[h] <= merged.max THEN merged.max ELSE max[h]

\* Merge, called when every goroutine that records has returned: nobody sees
\* its steps.
Merge(h) ==
  /\ h \in left
  /\ \A r \in Recorders : pc[r] = "idle"
  /\ merged' = [buckets |-> [b \in Bins |-> merged.buckets[b] + buckets[h][b]],
                count |-> merged.count + count[h],
                sum |-> merged.sum + sum[h],
                max |-> MergedMax(h)]
  /\ left' = left \ {h}
  /\ UNCHANGED <<histVars, pc, at, cur, reader, log>>

Next ==
  \/ \E r \in Recorders, h \in Hists, ns \in Samples : Record(r, h, ns)
  \/ \E r \in Recorders : RecordStep(r)
  \/ \E h \in Hists : Percentile(h) \/ Merge(h)
  \/ ReadBucket \/ Answered

Spec == Init /\ [][Next]_vars

\* A goroutine that has begun to record is scheduled.
FairSpec == Spec /\ \A r \in Recorders : WF_vars(RecordStep(r))
-----------------------------------------------------------------------------
Entries == [h : Hists, ns : {Clamp(ns) : ns \in Samples}]

TypeOK ==
  /\ buckets \in [Hists -> [Bins -> Nat]]
  /\ count \in [Hists -> Nat] /\ sum \in [Hists -> Nat] /\ max \in [Hists -> Nat]
  /\ pc \in [Recorders -> {"idle", "bucket", "count", "sum", "load", "cas"}]
  /\ log \in Seq(Entries)
  /\ at \in [Recorders -> 0 .. Len(log)]
  /\ cur \in [Recorders -> Nat]
  /\ reader \in [h : Hists \cup {"none"}, target : Nat, pos : 0 .. K, cum : Nat,
                 answer : {None} \cup {Midpoint(b) : b \in Bins} \cup Nat, began : [Bins -> Nat]]
  /\ merged \in [buckets : [Bins -> Nat], count : Nat, sum : Nat, max : Nat]
  /\ left \subseteq Hists

InProgress(k) == \E r \in Recorders : pc[r] # "idle" /\ at[r] = k

(***************************************************************************)
(* However the compare-and-swap loops of concurrent recorders interleave,  *)
(* the maximum is never below a sample whose Record has returned, and      *)
(* never a value that nobody recorded.                                     *)
(***************************************************************************)
MaxExact ==
  /\ \A k \in DOMAIN log : InProgress(k) \/ log[k].ns <= max[log[k].h]
  /\ \A h \in Hists : max[h] = 0 \/ \E k \in DOMAIN log : log[k] = [h |-> h, ns |-> max[h]]

\* A recorder that goes for the maximum has loaded a smaller one.
Raising ==
  \A r \in Recorders :
    /\ pc[r] # "idle" => at[r] \in DOMAIN log
    /\ pc[r] = "cas" => cur[r] < Sample(r)

\* The sum of f over a finite set, as a number of pairs.
SumOver(f, S) == Cardinality(UNION {{x} \X (1 .. f[x]) : x \in S})

\* The samples in the buckets 0 .. b.
SampleCount(bins, b) == SumOver(bins, 0 .. b)

Ns == [k \in DOMAIN log |-> log[k].ns]

InBin(S, b) == {k \in S : Bin(log[k].ns) = b}

\* What h was to record, but for the calls that are still at one of the steps.
Past(h, steps) ==
  {k \in DOMAIN log : log[k].h = h /\ \A r \in Recorders : at[r] = k => pc[r] \notin steps}

\* Every sample is in each of the three numbers, once its call is past it.
Counted ==
  /\ \A r, q \in Recorders : pc[r] # "idle" /\ at[r] = at[q] => r = q
  /\ \A h \in Hists :
       /\ \A b \in Bins : buckets[h][b] = Cardinality(InBin(Past(h, {"bucket"}), b))
       /\ SampleCount(buckets[h], K - 1) = Cardinality(Past(h, {"bucket"}))
       /\ count[h] = Cardinality(Past(h, {"bucket", "count"}))
       /\ sum[h] = SumOver(Ns, Past(h, {"bucket", "count", "sum"}))

\* A scan has seen no fewer samples than there were in the buckets it has passed
\* when it began, no more than there are now, and not enough.
Scanning ==
  /\ reader.answer # None => reader.h \in Hists
  /\ reader.h \in Hists =>
       /\ \A b \in Bins : reader.began[b] <= buckets[reader.h][b]
       /\ SampleCount(reader.began, reader.pos - 1) <= reader.cum
       /\ reader.cum <= SampleCount(buckets[reader.h], reader.pos - 1)
       /\ reader.cum <= reader.target
       /\ reader.target < SampleCount(reader.began, K - 1)

Gone == {k \in DOMAIN log : log[k].h \notin left}

Merging ==
  /\ left # Hists => \A r \in Recorders : pc[r] = "idle"
  /\ \A b \in Bins : merged.buckets[b] = Cardinality(InBin(Gone, b))
  /\ merged.count = Cardinality(Gone)
  /\ merged.sum = SumOver(Ns, Gone)
  /\ merged.max \in {0} \cup {log[k].ns : k \in Gone}
  /\ \A k \in Gone : log[k].ns <= merged.max

(***************************************************************************)
(* A percentile read while others record lies in a bucket that really      *)
(* holds the rank: fewer samples than the rank calls for were in the lower *)
(* buckets when the call began, and enough are up to its bucket now.  The  *)
(* scan never runs out of buckets, because Record adds to a bucket before  *)
(* it adds to the count.                                                   *)
(***************************************************************************)
PercentileBracketed ==
  reader.answer # None =>
    \E b \in Bins :
      /\ reader.answer = Midpoint(b)
      /\ SampleCount(reader.began, b - 1) <= reader.target
      /\ reader.target < SampleCount(buckets[reader.h], b)

(***************************************************************************)
(* Once every histogram is merged the result accounts for every sample     *)
(* recorded, by whatever goroutine and into whatever histogram, once.      *)
(***************************************************************************)
MergedExact ==
  left = {} =>
    /\ \A b \in Bins : merged.buckets[b] = Cardinality(InBin(DOMAIN log, b))
    /\ merged.count = Len(log)
    /\ merged.sum = SumOver(Ns, DOMAIN log)
    /\ merged.max = Max({0} \cup {log[k].ns : k \in DOMAIN log})

IInv == TypeOK /\ MaxExact /\ Raising /\ Counted /\ Scanning /\ Merging

(***************************************************************************)
(* Record always returns: each lost race raises the maximum that the next  *)
(* attempt compares with.                                                  *)
(***************************************************************************)
RecordReturns == \A r \in Recorders : pc[r] # "idle" ~> pc[r] = "idle"
=============================================================================
