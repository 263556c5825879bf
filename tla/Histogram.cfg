\* Two goroutines, three samples of different buckets or out of the clock's
\* order, and a percentile read while they record.
CONSTANTS
  r1 = r1
  r2 = r2
  h1 = h1
  h2 = h2
  Recorders = {r1, r2}
  Hists = {h1, h2}
  Samples = {0, 2, 5}
  K = 3
  MaxSamples = 3
SPECIFICATION FairSpec
CHECK_DEADLOCK FALSE
INVARIANT IInv
INVARIANT PercentileBracketed
INVARIANT MergedExact
PROPERTY RecordReturns
