\* Two goroutines, three calls of which one is made for ever, two symbols, and
\* StopAll at any moment; the consumer may leave.  The system stops when the
\* engines have exited, or wait for a consumer that is gone.
CONSTANTS
  a = a
  b = b
  s1 = s1
  s2 = s2
  None = None
  Places = {a, b}
  Cancels = {x}
  Loops = {x}
  Symbols = {s1, s2}
  Target <- MCTarget
  After <- MCAfter
  InCap = 2
  OutCap = 1
  QuitPeriod = 2
SPECIFICATION FairSpec
INVARIANT IInv
INVARIANT OneEnginePerSymbol
INVARIANT ShardsCounted
INVARIANT StopDrains
PROPERTY AcceptedIsProcessed
PROPERTY StopReturns
CHECK_DEADLOCK FALSE
