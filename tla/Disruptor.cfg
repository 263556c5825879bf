\* Five pushes of two items through two slots, and a goroutine that asks for
\* the length meanwhile.
CONSTANTS
  i1 = i1
  i2 = i2
  Nil = Nil
  Items = {i1, i2}
  Cap = 2
  MaxPush = 5
SPECIFICATION FairSpec
INVARIANT IInv
INVARIANT LenHonest
PROPERTY ImplementsFairFifo
