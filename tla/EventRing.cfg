\* Five pushes of two kinds of events through two slots: a second and a third lap.
CONSTANTS
  e1 = e1
  e2 = e2
  Zero = Zero
  Events = {e1, e2}
  Cap = 2
  MaxPush = 5
SPECIFICATION FairSpec
INVARIANT IInv
INVARIANT NoSlotRace
INVARIANT EventsWhole
PROPERTY ImplementsFairFifo
PROPERTY PushReturns
