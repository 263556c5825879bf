\* Two producers that spin and one that gives up, four commands through two
\* slots: both slots see a second lap.  No symmetry: there are liveness
\* properties.
CONSTANTS
  p1 = p1
  p2 = p2
  p3 = p3
  c1 = c1
  c2 = c2
  c3 = c3
  c4 = c4
  Nil = Nil
  Producers = {p1, p2, p3}
  Spinning = {p1, p2}
  Cmds = {c1, c2, c3, c4}
  Cap = 2
SPECIFICATION BFairSpec
INVARIANT IInv
INVARIANT NoSlotRace
INVARIANT DeliveredInClaimOrder
INVARIANT PublishedIntact
INVARIANT RefusedWhenFullOrOvertaken
PROPERTY ImplementsFifo
PROPERTY ImplementsFairFifo
PROPERTY SpinningIsProductive
