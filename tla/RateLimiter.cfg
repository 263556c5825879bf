\* Three goroutines, bursts of two orders, an order every two ticks.
CONSTANTS
  c1 = c1
  c2 = c2
  c3 = c3
  Callers = {c1, c2, c3}
  Cost = 2
  Max = 4
  MaxClock = 6
SPECIFICATION Spec
INVARIANT IInv
INVARIANT EveryWindowBounded
PROPERTY FreshCallsServed
