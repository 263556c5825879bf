\* Submitters, engine and consumer interleaved freely, pushes that block, and
\* fewer objects than orders.
CONSTANTS
  o1 = o1
  o2 = o2
  NoObj = NoObj
  NoNode = NoNode
  NoLoc = NoLoc
  NotResting = NotResting
  Objs = {o1, o2}
  OrderIds = {1, 2, 3}
  Prices = {1, 2}
  Qtys = {1, 2}
  OrderTypes = {"Limit", "Market", "IOC", "FOK", "PostOnly", "Unknown"}
  InCap = 1
  OutCap = 1
  MaxDepth = 2
  MaxCancels = 1
SPECIFICATION StreamSpec
SYMMETRY Symmetry
INVARIANT StreamInv
INVARIANT OneOwner
INVARIANT ReplicaAgrees
PROPERTY StreamGapless
PROPERTY LedgerBalances
