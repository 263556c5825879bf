\* Four orders and a cancel, one command at a time: the book and the matching.
CONSTANTS
  o1 = o1
  o2 = o2
  o3 = o3
  o4 = o4
  NoObj = NoObj
  NoNode = NoNode
  NoLoc = NoLoc
  Objs = {o1, o2, o3, o4}
  OrderIds = {1, 2, 3, 4}
  Prices = {1, 2}
  Qtys = {1, 2}
  OrderTypes = {"Limit", "IOC", "FOK", "PostOnly"}
  InCap = 1
  OutCap = 3
  MaxDepth = 1
  MaxCancels = 1
SPECIFICATION Spec
SYMMETRY Symmetry
CONSTRAINT OneAtATime
CONSTRAINT FirstOrderBuys
INVARIANT BookConsistent
PROPERTY ImplementsMatching
