\* The claims about IOC and FOK orders: one maker and one taker.
CONSTANTS
  o1 = o1
  o2 = o2
  NoObj = NoObj
  NoNode = NoNode
  NoLoc = NoLoc
  Objs = {o1, o2}
  OrderIds = {1, 2}
  Prices = {1, 2}
  Qtys = {1, 2}
  OrderTypes = {"Limit", "IOC", "FOK"}
  InCap = 1
  OutCap = 3
  MaxDepth = 2
  MaxCancels = 1
SPECIFICATION Spec
SYMMETRY Symmetry
CONSTRAINT OneAtATime
INVARIANT FillsOnlyWhatCrosses
