\* Without symmetry, for liveness: pushes block on a ring of one slot.
CONSTANTS
  o1 = o1
  o2 = o2
  NoObj = NoObj
  NoNode = NoNode
  NoLoc = NoLoc
  Objs = {o1, o2}
  OrderIds = {1, 2}
  Prices = {1, 2}
  Qtys = {1, 2}
  OrderTypes = {"Limit", "IOC"}
  InCap = 1
  OutCap = 1
  MaxDepth = 2
  MaxCancels = 1
SPECIFICATION FairSpec
PROPERTY CommandsAnswered
