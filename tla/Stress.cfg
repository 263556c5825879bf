\* Rings of two slots, a depth that fits and one that does not, a maker and
\* two takers.
CONSTANTS
  m1 = m1
  t1 = t1
  t2 = t2
  Makers = {m1}
  Takers = {t1, t2}
  Depths = {2, 3}
  InCap = 2
  OutCap = 2
  MaxOrders = 4
SPECIFICATION FairDriverSpec
CHECK_DEADLOCK FALSE
INVARIANT ReportAccounts
PROPERTY WarmupEndsIffItFits
PROPERTY WorkEnds
