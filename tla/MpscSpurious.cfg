\* Five commands and symmetry, for what the comment on TrySubmit says.
CONSTANTS
  p1 = p1
  p2 = p2
  p3 = p3
  c1 = c1
  c2 = c2
  c3 = c3
  c4 = c4
  c5 = c5
  Nil = Nil
  Producers = {p1, p2, p3}
  Spinning = {p1, p2}
  Cmds = {c1, c2, c3, c4, c5}
  Cap = 2
SPECIFICATION BSpec
SYMMETRY Symmetry
INVARIANT RefusedOnlyWhenFull
