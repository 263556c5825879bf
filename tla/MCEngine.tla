------------------------------ MODULE MCEngine ------------------------------
(* Instances of Engine for TLC; each run's cfg gives the constants.        *)
EXTENDS Engine

Symmetry == Permutations(Objs)

\* For runs about what the engine computes rather than about interleavings:
\* the next command is submitted when the last one is answered and its events
\* are polled.
OneAtATime ==
  inbound = <<>> \/ (pc = "idle" /\ outbound = <<>>)

\* Buying and selling mirror each other when prices are mirrored: it is enough
\* to look at the histories whose first order buys.
FirstOrderBuys == \A o \in Objs : order[o].id = 1 => order[o].side = "Buy"
=============================================================================
