------------------------------- MODULE MCMpsc -------------------------------
(* Instances of MpscBackpressure for TLC; each run's cfg gives the constants. *)
EXTENDS MpscBackpressure, TLC

Symmetry == Permutations(Spinning) \cup Permutations(Producers \ Spinning)
              \cup Permutations(Cmds)
=============================================================================
