--------------------------- MODULE MCEngineStream ---------------------------
(* Instances of EngineStream for TLC; each run's cfg gives the constants.  *)
EXTENDS EngineStream

Symmetry == Permutations(Objs)
=============================================================================
