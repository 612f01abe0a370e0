------------------------- MODULE MCAutoPosterMission -------------------------
(* Model checking instance of AutoPosterMission: interchangeable callers. *)
EXTENDS AutoPosterMission, TLC

CallerSymmetry == Permutations(Callers)
=============================================================================
