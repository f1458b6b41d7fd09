-------------------------- MODULE MC_OneTimeCodes --------------------------
(* OneTimeCodes with two requests at once.                                  *)
EXTENDS OneTimeCodes, TLC

CONSTANTS r1, r2

MC_Requests == {r1, r2}
MC_Symmetry == Permutations(MC_Requests)
=============================================================================
