--------------------------- MODULE MC_DevmapperV1 ---------------------------
(* Model-checking instance of DevmapperV1: three keys, ids up to four.     *)
EXTENDS DevmapperV1, TLC

CONSTANTS k1, k2, k3

MCKeys == {k1, k2, k3}

MCSymmetry == Permutations(MCKeys)
=============================================================================
