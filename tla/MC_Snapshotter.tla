--------------------------- MODULE MC_Snapshotter ---------------------------
(* Model-checking instance of Snapshotter: three keys, ids up to four.     *)
EXTENDS Snapshotter, TLC

CONSTANTS k1, k2, k3

MCKeys == {k1, k2, k3}

MCSymmetry == Permutations(MCKeys)
=============================================================================
