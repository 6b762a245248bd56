---------------------------- MODULE MC_VsockCID ----------------------------
(* Model-checking instance of VsockCID: two shims, CIDs 3 and 4.          *)
EXTENDS VsockCID, TLC

CONSTANTS s1, s2

MCShims == {s1, s2}

MCSymmetry == Permutations(MCShims)
=============================================================================
