------------------------------ MODULE MC_Shim ------------------------------
(* Model-checking instance of Shim.                                        *)
EXTENDS Shim

CONSTANTS c1, c2
=============================================================================
