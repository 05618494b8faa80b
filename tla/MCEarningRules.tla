--------------------------- MODULE MCEarningRules ---------------------------
(* An instance of EarningRules for TLC.                                      *)
EXTENDS EarningRules, TLC
CONSTANTS v1, v2, v3
MCSymmetry == Permutations({v1, v2, v3})
=============================================================================
