------------------------------ MODULE MCConsole ------------------------------
(* Instances of Console for TLC: one preset, whose SKU can be typed in two    *)
(* ways, and another reward the catalogue starts with.                        *)
EXTENDS Console
CONSTANTS Coffee, coffee, Mug

MCUpper == [n \in {Coffee, coffee, Mug} |-> IF n = coffee THEN Coffee ELSE n]
=============================================================================
