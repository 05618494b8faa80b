------------------------------- MODULE MCShell -------------------------------
(* Instances of Shell for TLC: a new address typed in two ways, and a member. *)
EXTENDS Shell, TLC
CONSTANTS ada, Ada, bob, b

MCStored == [e \in {ada, Ada, bob} |-> IF e = Ada THEN ada ELSE e]
MCEmailOf == [m \in {b} |-> bob]
MCSymmetry == Permutations(Tx)
=============================================================================
