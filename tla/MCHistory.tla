------------------------------ MODULE MCHistory ------------------------------
(* Instances of History for TLC.                                             *)
EXTENDS History, TLC
CONSTANTS t1, t2, alice

MCDeltas == {2}
Credit == [user |-> alice, delta |-> 2, key |-> NoKey, reverses |-> NoEntry, by |-> Setup]
MCOpening == <<Credit, Credit>>
MCSymmetry == Permutations(Tx)
=============================================================================
