------------------------------ MODULE MCLedger ------------------------------
(* Instances of Ledger for TLC.                                              *)
EXTENDS LedgerRefinement, TLC
CONSTANTS t1, t2, t3, alice, bob

MCTx == {t1, t2, t3}
MCUsers == {alice, bob}
MCDeltas == {2, -2}
\* Alice starts with the two points that one spend costs.
MCOpening == <<[user |-> alice, delta |-> 2, key |-> NoKey, reverses |-> NoEntry,
                by |-> Setup]>>
MCKeys == {<<"partner", 1>>}
\* Transactions are interchangeable.
MCSymmetry == Permutations(MCTx)
=============================================================================
