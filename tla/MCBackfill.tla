----------------------------- MODULE MCBackfill -----------------------------
(* Instances of Backfill for TLC.                                            *)
EXTENDS Backfill, TLC
CONSTANTS p1, b1, b2, alice, e1, e2, purchase

MCBoth == {b1, b2}
MCTx == ({p1} \X {"capture", "process"}) \cup (MCBoth \X {"backfill"})
MCUserOf == [e \in EventKeys |-> alice]
MCTypeOf == [e \in EventKeys |-> purchase]
MCWorth == [y \in {purchase} |-> 3]
MCDeltas == {3}
MCOpening == << >>
\* One delivery is parked, and processing a later one has failed.
MCStored == <<<<e1, "UNMATCHED">>, <<e2, "FAILED">>>>
MCSymmetry == Permutations(MCBoth)
=============================================================================
