---------------------------- MODULE MCAllocation ----------------------------
(* Instances of Allocation for TLC.                                          *)
EXTENDS Allocation, TLC
CONSTANTS a1, a2, alice, k1, k2, mug

MCTwice == {a1, a2}
GrantTx(G) == G \X {"credit", "reserve", "settle", "undo"}
MCTwiceRequests == MCTwice \X {alice}
MCTwiceTx == GrantTx(MCTwiceRequests)
MCKeys(K, U) == {AdminKey(k, u) : k \in K, u \in U}
MCTwiceKeys == MCKeys({k1, k2}, {alice})
MCCost == [w \in {mug} |-> 2]
\* One for each administrator, or one for both.
MCTwoLeft == [w \in {mug} |-> 2]
MCOneLeft == [w \in {mug} |-> 1]
MCDeltas == {2, -2}
Credit(u, d) == [user |-> u, delta |-> d, key |-> NoKey, reverses |-> NoEntry, by |-> Setup]
MCNoOpening == << >>
\* Alice can pay for a redemption of her own.
MCRichOpening == <<Credit(alice, 2)>>
MCTwiceSymmetry == Permutations(MCTwice) \cup Permutations({k1, k2})
=============================================================================
