------------------------------- MODULE MCShop -------------------------------
(* Instances of Shop for TLC.                                                *)
EXTENDS Shop, TLC
CONSTANTS laptop, r1, r2, alice, k1, k2, k3, mug, tea

MCRequests == {r1, r2}
MCTx == MCRequests \X {"reserve", "settle"}
MCOwner == [b \in {laptop} |-> alice]
MCCost == [w \in {mug, tea} |-> 2]
MCStock == [w \in {mug, tea} |-> Unlimited]
MCDeltas == {-2}
Credit(u, d) == [user |-> u, delta |-> d, key |-> NoKey, reverses |-> NoEntry, by |-> Setup]
MCOpening == <<Credit(alice, 4)>>
MCSymmetry == Permutations(MCRequests) \cup Permutations({k1, k2, k3})
=============================================================================
