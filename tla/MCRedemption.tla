---------------------------- MODULE MCRedemption ----------------------------
(* Instances of Redemption for TLC.                                          *)
EXTENDS Redemption
CONSTANTS r1, r2, alice, bob, k1, k2, mug, cap

MCPair == {r1, r2}
MCPairTx == MCPair \X {"reserve", "settle"}
MCCost == [w \in {mug, cap} |-> 2]
MCDeltas == {-2}
\* One mug is left, and two caps.
MCStock == [w \in {mug, cap} |-> IF w = mug THEN 1 ELSE 2]
Credit(u, d) == [user |-> u, delta |-> d, key |-> NoKey, reverses |-> NoEntry, by |-> Setup]
\* Alice can pay for one redemption, and so can Bob.
MCOpening == <<Credit(alice, 2), Credit(bob, 2)>>
=============================================================================
