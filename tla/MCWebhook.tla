----------------------------- MODULE MCWebhook ------------------------------
(* Instances of Webhook for TLC.                                             *)
EXTENDS Webhook, TLC
CONSTANTS p1, p2, alice, e1, purchase

MCPair == {p1, p2}
MCPairTx == MCPair \X {"capture", "process"}
MCUserOf == [e \in EventKeys |-> alice]
MCTypeOf == [e \in EventKeys |-> purchase]
MCWorth == [y \in {purchase} |-> 3]
MCDeltas == {3}
MCOpening == << >>
MCPairSymmetry == Permutations(MCPair)
=============================================================================
