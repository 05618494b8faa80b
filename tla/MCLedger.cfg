SPECIFICATION LedgerSpec
CONSTANTS
  t1 = t1  t2 = t2  t3 = t3  alice = alice  bob = bob
  Setup = Setup  NoKey = NoKey  NoEntry = NoEntry
  Tx <- MCTx
  Users <- MCUsers
  Deltas <- MCDeltas
  EventKeys <- MCKeys
  Opening <- MCOpening
  AppendsPerTx = 1
SYMMETRY MCSymmetry
INVARIANTS LedgerIInv ReconcileEmpty KeyAppliedOnce ReversalCancelsOnce NoDeadlock
PROPERTIES OnlyClawbackGoesNegative LedgerIsAtomic
CHECK_DEADLOCK FALSE
