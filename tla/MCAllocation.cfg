SPECIFICATION AllocationSpec
CONSTANTS
  a1 = a1  a2 = a2  alice = alice  k1 = k1  k2 = k2  mug = mug
  Setup = Setup  NoKey = NoKey  NoEntry = NoEntry
  Unlimited = Unlimited  Absent = Absent
  Users = {alice}
  IdemKeys = {k1, k2}
  Rewards = {mug}
  Allocations <- MCTwice
  Requests <- MCTwiceRequests
  Tx <- MCTwiceTx
  Cost <- MCCost
  Withdrawn = {mug}
  InitialStock <- MCOneLeft
  Deltas <- MCDeltas
  EventKeys <- MCTwiceKeys
  Opening <- MCNoOpening
  AppendsPerTx = 1
SYMMETRY MCTwiceSymmetry
INVARIANTS AllocatesOnce FirstAttemptIsNeutral
CHECK_DEADLOCK FALSE
