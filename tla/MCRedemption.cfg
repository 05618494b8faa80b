SPECIFICATION FairRedemptionSpec
CONSTANTS
  r1 = r1  r2 = r2  alice = alice  bob = bob
  k1 = k1  k2 = k2  mug = mug  cap = cap
  Setup = Setup  NoKey = NoKey  NoEntry = NoEntry
  Unlimited = Unlimited  Absent = Absent
  Requests <- MCPair
  Tx <- MCPairTx
  Users = {alice, bob}
  IdemKeys = {k1, k2}
  Rewards = {mug, cap}
  Cost <- MCCost
  Withdrawn = {mug}
  InitialStock <- MCStock
  Deltas <- MCDeltas
  EventKeys = {}
  Opening <- MCOpening
  AppendsPerTx = 1
INVARIANTS PointsFollowRedemptions StockConserved AnswersAreTrue ReplayWins StrandedOnlyByCrash
PROPERTIES EveryRequestAnswered
CHECK_DEADLOCK FALSE
