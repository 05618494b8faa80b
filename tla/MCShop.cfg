SPECIFICATION ShopSpec
CONSTANTS
  laptop = laptop  r1 = r1  r2 = r2  alice = alice  k1 = k1  k2 = k2  k3 = k3  mug = mug  tea = tea
  Setup = Setup  NoKey = NoKey  NoEntry = NoEntry
  Unlimited = Unlimited  Absent = Absent
  Browsers = {laptop}
  OwnerOf <- MCOwner
  Requests <- MCRequests
  Tx <- MCTx
  Users = {alice}
  IdemKeys = {k1, k2, k3}
  Rewards = {mug, tea}
  Cost <- MCCost
  Withdrawn = {}
  InitialStock <- MCStock
  Deltas <- MCDeltas
  EventKeys = {}
  Opening <- MCOpening
  AppendsPerTx = 1
SYMMETRY MCSymmetry
INVARIANTS HeldDialogBuysOnce WhatIsToldHolds
CHECK_DEADLOCK FALSE
