SPECIFICATION HistorySpec
CONSTANTS
  t1 = t1  t2 = t2  alice = alice
  Setup = Setup  NoKey = NoKey  NoEntry = NoEntry
  Tx = {t1, t2}
  Users = {alice}
  Deltas <- MCDeltas
  EventKeys = {}
  Opening <- MCOpening
  AppendsPerTx = 1
  Reader = alice
  Limit = 2
  Allocating = {t1, t2}
  Uuids = {1, 2, 3, 4}
  Horizon = 1
  Filters = {"ALL", "ADJUSTMENT"}
SYMMETRY MCSymmetry
INVARIANTS ReadsAllThatWasThere NothingTwice SkipsOnlyTies ChartKeepsItsShape
CHECK_DEADLOCK FALSE
