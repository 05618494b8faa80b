SPECIFICATION BackfillSpec
CONSTANTS
  p1 = p1  b1 = b1  b2 = b2
  alice = alice  e1 = e1  e2 = e2  purchase = purchase
  Setup = Setup  NoKey = NoKey  NoEntry = NoEntry  Absent = Absent
  Posts = {p1}
  Backfills <- MCBoth
  Tx <- MCTx
  Users = {alice}
  EventKeys = {e1, e2}
  Types = {purchase}
  UserOf <- MCUserOf
  TypeOf <- MCTypeOf
  Worth <- MCWorth
  Stored <- MCStored
  Deltas <- MCDeltas
  Opening <- MCOpening
  AppendsPerTx = 2
SYMMETRY MCSymmetry
INVARIANTS ReplaysWhatIsParked ProcessedIsCredited
CHECK_DEADLOCK FALSE
