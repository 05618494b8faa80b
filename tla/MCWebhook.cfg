SPECIFICATION FairWebhookSpec
CONSTANTS
  p1 = p1  p2 = p2  alice = alice  e1 = e1  purchase = purchase
  Setup = Setup  NoKey = NoKey  NoEntry = NoEntry  Absent = Absent
  Posts <- MCPair
  Tx <- MCPairTx
  Users = {alice}
  EventKeys = {e1}
  Types = {purchase}
  UserOf <- MCUserOf
  TypeOf <- MCTypeOf
  Worth <- MCWorth
  Deltas <- MCDeltas
  Opening <- MCOpening
  AppendsPerTx = 1
INVARIANTS ProcessedIsCredited AnswersAreTrue
PROPERTIES EveryPostAnswered
CHECK_DEADLOCK FALSE
