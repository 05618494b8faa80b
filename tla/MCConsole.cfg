SPECIFICATION ConsoleSpec
CONSTANTS
  Coffee = Coffee  coffee = coffee  Mug = Mug
  Setup = Setup  NoSku = NoSku  NoReward = NoReward
  Tx = {p1, p2}
  Consoles = {ann, ben}
  Names = {Coffee, coffee, Mug}
  Upper <- MCUpper
  Macros = {Coffee}
  Typed = {coffee}
  Stocked = Mug
INVARIANTS OneRewardPerSku MacroGivesItsReward ConsoleAnswersAreTrue
PROPERTIES RefreshShowsWhatWasAdded EveryPressSettles
CHECK_DEADLOCK FALSE
