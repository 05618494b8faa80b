SPECIFICATION RulesSpec
CONSTANTS
  v1 = v1  v2 = v2  v3 = v3
  NoEnd = NoEnd
  RuleIds = {v1, v2, v3}
  Types = {"PURCHASE", "REFERRAL"}
  Instants = {0, 1, 2}
  Prices = {10}
INVARIANTS PriceIsUnambiguous FindsEveryAmbiguity LatePricesAgree
CHECK_DEADLOCK FALSE
