SPECIFICATION Spec
CONSTANTS
  None = None
  Size = 1
  BuyCycles = 1
  RiskCycles = 1
  MaxSells <- OneSell
  BuyEnabled = {"btc"}
  RiskEnabled = {"risk1", "risk2", "risk3"}
  Opens <- From1
  Closes <- Till3
  Horizon = 3
  Views <- LiveViews
  Held <- NoneHeld
INVARIANT NoUnsoldClose
