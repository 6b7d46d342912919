SPECIFICATION FairSpec
CONSTANTS
  None = None
  Size = 2
  BuyCycles = 1
  RiskCycles = 2
  MaxSells <- TwoSells
  BuyEnabled = {"btc"}
  RiskEnabled = {"risk1", "risk2"}
  Opens <- From1
  Closes <- Till3
  Horizon = 3
  Views <- LiveViews
  Held <- NoneHeld
INVARIANTS AtMostOneBuy SellBudget
PROPERTIES ImplementsLifecycle EpochEnds TimeStop
