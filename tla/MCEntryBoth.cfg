SPECIFICATION Spec
CONSTANTS
  None = None
  Size = 1
  BuyCycles = 1
  RiskCycles = 1
  MaxSells <- OneSell
  BuyEnabled = {"btc", "eth"}
  RiskEnabled = {"risk3"}
  Opens <- From1
  Closes <- Till12
  Horizon = 2
  Views <- SideViews
  Held <- SomeHeld
INVARIANTS BuySellExclusive NoPhantomFill
PROPERTY OutcomeLocked
