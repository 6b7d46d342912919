SPECIFICATION FairSpec
CONSTANTS
  Token = {"y"}
  Price <- Prices
  MaxLots = 2
  Start = 5
  Fee <- HalfFee
  Delays <- Delayed
  SellTicks = 2
  TickGap = 2
  MaxOrders = 3
INVARIANTS Solvent CashMatchesFills SharesMatchFills
PROPERTIES SellRests QueueEmpties
