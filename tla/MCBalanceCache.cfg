SPECIFICATION FairSpec
CONSTANTS
  Market <- BtcOnly
  Monitored <- BtcOnly
  Tasks <- BtcOnly
  Channels <- BtcOnly
  PollIv = 2
  ForceMin = 3
  MaxAge = 3
  BackoffBase = 1
  BackoffMax = 4
  CallMax = 2
INVARIANTS TypeOK SharesAreYoung
PROPERTIES ClobSpared ReadsEnd TradeIsRead
