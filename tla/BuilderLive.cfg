\* A daemon under fairness, with lost calls, late rows and consumers: a minute that lasts is posted, a
\* partial update not before its second.
SPECIFICATION BuilderSpec
CONSTANTS
  a = a
  b = b
  x = x
  y = y
  Notary = {a, b}
  Honest = {a, b}
  Price = {1}
  Minute = {0, 1, 2}
  FairLow <- Fair1
  FairHigh <- Fair1
  Tables <- OneTable
  FirstTable <- TwoRows
  FirstTs = 0
  FirstSeq = 0
  Reserve = 6
  ApprovalChoices <- None
  Forged <- None
  Quorum = 1
  Ahead = 3
  Life = 0
  TickerSats = 1
  Toll = 1
  FeeBase = 1
  FeePerRow = 0
  FeePerApproval = 0
  FeePerEntry = 0
  TopUps = {0}
  Values = {0, 1, 2, 3, 4, 5, 6}
  MaxRows = 2
  MaxCounter = 9
  MaxTime = 2
  Builder = {x}
  Once = {}
  TopUp = {}
  MinuteLen = 2
  PostAt = 1
  MaxRecycle = 1
  Coins = {}
  Needed = 1
  Fee = 1
  MaxTolled = 2
  MaxFaults = 1
  MaxClock = 5
PROPERTIES
  
  NoEarlyPost
CHECK_DEADLOCK FALSE
