\* A daemon and a topup race on one head: stale reads, lost calls, resent broadcasts, consumers,
\* recycling, a rotation, restarts.
SPECIFICATION BuilderSafety
CONSTANTS
  a = a
  b = b
  x = x
  y = y
  Notary = {a, b}
  Honest = {a, b}
  Price = {1}
  Minute = {0, 1, 2}
  FairLow <- Fair1
  FairHigh <- Fair1
  Tables <- RotatedTables
  FirstTable <- TwoRows
  FirstTs = 0
  FirstSeq = 0
  Reserve = 6
  ApprovalChoices <- ToSwapped
  Forged <- None
  Quorum = 2
  Ahead = 2
  Life = 0
  TickerSats = 1
  Toll = 1
  FeeBase = 1
  FeePerRow = 0
  FeePerApproval = 0
  FeePerEntry = 0
  TopUps = {0, 1, 2, 3}
  Values = {0, 1, 2, 3, 4, 5, 6, 7, 8, 9}
  MaxRows = 2
  MaxCounter = 9
  MaxTime = 2
  Builder = {x, y}
  Once = {y}
  TopUp = {y}
  MinuteLen = 2
  PostAt = 1
  MaxRecycle = 1
  Coins = {1, 2, 3}
  Needed = 2
  Fee = 1
  MaxTolled = 2
  MaxFaults = 1
  MaxClock = 4
INVARIANTS
  BuilderTypeOK
  BuiltIsValid
  TopUpMoved
CHECK_DEADLOCK FALSE
