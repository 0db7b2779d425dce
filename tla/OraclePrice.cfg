\* Which prices can reach the chain: five rows, two of them lying, quorum three;
\* and what a gate that asks for all five rows is shown.
SPECIFICATION GateSpec
CONSTANTS
  a = a
  b = b
  c = c
  d = d
  e = e
  Notary = {a, b, c, d, e}
  Honest = {a, b, c}
  Price = {1, 2, 3}
  Minute = {1, 2, 5}
  FairLow <- FairFrom
  FairHigh <- FairTo
  Tables <- FiveRowTables
  FirstTable <- FiveRows
  FirstTs = 0
  FirstSeq = 6
  Reserve = 0
  ApprovalChoices <- None
  Forged <- None
  Quorum = 3
  Ahead = 2
  Life = 2
  TickerSats = 0
  Toll = 0
  FeeBase = 0
  FeePerRow = 0
  FeePerApproval = 0
  FeePerEntry = 0
  TopUps = {0}
  Values = {0}
  MaxRows = 5
  MaxCounter = 8
  MaxTime = 3
  Strike = 3
  MinShown = 1
  MaxShown = 2
  MinK = 5
INVARIANTS
  MedianHonest
  MedianUnique
  GateFair
CHECK_DEADLOCK FALSE
