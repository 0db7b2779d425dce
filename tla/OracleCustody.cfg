\* Who keeps the Tickers and the sats: two tables of two rows, one key colluding, rotation,
\* retirement, consumers, recycling and top-ups.
SPECIFICATION Spec
CONSTANTS
  a = a
  b = b
  d = d
  Notary = {a, b, d}
  Honest = {a, b}
  Price = {2}
  Minute = {1, 2, 3}
  FairLow <- Fair2
  FairHigh <- Fair2
  Tables <- PairTables
  FirstTable <- MixedPair
  FirstTs = 0
  FirstSeq = 0
  Reserve = 3
  ApprovalChoices <- PairApprovals
  Forged <- ForgedOne
  Quorum = 2
  Ahead = 1
  Life = 1
  TickerSats = 1
  Toll = 1
  FeeBase = 1
  FeePerRow = 0
  FeePerApproval = 0
  FeePerEntry = 0
  TopUps = {0, 1}
  Values = {0, 1, 2, 3}
  MaxRows = 2
  MaxCounter = 2
  MaxTime = 3
INVARIANTS
  TypeOK
  OneHistory
  HeadNotStranded
  TickersAuthentic
  FreshTickersAlive
  SatsAccounted
  
PROPERTIES
  RefinesFeed
CHECK_DEADLOCK FALSE
