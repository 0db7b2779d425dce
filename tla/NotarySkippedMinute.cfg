\* The claim of main.rs that the loop works each minute.
SPECIFICATION Spec
CONSTANTS
  NoPrice = NoPrice
  Answer <- OneAnswer
  Scale = 3
  Cents = 1
  MaxInt = 2
  Word = 64
  MinuteLen = 6
  Window = 9
  LastAttempt = 4
  Spacing = 2
  Offset = 1
  Retries = 1
  Keep = 2
  MaxBack = 0
  MaxRuns = 1
  MaxClock = 20
PROPERTY EachMinute
CHECK_DEADLOCK FALSE
