\* The claim of main.rs that a restart cannot double-issue.
SPECIFICATION Spec
CONSTANTS
  NoPrice = NoPrice
  Answer <- Answers
  Scale = 3
  Cents = 1
  MaxInt = 2
  Word = 64
  MinuteLen = 6
  Window = 9
  LastAttempt = 4
  Spacing = 2
  Offset = 1
  Retries = 3
  Keep = 2
  MaxBack = 0
  MaxRuns = 2
  MaxClock = 20
INVARIANT NoDoubleIssue
CHECK_DEADLOCK FALSE
