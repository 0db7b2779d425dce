\* Restarts, torn and failed appends, a clock set back, a process kept waiting.
SPECIFICATION Spec
CONSTANTS
  NoPrice = NoPrice
  Answer <- Answers
  Scale = 3
  Cents = 1
  MaxInt = 2
  Word = 64
  MinuteLen = 2
  Window = 3
  LastAttempt = 1
  Spacing = 1
  Offset = 0
  Retries = 2
  Keep = 2
  MaxBack = 1
  MaxRuns = 3
  MaxClock = 5
INVARIANTS
  TypeOK
  OncePerRun
  SignedIsShown

  
  
CHECK_DEADLOCK FALSE
