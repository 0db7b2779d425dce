\* Two tasks, two endpoints: servers that refuse, are mute or lag, and change twice.
SPECIFICATION Spec
CONSTANTS
  s = s
  u = u
  Task = {s, u}
  Pool = 2
  Span = 2
  Time <- Times
  MaxHeight = 3
  MaxLag = 1
  MaxChanges = 2
INVARIANTS
  TypeOK
  
  DeadPaidOnce
  AnswersMatch
  
SYMMETRY Tasks
