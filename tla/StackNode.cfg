CONSTANTS
  a = a
  b = b
  c = c
  Knowledge = {a, b, c}
  Cells = {1, 2}
  Writes <- MCWrites
  Under <- MCUnder
  Deltas = {b}
  Calls = {c1}
  Base = base
  None = none
  MaxMishaps = 2
  MaxRequests = 3
SPECIFICATION FairStackSpec
INVARIANTS
  RecordIsTable
  StackIsWanted
PROPERTY RestartIsRepaired
CONSTRAINT Promising
CHECK_DEADLOCK FALSE
