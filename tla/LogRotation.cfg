SPECIFICATION Spec
CONSTANTS
  FileCounts = {1, 2, 3}
  MaxBytes = 2
  LineLens = {1, 3}
  MaxLines = 5
  MaxTurns = 4
INVARIANTS OrderKept DiskBounded
PROPERTY ImplementsRollingLog
