SPECIFICATION SessionSpec
CONSTANTS
  e0 = e0
  t1 = t1
  t2 = t2
  Empty = e0
  Text <- MCText
  Faults = {"read", "write", "suffix", "shell", "part"}
INVARIANTS LossAccounted UndoesLast
PROPERTY QuitAsks
\* The session ends with q.
CHECK_DEADLOCK FALSE
