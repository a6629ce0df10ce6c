SPECIFICATION Spec
CONSTANTS
  abc = abc
  xyz = xyz
  Pattern <- Patterns
  Free = Free
  MaxRe = 3
  MaxLines = 2
  Sessions <- AllSessions
  Offsets <- OneOff
  Numbers = {1}
  Posix = FALSE
INVARIANTS RangeAsWritten SearchNearest DotKept SlotsOwnPatterns PatternAsTabled
PROPERTY SearchEnds
\* An interrupted compilation leaves an editor of which nothing more is said.
CHECK_DEADLOCK FALSE
