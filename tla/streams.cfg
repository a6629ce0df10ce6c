SPECIFICATION Spec
CONSTANTS
  Byte = {"x", "NUL", "NL"}
  Files = {"f", "null"}
  Registers = {"q", "v"}
  Sessions <- AllSessions
  MaxFaults = 1
  MaxLines = 2
  MaxBytes = 3
INVARIANTS TextStored ReadsOwnText RoundTrip FlagsTrue
\* The session ends when MaxLines, MaxBytes and MaxFaults are used up.
CHECK_DEADLOCK FALSE
