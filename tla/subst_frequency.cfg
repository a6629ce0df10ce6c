SPECIFICATION Spec
CONSTANTS
  Lines <- AllLines
  Regexes <- Patterns
  Offsets <- Few
INVARIANT FrequencyDefined
CHECK_DEADLOCK FALSE
