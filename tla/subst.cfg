SPECIFICATION Spec
CONSTANTS
  Lines <- AllLines
  Regexes <- Patterns
  Offsets <- Few
INVARIANTS CountExact ReplacesChosen KeepsText
PROPERTY LoopsEnd
\* A frequency of zero ends the editor.
CHECK_DEADLOCK FALSE
