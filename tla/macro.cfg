SPECIFICATION Spec
CONSTANTS
  Reg <- Regs
  Program <- Programs
  Script0 <- AScript
  Frames = 4
  MaxLines = 3
INVARIANTS StackMatches ReturnsToCaller ScriptRestored
PROPERTY MacroEnds
