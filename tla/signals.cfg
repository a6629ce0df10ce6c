SPECIFICATION FairSpec
CONSTANTS
  SIGS <- AllSigs
  MaxRaise = 3
  MaxDepth = 2
  MaxSections = 3
  MaxLeaks = 1
INVARIANTS HandlersOutsideSections NoLockLeak NoSignalForgotten
PROPERTIES InterruptHonoured HangupCompletes
\* A hangup ends the editor.
CHECK_DEADLOCK FALSE
