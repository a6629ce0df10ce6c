SPECIFICATION ViewSpec
CONSTANTS
  MaxNode = 3
  NMarks = 1
  MaxUndo = 2
  MaxSubst = 2
  Sessions <- AllSessions
  AbortIn <- NoReadAborts
INVARIANTS DequeOK CacheOK HeapAccounted NoDangling GlobalLive
PROPERTY ImplementsEditor
