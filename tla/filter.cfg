SPECIFICATION FilterSpec
CONSTANTS
  MaxFilters = 2
  Input = 2
  Cap = 1
  Programs <- SomePrograms
INVARIANT ChildrenReaped
PROPERTY FilterEnds
\* The last filter ends, and an error may leave ed waiting for ever.
CHECK_DEADLOCK FALSE
