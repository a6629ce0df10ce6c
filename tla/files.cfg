SPECIFICATION Spec
CONSTANTS
  f = f
  g = g
  i1 = i1
  i2 = i2
  s1 = s1
  s2 = s2
  s3 = s3
  File <- MCFile
  Inode <- MCInode
  Stream <- MCStream
SYMMETRY Symmetry
INVARIANTS HandleOpen NoUseAfterClose LockHeld WritesTarget
\* ed stops when a closed stream is used.
CHECK_DEADLOCK FALSE
