SPECIFICATION FairWalks
CONSTANTS
  L = 6
INVARIANT LineFound
PROPERTY WalkEnds
