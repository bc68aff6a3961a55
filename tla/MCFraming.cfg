SPECIFICATION FairSpec
CONSTANTS
  N = 5
  Ends <- MCEnds
  HeadSize <- MCHeadSize
  ReadSize = 8
  Infinity = 1000
INVARIANT TypeOK
PROPERTIES ImplementsStream AllParsed
CHECK_DEADLOCK FALSE
