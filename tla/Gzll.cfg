SPECIFICATION Spec
CONSTANTS
  NUMCT = 2
  Apps <- MCApps
  Words <- MCWords
  EndWords <- MCEndWords
  Stale <- MCStale
  FRAMES = 5
  DEPTH = 2
  MIGRATIONS = 2
  ALLOCS = 1
  EVERYWHERE = EVERYWHERE
  ANYWHERE = ANYWHERE
  INVALID = INVALID
INVARIANT TaskdirTruthful
 
 
PROPERTY EveryoneKnows
CHECK_DEADLOCK FALSE
