SPECIFICATION MCSpec
CONSTANTS
  Threads = {a, b, c, d}
  Kernel = {a, b}
  InitThread = a
  Idle = idle
  Goals = {0, 2}
  TICKS = 3
  MaxReady = 5
  ListData = {d1, d2}
  NULL = NULL
  NONE = NONE
  Senders = {s1, s2}
  SLOTS = 4
  SIZE = 20
  WPP = 4
  MESSAGES = 5
CHECK_DEADLOCK FALSE
 
INVARIANT TimersInStep
PROPERTY NoStarvation
 
INVARIANT MessagesIntact
 
INVARIANT RequestsHandled
INVARIANT TransfersComplete
 
