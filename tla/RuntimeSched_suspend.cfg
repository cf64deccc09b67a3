SPECIFICATION Spec
CONSTANTS
  Threads = {a, b, c, d}
  Kernel = {a, b, c}
  InitThread = a
  Idle = idle
  Goals = {0, 1, 2}
  TICKS = 3
  MaxReady = 5
CHECK_DEADLOCK FALSE
INVARIANT SuspendedUntilResumed
