SPECIFICATION MCSpec
CONSTANTS
  Type <- ThreeModules
  REGISTER_READ_MAXPKGS = 2
  MaxCalls = 2
  MaxTraces = 1
  MaxFaults = 1
  Memories = {m1, m2}
CHECK_DEADLOCK FALSE
 
 
PROPERTY HostCallsReturn
INVARIANT RunsWholeImages
 
INVARIANT VmemFaithful
INVARIANT DisplayTrue
INVARIANT ChartComplete
