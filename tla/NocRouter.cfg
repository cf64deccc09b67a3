SPECIFICATION MCSpec
CONSTANTS
  INPUTS = 2
  OUTPUTS = 2
  VCHANNELS = 1
  DESTS = 2
  ROUTES <- OneToOne
  BUFFER_SIZE_IN = 1
  BUFFER_SIZE_OUT = 1
  Lengths = {1, 3}
  Packets = 2
INVARIANT RouterPreservesPackets
INVARIANT RouterFollowsHeader
INVARIANT RouterNeverStuck
