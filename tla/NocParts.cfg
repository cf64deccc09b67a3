SPECIFICATION MCSpec
CONSTANTS
  Data = {d1, d2}
  DEPTH = 4
  FULLPACKET = TRUE
  MaxPacket = 5
  CHANNELS = 3
  MaxFlits = 3
INVARIANT AddressesAgree
INVARIANT LastBitsMirrorStored
INVARIANT FullPacketOnly
INVARIANT FullBufferDrains
PROPERTY ImplementsFifo
INVARIANT PacketsStayWhole
INVARIANT BoundedWait
INVARIANT AdapterInStep
PROPERTY EveryoneServed
