SPECIFICATION MCSpec
CONSTANTS
  X = 3
  Y = 2
  Capacity = 1
  Lengths = {2}
  Packets <- OneStream
  Traffic <- CrossTraffic
INVARIANT PacketsPreserved
PROPERTY EveryPacketReceived
INVARIANT ShortestWay
PROPERTY ChannelsInOrder
