SPECIFICATION Spec
CONSTANTS
  SIZE = 2
  X_LAST = FALSE
  Lengths = {1, 3}
  TxPackets = 1
  RxPackets = 2
INVARIANT ReceivedPacketsPreserved
