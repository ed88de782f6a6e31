SPECIFICATION Spec
CONSTANTS
  RxCapacity = 2
  Mss = 2
  SeqMod = 16
  Isn = 14
  PeerIsn = 13
  Attempts = 1
  AppLen = 0
  PeerLen = 3
  SndSpan = 2
  Overshoot = 0
INVARIANTS
  StreamInOrder
  NoOverflow
  FinIsLast
PROPERTIES
  WindowNeverShrinks
  ReceivesByteStream
CHECK_DEADLOCK FALSE
