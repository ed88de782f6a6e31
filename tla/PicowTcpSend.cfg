SPECIFICATION Spec
CONSTANTS
  RxCapacity = 1
  Mss = 2
  SeqMod = 16
  Isn = 14
  PeerIsn = 13
  Attempts = 2
  AppLen = 3
  PeerLen = 0
  SndSpan = 4
  Overshoot = 1
INVARIANTS
  ReportedWasReceived
  WrittenOnce
CHECK_DEADLOCK FALSE
