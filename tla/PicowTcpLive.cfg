SPECIFICATION LosslessSpec
CONSTANTS
  RxCapacity = 1
  Mss = 1
  SeqMod = 8
  Isn = 6
  PeerIsn = 5
  Attempts = 1
  AppLen = 1
  PeerLen = 2
  SndSpan = 1
  Overshoot = 0
PROPERTIES
  CallsReturn
  PollWakes
CHECK_DEADLOCK FALSE
