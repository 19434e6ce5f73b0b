SPECIFICATION Spec
CONSTANTS
  SeqMod = 8
  AckWindow = 2
  MaxDelay = 2
  MaxGap = 2
  MaxSent = 20
INVARIANTS HonestAcks LastIsNewest
PROPERTIES FirstArrivalAcked
