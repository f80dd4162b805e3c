SPECIFICATION Spec
CONSTANTS
  SeqMod = 8
  WordMod <- OneCycleWord
  LostMod = 8
  UndefinedByte <- UndefinedIsZero
  AcrossWrap = FALSE
  MaxSends = 12
  MaxInFlight = 2
  MaxReceived = 5
INVARIANTS
  TypeOK
  Tracking
  DistancesPreserved
  IntervalIsExact
PROPERTY NoPhantomLoss
