SPECIFICATION Spec
CONSTANTS
  SeqMod = 8
  WordMod <- ManyCyclesWord
  LostMod = 8
  UndefinedByte <- UndefinedIsAny
  AcrossWrap = TRUE
  MaxSends = 12
  MaxInFlight = 2
  MaxReceived = 5
INVARIANTS
  NeverBehind
  FractionBelowOne
