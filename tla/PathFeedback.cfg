SPECIFICATION Spec
CONSTANTS
  SeqMod = 2
  WordMod = 4
  CIMAX = 2
  TO = 1
  AlphaNum = 3
  AlphaDen = 4
  Fractions <- CleanOrHalf
  Highest <- AcrossWrap
  Payloads <- JustOne
  MaxClock = 7
  MaxUnreported = 1
INVARIANTS
  TypeOK
  OneRateUnderLoss
  RatesWithinPeak
PROPERTIES
  ImplementsTrust
CHECK_DEADLOCK FALSE
