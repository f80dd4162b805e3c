SPECIFICATION Spec
CONSTANTS
  SeqMod = 2
  WordMod = 4
  CIMAX = 3
  TO = 1
  AlphaNum = 1
  AlphaDen = 2
  Second = 2
  ReportEvery = 2
  TsUnit = 3
  FirstStamps <- JustThree
  Payloads <- JustOne
  HeaderSize = 1
  ReportSize = 1
  MaxPaths = 2
  MaxSends = 5
  MaxClock = 8
INVARIANTS
  TypeOK
  TotalsAgree
  StampsFollowClock
  ReportsStartWithPackets
PROPERTIES
  ReportsKeepTime
CHECK_DEADLOCK FALSE
