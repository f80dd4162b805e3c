SPECIFICATION Spec
CONSTANTS
  SeqMod = 8
  WordMod = 32
  LostMod = 16
  UndefinedByte <- OnlyZero
  Ticks = 10
  Micros = 10
  Half = 8
  NtpOffset = 56
  N = 2
  Start = 77
  Skew = 13
  Payloads <- OnlyFive
  Foreign <- OtherPackets
  MaxSends = 1
  MaxReports = 2
  MaxAnswers = 1
  MaxTime = 4
INVARIANTS
  PayloadComesThrough
  ReportsComeThrough
  RoundTripMeasured
CHECK_DEADLOCK FALSE
