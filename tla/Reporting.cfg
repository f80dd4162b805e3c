SPECIFICATION Spec
CONSTANTS
  SeqMod = 8
  WordMod = 32
  LostMod = 16
  UndefinedByte <- OnlyZero
  N = 2
  FirstNumbers <- LowOrHigh
  MaxSends = 4
  MaxInFlight = 2
  MaxReports = 2
  MaxRestarts = 1
INVARIANTS
  TypeOK
  PathsApart
  ProgressIsReal
  AnswersReachSender
  NumbersKept
CHECK_DEADLOCK FALSE
