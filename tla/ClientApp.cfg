SPECIFICATION FairSpec
CONSTANTS
  MaxLines = 3
  MaxInterrupts = 2
INVARIANTS
  OneCallAtATime
  ExitAfterPolling
  OnlyInterruptEnds
PROPERTIES
  LinesAreSent
  IdleInterruptExits
CHECK_DEADLOCK FALSE
