SPECIFICATION FairSpec
CONSTANTS
  MaxLines = 1
  MaxInterrupts = 1
PROPERTIES
  InterruptExits
CHECK_DEADLOCK FALSE
