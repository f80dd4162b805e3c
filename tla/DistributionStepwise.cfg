SPECIFICATION Spec
CONSTANTS
  SeqMod = 2
  WordMod = 4
  CIMAX = 2
  TO = 1
  AlphaNum = 1
  AlphaDen = 2
  Grain = 4
  N = 2
  Bitrates <- NothingOrFour
  SBs <- IdleOrSome
INVARIANTS
  StepwiseOnlyUnderCongestion
