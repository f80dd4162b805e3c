SPECIFICATION Spec
CONSTANTS
  SeqMod = 2
  WordMod = 4
  CIMAX = 2
  TO = 1
  AlphaNum = 1
  AlphaDen = 2
  Grain = 4
  N = 3
  Bitrates <- NothingOrFour
  SBs <- IdleOrSome
INVARIANTS
  TypeOK
  SharesAddUp
  LossNeverPays
  DrawsFollowShares
  AllDrawnUntilReady
  
