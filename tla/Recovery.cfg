SPECIFICATION Spec
CONSTANTS
  SeqMod = 2
  WordMod = 4
  CIMAX = 2
  TO = 1
  AlphaNum = 3
  AlphaDen = 4
  Grain = 4
  N = 2
  Least = 2
  SBs <- IdleOrAll
PROPERTIES
  TrustReturns
  SharesSettle
