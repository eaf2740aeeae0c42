CONSTANTS
  v1 = v1
  v2 = v2
  v3 = v3
  Validator <- MCValidator
  Complete <- MCComplete
  BetaLists <- MCBetaLists
  MaxUse = 2
  BasePort = 9943
SPECIFICATION Spec
INVARIANT TypeOK
INVARIANT CompleteImpliesAllKeys
