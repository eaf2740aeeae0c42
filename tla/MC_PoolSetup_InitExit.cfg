CONSTANTS
  LPFee = 3
  MaxRetries = 3
  WrapAmount = 3
  Amount1 = 2
  Amount2 = 5
  AliceBalances <- MCAliceBalances
SPECIFICATION Spec
INVARIANT InitExitZeroImpliesFunded
