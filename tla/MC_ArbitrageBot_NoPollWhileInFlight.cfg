CONSTANTS
  RefNum = 5
  RefDen = 1
  MinProfitNum = 2
  MinProfitDen = 1
  MaxSwapAmountHez = 5
  ONE_TOKEN = 10
  NoOpp = NoOpp
  LPFee = 3
  InitReserves <- MCInitReserves
  BotBalance <- MCBotBalance
  LiquidityWhez = 1000
  LiquidityPez = 5000
  ExternalSwaps <- MCExternalSwaps
  MaxIteration = 4
  MaxExternal = 2
  NoValue = NoValue
SPECIFICATION Spec
INVARIANT NoPollWhileInFlight
