CONSTANTS
  RefNum = 5
  RefDen = 1
  MinProfitNum = 10
  MinProfitDen = 1
  MaxSwapAmountHez = 5000
  ONE_TOKEN = 1
  NoOpp = NoOpp
  WhezRange = {100}
  PezRange <- MCTiePezRange
SPECIFICATION Spec
INVARIANT TieNotActionable
