CONSTANTS
  RefNum = 5
  RefDen = 1
  MinProfitNum = 2
  MinProfitDen = 1
  MaxSwapAmountHez = 4
  ONE_TOKEN = 1
  NoOpp = NoOpp
  WhezRange = {1, 2, 19, 20, 21, 40, 79, 80, 81, 99, 100, 101}
  PezRange <- MCPezRange
SPECIFICATION Spec
INVARIANT EvaluateMatchesSpec
