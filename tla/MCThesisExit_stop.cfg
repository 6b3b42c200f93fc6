SPECIFICATION PlanSpec
CONSTANTS
  Scale = 100000
  Prices = {9730, 9880, 9930, 9965, 9981, 10000, 10019, 10035, 10070, 10120, 10270}
  Plans <- FewPlans
  Margins <- AllMargins
  Volume = 100
INVARIANT HardStopProtects
