SPECIFICATION PlanSpec
CONSTANTS
  Scale = 100000
  Prices = {9730, 9880, 9965, 9981, 10000, 10014, 10019, 10035, 10120, 10270}
  Plans <- AllPlans
  Margins <- AllMargins
  Volume = 100
INVARIANTS LedgerNeverAhead ScaleOutsNearCosts
PROPERTY StopNeverLoosens
