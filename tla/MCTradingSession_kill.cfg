SPECIFICATION Spec
CONSTANTS
  Clients = {c1}
  Scanner = scanner
  MaxRequests = 3
INVARIANTS KilledMarketsDoNotRun
