SPECIFICATION FairSpec
CONSTANTS
  Clients = {c1, c2}
  Scanner = scanner
  MaxRequests = 3
INVARIANTS OneLateOrder
PROPERTIES DisarmedGoesQuiet ScanningGoesOn
