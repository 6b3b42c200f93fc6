SPECIFICATION Spec
CONSTANTS
    Symbols = {btc}
    Scanner = scanner
    Requesters = {api}
    Brokers <- TestBrokers
    Lot = 2
    MatchWindow = 2
    MaxOrders <- TestOrders
    MaxRequests = 1
    MaxFaults = 1
INVARIANTS
    TypeOK FiledOnce TradesAreFiled
PROPERTIES
    FiledTradesStay ClosesNeverFlip ThesesFollowPositions StoreCatchesUp 
