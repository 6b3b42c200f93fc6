SPECIFICATION Spec
CONSTANTS
    Setups <- TestSetups
    Moments <- TestMoments
    Outcomes <- TestOutcomes
    MaxOrders = 3
    MaxRequests = 1
    MaxFaults = 1
INVARIANTS
    LimitsHold
PROPERTIES
    BrakeHolds
