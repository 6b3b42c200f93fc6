SPECIFICATION Spec
CONSTANTS
    Src = src
    Scripts = scripts
    Project = scripts
    Updaters <- TwoUpdaters
    MaxUpdaters <- UpTo
    Modes <- BothModes
    MaxBuild = 3
    MaxFaults = 1
INVARIANTS
    CompletedIsWhole FailedIsHarmless BuildsAreKept
PROPERTIES
    DashboardReturns
CHECK_DEADLOCK FALSE
