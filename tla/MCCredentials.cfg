SPECIFICATION Spec
CONSTANTS
    Threads = {t1, t2}
    Secrets = {key, secret}
    Paths = {usual, given}
    Values = {v1, v2}
    MaxRequests = 3
    MaxCrashes = 1
SYMMETRY Symmetry
INVARIANTS TypeOK PromiseIsKept WorkersFollow
CHECK_DEADLOCK FALSE
