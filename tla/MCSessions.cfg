SPECIFICATION Spec
CONSTANTS
    Threads = {t1, t2}
    Passwords = {admin, chosen}
    Default = admin
    Agents = {browser, other}
    Policies <- TwoPolicies
    FirstPolicy <- ShortPolicy
    Ids <- TwoIds
    MaxTime = 3
    MaxRequests = 4
    MaxCrashes = 1
SYMMETRY Symmetry
INVARIANTS TypeOK EndedStaysEnded PasswordIsKept
PROPERTIES PassesInTime
CHECK_DEADLOCK FALSE
