SPECIFICATION Spec
CONSTANTS
    crypto = crypto
    forex = forex
    btc = btc
    eur = eur
    Markets = {crypto, forex}
    Symbols <- TestSymbols
    WarmupBars = 2
    Enough = 2
    MaxHistory = 2
    Refresh = 3
    Moments = {0, 1, 4}
    MaxFaults = 1
INVARIANT BasisIsCurrent
PROPERTIES
    BarsAreKept ReadyStaysReady
