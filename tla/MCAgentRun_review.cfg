SPECIFICATION Spec
CONSTANTS
    r1 = r1
    r2 = r2
    Requests = {r1, r2}
    Outsized = {r2}
    StaleAfter = 1
    MaxWindow = 2
    MaxOverrides = 1
    MaxFaults = 2
INVARIANTS
    TypeOK
    SecondPurchaseHasACause
    DismissedRunDoesNotBuy
    StuckRunHasACause
PROPERTIES
    DecidedRunIsLeftToPeople
CHECK_DEADLOCK FALSE
