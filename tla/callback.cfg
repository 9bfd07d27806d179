CONSTANTS
    c1 = c1
    c2 = c2
    approve = approve
    nojti = nojti
    forged = forged
    Requests <- MCRequests
    Tokens <- MCTokens
    Genuine <- MCGenuine
    HasJti <- MCHasJti
    Exp <- MCExp
    MaxTime = 2
    Disturbances = {"overlap", "late", "hangup", "restart"}
SPECIFICATION FairSpec
CHECK_DEADLOCK FALSE
INVARIANTS ConfirmedWasDelivered DeliveredWasConsumed LedgerIsExplained SingleUseOnTime
PROPERTY PostsEnd
