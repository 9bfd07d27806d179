CONSTANTS
    c1 = c1
    c2 = c2
    approve = approve
    nojti = nojti
    forged = forged
    Requests <- MCRequests
    Tokens <- MCTokens
    Genuine <- MCGenuine
    HasJti <- MCHasJti
    Exp <- MCExp
    MaxTime = 0
    Disturbances = {"overlap"}
SPECIFICATION Spec
CHECK_DEADLOCK FALSE
INVARIANT SingleUse
