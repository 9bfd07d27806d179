CONSTANTS
    r1 = r1
    r2 = r2
    r3 = r3
    n1 = n1
    n2 = n2
    p1 = p1
    p2 = p2
    p3 = p3
    bad = bad
    list = list
    none = none
    Requests <- MCRequests
    Payloads <- MCPayloads
    BadBody = bad
    NotObject = list
    Nodes <- MCNodes
    None = none
    MaxInflight = 2
    MaxAlerts = 5
    MaxPregatherPods = 2
    MaxPregatherNodes = 1
    PromUrl = TRUE
    Threads = {"ok", "none"}
SPECIFICATION FairSpec
CHECK_DEADLOCK FALSE
INVARIANTS StormIsBounded EvidenceIsFirstPods
PROPERTIES JobsEnd PoolSpec
