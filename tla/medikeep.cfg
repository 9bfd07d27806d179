CONSTANTS
    k1 = k1
    k2 = k2
    blank = blank
    Keys <- MCKeys
    Amounts <- MCAmounts
    Blank = blank
    Year <- MCYear
    FirstReadings <- MCFirstReadings
    FirstDoses <- MCFirstDoses
    MaxDate = 3
    MaxReadings = 2
    MaxDoses = 3
    MaxFaults = 1
    Disturbances = {"amend", "torn", "late"}
SPECIFICATION FairSpec
CHECK_DEADLOCK FALSE
INVARIANTS RecordSound DerivedIsChanges
PROPERTIES ClosedStaysClosed Converges
