CONSTANTS
    Devices = {1, 2, 3, 4, 5, 6}
    MaxConfig = 2
    MaxCore = 2
    MaxPerRun = 2
    Forced = {1}
    Excluded = {1}
    Tracked = {1, 3, 4, 5, 6}
    Unreachable = {2, 5}
    Edited = {3, 4}
    MaxDryRuns = 1
    MaxMishaps <- OneEach
SPECIFICATION FairSpec
INVARIANT DetectionSound
PROPERTIES TouchesOnlyItsOwn FleetDrains
