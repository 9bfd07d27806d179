CONSTANTS
    Docs <- Two
    Corpus <- LastOfTwo
    Indexed <- LastOfTwo
    MaxClock = 3
    PageSize = 50
    MaxDocs = 20
    TombPage = 1
    DeleteBatch = 1
    Sweeps = {"qdrant", "lightrag"}
    MaxFaults = 0
    ShortTexts = FALSE
SPECIFICATION FairSpec
INVARIANTS
    SweepSparesPresent
PROPERTIES
    OrphansPurged
