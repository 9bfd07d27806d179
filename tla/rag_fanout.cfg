CONSTANTS
    Docs <- Two
    Corpus <- FirstOfTwo
    Indexed <- FirstOfTwo
    MaxClock = 3
    PageSize = 50
    MaxDocs = 1
    TombPage = 100
    DeleteBatch = 20
    Sweeps = {"qdrant"}
    MaxFaults = 1
    ShortTexts = TRUE
SPECIFICATION FairSpec
INVARIANT WatermarkSound
PROPERTIES QdrantConverges LightragKeepsCopy
