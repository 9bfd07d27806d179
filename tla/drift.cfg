CONSTANTS
    Items = {1}
    OmadaFeeds = {"omada"}
    GithubFeeds = {"dhcpd"}
    ClusterFeeds = {}
    Ackable <- AckDrift
    NetboxPage = 100
    DigestCap = 1
    MaxOutages = 1
    MaxCrashes = 1
SPECIFICATION FairSpec
INVARIANTS SeenWasMailed NoPhantom SilentWhileHealthy
PROPERTY DriftIsMailed
