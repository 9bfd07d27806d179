CONSTANTS
    Proposals <- MCProposals
    AllowedActions = {"set_retain", "set_limit", "set_cron"}
    Targets <- MCTargets
    Starts <- MCStarts
    Edited = {"job"}
    Values = {1, 2, 3}
    Present = {"job", "app"}
    NodeMax = 3
    Headroom = 1
    HasToken = TRUE
    Attempts = 2
    MaxRuns = 2
    MaxEdits = 1
SPECIFICATION Spec
CHECK_DEADLOCK FALSE
INVARIANT PublishedSound
PROPERTIES MergeRaises ReviewedIsMerged LeftBranchBlocks
