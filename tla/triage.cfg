CONSTANTS
    Answers <- MCAnswers
    PollInterval = 1
    SendMin = 1
    PollMin = 2
    PollMax = 3
    Budget = 8
    CallMin = 1
    Window = 11
    BackoffFirst = 1
    BackoffMax = 3
    NotifyTimeout = 1
    JobDeadline = 23
    Attempts = 2
    Faults = {"drain"}
SPECIFICATION Spec
CHECK_DEADLOCK FALSE
INVARIANTS TriageSound FirstAttemptInTime RetriesAreSeparate
