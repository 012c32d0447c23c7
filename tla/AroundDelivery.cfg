SPECIFICATION AllSpec
CONSTANTS
    h1 = h1
    h2 = h2
    r1 = r1
    x1 = x1
    d1 = d1
    d2 = d2
    c1 = c1
    c2 = c2
    p1 = p1
    t1 = t1
    t2 = t2
    m1 = m1
    j1 = j1
    q1 = q1
    q2 = q2
    None = None
    Handlers = {h1, h2}
    Parts = {"generation", "staged", "locks", "telegram", "webhooks", "calls", "autopilot"}
    Runs = {r1}
    Channels = {x1}
    NSteps = 2
    MaxConcurrent = 1
    RetryLimit = 1
    MaxKeys = 2
    StagedHandlers = {h1, h2}
    StagedRetries = 1
    MaxPolls = 1
    MaxChanges = 0
    MaxDecisions = 2
    Rows = {1, 2, 3}
    ItemOf <- MCItemOf
    ChannelOf <- MCChannelOf
    MaxBegun = 3
    Replies = 3
    Deliveries = {d1, d2}
    MaxAttempts = 2
    PerScan = 1
    MaxFaults = 1
    Calls = {c1, c2, p1}
    Probes = {p1}
    ShortCalls = {c1, p1}
    Limit = 1
    MaxTime = 6
    Topics = {t1, t2}
    Attempts = {m1}
    ScanJobs = {j1}
    Requests = {q1, q2}
    ScanRetries = 1
    DailyLimit = 1
    AllRuns = 2
    MaxDay = 2
CHECK_DEADLOCK FALSE
SYMMETRY AroundSymmetry
INVARIANTS
    TypesOK
    OneDraft
    DraftIsCheckpointed
    OneFinalPost
    FailedIsNonpublic
    PublishedStageHasReceipt
    OneContainer
    NoDeadlock
    PublishedTogether
    ArchivedIsQuiet
    CheckpointIsTrue
    FailedLeftNoMessage
    OnlyAskedAgain
    VerdictIsTrue
    LeaseCoversCall
    CallsBounded
    VerdictsMatchRuns
    RunsWithinLimits
PROPERTIES
    StepsAreBegunOnce
    VerdictIsFinal
    CallsUseCurrentKey
    ArchivedStays
    RemainingOnlyShrinks
    EndsAreFinal
