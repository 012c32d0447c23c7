SPECIFICATION AllFairSpec
CONSTANTS
    h1 = h1
    h2 = h2
    r1 = r1
    x1 = x1
    d1 = d1
    t1 = t1
    t2 = t2
    m1 = m1
    m2 = m2
    None = None
    Handlers = {h1, h2}
    Parts = {"generation", "staged", "webhooks", "autopilot"}
    Runs = {r1}
    Channels = {x1}
    NSteps = 1
    MaxConcurrent = 1
    RetryLimit = 1
    MaxKeys = 1
    StagedHandlers = {h1}
    StagedRetries = 1
    MaxPolls = 2
    MaxChanges = 1
    MaxDecisions = 2
    Rows = {1, 2, 3}
    ItemOf <- MCItemOf
    ChannelOf <- MCChannelOf
    MaxBegun = 3
    Replies = 3
    Deliveries = {d1}
    MaxAttempts = 2
    PerScan = 1
    MaxFaults = 1
    Calls = {}
    Probes = {}
    ShortCalls = {}
    Limit = 1
    MaxTime = 6
    Topics = {t1, t2}
    Attempts = {m1, m2}
    ScanJobs = {}
    Requests = {}
    ScanRetries = 1
    DailyLimit = 1
    AllRuns = 2
    MaxDay = 2
CHECK_DEADLOCK FALSE
PROPERTIES
    EverythingEnds
