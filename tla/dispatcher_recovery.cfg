SPECIFICATION FairSpec
CONSTANTS
    j1 = j1
    j2 = j2
    s1 = s1
    s2 = s2
    Jobs = {j1}
    Sessions = {s1}
    Pod = Pod
    Peer = Peer
    NoHolder = NoHolder
    NoSession = NoSession
    NoJob = NoJob
    MaxRetries <- TwoTries
    Timed = {}
    Holders <- MCHolders
    Handles <- AllJobs
    Overridden = {j1}
    MaxInFlight = 1
    OutboxSlack = 0
    BatchSize = 2
    MaxSlips = 1
    Faults = {"lease", "crash", "timer", "drain", "shutdown", "evict", "drop"}
PROPERTIES
    TableSpec
    DeadOnlyWhenExhausted
    ExhaustedOrphansEnd
CHECK_DEADLOCK FALSE
