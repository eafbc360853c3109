SPECIFICATION Spec
CONSTANTS
    j1 = j1
    j2 = j2
    s1 = s1
    s2 = s2
    Jobs = {j1, j2}
    Sessions = {s1, s2}
    Pod = Pod
    Peer = Peer
    NoHolder = NoHolder
    NoSession = NoSession
    NoJob = NoJob
    MaxRetries <- MixedTries
    Timed = {}
    Holders <- MCHolders
    Handles <- OtherJobs
    Overridden = {}
    MaxInFlight = 1
    OutboxSlack = 0
    BatchSize = 2
    MaxSlips = 1
    Faults = {"ack", "late"}
INVARIANTS
    TypeOK
    OpenWithinLimit
PROPERTIES
    DeadOnlyWhenExhausted
CHECK_DEADLOCK FALSE
