SPECIFICATION Spec
CONSTANTS
    j1 = j1
    j2 = j2
    s1 = s1
    s2 = s2
    Jobs = {j1}
    Sessions = {s1, s2}
    Pod = Pod
    Peer = Peer
    NoHolder = NoHolder
    NoSession = NoSession
    NoJob = NoJob
    MaxRetries <- TwoTries
    Timed = {}
    Holders <- MCHolders
    Handles <- AllJobs
    Overridden = {}
    MaxInFlight = 1
    OutboxSlack = 0
    BatchSize = 2
    MaxSlips = 1
    Faults = {"ack", "db", "crash", "retry", "peer", "ir"}
SYMMETRY Symmetry
INVARIANTS
    SessionOwnsItsRows
PROPERTIES
    LifecycleSpec
    ReleasedByItsHolder
CHECK_DEADLOCK FALSE
