SPECIFICATION TableSpec
CONSTANTS
    j1 = j1
    j2 = j2
    h1 = h1
    h2 = h2
    Jobs = {j1, j2}
    MaxRetries <- MixedRetries
    Timed = {j2}
    Holders = {h1, h2}
    NoHolder = NoHolder
INVARIANTS
    TimeoutKept
