CONSTANTS
    Jobs = {j1, j2}
    Partitions = {1}
    Replicas = {r1, r2}
    Nobody = nobody
    MaxAttempts = 2
    MaxFaults = 2
SPECIFICATION Spec
INVARIANTS
    TypeOK
    CommittedIsHandled
    NoSilentLoss
PROPERTY EveryJobSettles
CHECK_DEADLOCK FALSE
