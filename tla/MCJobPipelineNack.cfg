CONSTANTS
    Jobs = {j1}
    Malformed = malformed
    ReadCount = 1
    r1 = r1
    r2 = r2
    Replicas = {r1, r2}
    MaxAttempts = 2
    MaxFaults = 1
    MaxStops = 0
    MaxMalformed = 0
SPECIFICATION Spec
PROPERTY NackedIsRedelivered
CHECK_DEADLOCK FALSE
