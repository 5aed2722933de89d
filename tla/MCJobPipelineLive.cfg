CONSTANTS
    Jobs = {j1}
    Malformed = malformed
    ReadCount = 2
    r1 = r1
    r2 = r2
    Replicas = {r1, r2}
    MaxAttempts = 3
    MaxFaults = 1
    MaxStops = 1
    MaxMalformed = 1
SPECIFICATION Spec
PROPERTIES
    EveryJobSettles
    AcceptedJobCompletes
CHECK_DEADLOCK FALSE
