CONSTANTS
    Versions = {v1, v2, v3}
    NoVersion = none
    Txs = {t1, t2}
    Percentages = {10, 101}
    MaxRequests = 4
    MaxStatements = 3
    MaxFaults = 0
SPECIFICATION Spec
INVARIANT AtMostOneProduction
CHECK_DEADLOCK FALSE
