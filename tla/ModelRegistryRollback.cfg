CONSTANTS
    Versions = {v1, v2, v3}
    NoVersion = none
    Txs = {t1}
    Percentages = {10, 101}
    MaxRequests = 4
    MaxStatements = 3
    MaxFaults = 0
SPECIFICATION Spec
PROPERTY RollsBackToLastArchived
CHECK_DEADLOCK FALSE
