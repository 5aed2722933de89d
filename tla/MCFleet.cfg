CONSTANTS
    fleet = fleet
    stranger = stranger
    hostF = hostF
    hostS = hostS
    keyF = "keyF"
    Clients = {fleet, stranger}
    Key <- MCKey
    Host <- MCHost
    NoKey = nokey
    KeyLists <- MCKeyLists
    Conns = {c1, c2}
    Rate = 1
    Burst = 1
    MaxRequests = 3
    MaxRestarts = 1
    Vehicles = {v1}
    FleetClient = fleet
    InferEvery = 1
    NoConn = noconn
SPECIFICATION Spec
INVARIANTS
    TypeOK
    RateLimited
    BucketsBounded
    GaugeIsExact
    SuccessIsServed
PROPERTY ShutdownCompletes
CHECK_DEADLOCK FALSE
