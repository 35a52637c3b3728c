SPECIFICATION Spec
CONSTANTS
    b1 = b1  b2 = b2  h1 = h1  h2 = h2  wide = wide  narrow = narrow
    Balancer = {b1, b2}
    Host = {h1, h2}
    Route = {wide, narrow}
    NoRoute = NoRoute  NoState = NoState  NoVip = NoVip
    Vip <- MCVip
    Covers <- MCCovers
    Config <- MCConfig
    MaxWeight = 2
    MaxChanges = 3
    MaxFaults = 0
PROPERTY AfterInitChecked
CHECK_DEADLOCK FALSE
