SPECIFICATION Spec
CONSTANTS
    h1 = h1  h2 = h2  a1 = a1  a2 = a2  a3 = a3
    Host = {h1, h2}
    Addr = {a1, a2, a3}
    AddrsOf <- MCAddrsOf
    InitHosts = {h1}
    InitDns <- MCInitDns
    Base = 10
    MaxFwmark = 1
    Fd = {3, 4, 5, 6}
    NoPeer = NoPeer
    NoGoal = NoGoal
    MaxChanges = 2
    MaxFaults = 1
INVARIANTS TypeOK NoLeak
PROPERTIES CheckReachesHost HealthTrue
