SPECIFICATION Spec
CONSTANTS
    h1 = h1  h2 = h2  r1 = r1  r2 = r2
    Host = {h1, h2}
    Resolver = {r1, r2}
    First = r1
    Nothing = Nothing
    Discovery <- MCDiscovery
    Config <- MCConfig
    DnsOutcome = {TRUE}
    MaxCount = 2
    MaxChanges = 1
INVARIANT CloneAlone
CHECK_DEADLOCK FALSE
