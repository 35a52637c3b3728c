SPECIFICATION Spec
CONSTANTS
    Name <- MCName
    Canonical <- MCCanonical
    DesiredState <- MCDesired
    Found <- MCFound
    NoState = NoState
    MaxFaults = 2
    MaxChanges = 3
INVARIANTS TypeOK OkExact Recognised
PROPERTIES AppliedStays Converges
CHECK_DEADLOCK FALSE
