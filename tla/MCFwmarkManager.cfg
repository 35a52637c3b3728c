SPECIFICATION Spec
CONSTANTS
    a1 = a1  a2 = a2  a3 = a3
    Addr = {a1, a2, a3}
    Balancer = {b1, b2}
    Base = 10
    MaxFwmark = 2
    Lists <- MCLists
    MaxUpdates = 5
INVARIANTS TypeOK Partition ServicesKeepMarks MarksAccountedFor
CHECK_DEADLOCK FALSE
