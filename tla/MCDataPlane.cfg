SPECIFICATION FairSpec
CONSTANTS
    va = va  vb = vb  a1 = a1  a2 = a2  aS = aS  b1 = b1  u1 = u1  u2 = u2  ra = ra  raN = raN  rb = rb
    Vip = {va, vb}
    NoVip = NoVip
    Service = {a1, a2, aS, b1}
    Slot = {a1, a2, b1}
    Upstream = {u1, u2}
    Weight = {0, 1}
    Route = {ra, raN, rb}
    Prefix = {va, vb}
    NoService = NoService
    NoReal = NoReal
    NoCur = NoCur
    NoHold = NoHold
    NoState = NoState
    VipOf <- MCVipOf
    SlotOf <- MCSlotOf
    PrefixOf <- MCPrefixOf
    Covers <- MCCovers
    HoldOf <- MCHoldOf
    DesiredState <- MCDesiredState
    Failing = {"getState", "addReal", "updateReal", "deleteReal", "addService", "addAddress", "advertise", "deleteService", "deleteAddress"}
    MaxFailures = 2
    MaxRestarts = 1
    MaxChanges = 3
INVARIANTS TypeOK AnnouncedServed OkMeansApplied
PROPERTIES OwnDrainBeforeDelete ShutdownOnlyRemoves ShutdownCleans EventuallyApplied ImplementsReconciler
