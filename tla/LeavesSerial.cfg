\* One call at a time on two requests charged to one entitlement.
CONSTANTS
    t1 = t1
    t2 = t2
    r1 = r1
    r2 = r2
    e1 = e1
    e2 = e2
    e3 = e3
    None = None
    Tasks = {t1}
    Requests = {r1, r2}
    Entitlements = {e1}
    Existing = {e1}
    YearOf <- MCOneYear
    Grants <- MCSmallGrants
    Settings <- MCSettings
    Days = {1, 2}
    Adjustments <- MCAdjustments
    Batches <- MCPairs
    Malformed <- MCKeepingOps
    Ops <- MCSerialOps
    MaxFlow = 1
SPECIFICATION FairSpec
INVARIANTS RemainingIdentity PendingCoversOpen
PROPERTIES ReviewOnlyAdvances DurationFrozen NeverOverdrawn BatchServed
