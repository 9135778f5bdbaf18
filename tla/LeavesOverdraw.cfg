\* Two calls at a time: both reserve the same days.
CONSTANTS
    t1 = t1
    t2 = t2
    r1 = r1
    r2 = r2
    e1 = e1
    e2 = e2
    e3 = e3
    None = None
    Tasks = {t1, t2}
    Requests = {r1, r2}
    Entitlements = {e1}
    Existing = {e1}
    YearOf <- MCOneYear
    Grants <- MCSmallGrants
    Settings <- MCNoSettings
    Days = {2}
    Adjustments <- MCNoSettings
    Batches <- MCSingles
    Malformed <- MCNoOps
    Ops <- MCReviewOps
    MaxFlow = 1
SPECIFICATION Spec
INVARIANTS Covered
