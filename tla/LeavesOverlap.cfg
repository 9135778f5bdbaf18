\* Two calls at a time, with restarts, on one request and entitlement documents
\* that come and go.
CONSTANTS
    t1 = t1
    t2 = t2
    r1 = r1
    r2 = r2
    e1 = e1
    e2 = e2
    e3 = e3
    None = None
    Tasks = {t1, t2}
    Requests = {r1}
    Entitlements = {e1, e2}
    Existing = {}
    YearOf <- MCOneYear
    Grants <- MCSmallGrants
    Settings <- MCNoSettings
    Days = {1, 2}
    Adjustments <- MCNoSettings
    Batches <- MCSingles
    Malformed <- MCRequestOps
    Ops <- MCOverlapOps
    MaxFlow = 1
SPECIFICATION Spec
SYMMETRY MCSymmetry
INVARIANTS TypeOK TwoStageApproval BalanceNeverNegative OneEntitlementPerYear
PROPERTIES TakenMovesAuthorised
