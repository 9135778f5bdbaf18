\* One call at a time, two employees, no restart.
CONSTANTS
    Tasks = {t1}
    Runs = {r1}
    Employees = {e1, e2}
    Outcomes <- MCThreeKinds
    Selections <- MCAll
    Totals = {}
    Earlier = {0, 1}
    Ops <- MCSerialOps
    NoRun = NoRun
    NoEmployee = NoEmployee
SPECIFICATION FairSpec
INVARIANTS ReviewedWithoutGrave OneDocumentEach TotalsMatch
PROPERTIES ApprovedStays LockedFrozen PayslipsFollowApproval
