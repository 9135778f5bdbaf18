\* Two calls at a time, with restarts: creation, calculation, every route to
\* approval, and payslips.
CONSTANTS
    Tasks = {t1, t2}
    Runs = {r1, r2}
    Employees = {e1}
    Outcomes <- MCTwoKinds
    Selections <- MCAll
    Totals = {}
    Earlier = {0}
    Ops <- MCOverlapOps
    NoRun = NoRun
    NoEmployee = NoEmployee
SPECIFICATION Spec
SYMMETRY MCSymmetry
INVARIANTS TypeOK NoPaymentWithoutReview RunIdUnique PayslipsOnlyWhenPaid
CONSTRAINT MCOneRun
