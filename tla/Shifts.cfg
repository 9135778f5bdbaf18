\* One call at a time, with restarts and a clock.
CONSTANTS
    Tasks = {t1}
    Templates = {p1}
    Assignments = {a1, a2, a3}
    e1 = e1
    e2 = e2
    Targets <- MCTargets
    Windows <- MCWindows
    Lists <- MCLists
    AssignmentStatuses <- MCAssignmentStatuses
    TemplateStatuses <- MCTemplateStatuses
    Expiries <- MCExpiries
    Horizons = {2}
    LastTime = 3
    Indefinite = Indefinite
    NoDocument = NoDocument
SPECIFICATION Spec
SYMMETRY MCSymmetry
INVARIANTS  NoticesBounded DetectionComplete
PROPERTIES NoNewConflict
