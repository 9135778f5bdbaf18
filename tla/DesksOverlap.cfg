\* Two calls at a time, with restarts.
CONSTANTS
    Tasks = {t1, t2}
    Configs = {"c1", "c2"}
    Contents = {"x1", "x2"}
    Approvers = {"m1"}
    NoOne = NoOne
    Nothing = Nothing
    Claims = {"cl1"}
    ClaimDisputes = {"di1"}
    Refunds = {"re1"}
    Runs = {}
    Amounts = {100}
    Employees = {"e1", "e2"}
    ProfileRequests = {"q1", "q2"}
    NationalIds = {"i1", "i2"}
    RequestTypes = {"full"}
    Departments = {"d1"}
    Positions = {"p1", "p2", "p3"}
    AppraisalTemplates = {"at1"}
    Cycles = {}
    Records = {"ar1"}
    AppraisalDisputes = {"ad1"}
    Raters = {"e1"}
    Ratings = {"good"}
    Forms <- MCForms
    Bonuses = {"sb1", "sb2"}
    Hires = {"e1", "e2", "e3"}
    Hired = {"e1", "e2"}
    Eligible = {"e1", "e3"}
    Promised = {"e1"}
    JobTemplates = {"jt1"}
    Requisitions = {"jr1"}
    Candidates = {"ca1"}
    Vacancies = {"v1"}
    MaxReferrals = 1
    Calendars = {"k1", "k2"}
    Periods = {"eid", "may"}
    Years = {"2025"}
    Replacements = {}
    MaxPeriods = 3
    LeaveTypes = {"y1", "y2"}
    Codes = {"annual"}
    PolicyIds = {"lp1", "lp2"}
    Dates = {1}
    Months = {0, 1}
    LastTime = 2
    Logs = {"l1", "l2"}
    MaxRetries = 2
    ExceptionIds = {"x1"}
    Days = {"day1"}
    Penalties = {"MISSED_PUNCH"}
    Reviewers = {"m1"}
    Desks = {"tracking", "performance", "bonuses", "hiring", "calendar", "sync", "exceptions"}
SPECIFICATION DesksSpec
INVARIANTS DecisionsHaveGrounds PendingBounded
PROPERTIES NoPeriodLost
CONSTRAINT MCBound
CHECK_DEADLOCK FALSE
