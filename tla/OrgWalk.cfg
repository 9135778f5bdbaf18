\* The validation of reporting lines, one call at a time.
CONSTANTS
    Tasks = {t1}
    Departments = {d1}
    Positions = {p1, p2, p3}
    None = None
SPECIFICATION FairSpec
PROPERTY ValidationEnds
