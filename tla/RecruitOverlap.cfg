\* Two calls at a time, with restarts: one application, an offer for it,
\* and one interview.
CONSTANTS
    Tasks = {t1, t2}
    Applications = {a1}
    Offers = {o1}
    Interviews = {i1}
    Interviewers = {m1, m2}
    Statuses <- MCStatuses
    MaxApprovers = 3
    MaxFeedback = 2
    NoDocument = NoDocument
SPECIFICATION Spec
SYMMETRY MCSymmetry
INVARIANTS TypeOK ApprovedWithGrounds AcceptanceInOrder CompletedHasFeedback
CONSTRAINT MCOneSide
