---------------------------- MODULE Organization -----------------------------
(***************************************************************************)
(* OrganizationStructureService and the hooks of the position schema:      *)
(* departments with a head, positions, and who reports to whom.  A handler *)
(* is one action per database round trip where another handler can make a  *)
(* difference; a walk up the reporting line is one action per position it  *)
(* reads.  Codes, titles and descriptions are left out.                    *)
(***************************************************************************)

CONSTANTS
    Tasks,          \* calls that can be in progress at the same time
    Departments,
    Positions,
    None

VARIABLES
    department,     \* department[d]: the document of d
    position,       \* position[p]: the document of p
    task            \* task[t]: what the call t remembers between two awaits

vars == <<department, position, task>>

NoDepartment == [kept |-> FALSE, isActive |-> FALSE, headPositionId |-> None]

NoPosition == [kept |-> FALSE, isActive |-> FALSE, departmentId |-> None,
               reportsToPositionId |-> None]

Idle == [pc |-> "idle"]

Init ==
    /\ department = [d \in Departments |-> NoDepartment]
    /\ position = [p \in Positions |-> NoPosition]
    /\ task = [t \in Tasks |-> Idle]

-----------------------------------------------------------------------------
Ready(t) == task[t].pc = "idle"

Continue(t, h) == task' = [task EXCEPT ![t] = h]

\* A handler returns or throws.
Return(t) == Continue(t, Idle)

Above(p) == position[p].reportsToPositionId

\* resolveDepartmentHead: whom a position of the department d is made to
\* report to; None leaves the line as it is.
DepartmentHead(d, p) ==
    IF department[d].headPositionId = p THEN None ELSE department[d].headPositionId

-----------------------------------------------------------------------------
(* Departments.                                                             *)

createDepartment(t, d) ==
    /\ Ready(t)
    /\ ~department[d].kept
    /\ department' = [department EXCEPT ![d] = [NoDepartment EXCEPT !.kept = TRUE,
                                                                   !.isActive = TRUE]]
    /\ UNCHANGED <<position, task>>

\* The body is written as it is; nothing looks at whose position the head's is.
updateDepartment(t, d, h) ==
    /\ Ready(t)
    /\ department[d].kept
    /\ department' = [department EXCEPT ![d].headPositionId = h]
    /\ UNCHANGED <<position, task>>

\* activateDepartment and deactivateDepartment: find, set the flag, save.
setDepartmentActive(t, d, b) ==
    /\ Ready(t)
    /\ department[d].kept
    /\ department[d].isActive # b
    /\ department' = [department EXCEPT ![d].isActive = b]
    /\ UNCHANGED <<position, task>>

-----------------------------------------------------------------------------
(* Positions.                                                               *)

\* Inserted past Mongoose, so that the hook for save does not run.
createPosition(t, p, d, q) ==
    /\ Ready(t)
    /\ ~position[p].kept
    /\ department[d].kept
    /\ position' = [position EXCEPT ![p] = [kept |-> TRUE, isActive |-> TRUE, departmentId |-> d,
                                            reportsToPositionId |-> q]]
    /\ UNCHANGED <<department, task>>

\* The hook for findOneAndUpdate has the position report to the head of its
\* department, old or new, before the update is written.
Rehomed(p, d) ==
    [position[p] EXCEPT !.departmentId = d,
                        !.reportsToPositionId = IF DepartmentHead(d, p) = None THEN @
                                                ELSE DepartmentHead(d, p)]

\* A line that the body names wins over the head, and is not looked at; nor is
\* whether its department exists.
updatePosition(t, p, d, q) ==
    /\ Ready(t)
    /\ position[p].kept
    /\ position' = [position EXCEPT ![p] =
           IF q = None THEN Rehomed(p, d)
           ELSE [@ EXCEPT !.departmentId = d, !.reportsToPositionId = q]]
    /\ UNCHANGED <<department, task>>

\* findByIdAndUpdate, so the hook runs for this too.
deactivatePosition(t, p) ==
    /\ Ready(t)
    /\ position[p].kept
    /\ position' = [position EXCEPT ![p] = [Rehomed(p, @.departmentId) EXCEPT !.isActive = FALSE]]
    /\ UNCHANGED <<department, task>>

\* Updated past the hooks.
activatePosition(t, p) ==
    /\ Ready(t)
    /\ position[p].kept
    /\ position' = [position EXCEPT ![p].isActive = TRUE]
    /\ UNCHANGED <<department, task>>

\* Updated past the hooks; both positions must exist and no more is asked.
setReportingLine(t, p, q) ==
    /\ Ready(t)
    /\ position[p].kept /\ position[q].kept
    /\ position' = [position EXCEPT ![p].reportsToPositionId = q]
    /\ UNCHANGED <<department, task>>

removeReportingLine(t, p) ==
    /\ Ready(t)
    /\ position[p].kept
    /\ position' = [position EXCEPT ![p].reportsToPositionId = None]
    /\ UNCHANGED <<department, task>>

-----------------------------------------------------------------------------
(* The validation of a reporting line.                                      *)

\* Both positions are active, in one department and different.
Acceptable(p, q) ==
    /\ position[p].isActive /\ position[q].isActive
    /\ position[p].departmentId = position[q].departmentId
    /\ p # q

Answer(p, q, verdict) == [pc |-> "answer", source |-> p, target |-> q, verdict |-> verdict]

\* Mutant: the walk starts above the position above the target.
validateReportingLine_SkipsOne(t, p, q) ==
    /\ Ready(t)
    /\ position[p].kept /\ position[q].kept
    /\ Continue(t, IF Acceptable(p, q)
                   THEN [pc |-> "walk", source |-> p, target |-> q,
                         current |-> IF Above(q) = None THEN None ELSE Above(Above(q))]
                   ELSE Answer(p, q, "invalid"))
    /\ UNCHANGED <<department, position>>

validateReportingLine(t, p, q) ==
    /\ Ready(t)
    /\ position[p].kept /\ position[q].kept
    /\ Continue(t, IF Acceptable(p, q)
                   THEN [pc |-> "walk", source |-> p, target |-> q, current |-> Above(q)]
                   ELSE Answer(p, q, "invalid"))
    /\ UNCHANGED <<department, position>>

\* One round of the loop: read the next position up, compare it.
walk(t) ==
    LET h == task[t] IN
    /\ h.pc = "walk"
    /\ Continue(t, IF h.current = None \/ ~position[h.current].kept
                   THEN Answer(h.source, h.target, "valid")
                   ELSE IF h.current = h.source
                   THEN Answer(h.source, h.target, "loop")
                   ELSE [h EXCEPT !.current = Above(h.current)])
    /\ UNCHANGED <<department, position>>

answer(t) ==
    /\ task[t].pc = "answer"
    /\ Return(t)
    /\ UNCHANGED <<department, position>>

-----------------------------------------------------------------------------
\* A crash or redeploy loses the calls in progress.
restart ==
    /\ \E t \in Tasks : ~Ready(t)
    /\ task' = [t \in Tasks |-> Idle]
    /\ UNCHANGED <<department, position>>

CallDepartment(t) ==
    \E d \in Departments :
        \/ createDepartment(t, d)
        \/ \E p \in Positions : updateDepartment(t, d, p)
        \/ \E b \in BOOLEAN : setDepartmentActive(t, d, b)

CallPosition(t) ==
    \E p \in Positions :
        \/ \E d \in Departments, q \in Positions \cup {None} :
              createPosition(t, p, d, q) \/ updatePosition(t, p, d, q)
        \/ deactivatePosition(t, p) \/ activatePosition(t, p)

CallLine(t) ==
    \E p, q \in Positions :
        setReportingLine(t, p, q) \/ removeReportingLine(t, p) \/ validateReportingLine(t, p, q)

Call(t) == CallDepartment(t) \/ CallPosition(t) \/ CallLine(t)

Step(t) == walk(t) \/ answer(t)

Next == restart \/ \E t \in Tasks : Call(t) \/ Step(t)

Spec == Init /\ [][Next]_vars

\* The database answers and the handler resumes; restarts end.
FairSpec == Spec /\ \A t \in Tasks : WF_vars(Step(t))

-----------------------------------------------------------------------------
(* Properties.                                                              *)

Department == [kept : {TRUE}, isActive : BOOLEAN, headPositionId : Positions \cup {None}]

Position == [kept : {TRUE}, isActive : BOOLEAN, departmentId : Departments,
             reportsToPositionId : Positions \cup {None}]

\* The stored documents have their types.
TypeOK ==
    /\ department \in [Departments -> Department \cup {NoDepartment}]
    /\ position \in [Positions -> Position \cup {NoPosition}]

\* With a position that is kept, S has the one it reports to.
Closed(S) == \A p \in S \cap Positions : position[p].kept => Above(p) \in S

\* The positions that p reports to, over any number of others: those in every
\* closed set with the one right above it.
UpTo(p) ==
    {q \in Positions : \A S \in SUBSET (Positions \cup {None}) :
                          (Above(p) \in S /\ Closed(S)) => q \in S}

\* While calls do not overlap, the validation of a reporting line accepts it
\* only when the target does not report to the source, over any number of
\* positions, and speaks of a loop only when it does (validateReportingLine).
VerdictIsRight ==
    \A t \in Tasks :
        LET h == task[t] IN
        h.pc = "answer" =>
            /\ h.verdict = "valid" => h.source \notin UpTo(h.target)
            /\ h.verdict = "loop" => h.source \in UpTo(h.target)

\* Every validation is answered (validateReportingLine: "Prevent circular
\* loops").
ValidationEnds == \A t \in Tasks : task[t].pc = "walk" ~> task[t].pc # "walk"
=============================================================================
