------------------------------- MODULE Bonuses -------------------------------
(***************************************************************************)
(* PayrollExecutionService: the signing bonuses of new employees.  HR's    *)
(* onboarding event creates one, payroll approves or overrides it.  A      *)
(* handler is one action per database round trip.  Of a payment date the   *)
(* model keeps whether it is set; amounts and comments are left out.       *)
(*                                                                         *)
(* Whether a contract makes its employee eligible, and which bonus it      *)
(* promises, are fields that no service of the repository writes: they are *)
(* constants here.  Bonuses may also be entered from outside.              *)
(***************************************************************************)
EXTENDS MongooseDoc

CONSTANTS
    Tasks,      \* calls that can be in progress at the same time
    Bonuses,    \* ids of signing bonus documents
    Employees,
    Hired,      \* the employees with a profile
    Eligible,   \* those whose contract has signingBonusEligible
    Promised,   \* those whose contract names the bonus it promises
    None

PENDING == "pending"
PAID == "paid"
APPROVED == "approved"
REJECTED == "rejected"

BonusStatus == {PENDING, PAID, APPROVED, REJECTED}

VARIABLES
    bonus,      \* bonus[b]: the document of b
    task        \* task[t]: what the call t remembers between two awaits

vars == <<bonus, task>>

NoBonus == [status |-> "absent", employeeId |-> None, dated |-> FALSE]

Idle == [pc |-> "idle"]

Init == bonus = [b \in Bonuses |-> NoBonus] /\ task = [t \in Tasks |-> Idle]

-----------------------------------------------------------------------------
Ready(t) == task[t].pc = "idle"

Continue(t, h) == task' = [task EXCEPT ![t] = h]

\* A handler returns or throws.
Return(t) == Continue(t, Idle)

\* isContractEligible, of an employee that was found.
isContractEligible(e) == e \in Hired \cap Eligible

\* A document written to the collection by hand.
enter(b, e, dated) ==
    /\ bonus[b] = NoBonus
    /\ bonus' = [bonus EXCEPT ![b] = [status |-> PENDING, employeeId |-> e, dated |-> dated]]
    /\ UNCHANGED task

\* The employee is found, the contract or the event speaks for a bonus, and
\* the document is inserted with a date: the one given, or now.  The schema
\* wants the id of the bonus, which only the contract can name.
handleNewHireEvent(t, b, e, flag) ==
    /\ Ready(t)
    /\ e \in Hired
    /\ e \in Eligible \/ flag
    /\ e \in Promised
    /\ bonus[b] = NoBonus
    /\ bonus' = [bonus EXCEPT ![b] = [status |-> PENDING, employeeId |-> e, dated |-> TRUE]]
    /\ UNCHANGED task

-----------------------------------------------------------------------------
\* The call has read b and will save it with the status s, and with a date if
\* one is given.
Deciding(b, s, date) ==
    [pc |-> "employee", ref |-> b, read |-> bonus[b],
     doc |-> [bonus[b] EXCEPT !.status = s, !.dated = @ \/ date]]

approveSigningBonus(t, b, date) ==
    /\ Ready(t)
    /\ bonus[b] # NoBonus
    /\ bonus[b].status # REJECTED
    /\ Continue(t, Deciding(b, APPROVED, date))
    /\ UNCHANGED bonus

\* normalizeOverrideStatus refuses an approval; no status leaves it as it is.
manuallyOverrideSigningBonus(t, b, s, date) ==
    /\ Ready(t)
    /\ bonus[b] # NoBonus
    /\ s # APPROVED
    /\ Continue(t, Deciding(b, IF s = None THEN bonus[b].status ELSE s, date))
    /\ UNCHANGED bonus

\* The employee is found and eligible, and a payment date is set by now.
findEmployee(t) ==
    LET h == task[t] IN
    /\ h.pc = "employee"
    /\ IF isContractEligible(h.read.employeeId) /\ h.doc.dated
       THEN Continue(t, [h EXCEPT !.pc = "save"])
       ELSE Return(t)
    /\ UNCHANGED bonus

saveBonus(t) ==
    /\ task[t].pc = "save"
    /\ bonus' = [bonus EXCEPT ![task[t].ref] = Saved(@, task[t].read, task[t].doc)]
    /\ Return(t)

\* What getProcessedSigningBonuses lists for the filter s.
Processed(s) ==
    {b \in Bonuses : /\ bonus[b].dated
                     /\ bonus[b].status \in IF s = None THEN {PENDING, APPROVED, PAID} ELSE {s}
                     /\ isContractEligible(bonus[b].employeeId)}

-----------------------------------------------------------------------------
\* A crash or redeploy loses the calls in progress.
restart ==
    /\ \E t \in Tasks : ~Ready(t)
    /\ task' = [t \in Tasks |-> Idle]
    /\ UNCHANGED bonus

Call(t) ==
    \E b \in Bonuses :
        \/ \E e \in Employees, flag \in BOOLEAN : handleNewHireEvent(t, b, e, flag)
        \/ \E date \in BOOLEAN :
              \/ approveSigningBonus(t, b, date)
              \/ \E s \in BonusStatus \cup {None} : manuallyOverrideSigningBonus(t, b, s, date)

Step(t) == findEmployee(t) \/ saveBonus(t)

Next ==
    \/ restart
    \/ \E b \in Bonuses, e \in Employees, dated \in BOOLEAN : enter(b, e, dated)
    \/ \E t \in Tasks : Call(t) \/ Step(t)

Spec == Init /\ [][Next]_vars

-----------------------------------------------------------------------------
(* Properties.                                                              *)

\* The stored documents have their types.
TypeOK ==
    bonus \in [Bonuses -> {NoBonus} \cup [status : BonusStatus, employeeId : Employees,
                                          dated : BOOLEAN]]

\* Through every overlap of approvals and overrides, an approved bonus has a
\* payment date and belongs to an eligible employee, so that the review lists
\* it (approveSigningBonus, getProcessedSigningBonuses).
ApprovedIsListed ==
    \A b \in Bonuses : bonus[b].status = APPROVED => b \in Processed(APPROVED)
=============================================================================
