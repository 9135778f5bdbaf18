------------------------------ MODULE PrePayroll -----------------------------
(***************************************************************************)
(* What time management reports to payroll: the payload and the validation *)
(* of PayrollService and the closing report of PrePayrollService, as       *)
(* operators over the stored attendance records, the results of the policy *)
(* engine and the time exceptions.  None of them writes anything, also     *)
(* checkAndEscalate, which says "escalated" of what it found.              *)
(***************************************************************************)
EXTENDS StoredRecords

Within(date, from, to) == from <= date /\ date <= to

\* The results of a kind on a record, in a status.
ResultsOf(results, r, kind, status) ==
    {x \in results : x.record = r.id /\ x.kind = kind /\ x.status = status}

\* No employees named are all of them.
Sent(records, from, to, employees) ==
    {r \in records : /\ r.finalisedForPayroll
                     /\ Within(r.recordDate, from, to)
                     /\ employees # {} => r.employee \in employees}

\* The totals by employee, over the approved results of each record.
Totals(records, results) ==
    LET approved(kind) == UNION {ResultsOf(results, r, kind, "APPROVED") : r \in records}
    IN  [worked |-> Total(records, LAMBDA r : r.totalWorkMinutes),
         overtime |-> Total(approved("OVERTIME"), LAMBDA x : x.amount),
         penalties |-> Total(approved("PENALTY"), LAMBDA x : x.amount)]

generatePayrollPayload(records, results, from, to, employees) ==
    LET sent == Sent(records, from, to, employees)
        rows == [e \in {r.employee : r \in sent} |->
                    Totals({r \in sent : r.employee = e}, results)]
    IN  [rows |-> rows, totalRecords |-> Cardinality(sent),
         totalAmount |-> Total(DOMAIN rows, LAMBDA e : rows[e].overtime - rows[e].penalties)]

Pending(results, kind, from, to) ==
    {x \in results : x.kind = kind /\ x.status = "PENDING" /\ Within(x.recordDate, from, to)}

\* Escalated exceptions do not count as unresolved.
Unresolved(exceptions, r) ==
    {x \in exceptions : x.record = r.id /\ x.status \in {"OPEN", "PENDING"}}

validatePrePayroll(records, results, exceptions, from, to) ==
    LET due == {r \in records : Within(r.recordDate, from, to)}
        pending == Cardinality(Pending(results, "OVERTIME", from, to))
                      + Cardinality(Pending(results, "PENALTY", from, to))
        inconsistent == Total(due, LAMBDA r : Cardinality(Unresolved(exceptions, r)))
                      + Cardinality({r \in due : ~r.finalisedForPayroll})
    IN  [isValid |-> pending = 0 /\ inconsistent = 0,
         pendingApprovals |-> pending, inconsistentRecords |-> inconsistent]

\* Exceptions are looked for by a date of creation that is not stored.
generatePreSyncReport(results, from, to) ==
    [pendingOvertime |-> Pending(results, "OVERTIME", from, to),
     pendingPenalties |-> Pending(results, "PENALTY", from, to),
     pendingExceptions |-> {}]

\* The results to escalate: pending, and stored before the deadline.
checkAndEscalate(results, from, to, deadline) ==
    {x \in Pending(results, "OVERTIME", from, to) \cup Pending(results, "PENALTY", from, to) :
        x.createdAt < deadline}

-----------------------------------------------------------------------------
(* Properties.                                                              *)

\* Results bear the date of their record, which the caller of the computation
\* gives ("Date of the attendance record", penalty-record.schema.ts).
DatedAsRecorded(records, results) ==
    \A x \in results, r \in records : x.record = r.id => x.recordDate = r.recordDate

\* After a validation without issues the payload leaves out nothing but results
\* that were rejected or overridden: it has every record of the period and its
\* total is that of every other result, with nothing left to decide; and a
\* period with something to escalate is not valid (validatePrePayroll,
\* generatePayrollPayload).
ValidMeansComplete(records, results, exceptions, from, to, deadline) ==
    LET due == {r \in records : Within(r.recordDate, from, to)}
        standing(kind) == {x \in results : /\ x.kind = kind
                                           /\ x.status \notin {"REJECTED", "OVERRIDDEN"}
                                           /\ \E r \in due : x.record = r.id}
        payload == generatePayrollPayload(records, results, from, to, {})
    IN  DatedAsRecorded(records, results)
            /\ validatePrePayroll(records, results, exceptions, from, to).isValid =>
               /\ payload.totalRecords = Cardinality(due)
               /\ payload.totalAmount = Total(standing("OVERTIME"), LAMBDA x : x.amount)
                                           - Total(standing("PENALTY"), LAMBDA x : x.amount)
               /\ checkAndEscalate(results, from, to, deadline) = {}
=============================================================================
