------------------------------- MODULE Reports -------------------------------
(***************************************************************************)
(* ReportingService: the attendance, overtime and penalty reports, page by *)
(* page, with their totals, as operators over the stored records.  The     *)
(* exports hold the same records in the same order, all on one page.       *)
(***************************************************************************)
EXTENDS StoredRecords, Sequences

\* Filters by employee, status and date; departments are not looked at.
buildQuery(records, f) ==
    {r \in records : /\ f.employeeId # None => r.employeeId = f.employeeId
                     /\ f.status # None => r.status = f.status
                     /\ f.startDate # None => r.recordDate >= f.startDate
                     /\ f.endDate # None => r.recordDate <= f.endDate}

\* Latest first; records of one date in any order.
Sorted(S) ==
    CHOOSE s \in [1 .. Cardinality(S) -> S] :
        \A i, j \in DOMAIN s : i < j => s[i] # s[j] /\ s[i].recordDate >= s[j].recordDate

\* skip (page - 1) * limit, then limit.
PageOf(s, page, limit) ==
    SubSeq(s, (page - 1) * limit + 1, IF page * limit <= Len(s) THEN page * limit ELSE Len(s))

getReport(records, f, page, limit) ==
    LET found == buildQuery(records, f)
    IN  [data |-> PageOf(Sorted(found), page, limit),
         totalAmount |-> Total(found, LAMBDA r : r.amount),
         count |-> Cardinality(found),
         total |-> Cardinality(found),
         totalPages |-> (Cardinality(found) + limit - 1) \div limit]

exportCSV(records, f) == Sorted(buildQuery(records, f))

-----------------------------------------------------------------------------
(* Properties.                                                              *)

\* While the records stay as they are and no two have a date in common, the
\* pages from the first to the last announced are the export cut in pieces, and
\* the amounts on them add up to the total given with each.
PagesMakeTheReport(records, f, limit) ==
    (\A r, s \in records : r.recordDate = s.recordDate => r = s) =>
        LET first == getReport(records, f, 1, limit)
            page[n \in 0 .. first.totalPages] ==
                IF n = 0 THEN <<>> ELSE page[n - 1] \o getReport(records, f, n, limit).data
            all == page[first.totalPages]
        IN  /\ all = exportCSV(records, f)
            /\ first.totalAmount = Total(DOMAIN all, LAMBDA i : all[i].amount)
            /\ \A n \in 1 .. first.totalPages : getReport(records, f, n, limit).data # <<>>
=============================================================================
