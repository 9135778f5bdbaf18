------------------------------ MODULE PayReports -----------------------------
(***************************************************************************)
(* The certificates and reports of PayrollTrackingService, as operators    *)
(* over the payslips and payroll runs on file.                             *)
(*                                                                         *)
(* An instant is a number: each month has its first moment, the midnight   *)
(* that begins its last day, the last whole second, and what is left after *)
(* that second began.                                                      *)
(***************************************************************************)
EXTENDS StoredRecords

Instant(year, month, quarter) == 4 * (12 * year + month - 1) + quarter

MonthBegins(year, month) == Instant(year, month, 0)

LastDayBegins(year, month) == Instant(year, month, 1)

LastSecond(year, month) == Instant(year, month, 2)

Months == 1 .. 12

Created(S, from, to) ==
    {p \in S : (from # None => p.createdAt >= from) /\ (to # None => p.createdAt <= to)}

\* Payroll runs by the period they pay for.
RunsOf(runs, from, to) ==
    {r \in runs : (from # None => r.payrollPeriod >= from) /\ (to # None => r.payrollPeriod <= to)}

-----------------------------------------------------------------------------
(* Certificates, of one employee and a year.                                *)

\* A payslip lists each tax and insurance under the schema of the tax rules and
\* the insurance brackets, which keep no amount: what is read back is 0.
StoredAmount(item) == 0

Stored(items) == Total(items, StoredAmount)

\* From the first moment of the year to the midnight before its last day.
OfYear(slips, e, year) ==
    {p \in Created(slips, MonthBegins(year, 1), LastDayBegins(year, 12)) : p.employeeId = e}

generateTaxCertificate(slips, e, year) ==
    LET own == OfYear(slips, e, year)
    IN  [totalGrossSalary |-> Total(own, LAMBDA p : p.totalGrossSalary),
         totalTaxDeductions |-> Total(own, LAMBDA p : Stored(p.taxes)),
         totalNetPay |-> Total(own, LAMBDA p : p.netPay)]

generateInsuranceCertificate(slips, e, year) ==
    [totalInsuranceContributions |->
        Total(OfYear(slips, e, year), LAMBDA p : Stored(p.insurances))]

getHistoricalSalaryRecords(slips, e, from, to) ==
    {p \in Created(slips, from, to) : p.employeeId = e}

-----------------------------------------------------------------------------
(* Reports.                                                                 *)

Summary(slips, runs, from, to) ==
    LET paid == RunsOf(runs, from, to)
        made == Created(slips, from, to)
    IN  [totalPayrollRuns |-> Cardinality(paid),
         totalEmployees |-> Total(paid, LAMBDA r : r.employees),
         totalNetPay |-> Total(paid, LAMBDA r : r.totalnetpay),
         totalGrossSalary |-> Total(made, LAMBDA p : p.totalGrossSalary),
         totalDeductions |-> Total(made, LAMBDA p : p.totaDeductions)]

getMonthEndSummary(slips, runs, year, month) ==
    Summary(slips, runs, MonthBegins(year, month), LastSecond(year, month))

getYearEndSummary(slips, runs, year) ==
    [total |-> Summary(slips, runs, MonthBegins(year, 1), LastSecond(year, 12)),
     monthlyBreakdown |-> [m \in Months |-> getMonthEndSummary(slips, runs, year, m)]]

\* Every department is reported the net pay of all.
getDepartmentReport(runs, from, to) ==
    [totalNetPay |-> Total(RunsOf(runs, from, to), LAMBDA r : r.totalnetpay),
     totalGrossSalary |-> 0, totalDeductions |-> 0]

\* A line for each item of a kind on each payslip; no payslip lists benefits.
Itemised(slips, from, to, kind) ==
    LET found == Created(slips, from, to)
        items(p) == IF kind = "benefits" THEN {} ELSE p[kind]
    IN  [total |-> Total(found, LAMBDA p : Stored(items(p))),
         totalEmployees |-> Cardinality({p.employeeId : p \in found}),
         breakdown |-> UNION {{[payslipId |-> p.id, item |-> i] : i \in items(p)} : p \in found}]

getTaxReport(slips, from, to) == Itemised(slips, from, to, "taxes")

getInsuranceReport(slips, from, to) == Itemised(slips, from, to, "insurances")

getBenefitsReport(slips, from, to) == Itemised(slips, from, to, "benefits")

-----------------------------------------------------------------------------
(* Properties.                                                              *)

\* What is made in the last second of a month is in no month.
Dated(p, t) == t % 4 # 3

\* The twelve months add up to the year, in each of the five totals, though
\* three are taken by the period paid for and two by the date of the payslips;
\* the department reports of a month agree with its summary; and the reports
\* of taxes and insurance list in the months what they list in the year
\* (getYearEndSummary, getMonthEndSummary, getDepartmentReport, getTaxReport).
MonthsMakeTheYear(slips, runs, year) ==
    (\A p \in slips : Dated(p, p.createdAt)) /\ (\A r \in runs : Dated(r, r.payrollPeriod)) =>
        LET y == getYearEndSummary(slips, runs, year) IN
        /\ \A f \in DOMAIN y.total :
              y.total[f] = Total(Months, LAMBDA m : y.monthlyBreakdown[m][f])
        /\ \A m \in Months :
              getDepartmentReport(runs, MonthBegins(year, m), LastSecond(year, m)).totalNetPay
                 = y.monthlyBreakdown[m].totalNetPay
        /\ LET items(from, to) == getTaxReport(slips, from, to).breakdown
                                    \cup getInsuranceReport(slips, from, to).breakdown
           IN  items(MonthBegins(year, 1), LastSecond(year, 12))
                  = UNION {items(MonthBegins(year, m), LastSecond(year, m)) : m \in Months}

\* No payslip is certified for two years, and one that was made in a year before
\* its last day is certified for one (generateTaxCertificate).
CertifiedOnce(slips, years) ==
    \A p \in slips :
        LET of == {y \in years : p \in OfYear(slips, p.employeeId, y)}
        IN  /\ Cardinality(of) <= 1
            /\ (\E y \in years : p.createdAt \in MonthBegins(y, 1) .. LastDayBegins(y, 12) - 1)
                   => Cardinality(of) = 1
=============================================================================
