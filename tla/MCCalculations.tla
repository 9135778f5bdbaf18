--------------------------- MODULE MCCalculations ----------------------------
(***************************************************************************)
(* The calculations, on finite inputs.                                     *)
(***************************************************************************)
EXTENDS Calculations

-----------------------------------------------------------------------------
(* Pay.                                                                     *)

MCAllowances == {"housing", "transport"}
MCAmounts == [a \in MCAllowances |-> IF a = "housing" THEN 200050 ELSE 33333]
MCTaxRules == {"income", "levy"}
MCTaxRates == [r \in MCTaxRules |-> IF r = "income" THEN 10 ELSE 1]

\* Two brackets that share a bound.
MCBrackets == {"low", "high"}
MCBracketOf ==
    [b \in MCBrackets |->
        IF b = "low" THEN [minSalary |-> 0, maxSalary |-> 900000, employeeRate |-> 11]
        ELSE [minSalary |-> 900000, maxSalary |-> 0, employeeRate |-> 9]]

MCPlain == [active |-> TRUE, contracted |-> TRUE, grossSalary |-> 900000, startDate |-> NoDate,
            endDate |-> NoDate, contractStartDate |-> NoDate, contractEndDate |-> NoDate,
            period |-> 2, minimumWage |-> 0, unpaidLeaveDays |-> 0, penalties |-> 0,
            recoveries |-> 0, refunds |-> 0, includeAllowances |-> TRUE, includeTaxes |-> TRUE,
            includeInsurance |-> TRUE]

\* Contracts that begin and end before, in and after the month, some at noon.
MCDated ==
    {[MCPlain EXCEPT !.startDate = s, !.endDate = e, !.contractEndDate = x] :
        s \in {NoDate, 0, 2, 3, 20, 56, 57, 64}, e \in {NoDate, 0, 2, 20, 21, 56, 60},
        x \in {NoDate, 2, 30}}

MCPaid ==
    {[MCPlain EXCEPT !.grossSalary = g, !.minimumWage = m, !.unpaidLeaveDays = u, !.penalties = p,
                     !.recoveries = r, !.refunds = f, !.includeAllowances = b] :
        g \in {600001, 900000, 1500000}, m \in {0, 500000}, u \in {0, 1, 20}, p \in {-5, 0, 70001, 900000},
        r \in {0, 50000}, f \in {0, 40000}, b \in BOOLEAN}

MCRefused ==
    {[MCPlain EXCEPT !.active = a, !.contracted = c, !.grossSalary = g, !.contractStartDate = s,
                     !.includeTaxes = a, !.includeInsurance = c] :
        a \in BOOLEAN, c \in BOOLEAN, g \in {0, 600000}, s \in {NoDate, 2, 4}}

MCCases == MCDated \cup MCPaid \cup MCRefused

-----------------------------------------------------------------------------
(* Time.                                                                    *)

\* Up to four punches in any order, some at one time; with two to the minute
\* most stretches are of half minutes.
MCPunches ==
    UNION {{[i \in 1 .. n |-> [type |-> k[i], time |-> t[i]]] :
              k \in [1 .. n -> {"IN", "OUT"}], t \in [1 .. n -> {3, 10, 16, 21}]} : n \in 0 .. 4}

MCRule == [gracePeriodMinutes |-> 2, deductionPerMinute |-> 3, maxDeductionPerDay |-> 12]

MCPolicy == [scope |-> "GLOBAL", employeeId |-> None, active |-> TRUE, effectiveFrom |-> None,
             effectiveTo |-> None, createdAt |-> 1, latenessRule |-> MCRule,
             shortTimeRule |-> [gracePeriodMinutes |-> 1, penaltyPerMinute |-> 2],
             overtimeRule |-> [thresholdMinutes |-> 2, multiplier |-> 15, dailyCapMinutes |-> 4,
                               weekendMultiplier |-> 20],
             weekendDays |-> {5}, roundingRule |-> "NONE", roundingIntervalMinutes |-> 5,
             penaltyCapPerDay |-> 10]

MCPolicies ==
    {[MCPolicy EXCEPT !.roundingRule = r, !.latenessRule = l, !.penaltyCapPerDay = c] :
        r \in {"NONE", "ROUND_UP", "ROUND_DOWN", "ROUND_NEAREST"}, l \in {None, MCRule}, c \in {0, 10}}

MCDay(stamps) ==
    {[punches |-> stamps, recordDate |-> d, startDate |-> 5, scheduledStart |-> s,
      scheduledMinutes |-> m, approved |-> x, hasMissedPunch |-> FALSE] :
        d \in {5, 6}, s \in {None, 16}, m \in {0, 8, 13}, x \in SUBSET {"LATE", "SHORT_TIME"}}

\* Days of one stretch and of two.
MCDays ==
    LET stamp(k, t) == [type |-> k, time |-> t] IN
    UNION {MCDay(<<stamp("IN", i), stamp("OUT", o)>>) : i \in {16, 27}, o \in {33, 42, 61}}
    \cup UNION {MCDay(<<stamp("IN", 16), stamp("OUT", n), stamp("IN", 50), stamp("OUT", o)>>) :
                  n \in {23, 25}, o \in {59, 63}}

\* Two policies of any scope and validity.
MCChoices ==
    LET policies == {[MCPolicy EXCEPT !.scope = s, !.employeeId = "e1", !.active = a, !.createdAt = c,
                                      !.effectiveFrom = f, !.effectiveTo = t] :
                       s \in {"GLOBAL", "EMPLOYEE", "DEPARTMENT"}, a \in BOOLEAN, c \in {1},
                       f \in {None, 3}, t \in {None, 4}}
    IN  {{p, [q EXCEPT !.createdAt = 2]} : p, q \in policies}

MCRecords ==
    LET record(n, e, d, f) == [id |-> n, employee |-> e, recordDate |-> d, finalisedForPayroll |-> f,
                               totalWorkMinutes |-> 60]
    IN  {{record(1, "e1", 1, f), record(2, e, d, TRUE)} : f \in BOOLEAN, e \in {"e1", "e2"}, d \in {2, 5}}

MCResults ==
    LET result(n, k, s, d) == [id |-> n, record |-> n, kind |-> k, status |-> s, recordDate |-> d,
                               amount |-> 7 * n, createdAt |-> n]
    IN  {{result(1, k, s, 1), result(2, l, t, d)} :
           k, l \in {"OVERTIME", "PENALTY"}, d \in {2, 5},
           s, t \in {"PENDING", "APPROVED", "REJECTED", "OVERRIDDEN"}}

MCExceptions == {{}} \cup {{[record |-> 2, status |-> s]} : s \in {"OPEN", "ESCALATED"}}

-----------------------------------------------------------------------------
(* Reports.                                                                 *)

MCSlips ==
    LET slip(n, e, at) == [id |-> n, employeeId |-> e, createdAt |-> at, totalGrossSalary |-> 10 * n,
                           totaDeductions |-> n, netPay |-> 9 * n, taxes |-> {"income"},
                           insurances |-> {"social"}]
        at == {Instant(y, m, q) : y \in {0, 1}, m \in {1, 2, 12}, q \in 0 .. 3}
    IN  {{slip(1, "e1", t), slip(2, "e2", u)} : t, u \in at}

MCPaidRuns ==
    {{[payrollPeriod |-> Instant(1, m, q), totalnetpay |-> 9, employees |-> 2]} :
        m \in {1, 12}, q \in {0, 2}}

MCFiles ==
    {{[employeeId |-> e, status |-> "PENDING", recordDate |-> d, amount |-> d] : d \in D} \cup
     {[employeeId |-> "e2", status |-> "APPROVED", recordDate |-> d, amount |-> d] : d \in 4 .. 5} :
        D \in SUBSET (1 .. 3), e \in {"e1", "e2"}}

MCFilters ==
    [employeeId : {None, "e2"}, status : {None, "PENDING"}, startDate : {None, 2}, endDate : {None, 4}]

-----------------------------------------------------------------------------
MCQuestions ==
    {[about |-> "punches", punches |-> p] : p \in MCPunches}
    \cup {[about |-> "day", day |-> d, policy |-> p] : d \in MCDays, p \in MCPolicies}
    \cup {[about |-> "policy", policies |-> P, employee |-> e, date |-> d] :
            P \in MCChoices, e \in {"e1", "e2"}, d \in 2 .. 5}
    \cup {[about |-> "closing", records |-> R, results |-> X, exceptions |-> E, from |-> 1, to |-> 3,
           deadline |-> 2] : R \in MCRecords, X \in MCResults, E \in MCExceptions}
    \cup {[about |-> "slips", slips |-> S, runs |-> R, year |-> 1] : S \in MCSlips, R \in MCPaidRuns}
    \cup {[about |-> "certificates", slips |-> S, years |-> {0, 1}] : S \in MCSlips}
    \cup {[about |-> "pages", records |-> R, filter |-> f, limit |-> n] :
            R \in MCFiles, f \in MCFilters, n \in 1 .. 3}
=============================================================================
