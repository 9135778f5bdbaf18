----------------------------- MODULE Calculations ----------------------------
(***************************************************************************)
(* The calculations: the pay of an employee step by step (PayCalculation), *)
(* and the operators of the policy engine, of the closing of a period and  *)
(* of the reports, each asked one question in the first state.             *)
(***************************************************************************)
EXTENDS PayCalculation, PolicyEngine, PrePayroll, PayReports, Reports

CONSTANT Questions  \* what the operators are asked

VARIABLE asked      \* the question, or that it is about an employee's pay

calculationVars == <<payVars, asked>>

-----------------------------------------------------------------------------
(* What can be asked: stored documents, of which no two have an id in       *)
(* common, with the fields their schemas require.                           *)

Punch == [type : {"IN", "OUT"}, time : Int]

IsDay(day) ==
    /\ day.punches \in Seq(Punch)
    /\ day.scheduledMinutes \in Int
    /\ day.scheduledStart \in Int \cup {None}

LatenessRule == [gracePeriodMinutes : Int, deductionPerMinute : Int, maxDeductionPerDay : Int]

ShortTimeRule == [gracePeriodMinutes : Int, penaltyPerMinute : Int]

IsPolicy(p) ==
    /\ p.latenessRule \in LatenessRule \cup {None}
    /\ p.shortTimeRule \in ShortTimeRule \cup {None}
    /\ p.roundingRule \in {"NONE", "ROUND_UP", "ROUND_DOWN", "ROUND_NEAREST"}
    /\ p.roundingIntervalMinutes \in Nat
    /\ p.penaltyCapPerDay \in Int

ArePolicies(policies) ==
    /\ IsFiniteSet(policies) /\ None \notin policies
    /\ \A p \in policies : p.createdAt \in Int /\ p.effectiveTo \in Int \cup {None}

AreRecords(records) ==
    /\ IsFiniteSet(records)
    /\ \A r, s \in records : r.id = s.id => r = s
    /\ \A r \in records : r.finalisedForPayroll \in BOOLEAN

AreResults(results) ==
    /\ IsFiniteSet(results)
    /\ \A x \in results :
          x.amount \in Int /\ x.status \in {"PENDING", "APPROVED", "REJECTED", "OVERRIDDEN"}

ArePayslips(slips) ==
    /\ IsFiniteSet(slips)
    /\ \A p \in slips : p.createdAt \in Int /\ p.totalGrossSalary \in Int /\ p.totaDeductions \in Int

AreRuns(runs) ==
    /\ IsFiniteSet(runs)
    /\ \A r \in runs : r.payrollPeriod \in Int /\ r.employees \in Int /\ r.totalnetpay \in Int

AreReported(records) ==
    /\ IsFiniteSet(records)
    /\ \A r \in records : r.recordDate \in Int /\ r.amount \in Int

IsQuestion(q) ==
    /\ q.about = "punches" => q.punches \in Seq(Punch)
    /\ q.about = "day" => IsDay(q.day) /\ IsPolicy(q.policy)
    /\ q.about = "policy" => ArePolicies(q.policies) /\ q.date \in Int
    /\ q.about = "closing" =>
            AreRecords(q.records) /\ AreResults(q.results) /\ IsFiniteSet(q.exceptions)
    /\ q.about = "slips" => ArePayslips(q.slips) /\ AreRuns(q.runs) /\ q.year \in Int
    /\ q.about = "certificates" => ArePayslips(q.slips) /\ q.years \subseteq Int
    /\ q.about = "pages" => AreReported(q.records) /\ q.limit \in Nat \ {0}

ASSUME CalculationsAssumption ==
    /\ Cases # {}
    /\ None \notin Int
    /\ \A q \in Questions : IsQuestion(q)

-----------------------------------------------------------------------------
Pay == [about |-> "pay"]

\* Nothing is calculated of an employee while another question is asked.
CalculationsInit ==
    \/ PayInit /\ asked = Pay
    \/ /\ stage = "refused" /\ of = (CHOOSE c \in Cases : TRUE) /\ left = {} /\ pay = Nothing0
       /\ asked \in Questions

CalculationsNext == PayNext /\ UNCHANGED asked

CalculationsSpec == CalculationsInit /\ [][CalculationsNext]_calculationVars

-----------------------------------------------------------------------------
(* Properties.                                                              *)

\* What is read adds up: minutes worked with the punches, results with the
\* policy and the exceptions (PolicyEngine), the payload with the validation
\* before it (PrePayroll), months and certificates with the year (PayReports),
\* and the pages of a report with the export (Reports).
ReadingsAddUp ==
    CASE asked.about = "punches" -> WorkedIsPaired(asked.punches)
      [] asked.about = "day" -> ResultsAreFair(asked.day, asked.policy)
      [] asked.about = "policy" -> PolicyIsRight(asked.policies, asked.employee, asked.date)
      [] asked.about = "closing" ->
            ValidMeansComplete(asked.records, asked.results, asked.exceptions,
                               asked.from, asked.to, asked.deadline)
      [] asked.about = "slips" -> MonthsMakeTheYear(asked.slips, asked.runs, asked.year)
      [] asked.about = "certificates" -> CertifiedOnce(asked.slips, asked.years)
      [] asked.about = "pages" -> PagesMakeTheReport(asked.records, asked.filter, asked.limit)
      [] OTHER -> TRUE
=============================================================================
