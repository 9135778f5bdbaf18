--------------------------- MODULE PayCalculation ----------------------------
(***************************************************************************)
(* What an employee earns in a run (validateEmployeeForPayroll and         *)
(* calculateEmployeePayroll of PayrollExecutionService): one action per    *)
(* round of the loops over allowances, tax rules and insurance brackets,   *)
(* in any order of the documents, and one per stage between them.          *)
(*                                                                         *)
(* Money is in cents, and Math.round(x * 100) / 100 rounds to them, halves *)
(* up.  Time is in half days: 2*d is the midnight that begins day d of the *)
(* month, 2*d + 1 its noon.                                                *)
(***************************************************************************)
EXTENDS Integers, FiniteSets

CONSTANTS
    Cases,          \* what calculations are given
    Days,           \* the days of the month
    Allowances, AmountOf,       \* the approved allowances and their amounts
    TaxRules, TaxRate,          \* the approved tax rules, in percent
    Brackets, BracketOf,        \* the approved insurance brackets
    StatutoryMinimum,           \* STATUTORY_MIN_WAGE, or 6000
    NoDate

\* A contract and what the profile says of its employee.  Contract dates come
\* before those of the profile; the amounts that neither schema declares are 0
\* unless another system writes them.
Case == [active : BOOLEAN, contracted : BOOLEAN, grossSalary : Nat,
         startDate : Int \cup {NoDate}, endDate : Int \cup {NoDate},
         contractStartDate : Int \cup {NoDate}, contractEndDate : Int \cup {NoDate},
         period : Int, minimumWage : Nat, unpaidLeaveDays : Nat, penalties : Int,
         recoveries : Nat, refunds : Nat,
         includeAllowances : BOOLEAN, includeTaxes : BOOLEAN, includeInsurance : BOOLEAN]

ASSUME PayAssumption ==
    /\ Cases \subseteq Case
    /\ Days \in Nat \ {0}
    /\ AmountOf \in [Allowances -> Nat]
    /\ TaxRate \in [TaxRules -> Nat]
    /\ BracketOf \in [Brackets -> [minSalary : Nat, maxSalary : Nat, employeeRate : Nat]]
    /\ StatutoryMinimum \in Nat \ {0}
    /\ NoDate \notin Int

VARIABLES
    stage,      \* what the calculation does next
    of,         \* the case it is about
    left,       \* the documents the loop has still to go through
    pay         \* the amounts so far

payVars == <<stage, of, left, pay>>

Amounts == [base : Int, allowances : Int, gross : Int, taxes : Int, insurance : Int, net : Int,
            afterLeave : Int, unpaid : Int, applied : Int, deductions : Int, netPay : Int]

Nothing0 == [base |-> 0, allowances |-> 0, gross |-> 0, taxes |-> 0, insurance |-> 0, net |-> 0,
             afterLeave |-> 0, unpaid |-> 0, applied |-> 0, deductions |-> 0, netPay |-> 0]

PayInit ==
    /\ stage = "idle"
    /\ of \in Cases
    /\ left = {}
    /\ pay = Nothing0

-----------------------------------------------------------------------------
Least(a, b) == IF a <= b THEN a ELSE b

Greatest(a, b) == IF a >= b THEN a ELSE b

\* a / b to the nearest whole number, halves up.
Round(a, b) == (2 * a + b) \div (2 * b)

Percent(amount, rate) == Round(amount * rate, 100)

PeriodStart == 2

PeriodEnd == 2 * Days

\* Math.ceil of the days from f to t, and one.
DaysBetween(f, t) == IF t >= f THEN (t - f + 1) \div 2 + 1 ELSE 0

ContractEnd(c) == IF c.endDate # NoDate THEN c.endDate ELSE c.contractEndDate

StartsWithin(c) == c.startDate # NoDate /\ c.startDate > PeriodStart

EndsWithin(c) == ContractEnd(c) # NoDate /\ ContractEnd(c) < PeriodEnd

\* Mutant: the last day is not counted.
WorkedDays_Short(c) ==
    IF StartsWithin(c)
    THEN DaysBetween(c.startDate, IF EndsWithin(c) THEN ContractEnd(c) ELSE PeriodEnd)
    ELSE IF EndsWithin(c) THEN DaysBetween(PeriodStart, ContractEnd(c)) - 1
    ELSE Days

WorkedDays(c) ==
    IF StartsWithin(c)
    THEN DaysBetween(c.startDate, IF EndsWithin(c) THEN ContractEnd(c) ELSE PeriodEnd)
    ELSE IF EndsWithin(c) THEN DaysBetween(PeriodStart, ContractEnd(c))
    ELSE Days

\* The days paid: between none and all of the month.
PaidDays(c) == Greatest(0, Least(Days, WorkedDays(c)))

\* What is due for the whole month, by the days paid.
Prorated(amount, c) == Round(amount * PaidDays(c), Days)

\* An employee at work with a contract that pays, which by the profile's dates
\* has begun and not ended at the date of the run.
Valid(c) ==
    /\ c.active
    /\ c.contracted
    /\ c.contractEndDate # NoDate => c.contractEndDate >= c.period
    /\ c.contractStartDate # NoDate => c.contractStartDate <= c.period
    /\ c.grossSalary > 0

Minimum(c) == IF c.minimumWage > 0 THEN c.minimumWage ELSE StatutoryMinimum

-----------------------------------------------------------------------------
validateEmployeeForPayroll ==
    /\ stage = "idle"
    /\ stage' = IF Valid(of) THEN "base" ELSE "refused"
    /\ UNCHANGED <<of, left, pay>>

\* A valid employee's base salary is the contract's.
prorateBaseSalary ==
    /\ stage = "base"
    /\ stage' = "allowances"
    /\ left' = IF of.includeAllowances THEN Allowances ELSE {}
    /\ pay' = [pay EXCEPT !.base = Prorated(of.grossSalary, of)]
    /\ UNCHANGED of

addAllowance(a) ==
    /\ stage = "allowances"
    /\ a \in left
    /\ left' = left \ {a}
    /\ pay' = [pay EXCEPT !.allowances = @ + Prorated(AmountOf[a], of)]
    /\ UNCHANGED <<stage, of>>

sumGrossSalary ==
    /\ stage = "allowances"
    /\ left = {}
    /\ stage' = "taxes"
    /\ left' = IF of.includeTaxes THEN TaxRules ELSE {}
    /\ pay' = [pay EXCEPT !.gross = pay.base + pay.allowances]
    /\ UNCHANGED of

deductTax(r) ==
    /\ stage = "taxes"
    /\ r \in left
    /\ left' = left \ {r}
    /\ pay' = [pay EXCEPT !.taxes = @ + Percent(pay.gross, TaxRate[r])]
    /\ UNCHANGED <<stage, of>>

endTaxes ==
    /\ stage = "taxes"
    /\ left = {}
    /\ stage' = "insurance"
    /\ left' = IF of.includeInsurance THEN Brackets ELSE {}
    /\ UNCHANGED <<of, pay>>

\* Both bounds are within the bracket; no upper bound is none.
InBracket(b) ==
    /\ pay.gross >= BracketOf[b].minSalary
    /\ BracketOf[b].maxSalary > 0 => pay.gross <= BracketOf[b].maxSalary

deductInsurance(b) ==
    /\ stage = "insurance"
    /\ b \in left
    /\ left' = left \ {b}
    /\ pay' = IF InBracket(b)
              THEN [pay EXCEPT !.insurance = @ + Percent(pay.gross, BracketOf[b].employeeRate)]
              ELSE pay
    /\ UNCHANGED <<stage, of>>

sumNetSalary ==
    /\ stage = "insurance"
    /\ left = {}
    /\ stage' = "penalties"
    /\ LET net == pay.gross - pay.taxes - pay.insurance
           unpaid == Round(of.unpaidLeaveDays * pay.gross, 30)
       IN  pay' = [pay EXCEPT !.net = net, !.unpaid = unpaid, !.afterLeave = net - unpaid]
    /\ UNCHANGED <<of, left>>

\* Penalties are applied as far as the minimum wage allows.
AppliedPenalties(c, afterLeave) ==
    Least(Greatest(0, c.penalties), Greatest(0, afterLeave - Minimum(c)))

applyPenalties ==
    /\ stage = "penalties"
    /\ stage' = "settle"
    /\ pay' = [pay EXCEPT !.applied = AppliedPenalties(of, pay.afterLeave)]
    /\ UNCHANGED <<of, left>>

settle ==
    /\ stage = "settle"
    /\ stage' = "done"
    /\ pay' = [pay EXCEPT
                 !.netPay = Greatest(Minimum(of),
                                     pay.afterLeave - pay.applied - of.recoveries + of.refunds),
                 !.deductions = pay.taxes + pay.insurance + pay.unpaid + pay.applied + of.recoveries]
    /\ UNCHANGED <<of, left>>

-----------------------------------------------------------------------------
PayNext ==
    \/ validateEmployeeForPayroll \/ prorateBaseSalary
    \/ (\E a \in Allowances : addAllowance(a)) \/ sumGrossSalary
    \/ (\E r \in TaxRules : deductTax(r)) \/ endTaxes
    \/ (\E b \in Brackets : deductInsurance(b)) \/ sumNetSalary
    \/ applyPenalties \/ settle

PaySpec == PayInit /\ [][PayNext]_payVars

-----------------------------------------------------------------------------
(* Properties.                                                              *)

Stages == {"idle", "refused", "base", "allowances", "taxes", "insurance", "penalties", "settle",
           "done"}

\* The calculation is at a known stage of a known case, and amounts are whole.
PayTypeOK ==
    /\ stage \in Stages
    /\ of \in Cases
    /\ left \subseteq Allowances \cup TaxRules \cup Brackets
    /\ pay \in Amounts

\* The net pay is what the stored gross and deductions leave, refunds added,
\* or the minimum wage where that is more: three numbers that are summed up on
\* different ways and stored side by side ("Ensure net pay never goes below
\* statutory minimum", calculateEmployeePayroll).
NetPayExplained ==
    stage = "done" => pay.netPay = Greatest(Minimum(of), pay.gross - pay.deductions + of.refunds)

\* Penalties alone never take an employee below the minimum wage, and nobody
\* is charged more than the penalties on record ("must not reduce below
\* minimum wage", calculateEmployeePayroll).
PenaltiesSpareMinimum ==
    stage \in {"settle", "done"} =>
        /\ pay.applied > 0 => pay.afterLeave - pay.applied >= Minimum(of)
        /\ 0 <= pay.applied /\ pay.applied <= Greatest(0, of.penalties)

Midnight(t) == t = NoDate \/ t % 2 = 0

\* With contract dates without a time of day, the days paid are the days of
\* the month the contract covers, whichever of its two dates fall within the
\* month ("Calculate proration for mid-month hires/terminations").
PaidDaysAreCovered ==
    Midnight(of.startDate) /\ Midnight(ContractEnd(of)) =>
        PaidDays(of) = Cardinality({d \in 1 .. Days :
                                      /\ of.startDate # NoDate => of.startDate <= 2 * d
                                      /\ ContractEnd(of) # NoDate => 2 * d <= ContractEnd(of)})

\* What is paid adds up, at every stage and for whatever case, rules and
\* brackets: the net pay with gross, deductions and the minimum wage, the
\* penalties with the minimum wage, the days paid with the contract.
PayAddsUp == NetPayExplained /\ PenaltiesSpareMinimum /\ PaidDaysAreCovered
=============================================================================
