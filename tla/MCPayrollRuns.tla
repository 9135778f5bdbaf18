---------------------------- MODULE MCPayrollRuns ----------------------------
(***************************************************************************)
(* Finite instances of PayrollRuns.                                        *)
(***************************************************************************)
EXTENDS PayrollRuns, TLC

MCSymmetry == Permutations(Tasks) \cup Permutations(Employees)

Fine(n) == [ok |-> TRUE, draws |-> TRUE, net |-> n, grave |-> FALSE, listed |-> FALSE]

\* Fine, or not valid.
MCTwoKinds == {Fine(1), [NoOutcome EXCEPT !.draws = TRUE]}

\* Fine, more than half above it with a payslip that cannot be saved, or grave.
MCThreeKinds == {Fine(1), [Fine(2) EXCEPT !.listed = TRUE], [Fine(1) EXCEPT !.grave = TRUE]}

MCAll == {Employees}

\* Everything but the payslip of one employee, whose handler does not look at
\* the run's approval, and a second way to make a run.
MCOverlapOps == Operations \ {"payslip", "generateDraft", "inputsChange"}

\* Everything but the review route, which does not look at the details.
MCSerialOps == Operations \ {"approve", "restart"}

\* A bound: a state with a second run is checked, and not followed further.
MCOneRun == Cardinality(BornRuns) <= 1
=============================================================================
