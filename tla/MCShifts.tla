------------------------------ MODULE MCShifts -------------------------------
(***************************************************************************)
(* Finite instances of Shifts.                                             *)
(***************************************************************************)
EXTENDS Shifts, TLC

CONSTANTS e1, e2

MCSymmetry == Permutations(Tasks) \cup Permutations(Assignments)

MCTargets == {e1, e2}

\* One period inside another, touching ones, one without an end, and one that
\* ends as it starts.
MCWindows == {[from |-> 1, to |-> 4], [from |-> 2, to |-> 3], [from |-> 3, to |-> 5],
              [from |-> 2, to |-> Indefinite], [from |-> 2, to |-> 2]}

MCLists == {<<e1, e2>>, <<e2, e1>>}

MCAssignmentStatuses == {ACTIVE, "Inactive", EXPIRED}

MCTemplateStatuses == {ACTIVE, "Inactive"}

MCExpiries == {2, Indefinite}
=============================================================================
