---------------------------- MODULE StoredRecords ----------------------------
(***************************************************************************)
(* What the calculations over stored records have in common: a field or a  *)
(* filter that is not set, and the loops that add up an amount.            *)
(***************************************************************************)
EXTENDS Integers, FiniteSets, Functions

CONSTANT None       \* a field that is not set

\* The sum of an amount over the records of S, once each.
Total(S, amount(_)) == SumFunctionOnSet([x \in S |-> amount(x)], S)
=============================================================================
