----------------------------- MODULE LeaveLedger -----------------------------
(***************************************************************************)
(* What the leave balance promises an employer, without documents, statuses*)
(* or handlers: out of the days an employee is entitled to, days are held  *)
(* for requests that are still open and days are used, and the two never   *)
(* exceed the entitlement ("Prevent Negative Balance").                    *)
(***************************************************************************)
EXTENDS Integers

VARIABLES entitled, held, used

vars == <<entitled, held, used>>

Solvent(total, h, u) == h >= 0 /\ u >= 0 /\ h + u <= total

Init == entitled \in Nat /\ held = 0 /\ used = 0

\* A request is opened, or an open one prolonged.
Hold == /\ held' > held
        /\ Solvent(entitled, held', used)
        /\ UNCHANGED <<entitled, used>>

\* Days held are given up.
Free == /\ held' \in 0 .. held - 1
        /\ UNCHANGED <<entitled, used>>

\* Days held are used; a day held is charged once.
Use == /\ held' \in 0 .. held - 1
       /\ used' = used + (held - held')
       /\ UNCHANGED entitled

\* HR corrects the entitlement or the days used, within the entitlement.
Correct == /\ Solvent(entitled', held, used')
           /\ UNCHANGED held

Next == Hold \/ Free \/ Use \/ Correct

Spec == Init /\ [][Next]_vars
=============================================================================
