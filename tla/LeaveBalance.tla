---------------------------- MODULE LeaveBalance ----------------------------
(***************************************************************************)
(* The arithmetic of a leave entitlement: the private helpers of           *)
(* LeavesService and the bodies of leaveEntitlement.update and             *)
(* adjustBalance, as functions from the document read to the document      *)
(* about to be saved, each with the condition under which it is saved and  *)
(* not refused with an exception.  Days are whole days.                    *)
(***************************************************************************)
EXTENDS Integers

\* The numeric fields of a LeaveEntitlement document; the accrual fields are
\* written once, by create, and read nowhere in the service.
Fields == {"yearly", "carry", "taken", "pending", "remaining"}

Balance == [Fields -> Int]

\* The schema's min: 0 validators, run by every save on the whole document.
Valid(b) == \A f \in Fields : b[f] >= 0

RemainingOf(b) == b.yearly + b.carry - b.taken - b.pending

recomputeRemaining(b) == [b EXCEPT !.remaining = RemainingOf(b)]

\* A new entitlement of total days with carry days carried over.
Granted(total, carry) ==
    [f \in Fields |-> CASE f = "yearly" -> total
                        [] f = "carry" -> carry
                        [] f = "remaining" -> total + carry
                        [] OTHER -> 0]

reservePending(b, n) == recomputeRemaining([b EXCEPT !.pending = @ + n])
releasePending(b, n) == recomputeRemaining([b EXCEPT !.pending = @ - n])
consumePendingToTaken(b, n) ==
    recomputeRemaining([b EXCEPT !.pending = @ - n, !.taken = @ + n])
\* Mutant: remaining is not recomputed.
revertTaken_NoRecompute(b, n) == [b EXCEPT !.taken = @ - n]

revertTaken(b, n) == recomputeRemaining([b EXCEPT !.taken = @ - n])
adjustBalance(b, delta) == recomputeRemaining([b EXCEPT !.taken = @ + delta])

\* What each of them requires of the document read before it computes.
Enough(b, move, n) ==
    CASE move = "reserve" -> b.remaining >= n
      [] move \in {"release", "consume"} -> b.pending >= n
      [] move = "revert" -> b.taken >= n
      [] OTHER -> TRUE

Moved(b, move, n) ==
    CASE move = "reserve" -> reservePending(b, n)
      [] move = "release" -> releasePending(b, n)
      [] move = "consume" -> consumePendingToTaken(b, n)
      [] move = "revert" -> revertTaken(b, n)
      [] OTHER -> adjustBalance(b, n)

\* Mutant: remaining is not checked again once it is recomputed.
Allows_NoCheckAfter(b, move, n) == Enough(b, move, n)

\* The move is saved: the check before, the check of remaining after, and the
\* validators of the save itself.
Allows(b, move, n) == Enough(b, move, n) /\ Valid(Moved(b, move, n))

\* leaveEntitlement.update: dto gives the fields HR sets, the others stay.
updated(b, dto) ==
    recomputeRemaining([f \in Fields |-> IF f \in DOMAIN dto THEN dto[f] ELSE b[f]])
==============================================================================
