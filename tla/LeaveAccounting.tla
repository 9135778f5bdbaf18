--------------------------- MODULE LeaveAccounting ---------------------------
(***************************************************************************)
(* The balance that LeaveRequests keeps in the entitlement document,       *)
(* against the requests it is kept for: sums over the request documents,   *)
(* and the refinement of LeaveLedger.                                      *)
(***************************************************************************)
EXTENDS LeaveRequests, Functions

Open == {PENDING, MANAGER_APPROVED}

\* Days that stay held in pending for request document d.
Weight(d) == IF d.status \in Open THEN d.days ELSE 0

\* Days the balance has already moved for a handler that has not yet written
\* its request document.
Underway(h) ==
    CASE h.pc = "insertReq" -> h.days
      [] h.pc = "saveReq" /\ h.move = "reserve" -> h.days
      [] h.pc = "saveReq" /\ h.move \in {"release", "consume"} -> -h.days
      [] OTHER -> 0

Weights(docs) == [r \in Requests |-> Weight(docs[r])]
Burdens(calls) == [t \in Tasks |-> Underway(calls[t])]

Held == SumFunctionOnSet(Weights(req), Requests) + SumFunctionOnSet(Burdens(task), Tasks)

Only == CHOOSE e \in Entitlements : TRUE

Ledger == INSTANCE LeaveLedger WITH
    entitled <- ent[Only].yearly + ent[Only].carry,
    held <- Held,
    used <- ent[Only].taken

\* Handlers that run one at a time, on one entitlement, and that do not throw
\* between giving up days held and saving the request, keep the promise: the
\* open requests and the days taken never exceed the entitlement, and days
\* become taken only out of days held (leaveRequest, adjustBalance, update).
NeverOverdrawn == Ledger!Spec

\* The same promise as a state: nobody holds more days than there are
\* ("Reserve days in pending (prevents negative balance)",
\* leaves.service.ts:453).
Covered == Held + ent[Only].taken <= ent[Only].yearly + ent[Only].carry

\* The stored pending is enough to decide every open request, so that, under
\* the same conditions, no approval or rejection of one can fail ("Pending
\* balance is inconsistent", leaves.service.ts:149).
PendingCoversOpen == Held <= ent[Only].pending
=============================================================================
