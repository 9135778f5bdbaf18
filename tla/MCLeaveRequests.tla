--------------------------- MODULE MCLeaveRequests ---------------------------
(***************************************************************************)
(* Finite instances of LeaveAccounting (and so of LeaveRequests).          *)
(***************************************************************************)
EXTENDS LeaveAccounting, TLC

CONSTANTS t1, t2, r1, r2, e1, e2, e3

MCSymmetry == Permutations(Tasks) \cup Permutations(Requests)

MCOneYear == [e \in Entitlements |-> 2025]

\* Enough for two days only.
MCSmallGrants == {<<1, 1>>}

MCNoSettings == {}

\* HR changes what the employee is entitled to.
MCSettings == {[yearly |-> 2]}

MCAdjustments == {[id |-> 1, type |-> "add", amount |-> 1],
                  [id |-> 2, type |-> "deduct", amount |-> 1]}

\* Every decision on every request, alone.
MCSingles == {<<[id |-> r, decision |-> d]>> : r \in Requests, d \in {"APPROVED", "REJECTED"}}

MCNoBatches == {}

\* An approval and another decision, of two requests or twice of the same;
\* which request is which makes no difference.
MCPairs == {<<[id |-> r, decision |-> "APPROVED"], [id |-> r1, decision |-> d]>> :
              r \in Requests, d \in {"APPROVED", "REJECTED"}}

MCRequestOps == {"create", "update", "cancel", "managerApprove", "managerReject", "bulkProcess"}

MCReviewOps == {"create", "managerApprove", "bulkProcess"}

MCOverlapOps == MCRequestOps \cup {"createEntitlement", "removeEntitlement", "restart"}

MCNoOps == {}

\* The operations that do not give up days held for a request.
MCKeepingOps == {"create", "approveAdjustment"}

MCSerialOps == MCRequestOps \cup {"updateEntitlement", "createAdjustment", "approveAdjustment"}
=============================================================================
