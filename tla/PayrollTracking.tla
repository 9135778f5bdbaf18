--------------------------- MODULE PayrollTracking ---------------------------
(***************************************************************************)
(* PayrollTrackingService: claims and disputes of employees and the        *)
(* refunds that follow from them.  A handler is one action per database    *)
(* round trip.  Descriptions, comments and the staff named are left out;   *)
(* an amount is a member of Amounts.                                       *)
(***************************************************************************)
EXTENDS MongooseDoc

CONSTANTS
    Tasks,      \* calls that can be in progress at the same time
    Claims,     \* claim ids, each of one document
    Disputes,   \* dispute ids
    Refunds,    \* ids of refund documents
    Runs,       \* payroll runs a refund may be paid in
    Amounts,
    None

UNDER_REVIEW == "under review"
PENDING_MANAGER_APPROVAL == "pending payroll Manager approval"
APPROVED == "approved"
REJECTED == "rejected"
PENDING == "pending"
PAID == "paid"

ClaimStatus == {UNDER_REVIEW, PENDING_MANAGER_APPROVAL, APPROVED, REJECTED}
RefundStatus == {PENDING, PAID}

VARIABLES
    claim,      \* claim[c]: the document of c
    dispute,    \* dispute[d]: the status of d
    refund,     \* refund[r]: the document of r
    task        \* task[t]: what the call t remembers between two awaits

vars == <<claim, dispute, refund, task>>

NoClaim == [status |-> "absent", approvedAmount |-> None]

NoRefund == [status |-> "absent", claimId |-> None, disputeId |-> None, paidIn |-> None]

Idle == [pc |-> "idle"]

Init ==
    /\ claim = [c \in Claims |-> NoClaim]
    /\ dispute = [d \in Disputes |-> "absent"]
    /\ refund = [r \in Refunds |-> NoRefund]
    /\ task = [t \in Tasks |-> Idle]

-----------------------------------------------------------------------------
Ready(t) == task[t].pc = "idle"

Continue(t, h) == task' = [task EXCEPT ![t] = h]

\* A handler returns or throws.
Return(t) == Continue(t, Idle)

Stored == <<claim, dispute, refund>>

-----------------------------------------------------------------------------
(* Claims and disputes.                                                     *)

\* findOne by the id the client chose, then insert.
createClaim(t, c) ==
    /\ Ready(t)
    /\ claim[c] = NoClaim
    /\ Continue(t, [pc |-> "insertClaim", ref |-> c])
    /\ UNCHANGED Stored

\* The unique index on claimId refuses what another call inserted meanwhile.
insertClaim(t) ==
    /\ task[t].pc = "insertClaim"
    /\ claim' = IF claim[task[t].ref] = NoClaim
                THEN [claim EXCEPT ![task[t].ref].status = UNDER_REVIEW]
                ELSE claim
    /\ Return(t)
    /\ UNCHANGED <<dispute, refund>>

\* Any status may follow any other; the amount is set when the body has one.
updateClaimStatus(t, c, s, x) ==
    /\ Ready(t)
    /\ claim[c] # NoClaim
    /\ Continue(t, [pc |-> "saveClaim", ref |-> c, read |-> claim[c],
                    doc |-> [status |-> s,
                             approvedAmount |-> IF x = None THEN claim[c].approvedAmount ELSE x]])
    /\ UNCHANGED Stored

saveClaim(t) ==
    /\ task[t].pc = "saveClaim"
    /\ claim' = [claim EXCEPT ![task[t].ref] = Saved(@, task[t].read, task[t].doc)]
    /\ Return(t)
    /\ UNCHANGED <<dispute, refund>>

createDispute(t, d) ==
    /\ Ready(t)
    /\ dispute[d] = "absent"
    /\ Continue(t, [pc |-> "insertDispute", ref |-> d])
    /\ UNCHANGED Stored

insertDispute(t) ==
    /\ task[t].pc = "insertDispute"
    /\ dispute' = [dispute EXCEPT ![task[t].ref] = IF @ = "absent" THEN UNDER_REVIEW ELSE @]
    /\ Return(t)
    /\ UNCHANGED <<claim, refund>>

\* The save writes the status unless it is the one that was read.
updateDisputeStatus(t, d, s) ==
    /\ Ready(t)
    /\ dispute[d] # "absent"
    /\ IF s = dispute[d] THEN UNCHANGED task
       ELSE Continue(t, [pc |-> "saveDispute", ref |-> d, status |-> s])
    /\ UNCHANGED Stored

saveDispute(t) ==
    /\ task[t].pc = "saveDispute"
    /\ dispute' = [dispute EXCEPT ![task[t].ref] = task[t].status]
    /\ Return(t)
    /\ UNCHANGED <<claim, refund>>

-----------------------------------------------------------------------------
(* Refunds.                                                                 *)

\* At least one of the two must be named; each that is named is looked up.
createRefund(t, c, d) ==
    /\ Ready(t)
    /\ c # None \/ d # None
    /\ Continue(t, [pc |-> "findClaim", claimId |-> c, disputeId |-> d])
    /\ UNCHANGED Stored

findClaim(t) ==
    /\ task[t].pc = "findClaim"
    /\ IF task[t].claimId = None \/ claim[task[t].claimId] # NoClaim
       THEN Continue(t, [task[t] EXCEPT !.pc = "findDispute"])
       ELSE Return(t)
    /\ UNCHANGED Stored

\* Mutant: a refund that names a claim is let through.
findDispute_ClaimSuffices(t) ==
    /\ task[t].pc = "findDispute"
    /\ IF task[t].claimId # None \/ dispute[task[t].disputeId] # "absent"
       THEN Continue(t, [task[t] EXCEPT !.pc = "insertRefund"])
       ELSE Return(t)
    /\ UNCHANGED Stored

findDispute(t) ==
    /\ task[t].pc = "findDispute"
    /\ IF task[t].disputeId = None \/ dispute[task[t].disputeId] # "absent"
       THEN Continue(t, [task[t] EXCEPT !.pc = "insertRefund"])
       ELSE Return(t)
    /\ UNCHANGED Stored

insertRefund(t, r) ==
    /\ task[t].pc = "insertRefund"
    /\ refund[r] = NoRefund
    /\ refund' = [refund EXCEPT ![r] =
           [status |-> PENDING, claimId |-> task[t].claimId, disputeId |-> task[t].disputeId,
            paidIn |-> None]]
    /\ Return(t)
    /\ UNCHANGED <<claim, dispute>>

\* The run is set when the body names one; nothing relates it to the status.
updateRefundStatus(t, r, s, run) ==
    /\ Ready(t)
    /\ refund[r] # NoRefund
    /\ Continue(t, [pc |-> "saveRefund", ref |-> r, read |-> refund[r],
                    doc |-> [refund[r] EXCEPT !.status = s,
                                              !.paidIn = IF run = None THEN @ ELSE run]])
    /\ UNCHANGED Stored

saveRefund(t) ==
    /\ task[t].pc = "saveRefund"
    /\ refund' = [refund EXCEPT ![task[t].ref] = Saved(@, task[t].read, task[t].doc)]
    /\ Return(t)
    /\ UNCHANGED <<claim, dispute>>

-----------------------------------------------------------------------------
\* A crash or redeploy loses the calls in progress.
restart ==
    /\ \E t \in Tasks : ~Ready(t)
    /\ task' = [t \in Tasks |-> Idle]
    /\ UNCHANGED Stored

Call(t) ==
    \/ \E c \in Claims :
          \/ createClaim(t, c)
          \/ \E s \in ClaimStatus, x \in Amounts \cup {None} : updateClaimStatus(t, c, s, x)
    \/ \E d \in Disputes :
          createDispute(t, d) \/ \E s \in ClaimStatus : updateDisputeStatus(t, d, s)
    \/ \E c \in Claims \cup {None}, d \in Disputes \cup {None} : createRefund(t, c, d)
    \/ \E r \in Refunds, s \in RefundStatus, run \in Runs \cup {None} :
          updateRefundStatus(t, r, s, run)

Step(t) ==
    \/ insertClaim(t) \/ saveClaim(t) \/ insertDispute(t) \/ saveDispute(t)
    \/ findClaim(t) \/ findDispute(t) \/ saveRefund(t)
    \/ \E r \in Refunds : insertRefund(t, r)

Next == restart \/ \E t \in Tasks : Call(t) \/ Step(t)

Spec == Init /\ [][Next]_vars

-----------------------------------------------------------------------------
(* Properties.                                                              *)

ClaimDoc == [status : ClaimStatus, approvedAmount : Amounts \cup {None}] \cup {NoClaim}

RefundDoc == [status : RefundStatus, claimId : Claims \cup {None},
              disputeId : Disputes \cup {None}, paidIn : Runs \cup {None}] \cup {NoRefund}

\* The stored documents have their types.
TypeOK ==
    /\ claim \in [Claims -> ClaimDoc]
    /\ dispute \in [Disputes -> ClaimStatus \cup {"absent"}]
    /\ refund \in [Refunds -> RefundDoc]

\* Every claim and every dispute a refund names is on file, and it names at
\* least one, however the calls that create them overlap (createRefund).
RefundHasGround ==
    \A r \in Refunds :
        LET f == refund[r]
        IN  f # NoRefund =>
                /\ f.claimId # None \/ f.disputeId # None
                /\ f.claimId # None => claim[f.claimId] # NoClaim
                /\ f.disputeId # None => dispute[f.disputeId] # "absent"

\* A claim becomes approved only from the manager's desk
\* (payroll-tracking-enum.ts: "APPROVED = 'approved',// when manager approves").
ApprovedByManager ==
    [][\A c \in Claims :
          claim'[c].status = APPROVED =>
              claim[c].status \in {APPROVED, PENDING_MANAGER_APPROVAL}]_vars

\* A claim or dispute is refunded once.
RefundedOnce ==
    \A r, q \in Refunds :
        (r # q /\ refund[r] # NoRefund /\ refund[q] # NoRefund) =>
            /\ refund[r].claimId # None => refund[r].claimId # refund[q].claimId
            /\ refund[r].disputeId # None => refund[r].disputeId # refund[q].disputeId
=============================================================================
