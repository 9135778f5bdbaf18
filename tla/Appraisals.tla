----------------------------- MODULE Appraisals ------------------------------
(***************************************************************************)
(* PerformanceService: appraisal templates and cycles, the records that    *)
(* managers write, HR publishes and employees acknowledge, and disputes of *)
(* them.  A handler is one action per database round trip.  Of a date the  *)
(* model keeps whether it is set; ratings and summaries are one value.     *)
(***************************************************************************)
EXTENDS MongooseDoc

CONSTANTS
    Tasks,      \* calls that can be in progress at the same time
    Templates,
    Cycles,
    Records,    \* ids of appraisal records
    Disputes,   \* ids of dispute documents
    People,     \* employees, managers and HR staff
    Contents,   \* what templates, ratings and summaries may say
    Forms,      \* what a record may read once a body has been assigned to it
    None

PLANNED == "PLANNED"
ACTIVE == "ACTIVE"
CLOSED == "CLOSED"
ARCHIVED == "ARCHIVED"

CycleStatus == {PLANNED, ACTIVE, CLOSED, ARCHIVED}

DRAFT == "DRAFT"
MANAGER_SUBMITTED == "MANAGER_SUBMITTED"
HR_PUBLISHED == "HR_PUBLISHED"

OPEN == "OPEN"
ADJUSTED == "ADJUSTED"

\* What is stored of a cycle and of a record.
Cycle == [status : CycleStatus, published : BOOLEAN, closed : BOOLEAN, archived : BOOLEAN]

Record == [status : {DRAFT, MANAGER_SUBMITTED, HR_PUBLISHED}, templateId : Templates,
           manager : People, employee : People, content : Contents, submitted : BOOLEAN,
           publishedBy : People \cup {None}, acknowledged : BOOLEAN]

VARIABLES
    template,   \* template[p]: what p says, or absent or deleted
    cycle,      \* cycle[c]: the document of c
    record,     \* record[r]: the document of r
    dispute,    \* dispute[d]: the document of d
    task        \* task[t]: what the call t remembers between two awaits

vars == <<template, cycle, record, dispute, task>>

NoCycle == [status |-> "absent", published |-> FALSE, closed |-> FALSE, archived |-> FALSE]

NoRecord == [status |-> "absent", templateId |-> None, manager |-> None, employee |-> None,
             content |-> None, submitted |-> FALSE, publishedBy |-> None, acknowledged |-> FALSE]

NoDispute == [status |-> "absent", appraisalId |-> None, raisedBy |-> None, resolvedBy |-> None]

Idle == [pc |-> "idle"]

Init ==
    /\ template = [p \in Templates |-> "absent"]
    /\ cycle = [c \in Cycles |-> NoCycle]
    /\ record = [r \in Records |-> NoRecord]
    /\ dispute = [d \in Disputes |-> NoDispute]
    /\ task = [t \in Tasks |-> Idle]

-----------------------------------------------------------------------------
Ready(t) == task[t].pc = "idle"

Continue(t, h) == task' = [task EXCEPT ![t] = h]

\* A handler returns or throws.
Return(t) == Continue(t, Idle)

Stored == <<template, cycle, record, dispute>>

Written(r) == record[r] # NoRecord

Raised(d) == dispute[d].status \notin {"absent", "deleted"}

\* The call has read the record r and will save it as doc.
SavingRecord(r, doc) == [pc |-> "saveRecord", ref |-> r, read |-> record[r], doc |-> doc]

-----------------------------------------------------------------------------
(* Templates and cycles.                                                    *)

createTemplate(t, p, x) ==
    /\ Ready(t)
    /\ template[p] = "absent"
    /\ template' = [template EXCEPT ![p] = x]
    /\ UNCHANGED <<cycle, record, dispute, task>>

\* Also of a template that records were written by.
updateTemplate(t, p, x) ==
    /\ Ready(t)
    /\ template[p] \in Contents
    /\ template' = [template EXCEPT ![p] = x]
    /\ UNCHANGED <<cycle, record, dispute, task>>

\* Records and cycles that name the template are not looked for.
deleteTemplate(t, p) ==
    /\ Ready(t)
    /\ template[p] \in Contents
    /\ template' = [template EXCEPT ![p] = "deleted"]
    /\ UNCHANGED <<cycle, record, dispute, task>>

createCycle(t, c, doc) ==
    /\ Ready(t)
    /\ cycle[c] = NoCycle
    /\ cycle' = [cycle EXCEPT ![c] = [doc EXCEPT !.status = PLANNED]]
    /\ UNCHANGED <<template, record, dispute, task>>

\* findByIdAndUpdate with fields, whatever the status is.
updateCycle(t, c, doc) ==
    /\ Ready(t)
    /\ cycle[c] # NoCycle
    /\ cycle' = [cycle EXCEPT ![c] = doc]
    /\ UNCHANGED <<template, record, dispute, task>>

activateCycle(t, c) == updateCycle(t, c, [cycle[c] EXCEPT !.status = ACTIVE, !.published = TRUE])

closeCycle(t, c) == updateCycle(t, c, [cycle[c] EXCEPT !.status = CLOSED, !.closed = TRUE])

archiveCycle(t, c) == updateCycle(t, c, [cycle[c] EXCEPT !.status = ARCHIVED, !.archived = TRUE])

publishCycleResults(t, c) ==
    /\ Ready(t)
    /\ cycle[c] # NoCycle
    /\ Continue(t, [pc |-> "saveCycle", ref |-> c, read |-> cycle[c],
                    doc |-> [cycle[c] EXCEPT !.status = CLOSED, !.published = TRUE]])
    /\ UNCHANGED Stored

saveCycle(t) ==
    /\ task[t].pc = "saveCycle"
    /\ cycle' = [cycle EXCEPT ![task[t].ref] = Saved(@, task[t].read, task[t].doc)]
    /\ Return(t)
    /\ UNCHANGED <<template, record, dispute>>

-----------------------------------------------------------------------------
(* Appraisal records.                                                       *)

\* The template, the employee and more are taken from the body as they are.
createAppraisal(t, r, m, doc) ==
    /\ Ready(t)
    /\ ~Written(r)
    /\ record' = [record EXCEPT ![r] = [doc EXCEPT !.status = DRAFT, !.manager = m]]
    /\ UNCHANGED <<template, cycle, dispute, task>>

\* Object.assign(record, dto): the body, whose fields nobody checks, is written
\* over the record, a status, a date or a publisher in it too.
updateAppraisal(t, r, m, doc) ==
    /\ Ready(t)
    /\ Written(r)
    /\ record[r].manager = m
    /\ Continue(t, SavingRecord(r, doc))
    /\ UNCHANGED Stored

\* A manager submits, again and again if need be.
updateAppraisalStatus(t, r, m) ==
    /\ Ready(t)
    /\ Written(r)
    /\ record[r].manager = m
    /\ Continue(t, SavingRecord(r, [record[r] EXCEPT !.status = MANAGER_SUBMITTED,
                                                     !.submitted = TRUE]))
    /\ UNCHANGED Stored

\* HR publishes, submitted or not.
publishAppraisal(t, r, h) ==
    /\ Ready(t)
    /\ Written(r)
    /\ Continue(t, SavingRecord(r, [record[r] EXCEPT !.status = HR_PUBLISHED,
                                                     !.publishedBy = h]))
    /\ UNCHANGED Stored

\* The employee acknowledges, published or not.
employeeAcknowledgeAppraisal(t, r, e) ==
    /\ Ready(t)
    /\ Written(r)
    /\ record[r].employee = e
    /\ Continue(t, SavingRecord(r, [record[r] EXCEPT !.acknowledged = TRUE]))
    /\ UNCHANGED Stored

saveRecord(t) ==
    /\ task[t].pc = "saveRecord"
    /\ record' = [record EXCEPT ![task[t].ref] = Saved(@, task[t].read, task[t].doc)]
    /\ Return(t)
    /\ UNCHANGED <<template, cycle, dispute>>

-----------------------------------------------------------------------------
(* Disputes.                                                                *)

createDispute(t, r, e) ==
    /\ Ready(t)
    /\ Written(r)
    /\ record[r].employee = e
    /\ Continue(t, [pc |-> "insertDispute",
                    doc |-> [NoDispute EXCEPT !.status = OPEN, !.appraisalId = r, !.raisedBy = e]])
    /\ UNCHANGED Stored

insertDispute(t, d) ==
    /\ task[t].pc = "insertDispute"
    /\ dispute[d] = NoDispute
    /\ dispute' = [dispute EXCEPT ![d] = task[t].doc]
    /\ Return(t)
    /\ UNCHANGED <<template, cycle, record>>

deleteDispute(t, d) ==
    /\ Ready(t)
    /\ Raised(d)
    /\ dispute' = [dispute EXCEPT ![d].status = "deleted"]
    /\ UNCHANGED <<template, cycle, record, task>>

\* Whatever the status is: a dispute may be resolved again.
resolveDispute(t, d, h) ==
    /\ Ready(t)
    /\ Raised(d)
    /\ Continue(t, [pc |-> "saveDispute", ref |-> d, read |-> dispute[d],
                    doc |-> [dispute[d] EXCEPT !.status = ADJUSTED, !.resolvedBy = h]])
    /\ UNCHANGED Stored

\* A save of a document deleted meanwhile throws.
saveDispute(t) ==
    /\ task[t].pc = "saveDispute"
    /\ dispute' = IF Raised(task[t].ref)
                  THEN [dispute EXCEPT ![task[t].ref] = Saved(@, task[t].read, task[t].doc)]
                  ELSE dispute
    /\ Return(t)
    /\ UNCHANGED <<template, cycle, record>>

-----------------------------------------------------------------------------
\* A crash or redeploy loses the calls in progress.
restart ==
    /\ \E t \in Tasks : ~Ready(t)
    /\ task' = [t \in Tasks |-> Idle]
    /\ UNCHANGED Stored

CallCatalogue(t) ==
    \/ \E p \in Templates :
          deleteTemplate(t, p) \/ \E x \in Contents : createTemplate(t, p, x) \/ updateTemplate(t, p, x)
    \/ \E c \in Cycles :
          \/ publishCycleResults(t, c)
          \/ activateCycle(t, c) \/ closeCycle(t, c) \/ archiveCycle(t, c)
          \/ \E doc \in Cycle : createCycle(t, c, doc) \/ updateCycle(t, c, doc)

CallRecord(t) ==
    \E r \in Records, a \in People :
        \/ updateAppraisalStatus(t, r, a) \/ publishAppraisal(t, r, a)
        \/ employeeAcknowledgeAppraisal(t, r, a) \/ createDispute(t, r, a)
        \/ \E doc \in Forms : createAppraisal(t, r, a, doc) \/ updateAppraisal(t, r, a, doc)

CallDispute(t) == \E d \in Disputes : deleteDispute(t, d) \/ \E h \in People : resolveDispute(t, d, h)

Call(t) == CallCatalogue(t) \/ CallRecord(t) \/ CallDispute(t)

Step(t) == saveCycle(t) \/ saveRecord(t) \/ saveDispute(t) \/ \E d \in Disputes : insertDispute(t, d)

Next == restart \/ \E t \in Tasks : Call(t) \/ Step(t)

Spec == Init /\ [][Next]_vars

-----------------------------------------------------------------------------
(* Properties.                                                              *)

Dispute == [status : {OPEN, ADJUSTED, "deleted"}, appraisalId : Records, raisedBy : People,
            resolvedBy : People \cup {None}]

\* The stored documents have their types.
TypeOK ==
    /\ template \in [Templates -> Contents \cup {"absent", "deleted"}]
    /\ cycle \in [Cycles -> Cycle \cup {NoCycle}]
    /\ record \in [Records -> Record \cup {NoRecord}]
    /\ dispute \in [Disputes -> Dispute \cup {NoDispute}]

\* Whatever resolutions and deletions overlap, an adjusted dispute names who
\* resolved it (resolveDispute).  Of a record nothing of the kind holds: the
\* body of an update may set any field (updateAppraisal).
AdjustedIsResolved ==
    \A d \in Disputes : dispute[d].status = ADJUSTED => dispute[d].resolvedBy # None
=============================================================================
