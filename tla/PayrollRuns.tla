----------------------------- MODULE PayrollRuns -----------------------------
(***************************************************************************)
(* PayrollExecutionService: the payroll runs made for one entity and one   *)
(* period (an edit can move a run to another, and back), the employee      *)
(* details a calculation stores for a run, and the payslips generated from *)
(* it.                                                                     *)
(*                                                                         *)
(* As in LeaveRequests a handler is one action per database round trip     *)
(* that another handler can come between.  run[r] is the run document;     *)
(* detail[r][e] and slip[r][e] are the documents of employee e for run r,  *)
(* as a sequence: they are looked up and then inserted, and nothing in the *)
(* schemas keeps a second one out.                                         *)
(*                                                                         *)
(* What an employee earns is an outcome, what calculateEmployeePayroll     *)
(* returns: the net pay, whether the stored detail is by itself a          *)
(* high-severity irregularity, and whether the breakdown lists an          *)
(* insurance or a refund.  The previous period's run, which the detection  *)
(* of irregularities compares with, is not among the runs of this module:  *)
(* what it pays an employee is an input of every detection.                *)
(***************************************************************************)
EXTENDS Integers, FiniteSets, Sequences, Functions, MongooseDoc

CONSTANTS
    Tasks,      \* calls that can be in progress at the same time
    Runs,       \* ids of payroll run documents
    Employees,
    Outcomes,   \* what the calculation of an employee can return
    Selections, \* sets of employees a calculation may be asked for
    Totals,     \* totals a specialist may enter by hand
    Earlier,    \* net pays in the previous approved or locked run; 0: none
    Ops,        \* the operations clients call in the environment at hand
    NoRun, NoEmployee

DRAFT == "draft"
UNDER_REVIEW == "under review"
PENDING_FINANCE_APPROVAL == "pending finance approval"
REJECTED == "rejected"
APPROVED == "approved"
LOCKED == "locked"
UNLOCKED == "unlocked"

PayRollStatus == {DRAFT, UNDER_REVIEW, PENDING_FINANCE_APPROVAL, REJECTED,
                  APPROVED, LOCKED, UNLOCKED}

\* ok: the employee passes validation and the calculation does not throw;
\* draws: it does not throw, whether or not the employee passes validation.
\* grave: the account is missing, or the deductions exceed 60% of the gross.
\* listed: the payslip would embed an insurance or a refund, without the
\* fields the schema requires of one.
Outcome == [ok : BOOLEAN, draws : BOOLEAN, net : Nat, grave : BOOLEAN, listed : BOOLEAN]

Operations == {"process", "calculate", "calculateNew", "generateDraft", "approve",
               "reject", "edit", "sendForManagerApproval", "sendForFinanceApproval",
               "managerReviewAndApprove", "finalApproval", "lock", "unlock",
               "payslip", "payslips", "inputsChange", "restart"}

ASSUME PayrollAssumption ==
    /\ NoRun \notin Runs /\ NoEmployee \notin Employees
    /\ IsFiniteSet(Runs) /\ IsFiniteSet(Tasks) /\ IsFiniteSet(Employees)
    /\ Outcomes \subseteq Outcome /\ Outcomes # {}
    /\ \A o \in Outcomes : o.ok => o.draws
    /\ Selections \subseteq (SUBSET Employees) \ {{}}
    /\ Totals \subseteq Nat /\ Earlier \subseteq Nat
    /\ Ops \subseteq Operations

VARIABLES
    run,     \* run[r]: the document of run r
    detail,  \* detail[r][e]: the employeePayrollDetails of e in run r
    slip,    \* slip[r][e]: the net pay on the payslips of e for run r
    pay,     \* pay[e]: what calculating e returns at the moment
    task     \* task[t]: what the call t remembers between two awaits

vars == <<run, detail, slip, pay, task>>

NoDoc == [status |-> "absent", paid |-> FALSE, managerApproval |-> FALSE,
          financeApproval |-> FALSE, total |-> 0, runId |-> 0, here |-> FALSE]

NoOutcome == [ok |-> FALSE, draws |-> FALSE, net |-> 0, grave |-> FALSE, listed |-> FALSE]

Idle == [pc |-> "idle", then |-> "idle", rid |-> NoRun, seen |-> NoDoc,
         upd |-> NoDoc, todo |-> {}, sum |-> 0, eid |-> NoEmployee,
         base |-> NoOutcome, out |-> NoOutcome, idx |-> 0, runId |-> 0]

Born(r) == run[r].status # "absent"

BornRuns == {r \in Runs : Born(r)}

\* The runs of the entity and period at hand.
RunsHere == {r \in BornRuns : run[r].here}

Init ==
    /\ run = [r \in Runs |-> NoDoc]
    /\ detail = [r \in Runs |-> [e \in Employees |-> <<>>]]
    /\ slip = [r \in Runs |-> [e \in Employees |-> <<>>]]
    /\ pay \in [Employees -> Outcomes]
    /\ task = [t \in Tasks |-> Idle]

-----------------------------------------------------------------------------
Receives(t, op) == op \in Ops /\ task[t].pc = "idle"

Continue(t, h) == task' = [task EXCEPT ![t] = h]

\* A handler returns or throws.
Return(t) == Continue(t, Idle)

OnlyTask == UNCHANGED <<run, detail, slip, pay>>

\* Document i is saved again, or (0) one more is inserted.
Put(docs, i, doc) == IF i = 0 THEN Append(docs, doc) ELSE [docs EXCEPT ![i] = doc]

\* The handler has read run r, passed its guard, and goes on to save upd.
Handle(t, r, pc, then, upd) ==
    /\ Continue(t, [Idle EXCEPT !.pc = pc, !.then = then, !.rid = r,
                                !.seen = run[r], !.upd = upd])
    /\ OnlyTask

Decide(t, r, upd) == Handle(t, r, "saveRun", "idle", upd)

Creating(t) == task[t].pc \in {"nextId", "insertRun"}

\* A bound of the model: there is a document left for one more run.
RoomForRun ==
    Cardinality(Runs \ BornRuns) > Cardinality({t \in Tasks : Creating(t)})

-----------------------------------------------------------------------------
(* Creating a run.                                                          *)

\* findOne returns one run of the period and entity, whichever it is.
process(t) ==
    /\ Receives(t, "process")
    /\ RoomForRun
    /\ RunsHere = {} \/ \E r \in RunsHere : run[r].status = REJECTED
    /\ Continue(t, [Idle EXCEPT !.pc = "nextId"])
    /\ OnlyTask

\* calculatePayrollAutomatically without a run makes one; it looks for none.
calculateNew(t, S) ==
    /\ Receives(t, "calculateNew")
    /\ RoomForRun
    /\ Continue(t, [Idle EXCEPT !.pc = "nextId", !.then = "calculate", !.todo = S])
    /\ OnlyTask

generateDraft(t) ==
    /\ Receives(t, "generateDraft")
    /\ RoomForRun
    /\ \A r \in RunsHere : run[r].status # DRAFT
    /\ Continue(t, [Idle EXCEPT !.pc = "nextId", !.then = "readRun", !.todo = Employees])
    /\ OnlyTask

\* The latest id of the year, plus one.
generatePayrollRunId(t) ==
    /\ task[t].pc = "nextId"
    /\ \E n \in {run[r].runId : r \in BornRuns} \cup {0} :
          /\ \A r \in BornRuns : run[r].runId <= n
          /\ Continue(t, [task[t] EXCEPT !.pc = "insertRun", !.runId = n + 1])
    /\ OnlyTask

\* Mutant: the document is created without a status.
NewRun_NoStatus(id) ==
    [NoDoc EXCEPT !.status = "undefined", !.runId = id, !.here = TRUE]

NewRun(id) == [NoDoc EXCEPT !.status = DRAFT, !.runId = id, !.here = TRUE]

\* Mutant: the schema does not declare runId unique.
insertRun_NoIndex(t, r) ==
    /\ task[t].pc = "insertRun"
    /\ ~Born(r)
    /\ run' = [run EXCEPT ![r] = NewRun(task[t].runId)]
    /\ IF task[t].then = "idle" THEN Return(t)
       ELSE Continue(t, [task[t] EXCEPT !.pc = task[t].then, !.rid = r,
                                        !.seen = NewRun(task[t].runId)])
    /\ UNCHANGED <<detail, slip, pay>>

insertRun(t, r) ==
    /\ task[t].pc = "insertRun"
    /\ ~Born(r)
    /\ \A s \in BornRuns : run[s].runId # task[t].runId
    /\ run' = [run EXCEPT ![r] = NewRun(task[t].runId)]
    /\ IF task[t].then = "idle" THEN Return(t)
       ELSE Continue(t, [task[t] EXCEPT !.pc = task[t].then, !.rid = r,
                                        !.seen = NewRun(task[t].runId)])
    /\ UNCHANGED <<detail, slip, pay>>

\* Duplicate key: the save throws.
insertDuplicate(t) ==
    /\ task[t].pc = "insertRun"
    /\ \E s \in BornRuns : run[s].runId = task[t].runId
    /\ Return(t)
    /\ OnlyTask

-----------------------------------------------------------------------------
(* calculatePayrollAutomatically.                                           *)

\* Mutant: a run in any status can be calculated.
calculate_AnyStatus(t, r, S) ==
    /\ Receives(t, "calculate")
    /\ Born(r)
    /\ Continue(t, [Idle EXCEPT !.pc = "calculate", !.rid = r, !.seen = run[r], !.todo = S])
    /\ OnlyTask

calculate(t, r, S) ==
    /\ Receives(t, "calculate")
    /\ run[r].status = DRAFT
    /\ Continue(t, [Idle EXCEPT !.pc = "calculate", !.rid = r, !.seen = run[r], !.todo = S])
    /\ OnlyTask

\* generateDraftPayrollAutomatically passes the id of the run it inserted,
\* and the calculation reads that run again.
readRun(t) ==
    /\ task[t].pc = "readRun"
    /\ LET r == task[t].rid
       IN IF run[r].status = DRAFT
          THEN Continue(t, [task[t] EXCEPT !.pc = "calculate", !.seen = run[r]])
          ELSE Return(t)
    /\ OnlyTask

\* One employee of the loop: not valid, or calculated; the reading of what
\* the calculation needs is one step with the lookup of the stored detail.
calculateEmployee(t, e) ==
    /\ task[t].pc = "calculate"
    /\ e \in task[t].todo
    /\ LET docs == detail[task[t].rid][e]
       IN \/ /\ ~pay[e].ok
             /\ Continue(t, [task[t] EXCEPT !.todo = @ \ {e}])
          \/ /\ pay[e].ok /\ docs = <<>>
             /\ Continue(t, [task[t] EXCEPT !.pc = "saveDetail", !.eid = e,
                                            !.out = pay[e], !.idx = 0])
          \/ /\ pay[e].ok
             /\ \E i \in DOMAIN docs :
                   Continue(t, [task[t] EXCEPT !.pc = "saveDetail", !.eid = e,
                                   !.out = pay[e], !.base = docs[i], !.idx = i])
    /\ OnlyTask

\* Mutant: an employee whose detail existed is not added to the total.
saveDetail_NewOnly(t) ==
    /\ task[t].pc = "saveDetail"
    /\ LET r == task[t].rid  e == task[t].eid  i == task[t].idx
       IN /\ detail' = [detail EXCEPT ![r][e] =
                           Put(@, i, IF i = 0 THEN task[t].out
                                     ELSE Saved(@[i], task[t].base, task[t].out))]
          /\ Continue(t, [task[t] EXCEPT !.pc = "calculate", !.todo = @ \ {e},
                             !.sum = IF i = 0 THEN @ + task[t].out.net ELSE @])
    /\ UNCHANGED <<run, slip, pay>>

saveDetail(t) ==
    /\ task[t].pc = "saveDetail"
    /\ LET r == task[t].rid  e == task[t].eid  i == task[t].idx
       IN /\ detail' = [detail EXCEPT ![r][e] =
                           Put(@, i, IF i = 0 THEN task[t].out
                                     ELSE Saved(@[i], task[t].base, task[t].out))]
          /\ Continue(t, [task[t] EXCEPT !.pc = "calculate", !.todo = @ \ {e},
                                         !.sum = @ + task[t].out.net])
    /\ UNCHANGED <<run, slip, pay>>

\* The totals are saved, whatever has become of the run meanwhile.
saveTotals(t) ==
    /\ task[t].pc = "calculate"
    /\ task[t].todo = {}
    /\ run' = [run EXCEPT ![task[t].rid] =
                  Saved(@, task[t].seen, [task[t].seen EXCEPT !.total = task[t].sum])]
    /\ Return(t)
    /\ UNCHANGED <<detail, slip, pay>>

-----------------------------------------------------------------------------
(* Review, edit and approvals.                                              *)

\* reviewPayrollRun, action "approve": one stage forward.
reviewApprove(t, r) ==
    /\ Receives(t, "approve")
    /\ \/ /\ run[r].status = DRAFT
          /\ Decide(t, r, [run[r] EXCEPT !.status = UNDER_REVIEW, !.managerApproval = TRUE])
       \/ /\ run[r].status = UNDER_REVIEW
          /\ Decide(t, r, [run[r] EXCEPT !.status = PENDING_FINANCE_APPROVAL,
                                         !.financeApproval = TRUE])
       \/ /\ run[r].status = PENDING_FINANCE_APPROVAL
          /\ Decide(t, r, [run[r] EXCEPT !.status = APPROVED, !.paid = TRUE])

\* Mutant: an approved run can be rejected.
reviewReject_Approved(t, r) ==
    /\ Receives(t, "reject")
    /\ Born(r) /\ run[r].status # LOCKED
    /\ Decide(t, r, [run[r] EXCEPT !.status = REJECTED])

\* reviewPayrollRun, action "reject".
reviewReject(t, r) ==
    /\ Receives(t, "reject")
    /\ Born(r) /\ run[r].status \notin {APPROVED, LOCKED}
    /\ Decide(t, r, [run[r] EXCEPT !.status = REJECTED])

\* The authorised specialist may enter another total, and another period or
\* entity.
editPayrollRun(t, r, n, h) ==
    /\ Receives(t, "edit")
    /\ run[r].status \in {DRAFT, REJECTED}
    /\ Decide(t, r, [run[r] EXCEPT !.status = DRAFT, !.total = n, !.here = h])

sendForManagerApproval(t, r) ==
    /\ Receives(t, "sendForManagerApproval")
    /\ run[r].status = DRAFT
    /\ Handle(t, r, "inspect", "saveRun", [run[r] EXCEPT !.status = UNDER_REVIEW])

\* More than half above or below what the employee got before.
Spike(net, before) == before > 0 /\ (2 * net > 3 * before \/ 2 * net < before)

HighSeverity(r, before) ==
    \E e \in Employees : \E i \in DOMAIN detail[r][e] :
        detail[r][e][i].grave \/ Spike(detail[r][e][i].net, before[e])

\* Mutant: only the spikes are counted.
detectPayrollIrregularities_SpikesOnly(t, before) ==
    /\ task[t].pc = "inspect"
    /\ LET r == task[t].rid
       IN IF \E e \in Employees : \E i \in DOMAIN detail[r][e] :
                 Spike(detail[r][e][i].net, before[e])
          THEN Return(t)
          ELSE Continue(t, [task[t] EXCEPT !.pc = task[t].then, !.then = "idle"])
    /\ OnlyTask

\* The details are read after the run, and compared with those of the latest
\* earlier run that is approved or locked at this moment; one of high severity
\* stops the call.
detectPayrollIrregularities(t, before) ==
    /\ task[t].pc = "inspect"
    /\ IF HighSeverity(task[t].rid, before)
       THEN Return(t)
       ELSE Continue(t, [task[t] EXCEPT !.pc = task[t].then, !.then = "idle"])
    /\ OnlyTask

\* Mutant: the date of the manager's approval is not stored.
InFinance_NoDate(doc) == [doc EXCEPT !.status = PENDING_FINANCE_APPROVAL]

InFinance(doc) == [doc EXCEPT !.status = PENDING_FINANCE_APPROVAL,
                              !.managerApproval = TRUE]

sendForFinanceApproval(t, r) ==
    /\ Receives(t, "sendForFinanceApproval")
    /\ run[r].status = UNDER_REVIEW
    /\ Decide(t, r, InFinance(run[r]))

managerReviewAndApprove(t, r) ==
    /\ Receives(t, "managerReviewAndApprove")
    /\ run[r].status = UNDER_REVIEW
    /\ Handle(t, r, "inspect", "forward", NoDoc)

\* managerReviewAndApprove ends with sendForFinanceApproval, which reads and
\* checks the run again.
forwardToFinance(t) ==
    /\ task[t].pc = "forward"
    /\ LET r == task[t].rid
       IN IF run[r].status = UNDER_REVIEW
          THEN Continue(t, [task[t] EXCEPT !.pc = "saveRun", !.seen = run[r],
                                           !.upd = InFinance(run[r])])
          ELSE Return(t)
    /\ OnlyTask

finalApprovalByFinance(t, r) ==
    /\ Receives(t, "finalApproval")
    /\ run[r].status = PENDING_FINANCE_APPROVAL
    /\ Handle(t, r, "saveRun", "distribute",
              [run[r] EXCEPT !.status = APPROVED, !.paid = TRUE, !.financeApproval = TRUE])

lockPayroll(t, r) ==
    /\ Receives(t, "lock")
    /\ run[r].status = APPROVED
    /\ Decide(t, r, [run[r] EXCEPT !.status = LOCKED])

unlockPayroll(t, r) ==
    /\ Receives(t, "unlock")
    /\ run[r].status = LOCKED
    /\ Decide(t, r, [run[r] EXCEPT !.status = UNLOCKED])

saveRun(t) ==
    /\ task[t].pc = "saveRun"
    /\ run' = [run EXCEPT ![task[t].rid] = Saved(@, task[t].seen, task[t].upd)]
    /\ IF task[t].then = "idle" THEN Return(t)
                                ELSE Continue(t, [task[t] EXCEPT !.pc = task[t].then])
    /\ UNCHANGED <<detail, slip, pay>>

-----------------------------------------------------------------------------
(* Payslips.                                                                *)

\* Final approval goes on to the payslips; what fails there is swallowed.
generateAndDistribute(t) ==
    /\ task[t].pc = "distribute"
    /\ IF run[task[t].rid].status \in {APPROVED, LOCKED}
       THEN Continue(t, [task[t] EXCEPT !.pc = "batch"])
       ELSE Return(t)
    /\ OnlyTask

\* POST payslips/generate-batch calls generatePayslipsForPayrollRun directly.
callPayslips(t, r) ==
    /\ Receives(t, "payslips")
    /\ Born(r)
    /\ Continue(t, [Idle EXCEPT !.pc = "batch", !.rid = r])
    /\ OnlyTask

\* Mutant: the batch does not look at the status of the run.
generatePayslipsForPayrollRun_AnyStatus(t) ==
    /\ task[t].pc = "batch"
    /\ LET r == task[t].rid
       IN Continue(t, [task[t] EXCEPT !.pc = "payslip",
                           !.todo = {e \in Employees : detail[r][e] # <<>>}])
    /\ OnlyTask

generatePayslipsForPayrollRun(t) ==
    /\ task[t].pc = "batch"
    /\ LET r == task[t].rid
       IN IF run[r].status = APPROVED
          THEN Continue(t, [task[t] EXCEPT !.pc = "payslip",
                               !.todo = {e \in Employees : detail[r][e] # <<>>}])
          ELSE Return(t)
    /\ OnlyTask

\* POST payslips/generate: one employee; the status is not looked at.
callPayslip(t, r, e) ==
    /\ Receives(t, "payslip")
    /\ detail[r][e] # <<>>
    /\ Continue(t, [Idle EXCEPT !.pc = "payslip", !.rid = r, !.todo = {e}])
    /\ OnlyTask

\* Mutant: the payslip on file is not looked for.
generatePayslip_NoLookup(t, e) ==
    /\ task[t].pc = "payslip"
    /\ e \in task[t].todo
    /\ IF pay[e].draws
       THEN Continue(t, [task[t] EXCEPT !.pc = "saveSlip", !.eid = e,
                                        !.out = pay[e], !.idx = 0])
       ELSE Continue(t, [task[t] EXCEPT !.todo = @ \ {e}])
    /\ OnlyTask

\* generatePayslip calculates the employee again, with the inputs of now and
\* without validating him, and looks for a payslip; an exception is the end of
\* this employee only.
generatePayslip(t, e) ==
    /\ task[t].pc = "payslip"
    /\ e \in task[t].todo
    /\ LET docs == slip[task[t].rid][e]
       IN \/ /\ ~pay[e].draws
             /\ Continue(t, [task[t] EXCEPT !.todo = @ \ {e}])
          \/ /\ pay[e].draws /\ docs = <<>>
             /\ Continue(t, [task[t] EXCEPT !.pc = "saveSlip", !.eid = e,
                                            !.out = pay[e], !.idx = 0])
          \/ /\ pay[e].draws
             /\ \E i \in DOMAIN docs :
                   Continue(t, [task[t] EXCEPT !.pc = "saveSlip", !.eid = e,
                                               !.out = pay[e], !.idx = i])
    /\ OnlyTask

\* Mutant: the batch ends with its first payslip.
saveSlip_First(t) ==
    /\ task[t].pc = "saveSlip"
    /\ LET r == task[t].rid  e == task[t].eid  i == task[t].idx  o == task[t].out
       IN slip' = IF o.listed THEN slip
                  ELSE [slip EXCEPT ![r][e] = Put(@, i, o.net)]
    /\ Return(t)
    /\ UNCHANGED <<run, detail, pay>>

\* The save validates the embedded documents: a listed insurance lacks its
\* salary range and a listed refund its description, and the save throws.
saveSlip(t) ==
    /\ task[t].pc = "saveSlip"
    /\ LET r == task[t].rid  e == task[t].eid  i == task[t].idx  o == task[t].out
       IN slip' = IF o.listed THEN slip
                  ELSE [slip EXCEPT ![r][e] = Put(@, i, o.net)]
    /\ Continue(t, [task[t] EXCEPT !.pc = "payslip", !.todo = @ \ {task[t].eid}])
    /\ UNCHANGED <<run, detail, pay>>

payslipsDone(t) ==
    /\ task[t].pc = "payslip"
    /\ task[t].todo = {}
    /\ Return(t)
    /\ OnlyTask

-----------------------------------------------------------------------------
(* The environment.                                                         *)

\* A contract, a penalty, a bank account or an approved configuration changes.
inputsChange ==
    /\ "inputsChange" \in Ops
    /\ \E e \in Employees, o \in Outcomes : pay' = [pay EXCEPT ![e] = o]
    /\ UNCHANGED <<run, detail, slip, task>>

\* The process dies and comes back.
restart ==
    /\ "restart" \in Ops
    /\ \E t \in Tasks : task[t].pc # "idle"
    /\ task' = [t \in Tasks |-> Idle]
    /\ OnlyTask

-----------------------------------------------------------------------------
\* A call arrives.
Call(t) ==
    \/ process(t)
    \/ \E S \in Selections : calculateNew(t, S)
    \/ generateDraft(t)
    \/ \E r \in Runs, S \in Selections : calculate(t, r, S)
    \/ \E r \in Runs : reviewApprove(t, r)
    \/ \E r \in Runs : reviewReject(t, r)
    \/ \E r \in Runs, h \in BOOLEAN : \E n \in Totals \cup {run[r].total} :
          editPayrollRun(t, r, n, h)
    \/ \E r \in Runs : sendForManagerApproval(t, r)
    \/ \E r \in Runs : sendForFinanceApproval(t, r)
    \/ \E r \in Runs : managerReviewAndApprove(t, r)
    \/ \E r \in Runs : finalApprovalByFinance(t, r)
    \/ \E r \in Runs : lockPayroll(t, r)
    \/ \E r \in Runs : unlockPayroll(t, r)
    \/ \E r \in Runs : callPayslips(t, r)
    \/ \E r \in Runs, e \in Employees : callPayslip(t, r, e)

\* A call in progress gets the answer to its last database operation.
Step(t) ==
    \/ generatePayrollRunId(t)
    \/ \E r \in Runs : insertRun(t, r)
    \/ insertDuplicate(t)
    \/ readRun(t)
    \/ \E e \in Employees : calculateEmployee(t, e)
    \/ saveDetail(t)
    \/ saveTotals(t)
    \/ \E before \in [Employees -> Earlier] : detectPayrollIrregularities(t, before)
    \/ forwardToFinance(t)
    \/ saveRun(t)
    \/ generateAndDistribute(t)
    \/ generatePayslipsForPayrollRun(t)
    \/ \E e \in Employees : generatePayslip(t, e)
    \/ saveSlip(t)
    \/ payslipsDone(t)

Next == (\E t \in Tasks : Call(t) \/ Step(t)) \/ inputsChange \/ restart

Spec == Init /\ [][Next]_vars

\* The database answers and the event loop is fair; nobody has to call.
FairSpec == Spec /\ \A t \in Tasks : WF_vars(Step(t))

-----------------------------------------------------------------------------
(* Properties.                                                              *)

RunDoc == [status : PayRollStatus \cup {"absent"}, paid : BOOLEAN,
           managerApproval : BOOLEAN, financeApproval : BOOLEAN,
           total : Nat, runId : Nat, here : BOOLEAN]

Frame == [pc : {"idle", "nextId", "insertRun", "readRun", "calculate", "saveDetail",
                "inspect", "forward", "saveRun", "distribute", "batch", "payslip",
                "saveSlip"},
          then : {"idle", "calculate", "readRun", "saveRun", "forward", "distribute"},
          rid : Runs \cup {NoRun}, seen : RunDoc, upd : RunDoc,
          todo : SUBSET Employees, sum : Nat, eid : Employees \cup {NoEmployee},
          base : Outcome, out : Outcome, idx : Nat, runId : Nat]

\* The types of the variables.
TypeOK ==
    /\ run \in [Runs -> RunDoc]
    /\ detail \in [Runs -> [Employees -> Seq(Outcome)]]
    /\ slip \in [Runs -> [Employees -> Seq(Nat)]]
    /\ pay \in [Employees -> Outcome]
    /\ task \in [Tasks -> Frame]

Finalized == {APPROVED, LOCKED, UNLOCKED}

\* However the calls overlap, and by whichever routes, a run that finance
\* looks at, and one that is approved or paid, bears the date of an approval
\* (reviewPayrollRun, sendForFinanceApproval, finalApprovalByFinance).
NoPaymentWithoutReview ==
    \A r \in Runs :
        run[r].paid \/ run[r].status \in Finalized \cup {PENDING_FINANCE_APPROVAL}
            => run[r].managerApproval \/ run[r].financeApproval

\* No two runs share a run id, although each id is computed from the latest
\* one on file before it is inserted (generatePayrollRunId, the unique index).
RunIdUnique == \A r, s \in BornRuns : run[r].runId = run[s].runId => r = s

\* "Approved or locked payroll runs cannot be rejected" (reviewPayrollRun).
ApprovedStays ==
    [][\A r \in Runs : run[r].status \in {APPROVED, LOCKED}
                          => run'[r].status \in Finalized]_vars

\* A locked run is changed by nothing but unlocking it, and so are the details
\* its totals stand for (lockPayroll: "Prevents any modifications after
\* finalization").
LockedFrozen ==
    [][\A r \in Runs : run[r].status = LOCKED
          => /\ detail'[r] = detail[r]
             /\ run'[r] \in {run[r], [run[r] EXCEPT !.status = UNLOCKED]}]_vars

\* A run under review by the manager or beyond has no detail that is by itself
\* of high severity: without an account, or with more than 60% deducted
\* ("Cannot send for approval: ... Please resolve them first",
\* sendForManagerApproval).  A spike is a matter of the moment of the detection.
ReviewedWithoutGrave ==
    \A r \in BornRuns : run[r].status \notin {DRAFT, REJECTED}
        => \A e \in Employees : \A i \in DOMAIN detail[r][e] : ~detail[r][e][i].grave

\* A payslip exists only for a run that has been approved ("Payroll run must
\* be approved before generating payslips", generatePayslipsForPayrollRun).
PayslipsOnlyWhenPaid ==
    \A r \in Runs : (\E e \in Employees : slip[r][e] # <<>>) => run[r].paid

\* One payslip and one stored detail per employee and run, however often the
\* calculation and the generation are repeated or cut short (generatePayslip,
\* calculatePayrollAutomatically: look up, then update or insert).
OneDocumentEach ==
    \A r \in Runs, e \in Employees : Len(detail[r][e]) <= 1 /\ Len(slip[r][e]) <= 1

NetOf(d) == [e \in Employees |-> IF d[e] = <<>> THEN 0 ELSE d[e][1].net]

NetPay(d) == SumFunctionOnSet(NetOf(d), Employees)

\* When a calculation is over, the total of the run is what its stored
\* details pay (calculatePayrollAutomatically).
TotalsMatch ==
    (\A t \in Tasks : task[t].pc = "idle")
        => \A r \in Runs : run[r].total = NetPay(detail[r])

Distributing(r, e) == \E t \in Tasks : /\ task[t].pc = "distribute" /\ task[t].rid = r
                                      /\ detail[r][e] # <<>>

\* The calculation of e does not throw, nor does the save of the payslip.
Payable(e) == pay[e].draws /\ ~pay[e].listed

\* Finance's final approval is followed by a payslip for every employee whose
\* pay was calculated, whichever of the others throw, unless a payslip of his
\* cannot be made meanwhile ("Automatically generate and distribute payslips
\* after finance approval", finalApprovalByFinance).
PayslipsFollowApproval ==
    \A r \in Runs, e \in Employees :
        Distributing(r, e) ~> slip[r][e] # <<>> \/ ~Payable(e)

-----------------------------------------------------------------------------
(* What the code says and does not keep.                                    *)

\* At most one run of the period and entity is not rejected ("A payroll run
\* already exists for this period and entity", processPayrollRunAutomatically).
OneActiveRun ==
    \A r, s \in RunsHere : run[r].status # REJECTED /\ run[s].status # REJECTED => r = s

\* "when both manager and finance approved" (payroll-execution-enum.ts, of
\* the status APPROVED): an approved run bears both dates.
ApprovedByBoth ==
    \A r \in Runs : run[r].status = APPROVED
                        => run[r].managerApproval /\ run[r].financeApproval

\* The payslips of a locked run do not change ("Prevents any modifications
\* after finalization", lockPayroll).
LockedPayslipsFrozen ==
    [][\A r \in Runs : run[r].status = LOCKED => slip'[r] = slip[r]]_vars
=============================================================================
