-------------------------- MODULE PayrollRunsProofs --------------------------
(***************************************************************************)
(* Theorems about PayrollRuns for every set of runs, employees and         *)
(* outcomes and any number of restarts: under every interleaving of any    *)
(* calls, and, for the theorems named Serial, one call at a time.          *)
(***************************************************************************)
EXTENDS PayrollRuns, SequenceTheorems, SumProofs

(* Typing of what is saved.                                                 *)

LEMMA NoDocType == NoDoc \in RunDoc
  BY DEF NoDoc, RunDoc

LEMMA NoOutcomeType == NoOutcome \in Outcome
  BY DEF NoOutcome, Outcome

LEMMA IdleType == Idle \in Frame
  BY NoDocType, NoOutcomeType DEF Idle, Frame

\* A save of a run keeps or overwrites each field, and nothing else.
LEMMA SavedRun ==
    ASSUME NEW d \in RunDoc, NEW read \in RunDoc, NEW upd \in RunDoc
    PROVE  /\ Saved(d, read, upd) \in RunDoc
           /\ Saved(d, read, upd).status =
                IF upd.status # read.status THEN upd.status ELSE d.status
           /\ Saved(d, read, upd).paid =
                IF upd.paid # read.paid THEN upd.paid ELSE d.paid
           /\ Saved(d, read, upd).managerApproval =
                IF upd.managerApproval # read.managerApproval
                THEN upd.managerApproval ELSE d.managerApproval
           /\ Saved(d, read, upd).financeApproval =
                IF upd.financeApproval # read.financeApproval
                THEN upd.financeApproval ELSE d.financeApproval
           /\ Saved(d, read, upd).runId =
                IF upd.runId # read.runId THEN upd.runId ELSE d.runId
<1> DEFINE F == {"status", "paid", "managerApproval", "financeApproval", "total", "runId",
                 "here"}
           val(f) == IF upd[f] # read[f] THEN upd[f] ELSE d[f]
<1>1. DOMAIN d = F  BY DEF RunDoc
<1>2. Saved(d, read, upd) = [f \in F |-> val(f)]  BY <1>1 DEF Saved
<1>3. Saved(d, read, upd) =
        [status |-> val("status"), paid |-> val("paid"),
         managerApproval |-> val("managerApproval"),
         financeApproval |-> val("financeApproval"),
         total |-> val("total"), runId |-> val("runId"), here |-> val("here")]
  BY <1>2
<1>4. /\ val("status") \in PayRollStatus \cup {"absent"}
      /\ val("paid") \in BOOLEAN /\ val("managerApproval") \in BOOLEAN
      /\ val("financeApproval") \in BOOLEAN /\ val("total") \in Nat
      /\ val("runId") \in Nat /\ val("here") \in BOOLEAN
  BY DEF RunDoc
<1>5. Saved(d, read, upd) \in RunDoc
  <2> HIDE DEF val
  <2> QED  BY <1>3, <1>4 DEF RunDoc
<1> QED  BY <1>3, <1>5

LEMMA SavedOutcome ==
    ASSUME NEW d \in Outcome, NEW read \in Outcome, NEW upd \in Outcome
    PROVE  Saved(d, read, upd) \in Outcome
<1> DEFINE F == {"ok", "draws", "net", "grave", "listed"}
           val(f) == IF upd[f] # read[f] THEN upd[f] ELSE d[f]
<1>1. DOMAIN d = F  BY DEF Outcome
<1>2. Saved(d, read, upd) = [f \in F |-> val(f)]  BY <1>1 DEF Saved
<1>3. Saved(d, read, upd) = [ok |-> val("ok"), draws |-> val("draws"), net |-> val("net"),
                             grave |-> val("grave"), listed |-> val("listed")]
  BY <1>2
<1>4. /\ val("ok") \in BOOLEAN /\ val("draws") \in BOOLEAN /\ val("net") \in Nat
      /\ val("grave") \in BOOLEAN /\ val("listed") \in BOOLEAN
  BY DEF Outcome
<1> HIDE DEF val
<1> QED  BY <1>3, <1>4 DEF Outcome

\* Saving document i again, or inserting one, keeps a sequence of documents.
LEMMA PutType ==
    ASSUME NEW S, NEW docs \in Seq(S), NEW i \in Nat, NEW doc,
           i = 0 \/ i \in DOMAIN docs => doc \in S
    PROVE  Put(docs, i, doc) \in Seq(S)
<1>1. CASE i = 0
  BY <1>1 DEF Put
<1>2. CASE i # 0 /\ i \in DOMAIN docs
  <2>1. i \in 1 .. Len(docs) /\ doc \in S  BY <1>2
  <2>2. [docs EXCEPT ![i] = doc] \in Seq(S)  BY <2>1, ExceptSeq
  <2> QED  BY <1>2, <2>2 DEF Put
<1>3. CASE i # 0 /\ i \notin DOMAIN docs
  <2>1. [docs EXCEPT ![i] = doc] = docs  BY <1>3
  <2> QED  BY <1>3, <2>1 DEF Put
<1> QED  BY <1>1, <1>2, <1>3

LEMMA NewRunType == ASSUME NEW n \in Nat  PROVE NewRun(n) \in RunDoc
  BY DEF NewRun, NoDoc, RunDoc, PayRollStatus, DRAFT

LEMMA InFinanceType == ASSUME NEW d \in RunDoc  PROVE InFinance(d) \in RunDoc
  BY DEF InFinance, RunDoc, PayRollStatus, PENDING_FINANCE_APPROVAL

-----------------------------------------------------------------------------
(* Type correctness.  A call in progress names the run and the employee its *)
(* remaining steps are about, and where it goes on after a shared step.     *)

WellFormed(h) ==
    /\ h.pc \notin {"idle", "nextId", "insertRun"} => h.rid \in Runs
    /\ h.pc \in {"saveDetail", "saveSlip"} => h.eid \in Employees
    /\ h.pc \in {"nextId", "insertRun"} => h.then \in {"idle", "calculate", "readRun"}
    /\ h.pc = "inspect" => h.then \in {"saveRun", "forward"}
    /\ h.pc = "forward" => h.then = "idle"
    /\ h.pc = "saveRun" => h.then \in {"idle", "distribute"}

TypeInv == TypeOK /\ \A t \in Tasks : WellFormed(task[t])

TaskTyped == task' \in [Tasks -> Frame] /\ \A u \in Tasks : WellFormed(task'[u])

LEMMA IdleFormed == WellFormed(Idle)
  BY DEF Idle, WellFormed

LEMMA ContinueType ==
    ASSUME TypeInv, NEW t \in Tasks, NEW h, h \in Frame, WellFormed(h), Continue(t, h)
    PROVE  TaskTyped
  BY DEF TypeInv, TypeOK, Continue, TaskTyped

LEMMA ReturnType ==
    ASSUME TypeInv, NEW t \in Tasks, Return(t)
    PROVE  TaskTyped
  BY IdleType, IdleFormed, ContinueType DEF Return

LEMMA OnlyTaskType == TypeInv /\ OnlyTask /\ TaskTyped => TypeInv'
  BY DEF OnlyTask, TypeInv, TypeOK, TaskTyped

LEMMA HandleType ==
    ASSUME TypeInv, NEW t \in Tasks, NEW r \in Runs, NEW upd \in RunDoc,
           NEW pc, NEW then, Handle(t, r, pc, then, upd),
           \/ pc = "inspect" /\ then \in {"saveRun", "forward"}
           \/ pc = "saveRun" /\ then \in {"idle", "distribute"}
    PROVE  TypeInv'
<1> DEFINE h == [Idle EXCEPT !.pc = pc, !.then = then, !.rid = r, !.seen = run[r], !.upd = upd]
<1>1. run[r] \in RunDoc  BY DEF TypeInv, TypeOK
<1>2. h \in Frame  BY <1>1, IdleType DEF Frame
<1>3. h.pc = pc /\ h.then = then /\ h.rid = r  BY IdleType DEF Frame
<1> HIDE DEF h
<1>4. WellFormed(h)  BY <1>3 DEF WellFormed
<1> QED  BY <1>2, <1>4, ContinueType, OnlyTaskType DEF Handle, h

LEMMA CallType ==
    ASSUME TypeInv, NEW t \in Tasks, Call(t)
    PROVE  TypeInv'
<1>r. \A r \in Runs : run[r] \in RunDoc  BY DEF TypeInv, TypeOK
<1>d. ASSUME NEW r \in Runs, NEW s \in PayRollStatus, NEW p \in BOOLEAN, NEW m \in BOOLEAN,
             NEW f \in BOOLEAN
      PROVE  /\ [run[r] EXCEPT !.status = s] \in RunDoc
             /\ [run[r] EXCEPT !.status = s, !.managerApproval = m] \in RunDoc
             /\ [run[r] EXCEPT !.status = s, !.financeApproval = f] \in RunDoc
             /\ [run[r] EXCEPT !.status = s, !.paid = p] \in RunDoc
             /\ [run[r] EXCEPT !.status = s, !.paid = p, !.financeApproval = f] \in RunDoc
  BY <1>r DEF RunDoc
<1>s. PayRollStatus = {DRAFT, UNDER_REVIEW, PENDING_FINANCE_APPROVAL, REJECTED, APPROVED,
                       LOCKED, UNLOCKED}
  BY DEF PayRollStatus
<1>1. ASSUME process(t)  PROVE TypeInv'
  <2> DEFINE h == [Idle EXCEPT !.pc = "nextId"]
  <2>1. h \in Frame  BY IdleType DEF Frame
  <2>2. WellFormed(h)  BY DEF Idle, WellFormed
  <2> QED  BY <1>1, <2>1, <2>2, ContinueType, OnlyTaskType DEF process
<1>2. ASSUME NEW S \in Selections, calculateNew(t, S)  PROVE TypeInv'
  <2> DEFINE h == [Idle EXCEPT !.pc = "nextId", !.then = "calculate", !.todo = S]
  <2>1. S \in SUBSET Employees  BY PayrollAssumption
  <2>2. h \in Frame  BY <2>1, IdleType DEF Frame
  <2>3. WellFormed(h)  BY DEF Idle, WellFormed
  <2> QED  BY <1>2, <2>2, <2>3, ContinueType, OnlyTaskType DEF calculateNew
<1>3. ASSUME generateDraft(t)  PROVE TypeInv'
  <2> DEFINE h == [Idle EXCEPT !.pc = "nextId", !.then = "readRun", !.todo = Employees]
  <2>1. h \in Frame  BY IdleType DEF Frame
  <2>2. WellFormed(h)  BY DEF Idle, WellFormed
  <2> QED  BY <1>3, <2>1, <2>2, ContinueType, OnlyTaskType DEF generateDraft
<1>4. ASSUME NEW r \in Runs, NEW S \in Selections, calculate(t, r, S)  PROVE TypeInv'
  <2> DEFINE h == [Idle EXCEPT !.pc = "calculate", !.rid = r, !.seen = run[r], !.todo = S]
  <2>1. S \in SUBSET Employees  BY PayrollAssumption
  <2>2. h \in Frame  BY <2>1, <1>r, IdleType DEF Frame
  <2>3. WellFormed(h)  BY DEF Idle, WellFormed
  <2> QED  BY <1>4, <2>2, <2>3, ContinueType, OnlyTaskType DEF calculate
<1>5. ASSUME NEW r \in Runs, reviewApprove(t, r)  PROVE TypeInv'
  BY <1>5, <1>d, <1>s, HandleType DEF reviewApprove, Decide
<1>6. ASSUME NEW r \in Runs, reviewReject(t, r)  PROVE TypeInv'
  BY <1>6, <1>d, <1>s, HandleType DEF reviewReject, Decide
<1>7. ASSUME NEW r \in Runs, NEW b \in BOOLEAN, NEW n \in Totals \cup {run[r].total},
             editPayrollRun(t, r, n, b)
      PROVE TypeInv'
  <2>1. n \in Nat  BY <1>r, PayrollAssumption DEF RunDoc
  <2>2. [run[r] EXCEPT !.status = DRAFT, !.total = n, !.here = b] \in RunDoc
    BY <1>r, <1>s, <2>1 DEF RunDoc
  <2> QED  BY <1>7, <2>2, HandleType DEF editPayrollRun, Decide
<1>8. ASSUME NEW r \in Runs, sendForManagerApproval(t, r)  PROVE TypeInv'
  BY <1>8, <1>d, <1>s, HandleType DEF sendForManagerApproval
<1>9. ASSUME NEW r \in Runs, sendForFinanceApproval(t, r)  PROVE TypeInv'
  BY <1>9, <1>r, InFinanceType, HandleType DEF sendForFinanceApproval, Decide
<1>10. ASSUME NEW r \in Runs, managerReviewAndApprove(t, r)  PROVE TypeInv'
  BY <1>10, NoDocType, HandleType DEF managerReviewAndApprove
<1>11. ASSUME NEW r \in Runs, finalApprovalByFinance(t, r)  PROVE TypeInv'
  BY <1>11, <1>d, <1>s, HandleType DEF finalApprovalByFinance
<1>12. ASSUME NEW r \in Runs, lockPayroll(t, r)  PROVE TypeInv'
  BY <1>12, <1>d, <1>s, HandleType DEF lockPayroll, Decide
<1>13. ASSUME NEW r \in Runs, unlockPayroll(t, r)  PROVE TypeInv'
  BY <1>13, <1>d, <1>s, HandleType DEF unlockPayroll, Decide
<1>14. ASSUME NEW r \in Runs, callPayslips(t, r)  PROVE TypeInv'
  <2> DEFINE h == [Idle EXCEPT !.pc = "batch", !.rid = r]
  <2>1. h \in Frame  BY IdleType DEF Frame
  <2>2. WellFormed(h)  BY DEF Idle, WellFormed
  <2> QED  BY <1>14, <2>1, <2>2, ContinueType, OnlyTaskType DEF callPayslips
<1>15. ASSUME NEW r \in Runs, NEW e \in Employees, callPayslip(t, r, e)  PROVE TypeInv'
  <2> DEFINE h == [Idle EXCEPT !.pc = "payslip", !.rid = r, !.todo = {e}]
  <2>1. h \in Frame  BY IdleType DEF Frame
  <2>2. WellFormed(h)  BY DEF Idle, WellFormed
  <2> QED  BY <1>15, <2>1, <2>2, ContinueType, OnlyTaskType DEF callPayslip
<1> QED  BY <1>1, <1>2, <1>3, <1>4, <1>5, <1>6, <1>7, <1>8, <1>9, <1>10, <1>11, <1>12,
            <1>13, <1>14, <1>15 DEF Call

LEMMA StepType ==
    ASSUME TypeInv, NEW t \in Tasks, Step(t)
    PROVE  TypeInv'
<1>h. task[t] \in Frame /\ WellFormed(task[t])  BY DEF TypeInv, TypeOK
<1>b. ASSUME NEW h, h \in Frame, WellFormed(h), Continue(t, h)  PROVE TaskTyped
  BY <1>b, ContinueType
<1>c. ASSUME Return(t)  PROVE TaskTyped
  BY <1>c, ReturnType
<1>1. ASSUME generatePayrollRunId(t)  PROVE TypeInv'
  <2> DEFINE h(n) == [task[t] EXCEPT !.pc = "insertRun", !.runId = n + 1]
  <2>1. PICK n \in {run[r].runId : r \in BornRuns} \cup {0} : Continue(t, h(n))
    BY <1>1 DEF generatePayrollRunId
  <2>2. n \in Nat  BY DEF BornRuns, TypeInv, TypeOK, RunDoc
  <2>3. h(n) \in Frame
    <3>1. n + 1 \in Nat  BY <2>2
    <3>2. \A k \in Nat : [task[t] EXCEPT !.pc = "insertRun", !.runId = k] \in Frame
      BY <1>h DEF Frame
    <3> QED  BY <3>1, <3>2
  <2>4. WellFormed(h(n))  BY <1>1, <1>h DEF Frame, WellFormed, generatePayrollRunId
  <2>5. TaskTyped  BY <2>1, <2>3, <2>4, <1>b
  <2> QED  BY <1>1, <2>5, OnlyTaskType DEF generatePayrollRunId
<1>2. ASSUME NEW r \in Runs, insertRun(t, r)  PROVE TypeInv'
  <2> DEFINE doc == NewRun(task[t].runId)
             h == [task[t] EXCEPT !.pc = task[t].then, !.rid = r, !.seen = doc]
  <2>1. doc \in RunDoc  BY <1>h, NewRunType DEF Frame
  <2>2. run' \in [Runs -> RunDoc]
    <3>1. run' = [run EXCEPT ![r] = doc]  BY <1>2 DEF insertRun
    <3> HIDE DEF doc
    <3> QED  BY <2>1, <3>1 DEF TypeInv, TypeOK
  <2>3. task[t].then \in {"idle", "calculate", "readRun"}
    BY <1>2, <1>h DEF insertRun, WellFormed
  <2> HIDE DEF doc
  <2>4. h \in Frame  BY <1>h, <2>1, <2>3 DEF Frame
  <2>5. WellFormed(h)  BY <1>h, <2>3 DEF Frame, WellFormed
  <2>6. Return(t) \/ Continue(t, h)  BY <1>2 DEF insertRun, doc
  <2>7. TaskTyped  BY <2>4, <2>5, <2>6, <1>b, <1>c
  <2> QED  BY <1>2, <2>2, <2>7 DEF insertRun, TypeInv, TypeOK, TaskTyped
<1>3. ASSUME insertDuplicate(t)  PROVE TypeInv'
  BY <1>3, <1>c, OnlyTaskType DEF insertDuplicate
<1>4. ASSUME readRun(t)  PROVE TypeInv'
  <2> DEFINE r == task[t].rid
             h == [task[t] EXCEPT !.pc = "calculate", !.seen = run[r]]
  <2>1. r \in Runs  BY <1>4, <1>h DEF readRun, WellFormed
  <2>2. run[r] \in RunDoc  BY <2>1 DEF TypeInv, TypeOK
  <2>3. h \in Frame  BY <1>h, <2>2 DEF Frame
  <2>4. WellFormed(h)  BY <1>h, <2>1 DEF Frame, WellFormed
  <2>5. Return(t) \/ Continue(t, h)  BY <1>4 DEF readRun
  <2>6. TaskTyped  BY <2>3, <2>4, <2>5, <1>b, <1>c
  <2> QED  BY <1>4, <2>6, OnlyTaskType DEF readRun
<1>5. ASSUME NEW e \in Employees, calculateEmployee(t, e)  PROVE TypeInv'
  <2> DEFINE docs == detail[task[t].rid][e]
             h1 == [task[t] EXCEPT !.todo = @ \ {e}]
             h2 == [task[t] EXCEPT !.pc = "saveDetail", !.eid = e, !.out = pay[e], !.idx = 0]
             h3(i) == [task[t] EXCEPT !.pc = "saveDetail", !.eid = e, !.out = pay[e],
                                      !.base = docs[i], !.idx = i]
  <2>1. task[t].rid \in Runs  BY <1>5, <1>h DEF calculateEmployee, WellFormed
  <2>2. docs \in Seq(Outcome) /\ pay[e] \in Outcome  BY <2>1 DEF TypeInv, TypeOK
  <2>3. h1 \in Frame /\ WellFormed(h1)  BY <1>h, <2>1 DEF Frame, WellFormed
  <2>4. h2 \in Frame /\ WellFormed(h2)  BY <1>h, <2>1, <2>2 DEF Frame, WellFormed
  <2>5. ASSUME NEW i \in DOMAIN docs  PROVE h3(i) \in Frame /\ WellFormed(h3(i))
    <3>1. i \in Nat /\ docs[i] \in Outcome  BY <2>2
    <3>2. h3(i) \in Frame
      <4> HIDE DEF docs
      <4> QED  BY <1>h, <2>2, <3>1 DEF Frame
    <3>3. WellFormed(h3(i))  BY <1>h, <2>1 DEF Frame, WellFormed
    <3> QED  BY <3>2, <3>3
  <2>6. Continue(t, h1) \/ Continue(t, h2) \/ \E i \in DOMAIN docs : Continue(t, h3(i))
    BY <1>5 DEF calculateEmployee
  <2> HIDE DEF h1, h2, h3, docs
  <2>7. TaskTyped  BY <2>3, <2>4, <2>5, <2>6, <1>b
  <2> QED  BY <1>5, <2>7, OnlyTaskType DEF calculateEmployee
<1>6. ASSUME saveDetail(t)  PROVE TypeInv'
  <2> DEFINE r == task[t].rid
             e == task[t].eid
             i == task[t].idx
             docs == detail[r][e]
             doc == IF i = 0 THEN task[t].out ELSE Saved(docs[i], task[t].base, task[t].out)
             h == [task[t] EXCEPT !.pc = "calculate", !.todo = @ \ {e},
                                  !.sum = @ + task[t].out.net]
  <2>1. r \in Runs /\ e \in Employees  BY <1>6, <1>h DEF saveDetail, WellFormed
  <2>2. docs \in Seq(Outcome)  BY <2>1 DEF TypeInv, TypeOK
  <2>3. task[t].out \in Outcome /\ task[t].base \in Outcome /\ i \in Nat  BY <1>h DEF Frame
  <2>4. i = 0 \/ i \in DOMAIN docs => doc \in Outcome
    <3>1. i \in DOMAIN docs => docs[i] \in Outcome  BY <2>2
    <3> QED  BY <2>3, <3>1, SavedOutcome
  <2>5. Put(docs, i, doc) \in Seq(Outcome)
    <3> HIDE DEF doc, docs, i
    <3> QED  BY <2>2, <2>3, <2>4, PutType
  <2>6. detail' = [detail EXCEPT ![r][e] = Put(docs, i, doc)]
    BY <1>6, <2>1 DEF saveDetail, TypeInv, TypeOK
  <2>7. detail' \in [Runs -> [Employees -> Seq(Outcome)]]
    <3> DEFINE p == Put(docs, i, doc)
    <3>1. p \in Seq(Outcome) /\ detail' = [detail EXCEPT ![r][e] = p]  BY <2>5, <2>6
    <3> HIDE DEF p
    <3> QED  BY <2>1, <3>1 DEF TypeInv, TypeOK
  <2>8. task[t].out.net \in Nat /\ task[t].sum \in Nat  BY <2>3, <1>h DEF Outcome, Frame
  <2>9. h \in Frame
    <3>1. task[t].sum + task[t].out.net \in Nat  BY <2>8
    <3>2. task[t].todo \ {e} \in SUBSET Employees  BY <1>h DEF Frame
    <3>3. \A S \in SUBSET Employees, n \in Nat :
             [task[t] EXCEPT !.pc = "calculate", !.todo = S, !.sum = n] \in Frame
      BY <1>h DEF Frame
    <3>4. h = [task[t] EXCEPT !.pc = "calculate", !.todo = task[t].todo \ {e},
                              !.sum = task[t].sum + task[t].out.net]
      BY Zenon
    <3> QED  BY <3>1, <3>2, <3>3, <3>4
  <2>10. WellFormed(h)  BY <1>h, <2>1 DEF Frame, WellFormed
  <2>11. TaskTyped  BY <1>6, <2>9, <2>10, <1>b DEF saveDetail
  <2> QED  BY <1>6, <2>7, <2>11 DEF saveDetail, TypeInv, TypeOK, TaskTyped
<1>7. ASSUME saveTotals(t)  PROVE TypeInv'
  <2> DEFINE r == task[t].rid
             upd == [task[t].seen EXCEPT !.total = task[t].sum]
             saved == Saved(run[r], task[t].seen, upd)
  <2>1. r \in Runs  BY <1>7, <1>h DEF saveTotals, WellFormed
  <2>2. run[r] \in RunDoc /\ task[t].seen \in RunDoc /\ task[t].sum \in Nat
    BY <1>h, <2>1 DEF TypeInv, TypeOK, Frame
  <2>3. upd \in RunDoc  BY <2>2 DEF RunDoc
  <2> HIDE DEF upd
  <2>4. saved \in RunDoc  BY <2>2, <2>3, SavedRun
  <2>5. run' = [run EXCEPT ![r] = saved]  BY <1>7 DEF saveTotals, upd
  <2> HIDE DEF saved
  <2>6. run' \in [Runs -> RunDoc]  BY <2>4, <2>5 DEF TypeInv, TypeOK
  <2>7. TaskTyped  BY <1>7, <1>c DEF saveTotals
  <2> QED  BY <1>7, <2>6, <2>7 DEF saveTotals, TypeInv, TypeOK, TaskTyped
<1>8. ASSUME NEW before \in [Employees -> Earlier], detectPayrollIrregularities(t, before)
      PROVE  TypeInv'
  <2> DEFINE h == [task[t] EXCEPT !.pc = task[t].then, !.then = "idle"]
  <2>1. task[t].then \in {"saveRun", "forward"} /\ task[t].rid \in Runs
    BY <1>8, <1>h DEF detectPayrollIrregularities, WellFormed
  <2>2. h \in Frame  BY <1>h, <2>1 DEF Frame
  <2>3. WellFormed(h)  BY <1>h, <2>1 DEF Frame, WellFormed
  <2>4. Return(t) \/ Continue(t, h)  BY <1>8 DEF detectPayrollIrregularities
  <2>5. TaskTyped  BY <2>2, <2>3, <2>4, <1>b, <1>c
  <2> QED  BY <1>8, <2>5, OnlyTaskType DEF detectPayrollIrregularities
<1>9. ASSUME forwardToFinance(t)  PROVE TypeInv'
  <2> DEFINE r == task[t].rid
             h == [task[t] EXCEPT !.pc = "saveRun", !.seen = run[r], !.upd = InFinance(run[r])]
  <2>1. r \in Runs  BY <1>9, <1>h DEF forwardToFinance, WellFormed
  <2>2. run[r] \in RunDoc /\ InFinance(run[r]) \in RunDoc
    BY <2>1, InFinanceType DEF TypeInv, TypeOK
  <2>3. h \in Frame  BY <1>h, <2>2 DEF Frame
  <2>4. (Continue(t, h) /\ WellFormed(h)) \/ Return(t)
    <3>1. task[t].then = "idle"  BY <1>9, <1>h DEF forwardToFinance, WellFormed
    <3>2. h.pc = "saveRun" /\ h.then = "idle" /\ h.rid = r  BY <1>h, <3>1 DEF Frame
    <3>3. WellFormed(h)
      <4> HIDE DEF h
      <4> QED  BY <2>1, <3>2 DEF WellFormed
    <3>4. Continue(t, h) \/ Return(t)  BY <1>9 DEF forwardToFinance
    <3> QED  BY <3>3, <3>4
  <2>5. TaskTyped  BY <2>3, <2>4, <1>b, <1>c
  <2> QED  BY <1>9, <2>5, OnlyTaskType DEF forwardToFinance
<1>10. ASSUME saveRun(t)  PROVE TypeInv'
  <2> DEFINE r == task[t].rid
             saved == Saved(run[r], task[t].seen, task[t].upd)
             h == [task[t] EXCEPT !.pc = task[t].then]
  <2>1. r \in Runs /\ task[t].then \in {"idle", "distribute"}
    BY <1>10, <1>h DEF saveRun, WellFormed
  <2>2. run[r] \in RunDoc /\ task[t].seen \in RunDoc /\ task[t].upd \in RunDoc
    BY <1>h, <2>1 DEF TypeInv, TypeOK, Frame
  <2>3. saved \in RunDoc  BY <2>2, SavedRun
  <2>4. run' = [run EXCEPT ![r] = saved]  BY <1>10 DEF saveRun
  <2> HIDE DEF saved
  <2>5. run' \in [Runs -> RunDoc]  BY <2>3, <2>4 DEF TypeInv, TypeOK
  <2>6. h \in Frame /\ WellFormed(h)  BY <1>h, <2>1 DEF Frame, WellFormed
  <2>7. Return(t) \/ Continue(t, h)  BY <1>10 DEF saveRun
  <2>8. TaskTyped  BY <2>6, <2>7, <1>b, <1>c
  <2> QED  BY <1>10, <2>5, <2>8 DEF saveRun, TypeInv, TypeOK, TaskTyped
<1>11. ASSUME generateAndDistribute(t)  PROVE TypeInv'
  <2> DEFINE h == [task[t] EXCEPT !.pc = "batch"]
  <2>1. h \in Frame /\ WellFormed(h)
    BY <1>11, <1>h DEF Frame, WellFormed, generateAndDistribute
  <2>2. Return(t) \/ Continue(t, h)  BY <1>11 DEF generateAndDistribute
  <2>3. TaskTyped  BY <2>1, <2>2, <1>b, <1>c
  <2> QED  BY <1>11, <2>3, OnlyTaskType DEF generateAndDistribute
<1>12. ASSUME generatePayslipsForPayrollRun(t)  PROVE TypeInv'
  <2> DEFINE S == {e \in Employees : detail[task[t].rid][e] # <<>>}
             h == [task[t] EXCEPT !.pc = "payslip", !.todo = S]
  <2>1. h \in Frame /\ WellFormed(h)
    BY <1>12, <1>h DEF Frame, WellFormed, generatePayslipsForPayrollRun
  <2>2. Return(t) \/ Continue(t, h)  BY <1>12 DEF generatePayslipsForPayrollRun
  <2>3. TaskTyped  BY <2>1, <2>2, <1>b, <1>c
  <2> QED  BY <1>12, <2>3, OnlyTaskType DEF generatePayslipsForPayrollRun
<1>13. ASSUME NEW e \in Employees, generatePayslip(t, e)  PROVE TypeInv'
  <2> DEFINE docs == slip[task[t].rid][e]
             h1 == [task[t] EXCEPT !.todo = @ \ {e}]
             h2(i) == [task[t] EXCEPT !.pc = "saveSlip", !.eid = e, !.out = pay[e], !.idx = i]
  <2>1. task[t].rid \in Runs  BY <1>13, <1>h DEF generatePayslip, WellFormed
  <2>2. docs \in Seq(Nat) /\ pay[e] \in Outcome  BY <2>1 DEF TypeInv, TypeOK
  <2>3. h1 \in Frame /\ WellFormed(h1)  BY <1>h, <2>1 DEF Frame, WellFormed
  <2>4. ASSUME NEW i \in Nat  PROVE h2(i) \in Frame /\ WellFormed(h2(i))
    BY <1>h, <2>1, <2>2 DEF Frame, WellFormed
  <2>5. \A i \in DOMAIN docs : i \in Nat  BY <2>2
  <2>6. Continue(t, h1) \/ Continue(t, h2(0)) \/ \E i \in DOMAIN docs : Continue(t, h2(i))
    BY <1>13 DEF generatePayslip
  <2> HIDE DEF h1, h2, docs
  <2>7. TaskTyped  BY <2>3, <2>4, <2>5, <2>6, <1>b
  <2> QED  BY <1>13, <2>7, OnlyTaskType DEF generatePayslip
<1>14. ASSUME saveSlip(t)  PROVE TypeInv'
  <2> DEFINE r == task[t].rid
             e == task[t].eid
             p == Put(slip[r][e], task[t].idx, task[t].out.net)
             h == [task[t] EXCEPT !.pc = "payslip", !.todo = @ \ {e}]
  <2>1. r \in Runs /\ e \in Employees  BY <1>14, <1>h DEF saveSlip, WellFormed
  <2>2. slip[r][e] \in Seq(Nat)  BY <2>1 DEF TypeInv, TypeOK
  <2>3. task[t].out \in Outcome /\ task[t].idx \in Nat  BY <1>h DEF Frame
  <2>4. task[t].out.net \in Nat  BY <2>3 DEF Outcome
  <2>5. p \in Seq(Nat)  BY <2>2, <2>3, <2>4, PutType
  <2>6. slip' = slip \/ slip' = [slip EXCEPT ![r][e] = p]
    BY <1>14, <2>1 DEF saveSlip, TypeInv, TypeOK
  <2> HIDE DEF p
  <2>7. slip' \in [Runs -> [Employees -> Seq(Nat)]]
    <3>1. [slip EXCEPT ![r][e] = p] \in [Runs -> [Employees -> Seq(Nat)]]
      <4> HIDE DEF r, e
      <4> QED  BY <2>1, <2>5 DEF TypeInv, TypeOK
    <3> QED  BY <2>6, <3>1 DEF TypeInv, TypeOK
  <2>8. h \in Frame /\ WellFormed(h)  BY <1>h, <2>1 DEF Frame, WellFormed
  <2>9. TaskTyped  BY <1>14, <2>8, <1>b DEF saveSlip
  <2> QED  BY <1>14, <2>7, <2>9 DEF saveSlip, TypeInv, TypeOK, TaskTyped
<1>15. ASSUME payslipsDone(t)  PROVE TypeInv'
  BY <1>15, <1>c, OnlyTaskType DEF payslipsDone
<1> QED  BY <1>1, <1>2, <1>3, <1>4, <1>5, <1>6, <1>7, <1>8, <1>9, <1>10, <1>11, <1>12,
            <1>13, <1>14, <1>15 DEF Step

LEMMA InitType == Init => TypeInv
<1> SUFFICES ASSUME Init  PROVE TypeInv
  OBVIOUS
<1>1. run \in [Runs -> RunDoc]  BY NoDocType DEF Init
<1>2. pay \in [Employees -> Outcome]  BY PayrollAssumption DEF Init
<1>3. /\ detail \in [Runs -> [Employees -> Seq(Outcome)]]
      /\ slip \in [Runs -> [Employees -> Seq(Nat)]]
  BY DEF Init
<1>4. task \in [Tasks -> Frame] /\ \A t \in Tasks : WellFormed(task[t])
  BY IdleType, IdleFormed DEF Init
<1> QED  BY <1>1, <1>2, <1>3, <1>4 DEF TypeInv, TypeOK

LEMMA NextType == TypeInv /\ [Next]_vars => TypeInv'
<1> SUFFICES ASSUME TypeInv, [Next]_vars  PROVE TypeInv'
  OBVIOUS
<1>1. CASE UNCHANGED vars  BY <1>1 DEF vars, TypeInv, TypeOK
<1>2. CASE inputsChange
  <2>1. pay' \in [Employees -> Outcome]
    BY <1>2, PayrollAssumption DEF inputsChange, TypeInv, TypeOK
  <2> QED  BY <1>2, <2>1 DEF inputsChange, TypeInv, TypeOK
<1>3. CASE restart
  <2>1. task' = [t \in Tasks |-> Idle] /\ OnlyTask  BY <1>3 DEF restart
  <2> QED  BY <2>1, IdleType, IdleFormed DEF OnlyTask, TypeInv, TypeOK
<1> QED  BY <1>1, <1>2, <1>3, CallType, StepType DEF Next

\* Every document and every call in progress is of its type: no handler saves
\* a run, a detail or a payslip that it has not read or created.
THEOREM TypeCorrect == Spec => []TypeOK
<1>1. TypeInv => TypeOK  BY DEF TypeInv
<1> QED  BY InitType, NextType, <1>1, PTL DEF Spec

-----------------------------------------------------------------------------
(* Reviews and run ids.  A call that is going to save a run carries it as   *)
(* read and as changed, over awaits in which other calls save the same run. *)
(* The invariant says what makes that save harmless: the call never unsets  *)
(* a date or renames the run, what it means to save is reviewed by itself,  *)
(* and the dates it has read are still on file.                             *)

Dated(d) == d.managerApproval \/ d.financeApproval

BeyondReview(d) == d.paid \/ d.status \in Finalized \cup {PENDING_FINANCE_APPROVAL}

Reviewed(d) == BeyondReview(d) => Dated(d)

KeepsDates(d, e) ==
    /\ d.managerApproval => e.managerApproval
    /\ d.financeApproval => e.financeApproval

Saving(h) == h.pc = "saveRun" \/ (h.pc = "inspect" /\ h.then = "saveRun")

Harmless(h) ==
    /\ h.upd.runId = h.seen.runId
    /\ h.upd.status # "absent"
    /\ Reviewed(h.upd)
    /\ KeepsDates(h.seen, h.upd)

OnFile(h, docs) ==
    docs[h.rid].status # "absent" /\ KeepsDates(h.seen, docs[h.rid])

SavingInv == \A t \in Tasks : Saving(task[t]) => Harmless(task[t]) /\ OnFile(task[t], run)

ReviewInv == TypeInv /\ NoPaymentWithoutReview /\ RunIdUnique /\ SavingInv

LEMMA AllReviewed == NoPaymentWithoutReview <=> \A r \in Runs : Reviewed(run[r])
  BY DEF NoPaymentWithoutReview, Reviewed, BeyondReview, Dated

LEMMA NotAbsent == \A s \in PayRollStatus : s # "absent"
  BY DEF PayRollStatus, DRAFT, UNDER_REVIEW, PENDING_FINANCE_APPROVAL, REJECTED, APPROVED,
         LOCKED, UNLOCKED

\* Saving what another call has overtaken keeps every date, and the run is
\* reviewed if it was and if what the call means to save is.
LEMMA SavedReviewed ==
    ASSUME NEW d \in RunDoc, NEW read \in RunDoc, NEW upd \in RunDoc,
           Reviewed(d), Reviewed(upd), KeepsDates(read, upd), KeepsDates(read, d)
    PROVE  Reviewed(Saved(d, read, upd)) /\ KeepsDates(d, Saved(d, read, upd))
<1> DEFINE s == Saved(d, read, upd)
<1>1. /\ s.status \in {upd.status, d.status}
      /\ s.paid \in {upd.paid, d.paid}
  BY SavedRun
<1>2. /\ s.managerApproval = IF upd.managerApproval # read.managerApproval
                              THEN upd.managerApproval ELSE d.managerApproval
      /\ s.financeApproval = IF upd.financeApproval # read.financeApproval
                              THEN upd.financeApproval ELSE d.financeApproval
  BY SavedRun
<1>b. /\ d.managerApproval \in BOOLEAN /\ d.financeApproval \in BOOLEAN /\ d.paid \in BOOLEAN
      /\ read.managerApproval \in BOOLEAN /\ read.financeApproval \in BOOLEAN
      /\ upd.managerApproval \in BOOLEAN /\ upd.financeApproval \in BOOLEAN
      /\ upd.paid \in BOOLEAN
  BY DEF RunDoc
<1> HIDE DEF s
<1>3. KeepsDates(d, s)  BY <1>2, <1>b DEF KeepsDates
<1>4. Dated(upd) => Dated(s)  BY <1>2, <1>b DEF KeepsDates, Dated
<1>5. Dated(d) => Dated(s)  BY <1>3 DEF KeepsDates, Dated
<1>6. BeyondReview(s) => BeyondReview(d) \/ BeyondReview(upd)
  BY <1>1, <1>b DEF BeyondReview
<1> QED  BY <1>3, <1>4, <1>5, <1>6 DEF Reviewed, s

\* What a step may do to the runs: the calls it does not move stay harmless.
RunsGrow ==
    /\ \A r \in Runs : Born(r) => Born(r)' /\ KeepsDates(run[r], run'[r])
    /\ NoPaymentWithoutReview'
    /\ RunIdUnique'

LEMMA GrowingRuns ==
    ASSUME ReviewInv, TypeInv', RunsGrow, NEW t \in Tasks, NEW h, Continue(t, h),
           Saving(h) => Harmless(h) /\ OnFile(h, run')
    PROVE  ReviewInv'
<1>1. ASSUME NEW u \in Tasks, Saving(task'[u])
      PROVE  Harmless(task'[u]) /\ OnFile(task'[u], run')
  <2>1. CASE u = t
    <3>1. task'[u] = h  BY <2>1 DEF Continue, ReviewInv, TypeInv, TypeOK
    <3> QED  BY <1>1, <3>1
  <2>2. CASE u # t
    <3>1. task'[u] = task[u]  BY <2>2 DEF Continue, ReviewInv, TypeInv, TypeOK
    <3>2. Harmless(task[u]) /\ OnFile(task[u], run)
      BY <1>1, <3>1 DEF ReviewInv, SavingInv
    <3>3. task[u].rid \in Runs
      BY <1>1, <3>1 DEF ReviewInv, TypeInv, WellFormed, Saving
    <3>4. run'[task[u].rid].status # "absent" /\ KeepsDates(run[task[u].rid], run'[task[u].rid])
      BY <3>2, <3>3 DEF RunsGrow, OnFile, Born
    <3>5. KeepsDates(task[u].seen, run'[task[u].rid])
      BY <3>2, <3>4 DEF OnFile, KeepsDates
    <3> QED  BY <3>1, <3>2, <3>4, <3>5 DEF OnFile
  <2> QED  BY <2>1, <2>2
<1>2. SavingInv'  BY <1>1 DEF SavingInv
<1> QED  BY <1>2 DEF ReviewInv, RunsGrow

LEMMA SameRuns == ReviewInv /\ run' = run => RunsGrow
  BY DEF ReviewInv, RunsGrow, Born, KeepsDates, NoPaymentWithoutReview, RunIdUnique, BornRuns

LEMMA MovedTask ==
    ASSUME ReviewInv, TypeInv', OnlyTask, NEW t \in Tasks, NEW h, Continue(t, h),
           Saving(h) => Harmless(h) /\ OnFile(h, run)
    PROVE  ReviewInv'
<1>1. run' = run  BY DEF OnlyTask
<1> QED  BY <1>1, SameRuns, GrowingRuns

LEMMA NotSaving ==
    ASSUME ReviewInv, TypeInv', OnlyTask, NEW t \in Tasks, NEW h, Continue(t, h), ~Saving(h)
    PROVE  ReviewInv'
  BY MovedTask

LEMMA IdleNotSaving == ~Saving(Idle)
  BY DEF Idle, Saving

LEMMA ReturnReview ==
    ASSUME ReviewInv, TypeInv', OnlyTask, NEW t \in Tasks, Return(t)
    PROVE  ReviewInv'
  BY IdleNotSaving, NotSaving DEF Return

\* A decision about a run that is on file.
LEMMA HandleReview ==
    ASSUME ReviewInv, TypeInv', NEW t \in Tasks, NEW r \in Runs, NEW upd \in RunDoc,
           NEW pc, NEW then, Handle(t, r, pc, then, upd), Born(r),
           \/ /\ pc # "saveRun" /\ then # "saveRun"
           \/ /\ upd.runId = run[r].runId /\ upd.status # "absent"
              /\ Reviewed(upd) /\ KeepsDates(run[r], upd)
    PROVE  ReviewInv'
<1> DEFINE h == [Idle EXCEPT !.pc = pc, !.then = then, !.rid = r, !.seen = run[r], !.upd = upd]
<1>1. /\ h.pc = pc /\ h.then = then /\ h.rid = r
      /\ h.seen = run[r] /\ h.upd = upd
  BY IdleType DEF Frame
<1>2. Continue(t, h) /\ OnlyTask  BY DEF Handle
<1> HIDE DEF h
<1>3. OnFile(h, run)  BY <1>1 DEF OnFile, KeepsDates, Born
<1>4. Saving(h) => Harmless(h)  BY <1>1 DEF Saving, Harmless
<1> QED  BY <1>2, <1>3, <1>4, MovedTask

LEMMA CallReview ==
    ASSUME ReviewInv, TypeInv', NEW t \in Tasks, Call(t)
    PROVE  ReviewInv'
<1>r. \A r \in Runs : run[r] \in RunDoc  BY DEF ReviewInv, TypeInv, TypeOK
<1>v. \A r \in Runs : Reviewed(run[r])  BY AllReviewed DEF ReviewInv
<1>s. /\ DRAFT \in PayRollStatus /\ UNDER_REVIEW \in PayRollStatus
      /\ PENDING_FINANCE_APPROVAL \in PayRollStatus /\ REJECTED \in PayRollStatus
      /\ APPROVED \in PayRollStatus /\ LOCKED \in PayRollStatus /\ UNLOCKED \in PayRollStatus
  BY DEF PayRollStatus
<1>i. /\ "idle" # "saveRun" /\ "saveRun" # "inspect"
  OBVIOUS
<1>1. ASSUME process(t)  PROVE ReviewInv'
  <2> DEFINE h == [Idle EXCEPT !.pc = "nextId"]
  <2>1. ~Saving(h)  BY DEF Idle, Saving
  <2> QED  BY <1>1, <2>1, NotSaving DEF process
<1>2. ASSUME NEW S \in Selections, calculateNew(t, S)  PROVE ReviewInv'
  <2> DEFINE h == [Idle EXCEPT !.pc = "nextId", !.then = "calculate", !.todo = S]
  <2>1. ~Saving(h)  BY DEF Idle, Saving
  <2> QED  BY <1>2, <2>1, NotSaving DEF calculateNew
<1>3. ASSUME generateDraft(t)  PROVE ReviewInv'
  <2> DEFINE h == [Idle EXCEPT !.pc = "nextId", !.then = "readRun", !.todo = Employees]
  <2>1. ~Saving(h)  BY DEF Idle, Saving
  <2> QED  BY <1>3, <2>1, NotSaving DEF generateDraft
<1>4. ASSUME NEW r \in Runs, NEW S \in Selections, calculate(t, r, S)  PROVE ReviewInv'
  <2> DEFINE h == [Idle EXCEPT !.pc = "calculate", !.rid = r, !.seen = run[r], !.todo = S]
  <2>1. ~Saving(h)  BY DEF Idle, Saving
  <2> QED  BY <1>4, <2>1, NotSaving DEF calculate
<1>5. ASSUME NEW r \in Runs, reviewApprove(t, r)  PROVE ReviewInv'
  <2>1. Born(r)  BY <1>5, <1>s, NotAbsent DEF reviewApprove, Born
  <2>2. CASE /\ run[r].status = DRAFT
             /\ Decide(t, r, [run[r] EXCEPT !.status = UNDER_REVIEW, !.managerApproval = TRUE])
    <3> DEFINE upd == [run[r] EXCEPT !.status = UNDER_REVIEW, !.managerApproval = TRUE]
    <3>1. /\ upd \in RunDoc /\ upd.runId = run[r].runId /\ upd.status = UNDER_REVIEW
          /\ upd.managerApproval /\ upd.financeApproval = run[r].financeApproval
      BY <1>r, <1>s DEF RunDoc
    <3> HIDE DEF upd
    <3>2. Reviewed(upd) /\ KeepsDates(run[r], upd)
      BY <3>1 DEF Reviewed, Dated, KeepsDates
    <3> QED  BY <2>1, <2>2, <3>1, <3>2, <1>s, NotAbsent, HandleReview DEF Decide, upd
  <2>3. CASE /\ run[r].status = UNDER_REVIEW
             /\ Decide(t, r, [run[r] EXCEPT !.status = PENDING_FINANCE_APPROVAL,
                                            !.financeApproval = TRUE])
    <3> DEFINE upd == [run[r] EXCEPT !.status = PENDING_FINANCE_APPROVAL,
                                     !.financeApproval = TRUE]
    <3>1. /\ upd \in RunDoc /\ upd.runId = run[r].runId
          /\ upd.status = PENDING_FINANCE_APPROVAL
          /\ upd.financeApproval /\ upd.managerApproval = run[r].managerApproval
      BY <1>r, <1>s DEF RunDoc
    <3> HIDE DEF upd
    <3>2. Reviewed(upd) /\ KeepsDates(run[r], upd)
      BY <3>1 DEF Reviewed, Dated, KeepsDates
    <3> QED  BY <2>1, <2>3, <3>1, <3>2, <1>s, NotAbsent, HandleReview DEF Decide, upd
  <2>4. CASE /\ run[r].status = PENDING_FINANCE_APPROVAL
             /\ Decide(t, r, [run[r] EXCEPT !.status = APPROVED, !.paid = TRUE])
    <3> DEFINE upd == [run[r] EXCEPT !.status = APPROVED, !.paid = TRUE]
    <3>1. /\ upd \in RunDoc /\ upd.runId = run[r].runId /\ upd.status = APPROVED
          /\ upd.financeApproval = run[r].financeApproval
          /\ upd.managerApproval = run[r].managerApproval
      BY <1>r, <1>s DEF RunDoc
    <3>2. Dated(run[r])  BY <1>v, <2>4 DEF Reviewed, BeyondReview
    <3> HIDE DEF upd
    <3>3. Reviewed(upd) /\ KeepsDates(run[r], upd)
      BY <3>1, <3>2 DEF Reviewed, Dated, KeepsDates
    <3> QED  BY <2>1, <2>4, <3>1, <3>3, <1>s, NotAbsent, HandleReview DEF Decide, upd
  <2> QED  BY <1>5, <2>2, <2>3, <2>4 DEF reviewApprove
\* The remaining decisions set a status, and the dates of the run on file do.
<1>d. ASSUME NEW r \in Runs, NEW s \in PayRollStatus, NEW then, then # "saveRun",
             Handle(t, r, "saveRun", then, [run[r] EXCEPT !.status = s]),
             Born(r), s \in {REJECTED, UNDER_REVIEW} \/ BeyondReview(run[r])
      PROVE  ReviewInv'
  <2> DEFINE upd == [run[r] EXCEPT !.status = s]
  <2>1. /\ upd \in RunDoc /\ upd.runId = run[r].runId /\ upd.status = s
        /\ upd.financeApproval = run[r].financeApproval
        /\ upd.managerApproval = run[r].managerApproval /\ upd.paid = run[r].paid
    BY <1>r DEF RunDoc
  <2> HIDE DEF upd
  <2>2. BeyondReview(upd) => BeyondReview(run[r])
    BY <1>d, <2>1 DEF BeyondReview, Finalized, REJECTED, UNDER_REVIEW, APPROVED, LOCKED,
                      UNLOCKED, PENDING_FINANCE_APPROVAL
  <2>3. Reviewed(upd) /\ KeepsDates(run[r], upd)
    BY <1>v, <2>1, <2>2 DEF Reviewed, Dated, KeepsDates
  <2> QED  BY <1>d, <2>1, <2>3, NotAbsent, HandleReview DEF upd
<1>6. ASSUME NEW r \in Runs, reviewReject(t, r)  PROVE ReviewInv'
  BY <1>6, <1>d, <1>s, <1>i DEF reviewReject, Decide
<1>7. ASSUME NEW r \in Runs, NEW b \in BOOLEAN, NEW n \in Totals \cup {run[r].total},
             editPayrollRun(t, r, n, b)
      PROVE ReviewInv'
  <2> DEFINE upd == [run[r] EXCEPT !.status = DRAFT, !.total = n, !.here = b]
  <2>1. n \in Nat  BY <1>r, PayrollAssumption DEF RunDoc
  <2>2. Born(r)  BY <1>7, <1>s, NotAbsent DEF editPayrollRun, Born
  <2>3. /\ upd \in RunDoc /\ upd.runId = run[r].runId /\ upd.status = DRAFT
        /\ upd.financeApproval = run[r].financeApproval
        /\ upd.managerApproval = run[r].managerApproval /\ upd.paid = run[r].paid
    BY <1>r, <1>s, <2>1 DEF RunDoc
  <2> HIDE DEF upd
  <2>4. BeyondReview(upd) => BeyondReview(run[r])
    BY <2>3 DEF BeyondReview, Finalized, DRAFT, APPROVED, LOCKED, UNLOCKED,
                PENDING_FINANCE_APPROVAL
  <2>5. Reviewed(upd) /\ KeepsDates(run[r], upd)
    BY <1>v, <2>3, <2>4 DEF Reviewed, Dated, KeepsDates
  <2> QED  BY <1>7, <2>2, <2>3, <2>5, <1>s, NotAbsent, HandleReview
            DEF editPayrollRun, Decide, upd
<1>8. ASSUME NEW r \in Runs, sendForManagerApproval(t, r)  PROVE ReviewInv'
  <2> DEFINE upd == [run[r] EXCEPT !.status = UNDER_REVIEW]
  <2>1. /\ upd \in RunDoc /\ upd.runId = run[r].runId /\ upd.status = UNDER_REVIEW
        /\ upd.financeApproval = run[r].financeApproval
        /\ upd.managerApproval = run[r].managerApproval /\ upd.paid = run[r].paid
    BY <1>r, <1>s DEF RunDoc
  <2>2. Born(r)  BY <1>8, <1>s, NotAbsent DEF sendForManagerApproval, Born
  <2> HIDE DEF upd
  <2>3. BeyondReview(upd) => BeyondReview(run[r])
    BY <2>1 DEF BeyondReview, Finalized, UNDER_REVIEW, APPROVED, LOCKED, UNLOCKED,
                PENDING_FINANCE_APPROVAL
  <2>4. Reviewed(upd) /\ KeepsDates(run[r], upd)
    BY <1>v, <2>1, <2>3 DEF Reviewed, Dated, KeepsDates
  <2> QED  BY <1>8, <2>1, <2>2, <2>4, <1>s, NotAbsent, HandleReview
            DEF sendForManagerApproval, upd
<1>9. ASSUME NEW r \in Runs, sendForFinanceApproval(t, r)  PROVE ReviewInv'
  <2> DEFINE upd == InFinance(run[r])
  <2>1. /\ upd \in RunDoc /\ upd.runId = run[r].runId
        /\ upd.status = PENDING_FINANCE_APPROVAL
        /\ upd.managerApproval /\ upd.financeApproval = run[r].financeApproval
    BY <1>r, <1>s DEF RunDoc, InFinance
  <2>2. Born(r)  BY <1>9, <1>s, NotAbsent DEF sendForFinanceApproval, Born
  <2> HIDE DEF upd
  <2>3. Reviewed(upd) /\ KeepsDates(run[r], upd)
    BY <2>1 DEF Reviewed, Dated, KeepsDates
  <2> QED  BY <1>9, <2>1, <2>2, <2>3, <1>s, NotAbsent, HandleReview
            DEF sendForFinanceApproval, Decide, upd
<1>10. ASSUME NEW r \in Runs, managerReviewAndApprove(t, r)  PROVE ReviewInv'
  <2>1. Born(r)  BY <1>10, <1>s, NotAbsent DEF managerReviewAndApprove, Born
  <2> QED  BY <1>10, <2>1, NoDocType, HandleReview DEF managerReviewAndApprove
<1>11. ASSUME NEW r \in Runs, finalApprovalByFinance(t, r)  PROVE ReviewInv'
  <2> DEFINE upd == [run[r] EXCEPT !.status = APPROVED, !.paid = TRUE, !.financeApproval = TRUE]
  <2>1. /\ upd \in RunDoc /\ upd.runId = run[r].runId /\ upd.status = APPROVED
        /\ upd.financeApproval /\ upd.managerApproval = run[r].managerApproval
    BY <1>r, <1>s DEF RunDoc
  <2>2. Born(r)  BY <1>11, <1>s, NotAbsent DEF finalApprovalByFinance, Born
  <2> HIDE DEF upd
  <2>3. Reviewed(upd) /\ KeepsDates(run[r], upd)
    BY <2>1 DEF Reviewed, Dated, KeepsDates
  <2> QED  BY <1>11, <2>1, <2>2, <2>3, <1>s, NotAbsent, HandleReview
            DEF finalApprovalByFinance, upd
<1>12. ASSUME NEW r \in Runs, lockPayroll(t, r)  PROVE ReviewInv'
  <2>1. Born(r) /\ BeyondReview(run[r])
    BY <1>12, <1>s, NotAbsent DEF lockPayroll, Born, BeyondReview, Finalized
  <2> QED  BY <1>12, <2>1, <1>d, <1>s, <1>i DEF lockPayroll, Decide
<1>13. ASSUME NEW r \in Runs, unlockPayroll(t, r)  PROVE ReviewInv'
  <2>1. Born(r) /\ BeyondReview(run[r])
    BY <1>13, <1>s, NotAbsent DEF unlockPayroll, Born, BeyondReview, Finalized
  <2> QED  BY <1>13, <2>1, <1>d, <1>s, <1>i DEF unlockPayroll, Decide
<1>14. ASSUME NEW r \in Runs, callPayslips(t, r)  PROVE ReviewInv'
  <2> DEFINE h == [Idle EXCEPT !.pc = "batch", !.rid = r]
  <2>1. ~Saving(h)  BY DEF Idle, Saving
  <2> QED  BY <1>14, <2>1, NotSaving DEF callPayslips
<1>15. ASSUME NEW r \in Runs, NEW e \in Employees, callPayslip(t, r, e)  PROVE ReviewInv'
  <2> DEFINE h == [Idle EXCEPT !.pc = "payslip", !.rid = r, !.todo = {e}]
  <2>1. ~Saving(h)  BY DEF Idle, Saving
  <2> QED  BY <1>15, <2>1, NotSaving DEF callPayslip
<1> QED  BY <1>1, <1>2, <1>3, <1>4, <1>5, <1>6, <1>7, <1>8, <1>9, <1>10, <1>11, <1>12,
            <1>13, <1>14, <1>15 DEF Call

\* One save of a run that keeps its id.
LEMMA SaveGrows ==
    ASSUME ReviewInv, NEW r \in Runs, NEW read \in RunDoc, NEW upd \in RunDoc,
           run' = [run EXCEPT ![r] = Saved(run[r], read, upd)],
           upd.runId = read.runId,
           \/ /\ upd.status = read.status /\ upd.paid = read.paid
              /\ upd.managerApproval = read.managerApproval
              /\ upd.financeApproval = read.financeApproval
           \/ /\ Born(r) /\ upd.status # "absent" /\ Reviewed(upd)
              /\ KeepsDates(read, upd) /\ KeepsDates(read, run[r])
    PROVE  RunsGrow
<1> DEFINE s == Saved(run[r], read, upd)
<1>r. run \in [Runs -> RunDoc] /\ run[r] \in RunDoc  BY DEF ReviewInv, TypeInv, TypeOK
<1>v. \A q \in Runs : Reviewed(run[q])  BY AllReviewed DEF ReviewInv
<1>1. /\ s.runId = run[r].runId
      /\ s.status = IF upd.status # read.status THEN upd.status ELSE run[r].status
  BY <1>r, SavedRun
<1>2. Reviewed(s) /\ KeepsDates(run[r], s)
  <2>1. CASE /\ upd.status = read.status /\ upd.paid = read.paid
             /\ upd.managerApproval = read.managerApproval
             /\ upd.financeApproval = read.financeApproval
    <3>1. /\ s.status = run[r].status /\ s.paid = run[r].paid
          /\ s.managerApproval = run[r].managerApproval
          /\ s.financeApproval = run[r].financeApproval
      BY <1>r, <2>1, SavedRun
    <3> HIDE DEF s
    <3> QED  BY <3>1, <1>v DEF Reviewed, BeyondReview, Dated, KeepsDates
  <2>2. CASE /\ Born(r) /\ upd.status # "absent" /\ Reviewed(upd)
             /\ KeepsDates(read, upd) /\ KeepsDates(read, run[r])
    BY <1>r, <1>v, <2>2, SavedReviewed
  <2> QED  BY <2>1, <2>2
<1>3. s.status # "absent" <=> run[r].status # "absent"  BY <1>1 DEF Born
<1>4. run'[r] = s /\ \A q \in Runs : q # r => run'[q] = run[q]  BY <1>r
<1> HIDE DEF s
<1>5. \A q \in Runs : Born(q) => Born(q)' /\ KeepsDates(run[q], run'[q])
  BY <1>2, <1>3, <1>4 DEF Born, KeepsDates
<1>6. NoPaymentWithoutReview'
  <2>1. \A q \in Runs : Reviewed(run'[q])  BY <1>2, <1>4, <1>v
  <2> QED  BY <2>1 DEF NoPaymentWithoutReview, Reviewed, BeyondReview, Dated
<1>7. RunIdUnique'
  <2>1. \A q \in Runs : run'[q].runId = run[q].runId /\ (Born(q)' <=> Born(q))
    BY <1>1, <1>3, <1>4 DEF Born
  <2>2. RunIdUnique  BY DEF ReviewInv
  <2> QED  BY <2>1, <2>2 DEF RunIdUnique, BornRuns
<1> QED  BY <1>5, <1>6, <1>7 DEF RunsGrow

LEMMA StepReview ==
    ASSUME ReviewInv, TypeInv', NEW t \in Tasks, Step(t)
    PROVE  ReviewInv'
<1>h. task[t] \in Frame /\ WellFormed(task[t])  BY DEF ReviewInv, TypeInv, TypeOK
<1>r. \A r \in Runs : run[r] \in RunDoc  BY DEF ReviewInv, TypeInv, TypeOK
<1>i. Saving(task[t]) => Harmless(task[t]) /\ OnFile(task[t], run)
  BY DEF ReviewInv, SavingInv
<1>1. ASSUME generatePayrollRunId(t)  PROVE ReviewInv'
  <2> DEFINE h(n) == [task[t] EXCEPT !.pc = "insertRun", !.runId = n + 1]
  <2>1. PICK n \in {run[r].runId : r \in BornRuns} \cup {0} : Continue(t, h(n))
    BY <1>1 DEF generatePayrollRunId
  <2>2. ~Saving(h(n))  BY <1>h DEF Frame, Saving
  <2> QED  BY <1>1, <2>1, <2>2, NotSaving DEF generatePayrollRunId
<1>2. ASSUME NEW r \in Runs, insertRun(t, r)  PROVE ReviewInv'
  <2> DEFINE id == task[t].runId
             doc == NewRun(id)
             h == [task[t] EXCEPT !.pc = task[t].then, !.rid = r, !.seen = doc]
  <2>1. /\ doc.runId = id /\ doc.status = DRAFT /\ ~doc.paid
        /\ doc.managerApproval = FALSE /\ doc.financeApproval = FALSE
    BY DEF NewRun, NoDoc
  <2>2. run' = [run EXCEPT ![r] = doc] /\ ~Born(r)
        /\ \A q \in BornRuns : run[q].runId # id
    BY <1>2 DEF insertRun
  <2> HIDE DEF doc, id
  <2>3. run'[r] = doc /\ \A q \in Runs : q # r => run'[q] = run[q]
    BY <2>2 DEF ReviewInv, TypeInv, TypeOK
  <2>4. \A q \in Runs : Born(q) => Born(q)' /\ KeepsDates(run[q], run'[q])
    BY <2>2, <2>3 DEF Born, KeepsDates
  <2>5. NoPaymentWithoutReview'
    <3>1. Reviewed(doc)
      BY <2>1 DEF Reviewed, BeyondReview, Finalized, DRAFT, APPROVED, LOCKED, UNLOCKED,
                  PENDING_FINANCE_APPROVAL
    <3>2. \A q \in Runs : Reviewed(run'[q])  BY <2>3, <3>1, AllReviewed DEF ReviewInv
    <3> QED  BY <3>2 DEF NoPaymentWithoutReview, Reviewed, BeyondReview, Dated
  <2>6. RunIdUnique'
    <3>1. \A q \in Runs \ {r} : run'[q].runId = run[q].runId /\ (Born(q)' <=> Born(q))
      BY <2>3 DEF Born
    <3>2. \A q \in Runs \ {r} : Born(q)' => run'[q].runId # run'[r].runId
      BY <2>1, <2>2, <2>3, <3>1 DEF BornRuns
    <3>3. RunIdUnique  BY DEF ReviewInv
    <3>4. ASSUME NEW q \in Runs, NEW s \in Runs, Born(q)', Born(s)',
                 run'[q].runId = run'[s].runId
          PROVE  q = s
      <4>1. CASE q # r /\ s # r  BY <3>1, <3>3, <3>4, <4>1 DEF RunIdUnique, BornRuns
      <4>2. CASE q = r \/ s = r  BY <3>2, <3>4, <4>2
      <4> QED  BY <4>1, <4>2
    <3> QED  BY <3>4 DEF RunIdUnique, BornRuns
  <2>7. RunsGrow  BY <2>4, <2>5, <2>6 DEF RunsGrow
  <2>8. task[t].then \in {"idle", "calculate", "readRun"}
    BY <1>2, <1>h DEF insertRun, WellFormed
  <2>9. ~Saving(h)  BY <1>h, <2>8 DEF Frame, Saving
  <2>10. Continue(t, Idle) \/ Continue(t, h)  BY <1>2 DEF insertRun, Return, doc, id
  <2> QED  BY <2>7, <2>9, <2>10, IdleNotSaving, GrowingRuns
<1>3. ASSUME insertDuplicate(t)  PROVE ReviewInv'
  BY <1>3, ReturnReview DEF insertDuplicate
<1>4. ASSUME readRun(t)  PROVE ReviewInv'
  <2> DEFINE h == [task[t] EXCEPT !.pc = "calculate", !.seen = run[task[t].rid]]
  <2>1. ~Saving(h)  BY <1>h DEF Frame, Saving
  <2>2. (Return(t) \/ Continue(t, h)) /\ OnlyTask  BY <1>4 DEF readRun
  <2> QED  BY <2>1, <2>2, ReturnReview, NotSaving
<1>5. ASSUME NEW e \in Employees, calculateEmployee(t, e)  PROVE ReviewInv'
  <2> DEFINE docs == detail[task[t].rid][e]
             h1 == [task[t] EXCEPT !.todo = @ \ {e}]
             h2 == [task[t] EXCEPT !.pc = "saveDetail", !.eid = e, !.out = pay[e], !.idx = 0]
             h3(i) == [task[t] EXCEPT !.pc = "saveDetail", !.eid = e, !.out = pay[e],
                                      !.base = docs[i], !.idx = i]
  <2>1. ~Saving(h1) /\ ~Saving(h2)  BY <1>5, <1>h DEF calculateEmployee, Frame, Saving
  <2>2. \A i \in DOMAIN docs : ~Saving(h3(i))  BY <1>h DEF Frame, Saving
  <2>3. Continue(t, h1) \/ Continue(t, h2) \/ \E i \in DOMAIN docs : Continue(t, h3(i))
    BY <1>5 DEF calculateEmployee
  <2>4. OnlyTask  BY <1>5 DEF calculateEmployee
  <2> HIDE DEF h1, h2, h3, docs
  <2> QED  BY <2>1, <2>2, <2>3, <2>4, NotSaving
<1>6. ASSUME saveDetail(t)  PROVE ReviewInv'
  <2> DEFINE h == [task[t] EXCEPT !.pc = "calculate", !.todo = @ \ {task[t].eid},
                                  !.sum = @ + task[t].out.net]
  <2>1. ~Saving(h)  BY <1>h DEF Frame, Saving
  <2>2. Continue(t, h) /\ run' = run  BY <1>6 DEF saveDetail
  <2> QED  BY <2>1, <2>2, SameRuns, GrowingRuns
<1>7. ASSUME saveTotals(t)  PROVE ReviewInv'
  <2> DEFINE r == task[t].rid
             read == task[t].seen
             upd == [read EXCEPT !.total = task[t].sum]
  <2>1. r \in Runs /\ read \in RunDoc /\ task[t].sum \in Nat
    BY <1>7, <1>h DEF saveTotals, WellFormed, Frame
  <2>2. /\ upd \in RunDoc /\ upd.runId = read.runId
        /\ upd.status = read.status /\ upd.paid = read.paid
        /\ upd.managerApproval = read.managerApproval
        /\ upd.financeApproval = read.financeApproval
    BY <2>1 DEF RunDoc
  <2>3. run' = [run EXCEPT ![r] = Saved(run[r], read, upd)] /\ Continue(t, Idle)
    BY <1>7 DEF saveTotals, Return
  <2> HIDE DEF upd, r, read
  <2>4. RunsGrow  BY <2>1, <2>2, <2>3, SaveGrows
  <2> QED  BY <2>3, <2>4, IdleNotSaving, GrowingRuns
<1>8. ASSUME NEW before \in [Employees -> Earlier], detectPayrollIrregularities(t, before)
      PROVE  ReviewInv'
  <2> DEFINE h == [task[t] EXCEPT !.pc = task[t].then, !.then = "idle"]
  <2>1. /\ h.pc = task[t].then /\ h.upd = task[t].upd /\ h.seen = task[t].seen
        /\ h.rid = task[t].rid
    BY <1>h DEF Frame
  <2>2. (Return(t) \/ Continue(t, h)) /\ OnlyTask  BY <1>8 DEF detectPayrollIrregularities
  <2>3. task[t].pc = "inspect" /\ task[t].then \in {"saveRun", "forward"}
    BY <1>8, <1>h DEF detectPayrollIrregularities, WellFormed
  <2> HIDE DEF h
  <2>4. Saving(h) => Harmless(h) /\ OnFile(h, run)
    BY <1>i, <2>1, <2>3 DEF Saving, Harmless, OnFile
  <2> QED  BY <2>2, <2>4, ReturnReview, MovedTask
<1>9. ASSUME forwardToFinance(t)  PROVE ReviewInv'
  <2> DEFINE r == task[t].rid
             upd == InFinance(run[r])
             h == [task[t] EXCEPT !.pc = "saveRun", !.seen = run[r], !.upd = upd]
  <2>1. r \in Runs  BY <1>9, <1>h DEF forwardToFinance, WellFormed
  <2>2. h.upd = upd /\ h.seen = run[r] /\ h.rid = r  BY <1>h DEF Frame
  <2>3. /\ upd.runId = run[r].runId /\ upd.status = PENDING_FINANCE_APPROVAL
        /\ upd.managerApproval /\ upd.financeApproval = run[r].financeApproval
    BY <1>r, <2>1 DEF RunDoc, InFinance
  <2>4. Return(t) \/ (run[r].status = UNDER_REVIEW /\ Continue(t, h))
    BY <1>9 DEF forwardToFinance
  <2> HIDE DEF h, upd
  <2>5. Harmless(h)
    BY <2>2, <2>3 DEF Harmless, Reviewed, Dated, KeepsDates, PENDING_FINANCE_APPROVAL
  <2>6. run[r].status = UNDER_REVIEW => OnFile(h, run)
    BY <2>2 DEF OnFile, KeepsDates, UNDER_REVIEW
  <2> QED  BY <1>9, <2>4, <2>5, <2>6, ReturnReview, MovedTask DEF forwardToFinance
<1>10. ASSUME saveRun(t)  PROVE ReviewInv'
  <2> DEFINE r == task[t].rid
             h == [task[t] EXCEPT !.pc = task[t].then]
  <2>1. r \in Runs /\ task[t].then \in {"idle", "distribute"}
    BY <1>10, <1>h DEF saveRun, WellFormed
  <2>2. task[t].seen \in RunDoc /\ task[t].upd \in RunDoc  BY <1>h DEF Frame
  <2>3. run' = [run EXCEPT ![r] = Saved(run[r], task[t].seen, task[t].upd)]
    BY <1>10 DEF saveRun
  <2>4. Harmless(task[t]) /\ OnFile(task[t], run)
    <3>1. task[t].pc = "saveRun"  BY <1>10 DEF saveRun
    <3>2. Saving(task[t])  BY <3>1 DEF Saving
    <3> QED  BY <3>2, <1>i
  <2>5. RunsGrow
    BY <2>1, <2>2, <2>3, <2>4, SaveGrows DEF Harmless, OnFile, Born
  <2>6. ~Saving(h)  BY <1>h, <2>1 DEF Frame, Saving
  <2>7. Continue(t, Idle) \/ Continue(t, h)  BY <1>10 DEF saveRun, Return
  <2> QED  BY <2>5, <2>6, <2>7, IdleNotSaving, GrowingRuns
<1>11. ASSUME generateAndDistribute(t)  PROVE ReviewInv'
  <2> DEFINE h == [task[t] EXCEPT !.pc = "batch"]
  <2>1. ~Saving(h)  BY <1>h DEF Frame, Saving
  <2>2. (Return(t) \/ Continue(t, h)) /\ OnlyTask  BY <1>11 DEF generateAndDistribute
  <2> QED  BY <2>1, <2>2, ReturnReview, NotSaving
<1>12. ASSUME generatePayslipsForPayrollRun(t)  PROVE ReviewInv'
  <2> DEFINE S == {e \in Employees : detail[task[t].rid][e] # <<>>}
             h == [task[t] EXCEPT !.pc = "payslip", !.todo = S]
  <2>1. ~Saving(h)  BY <1>h DEF Frame, Saving
  <2>2. (Return(t) \/ Continue(t, h)) /\ OnlyTask
    BY <1>12 DEF generatePayslipsForPayrollRun
  <2> QED  BY <2>1, <2>2, ReturnReview, NotSaving
<1>13. ASSUME NEW e \in Employees, generatePayslip(t, e)  PROVE ReviewInv'
  <2> DEFINE docs == slip[task[t].rid][e]
             h1 == [task[t] EXCEPT !.todo = @ \ {e}]
             h2(i) == [task[t] EXCEPT !.pc = "saveSlip", !.eid = e, !.out = pay[e], !.idx = i]
  <2>1. ~Saving(h1) /\ \A i : ~Saving(h2(i))
    BY <1>13, <1>h DEF generatePayslip, Frame, Saving
  <2>2. Continue(t, h1) \/ Continue(t, h2(0)) \/ \E i \in DOMAIN docs : Continue(t, h2(i))
    BY <1>13 DEF generatePayslip
  <2>3. OnlyTask  BY <1>13 DEF generatePayslip
  <2> HIDE DEF h1, h2, docs
  <2> QED  BY <2>1, <2>2, <2>3, NotSaving
<1>14. ASSUME saveSlip(t)  PROVE ReviewInv'
  <2> DEFINE h == [task[t] EXCEPT !.pc = "payslip", !.todo = @ \ {task[t].eid}]
  <2>1. ~Saving(h)  BY <1>h DEF Frame, Saving
  <2>2. Continue(t, h) /\ run' = run  BY <1>14 DEF saveSlip
  <2> QED  BY <2>1, <2>2, SameRuns, GrowingRuns
<1>15. ASSUME payslipsDone(t)  PROVE ReviewInv'
  BY <1>15, ReturnReview DEF payslipsDone
<1> QED  BY <1>1, <1>2, <1>3, <1>4, <1>5, <1>6, <1>7, <1>8, <1>9, <1>10, <1>11, <1>12,
            <1>13, <1>14, <1>15 DEF Step

LEMMA InitReview == Init => ReviewInv
<1> SUFFICES ASSUME Init  PROVE ReviewInv
  OBVIOUS
<1>1. \A r \in Runs : run[r] = NoDoc  BY DEF Init
<1>2. NoPaymentWithoutReview
  <2>1. NoDoc.paid = FALSE /\ NoDoc.status = "absent"  BY DEF NoDoc
  <2>2. "absent" \notin Finalized \cup {PENDING_FINANCE_APPROVAL}
    BY DEF Finalized, APPROVED, LOCKED, UNLOCKED, PENDING_FINANCE_APPROVAL
  <2> QED  BY <1>1, <2>1, <2>2 DEF NoPaymentWithoutReview
<1>3. RunIdUnique  BY <1>1 DEF RunIdUnique, BornRuns, Born, NoDoc
<1>4. SavingInv
  <2>1. \A t \in Tasks : task[t] = Idle  BY DEF Init
  <2> QED  BY <2>1, IdleNotSaving DEF SavingInv
<1> QED  BY <1>2, <1>3, <1>4, InitType DEF ReviewInv

LEMMA NextReview == ReviewInv /\ [Next]_vars => ReviewInv'
<1> SUFFICES ASSUME ReviewInv, [Next]_vars  PROVE ReviewInv'
  OBVIOUS
<1>0. TypeInv'  BY NextType DEF ReviewInv
<1>s. ASSUME run' = run, task' = task  PROVE ReviewInv'
  BY <1>0, <1>s DEF ReviewInv, NoPaymentWithoutReview, RunIdUnique, BornRuns, Born, SavingInv
<1>1. CASE UNCHANGED vars  BY <1>1, <1>s DEF vars
<1>2. CASE inputsChange  BY <1>2, <1>s DEF inputsChange
<1>3. CASE restart
  <2>1. run' = run /\ \A t \in Tasks : task'[t] = Idle  BY <1>3 DEF restart, OnlyTask
  <2>2. SavingInv'  BY <2>1, IdleNotSaving DEF SavingInv
  <2> QED
    BY <1>0, <2>1, <2>2 DEF ReviewInv, NoPaymentWithoutReview, RunIdUnique, BornRuns, Born
<1> QED  BY <1>0, <1>1, <1>2, <1>3, CallReview, StepReview DEF Next

LEMMA ReviewInvariant == Spec => []ReviewInv
  BY InitReview, NextReview, PTL DEF Spec

\* However many calls overlap, by whichever of the routes they take a run from
\* draft to paid, and wherever the process dies: a run that is with finance,
\* approved or paid bears the date of an approval (reviewPayrollRun,
\* sendForFinanceApproval, finalApprovalByFinance).
THEOREM NothingPaidUnreviewed == Spec => []NoPaymentWithoutReview
<1>1. ReviewInv => NoPaymentWithoutReview  BY DEF ReviewInv
<1> QED  BY ReviewInvariant, <1>1, PTL

\* Computing the next run id and inserting it are two round trips, and still
\* no two runs share an id (generatePayrollRunId and the unique index); no
\* later save, however stale, renames a run.
THEOREM RunIdsUnique == Spec => []RunIdUnique
<1>1. ReviewInv => RunIdUnique  BY DEF ReviewInv
<1> QED  BY ReviewInvariant, <1>1, PTL

-----------------------------------------------------------------------------
(* Payslips.  The batch looks at the status of the run and then generates   *)
(* payslips one by one, while the run may be saved by others.  What stays   *)
(* is that the run is marked paid: no call that saves a run takes it back.  *)

PaidKept(h, docs) ==
    /\ Saving(h) => /\ h.seen.paid => h.upd.paid /\ docs[h.rid].paid
                    /\ h.upd.status = APPROVED => h.upd.paid
    /\ h.pc \in {"payslip", "saveSlip"} => docs[h.rid].paid

ApprovedArePaid ==
    \A r \in Runs : /\ run[r].status = APPROVED => run[r].paid
                    /\ run[r].paid => Born(r)

PaidInv ==
    /\ ReviewInv
    /\ ApprovedArePaid
    /\ PayslipsOnlyWhenPaid
    /\ \A t \in Tasks : PaidKept(task[t], run)

\* What a step may do to the runs.
PaidGrows == ApprovedArePaid' /\ \A r \in Runs : run[r].paid => run'[r].paid

LEMMA GrowingPaid ==
    ASSUME PaidInv, ReviewInv', PaidGrows, slip' = slip, NEW t \in Tasks, NEW h,
           Continue(t, h), PaidKept(h, run')
    PROVE  PaidInv'
<1>1. PayslipsOnlyWhenPaid'  BY DEF PaidInv, PayslipsOnlyWhenPaid, PaidGrows
<1>2. ASSUME NEW u \in Tasks  PROVE PaidKept(task'[u], run')
  <2>1. CASE u = t
    <3>1. task'[u] = h  BY <2>1 DEF Continue, PaidInv, ReviewInv, TypeInv, TypeOK
    <3> QED  BY <3>1
  <2>2. CASE u # t
    <3>1. task'[u] = task[u]  BY <2>2 DEF Continue, PaidInv, ReviewInv, TypeInv, TypeOK
    <3>2. PaidKept(task[u], run)  BY DEF PaidInv
    <3>3. Saving(task[u]) \/ task[u].pc \in {"payslip", "saveSlip"} => task[u].rid \in Runs
      BY DEF PaidInv, ReviewInv, TypeInv, WellFormed, Saving
    <3> QED  BY <3>1, <3>2, <3>3 DEF PaidKept, PaidGrows
  <2> QED  BY <2>1, <2>2
<1> QED  BY <1>1, <1>2 DEF PaidInv, PaidGrows

LEMMA SamePaid == PaidInv /\ run' = run => PaidGrows
  BY DEF PaidInv, PaidGrows, ApprovedArePaid, Born

LEMMA MovedPaid ==
    ASSUME PaidInv, ReviewInv', OnlyTask, NEW t \in Tasks, NEW h, Continue(t, h),
           PaidKept(h, run)
    PROVE  PaidInv'
<1>1. run' = run /\ slip' = slip  BY DEF OnlyTask
<1> QED  BY <1>1, SamePaid, GrowingPaid

LEMMA IdlePaid == ASSUME NEW docs  PROVE PaidKept(Idle, docs)
  BY IdleNotSaving DEF PaidKept, Idle

\* A call that neither saves a run nor generates a payslip.
LEMMA AwayPaid ==
    ASSUME PaidInv, ReviewInv', OnlyTask, NEW t \in Tasks, NEW h, Continue(t, h),
           h.pc \notin {"inspect", "saveRun", "payslip", "saveSlip"}
    PROVE  PaidInv'
<1>1. PaidKept(h, run)  BY DEF PaidKept, Saving
<1> QED  BY <1>1, MovedPaid

LEMMA ReturnPaid ==
    ASSUME PaidInv, ReviewInv', OnlyTask, NEW t \in Tasks, Return(t)
    PROVE  PaidInv'
  BY IdlePaid, MovedPaid DEF Return

LEMMA HandlePaid ==
    ASSUME PaidInv, ReviewInv', NEW t \in Tasks, NEW r \in Runs, NEW upd \in RunDoc,
           NEW pc, NEW then, Handle(t, r, pc, then, upd),
           pc \in {"inspect", "saveRun"},
           \/ pc = "inspect" /\ then # "saveRun"
           \/ (run[r].paid => upd.paid) /\ (upd.status = APPROVED => upd.paid)
    PROVE  PaidInv'
<1> DEFINE h == [Idle EXCEPT !.pc = pc, !.then = then, !.rid = r, !.seen = run[r], !.upd = upd]
<1>1. /\ h.pc = pc /\ h.then = then /\ h.rid = r
      /\ h.seen = run[r] /\ h.upd = upd
  BY IdleType DEF Frame
<1>2. Continue(t, h) /\ OnlyTask  BY DEF Handle
<1> HIDE DEF h
<1>3. PaidKept(h, run)  BY <1>1 DEF PaidKept, Saving
<1> QED  BY <1>2, <1>3, MovedPaid

LEMMA CallPaid ==
    ASSUME "payslip" \notin Ops, PaidInv, ReviewInv', NEW t \in Tasks, Call(t)
    PROVE  PaidInv'
<1>r. \A r \in Runs : run[r] \in RunDoc  BY DEF PaidInv, ReviewInv, TypeInv, TypeOK
<1>s. /\ DRAFT \in PayRollStatus /\ UNDER_REVIEW \in PayRollStatus
      /\ PENDING_FINANCE_APPROVAL \in PayRollStatus /\ REJECTED \in PayRollStatus
      /\ APPROVED \in PayRollStatus /\ LOCKED \in PayRollStatus /\ UNLOCKED \in PayRollStatus
  BY DEF PayRollStatus
<1>n. APPROVED \notin {DRAFT, UNDER_REVIEW, PENDING_FINANCE_APPROVAL, REJECTED, LOCKED, UNLOCKED}
  BY DEF APPROVED, DRAFT, UNDER_REVIEW, PENDING_FINANCE_APPROVAL, REJECTED, LOCKED, UNLOCKED
<1>1. ASSUME process(t)  PROVE PaidInv'
  <2>1. [Idle EXCEPT !.pc = "nextId"].pc = "nextId"  BY DEF Idle
  <2> QED  BY <1>1, <2>1, AwayPaid DEF process
<1>2. ASSUME NEW S \in Selections, calculateNew(t, S)  PROVE PaidInv'
  <2> DEFINE h == [Idle EXCEPT !.pc = "nextId", !.then = "calculate", !.todo = S]
  <2>1. h.pc = "nextId"  BY DEF Idle
  <2> QED  BY <1>2, <2>1, AwayPaid DEF calculateNew
<1>3. ASSUME generateDraft(t)  PROVE PaidInv'
  <2> DEFINE h == [Idle EXCEPT !.pc = "nextId", !.then = "readRun", !.todo = Employees]
  <2>1. h.pc = "nextId"  BY DEF Idle
  <2> QED  BY <1>3, <2>1, AwayPaid DEF generateDraft
<1>4. ASSUME NEW r \in Runs, NEW S \in Selections, calculate(t, r, S)  PROVE PaidInv'
  <2> DEFINE h == [Idle EXCEPT !.pc = "calculate", !.rid = r, !.seen = run[r], !.todo = S]
  <2>1. h.pc = "calculate"  BY DEF Idle
  <2> QED  BY <1>4, <2>1, AwayPaid DEF calculate
\* A decision that sets the status and leaves the payment as it is.
<1>d. ASSUME NEW r \in Runs, NEW upd \in RunDoc, NEW pc \in {"inspect", "saveRun"}, NEW then,
             Handle(t, r, pc, then, upd), upd.paid = run[r].paid, upd.status # APPROVED
      PROVE  PaidInv'
  BY <1>d, HandlePaid
\* A decision that pays.
<1>p. ASSUME NEW r \in Runs, NEW upd \in RunDoc, NEW then,
             Handle(t, r, "saveRun", then, upd), upd.paid
      PROVE  PaidInv'
  BY <1>p, HandlePaid
<1>5. ASSUME NEW r \in Runs, reviewApprove(t, r)  PROVE PaidInv'
  <2> DEFINE u1 == [run[r] EXCEPT !.status = UNDER_REVIEW, !.managerApproval = TRUE]
             u2 == [run[r] EXCEPT !.status = PENDING_FINANCE_APPROVAL, !.financeApproval = TRUE]
             u3 == [run[r] EXCEPT !.status = APPROVED, !.paid = TRUE]
  <2>1. u1 \in RunDoc /\ u1.paid = run[r].paid /\ u1.status = UNDER_REVIEW
    BY <1>r, <1>s DEF RunDoc
  <2>2. u2 \in RunDoc /\ u2.paid = run[r].paid /\ u2.status = PENDING_FINANCE_APPROVAL
    BY <1>r, <1>s DEF RunDoc
  <2>3. u3 \in RunDoc /\ u3.paid  BY <1>r, <1>s DEF RunDoc
  <2>4. \E u \in {u1, u2, u3} : Handle(t, r, "saveRun", "idle", u)
    BY <1>5 DEF reviewApprove, Decide
  <2> HIDE DEF u1, u2, u3
  <2> QED  BY <2>1, <2>2, <2>3, <2>4, <1>n, <1>d, <1>p
<1>e. ASSUME NEW r \in Runs, NEW s \in PayRollStatus, NEW pc \in {"inspect", "saveRun"}, NEW then,
             s # APPROVED, Handle(t, r, pc, then, [run[r] EXCEPT !.status = s])
      PROVE  PaidInv'
  <2> DEFINE upd == [run[r] EXCEPT !.status = s]
  <2>1. upd \in RunDoc /\ upd.paid = run[r].paid /\ upd.status = s  BY <1>r DEF RunDoc
  <2> HIDE DEF upd
  <2> QED  BY <1>e, <2>1, <1>d DEF upd
<1>6. ASSUME NEW r \in Runs, reviewReject(t, r)  PROVE PaidInv'
  BY <1>6, <1>e, <1>s, <1>n DEF reviewReject, Decide
<1>7. ASSUME NEW r \in Runs, NEW b \in BOOLEAN, NEW n \in Totals \cup {run[r].total},
             editPayrollRun(t, r, n, b)
      PROVE PaidInv'
  <2> DEFINE upd == [run[r] EXCEPT !.status = DRAFT, !.total = n, !.here = b]
  <2>1. n \in Nat  BY <1>r, PayrollAssumption DEF RunDoc
  <2>2. upd \in RunDoc /\ upd.paid = run[r].paid /\ upd.status = DRAFT
    BY <1>r, <1>s, <2>1 DEF RunDoc
  <2> HIDE DEF upd
  <2> QED  BY <1>7, <2>2, <1>d, <1>n DEF editPayrollRun, Decide, upd
<1>8. ASSUME NEW r \in Runs, sendForManagerApproval(t, r)  PROVE PaidInv'
  BY <1>8, <1>e, <1>s, <1>n DEF sendForManagerApproval
<1>9. ASSUME NEW r \in Runs, sendForFinanceApproval(t, r)  PROVE PaidInv'
  <2> DEFINE upd == InFinance(run[r])
  <2>1. upd \in RunDoc /\ upd.paid = run[r].paid /\ upd.status = PENDING_FINANCE_APPROVAL
    BY <1>r, <1>s DEF RunDoc, InFinance
  <2> HIDE DEF upd
  <2> QED  BY <1>9, <2>1, <1>d, <1>n DEF sendForFinanceApproval, Decide, upd
<1>10. ASSUME NEW r \in Runs, managerReviewAndApprove(t, r)  PROVE PaidInv'
  BY <1>10, NoDocType, HandlePaid DEF managerReviewAndApprove
<1>11. ASSUME NEW r \in Runs, finalApprovalByFinance(t, r)  PROVE PaidInv'
  <2> DEFINE upd == [run[r] EXCEPT !.status = APPROVED, !.paid = TRUE, !.financeApproval = TRUE]
  <2>1. upd \in RunDoc /\ upd.paid  BY <1>r, <1>s DEF RunDoc
  <2> HIDE DEF upd
  <2> QED  BY <1>11, <2>1, <1>p DEF finalApprovalByFinance, upd
<1>12. ASSUME NEW r \in Runs, lockPayroll(t, r)  PROVE PaidInv'
  BY <1>12, <1>e, <1>s, <1>n DEF lockPayroll, Decide
<1>13. ASSUME NEW r \in Runs, unlockPayroll(t, r)  PROVE PaidInv'
  BY <1>13, <1>e, <1>s, <1>n DEF unlockPayroll, Decide
<1>14. ASSUME NEW r \in Runs, callPayslips(t, r)  PROVE PaidInv'
  <2> DEFINE h == [Idle EXCEPT !.pc = "batch", !.rid = r]
  <2>1. h.pc = "batch"  BY DEF Idle
  <2> QED  BY <1>14, <2>1, AwayPaid DEF callPayslips
<1>15. ASSUME NEW r \in Runs, NEW e \in Employees, callPayslip(t, r, e)  PROVE PaidInv'
  BY <1>15 DEF callPayslip, Receives
<1> QED  BY <1>1, <1>2, <1>3, <1>4, <1>5, <1>6, <1>7, <1>8, <1>9, <1>10, <1>11, <1>12,
            <1>13, <1>14, <1>15 DEF Call

LEMMA StepPaid ==
    ASSUME PaidInv, ReviewInv', NEW t \in Tasks, Step(t)
    PROVE  PaidInv'
<1>h. task[t] \in Frame /\ WellFormed(task[t])
  BY DEF PaidInv, ReviewInv, TypeInv, TypeOK
<1>r. run \in [Runs -> RunDoc]  BY DEF PaidInv, ReviewInv, TypeInv, TypeOK
<1>k. PaidKept(task[t], run)  BY DEF PaidInv
<1>1. ASSUME generatePayrollRunId(t)  PROVE PaidInv'
  <2> DEFINE h(n) == [task[t] EXCEPT !.pc = "insertRun", !.runId = n + 1]
  <2>1. PICK n \in {run[r].runId : r \in BornRuns} \cup {0} : Continue(t, h(n))
    BY <1>1 DEF generatePayrollRunId
  <2>2. h(n).pc = "insertRun"  BY <1>h DEF Frame
  <2> QED  BY <1>1, <2>1, <2>2, AwayPaid DEF generatePayrollRunId
<1>2. ASSUME NEW r \in Runs, insertRun(t, r)  PROVE PaidInv'
  <2> DEFINE doc == NewRun(task[t].runId)
             h == [task[t] EXCEPT !.pc = task[t].then, !.rid = r, !.seen = doc]
  <2>1. doc.status = DRAFT /\ doc.paid = FALSE  BY DEF NewRun, NoDoc
  <2>2. run' = [run EXCEPT ![r] = doc] /\ ~Born(r) /\ slip' = slip  BY <1>2 DEF insertRun
  <2>3. task[t].then \in {"idle", "calculate", "readRun"}
    BY <1>2, <1>h DEF insertRun, WellFormed
  <2>4. h.pc = task[t].then  BY <1>h DEF Frame
  <2>5. Continue(t, Idle) \/ Continue(t, h)  BY <1>2 DEF insertRun, Return
  <2> HIDE DEF doc, h
  <2>6. run'[r] = doc /\ \A q \in Runs : q # r => run'[q] = run[q]  BY <1>r, <2>2
  <2>7. ~run[r].paid  BY <2>2 DEF PaidInv, ApprovedArePaid
  <2>8. PaidGrows
    BY <2>1, <2>6, <2>7 DEF PaidGrows, PaidInv, ApprovedArePaid, Born, DRAFT, APPROVED
  <2>9. PaidKept(h, run')  BY <2>3, <2>4 DEF PaidKept, Saving
  <2> QED  BY <2>2, <2>5, <2>8, <2>9, IdlePaid, GrowingPaid
<1>3. ASSUME insertDuplicate(t)  PROVE PaidInv'
  BY <1>3, ReturnPaid DEF insertDuplicate
<1>4. ASSUME readRun(t)  PROVE PaidInv'
  <2> DEFINE h == [task[t] EXCEPT !.pc = "calculate", !.seen = run[task[t].rid]]
  <2>1. h.pc = "calculate"  BY <1>h DEF Frame
  <2>2. (Return(t) \/ Continue(t, h)) /\ OnlyTask  BY <1>4 DEF readRun
  <2> QED  BY <2>1, <2>2, ReturnPaid, AwayPaid
<1>5. ASSUME NEW e \in Employees, calculateEmployee(t, e)  PROVE PaidInv'
  <2> DEFINE docs == detail[task[t].rid][e]
             h1 == [task[t] EXCEPT !.todo = @ \ {e}]
             h2 == [task[t] EXCEPT !.pc = "saveDetail", !.eid = e, !.out = pay[e], !.idx = 0]
             h3(i) == [task[t] EXCEPT !.pc = "saveDetail", !.eid = e, !.out = pay[e],
                                      !.base = docs[i], !.idx = i]
  <2>1. h1.pc = "calculate" /\ h2.pc = "saveDetail"
    BY <1>5, <1>h DEF calculateEmployee, Frame
  <2>2. \A i \in DOMAIN docs : h3(i).pc = "saveDetail"  BY <1>h DEF Frame
  <2>3. Continue(t, h1) \/ Continue(t, h2) \/ \E i \in DOMAIN docs : Continue(t, h3(i))
    BY <1>5 DEF calculateEmployee
  <2>4. OnlyTask  BY <1>5 DEF calculateEmployee
  <2> HIDE DEF h1, h2, h3, docs
  <2> QED  BY <2>1, <2>2, <2>3, <2>4, AwayPaid
<1>6. ASSUME saveDetail(t)  PROVE PaidInv'
  <2> DEFINE h == [task[t] EXCEPT !.pc = "calculate", !.todo = @ \ {task[t].eid},
                                  !.sum = @ + task[t].out.net]
  <2>1. h.pc = "calculate"  BY <1>h DEF Frame
  <2>2. Continue(t, h) /\ run' = run /\ slip' = slip  BY <1>6 DEF saveDetail
  <2> HIDE DEF h
  <2>3. PaidKept(h, run')  BY <2>1 DEF PaidKept, Saving
  <2> QED  BY <2>2, <2>3, SamePaid, GrowingPaid
<1>7. ASSUME saveTotals(t)  PROVE PaidInv'
  <2> DEFINE r == task[t].rid
             read == task[t].seen
             upd == [read EXCEPT !.total = task[t].sum]
             s == Saved(run[r], read, upd)
  <2>1. r \in Runs /\ read \in RunDoc /\ task[t].sum \in Nat
    BY <1>7, <1>h DEF saveTotals, WellFormed, Frame
  <2>2. upd \in RunDoc /\ upd.status = read.status /\ upd.paid = read.paid
    BY <2>1 DEF RunDoc
  <2>3. /\ run' = [run EXCEPT ![r] = s]
        /\ Continue(t, Idle) /\ slip' = slip
    BY <1>7 DEF saveTotals, Return
  <2> HIDE DEF upd, r, read
  <2>4. s.status = run[r].status /\ s.paid = run[r].paid  BY <1>r, <2>1, <2>2, SavedRun
  <2> HIDE DEF s
  <2>5. run'[r] = s /\ \A q \in Runs : q # r => run'[q] = run[q]  BY <1>r, <2>1, <2>3
  <2>6. PaidGrows  BY <2>4, <2>5 DEF PaidGrows, PaidInv, ApprovedArePaid, Born
  <2> QED  BY <2>3, <2>6, IdlePaid, GrowingPaid
<1>8. ASSUME NEW before \in [Employees -> Earlier], detectPayrollIrregularities(t, before)
      PROVE  PaidInv'
  <2> DEFINE h == [task[t] EXCEPT !.pc = task[t].then, !.then = "idle"]
  <2>1. /\ h.pc = task[t].then /\ h.upd = task[t].upd /\ h.seen = task[t].seen
        /\ h.rid = task[t].rid
    BY <1>h DEF Frame
  <2>2. (Return(t) \/ Continue(t, h)) /\ OnlyTask  BY <1>8 DEF detectPayrollIrregularities
  <2>3. task[t].pc = "inspect" /\ task[t].then \in {"saveRun", "forward"}
    BY <1>8, <1>h DEF detectPayrollIrregularities, WellFormed
  <2> HIDE DEF h
  <2>4. PaidKept(h, run)  BY <1>k, <2>1, <2>3 DEF PaidKept, Saving
  <2> QED  BY <2>2, <2>4, ReturnPaid, MovedPaid
<1>9. ASSUME forwardToFinance(t)  PROVE PaidInv'
  <2> DEFINE r == task[t].rid
             upd == InFinance(run[r])
             h == [task[t] EXCEPT !.pc = "saveRun", !.seen = run[r], !.upd = upd]
  <2>1. r \in Runs  BY <1>9, <1>h DEF forwardToFinance, WellFormed
  <2>2. h.pc = "saveRun" /\ h.upd = upd /\ h.seen = run[r] /\ h.rid = r  BY <1>h DEF Frame
  <2>3. upd.status = PENDING_FINANCE_APPROVAL /\ upd.paid = run[r].paid
    BY <1>r, <2>1 DEF RunDoc, InFinance
  <2>4. (Return(t) \/ Continue(t, h)) /\ OnlyTask  BY <1>9 DEF forwardToFinance
  <2> HIDE DEF h, upd
  <2>5. PaidKept(h, run)
    BY <2>2, <2>3 DEF PaidKept, Saving, PENDING_FINANCE_APPROVAL, APPROVED
  <2> QED  BY <2>4, <2>5, ReturnPaid, MovedPaid
<1>10. ASSUME saveRun(t)  PROVE PaidInv'
  <2> DEFINE r == task[t].rid
             read == task[t].seen
             upd == task[t].upd
             s == Saved(run[r], read, upd)
             h == [task[t] EXCEPT !.pc = task[t].then]
  <2>1. r \in Runs /\ task[t].then \in {"idle", "distribute"}
    BY <1>10, <1>h DEF saveRun, WellFormed
  <2>2. read \in RunDoc /\ upd \in RunDoc  BY <1>h DEF Frame
  <2>3. Saving(task[t])  BY <1>10 DEF saveRun, Saving
  <2>4. /\ read.paid => upd.paid /\ run[r].paid
        /\ upd.status = APPROVED => upd.paid
    BY <1>k, <2>3 DEF PaidKept
  <2>5. run[r].status # "absent" /\ upd.status # "absent"
    BY <2>3 DEF PaidInv, ReviewInv, SavingInv, Harmless, OnFile
  <2>6. run' = [run EXCEPT ![r] = s] /\ slip' = slip  BY <1>10 DEF saveRun
  <2>7. h.pc = task[t].then  BY <1>h DEF Frame
  <2>8. Continue(t, Idle) \/ Continue(t, h)  BY <1>10 DEF saveRun, Return
  <2> HIDE DEF r, read, upd, h
  <2>9. /\ s.status = IF upd.status # read.status THEN upd.status ELSE run[r].status
        /\ s.paid = IF upd.paid # read.paid THEN upd.paid ELSE run[r].paid
    BY <1>r, <2>1, <2>2, SavedRun
  <2>b. read.paid \in BOOLEAN /\ upd.paid \in BOOLEAN /\ run[r].paid \in BOOLEAN
    BY <1>r, <2>1, <2>2 DEF RunDoc
  <2> HIDE DEF s
  <2>10. run'[r] = s /\ \A q \in Runs : q # r => run'[q] = run[q]  BY <1>r, <2>1, <2>6
  <2>11. run[r].status = APPROVED => run[r].paid  BY <2>1 DEF PaidInv, ApprovedArePaid
  <2>12. (run[r].paid => s.paid) /\ (s.status = APPROVED => s.paid) /\ s.status # "absent"
    BY <2>4, <2>5, <2>9, <2>11, <2>b
  <2>13. PaidGrows  BY <2>10, <2>12 DEF PaidGrows, PaidInv, ApprovedArePaid, Born
  <2>14. PaidKept(h, run')  BY <2>1, <2>7 DEF PaidKept, Saving
  <2> QED  BY <2>6, <2>8, <2>13, <2>14, IdlePaid, GrowingPaid
<1>11. ASSUME generateAndDistribute(t)  PROVE PaidInv'
  <2> DEFINE h == [task[t] EXCEPT !.pc = "batch"]
  <2>1. h.pc = "batch"  BY <1>h DEF Frame
  <2>2. (Return(t) \/ Continue(t, h)) /\ OnlyTask  BY <1>11 DEF generateAndDistribute
  <2> QED  BY <2>1, <2>2, ReturnPaid, AwayPaid
\* The one look at the status: an approved run is paid.
<1>12. ASSUME generatePayslipsForPayrollRun(t)  PROVE PaidInv'
  <2> DEFINE r == task[t].rid
             S == {e \in Employees : detail[r][e] # <<>>}
             h == [task[t] EXCEPT !.pc = "payslip", !.todo = S]
  <2>1. h.pc = "payslip" /\ h.rid = r  BY <1>h DEF Frame
  <2>2. (Return(t) \/ (run[r].status = APPROVED /\ Continue(t, h))) /\ OnlyTask
    BY <1>12 DEF generatePayslipsForPayrollRun
  <2>3. r \in Runs  BY <1>12, <1>h DEF generatePayslipsForPayrollRun, WellFormed
  <2> HIDE DEF h
  <2>4. run[r].status = APPROVED => PaidKept(h, run)
    BY <2>1, <2>3 DEF PaidKept, Saving, PaidInv, ApprovedArePaid
  <2> QED  BY <2>2, <2>4, ReturnPaid, MovedPaid
<1>13. ASSUME NEW e \in Employees, generatePayslip(t, e)  PROVE PaidInv'
  <2> DEFINE docs == slip[task[t].rid][e]
             h1 == [task[t] EXCEPT !.todo = @ \ {e}]
             h2(i) == [task[t] EXCEPT !.pc = "saveSlip", !.eid = e, !.out = pay[e], !.idx = i]
  <2>1. h1.pc = "payslip" /\ h1.rid = task[t].rid
    BY <1>13, <1>h DEF generatePayslip, Frame
  <2>2. \A i : h2(i).pc = "saveSlip" /\ h2(i).rid = task[t].rid  BY <1>h DEF Frame
  <2>3. Continue(t, h1) \/ Continue(t, h2(0)) \/ \E i \in DOMAIN docs : Continue(t, h2(i))
    BY <1>13 DEF generatePayslip
  <2>4. OnlyTask /\ task[t].pc = "payslip"  BY <1>13 DEF generatePayslip
  <2> HIDE DEF h1, h2, docs
  <2>5. PaidKept(h1, run) /\ \A i : PaidKept(h2(i), run)
    BY <1>k, <2>1, <2>2, <2>4 DEF PaidKept, Saving
  <2> QED  BY <2>3, <2>4, <2>5, MovedPaid
<1>14. ASSUME saveSlip(t)  PROVE PaidInv'
  <2> DEFINE r == task[t].rid
             h == [task[t] EXCEPT !.pc = "payslip", !.todo = @ \ {task[t].eid}]
  <2>1. h.pc = "payslip" /\ h.rid = r  BY <1>h DEF Frame
  <2>2. Continue(t, h) /\ run' = run /\ task[t].pc = "saveSlip"  BY <1>14 DEF saveSlip
  <2>3. run[r].paid  BY <1>k, <2>2 DEF PaidKept
  <2>4. \A q \in Runs : q # r => slip'[q] = slip[q]
    BY <1>14 DEF saveSlip, PaidInv, ReviewInv, TypeInv, TypeOK
  <2> HIDE DEF r, h
  <2>5. PayslipsOnlyWhenPaid'  BY <2>2, <2>3, <2>4 DEF PaidInv, PayslipsOnlyWhenPaid
  <2>6. PaidKept(h, run)  BY <2>1, <2>3 DEF PaidKept, Saving
  <2>7. \A u \in Tasks : task'[u] \in {task[u], h}
    BY <2>2 DEF Continue, PaidInv, ReviewInv, TypeInv, TypeOK
  <2>8. \A u \in Tasks : PaidKept(task'[u], run')  BY <2>2, <2>6, <2>7 DEF PaidInv
  <2> QED  BY <2>2, <2>5, <2>8 DEF PaidInv, ApprovedArePaid, Born
<1>15. ASSUME payslipsDone(t)  PROVE PaidInv'
  BY <1>15, ReturnPaid DEF payslipsDone
<1> QED  BY <1>1, <1>2, <1>3, <1>4, <1>5, <1>6, <1>7, <1>8, <1>9, <1>10, <1>11, <1>12,
            <1>13, <1>14, <1>15 DEF Step

\* When payslips are generated by the batch, a payslip exists only for a run
\* that finance has approved, however long the batch takes and whatever other
\* calls, stale or not, make of the run meanwhile: a run that was paid is never
\* marked unpaid (generatePayslipsForPayrollRun).  The route that makes the
\* payslip of one employee does not look at the run and is excepted.
THEOREM PayslipsAreOfPaidRuns ==
    ASSUME "payslip" \notin Ops
    PROVE  Spec => []PayslipsOnlyWhenPaid
<1>1. Init => PaidInv
  <2> SUFFICES ASSUME Init  PROVE PaidInv
    OBVIOUS
  <2>1. \A r \in Runs : run[r] = NoDoc /\ \A e \in Employees : slip[r][e] = <<>>  BY DEF Init
  <2>2. ApprovedArePaid
    <3>1. NoDoc.paid = FALSE /\ NoDoc.status = "absent"  BY DEF NoDoc
    <3> QED  BY <2>1, <3>1 DEF ApprovedArePaid, APPROVED
  <2>3. PayslipsOnlyWhenPaid  BY <2>1 DEF PayslipsOnlyWhenPaid
  <2>4. \A t \in Tasks : task[t] = Idle  BY DEF Init
  <2> QED  BY <2>2, <2>3, <2>4, IdlePaid, InitReview DEF PaidInv
<1>2. PaidInv /\ [Next]_vars => PaidInv'
  <2> SUFFICES ASSUME PaidInv, [Next]_vars  PROVE PaidInv'
    OBVIOUS
  <2>0. ReviewInv'  BY NextReview DEF PaidInv
  <2>s. ASSUME run' = run, slip' = slip, task' = task  PROVE PaidInv'
    BY <2>0, <2>s DEF PaidInv, ApprovedArePaid, PayslipsOnlyWhenPaid, Born
  <2>1. CASE UNCHANGED vars  BY <2>1, <2>s DEF vars
  <2>2. CASE inputsChange  BY <2>2, <2>s DEF inputsChange
  <2>3. CASE restart
    <3>1. run' = run /\ slip' = slip /\ \A t \in Tasks : task'[t] = Idle
      BY <2>3 DEF restart, OnlyTask
    <3>2. \A t \in Tasks : PaidKept(task'[t], run')  BY <3>1, IdlePaid
    <3> QED  BY <2>0, <3>1, <3>2 DEF PaidInv, ApprovedArePaid, PayslipsOnlyWhenPaid, Born
  <2> QED  BY <2>0, <2>1, <2>2, <2>3, CallPaid, StepPaid DEF Next
<1>3. PaidInv => PayslipsOnlyWhenPaid  BY DEF PaidInv
<1> QED  BY <1>1, <1>2, <1>3, PTL DEF Spec

-----------------------------------------------------------------------------
(* One call at a time.  What a call has read is what is stored when it      *)
(* saves, because only its own steps lie between; a restart forgets the     *)
(* call.                                                                    *)

Lawful(read, upd) ==
    /\ read.status = APPROVED => upd.status \in Finalized
    /\ read.status = LOCKED => upd = [read EXCEPT !.status = UNLOCKED]

Fresh(h) ==
    /\ Saving(h) => h.seen = run[h.rid] /\ Lawful(h.seen, h.upd)
    /\ h.pc \in {"calculate", "saveDetail"} =>
          h.seen = run[h.rid] /\ run[h.rid].status = DRAFT
    /\ h.pc = "saveDetail" /\ h.idx = 0 => detail[h.rid][h.eid] = <<>>
    /\ h.pc = "saveSlip" /\ h.idx = 0 => slip[h.rid][h.eid] = <<>>

SoloInv == TypeInv /\ OneDocumentEach /\ \A t \in Tasks : Fresh(task[t])

LEMMA IdleFresh == Fresh(Idle)
  BY IdleNotSaving DEF Fresh, Idle

\* The state after a step of the only call.
LEMMA SoloMoved ==
    ASSUME NEW CONSTANT solo, Tasks = {solo}, SoloInv, TypeInv', NEW h, Continue(solo, h),
           OneDocumentEach', Fresh(task[solo])'
    PROVE  SoloInv'
  BY DEF SoloInv

LEMMA SoloTask ==
    ASSUME NEW CONSTANT solo, Tasks = {solo}, SoloInv, NEW h, Continue(solo, h)
    PROVE  task'[solo] = h
  BY DEF SoloInv, TypeInv, TypeOK, Continue

LEMMA SoloReads ==
    ASSUME NEW CONSTANT solo, Tasks = {solo}, SoloInv, TypeInv', OnlyTask, NEW h,
           Continue(solo, h), Fresh(h)
    PROVE  SoloInv'
<1>1. task'[solo] = h  BY SoloTask
<1>2. run' = run /\ detail' = detail /\ slip' = slip  BY DEF OnlyTask
<1>3. Fresh(task[solo])'  BY <1>1, <1>2 DEF Fresh
<1>4. OneDocumentEach'  BY <1>2 DEF SoloInv, OneDocumentEach
<1> QED  BY <1>3, <1>4, SoloMoved

LEMMA SoloAway ==
    ASSUME NEW CONSTANT solo, Tasks = {solo}, SoloInv, TypeInv', OnlyTask, NEW h,
           Continue(solo, h),
           h.pc \notin {"inspect", "saveRun", "calculate", "saveDetail", "saveSlip"}
    PROVE  SoloInv'
<1>1. Fresh(h)  BY DEF Fresh, Saving
<1> QED  BY <1>1, SoloReads

LEMMA SoloReturn ==
    ASSUME NEW CONSTANT solo, Tasks = {solo}, SoloInv, TypeInv', OnlyTask, Return(solo)
    PROVE  SoloInv'
  BY IdleFresh, SoloReads DEF Return

LEMMA SoloHandle ==
    ASSUME NEW CONSTANT solo, Tasks = {solo}, SoloInv, TypeInv', NEW r \in Runs,
           NEW upd \in RunDoc, NEW pc \in {"inspect", "saveRun"}, NEW then,
           Handle(solo, r, pc, then, upd),
           \/ pc = "inspect" /\ then # "saveRun"
           \/ Lawful(run[r], upd)
    PROVE  SoloInv'
<1> DEFINE h == [Idle EXCEPT !.pc = pc, !.then = then, !.rid = r, !.seen = run[r], !.upd = upd]
<1>1. /\ h.pc = pc /\ h.then = then /\ h.rid = r
      /\ h.seen = run[r] /\ h.upd = upd
  BY IdleType DEF Frame
<1>2. Continue(solo, h) /\ OnlyTask  BY DEF Handle
<1> HIDE DEF h
<1>3. Fresh(h)  BY <1>1 DEF Fresh, Saving
<1> QED  BY <1>2, <1>3, SoloReads

LEMMA CallSolo ==
    ASSUME NEW CONSTANT solo, Tasks = {solo}, SoloInv, TypeInv', Call(solo)
    PROVE  SoloInv'
<1>r. \A r \in Runs : run[r] \in RunDoc  BY DEF SoloInv, TypeInv, TypeOK
<1>s. /\ DRAFT \in PayRollStatus /\ UNDER_REVIEW \in PayRollStatus
      /\ PENDING_FINANCE_APPROVAL \in PayRollStatus /\ REJECTED \in PayRollStatus
      /\ APPROVED \in PayRollStatus /\ LOCKED \in PayRollStatus /\ UNLOCKED \in PayRollStatus
  BY DEF PayRollStatus
<1>1. ASSUME process(solo)  PROVE SoloInv'
  <2>1. [Idle EXCEPT !.pc = "nextId"].pc = "nextId"  BY DEF Idle
  <2> QED  BY <1>1, <2>1, SoloAway DEF process
<1>2. ASSUME NEW S \in Selections, calculateNew(solo, S)  PROVE SoloInv'
  <2> DEFINE h == [Idle EXCEPT !.pc = "nextId", !.then = "calculate", !.todo = S]
  <2>1. h.pc = "nextId"  BY DEF Idle
  <2> QED  BY <1>2, <2>1, SoloAway DEF calculateNew
<1>3. ASSUME generateDraft(solo)  PROVE SoloInv'
  <2> DEFINE h == [Idle EXCEPT !.pc = "nextId", !.then = "readRun", !.todo = Employees]
  <2>1. h.pc = "nextId"  BY DEF Idle
  <2> QED  BY <1>3, <2>1, SoloAway DEF generateDraft
<1>4. ASSUME NEW r \in Runs, NEW S \in Selections, calculate(solo, r, S)  PROVE SoloInv'
  <2> DEFINE h == [Idle EXCEPT !.pc = "calculate", !.rid = r, !.seen = run[r], !.todo = S]
  <2>1. h.pc = "calculate" /\ h.rid = r /\ h.seen = run[r]  BY IdleType DEF Frame
  <2>2. Continue(solo, h) /\ OnlyTask /\ run[r].status = DRAFT  BY <1>4 DEF calculate
  <2> HIDE DEF h
  <2>3. Fresh(h)  BY <2>1, <2>2 DEF Fresh, Saving
  <2> QED  BY <2>2, <2>3, SoloReads
\* A decision about a run that is neither approved nor locked.
<1>d. ASSUME NEW r \in Runs, NEW upd \in RunDoc, NEW pc \in {"inspect", "saveRun"}, NEW then,
             Handle(solo, r, pc, then, upd), run[r].status \notin {APPROVED, LOCKED}
      PROVE  SoloInv'
  BY <1>d, SoloHandle DEF Lawful
<1>n. {DRAFT, UNDER_REVIEW, PENDING_FINANCE_APPROVAL, REJECTED} \cap {APPROVED, LOCKED} = {}
  BY DEF APPROVED, DRAFT, UNDER_REVIEW, PENDING_FINANCE_APPROVAL, REJECTED, LOCKED
<1>5. ASSUME NEW r \in Runs, reviewApprove(solo, r)  PROVE SoloInv'
  <2> DEFINE u1 == [run[r] EXCEPT !.status = UNDER_REVIEW, !.managerApproval = TRUE]
             u2 == [run[r] EXCEPT !.status = PENDING_FINANCE_APPROVAL, !.financeApproval = TRUE]
             u3 == [run[r] EXCEPT !.status = APPROVED, !.paid = TRUE]
  <2>1. u1 \in RunDoc /\ u2 \in RunDoc /\ u3 \in RunDoc  BY <1>r, <1>s DEF RunDoc
  <2>2. /\ \E u \in {u1, u2, u3} : Handle(solo, r, "saveRun", "idle", u)
        /\ run[r].status \in {DRAFT, UNDER_REVIEW, PENDING_FINANCE_APPROVAL}
    BY <1>5 DEF reviewApprove, Decide
  <2> HIDE DEF u1, u2, u3
  <2> QED  BY <2>1, <2>2, <1>n, <1>d
<1>6. ASSUME NEW r \in Runs, reviewReject(solo, r)  PROVE SoloInv'
  <2>1. [run[r] EXCEPT !.status = REJECTED] \in RunDoc  BY <1>r, <1>s DEF RunDoc
  <2> QED  BY <1>6, <2>1, <1>d DEF reviewReject, Decide
<1>7. ASSUME NEW r \in Runs, NEW b \in BOOLEAN, NEW n \in Totals \cup {run[r].total},
             editPayrollRun(solo, r, n, b)
      PROVE SoloInv'
  <2>1. n \in Nat  BY <1>r, PayrollAssumption DEF RunDoc
  <2>2. [run[r] EXCEPT !.status = DRAFT, !.total = n, !.here = b] \in RunDoc  BY <1>r, <1>s, <2>1 DEF RunDoc
  <2> QED  BY <1>7, <2>2, <1>d, <1>n DEF editPayrollRun, Decide
<1>8. ASSUME NEW r \in Runs, sendForManagerApproval(solo, r)  PROVE SoloInv'
  <2>1. [run[r] EXCEPT !.status = UNDER_REVIEW] \in RunDoc  BY <1>r, <1>s DEF RunDoc
  <2> QED  BY <1>8, <2>1, <1>d, <1>n DEF sendForManagerApproval
<1>9. ASSUME NEW r \in Runs, sendForFinanceApproval(solo, r)  PROVE SoloInv'
  <2>1. InFinance(run[r]) \in RunDoc  BY <1>r, InFinanceType
  <2> QED  BY <1>9, <2>1, <1>d, <1>n DEF sendForFinanceApproval, Decide
<1>10. ASSUME NEW r \in Runs, managerReviewAndApprove(solo, r)  PROVE SoloInv'
  BY <1>10, NoDocType, SoloHandle DEF managerReviewAndApprove
<1>11. ASSUME NEW r \in Runs, finalApprovalByFinance(solo, r)  PROVE SoloInv'
  <2>1. [run[r] EXCEPT !.status = APPROVED, !.paid = TRUE, !.financeApproval = TRUE] \in RunDoc
    BY <1>r, <1>s DEF RunDoc
  <2> QED  BY <1>11, <2>1, <1>d, <1>n DEF finalApprovalByFinance
<1>12. ASSUME NEW r \in Runs, lockPayroll(solo, r)  PROVE SoloInv'
  <2> DEFINE upd == [run[r] EXCEPT !.status = LOCKED]
  <2>1. upd \in RunDoc /\ upd.status = LOCKED  BY <1>r, <1>s DEF RunDoc
  <2>2. run[r].status = APPROVED /\ Handle(solo, r, "saveRun", "idle", upd)
    BY <1>12 DEF lockPayroll, Decide
  <2> HIDE DEF upd
  <2>3. Lawful(run[r], upd)  BY <2>1, <2>2 DEF Lawful, Finalized, APPROVED, LOCKED
  <2> QED  BY <2>1, <2>2, <2>3, SoloHandle
<1>13. ASSUME NEW r \in Runs, unlockPayroll(solo, r)  PROVE SoloInv'
  <2> DEFINE upd == [run[r] EXCEPT !.status = UNLOCKED]
  <2>1. upd \in RunDoc  BY <1>r, <1>s DEF RunDoc
  <2>2. run[r].status = LOCKED /\ Handle(solo, r, "saveRun", "idle", upd)
    BY <1>13 DEF unlockPayroll, Decide
  <2>3. Lawful(run[r], upd)  BY <2>2 DEF Lawful, APPROVED, LOCKED
  <2> HIDE DEF upd
  <2> QED  BY <2>1, <2>2, <2>3, SoloHandle
<1>14. ASSUME NEW r \in Runs, callPayslips(solo, r)  PROVE SoloInv'
  <2> DEFINE h == [Idle EXCEPT !.pc = "batch", !.rid = r]
  <2>1. h.pc = "batch"  BY DEF Idle
  <2> QED  BY <1>14, <2>1, SoloAway DEF callPayslips
<1>15. ASSUME NEW r \in Runs, NEW e \in Employees, callPayslip(solo, r, e)  PROVE SoloInv'
  <2> DEFINE h == [Idle EXCEPT !.pc = "payslip", !.rid = r, !.todo = {e}]
  <2>1. h.pc = "payslip"  BY DEF Idle
  <2> QED  BY <1>15, <2>1, SoloAway DEF callPayslip
<1> QED  BY <1>1, <1>2, <1>3, <1>4, <1>5, <1>6, <1>7, <1>8, <1>9, <1>10, <1>11, <1>12,
            <1>13, <1>14, <1>15 DEF Call

LEMMA PutShort ==
    ASSUME NEW S, NEW docs \in Seq(S), NEW i \in Nat, NEW doc, Len(docs) <= 1,
           i = 0 => docs = <<>>
    PROVE  Len(Put(docs, i, doc)) <= 1
<1>1. CASE i = 0
  <2>1. Put(docs, i, doc) = Append(<<>>, doc)  BY <1>1 DEF Put
  <2> QED  BY <2>1
<1>2. CASE i # 0
  <2>1. Put(docs, i, doc) = [docs EXCEPT ![i] = doc]  BY <1>2 DEF Put
  <2>2. DOMAIN [docs EXCEPT ![i] = doc] = 1 .. Len(docs) /\ Len(docs) \in Nat  OBVIOUS
  <2>3. Len([docs EXCEPT ![i] = doc]) = Len(docs)  BY <2>2
  <2> QED  BY <2>1, <2>3
<1> QED  BY <1>1, <1>2

\* Saving over the document that was read writes the document.
LEMMA SavedOver ==
    ASSUME NEW d \in RunDoc, NEW upd \in RunDoc
    PROVE  Saved(d, d, upd) = upd
<1> DEFINE F == {"status", "paid", "managerApproval", "financeApproval", "total", "runId",
                 "here"}
<1>1. DOMAIN d = F  BY DEF RunDoc
<1>2. Saved(d, d, upd) = [f \in F |-> upd[f]]  BY <1>1 DEF Saved
<1>3. upd = [f \in F |-> upd[f]]  BY DEF RunDoc
<1> QED  BY <1>2, <1>3

LEMMA StepSolo ==
    ASSUME NEW CONSTANT solo, Tasks = {solo}, SoloInv, TypeInv', Step(solo)
    PROVE  SoloInv'
<1>h. task[solo] \in Frame /\ WellFormed(task[solo]) /\ Fresh(task[solo])
  BY DEF SoloInv, TypeInv, TypeOK
<1>t. /\ run \in [Runs -> RunDoc]
      /\ detail \in [Runs -> [Employees -> Seq(Outcome)]]
      /\ slip \in [Runs -> [Employees -> Seq(Nat)]]
  BY DEF SoloInv, TypeInv, TypeOK
<1>o. OneDocumentEach  BY DEF SoloInv
<1>1. ASSUME generatePayrollRunId(solo)  PROVE SoloInv'
  <2> DEFINE h(n) == [task[solo] EXCEPT !.pc = "insertRun", !.runId = n + 1]
  <2>1. PICK n \in {run[r].runId : r \in BornRuns} \cup {0} : Continue(solo, h(n))
    BY <1>1 DEF generatePayrollRunId
  <2>2. h(n).pc = "insertRun"  BY <1>h DEF Frame
  <2> QED  BY <1>1, <2>1, <2>2, SoloAway DEF generatePayrollRunId
<1>2. ASSUME NEW r \in Runs, insertRun(solo, r)  PROVE SoloInv'
  <2> DEFINE doc == NewRun(task[solo].runId)
             h == [task[solo] EXCEPT !.pc = task[solo].then, !.rid = r, !.seen = doc]
  <2>1. doc.status = DRAFT  BY DEF NewRun, NoDoc
  <2>2. /\ run' = [run EXCEPT ![r] = doc] /\ detail' = detail /\ slip' = slip
        /\ task[solo].then \in {"idle", "calculate", "readRun"}
    BY <1>2, <1>h DEF insertRun, WellFormed
  <2>3. h.pc = task[solo].then /\ h.rid = r /\ h.seen = doc  BY <1>h DEF Frame
  <2>4. Continue(solo, Idle) \/ Continue(solo, h)  BY <1>2 DEF insertRun, Return
  <2> HIDE DEF doc, h
  <2>5. task'[solo] = Idle \/ task'[solo] = h  BY <2>4, SoloTask
  <2>6. run'[r] = doc  BY <1>t, <2>2
  <2>7. CASE task'[solo] = Idle
    <3>1. Fresh(task[solo])'  BY <2>7, IdleNotSaving DEF Fresh, Idle
    <3> QED  BY <1>o, <2>2, <2>4, <3>1, SoloMoved DEF OneDocumentEach
  <2>8. CASE task'[solo] = h
    <3>1. Fresh(task[solo])'  BY <2>1, <2>2, <2>3, <2>6, <2>8 DEF Fresh, Saving
    <3> QED  BY <1>o, <2>2, <2>4, <3>1, SoloMoved DEF OneDocumentEach
  <2> QED  BY <2>5, <2>7, <2>8
<1>3. ASSUME insertDuplicate(solo)  PROVE SoloInv'
  BY <1>3, SoloReturn DEF insertDuplicate
<1>4. ASSUME readRun(solo)  PROVE SoloInv'
  <2> DEFINE r == task[solo].rid
             h == [task[solo] EXCEPT !.pc = "calculate", !.seen = run[r]]
  <2>1. h.pc = "calculate" /\ h.rid = r /\ h.seen = run[r]
    BY <1>4, <1>h, <1>t DEF readRun, Frame, WellFormed
  <2>2. (Return(solo) \/ (run[r].status = DRAFT /\ Continue(solo, h))) /\ OnlyTask
    BY <1>4 DEF readRun
  <2> HIDE DEF h
  <2>3. run[r].status = DRAFT => Fresh(h)  BY <2>1 DEF Fresh, Saving
  <2> QED  BY <2>2, <2>3, SoloReturn, SoloReads
<1>5. ASSUME NEW e \in Employees, calculateEmployee(solo, e)  PROVE SoloInv'
  <2> DEFINE r == task[solo].rid
             docs == detail[r][e]
             h1 == [task[solo] EXCEPT !.todo = @ \ {e}]
             h2 == [task[solo] EXCEPT !.pc = "saveDetail", !.eid = e, !.out = pay[e], !.idx = 0]
             h3(i) == [task[solo] EXCEPT !.pc = "saveDetail", !.eid = e, !.out = pay[e],
                                         !.base = docs[i], !.idx = i]
  <2>1. /\ h1.pc = "calculate" /\ h1.rid = r /\ h1.seen = task[solo].seen
        /\ h2.pc = "saveDetail" /\ h2.rid = r /\ h2.seen = task[solo].seen /\ h2.eid = e
    BY <1>5, <1>h DEF calculateEmployee, Frame
  <2>2. \A i \in DOMAIN docs : /\ h3(i).pc = "saveDetail" /\ h3(i).rid = r
                               /\ h3(i).seen = task[solo].seen /\ h3(i).idx = i
    BY <1>h DEF Frame
  <2>3. \/ Continue(solo, h1)
        \/ docs = <<>> /\ Continue(solo, h2)
        \/ \E i \in DOMAIN docs : Continue(solo, h3(i))
    BY <1>5 DEF calculateEmployee
  <2>4. OnlyTask /\ task[solo].pc = "calculate" /\ r \in Runs
    BY <1>5, <1>h DEF calculateEmployee, WellFormed
  <2>5. task[solo].seen = run[r] /\ run[r].status = DRAFT  BY <1>h, <2>4 DEF Fresh
  <2>6. 0 \notin DOMAIN docs  BY <1>t, <2>4
  <2>d. docs = detail[r][e]  OBVIOUS
  <2> HIDE DEF h1, h2, h3, docs, r
  <2>7. Fresh(h1) /\ (docs = <<>> => Fresh(h2))
    BY <2>1, <2>5, <2>d DEF Fresh, Saving
  <2>8. \A i \in DOMAIN docs : Fresh(h3(i))
    BY <2>2, <2>5, <2>6 DEF Fresh, Saving
  <2> QED  BY <2>3, <2>4, <2>7, <2>8, SoloReads
<1>6. ASSUME saveDetail(solo)  PROVE SoloInv'
  <2> DEFINE r == task[solo].rid
             e == task[solo].eid
             i == task[solo].idx
             doc == IF i = 0 THEN task[solo].out
                    ELSE Saved(detail[r][e][i], task[solo].base, task[solo].out)
             put == Put(detail[r][e], i, doc)
             h == [task[solo] EXCEPT !.pc = "calculate", !.todo = @ \ {e},
                                     !.sum = @ + task[solo].out.net]
  <2>1. r \in Runs /\ e \in Employees /\ i \in Nat
    BY <1>6, <1>h DEF saveDetail, WellFormed, Frame
  <2>2. h.pc = "calculate" /\ h.rid = r /\ h.seen = task[solo].seen  BY <1>h DEF Frame
  <2>3. /\ detail' = [detail EXCEPT ![r][e] = put]
        /\ Continue(solo, h) /\ run' = run /\ slip' = slip /\ task[solo].pc = "saveDetail"
    BY <1>6 DEF saveDetail
  <2>4. task[solo].seen = run[r] /\ run[r].status = DRAFT /\ (i = 0 => detail[r][e] = <<>>)
    BY <1>h, <2>3 DEF Fresh
  <2>5. detail[r][e] \in Seq(Outcome) /\ Len(detail[r][e]) <= 1
    BY <1>t, <1>o, <2>1 DEF OneDocumentEach
  <2> HIDE DEF r, e, i, doc, h
  <2>6. Len(put) <= 1  BY <2>1, <2>4, <2>5, PutShort
  <2> HIDE DEF put
  <2>7. OneDocumentEach'  BY <1>t, <1>o, <2>1, <2>3, <2>6 DEF OneDocumentEach
  <2>8. task'[solo] = h  BY <2>3, SoloTask
  <2>9. Fresh(task[solo])'  BY <2>2, <2>3, <2>4, <2>8 DEF Fresh, Saving
  <2> QED  BY <2>3, <2>7, <2>9, SoloMoved
<1>7. ASSUME saveTotals(solo)  PROVE SoloInv'
  <2>1. Continue(solo, Idle) /\ detail' = detail /\ slip' = slip  BY <1>7 DEF saveTotals, Return
  <2>2. task'[solo] = Idle  BY <2>1, SoloTask
  <2>3. Fresh(task[solo])'  BY <2>2, IdleNotSaving DEF Fresh, Idle
  <2> QED  BY <1>o, <2>1, <2>3, SoloMoved DEF OneDocumentEach
<1>8. ASSUME NEW before \in [Employees -> Earlier], detectPayrollIrregularities(solo, before)
      PROVE  SoloInv'
  <2> DEFINE h == [task[solo] EXCEPT !.pc = task[solo].then, !.then = "idle"]
  <2>1. /\ h.pc = task[solo].then /\ h.upd = task[solo].upd /\ h.seen = task[solo].seen
        /\ h.rid = task[solo].rid
    BY <1>h DEF Frame
  <2>2. (Return(solo) \/ Continue(solo, h)) /\ OnlyTask  BY <1>8 DEF detectPayrollIrregularities
  <2>3. task[solo].pc = "inspect" /\ task[solo].then \in {"saveRun", "forward"}
    BY <1>8, <1>h DEF detectPayrollIrregularities, WellFormed
  <2> HIDE DEF h
  <2>4. Fresh(h)  BY <1>h, <2>1, <2>3 DEF Fresh, Saving
  <2> QED  BY <2>2, <2>4, SoloReturn, SoloReads
<1>9. ASSUME forwardToFinance(solo)  PROVE SoloInv'
  <2> DEFINE r == task[solo].rid
             h == [task[solo] EXCEPT !.pc = "saveRun", !.seen = run[r], !.upd = InFinance(run[r])]
  <2>1. r \in Runs  BY <1>9, <1>h DEF forwardToFinance, WellFormed
  <2>2. h.pc = "saveRun" /\ h.seen = run[r] /\ h.rid = r  BY <1>h DEF Frame
  <2>3. (Return(solo) \/ (run[r].status = UNDER_REVIEW /\ Continue(solo, h))) /\ OnlyTask
    BY <1>9 DEF forwardToFinance
  <2> HIDE DEF h
  <2>4. run[r].status = UNDER_REVIEW => Fresh(h)
    BY <2>2 DEF Fresh, Saving, Lawful, UNDER_REVIEW, APPROVED, LOCKED
  <2> QED  BY <2>3, <2>4, SoloReturn, SoloReads
<1>10. ASSUME saveRun(solo)  PROVE SoloInv'
  <2> DEFINE h == [task[solo] EXCEPT !.pc = task[solo].then]
  <2>1. h.pc = task[solo].then /\ task[solo].then \in {"idle", "distribute"}
    BY <1>10, <1>h DEF saveRun, WellFormed, Frame
  <2>2. detail' = detail /\ slip' = slip /\ (Continue(solo, Idle) \/ Continue(solo, h))
    BY <1>10 DEF saveRun, Return
  <2> HIDE DEF h
  <2>3. PICK g \in {Idle, h} : Continue(solo, g)  BY <2>2
  <2>4. g.pc \in {"idle", "distribute"}  BY <2>1 DEF Idle
  <2>5. task'[solo] = g  BY <2>3, SoloTask
  <2>6. Fresh(task[solo])'  BY <2>4, <2>5 DEF Fresh, Saving
  <2> QED  BY <1>o, <2>2, <2>3, <2>6, SoloMoved DEF OneDocumentEach
<1>11. ASSUME generateAndDistribute(solo)  PROVE SoloInv'
  <2> DEFINE h == [task[solo] EXCEPT !.pc = "batch"]
  <2>1. h.pc = "batch"  BY <1>h DEF Frame
  <2>2. (Return(solo) \/ Continue(solo, h)) /\ OnlyTask  BY <1>11 DEF generateAndDistribute
  <2> QED  BY <2>1, <2>2, SoloReturn, SoloAway
<1>12. ASSUME generatePayslipsForPayrollRun(solo)  PROVE SoloInv'
  <2> DEFINE S == {e \in Employees : detail[task[solo].rid][e] # <<>>}
             h == [task[solo] EXCEPT !.pc = "payslip", !.todo = S]
  <2>1. h.pc = "payslip"  BY <1>h DEF Frame
  <2>2. (Return(solo) \/ Continue(solo, h)) /\ OnlyTask
    BY <1>12 DEF generatePayslipsForPayrollRun
  <2> QED  BY <2>1, <2>2, SoloReturn, SoloAway
<1>13. ASSUME NEW e \in Employees, generatePayslip(solo, e)  PROVE SoloInv'
  <2> DEFINE r == task[solo].rid
             docs == slip[r][e]
             h1 == [task[solo] EXCEPT !.todo = @ \ {e}]
             h2(i) == [task[solo] EXCEPT !.pc = "saveSlip", !.eid = e, !.out = pay[e], !.idx = i]
  <2>1. h1.pc = "payslip"  BY <1>13, <1>h DEF generatePayslip, Frame
  <2>2. \A i : /\ h2(i).pc = "saveSlip" /\ h2(i).rid = r /\ h2(i).eid = e /\ h2(i).idx = i
    BY <1>h DEF Frame
  <2>3. \/ Continue(solo, h1)
        \/ docs = <<>> /\ Continue(solo, h2(0))
        \/ \E i \in DOMAIN docs : Continue(solo, h2(i))
    BY <1>13 DEF generatePayslip
  <2>4. OnlyTask /\ r \in Runs  BY <1>13, <1>h DEF generatePayslip, WellFormed
  <2>5. 0 \notin DOMAIN docs  BY <1>t, <2>4
  <2>d. docs = slip[r][e]  OBVIOUS
  <2> HIDE DEF h1, h2, docs, r
  <2>6. \A i : (i = 0 => docs = <<>>) => Fresh(h2(i))
    BY <2>2, <2>d DEF Fresh, Saving
  <2>7. Fresh(h1)  BY <2>1 DEF Fresh, Saving
  <2> QED  BY <2>3, <2>4, <2>5, <2>6, <2>7, SoloReads
<1>14. ASSUME saveSlip(solo)  PROVE SoloInv'
  <2> DEFINE r == task[solo].rid
             e == task[solo].eid
             i == task[solo].idx
             put == Put(slip[r][e], i, task[solo].out.net)
             h == [task[solo] EXCEPT !.pc = "payslip", !.todo = @ \ {task[solo].eid}]
  <2>1. r \in Runs /\ e \in Employees /\ i \in Nat
    BY <1>14, <1>h DEF saveSlip, WellFormed, Frame
  <2>2. h.pc = "payslip"  BY <1>h DEF Frame
  <2>3. /\ slip' = slip \/ slip' = [slip EXCEPT ![r][e] = put]
        /\ Continue(solo, h) /\ detail' = detail /\ task[solo].pc = "saveSlip"
    BY <1>14 DEF saveSlip
  <2>4. i = 0 => slip[r][e] = <<>>  BY <1>h, <2>3 DEF Fresh
  <2>5. slip[r][e] \in Seq(Nat) /\ Len(slip[r][e]) <= 1
    BY <1>t, <1>o, <2>1 DEF OneDocumentEach
  <2> HIDE DEF r, e, i, h
  <2>6. Len(put) <= 1  BY <2>1, <2>4, <2>5, PutShort
  <2> HIDE DEF put
  <2>7. OneDocumentEach'
    <3>1. CASE slip' = slip  BY <1>o, <2>3, <3>1 DEF OneDocumentEach
    <3>2. CASE slip' = [slip EXCEPT ![r][e] = put]
      BY <1>t, <1>o, <2>1, <2>3, <2>6, <3>2 DEF OneDocumentEach
    <3> QED  BY <2>3, <3>1, <3>2
  <2>8. task'[solo] = h  BY <2>3, SoloTask
  <2>9. Fresh(task[solo])'  BY <2>2, <2>8 DEF Fresh, Saving
  <2> QED  BY <2>3, <2>7, <2>9, SoloMoved
<1>15. ASSUME payslipsDone(solo)  PROVE SoloInv'
  BY <1>15, SoloReturn DEF payslipsDone
<1> QED  BY <1>1, <1>2, <1>3, <1>4, <1>5, <1>6, <1>7, <1>8, <1>9, <1>10, <1>11, <1>12,
            <1>13, <1>14, <1>15 DEF Step

LEMMA SoloInvariant ==
    ASSUME NEW CONSTANT solo, Tasks = {solo}
    PROVE  Spec => []SoloInv
<1>1. Init => SoloInv
  <2> SUFFICES ASSUME Init  PROVE SoloInv
    OBVIOUS
  <2>1. \A r \in Runs, e \in Employees : detail[r][e] = <<>> /\ slip[r][e] = <<>>
    BY DEF Init
  <2>2. OneDocumentEach  BY <2>1 DEF OneDocumentEach
  <2>3. \A t \in Tasks : task[t] = Idle  BY DEF Init
  <2> QED  BY <2>2, <2>3, IdleFresh, InitType DEF SoloInv
<1>2. SoloInv /\ [Next]_vars => SoloInv'
  <2> SUFFICES ASSUME SoloInv, [Next]_vars  PROVE SoloInv'
    OBVIOUS
  <2>0. TypeInv'  BY NextType DEF SoloInv
  <2>s. ASSUME run' = run, detail' = detail, slip' = slip, task' = task  PROVE SoloInv'
    BY <2>0, <2>s DEF SoloInv, OneDocumentEach, Fresh
  <2>1. CASE UNCHANGED vars  BY <2>1, <2>s DEF vars
  <2>2. CASE inputsChange  BY <2>2, <2>s DEF inputsChange
  <2>3. CASE restart
    <3>1. /\ detail' = detail /\ slip' = slip /\ task'[solo] = Idle
      BY <2>3 DEF restart, OnlyTask
    <3>2. Fresh(task[solo])'  BY <3>1, IdleNotSaving DEF Fresh, Idle
    <3> QED  BY <2>0, <3>1, <3>2 DEF SoloInv, OneDocumentEach
  <2> QED  BY <2>0, <2>1, <2>2, <2>3, CallSolo, StepSolo DEF Next
<1> QED  BY <1>1, <1>2, PTL DEF Spec

\* While calls do not overlap, calculations and payslips repeated, cut short
\* and begun again leave one document per employee and run
\* (calculatePayrollAutomatically, generatePayslip: look up, then update or
\* insert).
THEOREM SerialOneDocument ==
    ASSUME NEW CONSTANT solo, Tasks = {solo}
    PROVE  Spec => []OneDocumentEach
<1>1. SoloInv => OneDocumentEach  BY DEF SoloInv
<1> QED  BY <1>1, SoloInvariant, PTL

\* What a step of the only call makes of an approved or a locked run.
LEMMA LawfulStep ==
    ASSUME NEW CONSTANT solo, Tasks = {solo}, SoloInv, [Next]_vars, NEW r \in Runs
    PROVE  /\ run[r].status = APPROVED => run'[r].status \in Finalized
           /\ run[r].status = LOCKED =>
                 /\ detail'[r] = detail[r]
                 /\ run'[r] \in {run[r], [run[r] EXCEPT !.status = UNLOCKED]}
<1>h. task[solo] \in Frame /\ WellFormed(task[solo]) /\ Fresh(task[solo])
  BY DEF SoloInv, TypeInv, TypeOK
<1>t. run \in [Runs -> RunDoc] /\ detail \in [Runs -> [Employees -> Seq(Outcome)]]
  BY DEF SoloInv, TypeInv, TypeOK
<1>f. APPROVED \in Finalized /\ DRAFT \notin {APPROVED, LOCKED}
  BY DEF Finalized, APPROVED, LOCKED, DRAFT
<1>s. ASSUME run'[r] = run[r], detail'[r] = detail[r]
      PROVE  /\ run[r].status = APPROVED => run'[r].status \in Finalized
             /\ run[r].status = LOCKED =>
                   /\ detail'[r] = detail[r]
                   /\ run'[r] \in {run[r], [run[r] EXCEPT !.status = UNLOCKED]}
  BY <1>f, <1>s
<1> DEFINE q == task[solo].rid
<1>1. ASSUME NEW p \in Runs, insertRun(solo, p), p = r
      PROVE  run[r].status \notin {APPROVED, LOCKED}
  BY <1>1 DEF insertRun, Born, APPROVED, LOCKED
<1>2. ASSUME saveDetail(solo), q = r  PROVE run[r].status \notin {APPROVED, LOCKED}
  BY <1>2, <1>h, <1>f DEF saveDetail, Fresh
<1>3. ASSUME saveTotals(solo), q = r  PROVE run[r].status \notin {APPROVED, LOCKED}
  BY <1>3, <1>h, <1>f DEF saveTotals, Fresh
<1>4. ASSUME saveRun(solo), q = r
      PROVE  /\ run[r].status = APPROVED => run'[r].status \in Finalized
             /\ run[r].status = LOCKED =>
                   /\ detail'[r] = detail[r]
                   /\ run'[r] \in {run[r], [run[r] EXCEPT !.status = UNLOCKED]}
  <2>1. task[solo].seen = run[r] /\ Lawful(run[r], task[solo].upd)
    BY <1>4, <1>h DEF saveRun, Fresh, Saving
  <2>2. run' = [run EXCEPT ![r] = Saved(run[r], run[r], task[solo].upd)] /\ detail' = detail
    BY <1>4, <2>1 DEF saveRun
  <2>3. run[r] \in RunDoc /\ task[solo].upd \in RunDoc  BY <1>t, <1>h DEF Frame
  <2>4. run'[r] = task[solo].upd  BY <1>t, <2>2, <2>3, SavedOver
  <2> QED  BY <2>1, <2>2, <2>4 DEF Lawful
<1>5. CASE \E p \in Runs : insertRun(solo, p)
  <2>1. PICK p \in Runs : insertRun(solo, p)  BY <1>5
  <2>2. p # r => run'[r] = run[r] /\ detail'[r] = detail[r]  BY <1>t, <2>1 DEF insertRun
  <2> QED  BY <2>1, <2>2, <1>1, <1>s
<1>6. CASE saveDetail(solo) \/ saveTotals(solo) \/ saveRun(solo)
  <2>1. q # r => run'[r] = run[r] /\ detail'[r] = detail[r]
    BY <1>6, <1>t DEF saveDetail, saveTotals, saveRun
  <2> QED  BY <1>6, <2>1, <1>2, <1>3, <1>4, <1>s
<1>7. CASE Call(solo)
  <2>1. run' = run /\ detail' = detail
    BY <1>7 DEF Call, process, calculateNew, generateDraft, calculate, reviewApprove,
                reviewReject, editPayrollRun, sendForManagerApproval, sendForFinanceApproval,
                managerReviewAndApprove, finalApprovalByFinance, lockPayroll, unlockPayroll,
                callPayslips, callPayslip, Decide, Handle, OnlyTask
  <2> QED  BY <2>1, <1>s
<1>8. CASE \/ generatePayrollRunId(solo) \/ insertDuplicate(solo) \/ readRun(solo)
           \/ \E e \in Employees : calculateEmployee(solo, e)
           \/ \E before \in [Employees -> Earlier] : detectPayrollIrregularities(solo, before)
           \/ forwardToFinance(solo)
           \/ generateAndDistribute(solo) \/ generatePayslipsForPayrollRun(solo)
           \/ \E e \in Employees : generatePayslip(solo, e)
           \/ saveSlip(solo) \/ payslipsDone(solo)
  <2>1. run' = run /\ detail' = detail
    BY <1>8 DEF generatePayrollRunId, insertDuplicate, readRun, calculateEmployee,
                detectPayrollIrregularities, forwardToFinance, generateAndDistribute,
                generatePayslipsForPayrollRun, generatePayslip, saveSlip, payslipsDone, OnlyTask
  <2> QED  BY <2>1, <1>s
<1>9. CASE inputsChange \/ restart \/ UNCHANGED vars
  <2>1. run' = run /\ detail' = detail  BY <1>9 DEF inputsChange, restart, OnlyTask, vars
  <2> QED  BY <2>1, <1>s
<1> HIDE DEF q
<1> QED  BY <1>5, <1>6, <1>7, <1>8, <1>9 DEF Next, Step

\* While calls do not overlap, no route takes a run that was approved, or
\* locked, back behind its approval (reviewPayrollRun: "Approved or locked
\* payroll runs cannot be rejected").
THEOREM SerialApprovedStays ==
    ASSUME NEW CONSTANT solo, Tasks = {solo}
    PROVE  Spec => ApprovedStays
<1>1. SoloInv /\ [Next]_vars =>
        [\A r \in Runs : run[r].status \in {APPROVED, LOCKED}
                            => run'[r].status \in Finalized]_vars
  <2> SUFFICES ASSUME SoloInv, [Next]_vars, NEW r \in Runs,
                      run[r].status \in {APPROVED, LOCKED}
               PROVE  run'[r].status \in Finalized
    OBVIOUS
  <2>1. run[r] \in RunDoc  BY DEF SoloInv, TypeInv, TypeOK
  <2>2. [run[r] EXCEPT !.status = UNLOCKED].status = UNLOCKED  BY <2>1 DEF RunDoc
  <2>3. LOCKED \in Finalized /\ UNLOCKED \in Finalized  BY DEF Finalized
  <2>4. CASE run[r].status = APPROVED  BY <2>4, LawfulStep
  <2>5. CASE run[r].status = LOCKED
    <3>1. run'[r] \in {run[r], [run[r] EXCEPT !.status = UNLOCKED]}  BY <2>5, LawfulStep
    <3> QED  BY <2>2, <2>3, <2>5, <3>1
  <2> QED  BY <2>4, <2>5
<1> QED  BY <1>1, SoloInvariant, PTL DEF Spec, ApprovedStays

\* While calls do not overlap, a locked run and its details change by nothing
\* but the unlocking of the run (lockPayroll: "Prevents any modifications after
\* finalization").
THEOREM SerialLockedFrozen ==
    ASSUME NEW CONSTANT solo, Tasks = {solo}
    PROVE  Spec => LockedFrozen
<1>1. SoloInv /\ [Next]_vars =>
        [\A r \in Runs : run[r].status = LOCKED
            => /\ detail'[r] = detail[r]
               /\ run'[r] \in {run[r], [run[r] EXCEPT !.status = UNLOCKED]}]_vars
  BY LawfulStep
<1> QED  BY <1>1, SoloInvariant, PTL DEF Spec, LockedFrozen

\* Some detail of the run is by itself of high severity.
Grave(r) == \E e \in Employees : \E i \in DOMAIN detail[r][e] : detail[r][e][i].grave

\* The only call is about to take a run beyond its draft with no grave detail.
Clean(h) ==
    (h.pc = "saveRun" /\ h.upd.status \notin {DRAFT, REJECTED}) => ~Grave(h.rid)

CleanInv == SoloInv /\ ReviewedWithoutGrave /\ \A t \in Tasks : Clean(task[t])

LEMMA CleanMoved ==
    ASSUME NEW CONSTANT solo, Tasks = {solo}, CleanInv, SoloInv', OnlyTask, NEW h,
           Continue(solo, h), Clean(h)
    PROVE  CleanInv'
<1>1. task'[solo] = h  BY SoloTask DEF CleanInv
<1>2. run' = run /\ detail' = detail  BY DEF OnlyTask
<1>3. \A r : Grave(r)' <=> Grave(r)  BY <1>2 DEF Grave
<1>4. Clean(task[solo])'  BY <1>1, <1>3 DEF Clean
<1>5. ReviewedWithoutGrave'
  BY <1>2, <1>3 DEF CleanInv, ReviewedWithoutGrave, Grave, BornRuns, Born
<1> QED  BY <1>4, <1>5 DEF CleanInv

\* A call that is not about to save a run.
LEMMA CleanAway ==
    ASSUME NEW CONSTANT solo, Tasks = {solo}, CleanInv, SoloInv', OnlyTask, NEW h,
           Continue(solo, h), h.pc # "saveRun"
    PROVE  CleanInv'
  BY CleanMoved DEF Clean

LEMMA CleanReturn ==
    ASSUME NEW CONSTANT solo, Tasks = {solo}, CleanInv, SoloInv', OnlyTask, Return(solo)
    PROVE  CleanInv'
  BY CleanAway DEF Return, Idle

LEMMA CleanHandle ==
    ASSUME NEW CONSTANT solo, Tasks = {solo}, CleanInv, SoloInv', NEW r \in Runs,
           NEW upd \in RunDoc, NEW pc, NEW then, Handle(solo, r, pc, then, upd),
           \/ pc # "saveRun"
           \/ upd.status \in {DRAFT, REJECTED}
           \/ Born(r) /\ run[r].status \notin {DRAFT, REJECTED}
    PROVE  CleanInv'
<1> DEFINE h == [Idle EXCEPT !.pc = pc, !.then = then, !.rid = r, !.seen = run[r], !.upd = upd]
<1>1. h.pc = pc /\ h.rid = r /\ h.upd = upd  BY IdleType DEF Frame
<1>2. Continue(solo, h) /\ OnlyTask  BY DEF Handle
<1> HIDE DEF h
<1>3. Clean(h)  BY <1>1 DEF Clean, CleanInv, ReviewedWithoutGrave, Grave, BornRuns
<1> QED  BY <1>2, <1>3, CleanMoved

LEMMA CallClean ==
    ASSUME NEW CONSTANT solo, Tasks = {solo}, "approve" \notin Ops, CleanInv, SoloInv',
           Call(solo)
    PROVE  CleanInv'
<1>r. \A r \in Runs : run[r] \in RunDoc  BY DEF CleanInv, SoloInv, TypeInv, TypeOK
<1>s. /\ DRAFT \in PayRollStatus /\ UNDER_REVIEW \in PayRollStatus
      /\ PENDING_FINANCE_APPROVAL \in PayRollStatus /\ REJECTED \in PayRollStatus
      /\ APPROVED \in PayRollStatus /\ LOCKED \in PayRollStatus /\ UNLOCKED \in PayRollStatus
  BY DEF PayRollStatus
<1>n. {UNDER_REVIEW, PENDING_FINANCE_APPROVAL, APPROVED, LOCKED} \cap {DRAFT, REJECTED, "absent"} = {}
  BY DEF APPROVED, DRAFT, UNDER_REVIEW, PENDING_FINANCE_APPROVAL, REJECTED, LOCKED
<1>1. ASSUME process(solo)  PROVE CleanInv'
  <2>1. [Idle EXCEPT !.pc = "nextId"].pc = "nextId"  BY DEF Idle
  <2> QED  BY <1>1, <2>1, CleanAway DEF process
<1>2. ASSUME NEW S \in Selections, calculateNew(solo, S)  PROVE CleanInv'
  <2> DEFINE h == [Idle EXCEPT !.pc = "nextId", !.then = "calculate", !.todo = S]
  <2>1. h.pc = "nextId"  BY DEF Idle
  <2> QED  BY <1>2, <2>1, CleanAway DEF calculateNew
<1>3. ASSUME generateDraft(solo)  PROVE CleanInv'
  <2> DEFINE h == [Idle EXCEPT !.pc = "nextId", !.then = "readRun", !.todo = Employees]
  <2>1. h.pc = "nextId"  BY DEF Idle
  <2> QED  BY <1>3, <2>1, CleanAway DEF generateDraft
<1>4. ASSUME NEW r \in Runs, NEW S \in Selections, calculate(solo, r, S)  PROVE CleanInv'
  <2> DEFINE h == [Idle EXCEPT !.pc = "calculate", !.rid = r, !.seen = run[r], !.todo = S]
  <2>1. h.pc = "calculate"  BY DEF Idle
  <2> QED  BY <1>4, <2>1, CleanAway DEF calculate
\* A decision about a run that is beyond its draft.
<1>d. ASSUME NEW r \in Runs, NEW upd \in RunDoc, NEW pc, NEW then,
             Handle(solo, r, pc, then, upd),
             run[r].status \in {UNDER_REVIEW, PENDING_FINANCE_APPROVAL, APPROVED, LOCKED}
      PROVE  CleanInv'
  BY <1>d, <1>n, CleanHandle DEF Born
<1>5. ASSUME NEW r \in Runs, reviewApprove(solo, r)  PROVE CleanInv'
  BY <1>5 DEF reviewApprove, Receives
<1>6. ASSUME NEW r \in Runs, reviewReject(solo, r)  PROVE CleanInv'
  <2> DEFINE upd == [run[r] EXCEPT !.status = REJECTED]
  <2>1. upd \in RunDoc /\ upd.status = REJECTED  BY <1>r, <1>s DEF RunDoc
  <2> HIDE DEF upd
  <2> QED  BY <1>6, <2>1, CleanHandle DEF reviewReject, Decide, upd
<1>7. ASSUME NEW r \in Runs, NEW b \in BOOLEAN, NEW n \in Totals \cup {run[r].total},
             editPayrollRun(solo, r, n, b)
      PROVE CleanInv'
  <2> DEFINE upd == [run[r] EXCEPT !.status = DRAFT, !.total = n, !.here = b]
  <2>1. n \in Nat  BY <1>r, PayrollAssumption DEF RunDoc
  <2>2. upd \in RunDoc /\ upd.status = DRAFT  BY <1>r, <1>s, <2>1 DEF RunDoc
  <2> HIDE DEF upd
  <2> QED  BY <1>7, <2>2, CleanHandle DEF editPayrollRun, Decide, upd
<1>8. ASSUME NEW r \in Runs, sendForManagerApproval(solo, r)  PROVE CleanInv'
  <2>1. [run[r] EXCEPT !.status = UNDER_REVIEW] \in RunDoc  BY <1>r, <1>s DEF RunDoc
  <2> QED  BY <1>8, <2>1, CleanHandle DEF sendForManagerApproval
<1>9. ASSUME NEW r \in Runs, sendForFinanceApproval(solo, r)  PROVE CleanInv'
  <2>1. InFinance(run[r]) \in RunDoc  BY <1>r, InFinanceType
  <2> QED  BY <1>9, <2>1, <1>d DEF sendForFinanceApproval, Decide
<1>10. ASSUME NEW r \in Runs, managerReviewAndApprove(solo, r)  PROVE CleanInv'
  BY <1>10, NoDocType, CleanHandle DEF managerReviewAndApprove
<1>11. ASSUME NEW r \in Runs, finalApprovalByFinance(solo, r)  PROVE CleanInv'
  <2>1. [run[r] EXCEPT !.status = APPROVED, !.paid = TRUE, !.financeApproval = TRUE] \in RunDoc
    BY <1>r, <1>s DEF RunDoc
  <2> QED  BY <1>11, <2>1, <1>d DEF finalApprovalByFinance
<1>12. ASSUME NEW r \in Runs, lockPayroll(solo, r)  PROVE CleanInv'
  <2>1. [run[r] EXCEPT !.status = LOCKED] \in RunDoc  BY <1>r, <1>s DEF RunDoc
  <2> QED  BY <1>12, <2>1, <1>d DEF lockPayroll, Decide
<1>13. ASSUME NEW r \in Runs, unlockPayroll(solo, r)  PROVE CleanInv'
  <2>1. [run[r] EXCEPT !.status = UNLOCKED] \in RunDoc  BY <1>r, <1>s DEF RunDoc
  <2> QED  BY <1>13, <2>1, <1>d DEF unlockPayroll, Decide
<1>14. ASSUME NEW r \in Runs, callPayslips(solo, r)  PROVE CleanInv'
  <2> DEFINE h == [Idle EXCEPT !.pc = "batch", !.rid = r]
  <2>1. h.pc = "batch"  BY DEF Idle
  <2> QED  BY <1>14, <2>1, CleanAway DEF callPayslips
<1>15. ASSUME NEW r \in Runs, NEW e \in Employees, callPayslip(solo, r, e)  PROVE CleanInv'
  <2> DEFINE h == [Idle EXCEPT !.pc = "payslip", !.rid = r, !.todo = {e}]
  <2>1. h.pc = "payslip"  BY DEF Idle
  <2> QED  BY <1>15, <2>1, CleanAway DEF callPayslip
<1> QED  BY <1>1, <1>2, <1>3, <1>4, <1>5, <1>6, <1>7, <1>8, <1>9, <1>10, <1>11, <1>12,
            <1>13, <1>14, <1>15 DEF Call

LEMMA StepClean ==
    ASSUME NEW CONSTANT solo, Tasks = {solo}, CleanInv, SoloInv', Step(solo)
    PROVE  CleanInv'
<1>h. task[solo] \in Frame /\ WellFormed(task[solo]) /\ Fresh(task[solo])
  BY DEF CleanInv, SoloInv, TypeInv, TypeOK
<1>i. SoloInv /\ ReviewedWithoutGrave /\ Clean(task[solo])  BY DEF CleanInv
<1>t. run \in [Runs -> RunDoc] /\ detail \in [Runs -> [Employees -> Seq(Outcome)]]
  BY DEF CleanInv, SoloInv, TypeInv, TypeOK
<1> DEFINE q == task[solo].rid
\* The step of a call that moves the run or a detail, and saves no run next.
<1>m. ASSUME task'[solo].pc # "saveRun",
             \A r \in Runs : \/ run'[r].status \in {DRAFT, REJECTED}
                             \/ /\ Born(r) \/ ~Born(r)'
                                /\ run[r].status \notin {DRAFT, REJECTED}
                                /\ detail'[r] = detail[r]
                             \/ ~Grave(r)'
      PROVE  CleanInv'
  <2>1. Clean(task[solo])'  BY <1>m DEF Clean
  <2>2. \A r \in Runs : detail'[r] = detail[r] => (Grave(r)' <=> Grave(r))
    BY DEF Grave
  <2>3. ReviewedWithoutGrave'
    BY <1>i, <1>m, <2>2 DEF ReviewedWithoutGrave, Grave, BornRuns
  <2> QED  BY <2>1, <2>3 DEF CleanInv
<1>u. ASSUME NEW r \in Runs, run'[r] = run[r], detail'[r] = detail[r]
      PROVE  \/ run'[r].status \in {DRAFT, REJECTED}
             \/ /\ Born(r) \/ ~Born(r)'
                /\ run[r].status \notin {DRAFT, REJECTED}
                /\ detail'[r] = detail[r]
             \/ ~Grave(r)'
  BY <1>u DEF Born
<1>1. ASSUME generatePayrollRunId(solo)  PROVE CleanInv'
  <2> DEFINE h(n) == [task[solo] EXCEPT !.pc = "insertRun", !.runId = n + 1]
  <2>1. PICK n \in {run[r].runId : r \in BornRuns} \cup {0} : Continue(solo, h(n))
    BY <1>1 DEF generatePayrollRunId
  <2>2. h(n).pc = "insertRun"  BY <1>h DEF Frame
  <2> QED  BY <1>1, <2>1, <2>2, CleanAway DEF generatePayrollRunId
<1>2. ASSUME NEW r \in Runs, insertRun(solo, r)  PROVE CleanInv'
  <2> DEFINE doc == NewRun(task[solo].runId)
             h == [task[solo] EXCEPT !.pc = task[solo].then, !.rid = r, !.seen = doc]
  <2>1. doc.status = DRAFT  BY DEF NewRun, NoDoc
  <2>2. /\ run' = [run EXCEPT ![r] = doc] /\ detail' = detail
        /\ task[solo].then \in {"idle", "calculate", "readRun"}
    BY <1>2, <1>h DEF insertRun, WellFormed
  <2>3. h.pc = task[solo].then /\ Idle.pc = "idle"  BY <1>h DEF Frame, Idle
  <2>4. Continue(solo, Idle) \/ Continue(solo, h)  BY <1>2 DEF insertRun, Return
  <2> HIDE DEF doc, h
  <2>5. task'[solo].pc # "saveRun"
    <3>1. task'[solo] = Idle \/ task'[solo] = h  BY <1>i, <2>4, SoloTask
    <3> QED  BY <2>2, <2>3, <3>1
  <2>6. run'[r] = doc /\ \A p \in Runs : p # r => run'[p] = run[p]  BY <1>t, <2>2
  <2> QED  BY <1>m, <1>u, <2>1, <2>2, <2>5, <2>6
<1>3. ASSUME insertDuplicate(solo)  PROVE CleanInv'
  BY <1>3, CleanReturn DEF insertDuplicate
<1>4. ASSUME readRun(solo)  PROVE CleanInv'
  <2> DEFINE h == [task[solo] EXCEPT !.pc = "calculate", !.seen = run[q]]
  <2>1. h.pc = "calculate"  BY <1>h DEF Frame
  <2>2. (Return(solo) \/ Continue(solo, h)) /\ OnlyTask  BY <1>4 DEF readRun
  <2> QED  BY <2>1, <2>2, CleanReturn, CleanAway
<1>5. ASSUME NEW e \in Employees, calculateEmployee(solo, e)  PROVE CleanInv'
  <2>1. PICK h : Continue(solo, h) /\ h.pc \in {"calculate", "saveDetail"}
    <3> DEFINE docs == detail[q][e]
               h1 == [task[solo] EXCEPT !.todo = @ \ {e}]
               h2 == [task[solo] EXCEPT !.pc = "saveDetail", !.eid = e, !.out = pay[e], !.idx = 0]
               h3(i) == [task[solo] EXCEPT !.pc = "saveDetail", !.eid = e, !.out = pay[e],
                                           !.base = docs[i], !.idx = i]
    <3>1. h1.pc = "calculate" /\ h2.pc = "saveDetail"
      BY <1>5, <1>h DEF calculateEmployee, Frame
    <3>2. \A i \in DOMAIN docs : h3(i).pc = "saveDetail"  BY <1>h DEF Frame
    <3>3. \/ Continue(solo, h1) \/ Continue(solo, h2)
          \/ \E i \in DOMAIN docs : Continue(solo, h3(i))
      BY <1>5 DEF calculateEmployee
    <3> HIDE DEF h1, h2, h3, docs
    <3> QED  BY <3>1, <3>2, <3>3
  <2> QED  BY <1>5, <2>1, CleanAway DEF calculateEmployee
<1>6. ASSUME saveDetail(solo)  PROVE CleanInv'
  <2> DEFINE h == [task[solo] EXCEPT !.pc = "calculate", !.todo = @ \ {task[solo].eid},
                                     !.sum = @ + task[solo].out.net]
  <2>1. Continue(solo, h) /\ run' = run /\ run[q].status = DRAFT
    BY <1>6, <1>h DEF saveDetail, Fresh
  <2>2. h.pc = "calculate"  BY <1>h DEF Frame
  <2> HIDE DEF h
  <2>3. task'[solo].pc # "saveRun"  BY <1>i, <2>1, <2>2, SoloTask
  <2>4. \A r \in Runs : r # q => detail'[r] = detail[r]  BY <1>6, <1>t DEF saveDetail
  <2> HIDE DEF q
  <2> QED  BY <1>m, <1>u, <2>1, <2>3, <2>4
<1>7. ASSUME saveTotals(solo)  PROVE CleanInv'
  <2> DEFINE read == task[solo].seen
             upd == [read EXCEPT !.total = task[solo].sum]
             s == Saved(run[q], read, upd)
  <2>1. q \in Runs /\ read \in RunDoc /\ task[solo].sum \in Nat
    BY <1>7, <1>h DEF saveTotals, WellFormed, Frame
  <2>2. upd \in RunDoc /\ upd.status = read.status  BY <2>1 DEF RunDoc
  <2>3. /\ run' = [run EXCEPT ![q] = s] /\ detail' = detail
        /\ Continue(solo, Idle) /\ run[q].status = DRAFT
    BY <1>7, <1>h DEF saveTotals, Return, Fresh
  <2> HIDE DEF upd, read, q
  <2>4. s.status = run[q].status  BY <1>t, <2>1, <2>2, SavedRun
  <2> HIDE DEF s
  <2>5. run'[q] = s /\ \A r \in Runs : r # q => run'[r] = run[r]  BY <1>t, <2>1, <2>3
  <2>6. task'[solo].pc # "saveRun"  BY <1>i, <2>3, SoloTask DEF Idle
  <2> QED  BY <1>m, <1>u, <2>3, <2>4, <2>5, <2>6
\* The one look at the details.
<1>8. ASSUME NEW before \in [Employees -> Earlier], detectPayrollIrregularities(solo, before)
      PROVE  CleanInv'
  <2> DEFINE h == [task[solo] EXCEPT !.pc = task[solo].then, !.then = "idle"]
  <2>1. h.rid = q  BY <1>h DEF Frame
  <2>2. (Return(solo) \/ (~HighSeverity(q, before) /\ Continue(solo, h))) /\ OnlyTask
    BY <1>8 DEF detectPayrollIrregularities
  <2> HIDE DEF h
  <2>3. ~HighSeverity(q, before) => Clean(h)
    BY <2>1 DEF Clean, Grave, HighSeverity
  <2> QED  BY <2>2, <2>3, CleanReturn, CleanMoved
<1>9. ASSUME forwardToFinance(solo)  PROVE CleanInv'
  <2> DEFINE h == [task[solo] EXCEPT !.pc = "saveRun", !.seen = run[q], !.upd = InFinance(run[q])]
  <2>1. q \in Runs  BY <1>9, <1>h DEF forwardToFinance, WellFormed
  <2>2. h.rid = q  BY <1>h DEF Frame
  <2>3. (Return(solo) \/ (run[q].status = UNDER_REVIEW /\ Continue(solo, h))) /\ OnlyTask
    BY <1>9 DEF forwardToFinance
  <2> HIDE DEF h, q
  <2>4. run[q].status = UNDER_REVIEW => Clean(h)
    BY <1>i, <2>1, <2>2
       DEF Clean, ReviewedWithoutGrave, Grave, BornRuns, Born, UNDER_REVIEW, DRAFT, REJECTED
  <2> QED  BY <2>3, <2>4, CleanReturn, CleanMoved
<1>10. ASSUME saveRun(solo)  PROVE CleanInv'
  <2> DEFINE h == [task[solo] EXCEPT !.pc = task[solo].then]
             upd == task[solo].upd
  <2>1. h.pc = task[solo].then /\ task[solo].then \in {"idle", "distribute"} /\ q \in Runs
    BY <1>10, <1>h DEF saveRun, WellFormed, Frame
  <2>2. Continue(solo, Idle) \/ Continue(solo, h)  BY <1>10 DEF saveRun, Return
  <2>3. /\ task[solo].pc = "saveRun" /\ detail' = detail
        /\ run' = [run EXCEPT ![q] = Saved(run[q], task[solo].seen, upd)]
    BY <1>10 DEF saveRun
  <2>4. task[solo].seen = run[q]  BY <1>h, <2>3 DEF Fresh, Saving
  <2>5. upd \in RunDoc /\ run[q] \in RunDoc  BY <1>t, <1>h, <2>1 DEF Frame
  <2>6. upd.status \in {DRAFT, REJECTED} \/ ~Grave(q)  BY <1>i, <2>3 DEF Clean
  <2>7. task'[solo].pc # "saveRun"
    <3> HIDE DEF h
    <3>1. task'[solo] = Idle \/ task'[solo] = h  BY <1>i, <2>2, SoloTask
    <3> QED  BY <2>1, <3>1 DEF Idle
  <2> HIDE DEF upd, q, h
  <2>8. run'[q] = upd /\ \A r \in Runs : r # q => run'[r] = run[r]
    BY <1>t, <2>1, <2>3, <2>4, <2>5, SavedOver
  <2>9. \A r \in Runs : Grave(r)' <=> Grave(r)  BY <2>3 DEF Grave
  <2>10. ASSUME NEW r \in Runs
         PROVE  \/ run'[r].status \in {DRAFT, REJECTED}
                \/ /\ Born(r) \/ ~Born(r)'
                   /\ run[r].status \notin {DRAFT, REJECTED}
                   /\ detail'[r] = detail[r]
                \/ ~Grave(r)'
    <3>1. CASE r = q  BY <2>6, <2>8, <2>9, <3>1
    <3>2. CASE r # q  BY <1>u, <2>3, <2>8, <3>2
    <3> QED  BY <3>1, <3>2
  <2> QED  BY <1>m, <2>7, <2>10
<1>11. ASSUME generateAndDistribute(solo)  PROVE CleanInv'
  <2> DEFINE h == [task[solo] EXCEPT !.pc = "batch"]
  <2>1. h.pc = "batch"  BY <1>h DEF Frame
  <2>2. (Return(solo) \/ Continue(solo, h)) /\ OnlyTask  BY <1>11 DEF generateAndDistribute
  <2> QED  BY <2>1, <2>2, CleanReturn, CleanAway
<1>12. ASSUME generatePayslipsForPayrollRun(solo)  PROVE CleanInv'
  <2> DEFINE S == {e \in Employees : detail[q][e] # <<>>}
             h == [task[solo] EXCEPT !.pc = "payslip", !.todo = S]
  <2>1. h.pc = "payslip"  BY <1>h DEF Frame
  <2>2. (Return(solo) \/ Continue(solo, h)) /\ OnlyTask
    BY <1>12 DEF generatePayslipsForPayrollRun
  <2> QED  BY <2>1, <2>2, CleanReturn, CleanAway
<1>13. ASSUME NEW e \in Employees, generatePayslip(solo, e)  PROVE CleanInv'
  <2>1. PICK h : Continue(solo, h) /\ h.pc \in {"payslip", "saveSlip"}
    <3> DEFINE docs == slip[q][e]
               h1 == [task[solo] EXCEPT !.todo = @ \ {e}]
               h2(i) == [task[solo] EXCEPT !.pc = "saveSlip", !.eid = e, !.out = pay[e], !.idx = i]
    <3>1. h1.pc = "payslip" /\ \A i : h2(i).pc = "saveSlip"
      BY <1>13, <1>h DEF generatePayslip, Frame
    <3>2. Continue(solo, h1) \/ Continue(solo, h2(0)) \/ \E i \in DOMAIN docs : Continue(solo, h2(i))
      BY <1>13 DEF generatePayslip
    <3> HIDE DEF h1, h2, docs
    <3> QED  BY <3>1, <3>2
  <2> QED  BY <1>13, <2>1, CleanAway DEF generatePayslip
<1>14. ASSUME saveSlip(solo)  PROVE CleanInv'
  <2> DEFINE h == [task[solo] EXCEPT !.pc = "payslip", !.todo = @ \ {task[solo].eid}]
  <2>1. Continue(solo, h) /\ run' = run /\ detail' = detail  BY <1>14 DEF saveSlip
  <2>2. h.pc = "payslip"  BY <1>h DEF Frame
  <2> HIDE DEF h
  <2>3. task'[solo].pc # "saveRun"  BY <1>i, <2>1, <2>2, SoloTask
  <2> QED  BY <1>m, <1>u, <2>1, <2>3
<1>15. ASSUME payslipsDone(solo)  PROVE CleanInv'
  BY <1>15, CleanReturn DEF payslipsDone
<1> QED  BY <1>1, <1>2, <1>3, <1>4, <1>5, <1>6, <1>7, <1>8, <1>9, <1>10, <1>11, <1>12,
            <1>13, <1>14, <1>15 DEF Step

\* While calls do not overlap, and by the route of sending a run on, no run is
\* reviewed by the manager, or taken further, with a detail that lacks an account
\* or loses more than 60% of its gross (sendForManagerApproval, which finds the
\* irregularities after it has read the run).  The other route, reviewPayrollRun, does not look and is excepted.
THEOREM SerialReviewedWithoutGrave ==
    ASSUME NEW CONSTANT solo, Tasks = {solo}, "approve" \notin Ops
    PROVE  Spec => []ReviewedWithoutGrave
<1>1. Init => CleanInv \/ ~SoloInv
  <2> SUFFICES ASSUME Init, SoloInv  PROVE CleanInv
    OBVIOUS
  <2>1. BornRuns = {}  BY DEF Init, BornRuns, Born, NoDoc
  <2>2. \A t \in Tasks : task[t].pc = "idle"  BY DEF Init, Idle
  <2> QED  BY <2>1, <2>2 DEF CleanInv, ReviewedWithoutGrave, Clean
<1>2. CleanInv /\ [Next]_vars /\ SoloInv' => CleanInv'
  <2> SUFFICES ASSUME CleanInv, [Next]_vars, SoloInv'  PROVE CleanInv'
    OBVIOUS
  <2>s. ASSUME run' = run, detail' = detail, task' = task \/ task'[solo].pc = "idle"
        PROVE  CleanInv'
    BY <2>s DEF CleanInv, ReviewedWithoutGrave, Grave, BornRuns, Born, Clean
  <2>1. CASE UNCHANGED vars  BY <2>1, <2>s DEF vars
  <2>2. CASE inputsChange  BY <2>2, <2>s DEF inputsChange
  <2>3. CASE restart
    <3>1. run' = run /\ detail' = detail /\ task'[solo] = Idle  BY <2>3 DEF restart, OnlyTask
    <3> QED  BY <3>1, <2>s DEF Idle
  <2> QED  BY <2>1, <2>2, <2>3, CallClean, StepClean DEF Next
<1>3. CleanInv => ReviewedWithoutGrave  BY DEF CleanInv
<1> QED  BY <1>1, <1>2, <1>3, SoloInvariant, PTL DEF Spec

-----------------------------------------------------------------------------
(* The totals.  While the only call calculates, it has added up the net pay *)
(* on the stored details of the employees it is done with; any other time   *)
(* the total of a run is what all its details pay.                          *)

Calculating(h) == h.pc \in {"calculate", "saveDetail"}

\* What the only call has added up so far, and what it will save as a total.
Counted(h) ==
    /\ h.pc = "readRun" \/ (h.pc \in {"nextId", "insertRun"} /\ h.then # "idle")
          => h.todo = Employees /\ h.sum = 0
    /\ Calculating(h) => h.sum = SumFunctionOnSet(NetOf(detail[h.rid]), Employees \ h.todo)
    /\ h.pc = "saveDetail" =>
          /\ h.eid \in h.todo
          /\ h.out.ok /\ pay[h.eid].ok
          /\ h.idx # 0 => /\ h.idx \in DOMAIN detail[h.rid][h.eid]
                          /\ h.base = detail[h.rid][h.eid][h.idx]
    /\ Saving(h) => h.upd.total = h.seen.total /\ h.upd.status # "absent"

Balanced(r, h) == (Calculating(h) /\ h.rid = r) \/ run[r].total = NetPay(detail[r])

\* Whoever has a stored detail is still paid.
DetailsValid == \A r \in Runs, e \in Employees : detail[r][e] # <<>> => pay[e].ok

CountInv ==
    /\ SoloInv /\ DetailsValid
    /\ \A r \in Runs : ~Born(r) => run[r].total = 0
    /\ \A t \in Tasks : Counted(task[t]) /\ \A r \in Runs : Balanced(r, task[t])

\* What makes the sums comparable: whole runs are calculated, no total comes
\* from elsewhere, no calculation is cut short, and an employee once paid is
\* not dropped from a later calculation.
WholeCalculations ==
    /\ Selections \subseteq {Employees}
    /\ Totals = {}
    /\ "restart" \notin Ops
    /\ "inputsChange" \notin Ops \/ \A o \in Outcomes : o.ok

LEMMA NetsType ==
    ASSUME NEW d, d \in [Employees -> Seq(Outcome)]
    PROVE  \A e \in Employees :
              NetOf(d)[e] \in Nat /\ NetOf(d)[e] = (IF d[e] = <<>> THEN 0 ELSE d[e][1].net)
<1> SUFFICES ASSUME NEW e \in Employees
             PROVE  NetOf(d)[e] \in Nat /\ NetOf(d)[e] = (IF d[e] = <<>> THEN 0 ELSE d[e][1].net)
  OBVIOUS
<1>1. d[e] \in Seq(Outcome)  OBVIOUS
<1>2. d[e] # <<>> => d[e][1] \in Outcome  BY <1>1
<1> QED  BY <1>2 DEF NetOf, Outcome

\* The one document after a save is the one that was saved.
LEMMA PutFirst ==
    ASSUME NEW S, NEW docs \in Seq(S), NEW i \in Nat, NEW doc, Len(docs) <= 1,
           IF i = 0 THEN docs = <<>> ELSE i \in DOMAIN docs
    PROVE  Put(docs, i, doc) # <<>> /\ Put(docs, i, doc)[1] = doc
<1>1. CASE i = 0
  <2>1. Put(docs, i, doc) = Append(<<>>, doc)  BY <1>1 DEF Put
  <2> QED  BY <2>1
<1>2. CASE i # 0
  <2>1. Put(docs, i, doc) = [docs EXCEPT ![i] = doc]  BY <1>2 DEF Put
  <2>2. i = 1 /\ 1 \in DOMAIN docs  BY <1>2
  <2>3. Put(docs, i, doc)[1] = doc /\ 1 \in DOMAIN Put(docs, i, doc)  BY <2>1, <2>2
  <2> QED  BY <2>3
<1> QED  BY <1>1, <1>2

LEMMA SavedOutcomeOver ==
    ASSUME NEW d \in Outcome, NEW out \in Outcome
    PROVE  Saved(d, d, out) = out
<1> DEFINE F == {"ok", "draws", "net", "grave", "listed"}
<1>1. DOMAIN d = F  BY DEF Outcome
<1>2. Saved(d, d, out) = [f \in F |-> out[f]]  BY <1>1 DEF Saved
<1>3. out = [f \in F |-> out[f]]  BY DEF Outcome
<1> QED  BY <1>2, <1>3

LEMMA IdleCounted == Counted(Idle) /\ ~Calculating(Idle)
  BY IdleNotSaving DEF Counted, Calculating, Idle

\* A step of the only call that leaves the runs, their details and the inputs.
LEMMA CountMoved ==
    ASSUME NEW CONSTANT solo, Tasks = {solo}, CountInv, SoloInv',
           UNCHANGED <<run, detail, pay>>, NEW h, Continue(solo, h), Counted(h),
           Calculating(task[solo]) => Calculating(h) /\ h.rid = task[solo].rid
    PROVE  CountInv'
<1>1. task'[solo] = h  BY SoloTask DEF CountInv
<1>2. Counted(task[solo])'  BY <1>1 DEF Counted, Saving, Calculating
<1>3. \A r \in Runs : Balanced(r, task[solo])'
  BY <1>1 DEF CountInv, Balanced, Calculating
<1>4. DetailsValid' /\ \A r \in Runs : (~Born(r) => run[r].total = 0)'
  BY DEF CountInv, DetailsValid, Born
<1> QED  BY <1>2, <1>3, <1>4 DEF CountInv

\* A call that has nothing to add up.
LEMMA CountAway ==
    ASSUME NEW CONSTANT solo, Tasks = {solo}, CountInv, SoloInv',
           UNCHANGED <<run, detail, pay>>, NEW h, Continue(solo, h),
           ~Calculating(task[solo]),
           \/ h.pc \in {"idle", "forward", "distribute", "batch", "payslip", "saveSlip"}
           \/ h.pc = "inspect" /\ h.then = "forward"
           \/ h.pc = "nextId" /\ h.then = "idle"
    PROVE  CountInv'
<1>1. Counted(h)  BY DEF Counted, Calculating, Saving
<1> QED  BY <1>1, CountMoved

LEMMA CountReturn ==
    ASSUME NEW CONSTANT solo, Tasks = {solo}, CountInv, SoloInv',
           UNCHANGED <<run, detail, pay>>, Return(solo), ~Calculating(task[solo])
    PROVE  CountInv'
  BY IdleCounted, CountMoved DEF Return

LEMMA CountHandle ==
    ASSUME NEW CONSTANT solo, Tasks = {solo}, CountInv, SoloInv', NEW r \in Runs,
           NEW upd, NEW pc \in {"inspect", "saveRun"}, NEW then,
           Handle(solo, r, pc, then, upd), task[solo].pc = "idle",
           \/ pc = "inspect" /\ then # "saveRun"
           \/ upd.total = run[r].total /\ upd.status # "absent"
    PROVE  CountInv'
<1> DEFINE h == [Idle EXCEPT !.pc = pc, !.then = then, !.rid = r, !.seen = run[r], !.upd = upd]
<1>1. h.pc = pc /\ h.then = then /\ h.upd = upd /\ h.seen = run[r]
  BY IdleType DEF Frame
<1>2. Continue(solo, h) /\ UNCHANGED <<run, detail, pay>>  BY DEF Handle, OnlyTask
<1> HIDE DEF h
<1>3. Counted(h) /\ ~Calculating(task[solo])  BY <1>1 DEF Counted, Calculating, Saving
<1> QED  BY <1>2, <1>3, CountMoved

LEMMA CallCounted ==
    ASSUME NEW CONSTANT solo, Tasks = {solo}, WholeCalculations, CountInv, SoloInv', Call(solo)
    PROVE  CountInv'
<1>r. \A r \in Runs : run[r] \in RunDoc  BY DEF CountInv, SoloInv, TypeInv, TypeOK
<1>i. task[solo].pc = "idle"
  BY DEF Call, process, calculateNew, generateDraft, calculate, reviewApprove,
         reviewReject, editPayrollRun, sendForManagerApproval, sendForFinanceApproval,
         managerReviewAndApprove, finalApprovalByFinance, lockPayroll, unlockPayroll,
         callPayslips, callPayslip, Receives
<1>c. ~Calculating(task[solo])  BY <1>i DEF Calculating
<1>s. \A S \in Selections : S = Employees  BY DEF WholeCalculations
<1>n. /\ DRAFT \in PayRollStatus /\ UNDER_REVIEW \in PayRollStatus
      /\ PENDING_FINANCE_APPROVAL \in PayRollStatus /\ REJECTED \in PayRollStatus
      /\ APPROVED \in PayRollStatus /\ LOCKED \in PayRollStatus /\ UNLOCKED \in PayRollStatus
  BY DEF PayRollStatus
<1>1. ASSUME process(solo)  PROVE CountInv'
  <2> DEFINE h == [Idle EXCEPT !.pc = "nextId"]
  <2>1. h.pc = "nextId" /\ h.then = "idle"  BY DEF Idle
  <2>2. Continue(solo, h) /\ UNCHANGED <<run, detail, pay>>  BY <1>1 DEF process, OnlyTask
  <2> HIDE DEF h
  <2> QED  BY <1>c, <2>1, <2>2, CountAway
<1>2. ASSUME NEW S \in Selections, calculateNew(solo, S)  PROVE CountInv'
  <2> DEFINE h == [Idle EXCEPT !.pc = "nextId", !.then = "calculate", !.todo = S]
  <2>1. h.pc = "nextId" /\ h.todo = Employees /\ h.sum = 0  BY <1>s DEF Idle
  <2>2. Continue(solo, h) /\ UNCHANGED <<run, detail, pay>>  BY <1>2 DEF calculateNew, OnlyTask
  <2> HIDE DEF h
  <2>3. Counted(h)  BY <2>1 DEF Counted, Calculating, Saving
  <2> QED  BY <1>c, <2>2, <2>3, CountMoved
<1>3. ASSUME generateDraft(solo)  PROVE CountInv'
  <2> DEFINE h == [Idle EXCEPT !.pc = "nextId", !.then = "readRun", !.todo = Employees]
  <2>1. h.pc = "nextId" /\ h.todo = Employees /\ h.sum = 0  BY DEF Idle
  <2>2. Continue(solo, h) /\ UNCHANGED <<run, detail, pay>>  BY <1>3 DEF generateDraft, OnlyTask
  <2> HIDE DEF h
  <2>3. Counted(h)  BY <2>1 DEF Counted, Calculating, Saving
  <2> QED  BY <1>c, <2>2, <2>3, CountMoved
<1>4. ASSUME NEW r \in Runs, NEW S \in Selections, calculate(solo, r, S)  PROVE CountInv'
  <2> DEFINE h == [Idle EXCEPT !.pc = "calculate", !.rid = r, !.seen = run[r], !.todo = S]
  <2>1. h.pc = "calculate" /\ h.todo = Employees /\ h.sum = 0  BY <1>s DEF Idle
  <2>2. Continue(solo, h) /\ UNCHANGED <<run, detail, pay>>  BY <1>4 DEF calculate, OnlyTask
  <2> HIDE DEF h
  <2>3. Employees \ h.todo = {}  BY <2>1
  <2>4. Counted(h)  BY <2>1, <2>3, SumEmpty DEF Counted, Calculating, Saving
  <2> QED  BY <1>c, <2>2, <2>4, CountMoved
\* A decision that keeps the total of the run.
<1>d. ASSUME NEW r \in Runs, NEW upd, upd.total = run[r].total,
             upd.status \in PayRollStatus,
             NEW pc \in {"inspect", "saveRun"}, NEW then, Handle(solo, r, pc, then, upd)
      PROVE  CountInv'
  BY <1>d, <1>i, NotAbsent, CountHandle
<1>5. ASSUME NEW r \in Runs, reviewApprove(solo, r)  PROVE CountInv'
  <2> DEFINE u1 == [run[r] EXCEPT !.status = UNDER_REVIEW, !.managerApproval = TRUE]
             u2 == [run[r] EXCEPT !.status = PENDING_FINANCE_APPROVAL, !.financeApproval = TRUE]
             u3 == [run[r] EXCEPT !.status = APPROVED, !.paid = TRUE]
  <2>1. \A u \in {u1, u2, u3} : u.total = run[r].total /\ u.status \in PayRollStatus
    BY <1>r, <1>n DEF RunDoc
  <2>2. \E u \in {u1, u2, u3} : Handle(solo, r, "saveRun", "idle", u)
    BY <1>5 DEF reviewApprove, Decide
  <2> HIDE DEF u1, u2, u3
  <2> QED  BY <2>1, <2>2, <1>d
<1>6. ASSUME NEW r \in Runs, reviewReject(solo, r)  PROVE CountInv'
  <2> DEFINE upd == [run[r] EXCEPT !.status = REJECTED]
  <2>1. upd.total = run[r].total /\ upd.status \in PayRollStatus  BY <1>r, <1>n DEF RunDoc
  <2> QED  BY <1>6, <2>1, <1>d DEF reviewReject, Decide
<1>7. ASSUME NEW r \in Runs, NEW b \in BOOLEAN, NEW n \in Totals \cup {run[r].total},
             editPayrollRun(solo, r, n, b)
      PROVE CountInv'
  <2>1. n = run[r].total  BY DEF WholeCalculations
  <2> DEFINE upd == [run[r] EXCEPT !.status = DRAFT, !.total = n, !.here = b]
  <2>2. upd.total = run[r].total /\ upd.status \in PayRollStatus
    BY <1>r, <1>n, <2>1 DEF RunDoc
  <2> QED  BY <1>7, <2>2, <1>d DEF editPayrollRun, Decide
<1>8. ASSUME NEW r \in Runs, sendForManagerApproval(solo, r)  PROVE CountInv'
  <2> DEFINE upd == [run[r] EXCEPT !.status = UNDER_REVIEW]
  <2>1. upd.total = run[r].total /\ upd.status \in PayRollStatus  BY <1>r, <1>n DEF RunDoc
  <2> QED  BY <1>8, <2>1, <1>d DEF sendForManagerApproval
<1>9. ASSUME NEW r \in Runs, sendForFinanceApproval(solo, r)  PROVE CountInv'
  <2>1. /\ InFinance(run[r]).total = run[r].total
        /\ InFinance(run[r]).status \in PayRollStatus
    BY <1>r, <1>n DEF RunDoc, InFinance
  <2> QED  BY <1>9, <2>1, <1>d DEF sendForFinanceApproval, Decide
<1>10. ASSUME NEW r \in Runs, managerReviewAndApprove(solo, r)  PROVE CountInv'
  BY <1>10, <1>i, CountHandle DEF managerReviewAndApprove
<1>11. ASSUME NEW r \in Runs, finalApprovalByFinance(solo, r)  PROVE CountInv'
  <2> DEFINE upd == [run[r] EXCEPT !.status = APPROVED, !.paid = TRUE, !.financeApproval = TRUE]
  <2>1. upd.total = run[r].total /\ upd.status \in PayRollStatus  BY <1>r, <1>n DEF RunDoc
  <2> QED  BY <1>11, <2>1, <1>d DEF finalApprovalByFinance
<1>12. ASSUME NEW r \in Runs, lockPayroll(solo, r)  PROVE CountInv'
  <2> DEFINE upd == [run[r] EXCEPT !.status = LOCKED]
  <2>1. upd.total = run[r].total /\ upd.status \in PayRollStatus  BY <1>r, <1>n DEF RunDoc
  <2> QED  BY <1>12, <2>1, <1>d DEF lockPayroll, Decide
<1>13. ASSUME NEW r \in Runs, unlockPayroll(solo, r)  PROVE CountInv'
  <2> DEFINE upd == [run[r] EXCEPT !.status = UNLOCKED]
  <2>1. upd.total = run[r].total /\ upd.status \in PayRollStatus  BY <1>r, <1>n DEF RunDoc
  <2> QED  BY <1>13, <2>1, <1>d DEF unlockPayroll, Decide
<1>14. ASSUME NEW r \in Runs, callPayslips(solo, r)  PROVE CountInv'
  <2> DEFINE h == [Idle EXCEPT !.pc = "batch", !.rid = r]
  <2>1. h.pc = "batch"  BY DEF Idle
  <2>2. Continue(solo, h) /\ UNCHANGED <<run, detail, pay>>  BY <1>14 DEF callPayslips, OnlyTask
  <2> HIDE DEF h
  <2> QED  BY <1>c, <2>1, <2>2, CountAway
<1>15. ASSUME NEW r \in Runs, NEW e \in Employees, callPayslip(solo, r, e)  PROVE CountInv'
  <2> DEFINE h == [Idle EXCEPT !.pc = "payslip", !.rid = r, !.todo = {e}]
  <2>1. h.pc = "payslip"  BY DEF Idle
  <2>2. Continue(solo, h) /\ UNCHANGED <<run, detail, pay>>  BY <1>15 DEF callPayslip, OnlyTask
  <2> HIDE DEF h
  <2> QED  BY <1>c, <2>1, <2>2, CountAway
<1> QED  BY <1>1, <1>2, <1>3, <1>4, <1>5, <1>6, <1>7, <1>8, <1>9, <1>10, <1>11, <1>12,
            <1>13, <1>14, <1>15 DEF Call

LEMMA StepCounted ==
    ASSUME NEW CONSTANT solo, Tasks = {solo}, CountInv, SoloInv', Step(solo)
    PROVE  CountInv'
<1>h. task[solo] \in Frame /\ WellFormed(task[solo]) /\ Fresh(task[solo]) /\ Counted(task[solo])
  BY DEF CountInv, SoloInv, TypeInv, TypeOK
<1>t. /\ run \in [Runs -> RunDoc] /\ pay \in [Employees -> Outcome]
      /\ detail \in [Runs -> [Employees -> Seq(Outcome)]]
  BY DEF CountInv, SoloInv, TypeInv, TypeOK
<1>c. /\ SoloInv /\ DetailsValid
      /\ \A r \in Runs : (~Born(r) => run[r].total = 0) /\ Balanced(r, task[solo])
  BY DEF CountInv
<1>f. IsFiniteSet(Employees)  BY PayrollAssumption
<1> DEFINE q == task[solo].rid
\* The parts of the invariant, of a step that changes a run or a detail.
<1>m. ASSUME DetailsValid', Counted(task[solo])',
             \A r \in Runs : (~Born(r) => run[r].total = 0)' /\ Balanced(r, task[solo])'
      PROVE  CountInv'
  BY <1>m DEF CountInv
<1>1. ASSUME generatePayrollRunId(solo)  PROVE CountInv'
  <2> DEFINE h(n) == [task[solo] EXCEPT !.pc = "insertRun", !.runId = n + 1]
  <2>1. PICK n \in {run[r].runId : r \in BornRuns} \cup {0} : Continue(solo, h(n))
    BY <1>1 DEF generatePayrollRunId
  <2>2. h(n).pc = "insertRun" /\ h(n).then = task[solo].then /\ h(n).todo = task[solo].todo
        /\ h(n).sum = task[solo].sum
    BY <1>h DEF Frame
  <2>3. task[solo].pc = "nextId" /\ UNCHANGED <<run, detail, pay>>
    BY <1>1 DEF generatePayrollRunId, OnlyTask
  <2> HIDE DEF h
  <2>4. Counted(h(n)) /\ ~Calculating(task[solo])
    BY <1>h, <2>2, <2>3 DEF Counted, Calculating, Saving
  <2> QED  BY <2>1, <2>3, <2>4, CountMoved
<1>2. ASSUME NEW r \in Runs, insertRun(solo, r)  PROVE CountInv'
  <2> DEFINE doc == NewRun(task[solo].runId)
             h == [task[solo] EXCEPT !.pc = task[solo].then, !.rid = r, !.seen = doc]
  <2>1. doc.total = 0  BY DEF NewRun, NoDoc
  <2>2. /\ run' = [run EXCEPT ![r] = doc] /\ detail' = detail /\ pay' = pay /\ ~Born(r)
        /\ task[solo].pc = "insertRun" /\ task[solo].then \in {"idle", "calculate", "readRun"}
    BY <1>2, <1>h DEF insertRun, WellFormed
  <2>3. /\ h.pc = task[solo].then /\ h.todo = task[solo].todo /\ h.sum = task[solo].sum
        /\ h.then = task[solo].then
    BY <1>h DEF Frame
  <2>4. IF task[solo].then = "idle" THEN Continue(solo, Idle) ELSE Continue(solo, h)
    BY <1>2 DEF insertRun, Return
  <2> HIDE DEF doc, h
  <2>5. IF task[solo].then = "idle" THEN task'[solo] = Idle ELSE task'[solo] = h
    BY <1>c, <2>4, SoloTask
  <2>6. run'[r].total = run[r].total /\ run[r].total = 0 /\ \A p \in Runs : p # r => run'[p] = run[p]
    BY <1>t, <1>c, <2>1, <2>2
  <2>7. \A p \in Runs : run[p].total = NetPay(detail[p])
    BY <1>c, <2>2 DEF Balanced, Calculating
  <2>8. \A p \in Runs : (~Born(p) => run[p].total = 0)' /\ Balanced(p, task[solo])'
    BY <1>c, <2>2, <2>6, <2>7 DEF Balanced, Born
  <2>9. DetailsValid'  BY <1>c, <2>2 DEF DetailsValid
  <2>10. Counted(task[solo])'
    <3>1. CASE task[solo].then = "idle"
      BY <2>5, <3>1, IdleNotSaving DEF Counted, Calculating, Idle
    <3>2. CASE task[solo].then # "idle"
      <4>1. h.todo = Employees /\ h.sum = 0 /\ h.pc \in {"calculate", "readRun"}
        BY <1>h, <2>2, <2>3, <3>2 DEF Counted
      <4>2. Employees \ h.todo = {} /\ task'[solo] = h  BY <4>1, <2>5, <3>2
      <4> QED  BY <4>1, <4>2, SumEmpty DEF Counted, Calculating, Saving
    <3> QED  BY <3>1, <3>2
  <2> QED  BY <1>m, <2>8, <2>9, <2>10
<1>3. ASSUME insertDuplicate(solo)  PROVE CountInv'
  BY <1>3, CountReturn DEF insertDuplicate, OnlyTask, Calculating
<1>4. ASSUME readRun(solo)  PROVE CountInv'
  <2> DEFINE h == [task[solo] EXCEPT !.pc = "calculate", !.seen = run[q]]
  <2>1. h.pc = "calculate" /\ h.todo = task[solo].todo /\ h.sum = task[solo].sum
    BY <1>h DEF Frame
  <2>2. /\ Return(solo) \/ Continue(solo, h)
        /\ UNCHANGED <<run, detail, pay>> /\ task[solo].pc = "readRun"
    BY <1>4 DEF readRun, OnlyTask
  <2> HIDE DEF h
  <2>3. h.todo = Employees /\ h.sum = 0  BY <1>h, <2>1, <2>2 DEF Counted
  <2>4. Employees \ h.todo = {}  BY <2>3
  <2>5. Counted(h)  BY <2>1, <2>3, <2>4, SumEmpty DEF Counted, Calculating, Saving
  <2>6. ~Calculating(task[solo])  BY <2>2 DEF Calculating
  <2> QED  BY <2>2, <2>5, <2>6, CountReturn, CountMoved
<1>5. ASSUME NEW e \in Employees, calculateEmployee(solo, e)  PROVE CountInv'
  <2> DEFINE docs == detail[q][e]
             h1 == [task[solo] EXCEPT !.todo = @ \ {e}]
             h2 == [task[solo] EXCEPT !.pc = "saveDetail", !.eid = e, !.out = pay[e], !.idx = 0]
             h3(i) == [task[solo] EXCEPT !.pc = "saveDetail", !.eid = e, !.out = pay[e],
                                         !.base = docs[i], !.idx = i]
             N == NetOf(detail[q])
  <2>1. /\ task[solo].pc = "calculate" /\ q \in Runs /\ e \in task[solo].todo
        /\ UNCHANGED <<run, detail, pay>> /\ task[solo].todo \subseteq Employees
    BY <1>5, <1>h DEF calculateEmployee, WellFormed, OnlyTask, Frame
  <2>2. /\ h1.pc = "calculate" /\ h1.rid = q /\ h1.sum = task[solo].sum
        /\ h1.todo = task[solo].todo \ {e}
        /\ h2.pc = "saveDetail" /\ h2.rid = q /\ h2.sum = task[solo].sum
        /\ h2.todo = task[solo].todo /\ h2.eid = e /\ h2.out = pay[e] /\ h2.idx = 0
    BY <2>1, <1>h DEF Frame
  <2>3. \A i : /\ h3(i).pc = "saveDetail" /\ h3(i).rid = q /\ h3(i).sum = task[solo].sum
               /\ h3(i).todo = task[solo].todo /\ h3(i).eid = e /\ h3(i).out = pay[e]
               /\ h3(i).idx = i /\ h3(i).base = docs[i]
    BY <1>h DEF Frame
  <2>4. \/ ~pay[e].ok /\ Continue(solo, h1)
        \/ pay[e].ok /\ Continue(solo, h2)
        \/ pay[e].ok /\ \E i \in DOMAIN docs : Continue(solo, h3(i))
    BY <1>5 DEF calculateEmployee
  <2>5. task[solo].sum = SumFunctionOnSet(N, Employees \ task[solo].todo)
    BY <1>h, <2>1 DEF Counted, Calculating
  <2>6. \A x \in Employees : N[x] \in Nat /\ N[x] = (IF detail[q][x] = <<>> THEN 0 ELSE detail[q][x][1].net)
    BY <1>t, <2>1, NetsType
  <2>d. docs = detail[q][e] /\ N = NetOf(detail[q]) /\ q = task[solo].rid  OBVIOUS
  <2> HIDE DEF h1, h2, h3, docs, q, N
  <2>7. ASSUME ~pay[e].ok  PROVE Counted(h1)
    <3>1. N[e] = 0  BY <1>c, <2>1, <2>6, <2>7 DEF DetailsValid
    <3>2. Employees \ h1.todo = (Employees \ task[solo].todo) \cup {e}  BY <2>1, <2>2
    <3>3. IsFiniteSet(Employees \ task[solo].todo)  BY <1>f, FS_Difference
    <3> DEFINE D == Employees \ task[solo].todo
    <3>4. e \notin D /\ \A y \in D \cup {e} : N[y] \in Int  BY <2>1, <2>6
    <3>5. SumFunctionOnSet(N, D) \in Int  BY <3>3, <3>4, SumInt
    <3>6. SumFunctionOnSet(N, D \cup {e}) = SumFunctionOnSet(N, D)
      <4> HIDE DEF D
      <4>1. SumFunctionOnSet(N, D \cup {e}) = N[e] + SumFunctionOnSet(N, D)
        BY <3>3, <3>4, SumAdd DEF D
      <4> QED  BY <4>1, <3>1, <3>5
    <3> QED  BY <2>d, <2>2, <2>5, <3>2, <3>6 DEF Counted, Calculating, Saving
  <2>8. pay[e].ok => Counted(h2)
    BY <2>d, <2>1, <2>2, <2>5 DEF Counted, Calculating, Saving
  <2>9. ASSUME NEW i \in DOMAIN docs, pay[e].ok  PROVE Counted(h3(i))
    <3>1. PICK h : h = h3(i)  OBVIOUS
    <3>2. /\ h.pc = "saveDetail" /\ h.rid = q /\ h.sum = task[solo].sum
          /\ h.todo = task[solo].todo /\ h.eid = e /\ h.out = pay[e]
          /\ h.idx = i /\ h.base = docs[i]
      BY <2>3, <3>1
    <3>3. Counted(h)
      BY <2>d, <2>1, <2>5, <2>9, <3>2 DEF Counted, Calculating, Saving
    <3> QED  BY <3>1, <3>3
  <2>10. PICK h : /\ Continue(solo, h) /\ Counted(h) /\ h.rid = q
                  /\ h.pc \in {"calculate", "saveDetail"}
    BY <2>2, <2>3, <2>4, <2>7, <2>8, <2>9
  <2> QED  BY <2>d, <2>1, <2>10, CountMoved DEF Calculating
<1>6. ASSUME saveDetail(solo)  PROVE CountInv'
  <2> DEFINE e == task[solo].eid
             i == task[solo].idx
             out == task[solo].out
             docs == detail[q][e]
             doc == IF i = 0 THEN out ELSE Saved(docs[i], task[solo].base, out)
             put == Put(docs, i, doc)
             h == [task[solo] EXCEPT !.pc = "calculate", !.todo = @ \ {e}, !.sum = @ + out.net]
             T == task[solo].todo
             D == Employees \ T
             N == NetOf(detail[q])
  <2>1. /\ q \in Runs /\ e \in Employees /\ i \in Nat /\ out \in Outcome /\ T \subseteq Employees
        /\ task[solo].pc = "saveDetail" /\ task[solo].sum \in Nat
    BY <1>6, <1>h DEF saveDetail, WellFormed, Frame
  <2>2. h.pc = "calculate" /\ h.rid = q /\ h.todo = T \ {e} /\ h.sum = task[solo].sum + out.net
    BY <1>h DEF Frame
  <2>3. /\ detail' = [detail EXCEPT ![q][e] = put]
        /\ Continue(solo, h) /\ run' = run /\ pay' = pay
    BY <1>6 DEF saveDetail
  <2>4. /\ e \in T /\ out.ok /\ pay[e].ok
        /\ IF i = 0 THEN docs = <<>> ELSE i \in DOMAIN docs /\ task[solo].base = docs[i]
        /\ task[solo].sum = SumFunctionOnSet(N, D)
    BY <1>h, <2>1 DEF Fresh, Counted, Calculating
  <2>5. docs \in Seq(Outcome) /\ Len(docs) <= 1
    BY <1>t, <1>c, <2>1 DEF SoloInv, OneDocumentEach
  <2>6. doc = out
    <3>1. CASE i = 0  BY <3>1
    <3>2. CASE i # 0
      <4>1. docs[i] \in Outcome  BY <2>4, <2>5, <3>2
      <4> HIDE DEF docs, out
      <4> QED  BY <2>1, <2>4, <3>2, <4>1, SavedOutcomeOver
    <3> QED  BY <3>1, <3>2
  <2>7. put # <<>> /\ put[1] = out
    <3> HIDE DEF docs, doc, i, out
    <3> QED  BY <2>1, <2>4, <2>5, <2>6, PutFirst
  <2>8. /\ detail'[q][e] = put
        /\ \A x \in Employees : x # e => detail'[q][x] = detail[q][x]
        /\ \A r \in Runs : r # q => detail'[r] = detail[r]
        /\ detail' \in [Runs -> [Employees -> Seq(Outcome)]]
    BY <1>t, <2>1, <2>3 DEF SoloInv, TypeInv, TypeOK
  <2>n. /\ \A x \in Employees : /\ N[x] \in Nat
                                /\ N[x] = (IF detail[q][x] = <<>> THEN 0 ELSE detail[q][x][1].net)
        /\ \A x \in Employees :
              /\ NetOf(detail'[q])[x] \in Nat
              /\ NetOf(detail'[q])[x] = (IF detail'[q][x] = <<>> THEN 0 ELSE detail'[q][x][1].net)
    BY <1>t, <2>1, <2>8, NetsType
  <2>d. N = NetOf(detail[q]) /\ q = task[solo].rid /\ D = Employees \ T /\ T = task[solo].todo
    OBVIOUS
  <2>9. PICK M : M = NetOf(detail'[q])  OBVIOUS
  <2> HIDE DEF h, put, doc, docs, out, i, N, q, e, T, D
  <2>10. /\ M[e] = out.net /\ M[e] \in Nat
         /\ \A x \in D : M[x] = N[x] /\ M[x] \in Int /\ N[x] \in Int
    <3>0. \A x \in Employees :
             /\ M[x] \in Nat
             /\ M[x] = (IF detail'[q][x] = <<>> THEN 0 ELSE detail'[q][x][1].net)
      BY <2>n, <2>9, Zenon
    <3>1. M[e] = out.net /\ M[e] \in Nat  BY <3>0, <2>1, <2>7, <2>8
    <3>2. ASSUME NEW x \in D  PROVE M[x] = N[x] /\ M[x] \in Int /\ N[x] \in Int
      <4>1. x \in Employees /\ x # e  BY <2>d, <2>4
      <4>2. detail'[q][x] = detail[q][x]  BY <2>8, <4>1
      <4>3. M[x] = N[x]  BY <2>n, <3>0, <4>1, <4>2
      <4> QED  BY <2>n, <4>1, <4>3
    <3> QED  BY <3>1, <3>2
  <2>11. IsFiniteSet(D) /\ e \notin D /\ Employees \ h.todo = D \cup {e}
    BY <1>f, <2>d, <2>1, <2>2, <2>4, FS_Difference
  <2>12. SumFunctionOnSet(M, D) = SumFunctionOnSet(N, D)  BY <2>10, <2>11, SumSame
  <2>13. SumFunctionOnSet(M, D \cup {e}) = M[e] + SumFunctionOnSet(M, D)
    <3>1. \A y \in D \cup {e} : M[y] \in Int  BY <2>10
    <3> QED  BY <2>11, <3>1, SumAdd
  <2>14. h.sum = SumFunctionOnSet(M, Employees \ h.todo)
    <3>1. SumFunctionOnSet(M, D) = task[solo].sum  BY <2>4, <2>12
    <3>2. M[e] = out.net /\ out.net \in Nat  BY <2>10
    <3>3. SumFunctionOnSet(M, Employees \ h.todo) = SumFunctionOnSet(M, D \cup {e})
      BY <2>11, Zenon
    <3>4. M[e] + task[solo].sum = task[solo].sum + out.net  BY <2>1, <3>2
    <3> QED  BY <2>2, <2>13, <3>1, <3>3, <3>4
  <2>15. task'[solo] = h  BY <1>c, <2>3, SoloTask
  <2>16. Counted(task[solo])'  BY <2>2, <2>9, <2>14, <2>15 DEF Counted, Calculating, Saving
  <2>17. \A r \in Runs : Balanced(r, task[solo])'
    BY <1>c, <2>d, <2>1, <2>2, <2>3, <2>8, <2>15 DEF Balanced, Calculating
  <2>18. DetailsValid'
    <3> SUFFICES ASSUME NEW r \in Runs, NEW x \in Employees, detail'[r][x] # <<>>
                 PROVE  pay[x].ok
      BY <2>3 DEF DetailsValid
    <3>1. CASE r = q /\ x = e  BY <2>4, <3>1
    <3>2. CASE ~(r = q /\ x = e)
      <4>1. detail'[r][x] = detail[r][x]  BY <2>8, <3>2
      <4> QED  BY <1>c, <4>1 DEF DetailsValid
    <3> QED  BY <3>1, <3>2
  <2>19. \A r \in Runs : (~Born(r) => run[r].total = 0)'  BY <1>c, <2>3 DEF Born
  <2> QED  BY <1>m, <2>16, <2>17, <2>18, <2>19
<1>7. ASSUME saveTotals(solo)  PROVE CountInv'
  <2> DEFINE upd == [run[q] EXCEPT !.total = task[solo].sum]
  <2>1. q \in Runs /\ task[solo].sum \in Nat /\ task[solo].seen = run[q]
    BY <1>7, <1>h DEF saveTotals, WellFormed, Frame, Fresh
  <2>2. /\ run[q] \in RunDoc /\ upd \in RunDoc /\ upd.total = task[solo].sum
        /\ upd.status = run[q].status
    BY <1>t, <2>1 DEF RunDoc
  <2>3. /\ run' = [run EXCEPT ![q] = Saved(run[q], run[q], upd)] /\ detail' = detail
        /\ pay' = pay /\ Continue(solo, Idle) /\ task[solo].todo = {}
        /\ task[solo].pc = "calculate"
    BY <1>7, <2>1 DEF saveTotals, Return
  <2>4. task[solo].sum = NetPay(detail[q])
    BY <1>h, <2>3 DEF Counted, Calculating, NetPay
  <2>5. Born(q)
    BY <1>h, <2>3 DEF Fresh, Born, DRAFT
  <2>d. q = task[solo].rid  OBVIOUS
  <2> HIDE DEF upd, q
  <2>6. run'[q] = upd /\ \A r \in Runs : r # q => run'[r] = run[r]
    BY <1>t, <2>1, <2>2, <2>3, SavedOver
  <2>7. task'[solo] = Idle  BY <1>c, <2>3, SoloTask
  <2>8. Counted(task[solo])'  BY <2>7, IdleNotSaving DEF Counted, Calculating, Idle
  <2>9. \A r \in Runs : Balanced(r, task[solo])'
    BY <1>c, <2>d, <2>2, <2>3, <2>4, <2>6 DEF Balanced
  <2>10. \A r \in Runs : (~Born(r) => run[r].total = 0)'
    BY <1>c, <2>2, <2>5, <2>6 DEF Born
  <2>11. DetailsValid'  BY <1>c, <2>3 DEF DetailsValid
  <2> QED  BY <1>m, <2>8, <2>9, <2>10, <2>11
<1>8. ASSUME NEW before \in [Employees -> Earlier], detectPayrollIrregularities(solo, before)
      PROVE  CountInv'
  <2> DEFINE h == [task[solo] EXCEPT !.pc = task[solo].then, !.then = "idle"]
  <2>1. /\ h.pc = task[solo].then /\ h.upd = task[solo].upd /\ h.seen = task[solo].seen
        /\ h.then = "idle"
    BY <1>h DEF Frame
  <2>2. (Return(solo) \/ Continue(solo, h)) /\ UNCHANGED <<run, detail, pay>>
    BY <1>8 DEF detectPayrollIrregularities, OnlyTask
  <2>3. task[solo].pc = "inspect" /\ task[solo].then \in {"saveRun", "forward"}
    BY <1>8, <1>h DEF detectPayrollIrregularities, WellFormed
  <2> HIDE DEF h
  <2>4. Counted(h) /\ ~Calculating(task[solo])
    BY <1>h, <2>1, <2>3 DEF Counted, Calculating, Saving
  <2> QED  BY <2>2, <2>4, CountReturn, CountMoved
<1>9. ASSUME forwardToFinance(solo)  PROVE CountInv'
  <2> DEFINE upd == InFinance(run[q])
             h == [task[solo] EXCEPT !.pc = "saveRun", !.seen = run[q], !.upd = upd]
  <2>1. upd.total = run[q].total /\ upd.status # "absent"
    BY <1>9, <1>h, <1>t
       DEF forwardToFinance, WellFormed, RunDoc, InFinance, PENDING_FINANCE_APPROVAL
  <2>2. h.pc = "saveRun" /\ h.seen = run[q] /\ h.upd = upd  BY <1>h DEF Frame
  <2>3. /\ Return(solo) \/ Continue(solo, h)
        /\ UNCHANGED <<run, detail, pay>> /\ task[solo].pc = "forward"
    BY <1>9 DEF forwardToFinance, OnlyTask
  <2> HIDE DEF h, upd
  <2>4. Counted(h) /\ ~Calculating(task[solo])
    BY <2>1, <2>2, <2>3 DEF Counted, Calculating, Saving
  <2> QED  BY <2>3, <2>4, CountReturn, CountMoved
<1>10. ASSUME saveRun(solo)  PROVE CountInv'
  <2> DEFINE h == [task[solo] EXCEPT !.pc = task[solo].then]
             upd == task[solo].upd
  <2>1. /\ h.pc = task[solo].then /\ task[solo].then \in {"idle", "distribute"}
        /\ q \in Runs /\ upd \in RunDoc
    BY <1>10, <1>h DEF saveRun, WellFormed, Frame
  <2>2. /\ detail' = detail /\ pay' = pay /\ task[solo].pc = "saveRun"
        /\ Continue(solo, Idle) \/ Continue(solo, h)
        /\ run' = [run EXCEPT ![q] = Saved(run[q], task[solo].seen, upd)]
    BY <1>10 DEF saveRun, Return
  <2>3. task[solo].seen = run[q] /\ upd.total = run[q].total /\ upd.status # "absent"
    BY <1>h, <2>2 DEF Fresh, Counted, Saving
  <2>4. task'[solo].pc \in {"idle", "distribute"}
    <3> HIDE DEF h
    <3>1. task'[solo] = Idle \/ task'[solo] = h  BY <1>c, <2>2, SoloTask
    <3> QED  BY <2>1, <3>1 DEF Idle
  <2> HIDE DEF h, upd, q
  <2>5. \A r \in Runs : run'[r].total = run[r].total /\ (r # q => run'[r] = run[r])
    BY <1>t, <2>1, <2>2, <2>3, SavedOver
  <2>6. \A r \in Runs : Balanced(r, task[solo])'
    BY <1>c, <2>2, <2>5 DEF Balanced, Calculating
  <2>7. \A r \in Runs : (~Born(r) => run[r].total = 0)'
    <3> SUFFICES ASSUME NEW r \in Runs, ~Born(r)'  PROVE run'[r].total = 0
      OBVIOUS
    <3>1. CASE r # q  BY <1>c, <2>5, <3>1 DEF Born
    <3>2. CASE r = q
      <4>1. run'[q] = upd  BY <1>t, <2>1, <2>2, <2>3, SavedOver
      <4> QED  BY <2>3, <3>2, <4>1 DEF Born
    <3> QED  BY <3>1, <3>2
  <2>8. DetailsValid'  BY <1>c, <2>2 DEF DetailsValid
  <2>9. Counted(task[solo])'  BY <2>4 DEF Counted, Calculating, Saving
  <2> QED  BY <1>m, <2>6, <2>7, <2>8, <2>9
<1>11. ASSUME generateAndDistribute(solo)  PROVE CountInv'
  <2> DEFINE h == [task[solo] EXCEPT !.pc = "batch"]
  <2>1. h.pc = "batch"  BY <1>h DEF Frame
  <2>2. /\ Return(solo) \/ Continue(solo, h)
        /\ UNCHANGED <<run, detail, pay>> /\ ~Calculating(task[solo])
    BY <1>11 DEF generateAndDistribute, OnlyTask, Calculating
  <2> HIDE DEF h
  <2> QED  BY <2>1, <2>2, CountReturn, CountAway
<1>12. ASSUME generatePayslipsForPayrollRun(solo)  PROVE CountInv'
  <2> DEFINE S == {e \in Employees : detail[q][e] # <<>>}
             h == [task[solo] EXCEPT !.pc = "payslip", !.todo = S]
  <2>1. h.pc = "payslip"  BY <1>h DEF Frame
  <2>2. /\ Return(solo) \/ Continue(solo, h)
        /\ UNCHANGED <<run, detail, pay>> /\ ~Calculating(task[solo])
    BY <1>12 DEF generatePayslipsForPayrollRun, OnlyTask, Calculating
  <2> HIDE DEF h
  <2> QED  BY <2>1, <2>2, CountReturn, CountAway
<1>13. ASSUME NEW e \in Employees, generatePayslip(solo, e)  PROVE CountInv'
  <2>1. PICK h : Continue(solo, h) /\ h.pc \in {"payslip", "saveSlip"}
    <3> DEFINE docs == slip[q][e]
               h1 == [task[solo] EXCEPT !.todo = @ \ {e}]
               h2(i) == [task[solo] EXCEPT !.pc = "saveSlip", !.eid = e, !.out = pay[e], !.idx = i]
    <3>1. h1.pc = "payslip" /\ \A i : h2(i).pc = "saveSlip"
      BY <1>13, <1>h DEF generatePayslip, Frame
    <3>2. Continue(solo, h1) \/ Continue(solo, h2(0)) \/ \E i \in DOMAIN docs : Continue(solo, h2(i))
      BY <1>13 DEF generatePayslip
    <3> HIDE DEF h1, h2, docs
    <3> QED  BY <3>1, <3>2
  <2>2. UNCHANGED <<run, detail, pay>> /\ ~Calculating(task[solo])
    BY <1>13 DEF generatePayslip, OnlyTask, Calculating
  <2> QED  BY <2>1, <2>2, CountAway
<1>14. ASSUME saveSlip(solo)  PROVE CountInv'
  <2> DEFINE h == [task[solo] EXCEPT !.pc = "payslip", !.todo = @ \ {task[solo].eid}]
  <2>1. Continue(solo, h) /\ UNCHANGED <<run, detail, pay>> /\ ~Calculating(task[solo])
    BY <1>14 DEF saveSlip, Calculating
  <2>2. h.pc = "payslip"  BY <1>h DEF Frame
  <2> HIDE DEF h
  <2> QED  BY <2>1, <2>2, CountAway
<1>15. ASSUME payslipsDone(solo)  PROVE CountInv'
  BY <1>15, CountReturn DEF payslipsDone, OnlyTask, Calculating
<1> QED  BY <1>1, <1>2, <1>3, <1>4, <1>5, <1>6, <1>7, <1>8, <1>9, <1>10, <1>11, <1>12,
            <1>13, <1>14, <1>15 DEF Step

\* While calls do not overlap and each calculation covers everybody and is not
\* cut short, a run that nobody is calculating bears the total of the details
\* stored for it, after any number of calculations, edits and decisions
\* (calculatePayrollAutomatically, editPayrollRun).
THEOREM SerialTotalsMatch ==
    ASSUME NEW CONSTANT solo, Tasks = {solo}, WholeCalculations
    PROVE  Spec => []TotalsMatch
<1>1. Init => CountInv \/ ~SoloInv
  <2> SUFFICES ASSUME Init, SoloInv  PROVE CountInv
    OBVIOUS
  <2>1. \A r \in Runs : /\ run[r].total = 0
                        /\ detail[r] \in [Employees -> Seq(Outcome)]
                        /\ \A e \in Employees : detail[r][e] = <<>>
    BY DEF Init, NoDoc
  <2>2. DetailsValid  BY <2>1 DEF DetailsValid
  <2>3. ASSUME NEW r \in Runs  PROVE NetPay(detail[r]) = 0
    <3>1. \A e \in Employees : NetOf(detail[r])[e] = 0  BY <2>1, NetsType
    <3> QED  BY <3>1, SumZero, PayrollAssumption DEF NetPay
  <2>4. \A t \in Tasks : task[t] = Idle  BY DEF Init
  <2> QED  BY <2>1, <2>2, <2>3, <2>4, IdleCounted DEF CountInv, Balanced
<1>2. CountInv /\ [Next]_vars /\ SoloInv' => CountInv'
  <2> SUFFICES ASSUME CountInv, [Next]_vars, SoloInv'  PROVE CountInv'
    OBVIOUS
  <2>1. CASE UNCHANGED vars
    BY <2>1 DEF vars, CountInv, DetailsValid, Counted, Balanced, Born
  <2>2. CASE inputsChange
    <3>1. run' = run /\ detail' = detail /\ task' = task  BY <2>2 DEF inputsChange
    <3>2. \A e \in Employees : pay[e].ok => pay'[e].ok
      <4>1. PICK e \in Employees, o \in Outcomes : pay' = [pay EXCEPT ![e] = o]
        BY <2>2 DEF inputsChange
      <4>2. o.ok /\ pay \in [Employees -> Outcome]
        BY <2>2 DEF inputsChange, WholeCalculations, CountInv, SoloInv, TypeInv, TypeOK
      <4> QED  BY <4>1, <4>2
    <3>3. DetailsValid'  BY <3>1, <3>2 DEF CountInv, DetailsValid
    <3>4. task[solo].pc = "saveDetail" => task[solo].eid \in Employees
      BY DEF CountInv, SoloInv, TypeInv, WellFormed
    <3>5. Counted(task[solo])'
      BY <3>1, <3>2, <3>4 DEF CountInv, Counted, Saving, Calculating
    <3> QED  BY <3>1, <3>3, <3>5 DEF CountInv, Balanced, Born
  <2>3. CASE restart  BY <2>3 DEF restart, WholeCalculations
  <2> QED  BY <2>1, <2>2, <2>3, CallCounted, StepCounted DEF Next
<1>3. CountInv => TotalsMatch
  BY DEF CountInv, TotalsMatch, Balanced, Calculating
<1> QED  BY <1>1, <1>2, <1>3, SoloInvariant, PTL DEF Spec
=============================================================================
