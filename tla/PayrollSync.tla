----------------------------- MODULE PayrollSync -----------------------------
(***************************************************************************)
(* PayrollService of time management: the logs of what is sent to the      *)
(* external payroll system, and their retries.  A handler is one action    *)
(* per database round trip; the sending itself is a pause.  A save after   *)
(* the pause may fail, which the handler answers with a second save.  The  *)
(* payload is modelled in PrePayroll.                                      *)
(***************************************************************************)
EXTENDS Naturals, MongooseDoc

CONSTANTS
    Tasks,      \* calls that can be in progress at the same time
    Logs,       \* ids of sync logs
    MaxRetries  \* bound: retries of one log

IN_PROGRESS == "IN_PROGRESS"
COMPLETED == "COMPLETED"
FAILED == "FAILED"

VARIABLES
    log,        \* log[s]: the document of s
    task        \* task[t]: what the call t remembers between two awaits

vars == <<log, task>>

NoLog == [status |-> "absent", synced |-> FALSE, retryCount |-> 0]

Idle == [pc |-> "idle"]

Init == log = [s \in Logs |-> NoLog] /\ task = [t \in Tasks |-> Idle]

-----------------------------------------------------------------------------
Ready(t) == task[t].pc = "idle"

Continue(t, h) == task' = [task EXCEPT ![t] = h]

\* A handler returns or throws.
Return(t) == Continue(t, Idle)

\* The call holds doc as it is stored, as far as it knows, and is sending.
Sending(s, doc) == [pc |-> "send", ref |-> s, doc |-> doc]

\* The log is inserted before anything is sent.
syncPayroll(t, s) ==
    LET doc == [NoLog EXCEPT !.status = IN_PROGRESS] IN
    /\ Ready(t)
    /\ log[s] = NoLog
    /\ log' = [log EXCEPT ![s] = doc]
    /\ Continue(t, Sending(s, doc))

\* Mutant: a completed log may be retried.
retryPayrollSync_Completed(t, s) ==
    /\ Ready(t)
    /\ log[s] # NoLog
    /\ log[s].retryCount < MaxRetries
    /\ Continue(t, [pc |-> "restart", ref |-> s, read |-> log[s],
                    doc |-> [log[s] EXCEPT !.status = IN_PROGRESS, !.retryCount = @ + 1]])
    /\ UNCHANGED log

\* Any log that is not completed, also one that is still being sent.
retryPayrollSync(t, s) ==
    /\ Ready(t)
    /\ log[s] # NoLog
    /\ log[s].status # COMPLETED
    /\ log[s].retryCount < MaxRetries
    /\ Continue(t, [pc |-> "restart", ref |-> s, read |-> log[s],
                    doc |-> [log[s] EXCEPT !.status = IN_PROGRESS, !.retryCount = @ + 1]])
    /\ UNCHANGED log

saveRetry(t) ==
    LET h == task[t] IN
    /\ h.pc = "restart"
    /\ log' = [log EXCEPT ![h.ref] = Saved(@, h.read, h.doc)]
    /\ Continue(t, Sending(h.ref, h.doc))

Done(h) == [h.doc EXCEPT !.status = COMPLETED, !.synced = TRUE]

complete(t) ==
    LET h == task[t] IN
    /\ h.pc = "send"
    /\ log' = [log EXCEPT ![h.ref] = Saved(@, h.doc, Done(h))]
    /\ Return(t)

\* The payload or the save throws; the document in memory may be done already.
fail(t) ==
    LET h == task[t] IN
    /\ h.pc = "send"
    /\ \E doc \in {h.doc, Done(h)} :
          Continue(t, [pc |-> "fail", ref |-> h.ref, read |-> h.doc,
                       doc |-> [doc EXCEPT !.status = FAILED]])
    /\ UNCHANGED log

saveFailure(t) ==
    LET h == task[t] IN
    /\ h.pc = "fail"
    /\ log' = [log EXCEPT ![h.ref] = Saved(@, h.read, h.doc)]
    /\ Return(t)

-----------------------------------------------------------------------------
\* A crash or redeploy loses the calls in progress.
restart ==
    /\ \E t \in Tasks : ~Ready(t)
    /\ task' = [t \in Tasks |-> Idle]
    /\ UNCHANGED log

Call(t) == \E s \in Logs : syncPayroll(t, s) \/ retryPayrollSync(t, s)

Step(t) == saveRetry(t) \/ complete(t) \/ fail(t) \/ saveFailure(t)

Next == restart \/ \E t \in Tasks : Call(t) \/ Step(t)

Spec == Init /\ [][Next]_vars

-----------------------------------------------------------------------------
(* Properties.                                                              *)

\* The stored documents have their types.
TypeOK ==
    log \in [Logs -> [status : {"absent", IN_PROGRESS, COMPLETED, FAILED}, synced : BOOLEAN,
                      retryCount : 0 .. MaxRetries]]

\* While calls do not overlap, a completed synchronisation stays completed
\* (retryPayrollSync: "Sync is already completed").
CompletedStays == [][\A s \in Logs : log[s].status = COMPLETED => log'[s] = log[s]]_vars

\* Through every overlap of retries and failures, a completed synchronisation
\* has the date it was sent at (syncPayroll, retryPayrollSync).
CompletedIsDated == \A s \in Logs : log[s].status = COMPLETED => log[s].synced
=============================================================================
