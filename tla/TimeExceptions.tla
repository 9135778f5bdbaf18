---------------------------- MODULE TimeExceptions ----------------------------
(***************************************************************************)
(* TimeManagementService: exceptions to attendance records and what is     *)
(* decided about them; PolicyEngineService: the penalties and overtime of  *)
(* a record, computed anew when an exception is approved.  A handler is    *)
(* one action per database round trip.  What a computation finds is a set  *)
(* of kinds of results, each at most once; the amounts are modelled in     *)
(* PolicyEngine.  The records themselves are given: with the schema as it  *)
(* is, no service of the repository can save one.                          *)
(***************************************************************************)
EXTENDS Naturals, FiniteSets, MongooseDoc

CONSTANTS
    Tasks,          \* calls that can be in progress at the same time
    Exceptions,     \* ids of exception documents
    Records,        \* ids of attendance records on file
    Penalties,      \* kinds of penalties
    OVERTIME,
    People,         \* employees and managers
    None

OPEN == "OPEN"
APPROVED == "APPROVED"
REJECTED == "REJECTED"
ESCALATED == "ESCALATED"

Kinds == Penalties \cup {OVERTIME}

VARIABLES
    exception,  \* exception[x]: the document of x
    pending,    \* pending[r][k]: how many pending results of the kind k r has
    task        \* task[t]: what the call t remembers between two awaits

vars == <<exception, pending, task>>

NoException == [status |-> "absent", attendanceRecordId |-> None, assignedTo |-> None]

Idle == [pc |-> "idle"]

Init ==
    /\ exception = [x \in Exceptions |-> NoException]
    /\ pending = [r \in Records |-> [k \in Kinds |-> 0]]
    /\ task = [t \in Tasks |-> Idle]

-----------------------------------------------------------------------------
Ready(t) == task[t].pc = "idle"

Continue(t, h) == task' = [task EXCEPT ![t] = h]

\* A handler returns or throws.
Return(t) == Continue(t, Idle)

Open(x) == exception[x].status \in {OPEN, ESCALATED}

Recalculating(r) == [pc |-> "deletePenalties", rec |-> r]

-----------------------------------------------------------------------------
(* Exceptions.                                                              *)

\* The record is taken from the body and not looked up.
createTimeException(t, x, r, m) ==
    /\ Ready(t)
    /\ exception[x] = NoException
    /\ exception' = [exception EXCEPT ![x] =
           [status |-> OPEN, attendanceRecordId |-> r, assignedTo |-> m]]
    /\ UNCHANGED <<pending, task>>

\* Find, check, change in memory: the save of each follows.
Deciding(t, x, s, m) ==
    /\ Open(x)
    /\ Continue(t, [pc |-> "save", ref |-> x, read |-> exception[x],
                    doc |-> [exception[x] EXCEPT !.status = s, !.assignedTo = m]])
    /\ UNCHANGED <<exception, pending>>

approveException(t, x, m) == Ready(t) /\ Deciding(t, x, APPROVED, m)

rejectException(t, x, m) == Ready(t) /\ Deciding(t, x, REJECTED, m)

\* Mutant: only an approved exception is refused.
escalateException_Rejected(t, x, m) ==
    /\ Ready(t)
    /\ exception[x].status \in {OPEN, ESCALATED, REJECTED}
    /\ Continue(t, [pc |-> "save", ref |-> x, read |-> exception[x],
                    doc |-> [exception[x] EXCEPT !.status = ESCALATED, !.assignedTo = m]])
    /\ UNCHANGED <<exception, pending>>

escalateException(t, x, m) == Ready(t) /\ Deciding(t, x, ESCALATED, m)

\* An approval goes on to the results of the record, if it is on file.
saveException(t) ==
    LET h == task[t]
        r == h.doc.attendanceRecordId
    IN  /\ h.pc = "save"
        /\ exception' = [exception EXCEPT ![h.ref] = Saved(@, h.read, h.doc)]
        /\ IF h.doc.status = APPROVED /\ r \in Records
           THEN Continue(t, Recalculating(r))
           ELSE Return(t)
        /\ UNCHANGED pending

-----------------------------------------------------------------------------
(* The results of a record.                                                 *)

\* The route that computes them by hand.
recalculatePolicyResults(t, r) ==
    /\ Ready(t)
    /\ Continue(t, Recalculating(r))
    /\ UNCHANGED <<exception, pending>>

\* Mutant: pending penalties are left where they are.
deletePenalties_None(t) ==
    /\ task[t].pc = "deletePenalties"
    /\ Continue(t, [task[t] EXCEPT !.pc = "deleteOvertime"])
    /\ UNCHANGED <<exception, pending>>

deletePenalties(t) ==
    /\ task[t].pc = "deletePenalties"
    /\ pending' = [pending EXCEPT ![task[t].rec] =
                      [k \in Kinds |-> IF k \in Penalties THEN 0 ELSE @[k]]]
    /\ Continue(t, [task[t] EXCEPT !.pc = "deleteOvertime"])
    /\ UNCHANGED exception

deleteOvertime(t) ==
    /\ task[t].pc = "deleteOvertime"
    /\ pending' = [pending EXCEPT ![task[t].rec][OVERTIME] = 0]
    /\ Continue(t, [task[t] EXCEPT !.pc = "compute"])
    /\ UNCHANGED exception

\* The results of this computation, or none where no policy applies: then it
\* throws, and an approval swallows that.
computePolicyResults(t, ks) ==
    /\ task[t].pc = "compute"
    /\ IF ks = {} THEN Return(t)
       ELSE Continue(t, [pc |-> "insert", rec |-> task[t].rec, todo |-> ks])
    /\ UNCHANGED <<exception, pending>>

\* saveComputedResults: one document at a time, the overtime last.
insertResult(t, k) ==
    LET h == task[t] IN
    /\ h.pc = "insert"
    /\ k \in h.todo
    /\ k = OVERTIME => h.todo = {OVERTIME}
    /\ pending' = [pending EXCEPT ![h.rec][k] = @ + 1]
    /\ IF h.todo = {k} THEN Return(t) ELSE Continue(t, [h EXCEPT !.todo = @ \ {k}])
    /\ UNCHANGED exception

\* A result decided upon, by hand: no service of the repository does.
decideResult(r, k) ==
    /\ pending[r][k] > 0
    /\ pending' = [pending EXCEPT ![r][k] = @ - 1]
    /\ UNCHANGED <<exception, task>>

-----------------------------------------------------------------------------
\* A crash or redeploy loses the calls in progress.
restart ==
    /\ \E t \in Tasks : ~Ready(t)
    /\ task' = [t \in Tasks |-> Idle]
    /\ UNCHANGED <<exception, pending>>

Call(t) ==
    \/ \E x \in Exceptions, m \in People :
          \/ \E r \in Records \cup {None} : createTimeException(t, x, r, m)
          \/ approveException(t, x, m) \/ rejectException(t, x, m) \/ escalateException(t, x, m)
    \/ \E r \in Records : recalculatePolicyResults(t, r)

Step(t) ==
    \/ saveException(t) \/ deletePenalties(t) \/ deleteOvertime(t)
    \/ \E ks \in SUBSET Kinds : computePolicyResults(t, ks)
    \/ \E k \in Kinds : insertResult(t, k)

Next ==
    \/ restart
    \/ \E r \in Records, k \in Kinds : decideResult(r, k)
    \/ \E t \in Tasks : Call(t) \/ Step(t)

Spec == Init /\ [][Next]_vars

-----------------------------------------------------------------------------
(* Properties.                                                              *)

\* The stored documents have their types.
TypeOK ==
    /\ exception \in [Exceptions ->
           {NoException} \cup [status : {OPEN, APPROVED, REJECTED, ESCALATED},
                               attendanceRecordId : Records \cup {None}, assignedTo : People]]
    /\ pending \in [Records -> [Kinds -> Nat]]

\* While calls do not overlap, an approved or rejected exception stays so
\* (approveException, rejectException, escalateException: "Cannot escalate a
\* resolved exception").
DecidedStays ==
    [][\A x \in Exceptions :
          exception[x].status \in {APPROVED, REJECTED} => exception'[x] = exception[x]]_vars

\* However recalculations of a record overlap, are cut short and repeated, it
\* has no more pending results of a kind than calls can be in progress at a
\* time: one while calls do not overlap (recalculatePolicyResults).
PendingBounded ==
    \A r \in Records, k \in Kinds : pending[r][k] <= Cardinality(Tasks)
=============================================================================
