---------------------------- MODULE LeaveRequests ----------------------------
(***************************************************************************)
(* LeavesService: the leave requests of one employee and one leave type,   *)
(* the entitlement documents (one per year) their days are charged to, and *)
(* the manual adjustments of that balance.                                 *)
(*                                                                         *)
(* The service runs in one Node process: between two awaits a handler runs *)
(* alone, at an await any other handler may run.  So a handler is one      *)
(* action per database round trip - find the request, find the             *)
(* entitlement, save the entitlement, save the request - and task[t] is    *)
(* what the call t carries from one to the next: the documents as it read  *)
(* them and the documents as it will save them.                            *)
(***************************************************************************)
EXTENDS Integers, FiniteSets, Sequences, LeaveBalance, MongooseDoc

CONSTANTS
    Tasks,          \* calls that can be in progress at the same time
    Requests,       \* ids of leave requests
    Entitlements,   \* ids of entitlement documents of the pair
    YearOf,         \* the year of each entitlement document
    Existing,       \* entitlement documents the database holds at the start
    Grants,         \* <<totalDays, carriedOverDays>> of a new entitlement
    Settings,       \* bodies of leaveEntitlement.update
    Days,           \* durations in days a caller may ask for
    Adjustments,    \* adjustment documents HR may record, [id, type, amount]
    Batches,        \* bodies of bulkProcess: sequences of [id, decision]
    Malformed,      \* operations whose bodies may carry an id that is none
    Ops,            \* the operations clients call in the environment at hand
    MaxFlow,        \* bound on the entries of a request's approvalFlow
    None

PENDING == "pending"
MANAGER_APPROVED == "manager_approved"
APPROVED == "approved"
REJECTED == "rejected"
CANCELLED == "cancelled"

LeaveStatus == {PENDING, MANAGER_APPROVED, APPROVED, REJECTED, CANCELLED}

\* The entries handlers push to approvalFlow, by role and status.
Entries == {"manager approved", "manager rejected", "hr approved",
            "hr rejected", "cancelled"}

Operations == {"create", "update", "cancel", "managerApprove", "managerReject",
               "bulkProcess", "createEntitlement", "updateEntitlement",
               "removeEntitlement", "createAdjustment", "approveAdjustment",
               "restart"}

\* One element of BulkLeaveRequestDto.requests.
Item == [id : Requests, decision : {"APPROVED", "REJECTED"}]

ASSUME RequestsAssumption ==
    /\ IsFiniteSet(Tasks) /\ IsFiniteSet(Requests)
    /\ None \notin Requests \cup Entitlements \cup Adjustments
    /\ Existing \subseteq Entitlements
    /\ \A d, e \in Existing : YearOf[d] = YearOf[e] => d = e
    /\ Grants \subseteq Nat \X Nat
    /\ \A s \in Settings : /\ DOMAIN s \subseteq {"yearly", "taken", "pending"}
                           /\ \A f \in DOMAIN s : s[f] \in Nat
    /\ Days \subseteq Nat \ {0}
    /\ \A a \in Adjustments : /\ a.type \in {"add", "deduct"}
                              /\ a.amount \in Nat \ {0}
    /\ Batches \subseteq Seq(Item)
    /\ Ops \subseteq Operations /\ Malformed \subseteq Operations
    /\ MaxFlow \in Nat

VARIABLES
    ent,      \* ent[e]: the fields of entitlement document e
    entLife,  \* entLife[e]: "unborn", "live" or "deleted"
    req,      \* req[r]: status and durationDays of request r
    flow,     \* flow[r][x]: how many entries x the approvalFlow of r holds
    adj,      \* adj[a]: "unborn", "recorded", or "approved" by an approver
    task      \* task[t]: what the call t remembers between two awaits

vars == <<ent, entLife, req, flow, adj, task>>

Absent == [status |-> "absent", days |-> 0]

NoBalance == [f \in Fields |-> 0]

Idle == [pc |-> "idle", then |-> "idle", move |-> "none", days |-> 0,
         rid |-> None, seen |-> Absent, upd |-> Absent, entry |-> "none",
         eid |-> None, base |-> NoBalance, doc |-> NoBalance, aid |-> None,
         items |-> <<>>, id |-> "valid"]

Live == {e \in Entitlements : entLife[e] = "live"}

Born(r) == req[r].status # "absent"

Init ==
    /\ ent \in [Entitlements -> {Granted(g[1], g[2]) : g \in Grants}]
    /\ entLife = [e \in Entitlements |-> IF e \in Existing THEN "live" ELSE "unborn"]
    /\ req = [r \in Requests |-> Absent]
    /\ flow = [r \in Requests |-> [x \in Entries |-> 0]]
    /\ adj = [a \in Adjustments |-> "unborn"]
    /\ task = [t \in Tasks |-> Idle]

-----------------------------------------------------------------------------
(* Calls and returns.                                                       *)

Receives(t, op) == op \in Ops /\ task[t].pc = "idle"

Continue(t, h) == task' = [task EXCEPT ![t] = h]

\* A handler returns or throws.  Under bulkProcess the exception is caught,
\* the item goes to the success or to the failed list, and the loop goes on.
Return(t) ==
    Continue(t, IF Len(task[t].items) > 1
                THEN [Idle EXCEPT !.pc = "bulk", !.items = Tail(task[t].items),
                                  !.id = task[t].id]
                ELSE Idle)

\* The id in the body of a call: of the approver, the requester, or the
\* attachment.  The DTOs only ask for a string (@IsString).
Ids(op) == IF op \in Malformed THEN {"valid", "malformed"} ELSE {"valid"}

\* The approval flow of r has room for one more entry x.
Room(r, x) == flow[r][x] < MaxFlow

\* A request handler has read request r and passed its guard: it will move
\* days on the entitlement ("none": it will not touch it), then make an
\* ObjectId of id, save upd and push entry.  A malformed id throws there, after
\* the days have moved; a handler that moves none throws before it writes.
Handle(t, r, move, days, upd, entry, id) ==
    /\ move = "none" => id = "valid"
    /\ Continue(t, [task[t] EXCEPT
          !.pc = IF move = "none" THEN "saveReq" ELSE "findEnt",
          !.then = "saveReq", !.move = move, !.days = days, !.rid = r,
          !.seen = req[r], !.upd = upd, !.entry = entry, !.id = id])

Decide(t, r, move, status, entry, id) ==
    Handle(t, r, move, req[r].days, [req[r] EXCEPT !.status = status], entry, id)

OnlyTask == UNCHANGED <<ent, entLife, req, flow, adj>>

-----------------------------------------------------------------------------
(* leaveRequest: one action per handler, up to its first await that          *)
(* matters.  A guard that fails throws before anything is written.           *)

\* The request is only inserted after its days are reserved, and gets its id
\* then; as many ids are left as there are creates in progress.
create(t, n, id) ==
    /\ Receives(t, "create")
    /\ Cardinality({r \in Requests : ~Born(r)})
         > Cardinality({u \in Tasks : task[u].then = "insertReq"})
    /\ Continue(t, [Idle EXCEPT !.pc = "findEnt", !.then = "insertReq",
                                !.move = "reserve", !.days = n, !.id = id])
    /\ OnlyTask

\* Mutant: the status is not checked.
update_AnyStatus(t, r, n, id) ==
    /\ Receives(t, "update")
    /\ Born(r)
    /\ LET delta == n - req[r].days
       IN Handle(t, r,
                 CASE delta > 0 -> "reserve" [] delta < 0 -> "release" [] OTHER -> "none",
                 IF delta < 0 THEN -delta ELSE delta,
                 [req[r] EXCEPT !.days = n], "none", id)
    /\ OnlyTask

\* Mutant: the change of the duration is stored as the duration.
update_StoresDelta(t, r, n, id) ==
    /\ Receives(t, "update")
    /\ req[r].status = PENDING
    /\ LET delta == n - req[r].days
       IN Handle(t, r,
                 CASE delta > 0 -> "reserve" [] delta < 0 -> "release" [] OTHER -> "none",
                 IF delta < 0 THEN -delta ELSE delta,
                 [req[r] EXCEPT !.days = delta], "none", id)
    /\ OnlyTask

\* Mutant: days added to a request are not reserved.
update_NoReserve(t, r, n, id) ==
    /\ Receives(t, "update")
    /\ req[r].status = PENDING
    /\ LET delta == n - req[r].days
       IN Handle(t, r, IF delta < 0 THEN "release" ELSE "none",
                 IF delta < 0 THEN -delta ELSE delta,
                 [req[r] EXCEPT !.days = n], "none", id)
    /\ OnlyTask

update(t, r, n, id) ==
    /\ Receives(t, "update")
    /\ req[r].status = PENDING
    /\ LET delta == n - req[r].days
       IN Handle(t, r,
                 CASE delta > 0 -> "reserve" [] delta < 0 -> "release" [] OTHER -> "none",
                 IF delta < 0 THEN -delta ELSE delta,
                 [req[r] EXCEPT !.days = n], "none", id)
    /\ OnlyTask

cancel(t, r, id) ==
    /\ Receives(t, "cancel")
    /\ Born(r) /\ Room(r, "cancelled")
    /\ Decide(t, r,
              CASE req[r].status = PENDING -> "release"
                [] req[r].status = APPROVED -> "revert"
                [] OTHER -> "none",
              CANCELLED, "cancelled", id)
    /\ OnlyTask

\* Mutant: the status is not checked.
managerApprove_AnyStatus(t, r) ==
    /\ Receives(t, "managerApprove")
    /\ Born(r) /\ Room(r, "manager approved")
    /\ Decide(t, r, "none", MANAGER_APPROVED, "manager approved", "valid")
    /\ OnlyTask

\* Mutant: the decision is not recorded in the approval flow.
managerApprove_NoEntry(t, r) ==
    /\ Receives(t, "managerApprove")
    /\ req[r].status = PENDING /\ Room(r, "manager approved")
    /\ Decide(t, r, "none", MANAGER_APPROVED, "none", "valid")
    /\ OnlyTask

\* Mutant: the manager's approval already consumes the days.
managerApprove_Consumes(t, r) ==
    /\ Receives(t, "managerApprove")
    /\ req[r].status = PENDING /\ Room(r, "manager approved")
    /\ Decide(t, r, "consume", MANAGER_APPROVED, "manager approved", "valid")
    /\ OnlyTask

managerApprove(t, r) ==
    /\ Receives(t, "managerApprove")
    /\ req[r].status = PENDING /\ Room(r, "manager approved")
    /\ Decide(t, r, "none", MANAGER_APPROVED, "manager approved", "valid")
    /\ OnlyTask

\* Mutant: the days are released whatever the status.
managerReject_AlwaysReleases(t, r, id) ==
    /\ Receives(t, "managerReject")
    /\ Born(r) /\ Room(r, "manager rejected")
    /\ Decide(t, r, "release", REJECTED, "manager rejected", id)
    /\ OnlyTask

managerReject(t, r, id) ==
    /\ Receives(t, "managerReject")
    /\ Born(r) /\ Room(r, "manager rejected")
    /\ Decide(t, r, IF req[r].status = PENDING THEN "release" ELSE "none",
              REJECTED, "manager rejected", id)
    /\ OnlyTask

\* One approver decides the whole batch.
bulkProcess(t, batch, id) ==
    /\ Receives(t, "bulkProcess")
    /\ batch # <<>>
    /\ Continue(t, [Idle EXCEPT !.pc = "bulk", !.items = batch, !.id = id])
    /\ OnlyTask

\* Mutant: the loop ends at the first item that fails.
bulkItem_FirstFailureEnds(t) ==
    /\ task[t].pc = "bulk"
    /\ IF req[Head(task[t].items).id].status = MANAGER_APPROVED
       THEN Continue(t, [task[t] EXCEPT !.pc = "hr"])
       ELSE Continue(t, Idle)
    /\ OnlyTask

\* bulkProcess reads the request of the item at hand, and delegates it if it
\* awaits HR review; else the item has failed.
bulkItem(t) ==
    /\ task[t].pc = "bulk"
    /\ IF req[Head(task[t].items).id].status = MANAGER_APPROVED
       THEN Continue(t, [task[t] EXCEPT !.pc = "hr"])
       ELSE Return(t)
    /\ OnlyTask

\* hrApprove and hrReject read the request again and check it again.
hrApprove(t) ==
    /\ task[t].pc = "hr"
    /\ LET item == Head(task[t].items)
       IN /\ item.decision = "APPROVED"
          /\ req[item.id].status = MANAGER_APPROVED /\ Room(item.id, "hr approved")
          /\ Decide(t, item.id, "consume", APPROVED, "hr approved", task[t].id)
    /\ OnlyTask

hrReject(t) ==
    /\ task[t].pc = "hr"
    /\ LET item == Head(task[t].items)
       IN /\ item.decision = "REJECTED"
          /\ req[item.id].status = MANAGER_APPROVED /\ Room(item.id, "hr rejected")
          /\ Decide(t, item.id, "release", REJECTED, "hr rejected", task[t].id)
    /\ OnlyTask

\* The request was decided between the two reads (or, a bound of the model
\* only, its approval flow is full).
hrRefuse(t) ==
    /\ task[t].pc = "hr"
    /\ LET item == Head(task[t].items)
       IN \/ req[item.id].status # MANAGER_APPROVED
          \/ ~Room(item.id, IF item.decision = "APPROVED" THEN "hr approved"
                                                         ELSE "hr rejected")
    /\ Return(t)
    /\ OnlyTask

-----------------------------------------------------------------------------
(* The steps the handlers share.                                            *)

\* getEntitlementOrThrow does not name a year: any document of the pair will
\* do.  The check, the computation and the start of the save are one step.
findEntitlement(t) ==
    /\ task[t].pc = "findEnt"
    /\ \E e \in Live :
          /\ Allows(ent[e], task[t].move, task[t].days)
          /\ Continue(t, [task[t] EXCEPT
                !.pc = "saveEnt", !.eid = e, !.base = ent[e],
                !.doc = Moved(ent[e], task[t].move, task[t].days)])
    /\ OnlyTask

\* No document, or not enough days on it: the handler throws.
refuseMove(t) ==
    /\ task[t].pc = "findEnt"
    /\ \/ Live = {}
       \/ \E e \in Live : ~Allows(ent[e], task[t].move, task[t].days)
    /\ Return(t)
    /\ OnlyTask

\* The days have moved.  A handler with a document of its own to write goes
\* on to it, unless new Types.ObjectId(id) throws on the way: then the balance
\* has been moved for a request or an adjustment that stays as it was.
saveEntitlement(t) ==
    /\ task[t].pc = "saveEnt"
    /\ entLife[task[t].eid] = "live"
    /\ ent' = [ent EXCEPT ![task[t].eid] = Saved(@, task[t].base, task[t].doc)]
    /\ IF task[t].then = "idle" \/ task[t].id = "malformed"
       THEN Return(t)
       ELSE Continue(t, [task[t] EXCEPT !.pc = task[t].then])
    /\ UNCHANGED <<entLife, req, flow, adj>>

\* The document was deleted since it was read: save throws.
loseEntitlement(t) ==
    /\ task[t].pc = "saveEnt"
    /\ entLife[task[t].eid] # "live"
    /\ Return(t)
    /\ OnlyTask

insertRequest(t, r) ==
    /\ task[t].pc = "insertReq"
    /\ ~Born(r)
    /\ req' = [req EXCEPT ![r] = [status |-> PENDING, days |-> task[t].days]]
    /\ Return(t)
    /\ UNCHANGED <<ent, entLife, flow, adj>>

saveRequest(t) ==
    /\ task[t].pc = "saveReq"
    /\ req' = [req EXCEPT ![task[t].rid] = Saved(@, task[t].seen, task[t].upd)]
    /\ flow' = IF task[t].entry = "none" THEN flow
               ELSE [flow EXCEPT ![task[t].rid][task[t].entry] = @ + 1]
    /\ Return(t)
    /\ UNCHANGED <<ent, entLife, adj>>

-----------------------------------------------------------------------------
(* leaveEntitlement and leaveAdjustment.                                    *)

\* The year is looked up first and the document inserted in a second step,
\* where the unique index has the last word.
createEntitlement(t, e, g) ==
    /\ Receives(t, "createEntitlement")
    /\ entLife[e] = "unborn"
    /\ \A u \in Tasks : task[u].pc = "insertEnt" => task[u].eid # e
    /\ \A d \in Live : YearOf[d] # YearOf[e]
    /\ Continue(t, [Idle EXCEPT !.pc = "insertEnt", !.eid = e,
                                !.doc = Granted(g[1], g[2])])
    /\ OnlyTask

\* Mutant: no unique index.
insertEntitlement_NoIndex(t) ==
    /\ task[t].pc = "insertEnt"
    /\ ent' = [ent EXCEPT ![task[t].eid] = task[t].doc]
    /\ entLife' = [entLife EXCEPT ![task[t].eid] = "live"]
    /\ Return(t)
    /\ UNCHANGED <<req, flow, adj>>

insertEntitlement(t) ==
    /\ task[t].pc = "insertEnt"
    /\ LET e == task[t].eid
       IN IF \A d \in Live : YearOf[d] # YearOf[e]
          THEN /\ ent' = [ent EXCEPT ![e] = task[t].doc]
               /\ entLife' = [entLife EXCEPT ![e] = "live"]
          ELSE UNCHANGED <<ent, entLife>>
    /\ Return(t)
    /\ UNCHANGED <<req, flow, adj>>

updateEntitlement(t, e, dto) ==
    /\ Receives(t, "updateEntitlement")
    /\ e \in Live
    /\ Valid(updated(ent[e], dto))
    /\ Continue(t, [Idle EXCEPT !.pc = "saveEnt", !.move = "set", !.eid = e,
                                !.base = ent[e], !.doc = updated(ent[e], dto)])
    /\ OnlyTask

\* removeByEmployee: one deleteMany, whatever is in progress.
removeEntitlement(t) ==
    /\ Receives(t, "removeEntitlement")
    /\ Live # {}
    /\ entLife' = [e \in Entitlements |-> IF e \in Live THEN "deleted" ELSE entLife[e]]
    /\ UNCHANGED <<ent, req, flow, adj, task>>

createAdjustment(t, a) ==
    /\ Receives(t, "createAdjustment")
    /\ adj[a] = "unborn"
    /\ adj' = [adj EXCEPT ![a] = "recorded"]
    /\ UNCHANGED <<ent, entLife, req, flow, task>>

\* An ADD is charged to taken, anything else is credited to it; the
\* adjustment may have been approved before.
approveAdjustment(t, a, id) ==
    /\ Receives(t, "approveAdjustment")
    /\ adj[a] # "unborn"
    /\ Continue(t, [Idle EXCEPT
          !.pc = "findEnt", !.then = "saveAdj", !.move = "adjust",
          !.days = IF a.type = "add" THEN a.amount ELSE -a.amount, !.aid = a,
          !.id = id])
    /\ OnlyTask

saveAdjustment(t) ==
    /\ task[t].pc = "saveAdj"
    /\ adj' = [adj EXCEPT ![task[t].aid] = "approved"]
    /\ Return(t)
    /\ UNCHANGED <<ent, entLife, req, flow>>

\* The process dies and comes back: every call in progress is lost, the
\* database keeps what was saved.
restart ==
    /\ "restart" \in Ops
    /\ \E t \in Tasks : task[t].pc # "idle"
    /\ task' = [t \in Tasks |-> Idle]
    /\ OnlyTask

-----------------------------------------------------------------------------
\* A call arrives.
Call(t) ==
    \/ \E n \in Days, id \in Ids("create") : create(t, n, id)
    \/ \E r \in Requests, n \in Days, id \in Ids("update") : update(t, r, n, id)
    \/ \E r \in Requests, id \in Ids("cancel") : cancel(t, r, id)
    \/ \E r \in Requests : managerApprove(t, r)
    \/ \E r \in Requests, id \in Ids("managerReject") : managerReject(t, r, id)
    \/ \E batch \in Batches, id \in Ids("bulkProcess") : bulkProcess(t, batch, id)
    \/ \E e \in Entitlements, g \in Grants : createEntitlement(t, e, g)
    \/ \E e \in Entitlements, dto \in Settings : updateEntitlement(t, e, dto)
    \/ removeEntitlement(t)
    \/ \E a \in Adjustments : createAdjustment(t, a)
    \/ \E a \in Adjustments, id \in Ids("approveAdjustment") : approveAdjustment(t, a, id)

\* A call in progress gets the answer to its last database operation.
Step(t) ==
    \/ bulkItem(t)
    \/ hrApprove(t)
    \/ hrReject(t)
    \/ hrRefuse(t)
    \/ findEntitlement(t)
    \/ refuseMove(t)
    \/ saveEntitlement(t)
    \/ loseEntitlement(t)
    \/ \E r \in Requests : insertRequest(t, r)
    \/ saveRequest(t)
    \/ insertEntitlement(t)
    \/ saveAdjustment(t)

Next == (\E t \in Tasks : Call(t) \/ Step(t)) \/ restart

Spec == Init /\ [][Next]_vars

\* The database answers and the event loop is fair; nobody has to call.
FairSpec == Spec /\ \A t \in Tasks : WF_vars(Step(t))

-----------------------------------------------------------------------------
(* Properties.                                                              *)

RequestDoc == [status : LeaveStatus \cup {"absent"}, days : Nat]

Frame == [pc : {"idle", "bulk", "hr", "findEnt", "saveEnt", "insertReq",
                "saveReq", "insertEnt", "saveAdj"},
          then : {"idle", "insertReq", "saveReq", "saveAdj"},
          move : {"none", "reserve", "release", "consume", "revert", "adjust", "set"},
          days : Int,
          rid : Requests \cup {None},
          seen : RequestDoc,
          upd : RequestDoc,
          entry : Entries \cup {"none"},
          eid : Entitlements \cup {None},
          base : Balance,
          doc : Balance,
          aid : Adjustments \cup {None},
          items : Seq(Item),
          id : {"valid", "malformed"}]

\* The types of the variables.
TypeOK ==
    /\ ent \in [Entitlements -> Balance]
    /\ entLife \in [Entitlements -> {"unborn", "live", "deleted"}]
    /\ req \in [Requests -> RequestDoc]
    /\ flow \in [Requests -> [Entries -> Nat]]
    /\ adj \in [Adjustments -> {"unborn", "recorded", "approved"}]
    /\ task \in [Tasks -> Frame]

\* However the calls interleave and wherever the process dies, no field of an
\* entitlement is ever stored negative: each save writes only values its
\* handler has checked, even when it mixes them with those of another
\* (reservePending, releasePending, consumePendingToTaken, revertTaken,
\* update, adjustBalance).
BalanceNeverNegative == \A e \in Entitlements : Valid(ent[e])

\* A request that awaits HR review has a manager's approval in its approval
\* flow, and an approved one also HR's, whatever ran concurrently
\* (managerApprove, hrApprove, hrReject, bulkProcess).
TwoStageApproval ==
    \A r \in Requests :
        /\ req[r].status \in {MANAGER_APPROVED, APPROVED}
              => flow[r]["manager approved"] > 0
        /\ req[r].status = APPROVED => flow[r]["hr approved"] > 0

TakenMoveAuthorised(e) ==
    \E t \in Tasks :
        /\ task[t].pc = "saveEnt" /\ task[t].eid = e
        /\ \/ task[t].move = "consume" /\ flow[task[t].rid]["manager approved"] > 0
           \/ task[t].move = "revert" /\ flow[task[t].rid]["hr approved"] > 0
           \/ task[t].move = "adjust" /\ adj[task[t].aid] # "unborn"
           \/ task[t].move = "set"

\* The days taken of an entitlement only move in the save of a handler that
\* was entitled to move them: the approval by HR of a request a manager
\* approved, the cancellation of a request HR approved, an adjustment on
\* record, or HR's own update.
TakenMovesAuthorised ==
    [][\A e \in Live : ent'[e].taken # ent[e].taken => TakenMoveAuthorised(e)]_vars

\* remaining is what the other fields leave ("Remaining after taken & pending",
\* leave-entitlement.schema.ts; recomputeRemaining before every save).
RemainingIdentity == \A e \in Live : ent[e].remaining = RemainingOf(ent[e])

\* Only a pending request can be updated (leaveRequest.update): the duration
\* the approvers decide on, and the balance is charged with, is the final one.
DurationFrozen ==
    [][\A r \in Requests :
          Born(r) /\ req'[r].days # req[r].days => req[r].status = PENDING]_vars

Rank(s) == CASE s = PENDING -> 0 [] s = MANAGER_APPROVED -> 1 [] s = APPROVED -> 2
             [] OTHER -> 3

\* A decided request never goes back to an earlier stage of its review.
ReviewOnlyAdvances ==
    [][\A r \in Requests :
          Born(r) => Rank(req[r].status) <= Rank(req[r].status)']_vars

\* One entitlement per employee, leave type and year, however many are being
\* created at once (leaveEntitlement.create, the unique index of the schema).
OneEntitlementPerYear == \A d, e \in Live : YearOf[d] = YearOf[e] => d = e

BatchSizes == {Len(batch) : batch \in Batches}

AtItem(t, left) == task[t].pc = "bulk" /\ Len(task[t].items) = left

\* A batch is worked through to its last item, whatever becomes of the items
\* before it: an item that is not awaiting review, that was decided meanwhile,
\* or whose handler throws, is put on the failed list and the loop goes on to
\* the next one (bulkProcess, its catch inside the loop); and every call ends,
\* with an answer or an exception.
BatchServed ==
    \A t \in Tasks :
        /\ \A n \in UNION {2 .. size : size \in BatchSizes} : AtItem(t, n) ~> AtItem(t, n - 1)
        /\ task[t].pc # "idle" ~> task[t].pc = "idle"
=============================================================================
