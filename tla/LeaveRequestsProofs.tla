------------------------- MODULE LeaveRequestsProofs -------------------------
(***************************************************************************)
(* Theorems about LeaveRequests for every set of calls, requests and       *)
(* entitlement documents, with no bound on what they hold.                 *)
(***************************************************************************)
EXTENDS LeaveRequests, SequenceTheorems, TLAPS

Moves == {"none", "reserve", "release", "consume", "revert", "adjust", "set"}

(* Typing of the balance arithmetic.                                        *)

LEMMA RecomputeType ==
    ASSUME NEW b \in Balance
    PROVE  recomputeRemaining(b) \in Balance
  BY DEF recomputeRemaining, RemainingOf, Balance, Fields

LEMMA MovedType ==
    ASSUME NEW b \in Balance, NEW n \in Int, NEW move
    PROVE  Moved(b, move, n) \in Balance
<1>1. reservePending(b, n) \in Balance
  <2>1. [b EXCEPT !.pending = @ + n] \in Balance  BY DEF Balance, Fields
  <2> QED  BY <2>1, RecomputeType DEF reservePending
<1>2. releasePending(b, n) \in Balance
  <2>1. [b EXCEPT !.pending = @ - n] \in Balance  BY DEF Balance, Fields
  <2> QED  BY <2>1, RecomputeType DEF releasePending
<1>3. consumePendingToTaken(b, n) \in Balance
  <2>0. b.pending - n \in Int /\ b.taken + n \in Int  BY DEF Balance, Fields
  <2>1. [b EXCEPT !.pending = @ - n, !.taken = @ + n] \in Balance
    BY <2>0, Zenon DEF Balance
  <2> QED  BY <2>1, RecomputeType DEF consumePendingToTaken
<1>4. revertTaken(b, n) \in Balance
  <2>1. [b EXCEPT !.taken = @ - n] \in Balance  BY DEF Balance, Fields
  <2> QED  BY <2>1, RecomputeType DEF revertTaken
<1>5. adjustBalance(b, n) \in Balance
  <2>1. [b EXCEPT !.taken = @ + n] \in Balance  BY DEF Balance, Fields
  <2> QED  BY <2>1, RecomputeType DEF adjustBalance
<1> QED  BY <1>1, <1>2, <1>3, <1>4, <1>5 DEF Moved

LEMMA UpdatedType ==
    ASSUME NEW b \in Balance, NEW dto \in Settings
    PROVE  updated(b, dto) \in Balance
<1>1. [f \in Fields |-> IF f \in DOMAIN dto THEN dto[f] ELSE b[f]] \in Balance
  BY RequestsAssumption DEF Balance
<1> QED  BY <1>1, RecomputeType DEF updated

LEMMA GrantedType ==
    ASSUME NEW g \in Grants
    PROVE  /\ Granted(g[1], g[2]) \in Balance
           /\ Valid(Granted(g[1], g[2]))
           /\ Granted(g[1], g[2]).remaining = RemainingOf(Granted(g[1], g[2]))
<1>1. g[1] \in Nat /\ g[2] \in Nat  BY RequestsAssumption
<1> QED  BY <1>1 DEF Granted, Balance, Valid, Fields, RemainingOf

LEMMA SavedType ==
    ASSUME NEW b \in Balance, NEW read \in Balance, NEW doc \in Balance
    PROVE  Saved(b, read, doc) \in Balance
  BY DEF Saved, Balance

LEMMA SavedRequestType ==
    ASSUME NEW d \in RequestDoc, NEW read \in RequestDoc, NEW upd \in RequestDoc
    PROVE  /\ Saved(d, read, upd) \in RequestDoc
           /\ Saved(d, read, upd).status =
                 IF upd.status # read.status THEN upd.status ELSE d.status
           /\ Saved(d, read, upd).days =
                 IF upd.days # read.days THEN upd.days ELSE d.days
<1>1. DOMAIN d = {"status", "days"}  BY DEF RequestDoc
<1>2. Saved(d, read, upd) =
        [f \in {"status", "days"} |-> IF upd[f] # read[f] THEN upd[f] ELSE d[f]]
  BY <1>1 DEF Saved
<1>3. Saved(d, read, upd) =
        [status |-> IF upd.status # read.status THEN upd.status ELSE d.status,
         days |-> IF upd.days # read.days THEN upd.days ELSE d.days]
  BY <1>2
<1> QED  BY <1>3 DEF RequestDoc

-----------------------------------------------------------------------------
(* Type correctness.  A call in progress names the documents its remaining  *)
(* steps will read and save.                                                *)

WellFormed(h) ==
    /\ h.pc \in {"saveReq", "insertReq", "saveAdj"} => h.then = h.pc
    /\ h.then = "saveReq" => h.rid \in Requests
    /\ h.then = "saveAdj" => h.aid \in Adjustments
    /\ h.then = "insertReq" => h.days \in Nat
    /\ h.pc \in {"saveEnt", "insertEnt"} => h.eid \in Entitlements
    /\ h.pc \in {"bulk", "hr"} => h.items # <<>>

TypeInv == TypeOK /\ \A t \in Tasks : WellFormed(task[t])

\* What the id of a body can turn out to be.
BodyIds == {"valid", "malformed"}

LEMMA IdsType == \A op : Ids(op) \subseteq BodyIds
  BY DEF Ids, BodyIds

LEMMA NoBalanceType == NoBalance \in Balance
  BY DEF NoBalance, Balance

LEMMA IdleType == Idle \in Frame /\ WellFormed(Idle)
  BY NoBalanceType DEF Idle, Frame, Absent, RequestDoc, WellFormed

LEMMA TailType ==
    ASSUME NEW S, NEW s \in Seq(S), Len(s) > 1
    PROVE  Tail(s) \in Seq(S) /\ Tail(s) # <<>>
<1>1. s # <<>>  OBVIOUS
<1>2. Tail(s) \in Seq(S) /\ Len(Tail(s)) = Len(s) - 1  BY <1>1, HeadTailProperties
<1>3. Len(s) \in Nat /\ Len(Tail(s)) # 0  BY <1>2
<1>4. Tail(s) # <<>>  BY <1>3, EmptySeq
<1> QED  BY <1>2, <1>4

LEMMA ContinueType ==
    ASSUME TypeInv, NEW t \in Tasks, NEW h, h \in Frame, WellFormed(h), Continue(t, h)
    PROVE  task' \in [Tasks -> Frame] /\ \A u \in Tasks : WellFormed(task'[u])
  BY DEF TypeInv, TypeOK, Continue

LEMMA ReturnType ==
    ASSUME TypeInv, NEW t \in Tasks, Return(t)
    PROVE  task' \in [Tasks -> Frame] /\ \A u \in Tasks : WellFormed(task'[u])
<1> DEFINE more == [Idle EXCEPT !.pc = "bulk", !.items = Tail(task[t].items),
                               !.id = task[t].id]
<1>1. task[t].items \in Seq(Item) /\ task[t].id \in {"valid", "malformed"}
  BY DEF TypeInv, TypeOK, Frame
<1>2. ASSUME Len(task[t].items) > 1  PROVE more \in Frame /\ WellFormed(more)
  <2>1. Tail(task[t].items) \in Seq(Item) /\ Tail(task[t].items) # <<>>
    BY <1>1, <1>2, TailType
  <2>2. more \in Frame  BY <1>1, <2>1, IdleType DEF Frame
  <2>3. WellFormed(more)  BY <2>1 DEF Idle, WellFormed
  <2> QED  BY <2>2, <2>3
<1>3. CASE Len(task[t].items) > 1
  <2>1. Continue(t, more)  BY <1>3 DEF Return
  <2> QED  BY <2>1, <1>2, <1>3, ContinueType
<1>4. CASE ~(Len(task[t].items) > 1)
  <2>1. Continue(t, Idle)  BY <1>4 DEF Return
  <2> QED  BY <2>1, IdleType, ContinueType
<1> QED  BY <1>3, <1>4

LEMMA FrameUpdate ==
    ASSUME NEW f \in Frame, NEW pc \in {"saveReq", "findEnt"}, NEW move \in Moves,
           NEW days \in Int, NEW r \in Requests, NEW seen \in RequestDoc,
           NEW upd \in RequestDoc, NEW entry \in Entries \cup {"none"}, NEW id \in BodyIds
    PROVE  [f EXCEPT !.pc = pc, !.then = "saveReq", !.move = move, !.days = days,
                     !.rid = r, !.seen = seen, !.upd = upd, !.entry = entry, !.id = id] \in Frame
<1> DEFINE g == [f EXCEPT !.pc = pc, !.then = "saveReq", !.move = move, !.days = days, !.rid = r]
<1>1. g \in Frame  BY DEF Frame, Moves
<1> HIDE DEF g
<1> DEFINE k == [g EXCEPT !.seen = seen, !.upd = upd, !.entry = entry]
<1>2. k \in Frame  BY <1>1 DEF Frame
<1> HIDE DEF k
<1>3. [k EXCEPT !.id = id] \in Frame  BY <1>2 DEF Frame, BodyIds
<1> QED  BY <1>3, Zenon DEF g, k

LEMMA HandleType ==
    ASSUME TypeInv, NEW t \in Tasks, NEW r \in Requests, NEW move \in Moves,
           NEW days \in Int, NEW upd \in RequestDoc,
           NEW entry \in Entries \cup {"none"}, NEW id \in BodyIds,
           Handle(t, r, move, days, upd, entry, id)
    PROVE  task' \in [Tasks -> Frame] /\ \A u \in Tasks : WellFormed(task'[u])
<1> DEFINE h == [task[t] EXCEPT
        !.pc = IF move = "none" THEN "saveReq" ELSE "findEnt",
        !.then = "saveReq", !.move = move, !.days = days, !.rid = r,
        !.seen = req[r], !.upd = upd, !.entry = entry, !.id = id]
<1>1. task[t] \in Frame /\ req[r] \in RequestDoc  BY DEF TypeInv, TypeOK
<1>2. h \in Frame
  <2> DEFINE pc == IF move = "none" THEN "saveReq" ELSE "findEnt"
  <2>1. pc \in {"saveReq", "findEnt"}  OBVIOUS
  <2> HIDE DEF pc
  <2>2. \A f \in Frame, seen \in RequestDoc :
           [f EXCEPT !.pc = pc, !.then = "saveReq", !.move = move, !.days = days,
                     !.rid = r, !.seen = seen, !.upd = upd, !.entry = entry,
                     !.id = id] \in Frame
    <3> TAKE f \in Frame, seen \in RequestDoc
    <3> QED  BY <2>1, FrameUpdate
  <2>3. [task[t] EXCEPT
           !.pc = pc, !.then = "saveReq", !.move = move, !.days = days, !.rid = r,
           !.seen = req[r], !.upd = upd, !.entry = entry, !.id = id] \in Frame
    BY <1>1, <2>2, Zenon
  <2> QED  BY <2>3, Zenon DEF pc
<1>3. WellFormed(h)  BY <1>1 DEF Frame, WellFormed
<1> QED  BY <1>2, <1>3, ContinueType DEF Handle

LEMMA DecideType ==
    ASSUME TypeInv, NEW t \in Tasks, NEW r \in Requests, NEW move \in Moves,
           NEW status \in LeaveStatus, NEW entry \in Entries \cup {"none"}, NEW id \in BodyIds,
           Decide(t, r, move, status, entry, id)
    PROVE  task' \in [Tasks -> Frame] /\ \A u \in Tasks : WellFormed(task'[u])
<1>1. req[r].days \in Int /\ [req[r] EXCEPT !.status = status] \in RequestDoc
  BY DEF TypeInv, TypeOK, RequestDoc
<1> QED  BY <1>1, HandleType DEF Decide

\* The steps that only change what a call remembers.
TaskTyped == task' \in [Tasks -> Frame] /\ \A u \in Tasks : WellFormed(task'[u])

LEMMA CallType ==
    ASSUME TypeInv, NEW t \in Tasks, Call(t)
    PROVE  TypeInv'
<1> USE DEF TaskTyped
<1>a. ASSUME OnlyTask, TaskTyped  PROVE TypeInv'
  BY <1>a DEF OnlyTask, TypeInv, TypeOK
<1>b. ASSUME NEW h, h \in Frame, WellFormed(h), Continue(t, h)  PROVE TaskTyped
  BY <1>b, ContinueType
<1>v. \A op : Ids(op) \subseteq {"valid", "malformed"}  BY IdsType DEF BodyIds
<1>1. ASSUME NEW n \in Days, NEW id \in Ids("create"), create(t, n, id)  PROVE TypeInv'
  <2> DEFINE h == [Idle EXCEPT !.pc = "findEnt", !.then = "insertReq",
                               !.move = "reserve", !.days = n, !.id = id]
  <2>1. n \in Nat /\ n \in Int  BY RequestsAssumption
  <2>2. h \in Frame  BY <2>1, <1>v, IdleType DEF Frame
  <2>3. WellFormed(h)  BY <2>1 DEF Idle, WellFormed
  <2> QED  BY <1>1, <2>2, <2>3, <1>a, <1>b DEF create
<1>2. ASSUME NEW r \in Requests, NEW n \in Days, NEW id \in Ids("update"),
             update(t, r, n, id)
      PROVE  TypeInv'
  <2> DEFINE delta == n - req[r].days
             move == CASE delta > 0 -> "reserve" [] delta < 0 -> "release"
                       [] OTHER -> "none"
             size == IF delta < 0 THEN -delta ELSE delta
             upd == [req[r] EXCEPT !.days = n]
  <2>1. n \in Nat /\ req[r] \in RequestDoc  BY RequestsAssumption DEF TypeInv, TypeOK
  <2>2. delta \in Int  BY <2>1 DEF RequestDoc
  <2>3. move \in Moves /\ size \in Int /\ upd \in RequestDoc
    BY <2>1, <2>2 DEF Moves, RequestDoc
  <2>4. Handle(t, r, move, size, upd, "none", id)  BY <1>2 DEF update
  <2> HIDE DEF move, size, upd
  <2>5. TaskTyped  BY <2>3, <2>4, IdsType, HandleType
  <2> QED  BY <1>2, <2>5, <1>a DEF update
<1>3. ASSUME NEW r \in Requests, NEW id \in Ids("cancel"), cancel(t, r, id)  PROVE TypeInv'
  <2> DEFINE move == CASE req[r].status = PENDING -> "release"
                       [] req[r].status = APPROVED -> "revert" [] OTHER -> "none"
  <2>1. move \in Moves  BY DEF Moves
  <2>2. Decide(t, r, move, CANCELLED, "cancelled", id)  BY <1>3 DEF cancel
  <2> HIDE DEF move
  <2>3. TaskTyped  BY <2>1, <2>2, IdsType, DecideType DEF LeaveStatus, Entries
  <2> QED  BY <1>3, <2>3, <1>a DEF cancel
<1>4. ASSUME NEW r \in Requests, managerApprove(t, r)  PROVE TypeInv'
  <2>1. TaskTyped
    BY <1>4, DecideType DEF managerApprove, BodyIds, Moves, LeaveStatus, Entries
  <2> QED  BY <1>4, <2>1, <1>a DEF managerApprove
<1>5. ASSUME NEW r \in Requests, NEW id \in Ids("managerReject"),
             managerReject(t, r, id)
      PROVE  TypeInv'
  <2> DEFINE move == IF req[r].status = PENDING THEN "release" ELSE "none"
  <2>1. move \in Moves  BY DEF Moves
  <2>2. Decide(t, r, move, REJECTED, "manager rejected", id)  BY <1>5 DEF managerReject
  <2> HIDE DEF move
  <2>3. TaskTyped  BY <2>1, <2>2, IdsType, DecideType DEF LeaveStatus, Entries
  <2> QED  BY <1>5, <2>3, <1>a DEF managerReject
<1>6. ASSUME NEW batch \in Batches, NEW id \in Ids("bulkProcess"),
             bulkProcess(t, batch, id)
      PROVE  TypeInv'
  <2> DEFINE h == [Idle EXCEPT !.pc = "bulk", !.items = batch, !.id = id]
  <2>1. batch \in Seq(Item) /\ batch # <<>>  BY <1>6, RequestsAssumption DEF bulkProcess
  <2>2. h \in Frame  BY <2>1, <1>v, IdleType DEF Frame
  <2>3. WellFormed(h)  BY <2>1 DEF Idle, WellFormed
  <2> QED  BY <1>6, <2>2, <2>3, <1>a, <1>b DEF bulkProcess
<1>7. ASSUME NEW e \in Entitlements, NEW g \in Grants, createEntitlement(t, e, g)
      PROVE TypeInv'
  <2> DEFINE h == [Idle EXCEPT !.pc = "insertEnt", !.eid = e,
                               !.doc = Granted(g[1], g[2])]
  <2>1. Granted(g[1], g[2]) \in Balance  BY GrantedType
  <2>2. h \in Frame  BY <2>1, IdleType DEF Frame
  <2>3. WellFormed(h)  BY DEF Idle, WellFormed
  <2> QED  BY <1>7, <2>2, <2>3, <1>a, <1>b DEF createEntitlement
<1>8. ASSUME NEW e \in Entitlements, NEW dto \in Settings, updateEntitlement(t, e, dto)
      PROVE TypeInv'
  <2> DEFINE h == [Idle EXCEPT !.pc = "saveEnt", !.move = "set", !.eid = e,
                               !.base = ent[e], !.doc = updated(ent[e], dto)]
  <2>1. ent[e] \in Balance  BY DEF TypeInv, TypeOK
  <2>2. updated(ent[e], dto) \in Balance  BY <2>1, UpdatedType
  <2>3. h \in Frame  BY <2>1, <2>2, IdleType DEF Frame
  <2>4. WellFormed(h)  BY DEF Idle, WellFormed
  <2> QED  BY <1>8, <2>3, <2>4, <1>a, <1>b DEF updateEntitlement
<1>9. ASSUME removeEntitlement(t)  PROVE TypeInv'
  BY <1>9 DEF removeEntitlement, TypeInv, TypeOK
<1>10. ASSUME NEW a \in Adjustments, createAdjustment(t, a)  PROVE TypeInv'
  BY <1>10 DEF createAdjustment, TypeInv, TypeOK
<1>11. ASSUME NEW a \in Adjustments, NEW id \in Ids("approveAdjustment"),
              approveAdjustment(t, a, id)
       PROVE  TypeInv'
  <2> DEFINE n == IF a.type = "add" THEN a.amount ELSE -a.amount
             h == [Idle EXCEPT !.pc = "findEnt", !.then = "saveAdj", !.move = "adjust",
                               !.days = n, !.aid = a, !.id = id]
  <2>1. n \in Int  BY RequestsAssumption
  <2> HIDE DEF n
  <2>2. h \in Frame  BY <2>1, <1>v, IdleType DEF Frame
  <2>3. WellFormed(h)  BY DEF Idle, WellFormed
  <2>4. OnlyTask /\ Continue(t, h)  BY <1>11 DEF approveAdjustment, n
  <2> QED  BY <2>2, <2>3, <2>4, <1>a, <1>b
<1> QED  BY <1>1, <1>2, <1>3, <1>4, <1>5, <1>6, <1>7, <1>8, <1>9, <1>10, <1>11 DEF Call

LEMMA StepType ==
    ASSUME TypeInv, NEW t \in Tasks, Step(t)
    PROVE  TypeInv'
<1> USE DEF TaskTyped
<1>h. task[t] \in Frame /\ WellFormed(task[t])  BY DEF TypeInv, TypeOK
<1>v. task[t].id \in BodyIds  BY <1>h DEF Frame, BodyIds
<1>a. ASSUME OnlyTask, TaskTyped  PROVE TypeInv'
  BY <1>a DEF OnlyTask, TypeInv, TypeOK
<1>b. ASSUME NEW h, h \in Frame, WellFormed(h), Continue(t, h)  PROVE TaskTyped
  BY <1>b, ContinueType
<1>c. ASSUME Return(t)  PROVE TaskTyped
  BY <1>c, ReturnType
<1>i. ASSUME task[t].pc \in {"bulk", "hr"}  PROVE Head(task[t].items) \in Item
  <2>1. task[t].items \in Seq(Item) /\ task[t].items # <<>>
    BY <1>h, <1>i DEF Frame, WellFormed
  <2> QED  BY <2>1, HeadTailProperties
<1>1. ASSUME bulkItem(t)  PROVE TypeInv'
  <2> DEFINE h == [task[t] EXCEPT !.pc = "hr"]
  <2>1. h \in Frame  BY <1>h DEF Frame
  <2>2. WellFormed(h)  BY <1>1, <1>h DEF Frame, WellFormed, bulkItem
  <2>3. Continue(t, h) \/ Return(t)  BY <1>1 DEF bulkItem
  <2>4. TaskTyped  BY <2>1, <2>2, <2>3, <1>b, <1>c
  <2> QED  BY <1>1, <2>4, <1>a DEF bulkItem
<1>2. ASSUME hrApprove(t)  PROVE TypeInv'
  <2> DEFINE r == Head(task[t].items).id
  <2>1. r \in Requests  BY <1>2, <1>i DEF hrApprove, Item
  <2>2. Decide(t, r, "consume", APPROVED, "hr approved", task[t].id)  BY <1>2 DEF hrApprove
  <2> HIDE DEF r
  <2>3. TaskTyped  BY <2>1, <2>2, <1>v, DecideType DEF Moves, LeaveStatus, Entries
  <2> QED  BY <1>2, <2>3, <1>a DEF hrApprove
<1>3. ASSUME hrReject(t)  PROVE TypeInv'
  <2> DEFINE r == Head(task[t].items).id
  <2>1. r \in Requests  BY <1>3, <1>i DEF hrReject, Item
  <2>2. Decide(t, r, "release", REJECTED, "hr rejected", task[t].id)  BY <1>3 DEF hrReject
  <2> HIDE DEF r
  <2>3. TaskTyped  BY <2>1, <2>2, <1>v, DecideType DEF Moves, LeaveStatus, Entries
  <2> QED  BY <1>3, <2>3, <1>a DEF hrReject
<1>4. ASSUME hrRefuse(t)  PROVE TypeInv'
  BY <1>4, <1>a, <1>c DEF hrRefuse
<1>5. ASSUME findEntitlement(t)  PROVE TypeInv'
  <2> DEFINE doc(e) == Moved(ent[e], task[t].move, task[t].days)
             h(e) == [task[t] EXCEPT !.pc = "saveEnt", !.eid = e, !.base = ent[e],
                                     !.doc = doc(e)]
  <2>1. PICK e \in Live : Continue(t, h(e))  BY <1>5 DEF findEntitlement
  <2>2. e \in Entitlements /\ ent[e] \in Balance  BY DEF Live, TypeInv, TypeOK
  <2>3. task[t].days \in Int  BY <1>h DEF Frame
  <2>4. doc(e) \in Balance  BY <2>2, <2>3, MovedType
  <2> HIDE DEF doc
  <2>5. h(e) \in Frame  BY <1>h, <2>2, <2>4 DEF Frame
  <2>6. WellFormed(h(e))  BY <1>h, <2>2 DEF Frame, WellFormed
  <2>7. TaskTyped  BY <2>1, <2>5, <2>6, <1>b
  <2> QED  BY <1>5, <2>7, <1>a DEF findEntitlement
<1>6. ASSUME refuseMove(t)  PROVE TypeInv'
  BY <1>6, <1>a, <1>c DEF refuseMove
<1>7. ASSUME saveEntitlement(t)  PROVE TypeInv'
  <2> DEFINE e == task[t].eid
             h == [task[t] EXCEPT !.pc = task[t].then]
             saved == Saved(ent[e], task[t].base, task[t].doc)
  <2>1. e \in Entitlements /\ ent[e] \in Balance
    BY <1>7, <1>h DEF saveEntitlement, WellFormed, TypeInv, TypeOK
  <2>2. task[t].base \in Balance /\ task[t].doc \in Balance  BY <1>h DEF Frame
  <2>3. saved \in Balance  BY <2>1, <2>2, SavedType
  <2>4. ent' = [ent EXCEPT ![e] = saved]  BY <1>7 DEF saveEntitlement
  <2>5. ent' \in [Entitlements -> Balance]
    <3> HIDE DEF saved
    <3> QED  BY <2>3, <2>4 DEF TypeInv, TypeOK
  <2>6. h \in Frame  BY <1>h DEF Frame
  <2>7. WellFormed(h)  BY <1>h DEF Frame, WellFormed
  <2>8. Continue(t, h) \/ Return(t)  BY <1>7 DEF saveEntitlement
  <2>9. TaskTyped  BY <2>6, <2>7, <2>8, <1>b, <1>c
  <2> QED  BY <1>7, <2>5, <2>9 DEF saveEntitlement, TypeInv, TypeOK
<1>8. ASSUME loseEntitlement(t)  PROVE TypeInv'
  BY <1>8, <1>a, <1>c DEF loseEntitlement
<1>9. ASSUME NEW r \in Requests, insertRequest(t, r)  PROVE TypeInv'
  <2>1. task[t].days \in Nat  BY <1>9, <1>h DEF insertRequest, WellFormed
  <2>2. [status |-> PENDING, days |-> task[t].days] \in RequestDoc
    BY <2>1 DEF RequestDoc, LeaveStatus
  <2>3. req' \in [Requests -> RequestDoc]
    BY <1>9, <2>2 DEF insertRequest, TypeInv, TypeOK
  <2>4. TaskTyped  BY <1>9, <1>c DEF insertRequest
  <2> QED  BY <1>9, <2>3, <2>4 DEF insertRequest, TypeInv, TypeOK
<1>10. ASSUME saveRequest(t)  PROVE TypeInv'
  <2> DEFINE r == task[t].rid
             saved == Saved(req[r], task[t].seen, task[t].upd)
  <2>1. r \in Requests /\ req[r] \in RequestDoc
    BY <1>10, <1>h DEF saveRequest, WellFormed, TypeInv, TypeOK
  <2>2. task[t].seen \in RequestDoc /\ task[t].upd \in RequestDoc
    /\ task[t].entry \in Entries \cup {"none"}  BY <1>h DEF Frame
  <2>3. saved \in RequestDoc  BY <2>1, <2>2, SavedRequestType
  <2>4. req' = [req EXCEPT ![r] = saved]  BY <1>10 DEF saveRequest
  <2>5. req' \in [Requests -> RequestDoc]
    <3> HIDE DEF saved
    <3> QED  BY <2>3, <2>4 DEF TypeInv, TypeOK
  <2>6. flow' \in [Requests -> [Entries -> Nat]]
    BY <1>10, <2>1, <2>2 DEF saveRequest, TypeInv, TypeOK
  <2>7. TaskTyped  BY <1>10, <1>c DEF saveRequest
  <2> QED  BY <1>10, <2>5, <2>6, <2>7 DEF saveRequest, TypeInv, TypeOK
<1>11. ASSUME insertEntitlement(t)  PROVE TypeInv'
  <2>1. task[t].eid \in Entitlements /\ task[t].doc \in Balance
    BY <1>11, <1>h DEF insertEntitlement, WellFormed, Frame
  <2>2. /\ ent' \in [Entitlements -> Balance]
        /\ entLife' \in [Entitlements -> {"unborn", "live", "deleted"}]
    BY <1>11, <2>1 DEF insertEntitlement, TypeInv, TypeOK
  <2>3. TaskTyped  BY <1>11, <1>c DEF insertEntitlement
  <2> QED  BY <1>11, <2>2, <2>3 DEF insertEntitlement, TypeInv, TypeOK
<1>12. ASSUME saveAdjustment(t)  PROVE TypeInv'
  <2>1. task[t].aid \in Adjustments  BY <1>12, <1>h DEF saveAdjustment, WellFormed
  <2>2. adj' \in [Adjustments -> {"unborn", "recorded", "approved"}]
    BY <1>12, <2>1 DEF saveAdjustment, TypeInv, TypeOK
  <2>3. TaskTyped  BY <1>12, <1>c DEF saveAdjustment
  <2> QED  BY <1>12, <2>2, <2>3 DEF saveAdjustment, TypeInv, TypeOK
<1> QED  BY <1>1, <1>2, <1>3, <1>4, <1>5, <1>6, <1>7, <1>8, <1>9, <1>10, <1>11, <1>12
         DEF Step

LEMMA RestartType == TypeInv /\ restart => TypeInv'
<1> SUFFICES ASSUME TypeInv, restart  PROVE TypeInv'
  OBVIOUS
<1>1. task' = [t \in Tasks |-> Idle] /\ OnlyTask  BY DEF restart
<1> QED  BY <1>1, IdleType DEF OnlyTask, TypeInv, TypeOK

LEMMA InitType == Init => TypeInv
<1> SUFFICES ASSUME Init  PROVE TypeInv
  OBVIOUS
<1>1. ent \in [Entitlements -> Balance]  BY GrantedType DEF Init
<1>2. req \in [Requests -> RequestDoc]  BY DEF Init, Absent, RequestDoc
<1>3. task \in [Tasks -> Frame] /\ \A t \in Tasks : WellFormed(task[t])
  BY IdleType DEF Init
<1> QED  BY <1>1, <1>2, <1>3 DEF Init, TypeInv, TypeOK

LEMMA NextType == TypeInv /\ [Next]_vars => TypeInv'
<1> SUFFICES ASSUME TypeInv, [Next]_vars  PROVE TypeInv'
  OBVIOUS
<1>1. CASE UNCHANGED vars  BY <1>1 DEF vars, TypeInv, TypeOK
<1>2. CASE Next  BY <1>2, CallType, StepType, RestartType DEF Next
<1> QED  BY <1>1, <1>2

\* The documents of every request, entitlement and adjustment, and what every
\* call remembers, are of their types, and a call only ever saves documents
\* that exist (LeavesService: the schemas and the handlers' local variables).
THEOREM TypeCorrect == Spec => []TypeOK
<1>1. TypeInv => TypeOK  BY DEF TypeInv
<1> QED  BY InitType, NextType, <1>1, PTL DEF Spec

-----------------------------------------------------------------------------
(* No stored balance is negative: what a call is about to save has been     *)
(* checked, field by field, and a save only writes such fields.             *)

BalanceInv ==
    /\ BalanceNeverNegative
    /\ \A t \in Tasks : task[t].pc \in {"saveEnt", "insertEnt"} => Valid(task[t].doc)

LEMMA SavedValid ==
    ASSUME NEW b \in Balance, NEW read \in Balance, NEW doc \in Balance,
           Valid(b), Valid(doc)
    PROVE  Valid(Saved(b, read, doc))
  BY DEF Saved, Valid, Balance

\* No step but the start of a save leads to a save.
LEMMA BalanceFrame ==
    ASSUME TypeInv, BalanceInv, UNCHANGED ent, NEW t \in Tasks, NEW h,
           Continue(t, h), h.pc \in {"saveEnt", "insertEnt"} => Valid(h.doc)
    PROVE  BalanceInv'
  BY DEF BalanceInv, BalanceNeverNegative, TypeInv, TypeOK, Continue

LEMMA ReturnPc ==
    ASSUME NEW t \in Tasks, Return(t), TypeInv
    PROVE  \E h : Continue(t, h) /\ h.pc \in {"idle", "bulk"} /\ h.then = "idle"
                    /\ h.move = "none"
                    /\ (h.id = "valid" \/ (h.id = task[t].id /\ task[t].items # <<>>))
<1>1. CASE Len(task[t].items) > 1
  <2> DEFINE h == [Idle EXCEPT !.pc = "bulk", !.items = Tail(task[t].items),
                               !.id = task[t].id]
  <2>1. Continue(t, h)  BY <1>1 DEF Return
  <2>2. h.pc = "bulk" /\ h.then = "idle" /\ h.move = "none" /\ h.id = task[t].id
    BY DEF Idle
  <2>3. task[t].items # <<>>  BY <1>1
  <2> QED  BY <2>1, <2>2, <2>3
<1>2. CASE ~(Len(task[t].items) > 1)
  <2>1. Continue(t, Idle)  BY <1>2 DEF Return
  <2>2. /\ Idle.pc = "idle" /\ Idle.then = "idle" /\ Idle.move = "none"
        /\ Idle.id = "valid"
    BY DEF Idle
  <2> QED  BY <2>1, <2>2
<1> QED  BY <1>1, <1>2

LEMMA ReturnBalance ==
    ASSUME TypeInv, BalanceInv, UNCHANGED ent, NEW t \in Tasks, Return(t)
    PROVE  BalanceInv'
<1>1. PICK h : Continue(t, h) /\ h.pc \in {"idle", "bulk"}  BY ReturnPc
<1> QED  BY <1>1, BalanceFrame

LEMMA HandleBalance ==
    ASSUME TypeInv, BalanceInv, UNCHANGED ent, NEW t \in Tasks, NEW r, NEW move,
           NEW days, NEW upd, NEW entry, NEW id, Handle(t, r, move, days, upd, entry, id)
    PROVE  BalanceInv'
<1> DEFINE h == [task[t] EXCEPT
        !.pc = IF move = "none" THEN "saveReq" ELSE "findEnt",
        !.then = "saveReq", !.move = move, !.days = days, !.rid = r,
        !.seen = req[r], !.upd = upd, !.entry = entry, !.id = id]
<1>1. Continue(t, h)  BY DEF Handle
<1>2. h.pc \in {"saveReq", "findEnt"}  BY DEF TypeInv, TypeOK, Frame
<1> QED  BY <1>1, <1>2, BalanceFrame

LEMMA CallBalance ==
    ASSUME TypeInv, BalanceInv, NEW t \in Tasks, Call(t)
    PROVE  BalanceInv'
<1>1. ASSUME NEW n \in Days, NEW id \in Ids("create"), create(t, n, id)  PROVE BalanceInv'
  <2> DEFINE h == [Idle EXCEPT !.pc = "findEnt", !.then = "insertReq",
                               !.move = "reserve", !.days = n, !.id = id]
  <2>1. Continue(t, h) /\ UNCHANGED ent /\ h.pc = "findEnt"
    BY <1>1 DEF create, OnlyTask, Idle
  <2> QED  BY <2>1, BalanceFrame
<1>2. ASSUME NEW r \in Requests, NEW n \in Days, NEW id \in Ids("update"),
             update(t, r, n, id)
      PROVE  BalanceInv'
  BY <1>2, HandleBalance DEF update, OnlyTask
<1>3. ASSUME NEW r \in Requests, NEW id \in Ids("cancel"), cancel(t, r, id)  PROVE BalanceInv'
  BY <1>3, HandleBalance DEF cancel, Decide, OnlyTask
<1>4. ASSUME NEW r \in Requests, managerApprove(t, r)  PROVE BalanceInv'
  BY <1>4, HandleBalance DEF managerApprove, Decide, OnlyTask
<1>5. ASSUME NEW r \in Requests, NEW id \in Ids("managerReject"),
             managerReject(t, r, id)
      PROVE  BalanceInv'
  BY <1>5, HandleBalance DEF managerReject, Decide, OnlyTask
<1>6. ASSUME NEW batch \in Batches, NEW id \in Ids("bulkProcess"),
             bulkProcess(t, batch, id)
      PROVE  BalanceInv'
  <2> DEFINE h == [Idle EXCEPT !.pc = "bulk", !.items = batch, !.id = id]
  <2>1. Continue(t, h) /\ UNCHANGED ent /\ h.pc = "bulk"
    BY <1>6 DEF bulkProcess, OnlyTask, Idle
  <2> QED  BY <2>1, BalanceFrame
<1>7. ASSUME NEW e \in Entitlements, NEW g \in Grants, createEntitlement(t, e, g)
      PROVE BalanceInv'
  <2> DEFINE h == [Idle EXCEPT !.pc = "insertEnt", !.eid = e,
                               !.doc = Granted(g[1], g[2])]
  <2>1. Continue(t, h) /\ UNCHANGED ent /\ h.doc = Granted(g[1], g[2])
    BY <1>7 DEF createEntitlement, OnlyTask, Idle
  <2> QED  BY <2>1, GrantedType, BalanceFrame
<1>8. ASSUME NEW e \in Entitlements, NEW dto \in Settings, updateEntitlement(t, e, dto)
      PROVE BalanceInv'
  <2> DEFINE h == [Idle EXCEPT !.pc = "saveEnt", !.move = "set", !.eid = e,
                               !.base = ent[e], !.doc = updated(ent[e], dto)]
  <2>1. /\ Continue(t, h) /\ UNCHANGED ent /\ h.doc = updated(ent[e], dto)
        /\ Valid(updated(ent[e], dto))
    BY <1>8 DEF updateEntitlement, OnlyTask, Idle
  <2> QED  BY <2>1, BalanceFrame
<1>9. ASSUME removeEntitlement(t)  PROVE BalanceInv'
  BY <1>9 DEF removeEntitlement, BalanceInv, BalanceNeverNegative
<1>10. ASSUME NEW a \in Adjustments, createAdjustment(t, a)  PROVE BalanceInv'
  BY <1>10 DEF createAdjustment, BalanceInv, BalanceNeverNegative
<1>11. ASSUME NEW a \in Adjustments, NEW id \in Ids("approveAdjustment"),
              approveAdjustment(t, a, id)
       PROVE  BalanceInv'
  <2> DEFINE n == IF a.type = "add" THEN a.amount ELSE -a.amount
             h == [Idle EXCEPT !.pc = "findEnt", !.then = "saveAdj", !.move = "adjust",
                               !.days = n, !.aid = a, !.id = id]
  <2>1. Continue(t, h) /\ UNCHANGED ent /\ h.pc = "findEnt"
    BY <1>11 DEF approveAdjustment, OnlyTask, Idle
  <2> QED  BY <2>1, BalanceFrame
<1> QED  BY <1>1, <1>2, <1>3, <1>4, <1>5, <1>6, <1>7, <1>8, <1>9, <1>10, <1>11 DEF Call

LEMMA StepBalance ==
    ASSUME TypeInv, BalanceInv, NEW t \in Tasks, Step(t)
    PROVE  BalanceInv'
<1>h. task[t] \in Frame /\ WellFormed(task[t])  BY DEF TypeInv, TypeOK
<1>1. ASSUME bulkItem(t)  PROVE BalanceInv'
  <2> DEFINE h == [task[t] EXCEPT !.pc = "hr"]
  <2>1. h.pc = "hr"  BY <1>h DEF Frame
  <2>2. (Continue(t, h) \/ Return(t)) /\ UNCHANGED ent  BY <1>1 DEF bulkItem, OnlyTask
  <2> QED  BY <2>1, <2>2, BalanceFrame, ReturnBalance
<1>2. ASSUME hrApprove(t)  PROVE BalanceInv'
  BY <1>2, HandleBalance DEF hrApprove, Decide, OnlyTask
<1>3. ASSUME hrReject(t)  PROVE BalanceInv'
  BY <1>3, HandleBalance DEF hrReject, Decide, OnlyTask
<1>4. ASSUME hrRefuse(t)  PROVE BalanceInv'
  BY <1>4, ReturnBalance DEF hrRefuse, OnlyTask
<1>5. ASSUME findEntitlement(t)  PROVE BalanceInv'
  <2> DEFINE doc(e) == Moved(ent[e], task[t].move, task[t].days)
             h(e) == [task[t] EXCEPT !.pc = "saveEnt", !.eid = e, !.base = ent[e],
                                     !.doc = doc(e)]
  <2>1. PICK e \in Live : Allows(ent[e], task[t].move, task[t].days) /\ Continue(t, h(e))
    BY <1>5 DEF findEntitlement
  <2>2. Valid(doc(e))  BY <2>1 DEF Allows
  <2> HIDE DEF doc
  <2>3. h(e).doc = doc(e)  BY <1>h DEF Frame
  <2> QED  BY <1>5, <2>1, <2>2, <2>3, BalanceFrame DEF findEntitlement, OnlyTask
<1>6. ASSUME refuseMove(t)  PROVE BalanceInv'
  BY <1>6, ReturnBalance DEF refuseMove, OnlyTask
<1>7. ASSUME saveEntitlement(t)  PROVE BalanceInv'
  <2> DEFINE e == task[t].eid
             saved == Saved(ent[e], task[t].base, task[t].doc)
             h == [task[t] EXCEPT !.pc = task[t].then]
  <2>1. e \in Entitlements /\ ent[e] \in Balance
    BY <1>7, <1>h DEF saveEntitlement, WellFormed, TypeInv, TypeOK
  <2>2. task[t].base \in Balance /\ task[t].doc \in Balance  BY <1>h DEF Frame
  <2>3. Valid(ent[e]) /\ Valid(task[t].doc)
    BY <1>7, <2>1 DEF saveEntitlement, BalanceInv, BalanceNeverNegative
  <2>4. Valid(saved)  BY <2>1, <2>2, <2>3, SavedValid
  <2>5. ent' = [ent EXCEPT ![e] = saved]  BY <1>7 DEF saveEntitlement
  <2>6. BalanceNeverNegative'
    <3> HIDE DEF saved
    <3> QED  BY <2>4, <2>5 DEF BalanceInv, BalanceNeverNegative, TypeInv, TypeOK
  <2>7. PICK g : Continue(t, g) /\ g.pc \in {"idle", "bulk", "insertReq", "saveReq", "saveAdj"}
    <3>1. h.pc = task[t].then /\ task[t].then \in {"idle", "insertReq", "saveReq", "saveAdj"}
      BY <1>h DEF Frame
    <3>2. Continue(t, h) \/ Return(t)  BY <1>7 DEF saveEntitlement
    <3> QED  BY <3>1, <3>2, ReturnPc
  <2> QED  BY <2>6, <2>7 DEF BalanceInv, TypeInv, TypeOK, Continue
<1>8. ASSUME loseEntitlement(t)  PROVE BalanceInv'
  BY <1>8, ReturnBalance DEF loseEntitlement, OnlyTask
<1>9. ASSUME NEW r \in Requests, insertRequest(t, r)  PROVE BalanceInv'
  BY <1>9, ReturnBalance DEF insertRequest
<1>10. ASSUME saveRequest(t)  PROVE BalanceInv'
  BY <1>10, ReturnBalance DEF saveRequest
<1>11. ASSUME insertEntitlement(t)  PROVE BalanceInv'
  <2>1. task[t].eid \in Entitlements /\ Valid(task[t].doc)
    BY <1>11, <1>h DEF insertEntitlement, WellFormed, BalanceInv
  <2>2. BalanceNeverNegative'
    BY <1>11, <2>1 DEF insertEntitlement, BalanceInv, BalanceNeverNegative, TypeInv, TypeOK
  <2>3. PICK g : Continue(t, g) /\ g.pc \in {"idle", "bulk"}
    BY <1>11, ReturnPc DEF insertEntitlement
  <2> QED  BY <2>2, <2>3 DEF BalanceInv, TypeInv, TypeOK, Continue
<1>12. ASSUME saveAdjustment(t)  PROVE BalanceInv'
  BY <1>12, ReturnBalance DEF saveAdjustment
<1> QED  BY <1>1, <1>2, <1>3, <1>4, <1>5, <1>6, <1>7, <1>8, <1>9, <1>10, <1>11, <1>12
         DEF Step

\* No field of an entitlement is ever stored negative, whatever calls overlap
\* and wherever the process stops (the checks of the private helpers and the
\* min: 0 validators of the schema).
THEOREM NeverNegative == Spec => []BalanceNeverNegative
<1>1. Init => BalanceInv
  <2> SUFFICES ASSUME Init  PROVE BalanceInv
    OBVIOUS
  <2>1. BalanceNeverNegative  BY GrantedType DEF Init, BalanceNeverNegative
  <2>2. \A t \in Tasks : task[t].pc = "idle"  BY DEF Init, Idle
  <2> QED  BY <2>1, <2>2 DEF BalanceInv
<1>2. TypeInv /\ BalanceInv /\ [Next]_vars => BalanceInv'
  <2> SUFFICES ASSUME TypeInv, BalanceInv, [Next]_vars  PROVE BalanceInv'
    OBVIOUS
  <2>1. CASE UNCHANGED vars
    BY <2>1 DEF vars, BalanceInv, BalanceNeverNegative
  <2>2. CASE restart
    <3>1. \A t \in Tasks : task'[t].pc = "idle"  BY <2>2 DEF restart, Idle
    <3>2. UNCHANGED ent  BY <2>2 DEF restart, OnlyTask
    <3> QED  BY <3>1, <3>2 DEF BalanceInv, BalanceNeverNegative
  <2> QED  BY <2>1, <2>2, CallBalance, StepBalance DEF Next
<1>3. BalanceInv => BalanceNeverNegative  BY DEF BalanceInv
<1> QED  BY <1>1, <1>2, <1>3, InitType, NextType, PTL DEF Spec

-----------------------------------------------------------------------------
(* One entitlement a year.                                                  *)

\* However many calls look for an entitlement before any of them inserts one,
\* and whatever is deleted meanwhile, an employee has one entitlement per leave
\* type and year: the look protects nothing, the index does
\* (leaveEntitlement.create).
THEOREM OneEntitlement == Spec => []OneEntitlementPerYear
<1>1. Init => OneEntitlementPerYear
  <2> SUFFICES ASSUME Init  PROVE OneEntitlementPerYear
    OBVIOUS
  <2>1. Live \subseteq Existing  BY DEF Init, Live
  <2> QED  BY <2>1, RequestsAssumption DEF OneEntitlementPerYear
<1>2. TypeInv /\ OneEntitlementPerYear /\ [Next]_vars => OneEntitlementPerYear'
  <2> SUFFICES ASSUME TypeInv, OneEntitlementPerYear, [Next]_vars
               PROVE  OneEntitlementPerYear'
    OBVIOUS
  <2>s. ASSUME entLife' = entLife  PROVE OneEntitlementPerYear'
    BY <2>s DEF OneEntitlementPerYear, Live
  <2>1. ASSUME NEW t \in Tasks, insertEntitlement(t)  PROVE OneEntitlementPerYear'
    <3> DEFINE e == task[t].eid
    <3>1. CASE entLife' = entLife  BY <3>1, <2>s
    <3>2. CASE /\ \A d \in Live : YearOf[d] # YearOf[e]
               /\ entLife' = [entLife EXCEPT ![e] = "live"]
      <4> HIDE DEF e
      <4>1. Live' \subseteq Live \cup {e}  BY <3>2 DEF Live, TypeInv, TypeOK
      <4> QED  BY <3>2, <4>1 DEF OneEntitlementPerYear
    <3> QED  BY <2>1, <3>1, <3>2 DEF insertEntitlement
  <2>2. ASSUME NEW t \in Tasks, removeEntitlement(t)  PROVE OneEntitlementPerYear'
    <3>1. Live' = {}  BY <2>2 DEF removeEntitlement, Live
    <3> QED  BY <3>1 DEF OneEntitlementPerYear
  <2>3. ASSUME NEW t \in Tasks, Call(t)  PROVE removeEntitlement(t) \/ entLife' = entLife
    BY <2>3 DEF Call, create, update, cancel, managerApprove, managerReject, bulkProcess,
                createEntitlement, updateEntitlement, createAdjustment, approveAdjustment,
                Decide, Handle, OnlyTask
  <2>4. ASSUME NEW t \in Tasks, Step(t)  PROVE insertEntitlement(t) \/ entLife' = entLife
    BY <2>4 DEF Step, bulkItem, hrApprove, hrReject, hrRefuse, findEntitlement, refuseMove,
                saveEntitlement, loseEntitlement, insertRequest, saveRequest, saveAdjustment,
                Decide, Handle, OnlyTask
  <2>5. CASE restart  BY <2>5, <2>s DEF restart, OnlyTask
  <2>6. CASE UNCHANGED vars  BY <2>6, <2>s DEF vars
  <2> QED  BY <2>s, <2>1, <2>2, <2>3, <2>4, <2>5, <2>6 DEF Next
<1> QED  BY <1>1, <1>2, InitType, NextType, PTL DEF Spec

-----------------------------------------------------------------------------
(* The review of requests under every interleaving of calls and any number  *)
(* of restarts: no request is approved without both approvals on record,    *)
(* and days are only charged for one that has the first.                    *)

\* What a call may still write is backed by what is already on record: the
\* approval flow only grows, so what backed the call when it read the request
\* backs it when it saves.
Backed(h) ==
    /\ h.then = "saveReq" =>
         /\ h.upd.status = MANAGER_APPROVED /\ h.seen.status # MANAGER_APPROVED
              => h.entry = "manager approved"
         /\ h.upd.status = APPROVED /\ h.seen.status # APPROVED
              => h.entry = "hr approved" /\ flow[h.rid]["manager approved"] > 0
         /\ h.move = "consume" => flow[h.rid]["manager approved"] > 0
         /\ h.move = "revert" => flow[h.rid]["hr approved"] > 0
    /\ h.then = "saveAdj" => adj[h.aid] # "unborn"
    /\ h.move \in {"consume", "revert"} => h.then = "saveReq"
    /\ h.move = "adjust" => h.then = "saveAdj"
    /\ h.pc \in {"findEnt", "saveEnt"} => h.move # "none"
    /\ h.pc = "saveEnt" /\ h.move \in {"reserve", "release"} => h.doc.taken = h.base.taken

ReviewInv == TwoStageApproval /\ \A t \in Tasks : Backed(task[t])

\* A step that only changes what call t remembers.
LEMMA ReviewFrame ==
    ASSUME TypeInv, ReviewInv, UNCHANGED <<req, flow, adj>>, NEW t \in Tasks, NEW h,
           Continue(t, h), Backed(h)
    PROVE  ReviewInv'
<1>1. \A u \in Tasks : task'[u] = IF u = t THEN h ELSE task[u]
  BY DEF TypeInv, TypeOK, Continue
<1>2. \A u \in Tasks : Backed(task[u])'
  BY <1>1 DEF ReviewInv, Backed
<1>3. TwoStageApproval'  BY DEF ReviewInv, TwoStageApproval
<1> QED  BY <1>2, <1>3 DEF ReviewInv

\* A return forgets what backed the call; a decision on record stays there.
LEMMA ReviewReturn ==
    ASSUME TypeInv, ReviewInv, NEW t \in Tasks, Return(t),
           \A r \in Requests : \A x \in Entries : flow[r][x] > 0 => flow'[r][x] > 0,
           \A a \in Adjustments : adj[a] # "unborn" => adj'[a] # "unborn"
    PROVE  \A u \in Tasks : Backed(task[u])'
<1>1. PICK h : /\ Continue(t, h) /\ h.pc \in {"idle", "bulk"} /\ h.then = "idle"
               /\ h.move = "none"
  BY ReturnPc
<1>2. \A u \in Tasks : task'[u] = IF u = t THEN h ELSE task[u]
  BY <1>1 DEF TypeInv, TypeOK, Continue
<1>3. ASSUME NEW u \in Tasks  PROVE Backed(task[u])'
  <2>1. CASE u = t
    BY <1>1, <1>2, <2>1 DEF Backed
  <2>2. CASE u # t
    <3>1. task'[u] = task[u] /\ Backed(task[u]) /\ task[u] \in Frame /\ WellFormed(task[u])
      BY <1>2, <2>2 DEF ReviewInv, TypeInv, TypeOK
    <3>2. task[u].then = "saveReq" =>
            /\ flow[task[u].rid]["manager approved"] > 0
                 => flow'[task[u].rid]["manager approved"] > 0
            /\ flow[task[u].rid]["hr approved"] > 0
                 => flow'[task[u].rid]["hr approved"] > 0
      <4> SUFFICES ASSUME task[u].then = "saveReq"
                   PROVE  /\ flow[task[u].rid]["manager approved"] > 0
                               => flow'[task[u].rid]["manager approved"] > 0
                          /\ flow[task[u].rid]["hr approved"] > 0
                               => flow'[task[u].rid]["hr approved"] > 0
        OBVIOUS
      <4>1. task[u].rid \in Requests  BY <3>1 DEF WellFormed
      <4>2. "manager approved" \in Entries /\ "hr approved" \in Entries  BY DEF Entries
      <4> QED  BY <4>1, <4>2
    <3>3. task[u].then = "saveAdj" => adj'[task[u].aid] # "unborn"
      BY <3>1 DEF WellFormed, Backed
    <3> QED  BY <3>1, <3>2, <3>3 DEF Backed
  <2> QED  BY <2>1, <2>2
<1> QED  BY <1>3

LEMMA ReturnReview ==
    ASSUME TypeInv, ReviewInv, UNCHANGED <<req, flow, adj>>, NEW t \in Tasks, Return(t)
    PROVE  ReviewInv'
<1>1. \A u \in Tasks : Backed(task[u])'  BY ReviewReturn
<1>2. TwoStageApproval'  BY DEF ReviewInv, TwoStageApproval
<1> QED  BY <1>1, <1>2 DEF ReviewInv

\* What Handle leaves in the call's memory, for the handlers below.
LEMMA HandleReview ==
    ASSUME TypeInv, ReviewInv, UNCHANGED <<req, flow, adj>>, NEW t \in Tasks,
           NEW r \in Requests, NEW move \in {"none", "reserve", "release", "consume", "revert"},
           NEW days, NEW upd, NEW entry, NEW id, Handle(t, r, move, days, upd, entry, id),
           upd.status = MANAGER_APPROVED /\ req[r].status # MANAGER_APPROVED
             => entry = "manager approved",
           upd.status = APPROVED /\ req[r].status # APPROVED
             => entry = "hr approved" /\ flow[r]["manager approved"] > 0,
           move = "consume" => flow[r]["manager approved"] > 0,
           move = "revert" => flow[r]["hr approved"] > 0
    PROVE  ReviewInv'
<1> DEFINE pc == IF move = "none" THEN "saveReq" ELSE "findEnt"
           h == [task[t] EXCEPT
        !.pc = pc, !.then = "saveReq", !.move = move, !.days = days, !.rid = r,
        !.seen = req[r], !.upd = upd, !.entry = entry, !.id = id]
<1>1. Continue(t, h)  BY DEF Handle
<1>0. task[t] \in Frame  BY DEF TypeInv, TypeOK
<1> HIDE DEF pc
<1>2a. h.pc = pc  BY <1>0 DEF Frame
<1>2. /\ h.pc = IF move = "none" THEN "saveReq" ELSE "findEnt"
      /\ h.then = "saveReq" /\ h.move = move /\ h.rid = r /\ h.seen = req[r]
      /\ h.upd = upd /\ h.entry = entry
  BY <1>0, <1>2a DEF Frame, pc
<1> HIDE DEF h
<1>3. Backed(h)  BY <1>2 DEF Backed
<1> QED  BY <1>1, <1>3, ReviewFrame

LEMMA CallReview ==
    ASSUME TypeInv, ReviewInv, NEW t \in Tasks, Call(t)
    PROVE  ReviewInv'
<1>s. \A r \in Requests, s \in LeaveStatus : [req[r] EXCEPT !.status = s].status = s
  BY DEF TypeInv, TypeOK, RequestDoc
<1>1. ASSUME NEW n \in Days, NEW id \in Ids("create"), create(t, n, id)  PROVE ReviewInv'
  <2> DEFINE h == [Idle EXCEPT !.pc = "findEnt", !.then = "insertReq",
                               !.move = "reserve", !.days = n, !.id = id]
  <2>1. Continue(t, h) /\ UNCHANGED <<req, flow, adj>>  BY <1>1 DEF create, OnlyTask
  <2>2. Backed(h)  BY DEF Idle, Backed
  <2> QED  BY <2>1, <2>2, ReviewFrame
<1>2. ASSUME NEW r \in Requests, NEW n \in Days, NEW id \in Ids("update"),
             update(t, r, n, id)
      PROVE  ReviewInv'
  <2> DEFINE delta == n - req[r].days
             move == CASE delta > 0 -> "reserve" [] delta < 0 -> "release"
                       [] OTHER -> "none"
             size == IF delta < 0 THEN -delta ELSE delta
             upd == [req[r] EXCEPT !.days = n]
  <2>1. Handle(t, r, move, size, upd, "none", id) /\ UNCHANGED <<req, flow, adj>>
    BY <1>2 DEF update, OnlyTask
  <2>2. move \in {"none", "reserve", "release"}  OBVIOUS
  <2>3. upd.status = req[r].status  BY DEF TypeInv, TypeOK, RequestDoc
  <2> HIDE DEF move, size, upd
  <2> QED  BY <2>1, <2>2, <2>3, HandleReview
<1>3. ASSUME NEW r \in Requests, NEW id \in Ids("cancel"), cancel(t, r, id)  PROVE ReviewInv'
  <2> DEFINE move == CASE req[r].status = PENDING -> "release"
                       [] req[r].status = APPROVED -> "revert" [] OTHER -> "none"
             upd == [req[r] EXCEPT !.status = CANCELLED]
  <2>1. Handle(t, r, move, req[r].days, upd, "cancelled", id) /\ UNCHANGED <<req, flow, adj>>
    BY <1>3 DEF cancel, Decide, OnlyTask
  <2>2. move \in {"none", "release", "revert"}  OBVIOUS
  <2>3. move = "revert" => flow[r]["hr approved"] > 0
    BY DEF ReviewInv, TwoStageApproval, PENDING, APPROVED
  <2>4. upd.status = CANCELLED  BY <1>s DEF LeaveStatus
  <2> HIDE DEF move, upd
  <2> QED  BY <2>1, <2>2, <2>3, <2>4, HandleReview
           DEF CANCELLED, MANAGER_APPROVED, APPROVED
<1>4. ASSUME NEW r \in Requests, managerApprove(t, r)  PROVE ReviewInv'
  <2> DEFINE upd == [req[r] EXCEPT !.status = MANAGER_APPROVED]
  <2>1. /\ Handle(t, r, "none", req[r].days, upd, "manager approved", "valid")
        /\ UNCHANGED <<req, flow, adj>>
    BY <1>4 DEF managerApprove, Decide, OnlyTask
  <2>2. upd.status = MANAGER_APPROVED  BY <1>s DEF LeaveStatus
  <2> HIDE DEF upd
  <2> QED  BY <2>1, <2>2, HandleReview DEF MANAGER_APPROVED, APPROVED
<1>5. ASSUME NEW r \in Requests, NEW id \in Ids("managerReject"),
             managerReject(t, r, id)
      PROVE  ReviewInv'
  <2> DEFINE move == IF req[r].status = PENDING THEN "release" ELSE "none"
             upd == [req[r] EXCEPT !.status = REJECTED]
  <2>1. /\ Handle(t, r, move, req[r].days, upd, "manager rejected", id)
        /\ UNCHANGED <<req, flow, adj>>
    BY <1>5 DEF managerReject, Decide, OnlyTask
  <2>2. move \in {"none", "release"}  OBVIOUS
  <2>3. upd.status = REJECTED  BY <1>s DEF LeaveStatus
  <2> HIDE DEF move, upd
  <2> QED  BY <2>1, <2>2, <2>3, HandleReview DEF REJECTED, MANAGER_APPROVED, APPROVED
<1>6. ASSUME NEW batch \in Batches, NEW id \in Ids("bulkProcess"),
             bulkProcess(t, batch, id)
      PROVE  ReviewInv'
  <2> DEFINE h == [Idle EXCEPT !.pc = "bulk", !.items = batch, !.id = id]
  <2>1. Continue(t, h) /\ UNCHANGED <<req, flow, adj>>  BY <1>6 DEF bulkProcess, OnlyTask
  <2>2. Backed(h)  BY DEF Idle, Backed
  <2> QED  BY <2>1, <2>2, ReviewFrame
<1>7. ASSUME NEW e \in Entitlements, NEW g \in Grants, createEntitlement(t, e, g)
      PROVE ReviewInv'
  <2> DEFINE h == [Idle EXCEPT !.pc = "insertEnt", !.eid = e,
                               !.doc = Granted(g[1], g[2])]
  <2>1. Continue(t, h) /\ UNCHANGED <<req, flow, adj>>
    BY <1>7 DEF createEntitlement, OnlyTask
  <2>2. Backed(h)  BY DEF Idle, Backed
  <2> QED  BY <2>1, <2>2, ReviewFrame
<1>8. ASSUME NEW e \in Entitlements, NEW dto \in Settings, updateEntitlement(t, e, dto)
      PROVE ReviewInv'
  <2> DEFINE h == [Idle EXCEPT !.pc = "saveEnt", !.move = "set", !.eid = e,
                               !.base = ent[e], !.doc = updated(ent[e], dto)]
  <2>1. Continue(t, h) /\ UNCHANGED <<req, flow, adj>>
    BY <1>8 DEF updateEntitlement, OnlyTask
  <2>2. Backed(h)  BY DEF Idle, Backed
  <2> QED  BY <2>1, <2>2, ReviewFrame
<1>9. ASSUME removeEntitlement(t)  PROVE ReviewInv'
  BY <1>9 DEF removeEntitlement, ReviewInv, TwoStageApproval, Backed
<1>10. ASSUME NEW a \in Adjustments, createAdjustment(t, a)  PROVE ReviewInv'
  <2>1. UNCHANGED <<req, flow, task>> /\ \A b \in Adjustments : adj[b] # "unborn" => adj'[b] # "unborn"
    BY <1>10 DEF createAdjustment, TypeInv, TypeOK
  <2>2. TwoStageApproval'  BY <2>1 DEF ReviewInv, TwoStageApproval
  <2>3. \A u \in Tasks : Backed(task[u])'
    BY <2>1 DEF ReviewInv, Backed, TypeInv, WellFormed
  <2> QED  BY <2>2, <2>3 DEF ReviewInv
<1>11. ASSUME NEW a \in Adjustments, NEW id \in Ids("approveAdjustment"),
              approveAdjustment(t, a, id)
       PROVE  ReviewInv'
  <2> DEFINE n == IF a.type = "add" THEN a.amount ELSE -a.amount
             h == [Idle EXCEPT !.pc = "findEnt", !.then = "saveAdj", !.move = "adjust",
                               !.days = n, !.aid = a, !.id = id]
  <2>1. Continue(t, h) /\ UNCHANGED <<req, flow, adj>> /\ adj[a] # "unborn"
    BY <1>11 DEF approveAdjustment, OnlyTask
  <2>2. Backed(h)  BY <2>1 DEF Idle, Backed
  <2> QED  BY <2>1, <2>2, ReviewFrame
<1> QED  BY <1>1, <1>2, <1>3, <1>4, <1>5, <1>6, <1>7, <1>8, <1>9, <1>10, <1>11 DEF Call

LEMMA MovedTaken ==
    ASSUME NEW b \in Balance, NEW n \in Int, NEW move \in {"reserve", "release"}
    PROVE  Moved(b, move, n).taken = b.taken
<1>1. CASE move = "reserve"
  BY <1>1 DEF Moved, reservePending, recomputeRemaining, RemainingOf, Balance, Fields
<1>2. CASE move = "release"
  BY <1>2 DEF Moved, releasePending, recomputeRemaining, RemainingOf, Balance, Fields
<1> QED  BY <1>1, <1>2

LEMMA StepReview ==
    ASSUME TypeInv, ReviewInv, NEW t \in Tasks, Step(t)
    PROVE  ReviewInv'
<1>h. task[t] \in Frame /\ WellFormed(task[t]) /\ Backed(task[t])
  BY DEF TypeInv, TypeOK, ReviewInv
<1>i. ASSUME task[t].pc \in {"bulk", "hr"}  PROVE Head(task[t].items).id \in Requests
  <2>1. task[t].items \in Seq(Item) /\ task[t].items # <<>>
    BY <1>h, <1>i DEF Frame, WellFormed
  <2>2. Head(task[t].items) \in Item  BY <2>1, HeadTailProperties
  <2> QED  BY <2>2 DEF Item
<1>s. \A r \in Requests, s \in LeaveStatus : [req[r] EXCEPT !.status = s].status = s
  BY DEF TypeInv, TypeOK, RequestDoc
<1>1. ASSUME bulkItem(t)  PROVE ReviewInv'
  <2> DEFINE h == [task[t] EXCEPT !.pc = "hr"]
  <2>1. (Continue(t, h) \/ Return(t)) /\ UNCHANGED <<req, flow, adj>>
    BY <1>1 DEF bulkItem, OnlyTask
  <2>2. Backed(h)
    <3>1. /\ h.pc = "hr" /\ h.then = task[t].then /\ h.move = task[t].move
          /\ h.upd = task[t].upd /\ h.seen = task[t].seen /\ h.entry = task[t].entry
          /\ h.rid = task[t].rid /\ h.aid = task[t].aid
      BY <1>h DEF Frame
    <3> HIDE DEF h
    <3> QED  BY <3>1, <1>h DEF Backed
  <2> QED  BY <2>1, <2>2, ReviewFrame, ReturnReview
<1>2. ASSUME hrApprove(t)  PROVE ReviewInv'
  <2> DEFINE r == Head(task[t].items).id
             upd == [req[r] EXCEPT !.status = APPROVED]
  <2>1. r \in Requests  BY <1>2, <1>i DEF hrApprove
  <2>2. /\ Handle(t, r, "consume", req[r].days, upd, "hr approved", task[t].id)
        /\ UNCHANGED <<req, flow, adj>> /\ req[r].status = MANAGER_APPROVED
    BY <1>2 DEF hrApprove, Decide, OnlyTask
  <2>3. upd.status = APPROVED  BY <2>1, <1>s DEF LeaveStatus
  <2>4. flow[r]["manager approved"] > 0  BY <2>1, <2>2 DEF ReviewInv, TwoStageApproval
  <2> HIDE DEF r, upd
  <2> QED  BY <2>1, <2>2, <2>3, <2>4, HandleReview DEF MANAGER_APPROVED, APPROVED
<1>3. ASSUME hrReject(t)  PROVE ReviewInv'
  <2> DEFINE r == Head(task[t].items).id
             upd == [req[r] EXCEPT !.status = REJECTED]
  <2>1. r \in Requests  BY <1>3, <1>i DEF hrReject
  <2>2. /\ Handle(t, r, "release", req[r].days, upd, "hr rejected", task[t].id)
        /\ UNCHANGED <<req, flow, adj>>
    BY <1>3 DEF hrReject, Decide, OnlyTask
  <2>3. upd.status = REJECTED  BY <2>1, <1>s DEF LeaveStatus
  <2> HIDE DEF r, upd
  <2> QED  BY <2>1, <2>2, <2>3, HandleReview DEF MANAGER_APPROVED, APPROVED, REJECTED
<1>4. ASSUME hrRefuse(t)  PROVE ReviewInv'
  BY <1>4, ReturnReview DEF hrRefuse, OnlyTask
<1>5. ASSUME findEntitlement(t)  PROVE ReviewInv'
  <2> DEFINE doc(e) == Moved(ent[e], task[t].move, task[t].days)
             h(e) == [task[t] EXCEPT !.pc = "saveEnt", !.eid = e, !.base = ent[e],
                                     !.doc = doc(e)]
  <2>1. PICK e \in Live : Continue(t, h(e))  BY <1>5 DEF findEntitlement
  <2>2. ent[e] \in Balance /\ task[t].days \in Int
    BY <1>h DEF Live, TypeInv, TypeOK, Frame
  <2>3. task[t].move \in {"reserve", "release"} => doc(e).taken = ent[e].taken
    BY <2>2, MovedTaken
  <2> HIDE DEF doc
  <2>4. /\ h(e).pc = "saveEnt" /\ h(e).then = task[t].then /\ h(e).move = task[t].move
        /\ h(e).upd = task[t].upd /\ h(e).seen = task[t].seen
        /\ h(e).entry = task[t].entry /\ h(e).rid = task[t].rid
        /\ h(e).aid = task[t].aid /\ h(e).base = ent[e] /\ h(e).doc = doc(e)
    BY <1>h DEF Frame
  <2>5. task[t].pc = "findEnt" /\ UNCHANGED <<req, flow, adj>>
    BY <1>5 DEF findEntitlement, OnlyTask
  <2>6. Backed(h(e))
    <3> HIDE DEF h
    <3> QED  BY <1>h, <2>3, <2>4, <2>5 DEF Backed
  <2> QED  BY <2>1, <2>5, <2>6, ReviewFrame
<1>6. ASSUME refuseMove(t)  PROVE ReviewInv'
  BY <1>6, ReturnReview DEF refuseMove, OnlyTask
<1>7. ASSUME saveEntitlement(t)  PROVE ReviewInv'
  <2> DEFINE h == [task[t] EXCEPT !.pc = task[t].then]
  <2>1. (Continue(t, h) \/ Return(t)) /\ UNCHANGED <<req, flow, adj>>
    BY <1>7 DEF saveEntitlement
  <2>2. Backed(h)
    <3>1. /\ h.pc = task[t].then /\ h.then = task[t].then /\ h.move = task[t].move
          /\ h.upd = task[t].upd /\ h.seen = task[t].seen /\ h.entry = task[t].entry
          /\ h.rid = task[t].rid /\ h.aid = task[t].aid
          /\ task[t].then \in {"idle", "insertReq", "saveReq", "saveAdj"}
      BY <1>h DEF Frame
    <3> HIDE DEF h
    <3> QED  BY <3>1, <1>h DEF Backed
  <2> QED  BY <2>1, <2>2, ReviewFrame, ReturnReview
<1>8. ASSUME loseEntitlement(t)  PROVE ReviewInv'
  BY <1>8, ReturnReview DEF loseEntitlement, OnlyTask
<1>9. ASSUME NEW r \in Requests, insertRequest(t, r)  PROVE ReviewInv'
  <2>1. \A u \in Tasks : Backed(task[u])'
    BY <1>9, ReviewReturn DEF insertRequest
  <2>2. TwoStageApproval'
    BY <1>9 DEF insertRequest, ReviewInv, TwoStageApproval, TypeInv, TypeOK, PENDING,
                MANAGER_APPROVED, APPROVED
  <2> QED  BY <2>1, <2>2 DEF ReviewInv
<1>10. ASSUME saveRequest(t)  PROVE ReviewInv'
  <2> DEFINE r == task[t].rid
             x == task[t].entry
             saved == Saved(req[r], task[t].seen, task[t].upd)
  <2>1. r \in Requests /\ req[r] \in RequestDoc /\ task[t].then = "saveReq"
    BY <1>10, <1>h DEF saveRequest, WellFormed, TypeInv, TypeOK
  <2>2. /\ task[t].seen \in RequestDoc /\ task[t].upd \in RequestDoc
        /\ x \in Entries \cup {"none"}
    BY <1>h DEF Frame
  <2>3. saved.status = IF task[t].upd.status # task[t].seen.status
                       THEN task[t].upd.status ELSE req[r].status
    BY <2>1, <2>2, SavedRequestType
  <2>4. /\ req' = [req EXCEPT ![r] = saved]
        /\ flow' = IF x = "none" THEN flow ELSE [flow EXCEPT ![r][x] = @ + 1]
        /\ UNCHANGED adj /\ Return(t)
    BY <1>10 DEF saveRequest
  <2> HIDE DEF saved, r, x
  <2>5. \A s \in Requests : \A y \in Entries : flow[s][y] > 0 => flow'[s][y] > 0
    BY <2>1, <2>2, <2>4 DEF TypeInv, TypeOK
  <2>6. x # "none" => flow'[r][x] > 0
    BY <2>1, <2>2, <2>4 DEF TypeInv, TypeOK
  <2>7. \A u \in Tasks : Backed(task[u])'  BY <2>4, <2>5, ReviewReturn
  <2>8. ASSUME NEW s \in Requests
        PROVE  /\ req'[s].status \in {MANAGER_APPROVED, APPROVED}
                     => flow'[s]["manager approved"] > 0
               /\ req'[s].status = APPROVED => flow'[s]["hr approved"] > 0
    <3>e. "manager approved" \in Entries /\ "hr approved" \in Entries  BY DEF Entries
    <3>1. CASE s # r \/ task[t].upd.status = task[t].seen.status
      <4>1. req'[s].status = req[s].status  BY <3>1, <2>1, <2>3, <2>4 DEF TypeInv, TypeOK
      <4> QED  BY <4>1, <2>5, <3>e DEF ReviewInv, TwoStageApproval
    <3>2. CASE s = r /\ task[t].upd.status # task[t].seen.status
      <4>1. req'[s].status = task[t].upd.status
        BY <3>2, <2>1, <2>3, <2>4 DEF TypeInv, TypeOK
      <4>2. task[t].upd.status = MANAGER_APPROVED => x = "manager approved"
        BY <3>2, <2>1, <1>h DEF Backed, x
      <4>3. task[t].upd.status = APPROVED
              => x = "hr approved" /\ flow[r]["manager approved"] > 0
        BY <3>2, <2>1, <1>h DEF Backed, x, r
      <4> QED  BY <3>2, <4>1, <4>2, <4>3, <2>1, <2>5, <2>6, <3>e
               DEF MANAGER_APPROVED, APPROVED
    <3> QED  BY <3>1, <3>2
  <2> QED  BY <2>7, <2>8 DEF ReviewInv, TwoStageApproval
<1>11. ASSUME insertEntitlement(t)  PROVE ReviewInv'
  BY <1>11, ReturnReview DEF insertEntitlement
<1>12. ASSUME saveAdjustment(t)  PROVE ReviewInv'
  <2>1. \A a \in Adjustments : adj[a] # "unborn" => adj'[a] # "unborn"
    BY <1>12 DEF saveAdjustment, TypeInv, TypeOK
  <2>2. \A u \in Tasks : Backed(task[u])'
    BY <1>12, <2>1, ReviewReturn DEF saveAdjustment
  <2>3. TwoStageApproval'  BY <1>12 DEF saveAdjustment, ReviewInv, TwoStageApproval
  <2> QED  BY <2>2, <2>3 DEF ReviewInv
<1> QED  BY <1>1, <1>2, <1>3, <1>4, <1>5, <1>6, <1>7, <1>8, <1>9, <1>10, <1>11, <1>12
         DEF Step

LEMMA InitReview == Init => ReviewInv
<1> SUFFICES ASSUME Init  PROVE ReviewInv
  OBVIOUS
<1>1. TwoStageApproval
  BY DEF Init, TwoStageApproval, Absent, MANAGER_APPROVED, APPROVED
<1>2. \A t \in Tasks : Backed(task[t])  BY DEF Init, Idle, Backed
<1> QED  BY <1>1, <1>2 DEF ReviewInv

LEMMA NextReview == TypeInv /\ ReviewInv /\ [Next]_vars => ReviewInv'
<1> SUFFICES ASSUME TypeInv, ReviewInv, [Next]_vars  PROVE ReviewInv'
  OBVIOUS
<1>1. CASE UNCHANGED vars
  BY <1>1 DEF vars, ReviewInv, TwoStageApproval, Backed
<1>2. CASE restart
  <2>1. UNCHANGED <<req, flow, adj>> /\ \A t \in Tasks : task'[t] = Idle
    BY <1>2 DEF restart, OnlyTask
  <2>2. TwoStageApproval'  BY <2>1 DEF ReviewInv, TwoStageApproval
  <2>3. Idle.pc = "idle" /\ Idle.then = "idle" /\ Idle.move = "none"  BY DEF Idle
  <2>4. \A t \in Tasks : Backed(task[t])'  BY <2>1, <2>3 DEF Backed
  <2> QED  BY <2>2, <2>4 DEF ReviewInv
<1> QED  BY <1>1, <1>2, CallReview, StepReview DEF Next

\* A request awaiting HR has a manager's approval on record and an approved
\* one HR's as well, under every interleaving and any number of restarts
\* (managerApprove, hrApprove, bulkProcess and every stale save).
THEOREM TwoStages == Spec => []TwoStageApproval
<1>1. ReviewInv => TwoStageApproval  BY DEF ReviewInv
<1> QED  BY InitType, NextType, InitReview, NextReview, <1>1, PTL DEF Spec

\* The days taken of an entitlement in force only change in the save of an
\* authorised handler (saveEntitlement on behalf of hrApprove, cancel, an
\* adjustment or leaveEntitlement.update).
THEOREM TakenAuthorised == Spec => TakenMovesAuthorised
<1> DEFINE A == \A e \in Live : ent'[e].taken # ent[e].taken => TakenMoveAuthorised(e)
<1>1. TypeInv /\ ReviewInv /\ [Next]_vars => [A]_vars
  <2> SUFFICES ASSUME TypeInv, ReviewInv, Next, NEW e \in Live,
                      ent'[e].taken # ent[e].taken
               PROVE  TakenMoveAuthorised(e)
    BY DEF vars, Live
  <2>1. e \in Entitlements  BY DEF Live
  <2>2. ent'[e] # ent[e]  OBVIOUS
  <2>3. PICK t \in Tasks : saveEntitlement(t) \/ insertEntitlement(t)
    BY <2>2 DEF Next, Call, Step, OnlyTask, create, update, cancel, managerApprove,
                managerReject, bulkProcess, createEntitlement, updateEntitlement,
                removeEntitlement, createAdjustment, approveAdjustment, bulkItem,
                hrApprove, hrReject, hrRefuse, findEntitlement, refuseMove,
                loseEntitlement, insertRequest, saveRequest, saveAdjustment, restart
  <2>h. task[t] \in Frame /\ WellFormed(task[t]) /\ Backed(task[t])
    BY DEF TypeInv, TypeOK, ReviewInv
  <2>4. CASE insertEntitlement(t)
    <3>1. task[t].eid # e
      <4> SUFFICES ASSUME task[t].eid = e  PROVE FALSE
        OBVIOUS
      <4>1. ~(\A d \in Live : YearOf[d] # YearOf[task[t].eid])  OBVIOUS
      <4>2. UNCHANGED ent  BY <2>4, <4>1 DEF insertEntitlement
      <4> QED  BY <2>2, <4>2
    <3>2. ent'[e] = ent[e]
      BY <3>1, <2>1, <2>4 DEF insertEntitlement, TypeInv, TypeOK
    <3> QED  BY <3>2, <2>2
  <2>5. CASE saveEntitlement(t)
    <3> DEFINE saved == Saved(ent[task[t].eid], task[t].base, task[t].doc)
    <3>1. ent' = [ent EXCEPT ![task[t].eid] = saved] /\ task[t].pc = "saveEnt"
      BY <2>5 DEF saveEntitlement
    <3>2. task[t].eid = e
      <4> HIDE DEF saved
      <4> QED  BY <3>1, <2>1, <2>2 DEF TypeInv, TypeOK
    <3>3. ent'[e] = saved  BY <3>1, <3>2, <2>1 DEF TypeInv, TypeOK
    <3>4. ent[e] \in Balance /\ task[t].base \in Balance /\ task[t].doc \in Balance
      BY <2>1, <2>h DEF TypeInv, TypeOK, Frame
    <3>5. task[t].doc.taken # task[t].base.taken
      BY <3>2, <3>3, <3>4 DEF Saved, Balance, Fields
    <3>6. task[t].move \in {"consume", "revert", "adjust", "set"}
      BY <3>1, <3>5, <2>h DEF Backed, Frame
    <3>7. task[t].move = "consume" => flow[task[t].rid]["manager approved"] > 0
      BY <2>h DEF Backed
    <3>8. task[t].move = "revert" => flow[task[t].rid]["hr approved"] > 0
      BY <2>h DEF Backed
    <3>9. task[t].move = "adjust" => adj[task[t].aid] # "unborn"
      BY <2>h DEF Backed
    <3> QED  BY <3>1, <3>2, <3>6, <3>7, <3>8, <3>9 DEF TakenMoveAuthorised
  <2> QED  BY <2>3, <2>4, <2>5
<1> QED  BY InitType, NextType, InitReview, NextReview, <1>1, PTL
         DEF Spec, TakenMovesAuthorised
=============================================================================
