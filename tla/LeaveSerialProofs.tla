-------------------------- MODULE LeaveSerialProofs --------------------------
(***************************************************************************)
(* What holds of LeaveRequests as long as calls do not overlap: the set of *)
(* calls in progress has one element.  The process may still restart in    *)
(* the middle of a call, except in the last part, on the accounts of       *)
(* LeaveAccounting.                                                        *)
(***************************************************************************)
EXTENDS LeaveRequestsProofs, LeaveAccounting, SumProofs

\* What the only call in progress read is what the database still holds, and
\* what it is about to save is consistent.
Current(h) ==
    /\ h.pc \in {"saveEnt", "insertEnt"} => h.doc.remaining = RemainingOf(h.doc)
    /\ h.pc = "saveEnt" /\ entLife[h.eid] = "live" => h.base = ent[h.eid]
    /\ h.then = "saveReq" =>
         /\ h.seen = req[h.rid] /\ h.seen.status # "absent"
         /\ h.upd.days # h.seen.days => h.seen.status = PENDING
         /\ Rank(h.seen.status) <= Rank(h.upd.status)

SerialInv == RemainingIdentity /\ \A t \in Tasks : Current(task[t])

LEMMA RankValues ==
    /\ Rank(PENDING) = 0 /\ Rank(MANAGER_APPROVED) = 1 /\ Rank(APPROVED) = 2
    /\ Rank(REJECTED) = 3 /\ Rank(CANCELLED) = 3
  BY DEF Rank, PENDING, MANAGER_APPROVED, APPROVED, REJECTED, CANCELLED

LEMMA RankType == \A s : Rank(s) \in 0 .. 3
  BY DEF Rank

LEMMA RecomputeIdentity ==
    ASSUME NEW b \in Balance
    PROVE  recomputeRemaining(b).remaining = RemainingOf(recomputeRemaining(b))
  BY DEF recomputeRemaining, RemainingOf, Balance, Fields

LEMMA MovedIdentity ==
    ASSUME NEW b \in Balance, NEW n \in Int, NEW move
    PROVE  Moved(b, move, n).remaining = RemainingOf(Moved(b, move, n))
<1>1. reservePending(b, n).remaining = RemainingOf(reservePending(b, n))
  <2>1. [b EXCEPT !.pending = @ + n] \in Balance  BY DEF Balance, Fields
  <2> QED  BY <2>1, RecomputeIdentity DEF reservePending
<1>2. releasePending(b, n).remaining = RemainingOf(releasePending(b, n))
  <2>1. [b EXCEPT !.pending = @ - n] \in Balance  BY DEF Balance, Fields
  <2> QED  BY <2>1, RecomputeIdentity DEF releasePending
<1>3. consumePendingToTaken(b, n).remaining = RemainingOf(consumePendingToTaken(b, n))
  <2>0. b.pending - n \in Int /\ b.taken + n \in Int  BY DEF Balance, Fields
  <2>1. [b EXCEPT !.pending = @ - n, !.taken = @ + n] \in Balance
    BY <2>0, Zenon DEF Balance
  <2> QED  BY <2>1, RecomputeIdentity DEF consumePendingToTaken
<1>4. revertTaken(b, n).remaining = RemainingOf(revertTaken(b, n))
  <2>1. [b EXCEPT !.taken = @ - n] \in Balance  BY DEF Balance, Fields
  <2> QED  BY <2>1, RecomputeIdentity DEF revertTaken
<1>5. adjustBalance(b, n).remaining = RemainingOf(adjustBalance(b, n))
  <2>1. [b EXCEPT !.taken = @ + n] \in Balance  BY DEF Balance, Fields
  <2> QED  BY <2>1, RecomputeIdentity DEF adjustBalance
<1> QED  BY <1>1, <1>2, <1>3, <1>4, <1>5 DEF Moved

LEMMA UpdatedIdentity ==
    ASSUME NEW b \in Balance, NEW dto \in Settings
    PROVE  updated(b, dto).remaining = RemainingOf(updated(b, dto))
<1>1. [f \in Fields |-> IF f \in DOMAIN dto THEN dto[f] ELSE b[f]] \in Balance
  BY RequestsAssumption DEF Balance
<1> QED  BY <1>1, RecomputeIdentity DEF updated

\* Nothing was written between the read and the save, so the save writes the
\* whole document as it was computed.
LEMMA SavedCurrent ==
    ASSUME NEW b \in Balance, NEW doc \in Balance
    PROVE  Saved(b, b, doc) = doc
  BY DEF Saved, Balance

\* A step that only changes what the call remembers.
LEMMA SerialFrame ==
    ASSUME TypeInv, SerialInv, OnlyTask, NEW t \in Tasks, Tasks = {t}, NEW h,
           Continue(t, h), Current(h)
    PROVE  SerialInv'
<1>1. task'[t] = h  BY DEF TypeInv, TypeOK, Continue
<1>2. Current(task[t])'  BY <1>1 DEF Current, OnlyTask
<1>3. RemainingIdentity'  BY DEF OnlyTask, SerialInv, RemainingIdentity, Live
<1> QED  BY <1>2, <1>3 DEF SerialInv

LEMMA SerialReturn ==
    ASSUME TypeInv, NEW t \in Tasks, Tasks = {t}, Return(t), RemainingIdentity'
    PROVE  SerialInv'
<1>1. PICK h : Continue(t, h) /\ h.pc \in {"idle", "bulk"} /\ h.then = "idle"
  BY ReturnPc
<1>2. task'[t] = h  BY <1>1 DEF TypeInv, TypeOK, Continue
<1>3. Current(task[t])'  BY <1>1, <1>2 DEF Current
<1> QED  BY <1>3 DEF SerialInv

LEMMA SerialHandle ==
    ASSUME TypeInv, SerialInv, OnlyTask, NEW t \in Tasks, Tasks = {t},
           NEW r \in Requests, NEW move, NEW days, NEW upd, NEW entry, NEW id,
           Handle(t, r, move, days, upd, entry, id), req[r].status # "absent",
           upd.days # req[r].days => req[r].status = PENDING,
           Rank(req[r].status) <= Rank(upd.status)
    PROVE  SerialInv'
<1> DEFINE pc == IF move = "none" THEN "saveReq" ELSE "findEnt"
           h == [task[t] EXCEPT
        !.pc = pc, !.then = "saveReq", !.move = move, !.days = days, !.rid = r,
        !.seen = req[r], !.upd = upd, !.entry = entry, !.id = id]
<1>1. Continue(t, h)  BY DEF Handle
<1>2. task[t] \in Frame  BY DEF TypeInv, TypeOK
<1> HIDE DEF pc
<1>3. h.pc = pc /\ h.rid = r /\ h.seen = req[r] /\ h.upd = upd  BY <1>2 DEF Frame
<1>4. h.pc \notin {"saveEnt", "insertEnt"}  BY <1>3 DEF pc
<1> HIDE DEF h
<1>5. Current(h)  BY <1>3, <1>4 DEF Current
<1> QED  BY <1>1, <1>5, SerialFrame

LEMMA SerialCall ==
    ASSUME TypeInv, SerialInv, NEW t \in Tasks, Tasks = {t}, Call(t)
    PROVE  SerialInv'
<1>r. \A r \in Requests : req[r] \in RequestDoc  BY DEF TypeInv, TypeOK
<1>s. ASSUME NEW r \in Requests, NEW s \in LeaveStatus
      PROVE  [req[r] EXCEPT !.status = s].status = s
               /\ [req[r] EXCEPT !.status = s].days = req[r].days
  BY <1>r DEF RequestDoc
<1>1. ASSUME NEW n \in Days, NEW id \in Ids("create"), create(t, n, id)  PROVE SerialInv'
  <2> DEFINE h == [Idle EXCEPT !.pc = "findEnt", !.then = "insertReq",
                               !.move = "reserve", !.days = n, !.id = id]
  <2>1. Continue(t, h) /\ OnlyTask  BY <1>1 DEF create
  <2>2. Current(h)  BY DEF Idle, Current
  <2> QED  BY <2>1, <2>2, SerialFrame
<1>2. ASSUME NEW r \in Requests, NEW n \in Days, NEW id \in Ids("update"),
             update(t, r, n, id)
      PROVE  SerialInv'
  <2> DEFINE delta == n - req[r].days
             move == CASE delta > 0 -> "reserve" [] delta < 0 -> "release"
                       [] OTHER -> "none"
             size == IF delta < 0 THEN -delta ELSE delta
             upd == [req[r] EXCEPT !.days = n]
  <2>1. Handle(t, r, move, size, upd, "none", id) /\ OnlyTask /\ req[r].status = PENDING
    BY <1>2 DEF update
  <2>2. upd.status = req[r].status  BY <1>r DEF RequestDoc
  <2>3. Rank(req[r].status) <= Rank(upd.status)  BY <2>2, RankType
  <2> HIDE DEF move, size, upd
  <2> QED  BY <2>1, <2>3, SerialHandle DEF PENDING
<1>3. ASSUME NEW r \in Requests, NEW id \in Ids("cancel"), cancel(t, r, id)  PROVE SerialInv'
  <2> DEFINE move == CASE req[r].status = PENDING -> "release"
                       [] req[r].status = APPROVED -> "revert" [] OTHER -> "none"
             upd == [req[r] EXCEPT !.status = CANCELLED]
  <2>1. Handle(t, r, move, req[r].days, upd, "cancelled", id) /\ OnlyTask
          /\ req[r].status # "absent"
    BY <1>3 DEF cancel, Decide, Born
  <2>2. upd.status = CANCELLED /\ upd.days = req[r].days  BY <1>s DEF LeaveStatus
  <2>3. Rank(upd.status) = 3
    BY <2>2, RankValues
  <2>4. Rank(req[r].status) <= Rank(upd.status)  BY <2>3, RankType
  <2> HIDE DEF move, upd
  <2> QED  BY <2>1, <2>2, <2>4, SerialHandle
<1>4. ASSUME NEW r \in Requests, managerApprove(t, r)  PROVE SerialInv'
  <2> DEFINE upd == [req[r] EXCEPT !.status = MANAGER_APPROVED]
  <2>1. /\ Handle(t, r, "none", req[r].days, upd, "manager approved", "valid")
        /\ OnlyTask /\ req[r].status = PENDING
    BY <1>4 DEF managerApprove, Decide
  <2>2. upd.status = MANAGER_APPROVED /\ upd.days = req[r].days  BY <1>s DEF LeaveStatus
  <2>3. Rank(req[r].status) = 0 /\ Rank(upd.status) = 1
    BY <2>1, <2>2, RankValues, Zenon
  <2>4. Rank(req[r].status) <= Rank(upd.status)  BY <2>3
  <2> HIDE DEF upd
  <2> QED  BY <2>1, <2>2, <2>4, SerialHandle DEF PENDING
<1>5. ASSUME NEW r \in Requests, NEW id \in Ids("managerReject"),
             managerReject(t, r, id)
      PROVE  SerialInv'
  <2> DEFINE move == IF req[r].status = PENDING THEN "release" ELSE "none"
             upd == [req[r] EXCEPT !.status = REJECTED]
  <2>1. /\ Handle(t, r, move, req[r].days, upd, "manager rejected", id)
        /\ OnlyTask /\ req[r].status # "absent"
    BY <1>5 DEF managerReject, Decide, Born
  <2>2. upd.status = REJECTED /\ upd.days = req[r].days  BY <1>s DEF LeaveStatus
  <2>3. Rank(upd.status) = 3
    BY <2>2, RankValues
  <2>4. Rank(req[r].status) <= Rank(upd.status)  BY <2>3, RankType
  <2> HIDE DEF move, upd
  <2> QED  BY <2>1, <2>2, <2>4, SerialHandle
<1>6. ASSUME NEW batch \in Batches, NEW id \in Ids("bulkProcess"),
             bulkProcess(t, batch, id)
      PROVE  SerialInv'
  <2> DEFINE h == [Idle EXCEPT !.pc = "bulk", !.items = batch, !.id = id]
  <2>1. Continue(t, h) /\ OnlyTask  BY <1>6 DEF bulkProcess
  <2>2. Current(h)  BY DEF Idle, Current
  <2> QED  BY <2>1, <2>2, SerialFrame
<1>7. ASSUME NEW e \in Entitlements, NEW g \in Grants, createEntitlement(t, e, g)
      PROVE SerialInv'
  <2> DEFINE h == [Idle EXCEPT !.pc = "insertEnt", !.eid = e,
                               !.doc = Granted(g[1], g[2])]
  <2>1. Continue(t, h) /\ OnlyTask  BY <1>7 DEF createEntitlement
  <2>2. /\ h.pc = "insertEnt" /\ h.then = "idle" /\ h.doc = Granted(g[1], g[2])
    BY DEF Idle
  <2> HIDE DEF h
  <2>3. Current(h)  BY <2>2, GrantedType DEF Current
  <2> QED  BY <2>1, <2>3, SerialFrame
<1>8. ASSUME NEW e \in Entitlements, NEW dto \in Settings, updateEntitlement(t, e, dto)
      PROVE SerialInv'
  <2> DEFINE h == [Idle EXCEPT !.pc = "saveEnt", !.move = "set", !.eid = e,
                               !.base = ent[e], !.doc = updated(ent[e], dto)]
  <2>1. Continue(t, h) /\ OnlyTask  BY <1>8 DEF updateEntitlement
  <2>2. /\ h.pc = "saveEnt" /\ h.then = "idle" /\ h.eid = e /\ h.base = ent[e]
        /\ h.doc = updated(ent[e], dto)
    BY DEF Idle
  <2> HIDE DEF h
  <2>3. ent[e] \in Balance  BY DEF TypeInv, TypeOK
  <2>4. Current(h)  BY <2>2, <2>3, UpdatedIdentity DEF Current
  <2> QED  BY <2>1, <2>4, SerialFrame
<1>9. ASSUME removeEntitlement(t)  PROVE SerialInv'
  <2>1. UNCHANGED <<ent, req, task>> /\ \A e \in Entitlements : entLife'[e] = "live" => entLife[e] = "live"
    BY <1>9 DEF removeEntitlement, Live
  <2>2. RemainingIdentity'  BY <2>1 DEF SerialInv, RemainingIdentity, Live
  <2>3. task[t].pc \in {"saveEnt", "insertEnt"} => task[t].eid \in Entitlements
    BY DEF TypeInv, WellFormed
  <2>4. Current(task[t])'  BY <2>1, <2>3 DEF SerialInv, Current
  <2> QED  BY <2>2, <2>4 DEF SerialInv
<1>10. ASSUME NEW a \in Adjustments, createAdjustment(t, a)  PROVE SerialInv'
  BY <1>10 DEF createAdjustment, SerialInv, RemainingIdentity, Live, Current
<1>11. ASSUME NEW a \in Adjustments, NEW id \in Ids("approveAdjustment"),
              approveAdjustment(t, a, id)
       PROVE  SerialInv'
  <2> DEFINE n == IF a.type = "add" THEN a.amount ELSE -a.amount
             h == [Idle EXCEPT !.pc = "findEnt", !.then = "saveAdj", !.move = "adjust",
                               !.days = n, !.aid = a, !.id = id]
  <2>1. Continue(t, h) /\ OnlyTask  BY <1>11 DEF approveAdjustment
  <2>2. Current(h)  BY DEF Idle, Current
  <2> QED  BY <2>1, <2>2, SerialFrame
<1> QED  BY <1>1, <1>2, <1>3, <1>4, <1>5, <1>6, <1>7, <1>8, <1>9, <1>10, <1>11 DEF Call

LEMMA SerialStep ==
    ASSUME TypeInv, SerialInv, NEW t \in Tasks, Tasks = {t}, Step(t)
    PROVE  SerialInv'
<1>h. task[t] \in Frame /\ WellFormed(task[t]) /\ Current(task[t])
  BY DEF TypeInv, TypeOK, SerialInv
<1>i. ASSUME task[t].pc \in {"bulk", "hr"}  PROVE Head(task[t].items).id \in Requests
  <2>1. task[t].items \in Seq(Item) /\ task[t].items # <<>>
    BY <1>h, <1>i DEF Frame, WellFormed
  <2>2. Head(task[t].items) \in Item  BY <2>1, HeadTailProperties
  <2> QED  BY <2>2 DEF Item
<1>s. ASSUME NEW r \in Requests, NEW s \in LeaveStatus
      PROVE  [req[r] EXCEPT !.status = s].status = s
               /\ [req[r] EXCEPT !.status = s].days = req[r].days
  BY DEF TypeInv, TypeOK, RequestDoc
<1>q. ASSUME OnlyTask, Return(t)  PROVE SerialInv'
  <2>1. RemainingIdentity'  BY <1>q DEF OnlyTask, SerialInv, RemainingIdentity, Live
  <2> QED  BY <2>1, <1>q, SerialReturn
<1>1. ASSUME bulkItem(t)  PROVE SerialInv'
  <2> DEFINE h == [task[t] EXCEPT !.pc = "hr"]
  <2>1. (Continue(t, h) \/ Return(t)) /\ OnlyTask  BY <1>1 DEF bulkItem
  <2>2. /\ h.pc = "hr" /\ h.then = task[t].then /\ h.upd = task[t].upd
        /\ h.seen = task[t].seen /\ h.rid = task[t].rid
    BY <1>h DEF Frame
  <2> HIDE DEF h
  <2>3. Current(h)  BY <2>2, <1>h DEF Current
  <2> QED  BY <2>1, <2>3, <1>q, SerialFrame
<1>2. ASSUME hrApprove(t)  PROVE SerialInv'
  <2> DEFINE r == Head(task[t].items).id
             upd == [req[r] EXCEPT !.status = APPROVED]
  <2>1. r \in Requests  BY <1>2, <1>i DEF hrApprove
  <2>2. /\ Handle(t, r, "consume", req[r].days, upd, "hr approved", task[t].id)
        /\ OnlyTask /\ req[r].status = MANAGER_APPROVED
    BY <1>2 DEF hrApprove, Decide
  <2>3. upd.status = APPROVED /\ upd.days = req[r].days  BY <2>1, <1>s DEF LeaveStatus
  <2> HIDE DEF r, upd
  <2>4. Rank(req[r].status) = 1 /\ Rank(upd.status) = 2
    BY <2>2, <2>3, RankValues, Zenon
  <2>5. Rank(req[r].status) <= Rank(upd.status)  BY <2>4
  <2> QED  BY <2>1, <2>2, <2>3, <2>5, SerialHandle DEF MANAGER_APPROVED
<1>3. ASSUME hrReject(t)  PROVE SerialInv'
  <2> DEFINE r == Head(task[t].items).id
             upd == [req[r] EXCEPT !.status = REJECTED]
  <2>1. r \in Requests  BY <1>3, <1>i DEF hrReject
  <2>2. /\ Handle(t, r, "release", req[r].days, upd, "hr rejected", task[t].id)
        /\ OnlyTask /\ req[r].status = MANAGER_APPROVED
    BY <1>3 DEF hrReject, Decide
  <2>3. upd.status = REJECTED /\ upd.days = req[r].days  BY <2>1, <1>s DEF LeaveStatus
  <2> HIDE DEF r, upd
  <2>4. Rank(req[r].status) = 1 /\ Rank(upd.status) = 3
    BY <2>2, <2>3, RankValues, Zenon
  <2>5. Rank(req[r].status) <= Rank(upd.status)  BY <2>4
  <2> QED  BY <2>1, <2>2, <2>3, <2>5, SerialHandle DEF MANAGER_APPROVED
<1>4. ASSUME hrRefuse(t)  PROVE SerialInv'
  BY <1>4, <1>q DEF hrRefuse
<1>5. ASSUME findEntitlement(t)  PROVE SerialInv'
  <2> DEFINE doc(e) == Moved(ent[e], task[t].move, task[t].days)
             h(e) == [task[t] EXCEPT !.pc = "saveEnt", !.eid = e, !.base = ent[e],
                                     !.doc = doc(e)]
  <2>1. PICK e \in Live : Continue(t, h(e))  BY <1>5 DEF findEntitlement
  <2>2. ent[e] \in Balance /\ task[t].days \in Int
    BY <1>h DEF Live, TypeInv, TypeOK, Frame
  <2>3. doc(e).remaining = RemainingOf(doc(e))  BY <2>2, MovedIdentity
  <2> HIDE DEF doc
  <2>4. /\ h(e).then = task[t].then /\ h(e).upd = task[t].upd /\ h(e).seen = task[t].seen
        /\ h(e).rid = task[t].rid /\ h(e).eid = e /\ h(e).base = ent[e]
        /\ h(e).doc = doc(e)
    BY <1>h DEF Frame
  <2>5. Current(h(e))
    <3> HIDE DEF h
    <3> QED  BY <1>h, <2>3, <2>4 DEF Current
  <2> QED  BY <1>5, <2>1, <2>5, SerialFrame DEF findEntitlement
<1>6. ASSUME refuseMove(t)  PROVE SerialInv'
  BY <1>6, <1>q DEF refuseMove
<1>7. ASSUME saveEntitlement(t)  PROVE SerialInv'
  <2> DEFINE e == task[t].eid
             h == [task[t] EXCEPT !.pc = task[t].then]
  <2>1. e \in Entitlements /\ ent[e] \in Balance /\ task[t].doc \in Balance
    BY <1>7, <1>h DEF saveEntitlement, WellFormed, Frame, TypeInv, TypeOK
  <2>2. task[t].base = ent[e] /\ task[t].doc.remaining = RemainingOf(task[t].doc)
    BY <1>7, <1>h DEF saveEntitlement, Current
  <2>3. Saved(ent[e], task[t].base, task[t].doc) = task[t].doc
    BY <2>1, <2>2, SavedCurrent
  <2>4. ent' = [ent EXCEPT ![e] = task[t].doc] /\ UNCHANGED <<entLife, req>>
    BY <1>7, <2>3 DEF saveEntitlement
  <2>5. RemainingIdentity'
    BY <2>1, <2>2, <2>4 DEF SerialInv, RemainingIdentity, Live, TypeInv, TypeOK
  <2>6. Continue(t, h) \/ Return(t)  BY <1>7 DEF saveEntitlement
  <2>7. ASSUME Continue(t, h)  PROVE SerialInv'
    <3>1. /\ h.pc = task[t].then /\ h.then = task[t].then /\ h.upd = task[t].upd
          /\ h.seen = task[t].seen /\ h.rid = task[t].rid
          /\ task[t].then \in {"idle", "insertReq", "saveReq", "saveAdj"}
      BY <1>h DEF Frame
    <3>2. task'[t] = h  BY <2>7 DEF TypeInv, TypeOK, Continue
    <3> HIDE DEF h
    <3>3. Current(task[t])'  BY <3>1, <3>2, <2>4, <1>h DEF Current
    <3> QED  BY <2>5, <3>3 DEF SerialInv
  <2> QED  BY <2>5, <2>6, <2>7, SerialReturn
<1>8. ASSUME loseEntitlement(t)  PROVE SerialInv'
  BY <1>8, <1>q DEF loseEntitlement
<1>9. ASSUME NEW r \in Requests, insertRequest(t, r)  PROVE SerialInv'
  <2>1. RemainingIdentity'  BY <1>9 DEF insertRequest, SerialInv, RemainingIdentity, Live
  <2> QED  BY <1>9, <2>1, SerialReturn DEF insertRequest
<1>10. ASSUME saveRequest(t)  PROVE SerialInv'
  <2>1. RemainingIdentity'  BY <1>10 DEF saveRequest, SerialInv, RemainingIdentity, Live
  <2> QED  BY <1>10, <2>1, SerialReturn DEF saveRequest
<1>11. ASSUME insertEntitlement(t)  PROVE SerialInv'
  <2>1. task[t].eid \in Entitlements /\ task[t].doc.remaining = RemainingOf(task[t].doc)
    BY <1>11, <1>h DEF insertEntitlement, WellFormed, Current
  <2>2. RemainingIdentity'
    BY <1>11, <2>1 DEF insertEntitlement, SerialInv, RemainingIdentity, Live, TypeInv, TypeOK
  <2> QED  BY <1>11, <2>2, SerialReturn DEF insertEntitlement
<1>12. ASSUME saveAdjustment(t)  PROVE SerialInv'
  <2>1. RemainingIdentity'  BY <1>12 DEF saveAdjustment, SerialInv, RemainingIdentity, Live
  <2> QED  BY <1>12, <2>1, SerialReturn DEF saveAdjustment
<1> QED  BY <1>1, <1>2, <1>3, <1>4, <1>5, <1>6, <1>7, <1>8, <1>9, <1>10, <1>11, <1>12
         DEF Step

LEMMA SerialInit == Init => SerialInv
<1> SUFFICES ASSUME Init  PROVE SerialInv
  OBVIOUS
<1>1. RemainingIdentity
  <2> SUFFICES ASSUME NEW e \in Live  PROVE ent[e].remaining = RemainingOf(ent[e])
    BY DEF RemainingIdentity
  <2>1. PICK g \in Grants : ent[e] = Granted(g[1], g[2])  BY DEF Init, Live
  <2> QED  BY <2>1, GrantedType
<1>2. Idle.pc = "idle" /\ Idle.then = "idle"  BY DEF Idle
<1>3. \A t \in Tasks : Current(task[t])  BY <1>2 DEF Init, Current
<1> QED  BY <1>1, <1>3 DEF SerialInv

LEMMA SerialNext ==
    ASSUME NEW solo, Tasks = {solo}
    PROVE  TypeInv /\ SerialInv /\ [Next]_vars => SerialInv'
<1> SUFFICES ASSUME TypeInv, SerialInv, [Next]_vars  PROVE SerialInv'
  OBVIOUS
<1>1. CASE UNCHANGED vars
  BY <1>1 DEF vars, SerialInv, RemainingIdentity, Live, Current
<1>2. CASE restart
  <2>1. OnlyTask /\ \A t \in Tasks : task'[t] = Idle  BY <1>2 DEF restart
  <2>2. RemainingIdentity'  BY <2>1 DEF OnlyTask, SerialInv, RemainingIdentity, Live
  <2>3. Idle.pc = "idle" /\ Idle.then = "idle"  BY DEF Idle
  <2>4. \A t \in Tasks : Current(task[t])'  BY <2>1, <2>3 DEF Current
  <2> QED  BY <2>2, <2>4 DEF SerialInv
<1>3. solo \in Tasks  OBVIOUS
<1> QED  BY <1>1, <1>2, <1>3, SerialCall, SerialStep DEF Next

\* While calls do not overlap, remaining is what the other fields of the
\* entitlement leave, also after a restart in the middle of a call
\* (recomputeRemaining before every save).
THEOREM SerialRemaining ==
    ASSUME NEW solo, Tasks = {solo}
    PROVE  Spec => []RemainingIdentity
<1>1. SerialInv => RemainingIdentity  BY DEF SerialInv
<1> QED  BY InitType, NextType, SerialInit, SerialNext, <1>1, PTL DEF Spec

\* What the save of a request may do to it when calls do not overlap.
LEMMA SerialSaves ==
    ASSUME NEW solo, Tasks = {solo}, TypeInv, SerialInv, Next, NEW r \in Requests, Born(r)
    PROVE  /\ req'[r].days # req[r].days => req[r].status = PENDING
           /\ Rank(req[r].status) <= Rank(req'[r].status)
<1>r. \A s : Rank(s) \in Int /\ Rank(s) <= Rank(s)  BY RankType
<1>1. CASE req'[r] = req[r]
  BY <1>1, <1>r
<1>2. CASE req'[r] # req[r]
  <2>1. PICK t \in Tasks : (\E s \in Requests : insertRequest(t, s)) \/ saveRequest(t)
    BY <1>2 DEF Next, Call, Step, OnlyTask, create, update, cancel, managerApprove,
                managerReject, bulkProcess, createEntitlement, updateEntitlement,
                removeEntitlement, createAdjustment, approveAdjustment, bulkItem,
                hrApprove, hrReject, hrRefuse, findEntitlement, refuseMove,
                saveEntitlement, loseEntitlement, insertEntitlement, saveAdjustment,
                restart
  <2>h. task[t] \in Frame /\ WellFormed(task[t]) /\ Current(task[t]) /\ req[r] \in RequestDoc
    BY DEF TypeInv, TypeOK, SerialInv
  <2>2. CASE \E s \in Requests : insertRequest(t, s)
    BY <2>2, <1>2 DEF insertRequest, Born, TypeInv, TypeOK
  <2>3. CASE saveRequest(t)
    <3> DEFINE saved == Saved(req[task[t].rid], task[t].seen, task[t].upd)
    <3>1. req' = [req EXCEPT ![task[t].rid] = saved] /\ task[t].then = "saveReq"
      BY <2>3, <2>h DEF saveRequest, WellFormed
    <3>2. task[t].rid = r
      <4> HIDE DEF saved
      <4> QED  BY <3>1, <1>2 DEF TypeInv, TypeOK
    <3>3. req'[r] = saved  BY <3>1, <3>2 DEF TypeInv, TypeOK
    <3>4. task[t].seen \in RequestDoc /\ task[t].upd \in RequestDoc  BY <2>h DEF Frame
    <3>5. /\ task[t].seen = req[r]
          /\ task[t].upd.days # task[t].seen.days => task[t].seen.status = PENDING
          /\ Rank(task[t].seen.status) <= Rank(task[t].upd.status)
      BY <3>1, <3>2, <2>h DEF Current
    <3>6. /\ saved.status = IF task[t].upd.status # task[t].seen.status
                            THEN task[t].upd.status ELSE req[r].status
          /\ saved.days = IF task[t].upd.days # task[t].seen.days
                          THEN task[t].upd.days ELSE req[r].days
      BY <3>2, <3>4, <2>h, SavedRequestType
    <3> HIDE DEF saved
    <3> QED  BY <3>3, <3>5, <3>6, <1>r
  <2> QED  BY <2>1, <2>2, <2>3
<1> QED  BY <1>1, <1>2

\* While calls do not overlap, the duration of a request only changes while it
\* is pending (leaveRequest.update): approvers decide on the final duration.
THEOREM SerialDuration ==
    ASSUME NEW solo, Tasks = {solo}
    PROVE  Spec => DurationFrozen
<1> DEFINE A == \A r \in Requests :
                  Born(r) /\ req'[r].days # req[r].days => req[r].status = PENDING
<1>1. TypeInv /\ SerialInv /\ [Next]_vars => [A]_vars  BY SerialSaves
<1> QED  BY InitType, NextType, SerialInit, SerialNext, <1>1, PTL DEF Spec, DurationFrozen

\* While calls do not overlap, the review of a request only goes forward, and
\* a rejected or cancelled one stays so (the guards of managerApprove,
\* hrApprove and hrReject).
THEOREM SerialAdvances ==
    ASSUME NEW solo, Tasks = {solo}
    PROVE  Spec => ReviewOnlyAdvances
<1> DEFINE A == \A r \in Requests : Born(r) => Rank(req[r].status) <= Rank(req[r].status)'
<1>1. TypeInv /\ SerialInv /\ [Next]_vars => [A]_vars
  <2> SUFFICES ASSUME TypeInv, SerialInv, Next, NEW r \in Requests, Born(r)
               PROVE  Rank(req[r].status) <= Rank(req[r].status)'
    BY DEF vars
  <2>1. Rank(req[r].status) <= Rank(req'[r].status)  BY SerialSaves
  <2> QED  BY <2>1 DEF Rank
<1> QED  BY InitType, NextType, SerialInit, SerialNext, <1>1, PTL DEF Spec, ReviewOnlyAdvances

-----------------------------------------------------------------------------
(* The accounts.  Handlers that run one at a time and are not cut short, by *)
(* a restart or by a malformed id after they have given up days held, on    *)
(* one entitlement whose pending nobody sets by hand, keep the days of open *)
(* requests within the days pending.                                        *)

\* What the save of the request will do to the days held, and what the save of
\* the entitlement will do to the balance.
Charges(h) ==
    /\ h.then # "idle" => h.move # "set"
    /\ h.then = "insertReq" => h.move = "reserve"
    /\ h.then = "saveAdj" => h.move = "adjust"
    /\ h.then = "saveReq" =>
         IF h.move = "reserve" THEN h.days >= 0 /\ Weight(h.upd) = Weight(h.seen) + h.days
         ELSE IF h.move \in {"release", "consume"}
              THEN h.days >= 0 /\ Weight(h.upd) = Weight(h.seen) - h.days
              ELSE h.move \in {"none", "revert"} /\ Weight(h.upd) <= Weight(h.seen)
    /\ h.pc = "saveEnt" =>
         /\ Valid(h.doc)
         /\ IF h.then = "idle" THEN h.move = "set" /\ h.doc.pending = h.base.pending
            ELSE h.doc = Moved(h.base, h.move, h.days)
    /\ h.pc = "findEnt" => h.then # "idle"
    /\ h.pc # "insertEnt"
    /\ h.id # "valid" => h.move \in {"reserve", "adjust"} /\ h.items = <<>>

HeldInv ==
    /\ \A e \in Entitlements :
          /\ entLife[e] # "unborn"
          /\ Valid(ent[e]) /\ ent[e].remaining = RemainingOf(ent[e])
          /\ Held <= ent[e].pending
    /\ \A t \in Tasks : Charges(task[t])
    /\ \A t \in Tasks : task[t].pc = "saveEnt" => entLife[task[t].eid] = "live"

\* The operations that may give up days held for a request.
GivingUp == {"update", "cancel", "managerReject", "bulkProcess"}

\* No call is cut short: the process does not restart, and a call that may give
\* up days held carries a well-formed id, so that new Types.ObjectId does not
\* throw between the save of the entitlement and the save of the request.  And
\* HR leaves pending to the handlers.
Undisturbed == /\ "restart" \notin Ops
               /\ Malformed \cap GivingUp = {}
               /\ \A s \in Settings : "pending" \notin DOMAIN s

\* How a step may move the books: the entitlement stays and days are held or
\* freed; or it is corrected and the days held stay; or days held are used.
Booked(e) ==
    \/ /\ ent'[e].yearly = ent[e].yearly /\ ent'[e].carry = ent[e].carry
       /\ ent'[e].taken = ent[e].taken
    \/ Held' = Held
    \/ /\ ent'[e].yearly = ent[e].yearly /\ ent'[e].carry = ent[e].carry
       /\ ent'[e].taken = ent[e].taken + (Held - Held')
       /\ Held' <= Held

LEMMA GivingUpIds ==
    ASSUME Undisturbed
    PROVE  \A op \in GivingUp : Ids(op) = {"valid"}
  BY DEF Undisturbed, Ids

LEMMA WeightType == ASSUME NEW d \in RequestDoc  PROVE Weight(d) \in Nat /\ Weight(d) <= d.days
  BY DEF Weight, RequestDoc

LEMMA WeightOf ==
    ASSUME NEW d \in RequestDoc
    PROVE  /\ d.status \in {PENDING, MANAGER_APPROVED} => Weight(d) = d.days
           /\ d.status \in {APPROVED, REJECTED, CANCELLED, "absent"} => Weight(d) = 0
  BY DEF Weight, Open, PENDING, MANAGER_APPROVED, APPROVED, REJECTED, CANCELLED

LEMMA UnderwayType == ASSUME NEW h \in Frame  PROVE Underway(h) \in Int
  BY DEF Underway, Frame

LEMMA UnderwayNone ==
    ASSUME NEW h, h.pc # "insertReq",
           h.pc = "saveReq" => h.move \notin {"reserve", "release", "consume"}
    PROVE  Underway(h) = 0
  BY DEF Underway

\* What is held, with one call.
LEMMA HeldSum ==
    ASSUME NEW solo, Tasks = {solo}, NEW q \in [Requests -> RequestDoc], NEW h \in [Tasks -> Frame]
    PROVE  /\ SumFunctionOnSet(Weights(q), Requests) \in Nat
           /\ \A r \in Requests : Weight(q[r]) <= SumFunctionOnSet(Weights(q), Requests)
           /\ SumFunctionOnSet(Burdens(h), Tasks) = Underway(h[solo])
           /\ Underway(h[solo]) \in Int
<1> DEFINE w == Weights(q)
           u == Burdens(h)
<1>1. \A r \in Requests : w[r] = Weight(q[r]) /\ w[r] \in Nat  BY WeightType DEF Weights
<1>2. SumFunctionOnSet(w, Requests) \in Nat
        /\ \A r \in Requests : w[r] <= SumFunctionOnSet(w, Requests)
  <2> HIDE DEF w
  <2> QED  BY <1>1, SumCovers, RequestsAssumption
<1>3. Underway(h[solo]) \in Int /\ u[solo] = Underway(h[solo])  BY UnderwayType DEF Burdens
<1>4. SumFunctionOnSet(u, Tasks) = u[solo]
  <2> HIDE DEF u
  <2>1. Tasks \ {solo} = {} /\ solo \in Tasks  OBVIOUS
  <2>2. \A t \in Tasks : u[t] \in Int  BY <1>3
  <2>3. SumFunctionOnSet(u, Tasks) = u[solo] + SumFunctionOnSet(u, Tasks \ {solo})
    BY <2>1, <2>2, SumRemove, RequestsAssumption
  <2>4. SumFunctionOnSet(u, Tasks \ {solo}) = 0  BY <2>1, SumEmpty
  <2> QED  BY <1>3, <2>3, <2>4
<1> QED  BY <1>1, <1>2, <1>3, <1>4

\* A step that writes at most request r moves what is held by as much.
LEMMA HeldChange ==
    ASSUME NEW solo, Tasks = {solo}, TypeInv, TypeInv', NEW r \in Requests,
           \A s \in Requests : s # r => req'[s] = req[s]
    PROVE  /\ Held \in Int /\ Held' \in Int
           /\ Held' = Held + (Weight(req'[r]) - Weight(req[r]))
                           + (Underway(task'[solo]) - Underway(task[solo]))
<1>t. /\ req \in [Requests -> RequestDoc] /\ req' \in [Requests -> RequestDoc]
      /\ task \in [Tasks -> Frame] /\ task' \in [Tasks -> Frame]
  BY DEF TypeInv, TypeOK
<1> DEFINE w == Weights(req)
           v == Weights(req')
<1>0. /\ SumFunctionOnSet(Weights(req), Requests) \in Nat
      /\ SumFunctionOnSet(Burdens(task), Tasks) = Underway(task[solo])
      /\ Underway(task[solo]) \in Int
  BY <1>t, HeldSum
<1>1. /\ Held = SumFunctionOnSet(w, Requests) + Underway(task[solo])
      /\ SumFunctionOnSet(w, Requests) \in Int /\ Underway(task[solo]) \in Int
  BY <1>0 DEF Held
<1>2. /\ Held' = SumFunctionOnSet(v, Requests) + Underway(task'[solo])
      /\ SumFunctionOnSet(v, Requests) \in Int /\ Underway(task'[solo]) \in Int
  BY <1>t, HeldSum DEF Held
<1>3. /\ \A s \in Requests : w[s] \in Int /\ v[s] \in Int /\ (s # r => v[s] = w[s])
      /\ v[r] = Weight(req'[r]) /\ w[r] = Weight(req[r])
  BY <1>t, WeightType DEF Weights
<1> HIDE DEF v, w
<1>4. SumFunctionOnSet(v, Requests) = SumFunctionOnSet(w, Requests) + (v[r] - w[r])
  BY <1>3, SumChange, RequestsAssumption
<1> QED  BY <1>1, <1>2, <1>3, <1>4

LEMMA HeldKept ==
    ASSUME NEW solo, Tasks = {solo}, TypeInv, TypeInv', req' = req
    PROVE  /\ Held \in Int /\ Held' \in Int
           /\ Held' = Held + (Underway(task'[solo]) - Underway(task[solo]))
<1>t. /\ req \in [Requests -> RequestDoc]
      /\ task \in [Tasks -> Frame] /\ task' \in [Tasks -> Frame]
  BY DEF TypeInv, TypeOK
<1> DEFINE w == Weights(req)
<1>0. /\ SumFunctionOnSet(Weights(req), Requests) \in Nat
      /\ SumFunctionOnSet(Burdens(task), Tasks) = Underway(task[solo])
      /\ Underway(task[solo]) \in Int
  BY <1>t, HeldSum
<1>1. /\ Held = SumFunctionOnSet(w, Requests) + Underway(task[solo])
      /\ SumFunctionOnSet(w, Requests) \in Int /\ Underway(task[solo]) \in Int
  BY <1>0 DEF Held
<1>2. /\ Held' = SumFunctionOnSet(w, Requests) + Underway(task'[solo])
      /\ Underway(task'[solo]) \in Int
  BY <1>t, HeldSum DEF Held
<1> HIDE DEF w
<1> QED  BY <1>1, <1>2

\* Days are never held below zero: what a handler has given back in advance is
\* still in the request it will write.
LEMMA HeldNatural ==
    ASSUME NEW solo, Tasks = {solo}
    PROVE  TypeInv /\ SerialInv /\ HeldInv => Held \in Nat
<1> SUFFICES ASSUME TypeInv, SerialInv, HeldInv  PROVE Held \in Nat
  OBVIOUS
<1> DEFINE h == task[solo]
           sum == SumFunctionOnSet(Weights(req), Requests)
<1>t. /\ req \in [Requests -> RequestDoc] /\ task \in [Tasks -> Frame] /\ h \in Frame
      /\ WellFormed(h) /\ Current(h) /\ Charges(h)
  BY DEF TypeInv, TypeOK, SerialInv, HeldInv
<1>1. /\ Held = sum + Underway(h) /\ sum \in Nat /\ Underway(h) \in Int
      /\ \A r \in Requests : Weight(req[r]) <= sum
  BY <1>t, HeldSum DEF Held
<1> HIDE DEF h, sum
<1>2. CASE h.pc = "insertReq"
  <2>1. h.days \in Nat  BY <1>t, <1>2 DEF WellFormed
  <2> QED  BY <1>1, <1>2, <2>1 DEF Underway
<1>3. CASE h.pc = "saveReq" /\ h.move = "reserve"
  <2>1. h.days \in Nat  BY <1>t, <1>3 DEF WellFormed, Charges, Frame
  <2> QED  BY <1>1, <1>3, <2>1 DEF Underway
<1>4. CASE h.pc = "saveReq" /\ h.move \in {"release", "consume"}
  <2>1. h.then = "saveReq" /\ h.rid \in Requests  BY <1>t, <1>4 DEF WellFormed
  <2>2. h.seen = req[h.rid]  BY <1>t, <2>1 DEF Current
  <2>3. h.days \in Nat /\ Weight(h.upd) = Weight(h.seen) - h.days
    BY <1>t, <1>4, <2>1 DEF Charges, Frame
  <2>4. Weight(h.upd) \in Nat /\ Weight(h.seen) \in Nat
    BY <1>t, WeightType DEF Frame
  <2>5. h.days <= Weight(req[h.rid])  BY <2>2, <2>3, <2>4
  <2>6. Weight(req[h.rid]) \in Nat  BY <2>2, <2>4
  <2>7. Weight(req[h.rid]) <= sum  BY <1>1, <2>1
  <2>8. Underway(h) = -h.days  BY <1>4 DEF Underway
  <2> QED  BY <1>1, <2>3, <2>5, <2>6, <2>7, <2>8
<1>5. CASE ~(h.pc = "insertReq" \/ (h.pc = "saveReq" /\ h.move \in {"reserve", "release", "consume"}))
  <2>1. Underway(h) = 0  BY <1>5, UnderwayNone
  <2> QED  BY <1>1, <2>1
<1> QED  BY <1>2, <1>3, <1>4, <1>5

-----------------------------------------------------------------------------
(* One lemma per way a step can go on.                                      *)

\* Only what the call remembers changes, and not what it has underway.
LEMMA HeldFrame ==
    ASSUME NEW solo, Tasks = {solo}, NEW one, Entitlements = {one},
           TypeInv, TypeInv', HeldInv, OnlyTask, NEW h, Continue(solo, h),
           Charges(h), Underway(h) = Underway(task[solo]),
           h.pc = "saveEnt" => entLife[h.eid] = "live"
    PROVE  HeldInv' /\ Booked(one)
<1>1. task'[solo] = h  BY DEF TypeInv, TypeOK, Continue
<1>2. Held' = Held
  <2>1. /\ Held \in Int
        /\ Held' = Held + (Underway(task'[solo]) - Underway(task[solo]))
    BY HeldKept DEF OnlyTask
  <2>2. Underway(task[solo]) \in Int  BY UnderwayType DEF TypeInv, TypeOK
  <2> QED  BY <1>1, <2>1, <2>2
<1>3. ent' = ent /\ entLife' = entLife  BY DEF OnlyTask
<1>4. Charges(task[solo])'  BY <1>1 DEF Charges
<1> QED  BY <1>1, <1>2, <1>3, <1>4 DEF HeldInv, Booked

\* The handler is over, with what it had underway written.
LEMMA HeldReturn ==
    ASSUME NEW solo, Tasks = {solo}, NEW one, Entitlements = {one},
           TypeInv, HeldInv, Return(solo), entLife' = entLife,
           Valid(ent'[one]), ent'[one].remaining = RemainingOf(ent'[one]),
           Held' <= ent'[one].pending
    PROVE  HeldInv'
<1>1. PICK h : /\ Continue(solo, h) /\ h.pc \in {"idle", "bulk"} /\ h.then = "idle"
               /\ h.move = "none"
               /\ (h.id = "valid" \/ (h.id = task[solo].id /\ task[solo].items # <<>>))
  BY ReturnPc
<1>0. h.id = "valid"  BY <1>1 DEF HeldInv, Charges
<1>2. task'[solo] = h  BY <1>1 DEF TypeInv, TypeOK, Continue
<1>3. Charges(h)  BY <1>0, <1>1 DEF Charges
<1>4. Charges(task[solo])'  BY <1>2, <1>3 DEF Charges
<1> QED  BY <1>1, <1>2, <1>4 DEF HeldInv

LEMMA ReturnUnderway ==
    ASSUME TypeInv, NEW t \in Tasks, Return(t)
    PROVE  Underway(task'[t]) = 0
<1>1. PICK h : Continue(t, h) /\ h.pc \in {"idle", "bulk"}  BY ReturnPc
<1>2. task'[t] = h  BY <1>1 DEF TypeInv, TypeOK, Continue
<1> QED  BY <1>1, <1>2, UnderwayNone

\* The handler throws, with nothing underway.
LEMMA HeldRefuse ==
    ASSUME NEW solo, Tasks = {solo}, NEW one, Entitlements = {one},
           TypeInv, TypeInv', HeldInv, OnlyTask, Return(solo), Underway(task[solo]) = 0
    PROVE  HeldInv' /\ Booked(one)
<1>1. PICK h : /\ Continue(solo, h) /\ h.pc \in {"idle", "bulk"} /\ h.then = "idle"
               /\ h.move = "none"
               /\ (h.id = "valid" \/ (h.id = task[solo].id /\ task[solo].items # <<>>))
  BY ReturnPc
<1>0. h.id = "valid"  BY <1>1 DEF HeldInv, Charges
<1>2. Charges(h) /\ Underway(h) = 0  BY <1>0, <1>1, UnderwayNone DEF Charges
<1> QED  BY <1>1, <1>2, HeldFrame

LEMMA HeldHandle ==
    ASSUME NEW solo, Tasks = {solo}, NEW one, Entitlements = {one},
           TypeInv, TypeInv', HeldInv, OnlyTask, Underway(task[solo]) = 0,
           NEW r \in Requests, NEW move, NEW days, NEW upd, NEW entry, NEW id,
           Handle(solo, r, move, days, upd, entry, id), id = "valid",
           IF move = "reserve" THEN days >= 0 /\ Weight(upd) = Weight(req[r]) + days
           ELSE IF move \in {"release", "consume"}
                THEN days >= 0 /\ Weight(upd) = Weight(req[r]) - days
                ELSE move \in {"none", "revert"} /\ Weight(upd) <= Weight(req[r])
    PROVE  HeldInv' /\ Booked(one)
<1> DEFINE pc == IF move = "none" THEN "saveReq" ELSE "findEnt"
           h == [task[solo] EXCEPT
        !.pc = pc, !.then = "saveReq", !.move = move, !.days = days, !.rid = r,
        !.seen = req[r], !.upd = upd, !.entry = entry, !.id = id]
<1>1. Continue(solo, h)  BY DEF Handle
<1>2. task[solo] \in Frame  BY DEF TypeInv, TypeOK
<1> HIDE DEF pc
<1>3. /\ h.pc = pc /\ h.then = "saveReq" /\ h.move = move /\ h.days = days
      /\ h.seen = req[r] /\ h.upd = upd /\ h.id = id
  BY <1>2 DEF Frame
<1>4. h.pc = IF move = "none" THEN "saveReq" ELSE "findEnt"  BY <1>3 DEF pc
<1> HIDE DEF h
<1>5. Charges(h)  BY <1>3, <1>4 DEF Charges
<1>6. Underway(h) = 0  BY <1>3, <1>4, UnderwayNone
<1> QED  BY <1>1, <1>4, <1>5, <1>6, HeldFrame

LEMMA MovedDays ==
    ASSUME NEW b \in Balance, NEW n \in Int, NEW move
    PROVE  /\ move \in {"reserve", "release", "consume"} =>
                 /\ Moved(b, move, n).yearly = b.yearly
                 /\ Moved(b, move, n).carry = b.carry
                 /\ Moved(b, move, n).pending = IF move = "reserve" THEN b.pending + n
                                                                   ELSE b.pending - n
                 /\ Moved(b, move, n).taken = IF move = "consume" THEN b.taken + n
                                                                 ELSE b.taken
           /\ move \notin {"reserve", "release", "consume"} =>
                 Moved(b, move, n).pending = b.pending
<1>b. DOMAIN b = Fields  BY DEF Balance
<1>1. CASE move = "reserve"
  BY <1>1 DEF Moved, reservePending, recomputeRemaining, RemainingOf, Balance, Fields
<1>2. CASE move = "release"
  BY <1>2 DEF Moved, releasePending, recomputeRemaining, RemainingOf, Balance, Fields
<1>3. CASE move = "consume"
  BY <1>3 DEF Moved, consumePendingToTaken, recomputeRemaining, RemainingOf, Balance, Fields
<1>4. CASE move = "revert"
  BY <1>4 DEF Moved, revertTaken, recomputeRemaining, RemainingOf, Balance, Fields
<1>5. CASE move \notin {"reserve", "release", "consume", "revert"}
  BY <1>5 DEF Moved, adjustBalance, recomputeRemaining, RemainingOf, Balance, Fields
<1> QED  BY <1>1, <1>2, <1>3, <1>4, <1>5

LEMMA HeldCall ==
    ASSUME NEW solo, Tasks = {solo}, NEW one, Entitlements = {one}, Undisturbed,
           TypeInv, TypeInv', SerialInv, HeldInv, Call(solo)
    PROVE  HeldInv' /\ Booked(one)
<1> DEFINE Kept == HeldInv' /\ Booked(one)
<1>t. solo \in Tasks /\ \A r \in Requests : req[r] \in RequestDoc
  BY DEF TypeInv, TypeOK
<1>u. ASSUME NEW op, Receives(solo, op)  PROVE Underway(task[solo]) = 0
  BY <1>u, UnderwayNone DEF Receives
<1>v. \A op \in GivingUp : \A id \in Ids(op) : id = "valid"  BY GivingUpIds
<1>w. ASSUME NEW r \in Requests, NEW s \in LeaveStatus, NEW upd,
             upd = [req[r] EXCEPT !.status = s]
      PROVE  /\ upd \in RequestDoc /\ upd.status = s /\ upd.days = req[r].days
             /\ req[r].days \in Nat /\ Weight(req[r]) \in Nat
  BY <1>t, <1>w, WeightType DEF RequestDoc
<1>1. ASSUME NEW n \in Days, NEW id \in Ids("create"), create(solo, n, id)  PROVE Kept
  <2> DEFINE h == [Idle EXCEPT !.pc = "findEnt", !.then = "insertReq",
                               !.move = "reserve", !.days = n, !.id = id]
  <2>1. Continue(solo, h) /\ OnlyTask /\ Receives(solo, "create")  BY <1>1 DEF create
  <2>2. h.pc = "findEnt" /\ h.then = "insertReq" /\ h.move = "reserve" /\ h.items = <<>>
    BY DEF Idle
  <2> HIDE DEF h
  <2>3. Charges(h) /\ Underway(h) = 0  BY <2>2, UnderwayNone DEF Charges
  <2>4. Underway(task[solo]) = 0  BY <2>1, <1>u
  <2> QED  BY <2>1, <2>2, <2>3, <2>4, HeldFrame
<1>2. ASSUME NEW r \in Requests, NEW n \in Days, NEW id \in Ids("update"),
             update(solo, r, n, id)
      PROVE  Kept
  <2> DEFINE delta == n - req[r].days
             move == CASE delta > 0 -> "reserve" [] delta < 0 -> "release"
                       [] OTHER -> "none"
             size == IF delta < 0 THEN -delta ELSE delta
             upd == [req[r] EXCEPT !.days = n]
  <2>1. /\ Handle(solo, r, move, size, upd, "none", id) /\ OnlyTask
        /\ req[r].status = PENDING /\ Receives(solo, "update")
    BY <1>2 DEF update
  <2>2. /\ upd \in RequestDoc /\ upd.status = PENDING /\ upd.days = n
        /\ n \in Nat /\ req[r].days \in Nat
    BY <1>t, <2>1, RequestsAssumption DEF RequestDoc
  <2> HIDE DEF upd
  <2>3. Weight(upd) = n /\ Weight(req[r]) = req[r].days
    BY <1>t, <2>1, <2>2, WeightOf
  <2>4. IF move = "reserve" THEN size >= 0 /\ Weight(upd) = Weight(req[r]) + size
        ELSE IF move \in {"release", "consume"}
             THEN size >= 0 /\ Weight(upd) = Weight(req[r]) - size
             ELSE move \in {"none", "revert"} /\ Weight(upd) <= Weight(req[r])
    <3>1. CASE delta > 0  BY <3>1, <2>2, <2>3
    <3>2. CASE delta < 0  BY <3>2, <2>2, <2>3
    <3>3. CASE delta = 0  BY <3>3, <2>2, <2>3
    <3> QED  BY <2>2, <3>1, <3>2, <3>3
  <2>5. Underway(task[solo]) = 0  BY <2>1, <1>u
  <2>v. id = "valid"  BY <1>v DEF GivingUp
  <2> HIDE DEF move, size
  <2> QED  BY <2>1, <2>4, <2>5, <2>v, HeldHandle
<1>3. ASSUME NEW r \in Requests, NEW id \in Ids("cancel"), cancel(solo, r, id)  PROVE Kept
  <2> DEFINE move == CASE req[r].status = PENDING -> "release"
                       [] req[r].status = APPROVED -> "revert" [] OTHER -> "none"
             upd == [req[r] EXCEPT !.status = CANCELLED]
  <2>1. Handle(solo, r, move, req[r].days, upd, "cancelled", id) /\ OnlyTask /\ Receives(solo, "cancel")
    BY <1>3 DEF cancel, Decide
  <2>2. /\ upd \in RequestDoc /\ upd.status = CANCELLED
        /\ req[r].days \in Nat /\ Weight(req[r]) \in Nat
    BY <1>w DEF LeaveStatus
  <2> HIDE DEF upd
  <2>3. Weight(upd) = 0  BY <2>2, WeightOf
  <2>4. req[r].status = PENDING => Weight(req[r]) = req[r].days  BY <1>t, WeightOf
  <2>5. IF move = "reserve" THEN req[r].days >= 0 /\ Weight(upd) = Weight(req[r]) + req[r].days
        ELSE IF move \in {"release", "consume"}
             THEN req[r].days >= 0 /\ Weight(upd) = Weight(req[r]) - req[r].days
             ELSE move \in {"none", "revert"} /\ Weight(upd) <= Weight(req[r])
    BY <2>2, <2>3, <2>4
  <2>6. Underway(task[solo]) = 0  BY <2>1, <1>u
  <2>v. id = "valid"  BY <1>v DEF GivingUp
  <2> HIDE DEF move
  <2> QED  BY <2>1, <2>5, <2>6, <2>v, HeldHandle
<1>4. ASSUME NEW r \in Requests, managerApprove(solo, r)  PROVE Kept
  <2> DEFINE upd == [req[r] EXCEPT !.status = MANAGER_APPROVED]
  <2>1. /\ Handle(solo, r, "none", req[r].days, upd, "manager approved", "valid") /\ OnlyTask
        /\ req[r].status = PENDING /\ Receives(solo, "managerApprove")
    BY <1>4 DEF managerApprove, Decide
  <2>2. upd \in RequestDoc /\ upd.status = MANAGER_APPROVED /\ upd.days = req[r].days
          /\ req[r].days \in Nat
    BY <1>w DEF LeaveStatus
  <2> HIDE DEF upd
  <2>3. Weight(upd) = req[r].days /\ Weight(req[r]) = req[r].days
    BY <1>t, <2>1, <2>2, WeightOf
  <2>4. Weight(upd) <= Weight(req[r])  BY <2>2, <2>3
  <2>5. Underway(task[solo]) = 0  BY <2>1, <1>u
  <2> QED  BY <2>1, <2>4, <2>5, HeldHandle
<1>5. ASSUME NEW r \in Requests, NEW id \in Ids("managerReject"),
             managerReject(solo, r, id)
      PROVE  Kept
  <2> DEFINE move == IF req[r].status = PENDING THEN "release" ELSE "none"
             upd == [req[r] EXCEPT !.status = REJECTED]
  <2>1. /\ Handle(solo, r, move, req[r].days, upd, "manager rejected", id) /\ OnlyTask
        /\ Receives(solo, "managerReject")
    BY <1>5 DEF managerReject, Decide
  <2>2. /\ upd \in RequestDoc /\ upd.status = REJECTED
        /\ req[r].days \in Nat /\ Weight(req[r]) \in Nat
    BY <1>w DEF LeaveStatus
  <2> HIDE DEF upd
  <2>3. Weight(upd) = 0  BY <2>2, WeightOf
  <2>4. req[r].status = PENDING => Weight(req[r]) = req[r].days  BY <1>t, WeightOf
  <2>5. IF move = "reserve" THEN req[r].days >= 0 /\ Weight(upd) = Weight(req[r]) + req[r].days
        ELSE IF move \in {"release", "consume"}
             THEN req[r].days >= 0 /\ Weight(upd) = Weight(req[r]) - req[r].days
             ELSE move \in {"none", "revert"} /\ Weight(upd) <= Weight(req[r])
    BY <2>2, <2>3, <2>4
  <2>6. Underway(task[solo]) = 0  BY <2>1, <1>u
  <2>v. id = "valid"  BY <1>v DEF GivingUp
  <2> HIDE DEF move
  <2> QED  BY <2>1, <2>5, <2>6, <2>v, HeldHandle
<1>6. ASSUME NEW batch \in Batches, NEW id \in Ids("bulkProcess"),
             bulkProcess(solo, batch, id)
      PROVE  Kept
  <2> DEFINE h == [Idle EXCEPT !.pc = "bulk", !.items = batch, !.id = id]
  <2>1. Continue(solo, h) /\ OnlyTask /\ Receives(solo, "bulkProcess")
    BY <1>6 DEF bulkProcess
  <2>2. h.pc = "bulk" /\ h.then = "idle" /\ h.id = "valid"
    BY <1>v DEF Idle, GivingUp
  <2> HIDE DEF h
  <2>3. Charges(h) /\ Underway(h) = 0  BY <2>2, UnderwayNone DEF Charges
  <2>4. Underway(task[solo]) = 0  BY <2>1, <1>u
  <2> QED  BY <2>1, <2>2, <2>3, <2>4, HeldFrame
<1>7. ASSUME NEW e \in Entitlements, NEW g \in Grants, createEntitlement(solo, e, g)
      PROVE Kept
  BY <1>7 DEF createEntitlement, HeldInv
<1>8. ASSUME NEW e \in Entitlements, NEW dto \in Settings, updateEntitlement(solo, e, dto)
      PROVE Kept
  <2> DEFINE h == [Idle EXCEPT !.pc = "saveEnt", !.move = "set", !.eid = e,
                               !.base = ent[e], !.doc = updated(ent[e], dto)]
  <2>1. /\ Continue(solo, h) /\ OnlyTask /\ Receives(solo, "updateEntitlement")
        /\ e \in Live /\ Valid(updated(ent[e], dto))
    BY <1>8 DEF updateEntitlement
  <2>2. /\ h.pc = "saveEnt" /\ h.then = "idle" /\ h.move = "set" /\ h.eid = e
        /\ h.base = ent[e] /\ h.doc = updated(ent[e], dto) /\ h.id = "valid"
    BY DEF Idle
  <2> HIDE DEF h
  <2>3. updated(ent[e], dto).pending = ent[e].pending
    BY DEF updated, recomputeRemaining, Fields, Undisturbed
  <2>4. Charges(h) /\ Underway(h) = 0  BY <2>1, <2>2, <2>3, UnderwayNone DEF Charges
  <2>5. Underway(task[solo]) = 0  BY <2>1, <1>u
  <2>6. entLife[h.eid] = "live"  BY <2>1, <2>2 DEF Live
  <2> QED  BY <2>1, <2>4, <2>5, <2>6, HeldFrame
<1>9. ASSUME removeEntitlement(solo)  PROVE Kept
  <2>1. /\ UNCHANGED <<ent, req, task>> /\ task[solo].pc = "idle"
        /\ \A e \in Entitlements : entLife'[e] # "unborn"
    BY <1>9 DEF removeEntitlement, Receives, HeldInv
  <2>2. /\ Held \in Int /\ Held' = Held + (Underway(task'[solo]) - Underway(task[solo]))
    BY <2>1, HeldKept
  <2>3. Underway(task'[solo]) = 0 /\ Underway(task[solo]) = 0  BY <2>1, UnderwayNone
  <2>4. Held' = Held  BY <2>2, <2>3
  <2> QED  BY <2>1, <2>4 DEF HeldInv, Booked, Charges
<1>10. ASSUME NEW a \in Adjustments, createAdjustment(solo, a)  PROVE Kept
  <2>1. UNCHANGED <<ent, entLife, req, task>> /\ task[solo].pc = "idle"
    BY <1>10 DEF createAdjustment, Receives
  <2>2. /\ Held \in Int /\ Held' = Held + (Underway(task'[solo]) - Underway(task[solo]))
    BY <2>1, HeldKept
  <2>3. Underway(task'[solo]) = 0 /\ Underway(task[solo]) = 0  BY <2>1, UnderwayNone
  <2>4. Held' = Held  BY <2>2, <2>3
  <2> QED  BY <2>1, <2>4 DEF HeldInv, Booked, Charges
<1>11. ASSUME NEW a \in Adjustments, NEW id \in Ids("approveAdjustment"),
              approveAdjustment(solo, a, id)
       PROVE  Kept
  <2> DEFINE n == IF a.type = "add" THEN a.amount ELSE -a.amount
             h == [Idle EXCEPT !.pc = "findEnt", !.then = "saveAdj", !.move = "adjust",
                               !.days = n, !.aid = a, !.id = id]
  <2>1. Continue(solo, h) /\ OnlyTask /\ Receives(solo, "approveAdjustment")
    BY <1>11 DEF approveAdjustment
  <2>2. h.pc = "findEnt" /\ h.then = "saveAdj" /\ h.move = "adjust" /\ h.items = <<>>
    BY DEF Idle
  <2> HIDE DEF h
  <2>3. Charges(h) /\ Underway(h) = 0  BY <2>2, UnderwayNone DEF Charges
  <2>4. Underway(task[solo]) = 0  BY <2>1, <1>u
  <2> QED  BY <2>1, <2>2, <2>3, <2>4, HeldFrame
<1> QED  BY <1>1, <1>2, <1>3, <1>4, <1>5, <1>6, <1>7, <1>8, <1>9, <1>10, <1>11 DEF Call

LEMMA HeldStep ==
    ASSUME NEW solo, Tasks = {solo}, NEW one, Entitlements = {one},
           TypeInv, TypeInv', SerialInv, SerialInv', HeldInv, Step(solo)
    PROVE  HeldInv' /\ Booked(one)
<1> DEFINE Kept == HeldInv' /\ Booked(one)
           f == task[solo]
<1>t. /\ solo \in Tasks /\ f \in Frame /\ WellFormed(f) /\ Current(f) /\ Charges(f)
      /\ f.pc = "saveEnt" => entLife[f.eid] = "live"
      /\ one \in Entitlements /\ ent[one] \in Balance /\ Held <= ent[one].pending
      /\ Valid(ent[one]) /\ ent[one].remaining = RemainingOf(ent[one])
      /\ \A r \in Requests : req[r] \in RequestDoc
  BY DEF TypeInv, TypeOK, SerialInv, HeldInv
<1>i. ASSUME f.pc \in {"bulk", "hr"}  PROVE Head(f.items).id \in Requests
  <2>1. f.items \in Seq(Item) /\ f.items # <<>>
    BY <1>t, <1>i DEF Frame, WellFormed
  <2>2. Head(f.items) \in Item  BY <2>1, HeadTailProperties
  <2> QED  BY <2>2 DEF Item
<1>v. f.pc \in {"bulk", "hr"} => f.id = "valid"  BY <1>t DEF Charges, WellFormed
<1>w. ASSUME NEW r \in Requests, NEW s \in LeaveStatus, NEW upd,
             upd = [req[r] EXCEPT !.status = s]
      PROVE  upd \in RequestDoc /\ upd.status = s /\ req[r].days \in Nat
  BY <1>t, <1>w DEF RequestDoc
<1>1. ASSUME bulkItem(solo)  PROVE Kept
  <2> DEFINE h == [f EXCEPT !.pc = "hr"]
  <2>1. (Continue(solo, h) \/ Return(solo)) /\ OnlyTask /\ f.pc = "bulk"
    BY <1>1 DEF bulkItem
  <2>2. /\ h.pc = "hr" /\ h.then = f.then /\ h.move = f.move /\ h.days = f.days
        /\ h.upd = f.upd /\ h.seen = f.seen /\ h.id = f.id /\ h.items = f.items
    BY <1>t DEF Frame
  <2> HIDE DEF h
  <2>3. Charges(h) /\ Underway(h) = 0  BY <1>t, <2>2, UnderwayNone DEF Charges
  <2>4. Underway(f) = 0  BY <2>1, UnderwayNone
  <2> HIDE DEF f
  <2>5. Underway(h) = Underway(task[solo])  BY <2>3, <2>4 DEF f
  <2>6. Underway(task[solo]) = 0  BY <2>4 DEF f
  <2> QED  BY <2>1, <2>2, <2>3, <2>5, <2>6, HeldFrame, HeldRefuse
<1>2. ASSUME hrApprove(solo)  PROVE Kept
  <2> DEFINE r == Head(f.items).id
             upd == [req[r] EXCEPT !.status = APPROVED]
  <2>1. r \in Requests  BY <1>2, <1>i DEF hrApprove
  <2>2. /\ Handle(solo, r, "consume", req[r].days, upd, "hr approved", task[solo].id) /\ OnlyTask
        /\ req[r].status = MANAGER_APPROVED /\ f.pc = "hr"
    BY <1>2 DEF hrApprove, Decide
  <2>3. upd \in RequestDoc /\ upd.status = APPROVED /\ req[r].days \in Nat
    BY <2>1, <1>w DEF LeaveStatus
  <2> HIDE DEF r, upd
  <2>4. Weight(upd) = 0 /\ Weight(req[r]) = req[r].days
    BY <1>t, <2>1, <2>2, <2>3, WeightOf
  <2>5. req[r].days >= 0 /\ Weight(upd) = Weight(req[r]) - req[r].days
    BY <2>3, <2>4
  <2>6. Underway(task[solo]) = 0 /\ task[solo].id = "valid"  BY <1>v, <2>2, UnderwayNone
  <2> QED  BY <2>1, <2>2, <2>5, <2>6, HeldHandle
<1>3. ASSUME hrReject(solo)  PROVE Kept
  <2> DEFINE r == Head(f.items).id
             upd == [req[r] EXCEPT !.status = REJECTED]
  <2>1. r \in Requests  BY <1>3, <1>i DEF hrReject
  <2>2. /\ Handle(solo, r, "release", req[r].days, upd, "hr rejected", task[solo].id) /\ OnlyTask
        /\ req[r].status = MANAGER_APPROVED /\ f.pc = "hr"
    BY <1>3 DEF hrReject, Decide
  <2>3. upd \in RequestDoc /\ upd.status = REJECTED /\ req[r].days \in Nat
    BY <2>1, <1>w DEF LeaveStatus
  <2> HIDE DEF r, upd
  <2>4. Weight(upd) = 0 /\ Weight(req[r]) = req[r].days
    BY <1>t, <2>1, <2>2, <2>3, WeightOf
  <2>5. req[r].days >= 0 /\ Weight(upd) = Weight(req[r]) - req[r].days
    BY <2>3, <2>4
  <2>6. Underway(task[solo]) = 0 /\ task[solo].id = "valid"  BY <1>v, <2>2, UnderwayNone
  <2> QED  BY <2>1, <2>2, <2>5, <2>6, HeldHandle
<1>4. ASSUME hrRefuse(solo)  PROVE Kept
  <2>1. OnlyTask /\ Return(solo) /\ task[solo].pc = "hr"  BY <1>4 DEF hrRefuse
  <2> QED  BY <2>1, UnderwayNone, HeldRefuse
<1>5. ASSUME findEntitlement(solo)  PROVE Kept
  <2> DEFINE doc == Moved(ent[one], f.move, f.days)
             h == [f EXCEPT !.pc = "saveEnt", !.eid = one, !.base = ent[one], !.doc = doc]
  <2>1. /\ Continue(solo, h) /\ OnlyTask /\ entLife[one] = "live" /\ Valid(doc)
        /\ f.pc = "findEnt"
    BY <1>5 DEF findEntitlement, Live, Allows
  <2> HIDE DEF doc
  <2>2. /\ h.pc = "saveEnt" /\ h.then = f.then /\ h.move = f.move /\ h.days = f.days
        /\ h.upd = f.upd /\ h.seen = f.seen /\ h.eid = one /\ h.base = ent[one]
        /\ h.doc = doc /\ h.id = f.id /\ h.items = f.items
    BY <1>t DEF Frame
  <2>3. h.doc = Moved(h.base, h.move, h.days)  BY <2>2 DEF doc
  <2> HIDE DEF h
  <2>4. Charges(h)  BY <1>t, <2>1, <2>2, <2>3 DEF Charges
  <2>5. Underway(h) = 0 /\ Underway(f) = 0  BY <2>1, <2>2, UnderwayNone
  <2>6. Underway(h) = Underway(task[solo])  BY <2>5
  <2> QED  BY <2>1, <2>2, <2>4, <2>6, HeldFrame
<1>6. ASSUME refuseMove(solo)  PROVE Kept
  <2>1. OnlyTask /\ Return(solo) /\ task[solo].pc = "findEnt"  BY <1>6 DEF refuseMove
  <2> QED  BY <2>1, UnderwayNone, HeldRefuse
<1>7. ASSUME saveEntitlement(solo)  PROVE Kept
  <2>1. /\ f.pc = "saveEnt" /\ f.eid = one /\ f.base = ent[one]
        /\ f.doc \in Balance /\ f.days \in Int
        /\ UNCHANGED <<entLife, req>>
    BY <1>7, <1>t DEF saveEntitlement, WellFormed, Current, Frame
  <2>2. Saved(ent[one], f.base, f.doc) = f.doc  BY <1>t, <2>1, SavedCurrent
  <2>3. ent'[one] = f.doc
    BY <1>7, <1>t, <2>1, <2>2 DEF saveEntitlement, TypeInv, TypeOK
  <2>4. Valid(f.doc) /\ f.doc.remaining = RemainingOf(f.doc)
    BY <1>t, <2>1 DEF Charges, Current
  <2>5. /\ Held \in Int /\ Held' = Held + (Underway(task'[solo]) - Underway(task[solo]))
        /\ Underway(task[solo]) = 0
    BY <2>1, HeldKept, UnderwayNone
  <2>6. f.doc.pending \in Int /\ ent[one].pending \in Int /\ ent[one].taken \in Int
    BY <1>t, <2>1 DEF Balance, Fields
  <2>7. CASE f.then = "idle"
    <3>1. Return(solo)  BY <1>7, <2>7 DEF saveEntitlement
    <3>2. Underway(task'[solo]) = 0  BY <3>1, ReturnUnderway
    <3>3. f.doc.pending = ent[one].pending  BY <1>t, <2>1, <2>7 DEF Charges
    <3>4. Held' = Held /\ Held' <= ent'[one].pending  BY <1>t, <2>3, <2>5, <3>2, <3>3
    <3> QED  BY <2>1, <2>3, <2>4, <3>1, <3>4, HeldReturn DEF Booked
  <2>9. CASE f.then # "idle" /\ f.id = "malformed"
    <3>1. Return(solo)  BY <1>7, <2>9 DEF saveEntitlement
    <3>2. Underway(task'[solo]) = 0  BY <3>1, ReturnUnderway
    <3>3. f.move \in {"reserve", "adjust"} /\ f.doc = Moved(ent[one], f.move, f.days)
      BY <1>t, <2>1, <2>9 DEF Charges
    <3>4. f.move = "reserve" => f.days >= 0
      BY <1>t, <2>1, <2>9, <3>3 DEF Charges, WellFormed, Frame
    <3>5. f.doc.pending >= ent[one].pending
      BY <1>t, <2>1, <2>6, <3>3, <3>4, MovedDays
    <3>6. Held' = Held /\ Held' <= ent'[one].pending
      BY <1>t, <2>3, <2>5, <2>6, <3>2, <3>5
    <3> QED  BY <2>1, <2>3, <2>4, <3>1, <3>6, HeldReturn DEF Booked
  <2>8. CASE f.then # "idle" /\ f.id # "malformed"
    <3> DEFINE h == [f EXCEPT !.pc = f.then]
               m == f.move
    <3>1. task'[solo] = h
      BY <1>7, <2>8 DEF saveEntitlement, Continue, TypeInv, TypeOK
    <3>2. /\ h.pc = f.then /\ h.then = f.then /\ h.move = m /\ h.days = f.days
          /\ h.upd = f.upd /\ h.seen = f.seen /\ h.id = f.id /\ h.items = f.items
          /\ f.then \in {"insertReq", "saveReq", "saveAdj"}
      BY <1>t, <2>8 DEF Frame
    <3> HIDE DEF h
    <3>3. Charges(h)  BY <1>t, <3>2 DEF Charges
    <3>4. f.doc = Moved(ent[one], m, f.days)  BY <1>t, <2>1, <2>8 DEF Charges
    <3>5. Underway(h) = CASE m = "reserve" -> f.days
                          [] m \in {"release", "consume"} -> -f.days
                          [] OTHER -> 0
      BY <1>t, <3>2 DEF Charges, Underway
    <3>6. Held' = Held + Underway(h)  BY <2>5, <3>1, <3>5, <2>1
    <3>7. f.doc.pending = ent[one].pending + Underway(h)
      BY <2>1, <2>6, <1>t, <3>4, <3>5, MovedDays
    <3>8. Held' <= ent'[one].pending
      BY <1>t, <2>1, <2>3, <2>5, <2>6, <3>5, <3>6, <3>7
    <3>9. Booked(one)
      <4>1. CASE m \in {"reserve", "release"}
        BY <4>1, <1>t, <2>1, <2>3, <3>4, MovedDays DEF Booked
      <4>2. CASE m = "consume"
        <5>1. f.then = "saveReq" /\ f.days >= 0
          BY <4>2, <1>t, <3>2 DEF Charges
        <5>2. /\ ent'[one].yearly = ent[one].yearly /\ ent'[one].carry = ent[one].carry
              /\ ent'[one].taken = ent[one].taken + f.days
          BY <4>2, <1>t, <2>1, <2>3, <3>4, MovedDays
        <5>3. Held' = Held - f.days  BY <4>2, <2>1, <2>5, <3>5, <3>6
        <5>4. Held - Held' = f.days /\ Held' <= Held  BY <2>1, <2>5, <5>1, <5>3
        <5> QED  BY <5>2, <5>4 DEF Booked
      <4>3. CASE m \notin {"reserve", "release", "consume"}
        <5>1. Held' = Held  BY <4>3, <2>5, <3>5, <3>6
        <5> QED  BY <5>1 DEF Booked
      <4> QED  BY <4>1, <4>2, <4>3
    <3>10. HeldInv'
      <4>1. Charges(task[solo])'  BY <3>1, <3>3 DEF Charges
      <4> QED  BY <2>1, <2>3, <2>4, <3>1, <3>2, <3>8, <4>1 DEF HeldInv
    <3> QED  BY <3>9, <3>10
  <2> QED  BY <2>7, <2>8, <2>9
<1>8. ASSUME loseEntitlement(solo)  PROVE Kept
  BY <1>8, <1>t DEF loseEntitlement
<1>9. ASSUME NEW r \in Requests, insertRequest(solo, r)  PROVE Kept
  <2>1. /\ f.pc = "insertReq" /\ f.then = "insertReq" /\ f.days \in Nat
        /\ req[r].status = "absent" /\ UNCHANGED <<ent, entLife>> /\ Return(solo)
        /\ req' = [req EXCEPT ![r] = [status |-> PENDING, days |-> f.days]]
    BY <1>9, <1>t DEF insertRequest, WellFormed, Born
  <2>2. /\ req'[r].status = PENDING /\ req'[r].days = f.days /\ req'[r] \in RequestDoc
        /\ \A s \in Requests : s # r => req'[s] = req[s]
    BY <2>1 DEF TypeInv, TypeOK
  <2>3. Weight(req'[r]) = f.days /\ Weight(req[r]) = 0
    BY <1>t, <2>1, <2>2, WeightOf
  <2>4. Underway(task'[solo]) = 0  BY <2>1, ReturnUnderway
  <2>5. Underway(task[solo]) = f.days  BY <2>1 DEF Underway
  <2>6. /\ Held \in Int
        /\ Held' = Held + (Weight(req'[r]) - Weight(req[r]))
                        + (Underway(task'[solo]) - Underway(task[solo]))
    BY <2>2, HeldChange
  <2>7. Held' = Held  BY <2>1, <2>3, <2>4, <2>5, <2>6
  <2>8. HeldInv'  BY <1>t, <2>1, <2>7, HeldReturn
  <2> QED  BY <2>7, <2>8 DEF Booked
<1>10. ASSUME saveRequest(solo)  PROVE Kept
  <2> DEFINE r == f.rid
  <2>1. /\ f.pc = "saveReq" /\ f.then = "saveReq" /\ r \in Requests
        /\ f.seen = req[r] /\ f.upd \in RequestDoc /\ f.days \in Int
        /\ UNCHANGED <<ent, entLife>> /\ Return(solo)
        /\ req' = [req EXCEPT ![r] = Saved(req[r], f.seen, f.upd)]
    BY <1>10, <1>t DEF saveRequest, WellFormed, Current, Frame
  <2>2. /\ req'[r] = Saved(req[r], f.seen, f.upd)
        /\ \A s \in Requests : s # r => req'[s] = req[s]
    BY <2>1 DEF TypeInv, TypeOK
  <2>3. req'[r].status = f.upd.status /\ req'[r].days = f.upd.days
    <3>1. /\ Saved(req[r], f.seen, f.upd).status =
               IF f.upd.status # f.seen.status THEN f.upd.status ELSE req[r].status
          /\ Saved(req[r], f.seen, f.upd).days =
               IF f.upd.days # f.seen.days THEN f.upd.days ELSE req[r].days
      BY <1>t, <2>1, SavedRequestType
    <3> QED  BY <2>1, <2>2, <3>1
  <2>4. Weight(req'[r]) = Weight(f.upd) /\ Weight(req[r]) = Weight(f.seen)
    BY <2>1, <2>3 DEF Weight
  <2>5. Weight(f.upd) \in Int /\ Weight(f.seen) \in Int
    BY <1>t, <2>1, WeightType
  <2>6. Underway(task'[solo]) = 0  BY <2>1, ReturnUnderway
  <2>7. /\ Underway(f) \in Int /\ Weight(f.upd) - Weight(f.seen) - Underway(f) <= 0
    BY <1>t, <2>1, <2>5 DEF Charges, Underway
  <2>8. /\ Held \in Int
        /\ Held' = Held + (Weight(req'[r]) - Weight(req[r]))
                        + (Underway(task'[solo]) - Underway(task[solo]))
    BY <2>1, <2>2, HeldChange
  <2>9. Held' \in Int /\ Held' <= Held  BY <2>4, <2>5, <2>6, <2>7, <2>8
  <2>10. ent[one].pending \in Int  BY <1>t DEF Balance, Fields
  <2>11. Held' <= ent'[one].pending  BY <1>t, <2>1, <2>8, <2>9, <2>10
  <2>12. HeldInv'  BY <1>t, <2>1, <2>11, HeldReturn
  <2> QED  BY <2>1, <2>12 DEF Booked
<1>11. ASSUME insertEntitlement(solo)  PROVE Kept
  BY <1>11, <1>t DEF insertEntitlement, Charges
<1>12. ASSUME saveAdjustment(solo)  PROVE Kept
  <2>1. UNCHANGED <<ent, entLife, req>> /\ Return(solo) /\ task[solo].pc = "saveAdj"
    BY <1>12 DEF saveAdjustment
  <2>2. /\ Held \in Int /\ Held' = Held + (Underway(task'[solo]) - Underway(task[solo]))
    BY <2>1, HeldKept
  <2>3. Underway(task'[solo]) = 0 /\ Underway(task[solo]) = 0
    BY <2>1, ReturnUnderway, UnderwayNone
  <2>4. Held' = Held  BY <2>2, <2>3
  <2>5. HeldInv'  BY <1>t, <2>1, <2>4, HeldReturn
  <2> QED  BY <2>4, <2>5 DEF Booked
<1> QED  BY <1>1, <1>2, <1>3, <1>4, <1>5, <1>6, <1>7, <1>8, <1>9, <1>10, <1>11, <1>12
         DEF Step

LEMMA HeldInit ==
    ASSUME NEW solo, Tasks = {solo}, NEW one, Entitlements = {one}, Existing = {one}
    PROVE  Init => HeldInv /\ Held = 0
<1> SUFFICES ASSUME Init  PROVE HeldInv /\ Held = 0
  OBVIOUS
<1>t. TypeInv  BY InitType
<1>1. task = [t \in Tasks |-> Idle] /\ Idle.pc = "idle" /\ Idle.then = "idle" /\ Idle.id = "valid"
  BY DEF Init, Idle
<1>2. Held = 0
  <2> DEFINE w == Weights(req)
  <2>1. \A r \in Requests : w[r] = 0
    BY DEF Init, Absent, Weights, Weight, Open, PENDING, MANAGER_APPROVED
  <2> HIDE DEF w
  <2>2. SumFunctionOnSet(w, Requests) = 0  BY <2>1, SumZero, RequestsAssumption
  <2>3. Underway(task[solo]) = 0  BY <1>1, UnderwayNone
  <2>4. req \in [Requests -> RequestDoc] /\ task \in [Tasks -> Frame]
    BY <1>t DEF TypeInv, TypeOK
  <2>5. SumFunctionOnSet(Burdens(task), Tasks) = 0  BY <2>3, <2>4, HeldSum
  <2>6. SumFunctionOnSet(Weights(req), Requests) = 0  BY <2>2 DEF w
  <2> QED  BY <2>5, <2>6 DEF Held
<1>3. \A t \in Tasks : Charges(task[t]) /\ task[t].pc # "saveEnt"
  BY <1>1 DEF Charges
<1>4. \A e \in Entitlements :
         /\ entLife[e] # "unborn" /\ Valid(ent[e])
         /\ ent[e].remaining = RemainingOf(ent[e]) /\ ent[e].pending = 0
  <2> SUFFICES ASSUME NEW e \in Entitlements
               PROVE  /\ entLife[e] # "unborn" /\ Valid(ent[e])
                      /\ ent[e].remaining = RemainingOf(ent[e]) /\ ent[e].pending = 0
    OBVIOUS
  <2>1. entLife[e] = "live"  BY DEF Init
  <2>2. PICK g \in Grants : ent[e] = Granted(g[1], g[2])  BY DEF Init
  <2>3. ent[e].pending = 0  BY <2>2 DEF Granted, Fields
  <2> QED  BY <2>1, <2>2, <2>3, GrantedType
<1> QED  BY <1>2, <1>3, <1>4 DEF HeldInv

LEMMA HeldNext ==
    ASSUME NEW solo, Tasks = {solo}, NEW one, Entitlements = {one}, Undisturbed
    PROVE  TypeInv /\ TypeInv' /\ SerialInv /\ SerialInv' /\ HeldInv /\ [Next]_vars
             => HeldInv' /\ Booked(one)
<1> SUFFICES ASSUME TypeInv, TypeInv', SerialInv, SerialInv', HeldInv, [Next]_vars
             PROVE  HeldInv' /\ Booked(one)
  OBVIOUS
<1>1. CASE UNCHANGED vars
  <2>1. UNCHANGED <<ent, entLife, req, task>>  BY <1>1 DEF vars
  <2>2. Held \in Int /\ Held' = Held + (Underway(task[solo]) - Underway(task[solo]))
    BY <2>1, HeldKept
  <2>3. Underway(task[solo]) \in Int  BY UnderwayType DEF TypeInv, TypeOK
  <2>4. Held' = Held  BY <2>2, <2>3
  <2> QED  BY <2>1, <2>4 DEF HeldInv, Booked, Charges
<1>2. ~restart  BY DEF restart, Undisturbed
<1> QED  BY <1>1, <1>2, HeldCall, HeldStep DEF Next

\* A step of the balance is a step of the ledger.
LEMMA LedgerStep ==
    ASSUME NEW one, Entitlements = {one}, TypeInv, TypeInv', HeldInv, HeldInv',
           Held \in Nat, Held' \in Nat, Booked(one)
    PROVE  [Ledger!Next]_(Ledger!vars)
<1>0. Only = one  BY DEF Only
<1> DEFINE b == ent[one]
           c == ent'[one]
<1>1. /\ b.yearly \in Nat /\ b.carry \in Nat /\ b.taken \in Nat
      /\ b.pending \in Nat /\ b.remaining \in Nat /\ b.remaining = RemainingOf(b)
      /\ Held <= b.pending
  BY DEF HeldInv, TypeInv, TypeOK, Balance, Valid, Fields
<1>2. /\ c.yearly \in Nat /\ c.carry \in Nat /\ c.taken \in Nat
      /\ c.pending \in Nat /\ c.remaining \in Nat /\ c.remaining = RemainingOf(c)
      /\ Held' <= c.pending
  BY DEF HeldInv, TypeInv, TypeOK, Balance, Valid, Fields
<1>3. Held' + c.taken <= c.yearly + c.carry
  BY <1>2 DEF RemainingOf
<1>4. CASE c.yearly = b.yearly /\ c.carry = b.carry /\ c.taken = b.taken
  <2>1. CASE Held' > Held
    BY <1>0, <1>1, <1>2, <1>3, <1>4, <2>1 DEF Ledger!Next, Ledger!Hold, Ledger!Solvent
  <2>2. CASE Held' < Held
    BY <1>0, <1>1, <1>2, <1>4, <2>2 DEF Ledger!Next, Ledger!Free
  <2>3. CASE Held' = Held
    BY <1>0, <1>4, <2>3 DEF Ledger!vars
  <2> QED  BY <2>1, <2>2, <2>3
<1>5. CASE Held' = Held
  BY <1>0, <1>1, <1>2, <1>3, <1>5 DEF Ledger!Next, Ledger!Correct, Ledger!Solvent
<1>6. CASE /\ c.yearly = b.yearly /\ c.carry = b.carry
           /\ c.taken = b.taken + (Held - Held') /\ Held' <= Held
  <2>1. CASE Held' = Held  BY <2>1, <1>5
  <2>2. CASE Held' # Held
    <3>1. Held' \in 0 .. Held - 1  BY <1>6, <2>2
    <3> QED  BY <1>0, <1>6, <3>1 DEF Ledger!Next, Ledger!Use
  <2> QED  BY <2>1, <2>2
<1> QED  BY <1>4, <1>5, <1>6 DEF Booked

LEMMA LedgerInit ==
    ASSUME NEW one, Entitlements = {one}
    PROVE  TypeInv /\ HeldInv /\ Held = 0 /\ Init => Ledger!Init
<1> SUFFICES ASSUME TypeInv, HeldInv, Held = 0, Init  PROVE Ledger!Init
  OBVIOUS
<1>0. Only = one  BY DEF Only
<1>1. PICK g \in Grants : ent[one] = Granted(g[1], g[2])  BY DEF Init
<1>2. ent[one].taken = 0  BY <1>1 DEF Granted, Fields
<1>3. ent[one].yearly \in Nat /\ ent[one].carry \in Nat
  BY DEF HeldInv, TypeInv, TypeOK, Balance, Valid, Fields
<1> QED  BY <1>0, <1>2, <1>3 DEF Ledger!Init

\* Handlers that do not overlap and are not cut short, by a restart or by a
\* malformed id after giving up days held, keep enough days pending to decide
\* every open request, as long as HR does not set pending by hand and the
\* employee has one entitlement: no approval or rejection of an open request
\* fails for an inconsistent balance (reservePending, consumePendingToTaken,
\* releasePending).
THEOREM SerialPendingCovers ==
    ASSUME NEW solo, Tasks = {solo}, NEW one, Entitlements = {one}, Existing = {one},
           Undisturbed
    PROVE  Spec => []PendingCoversOpen
<1>1. HeldInv => PendingCoversOpen  BY DEF HeldInv, PendingCoversOpen, Only
<1> QED  BY InitType, NextType, SerialInit, SerialNext, HeldInit, HeldNext, <1>1, PTL DEF Spec

\* Under the same conditions the leave service implements the ledger: days are
\* held, given up and used one step at a time, days become taken only out of
\* days held or by HR's correction, and days held and taken never exceed the
\* entitlement (leaveRequest, adjustBalance, leaveEntitlement.update).
THEOREM SerialNeverOverdrawn ==
    ASSUME NEW solo, Tasks = {solo}, NEW one, Entitlements = {one}, Existing = {one},
           Undisturbed
    PROVE  Spec => NeverOverdrawn
<1>1. TypeInv /\ SerialInv /\ HeldInv => Held \in Nat  BY HeldNatural
<1>2. TypeInv /\ TypeInv' /\ HeldInv /\ HeldInv' /\ Held \in Nat /\ (Held \in Nat)' /\ Booked(one)
        => [Ledger!Next]_(Ledger!vars)
  BY LedgerStep
<1>3. TypeInv /\ HeldInv /\ Held = 0 /\ Init => Ledger!Init  BY LedgerInit
<1> QED  BY InitType, NextType, SerialInit, SerialNext, HeldInit, HeldNext, <1>1, <1>2, <1>3, PTL
         DEF Spec, NeverOverdrawn, Ledger!Spec
=============================================================================
