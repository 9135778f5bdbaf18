---------------------------- MODULE ShiftsProofs -----------------------------
(***************************************************************************)
(* Theorems about Shifts: what the conflict query finds, and what the      *)
(* calls keep, for every set of documents, periods and horizons.           *)
(***************************************************************************)
EXTENDS Shifts, FiniteSetTheorems, TLAPS

-----------------------------------------------------------------------------
(* The conflict query against the overlap of two periods.                   *)

\* Every assignment the query returns does overlap the period asked for.
LEMMA MeetsOverlaps ==
    ASSUME NEW a \in Period, NEW w \in Period,
           Valid(a), Valid(w), Meets(a, w)
    PROVE  Overlap(a, w) /\ Overlap(w, a)
BY ShiftsAssumption DEF Period, Valid, Meets, MeetsBounded, MeetsIndefinite, Overlap

\* The query misses none, but assignments without an end when the new one has
\* an end.
LEMMA OverlapMeets ==
    ASSUME NEW a \in Period, NEW w \in Period,
           Valid(a), Valid(w), Overlap(w, a),
           a.to # Indefinite \/ w.to = Indefinite
    PROVE  Meets(a, w)
BY ShiftsAssumption DEF Period, Valid, Meets, MeetsBounded, MeetsIndefinite, Overlap

-----------------------------------------------------------------------------
(* Types.                                                                   *)

ItemStages == {"template", "conflicts", "insert"}

\* What a call remembers fits what it is about to do.
Sane(h) ==
    /\ h.pc \in ItemStages \cup {"bulk"} =>
          h.ref \in Templates /\ h.item \in 1 .. Len(h.targets)
    /\ h.pc \in ItemStages => Valid(h.window)
    /\ h.pc = "setStatus" => h.ref \in Assignments
    /\ h.pc = "delete" => h.ref \in Templates
    /\ h.pc \in {"noticeTemplate", "noticeAssignment"} => h.ref \in Subjects

DocsOK ==
    /\ now \in Int
    /\ template \in [Templates -> TemplateDoc]
    /\ assignment \in [Assignments -> AssignmentDoc]
    /\ notices \in [Subjects -> Nat]

TypeInv == TypeOK /\ \A t \in Tasks : Sane(task[t])

LEMMA IdleType == Idle \in CallState /\ Sane(Idle)
BY ShiftsAssumption DEF Idle, CallState, PcValues, Period, Always, Sane, ItemStages, Subjects

\* The next item of a list is in the list, and nothing else changes.
LEMMA NextItemType ==
    ASSUME NEW h \in CallState, Sane(h), h.pc \in ItemStages
    PROVE  LET n == NextItem(h)
           IN  /\ n \in CallState /\ Sane(n)
               /\ n.pc \in {"template", "answer"}
               /\ n.ref = h.ref /\ n.targets = h.targets /\ n.window = h.window
               /\ n.item = h.item + 1
<1> DEFINE m == [h EXCEPT !.pc = "template", !.item = h.item + 1]
           e == [h EXCEPT !.pc = "answer", !.item = h.item + 1]
<1>1. h.item \in 1 .. Len(h.targets) /\ Len(h.targets) \in Nat /\ h.item + 1 \in Nat
  BY DEF Sane, CallState
<1>2. m \in CallState /\ e \in CallState
  BY <1>1 DEF CallState, PcValues
<1>3. /\ m.pc = "template" /\ m.ref = h.ref /\ m.targets = h.targets
      /\ m.window = h.window /\ m.item = h.item + 1
      /\ e.pc = "answer" /\ e.ref = h.ref /\ e.targets = h.targets
      /\ e.window = h.window /\ e.item = h.item + 1
  BY DEF CallState
<1> HIDE DEF m, e
<1>4. CASE h.item < Len(h.targets)
  <2>1. NextItem(h) = m  BY <1>4 DEF NextItem, m
  <2>2. Sane(m)  BY <1>1, <1>3, <1>4 DEF Sane, ItemStages
  <2> QED  BY <1>2, <1>3, <2>1, <2>2
<1>5. CASE ~(h.item < Len(h.targets))
  <2>1. NextItem(h) = e  BY <1>5 DEF NextItem, e
  <2>2. Sane(e)  BY <1>3 DEF Sane, ItemStages
  <2> QED  BY <1>2, <1>3, <2>1, <2>2
<1> QED  BY <1>4, <1>5

\* A call that goes on with a sane state, over documents of their types.
LEMMA Advances ==
    ASSUME TypeInv, NEW t \in Tasks, NEW h \in CallState, Sane(h),
           Continue(t, h), DocsOK'
    PROVE  TypeInv'
<1>1. task \in [Tasks -> CallState]  BY DEF TypeInv, TypeOK
<1>2. task' \in [Tasks -> CallState]  BY <1>1 DEF Continue
<1>3. \A u \in Tasks : task'[u] = IF u = t THEN h ELSE task[u]
  BY <1>1 DEF Continue
<1>4. \A u \in Tasks : Sane(task'[u])  BY <1>3 DEF TypeInv
<1> QED  BY <1>2, <1>4 DEF TypeInv, TypeOK, DocsOK

LEMMA StoredOK == TypeInv /\ UNCHANGED <<now, Stored>> => DocsOK'
BY DEF TypeInv, TypeOK, DocsOK, Stored

LEMMA InitTyped == Init => TypeInv
<1> SUFFICES ASSUME Init PROVE TypeInv  OBVIOUS
<1>1. NoTemplate \in TemplateDoc  BY DEF NoTemplate, TemplateDoc
<1>2. NoAssignment \in AssignmentDoc
  BY DEF NoAssignment, AssignmentDoc
<1>3. TypeOK  BY <1>1, <1>2, IdleType DEF Init, TypeOK
<1> QED  BY <1>3, IdleType DEF Init, TypeInv

\* Every action of Next keeps the types.
LEMMA StepTyped == TypeInv /\ [Next]_vars => TypeInv'
<1> SUFFICES ASSUME TypeInv, [Next]_vars PROVE TypeInv'  OBVIOUS
<1> USE DEF ItemStages
<1>0. /\ \A t \in Tasks : task[t] \in CallState /\ Sane(task[t])
      /\ DocsOK
  BY DEF TypeInv, TypeOK, DocsOK
<1>1. ASSUME NEW t \in Tasks, Call(t) PROVE TypeInv'
  <2>1. ASSUME NEW p \in Templates, NEW e \in Targets, NEW w \in Windows, assign(t, p, e, w)
        PROVE  TypeInv'
    <3> DEFINE h == [Idle EXCEPT !.pc = "template", !.ref = p, !.targets = <<e>>, !.window = w]
    <3>1. w \in Period /\ Valid(w)  BY <2>1, ShiftsAssumption DEF assign, Period
    <3>2. <<e>> \in Seq(Targets)  OBVIOUS
    <3>3. h \in CallState
      <4>1. \A l \in Seq(Targets) :
               [Idle EXCEPT !.pc = "template", !.ref = p, !.targets = l, !.window = w]
                  \in CallState
        BY <3>1, IdleType DEF CallState, PcValues, Subjects
      <4> QED  BY <3>2, <4>1, Zenon
    <3>4. h.pc = "template" /\ h.ref = p /\ h.targets = <<e>> /\ h.window = w /\ h.item = 1
      BY DEF Idle
    <3>5. Sane(h)
      <4> HIDE DEF h
      <4> QED  BY <3>1, <3>4 DEF Sane
    <3>6. Continue(t, h) /\ UNCHANGED <<now, Stored>>  BY <2>1 DEF assign
    <3> HIDE DEF h
    <3> QED  BY <3>3, <3>5, <3>6, Advances, StoredOK
  <2>2. ASSUME NEW p \in Templates, NEW l \in Lists, NEW w \in Windows, bulkAssign(t, p, l, w)
        PROVE  TypeInv'
    <3> DEFINE h == [Idle EXCEPT !.pc = "bulk", !.ref = p, !.targets = l, !.window = w]
    <3>1. w \in Period /\ l \in Seq(Targets) /\ l # <<>>  BY ShiftsAssumption DEF Period
    <3>2. h \in CallState  BY <3>1, IdleType DEF CallState, PcValues, Subjects
    <3>3. h.pc = "bulk" /\ h.ref = p /\ h.targets = l /\ h.item = 1  BY DEF Idle
    <3>4. Len(l) \in Nat /\ Len(l) # 0  BY <3>1
    <3>5. Sane(h)
      <4> HIDE DEF h
      <4> QED  BY <3>3, <3>4 DEF Sane
    <3>6. Continue(t, h) /\ UNCHANGED <<now, Stored>>  BY <2>2 DEF bulkAssign
    <3> HIDE DEF h
    <3> QED  BY <3>2, <3>5, <3>6, Advances, StoredOK
  <2>3. ASSUME NEW a \in Assignments, NEW s \in AssignmentStatuses, updateStatus(t, a, s)
        PROVE  TypeInv'
    <3> DEFINE h == [Idle EXCEPT !.pc = "setStatus", !.ref = a, !.status = s]
    <3>1. h \in CallState  BY IdleType DEF CallState, PcValues, Subjects
    <3>2. h.pc = "setStatus" /\ h.ref = a  BY DEF Idle
    <3>3. Sane(h)
      <4> HIDE DEF h
      <4> QED  BY <3>2 DEF Sane
    <3>4. Continue(t, h) /\ UNCHANGED <<now, Stored>>  BY <2>3 DEF updateStatus
    <3> HIDE DEF h
    <3> QED  BY <3>1, <3>3, <3>4, Advances, StoredOK
  <2>4. ASSUME NEW p \in Templates, NEW s \in TemplateStatuses, NEW x \in Expiries,
               createTemplate(t, p, s, x) \/ updateTemplate(t, p, s, x)
        PROVE  TypeInv'
    <3>1. [status |-> s, expires |-> x] \in TemplateDoc  BY ShiftsAssumption DEF TemplateDoc
    <3>2. template' \in [Templates -> TemplateDoc]
      BY <1>0, <2>4, <3>1 DEF DocsOK, createTemplate, updateTemplate
    <3> QED  BY <2>4, <3>2 DEF TypeInv, TypeOK, createTemplate, updateTemplate
  <2>5. ASSUME NEW p \in Templates, deleteTemplate(t, p) PROVE TypeInv'
    <3> DEFINE h == [Idle EXCEPT !.pc = "delete", !.ref = p]
    <3>1. h \in CallState  BY IdleType DEF CallState, PcValues, Subjects
    <3>2. h.pc = "delete" /\ h.ref = p  BY DEF Idle
    <3>3. Sane(h)
      <4> HIDE DEF h
      <4> QED  BY <3>2 DEF Sane
    <3>4. Continue(t, h) /\ UNCHANGED <<now, Stored>>  BY <2>5 DEF deleteTemplate
    <3> HIDE DEF h
    <3> QED  BY <3>1, <3>3, <3>4, Advances, StoredOK
  <2>6. ASSUME NEW n \in Horizons, detectExpiringShifts(t, n) PROVE TypeInv'
    <3> DEFINE g == [Idle EXCEPT !.pc = "templates", !.today = now, !.until = now + n]
               h == [g EXCEPT !.left = DueTemplates(g)]
    <3>1. now \in Int /\ now + n \in Int  BY <1>0, ShiftsAssumption DEF DocsOK
    <3>2. g \in CallState  BY <3>1, IdleType DEF CallState, PcValues
    <3>3. DueTemplates(g) \in SUBSET Subjects  BY DEF DueTemplates, Subjects
    <3>4. h \in CallState  BY <3>2, <3>3, Zenon DEF CallState
    <3>5. g.pc = "templates"  BY DEF Idle
    <3>6. h.pc = "templates"
      <4> HIDE DEF g
      <4> QED  BY <3>2, <3>5 DEF CallState
    <3>7. Sane(h)
      <4> HIDE DEF h
      <4> QED  BY <3>6 DEF Sane
    <3>8. Continue(t, h) /\ UNCHANGED <<now, Stored>>
      BY <2>6, Zenon DEF detectExpiringShifts
    <3> HIDE DEF h, g
    <3> QED  BY <3>4, <3>7, <3>8, Advances, StoredOK
  <2> QED  BY <1>1, <2>1, <2>2, <2>3, <2>4, <2>5, <2>6 DEF Call
<1>2. ASSUME NEW t \in Tasks, Step(t) PROVE TypeInv'
  <2> DEFINE h == task[t]
  <2>0. h \in CallState /\ Sane(h)  BY <1>0
  <2>1. ASSUME findBulkTemplate(t) PROVE TypeInv'
    <3> DEFINE n == [task[t] EXCEPT !.pc = "template"]
    <3>1. UNCHANGED <<now, Stored>>  BY <2>1 DEF findBulkTemplate
    <3>2. CASE Kept(h.ref) /\ Valid(h.window)
      <4>1. n \in CallState /\ n.pc = "template" /\ n.ref = h.ref /\ n.item = h.item
            /\ n.targets = h.targets /\ n.window = h.window
        BY <2>0 DEF CallState, PcValues
      <4>2. Continue(t, n)  BY <2>1, <3>2 DEF findBulkTemplate
      <4>3. h.pc = "bulk"  BY <2>1 DEF findBulkTemplate
      <4> HIDE DEF n
      <4>4. Sane(n)  BY <2>0, <3>2, <4>1, <4>3 DEF Sane
      <4> QED  BY <3>1, <4>1, <4>2, <4>4, Advances, StoredOK
    <3>3. CASE ~(Kept(h.ref) /\ Valid(h.window))
      <4>1. Continue(t, Idle)  BY <2>1, <3>3 DEF findBulkTemplate, Return
      <4> QED  BY <3>1, <4>1, IdleType, Advances, StoredOK
    <3> QED  BY <3>2, <3>3
  <2>2. ASSUME findTemplate(t) PROVE TypeInv'
    <3> DEFINE n == [task[t] EXCEPT !.pc = "conflicts"]
    <3>1. UNCHANGED <<now, Stored>> /\ h.pc = "template"  BY <2>2 DEF findTemplate
    <3>2. n \in CallState /\ n.pc = "conflicts" /\ n.ref = h.ref /\ n.item = h.item
          /\ n.targets = h.targets /\ n.window = h.window
      BY <2>0 DEF CallState, PcValues
    <3>3. Continue(t, n) \/ Continue(t, NextItem(h))  BY <2>2, Zenon DEF findTemplate
    <3> HIDE DEF n
    <3>4. Sane(n)  BY <2>0, <3>1, <3>2 DEF Sane
    <3> QED  BY <2>0, <3>1, <3>2, <3>3, <3>4, Advances, StoredOK, NextItemType
  <2>3. ASSUME detectConflicts(t) PROVE TypeInv'
    <3> DEFINE n == [task[t] EXCEPT !.pc = "insert"]
    <3>1. UNCHANGED <<now, Stored>> /\ h.pc = "conflicts"  BY <2>3 DEF detectConflicts
    <3>2. n \in CallState /\ n.pc = "insert" /\ n.ref = h.ref /\ n.item = h.item
          /\ n.targets = h.targets /\ n.window = h.window
      BY <2>0 DEF CallState, PcValues
    <3>3. Continue(t, n) \/ Continue(t, NextItem(h))  BY <2>3, Zenon DEF detectConflicts
    <3> HIDE DEF n
    <3>4. Sane(n)  BY <2>0, <3>1, <3>2 DEF Sane
    <3> QED  BY <2>0, <3>1, <3>2, <3>3, <3>4, Advances, StoredOK, NextItemType
  <2>4. ASSUME NEW a \in Assignments, insertAssignment(t, a) PROVE TypeInv'
    <3>1. h.pc = "insert" /\ Continue(t, NextItem(h)) /\ UNCHANGED <<now, template, notices>>
      BY <2>4 DEF insertAssignment
    <3> DEFINE d == [status |-> ACTIVE, template |-> h.ref, target |-> Current(h),
                     from |-> h.window.from, to |-> h.window.to]
    <3>2. /\ h.ref \in Templates /\ h.targets[h.item] \in Targets
          /\ h.window \in Period /\ Valid(h.window)
      BY <2>0, <3>1 DEF Sane, CallState
    <3>3. d \in AssignmentDoc  BY <3>2 DEF AssignmentDoc, Current, Period, Valid
    <3>4. assignment' = [assignment EXCEPT ![a] = d]  BY <2>4 DEF insertAssignment
    <3> HIDE DEF d
    <3>5. assignment' \in [Assignments -> AssignmentDoc]  BY <1>0, <3>3, <3>4 DEF DocsOK
    <3>6. DocsOK'  BY <1>0, <3>1, <3>5 DEF DocsOK
    <3> QED  BY <2>0, <3>1, <3>6, Advances, NextItemType
  <2>5. ASSUME answer(t) PROVE TypeInv'
    BY <2>5, IdleType, Advances, StoredOK DEF answer, Return
  <2>6. ASSUME setStatus(t) PROVE TypeInv'
    <3>1. h.ref \in Assignments /\ h.status \in AssignmentStatuses \cup {ACTIVE}
      BY <2>0, <2>6 DEF setStatus, Sane, CallState
    <3>2. assignment[h.ref] \in AssignmentDoc  BY <1>0, <3>1 DEF DocsOK
    <3> DEFINE d == [assignment[h.ref] EXCEPT !.status = h.status]
    <3>3. d \in AssignmentDoc  BY <3>1, <3>2 DEF AssignmentDoc
    <3>4. assignment' = [assignment EXCEPT ![h.ref] = d]  BY <2>6 DEF setStatus
    <3> HIDE DEF d
    <3>5. assignment' \in [Assignments -> AssignmentDoc]  BY <1>0, <3>3, <3>4 DEF DocsOK
    <3>6. DocsOK'  BY <1>0, <2>6, <3>5 DEF DocsOK, setStatus
    <3> QED  BY <2>6, <3>6, IdleType, Advances DEF setStatus, Return
  <2>7. ASSUME removeTemplate(t) PROVE TypeInv'
    <3>1. h.ref \in Templates  BY <2>0, <2>7 DEF removeTemplate, Sane
    <3>2. template[h.ref] \in TemplateDoc  BY <1>0, <3>1 DEF DocsOK
    <3> DEFINE s == IF Kept(h.ref) THEN "deleted" ELSE template[h.ref].status
               d == [template[h.ref] EXCEPT !.status = s]
    <3>3. d \in TemplateDoc  BY <3>2 DEF TemplateDoc
    <3>4. template' = [template EXCEPT ![h.ref] = d]  BY <2>7 DEF removeTemplate
    <3> HIDE DEF d
    <3>5. template' \in [Templates -> TemplateDoc]  BY <1>0, <3>3, <3>4 DEF DocsOK
    <3>6. DocsOK'  BY <1>0, <2>7, <3>5 DEF DocsOK, removeTemplate
    <3> QED  BY <2>7, <3>6, IdleType, Advances DEF removeTemplate, Return
  <2>8. ASSUME NEW s \in Subjects, findNotice(t, s) PROVE TypeInv'
    <3> DEFINE m == [task[t] EXCEPT !.pc = NoticeOf(task[t].pc), !.ref = s]
               n == [task[t] EXCEPT !.left = @ \ {s}]
    <3>1. UNCHANGED <<now, Stored>> /\ h.pc \in Looking  BY <2>8 DEF findNotice
    <3>2. m \in CallState /\ m.ref = s /\ m.pc \in {"noticeTemplate", "noticeAssignment"}
      BY <2>0 DEF CallState, PcValues, NoticeOf
    <3>3. n \in CallState /\ n.pc = h.pc  BY <2>0 DEF CallState
    <3>4. Continue(t, m) \/ Continue(t, n)  BY <2>8, Zenon DEF findNotice
    <3> HIDE DEF m, n
    <3>5. Sane(m)  BY <3>2 DEF Sane
    <3>6. Sane(n)  BY <3>1, <3>3 DEF Sane, Looking
    <3> QED  BY <3>1, <3>2, <3>3, <3>4, <3>5, <3>6, Advances, StoredOK
  <2>9. ASSUME createNotice(t) PROVE TypeInv'
    <3> DEFINE n == [task[t] EXCEPT
                !.pc = IF task[t].pc = "noticeTemplate" THEN "templates" ELSE "assignments",
                !.left = @ \ {task[t].ref}]
    <3>1. h.ref \in Subjects  BY <2>0, <2>9 DEF createNotice, Sane
    <3>2. n \in CallState /\ n.pc \in Looking  BY <2>0 DEF CallState, PcValues, Looking
    <3>3. Continue(t, n)  BY <2>9, Zenon DEF createNotice
    <3>4. notices' \in [Subjects -> Nat]  BY <1>0, <2>9, <3>1 DEF createNotice, DocsOK
    <3>5. DocsOK'  BY <1>0, <2>9, <3>4 DEF createNotice, DocsOK
    <3> HIDE DEF n
    <3>6. Sane(n)  BY <3>2 DEF Sane, Looking
    <3> QED  BY <3>2, <3>3, <3>5, <3>6, Advances
  <2>10. ASSUME findExpiringAssignments(t) PROVE TypeInv'
    <3> DEFINE n == [task[t] EXCEPT !.pc = "assignments", !.left = DueAssignments(task[t])]
    <3>1. DueAssignments(task[t]) \in SUBSET Subjects  BY DEF DueAssignments, Subjects
    <3>2. n \in CallState /\ n.pc = "assignments"  BY <2>0, <3>1 DEF CallState, PcValues
    <3>3. Continue(t, n) /\ UNCHANGED <<now, Stored>>
      BY <2>10, Zenon DEF findExpiringAssignments
    <3> HIDE DEF n
    <3>4. Sane(n)  BY <3>2 DEF Sane
    <3> QED  BY <3>2, <3>3, <3>4, Advances, StoredOK
  <2>11. ASSUME endDetection(t) PROVE TypeInv'
    BY <2>11, IdleType, Advances, StoredOK DEF endDetection, Return
  <2> QED  BY <1>2, <2>1, <2>2, <2>3, <2>4, <2>5, <2>6, <2>7, <2>8, <2>9, <2>10, <2>11 DEF Step
<1>3. ASSUME timePasses PROVE TypeInv'
  <2>1. now' \in Int  BY <1>0, <1>3 DEF timePasses, DocsOK
  <2> QED  BY <1>3, <2>1 DEF timePasses, TypeInv, TypeOK, Stored
<1>4. ASSUME restart PROVE TypeInv'
  <2>1. task' \in [Tasks -> CallState] /\ \A t \in Tasks : Sane(task'[t])
    BY <1>4, IdleType DEF restart
  <2> QED  BY <1>4, <2>1 DEF restart, TypeInv, TypeOK, Stored
<1>5. ASSUME UNCHANGED vars PROVE TypeInv'
  BY <1>5 DEF vars, TypeInv, TypeOK
<1> QED  BY <1>1, <1>2, <1>3, <1>4, <1>5 DEF Next

\* The documents of the shift services, and what every call in progress
\* remembers, have their types; a stored period that ends starts before it
\* ends.
THEOREM TypeCorrect == Spec => []TypeOK
<1>1. TypeInv => TypeOK  BY DEF TypeInv
<1> QED  BY InitTyped, StepTyped, <1>1, PTL DEF Spec

-----------------------------------------------------------------------------
(* Notices: whoever found none is counted before creating one.              *)

NoticeStages == {"noticeTemplate", "noticeAssignment"}

\* The calls that looked for a notice about s, found none and will create one.
Creators(s) == {t \in Tasks : task[t].pc \in NoticeStages /\ task[t].ref = s}

NoticeInv == \A s \in Subjects : notices[s] + Cardinality(Creators(s)) <= Cardinality(Tasks)

LEMMA CreatorsFinite ==
    \A s \in Subjects : /\ IsFiniteSet(Creators(s))
                        /\ Cardinality(Creators(s)) \in Nat
                        /\ Cardinality(Creators(s)) <= Cardinality(Tasks)
                        /\ Cardinality(Tasks) \in Nat
<1> TAKE s \in Subjects
<1>1. Creators(s) \in SUBSET Tasks  BY DEF Creators
<1>2. IsFiniteSet(Tasks)  BY ShiftsAssumption
<1> QED  BY <1>1, <1>2, FS_Subset, FS_CardinalityType

LEMMA CreatorsFinite2 ==
    \A s \in Subjects : /\ IsFiniteSet(Creators(s)')
                        /\ Cardinality(Creators(s)') \in Nat
                        /\ Cardinality(Creators(s)') <= Cardinality(Tasks)
<1> TAKE s \in Subjects
<1>1. Creators(s)' \in SUBSET Tasks  BY DEF Creators
<1>2. IsFiniteSet(Tasks)  BY ShiftsAssumption
<1> QED  BY <1>1, <1>2, FS_Subset, FS_CardinalityType

\* A step that creates no notice and no intention to create one.
LEMMA NoNewCreator ==
    ASSUME TypeInv, NoticeInv, notices' = notices,
           \A t \in Tasks : task'[t].pc \in NoticeStages => task'[t] = task[t]
    PROVE  NoticeInv'
<1> SUFFICES ASSUME NEW s \in Subjects
             PROVE  notices'[s] + Cardinality(Creators(s)') <= Cardinality(Tasks)
  BY DEF NoticeInv
<1>1. Creators(s)' \in SUBSET Creators(s)  BY DEF Creators
<1>2. Cardinality(Creators(s)') <= Cardinality(Creators(s))
  BY <1>1, CreatorsFinite, FS_Subset
<1>3. notices[s] \in Nat  BY DEF TypeInv, TypeOK
<1> QED  BY <1>2, <1>3, CreatorsFinite, CreatorsFinite2 DEF NoticeInv

\* The same for a step of one call.
LEMMA NoIntention ==
    ASSUME TypeInv, NoticeInv, notices' = notices, NEW t \in Tasks, NEW h \in CallState,
           Continue(t, h), h.pc \notin NoticeStages
    PROVE  NoticeInv'
<1>1. \A u \in Tasks : task'[u] = IF u = t THEN h ELSE task[u]
  BY DEF Continue, TypeInv, TypeOK
<1> QED  BY <1>1, NoNewCreator

LEMMA InitNotices == Init => NoticeInv
<1> SUFFICES ASSUME Init, NEW s \in Subjects
             PROVE  notices[s] + Cardinality(Creators(s)) <= Cardinality(Tasks)
  BY DEF NoticeInv
<1>1. notices[s] = 0  BY DEF Init
<1> QED  BY <1>1, CreatorsFinite

\* Finding no notice adds a creator, creating one turns a creator into a notice.
LEMMA StepNotices == TypeInv /\ NoticeInv /\ [Next]_vars => NoticeInv'
<1> SUFFICES ASSUME TypeInv, NoticeInv, [Next]_vars PROVE NoticeInv'  OBVIOUS
<1> USE DEF NoticeStages
<1>0. /\ \A t \in Tasks : task[t] \in CallState /\ Sane(task[t])
      /\ notices \in [Subjects -> Nat]
      /\ Idle \in CallState /\ Idle.pc = "idle"
  BY IdleType DEF TypeInv, TypeOK, Idle
<1>1. ASSUME NEW t \in Tasks, Call(t) PROVE NoticeInv'
  <2>1. CASE \E p \in Templates, s \in TemplateStatuses, x \in Expiries :
                createTemplate(t, p, s, x) \/ updateTemplate(t, p, s, x)
    BY <2>1, NoNewCreator DEF createTemplate, updateTemplate
  <2>2. ASSUME ~(\E p \in Templates, s \in TemplateStatuses, x \in Expiries :
                   createTemplate(t, p, s, x) \/ updateTemplate(t, p, s, x))
        PROVE  /\ notices' = notices
               /\ task'[t].pc \notin NoticeStages
               /\ \A u \in Tasks \ {t} : task'[u] = task[u]
    <3>1. task \in [Tasks -> CallState]  BY DEF TypeInv, TypeOK
    <3>2. \A h : Continue(t, h) => task'[t] = h /\ \A u \in Tasks \ {t} : task'[u] = task[u]
      BY <3>1 DEF Continue
    <3> DEFINE P == {"template", "bulk", "setStatus", "delete", "templates"}
    <3>3. \E h : h.pc \in P /\ Continue(t, h) /\ UNCHANGED Stored
      <4>1. \A p, e, w : [Idle EXCEPT !.pc = "template", !.ref = p, !.targets = <<e>>,
                                      !.window = w].pc = "template"
        BY DEF Idle
      <4>2. \A p, l, w : [Idle EXCEPT !.pc = "bulk", !.ref = p, !.targets = l,
                                      !.window = w].pc = "bulk"
        BY DEF Idle
      <4>3. \A a, s : [Idle EXCEPT !.pc = "setStatus", !.ref = a, !.status = s].pc = "setStatus"
        BY DEF Idle
      <4>4. \A p : [Idle EXCEPT !.pc = "delete", !.ref = p].pc = "delete"
        BY DEF Idle
      <4>5. \A d, u, l : [[Idle EXCEPT !.pc = "templates", !.today = d, !.until = u]
                             EXCEPT !.left = l].pc = "templates"
        BY DEF Idle
      <4>6. CASE \E p \in Templates, e \in Targets, w \in Windows : assign(t, p, e, w)
        <5>1. PICK p \in Templates, e \in Targets, w \in Windows : assign(t, p, e, w)
          BY <4>6
        <5> DEFINE h == [Idle EXCEPT !.pc = "template", !.ref = p, !.targets = <<e>>,
                                     !.window = w]
        <5>2. Continue(t, h) /\ UNCHANGED Stored  BY <5>1 DEF assign, Stored
        <5>3. h.pc \in P  BY <4>1
        <5> HIDE DEF h
        <5> QED  BY <5>2, <5>3
      <4>7. CASE \E p \in Templates, l \in Lists, w \in Windows : bulkAssign(t, p, l, w)
        BY <4>2, <4>7, Zenon DEF bulkAssign
      <4>8. CASE \E a \in Assignments, s \in AssignmentStatuses : updateStatus(t, a, s)
        BY <4>3, <4>8, Zenon DEF updateStatus
      <4>9. CASE \E p \in Templates : deleteTemplate(t, p)
        BY <4>4, <4>9, Zenon DEF deleteTemplate
      <4>10. CASE \E n \in Horizons : detectExpiringShifts(t, n)
        BY <4>5, <4>10, Zenon DEF detectExpiringShifts
      <4> QED  BY <1>1, <2>2, <4>6, <4>7, <4>8, <4>9, <4>10 DEF Call
    <3>4. PICK h : h.pc \in P /\ Continue(t, h) /\ UNCHANGED Stored  BY <3>3
    <3> QED  BY <3>2, <3>4 DEF Stored
  <2>3. CASE ~(\E p \in Templates, s \in TemplateStatuses, x \in Expiries :
                   createTemplate(t, p, s, x) \/ updateTemplate(t, p, s, x))
    BY <2>2, <2>3, NoNewCreator
  <2> QED  BY <2>1, <2>3
<1>2. ASSUME NEW t \in Tasks, Step(t) PROVE NoticeInv'
  <2> DEFINE h == task[t]
  <2>0. h \in CallState /\ Sane(h)  BY <1>0
  <2>1. ASSUME NEW s \in Subjects, findNotice(t, s) PROVE NoticeInv'
    <3> DEFINE m == [task[t] EXCEPT !.pc = NoticeOf(task[t].pc), !.ref = s]
               n == [task[t] EXCEPT !.left = @ \ {s}]
    <3>1. notices' = notices /\ h.pc \notin NoticeStages
      BY <2>1 DEF findNotice, Looking, Stored
    <3>2. m.ref = s /\ m.pc \in NoticeStages  BY <2>0 DEF CallState, NoticeOf
    <3>3. n \in CallState /\ n.pc = h.pc  BY <2>0 DEF CallState
    <3>4. CASE notices[s] = 0
      <4>1. Continue(t, m)  BY <2>1, <3>4, Zenon DEF findNotice
      <4> SUFFICES ASSUME NEW r \in Subjects
                   PROVE  notices'[r] + Cardinality(Creators(r)') <= Cardinality(Tasks)
        BY DEF NoticeInv
      <4>2. \A u \in Tasks : task'[u] = IF u = t THEN m ELSE task[u]
        BY <4>1 DEF Continue, TypeInv, TypeOK
      <4> HIDE DEF m
      <4>3. CASE r = s  BY <3>1, <3>4, <4>3, CreatorsFinite, CreatorsFinite2
      <4>4. CASE r # s
        <5>1. Creators(r)' = Creators(r)
          BY <3>1, <3>2, <4>2, <4>4 DEF Creators
        <5> QED  BY <3>1, <5>1 DEF NoticeInv
      <4> QED  BY <4>3, <4>4
    <3>5. CASE notices[s] # 0
      <4>1. Continue(t, n)  BY <2>1, <3>5, Zenon DEF findNotice
      <4> HIDE DEF n
      <4> QED  BY <3>1, <3>3, <4>1, NoIntention
    <3> QED  BY <3>4, <3>5
  <2>2. ASSUME createNotice(t) PROVE NoticeInv'
    <3> DEFINE n == [task[t] EXCEPT
                !.pc = IF task[t].pc = "noticeTemplate" THEN "templates" ELSE "assignments",
                !.left = @ \ {task[t].ref}]
    <3>1. h.ref \in Subjects /\ h.pc \in NoticeStages  BY <2>0, <2>2 DEF createNotice, Sane
    <3>2. n.pc \notin NoticeStages  BY <2>0 DEF CallState
    <3>3. Continue(t, n)  BY <2>2, Zenon DEF createNotice
    <3>4. notices' = [notices EXCEPT ![h.ref] = @ + 1]  BY <2>2 DEF createNotice
    <3>5. \A u \in Tasks : task'[u] = IF u = t THEN n ELSE task[u]
      BY <3>3 DEF Continue, TypeInv, TypeOK
    <3> HIDE DEF n
    <3> SUFFICES ASSUME NEW r \in Subjects
                 PROVE  notices'[r] + Cardinality(Creators(r)') <= Cardinality(Tasks)
      BY DEF NoticeInv
    <3>6. notices[r] \in Nat /\ notices[r] + Cardinality(Creators(r)) <= Cardinality(Tasks)
      BY <1>0 DEF NoticeInv
    <3>7. CASE r = h.ref
      <4>1. Creators(r)' = Creators(r) \ {t} /\ t \in Creators(r)
        BY <3>1, <3>2, <3>5, <3>7 DEF Creators
      <4>2. Cardinality(Creators(r)') = Cardinality(Creators(r)) - 1
        BY <4>1, CreatorsFinite, FS_RemoveElement
      <4>3. notices'[r] = notices[r] + 1  BY <1>0, <3>4, <3>7
      <4> QED  BY <3>6, <4>2, <4>3, CreatorsFinite
    <3>8. CASE r # h.ref
      <4>1. Creators(r)' = Creators(r)  BY <3>2, <3>5, <3>8 DEF Creators
      <4>2. notices'[r] = notices[r]  BY <1>0, <3>4, <3>8
      <4> QED  BY <3>6, <4>1, <4>2
    <3> QED  BY <3>7, <3>8
  <2>3. CASE findBulkTemplate(t)
    <3>1. [task[t] EXCEPT !.pc = "template"] \in CallState
          /\ [task[t] EXCEPT !.pc = "template"].pc = "template"
      BY <2>0 DEF CallState, PcValues
    <3>2. notices' = notices  BY <2>3 DEF findBulkTemplate, Stored
    <3>3. Continue(t, [task[t] EXCEPT !.pc = "template"]) \/ Continue(t, Idle)
      BY <2>3, Zenon DEF findBulkTemplate, Return
    <3> QED  BY <1>0, <3>1, <3>2, <3>3, NoIntention
  <2>4. CASE findTemplate(t)
    <3>1. [task[t] EXCEPT !.pc = "conflicts"] \in CallState
          /\ [task[t] EXCEPT !.pc = "conflicts"].pc = "conflicts"
      BY <2>0 DEF CallState, PcValues
    <3>2. notices' = notices /\ h.pc \in ItemStages
      BY <2>4 DEF findTemplate, Stored, ItemStages
    <3>3. Continue(t, [task[t] EXCEPT !.pc = "conflicts"]) \/ Continue(t, NextItem(h))
      BY <2>4, Zenon DEF findTemplate
    <3> QED  BY <2>0, <3>1, <3>2, <3>3, NextItemType, NoIntention
  <2>5. CASE detectConflicts(t)
    <3>1. [task[t] EXCEPT !.pc = "insert"] \in CallState
          /\ [task[t] EXCEPT !.pc = "insert"].pc = "insert"
      BY <2>0 DEF CallState, PcValues
    <3>2. notices' = notices /\ h.pc \in ItemStages
      BY <2>5 DEF detectConflicts, Stored, ItemStages
    <3>3. Continue(t, [task[t] EXCEPT !.pc = "insert"]) \/ Continue(t, NextItem(h))
      BY <2>5, Zenon DEF detectConflicts
    <3> QED  BY <2>0, <3>1, <3>2, <3>3, NextItemType, NoIntention
  <2>6. CASE \E a \in Assignments : insertAssignment(t, a)
    <3>1. notices' = notices /\ h.pc \in ItemStages /\ Continue(t, NextItem(h))
      BY <2>6 DEF insertAssignment, ItemStages
    <3> QED  BY <2>0, <3>1, NextItemType, NoIntention
  <2>7. CASE answer(t) \/ setStatus(t) \/ removeTemplate(t) \/ endDetection(t)
    BY <1>0, <2>7, NoIntention
       DEF answer, setStatus, removeTemplate, endDetection, Return, Stored
  <2>8. CASE findExpiringAssignments(t)
    <3> DEFINE n == [task[t] EXCEPT !.pc = "assignments", !.left = DueAssignments(task[t])]
    <3>1. DueAssignments(task[t]) \in SUBSET Subjects  BY DEF DueAssignments, Subjects
    <3>2. n \in CallState /\ n.pc = "assignments"  BY <2>0, <3>1 DEF CallState, PcValues
    <3>3. Continue(t, n) /\ notices' = notices
      BY <2>8, Zenon DEF findExpiringAssignments, Stored
    <3> HIDE DEF n
    <3> QED  BY <3>2, <3>3, NoIntention
  <2> QED  BY <1>2, <2>1, <2>2, <2>3, <2>4, <2>5, <2>6, <2>7, <2>8 DEF Step
<1>3. CASE timePasses \/ UNCHANGED vars
  BY <1>3, NoNewCreator DEF timePasses, vars, Stored
<1>4. CASE restart
  BY <1>0, <1>4, NoNewCreator DEF restart, Stored
<1> QED  BY <1>1, <1>2, <1>3, <1>4 DEF Next

\* A template or an assignment has at most as many pending notices as there
\* are calls that can look for one at the same time; so one, when detections
\* do not overlap, over any number of detections, restarts and changes.
THEOREM NoticesAreBounded == Spec => []NoticesBounded
<1>1. TypeInv /\ NoticeInv => NoticesBounded
  BY CreatorsFinite DEF TypeInv, TypeOK, NoticeInv, NoticesBounded
<1> QED  BY InitTyped, StepTyped, InitNotices, StepNotices, <1>1, PTL DEF Spec

-----------------------------------------------------------------------------
(* One call at a time: between two round trips nothing but the clock moves, *)
(* so what a call found out is still true when it acts on it.               *)

TemplateList == {"templates", "noticeTemplate"}

AssignmentList == {"assignments", "noticeAssignment"}

\* What is true of the documents at every point of a call in progress.
Promise(h) ==
    /\ h.pc = "insert" => Conflicts(assignment, Current(h), h.window) = {}
    /\ h.pc = "setStatus" => assignment[h.ref].status # "absent"
    /\ h.pc = "bulk" => h.item = 1
    /\ h.pc \in ItemStages \cup {"answer"} /\ Len(h.targets) > 1 =>
          \A i \in 1 .. (h.item - 1) : Served(h, i)
    /\ h.pc \in ItemStages /\ Len(h.targets) > 1 => Kept(h.ref)
    /\ h.pc \in TemplateList =>
          \A s \in DueTemplates(h) : s \in h.left \/ notices[s] > 0
    /\ h.pc \in AssignmentList =>
          /\ \A s \in DueTemplates(h) : notices[s] > 0
          /\ \A s \in DueAssignments(h) : s \in h.left \/ notices[s] > 0

SerialInv == \A t \in Tasks : Promise(task[t])

\* A call that has nothing to promise.
Free == {"idle", "delete"}

\* A step that only moves the call on.
LEMMA Quiet ==
    ASSUME NEW solo, Tasks = {solo}, TypeInv, NEW n, Continue(solo, n),
           UNCHANGED Stored, Promise(n)
    PROVE  SerialInv'
<1>1. task'[solo] = n  BY DEF Continue, TypeInv, TypeOK
<1>2. template' = template /\ assignment' = assignment /\ notices' = notices
  BY DEF Stored
<1>3. Promise(n)'  BY <1>2 DEF Promise, Conflicts, Served, Kept, DueTemplates, DueAssignments
<1> QED  BY <1>1, <1>3 DEF SerialInv, Promise, Conflicts, Served, Kept, DueTemplates, DueAssignments

LEMMA FreePromise == \A n : n.pc \in Free => Promise(n) /\ (n = Idle => Idle.pc \in Free)
BY DEF Free, Promise, ItemStages, TemplateList, AssignmentList, Idle

\* A step that ends the call, whatever it writes.
LEMMA Ends ==
    ASSUME NEW solo, Tasks = {solo}, TypeInv, Continue(solo, Idle)
    PROVE  SerialInv'
<1>1. task'[solo] = Idle  BY DEF Continue, TypeInv, TypeOK
<1>2. Idle.pc \in Free  BY DEF Idle, Free
<1> QED  BY <1>1, <1>2 DEF SerialInv, Promise, Free, ItemStages, TemplateList, AssignmentList

LEMMA InitSerial == Init => SerialInv
<1>1. Idle.pc \in Free  BY DEF Idle, Free
<1> QED  BY <1>1, FreePromise DEF Init, SerialInv

\* Calls start with nothing to promise, or with what they have just read.
LEMMA CallSerial ==
    ASSUME NEW solo, Tasks = {solo}, TypeInv, SerialInv, Call(solo)
    PROVE  SerialInv'
<1>1. ASSUME NEW p \in Templates, NEW e \in Targets, NEW w \in Windows, assign(solo, p, e, w)
      PROVE  SerialInv'
  <2> DEFINE n == [Idle EXCEPT !.pc = "template", !.ref = p, !.targets = <<e>>, !.window = w]
  <2>1. n.pc = "template" /\ n.targets = <<e>>  BY DEF Idle
  <2>2. Continue(solo, n) /\ UNCHANGED Stored  BY <1>1 DEF assign, Stored
  <2> HIDE DEF n
  <2>3. Len(n.targets) = 1  BY <2>1
  <2>4. Promise(n)  BY <2>1, <2>3 DEF Promise, TemplateList, AssignmentList
  <2> QED  BY <2>2, <2>4, Quiet
<1>2. ASSUME NEW p \in Templates, NEW l \in Lists, NEW w \in Windows, bulkAssign(solo, p, l, w)
      PROVE  SerialInv'
  <2> DEFINE n == [Idle EXCEPT !.pc = "bulk", !.ref = p, !.targets = l, !.window = w]
  <2>1. n.pc = "bulk" /\ n.item = 1  BY DEF Idle
  <2>2. Continue(solo, n) /\ UNCHANGED Stored  BY <1>2 DEF bulkAssign, Stored
  <2> HIDE DEF n
  <2>3. Promise(n)  BY <2>1 DEF Promise, TemplateList, AssignmentList, ItemStages
  <2> QED  BY <2>2, <2>3, Quiet
<1>3. ASSUME NEW a \in Assignments, NEW s \in AssignmentStatuses, updateStatus(solo, a, s)
      PROVE  SerialInv'
  <2> DEFINE n == [Idle EXCEPT !.pc = "setStatus", !.ref = a, !.status = s]
  <2>1. n.pc = "setStatus" /\ n.ref = a  BY DEF Idle
  <2>2. /\ Continue(solo, n) /\ UNCHANGED Stored
        /\ assignment[a].status # "absent"
    BY <1>3 DEF updateStatus, Stored
  <2> HIDE DEF n
  <2>3. Promise(n)  BY <2>1, <2>2 DEF Promise, ItemStages, TemplateList, AssignmentList
  <2> QED  BY <2>2, <2>3, Quiet
<1>4. ASSUME NEW p \in Templates, NEW s \in TemplateStatuses, NEW x \in Expiries,
             createTemplate(solo, p, s, x) \/ updateTemplate(solo, p, s, x)
      PROVE  SerialInv'
  <2>1. task' = task /\ task[solo].pc = "idle"
    BY <1>4 DEF createTemplate, updateTemplate, Ready
  <2> QED  BY <2>1 DEF SerialInv, Promise, ItemStages, TemplateList, AssignmentList
<1>5. ASSUME NEW p \in Templates, deleteTemplate(solo, p) PROVE SerialInv'
  <2> DEFINE n == [Idle EXCEPT !.pc = "delete", !.ref = p]
  <2>1. n.pc \in Free  BY DEF Idle, Free
  <2>2. Continue(solo, n) /\ UNCHANGED Stored  BY <1>5 DEF deleteTemplate, Stored
  <2> HIDE DEF n
  <2> QED  BY <2>1, <2>2, Quiet, FreePromise
<1>6. ASSUME NEW k \in Horizons, detectExpiringShifts(solo, k) PROVE SerialInv'
  <2> DEFINE g == [Idle EXCEPT !.pc = "templates", !.today = now, !.until = now + k]
             n == [g EXCEPT !.left = DueTemplates(g)]
  <2>1. /\ n.pc = "templates" /\ n.left = DueTemplates(g)
        /\ n.today = g.today /\ n.until = g.until
    BY DEF Idle
  <2>2. Continue(solo, n) /\ UNCHANGED Stored
    BY <1>6, Zenon DEF detectExpiringShifts, Stored
  <2> HIDE DEF n, g
  <2>3. DueTemplates(n) = n.left  BY <2>1 DEF DueTemplates, Due
  <2>4. Promise(n)  BY <2>1, <2>3 DEF Promise, ItemStages, AssignmentList
  <2> QED  BY <2>2, <2>4, Quiet
<1> QED  BY <1>1, <1>2, <1>3, <1>4, <1>5, <1>6 DEF Call

\* The next item: what was promised of the items before, and of this one.
LEMMA NextItemPromise ==
    ASSUME NEW h \in CallState, Sane(h), h.pc \in ItemStages, Promise(h),
           Len(h.targets) > 1 => Served(h, h.item)
    PROVE  Promise(NextItem(h))
<1> DEFINE n == NextItem(h)
<1>1. /\ n.pc \in {"template", "answer"} /\ n.ref = h.ref /\ n.targets = h.targets
      /\ n.window = h.window /\ n.item = h.item + 1 /\ h.item \in Nat /\ h.item >= 1
  BY NextItemType DEF Sane
<1> HIDE DEF n
<1>2. ASSUME Len(h.targets) > 1, NEW i \in 1 .. (n.item - 1) PROVE Served(n, i)
  <2>1. i = h.item \/ i \in 1 .. (h.item - 1)  BY <1>1
  <2>2. Served(h, i)  BY <1>2, <2>1 DEF Promise
  <2> QED  BY <1>1, <2>2 DEF Served
<1>3. n.pc \in ItemStages /\ Len(n.targets) > 1 => Kept(n.ref)
  BY <1>1 DEF Promise
<1>4. Promise(n)
  BY <1>1, <1>2, <1>3 DEF Promise, ItemStages, TemplateList, AssignmentList
<1> QED  BY <1>4 DEF n

\* Calls go on with what they promised.
LEMMA StepSerial ==
    ASSUME NEW solo, Tasks = {solo}, TypeInv, SerialInv, Step(solo)
    PROVE  SerialInv'
<1> DEFINE h == task[solo]
<1>0. /\ h \in CallState /\ Sane(h) /\ Promise(h)
      /\ template \in [Templates -> TemplateDoc]
      /\ assignment \in [Assignments -> AssignmentDoc]
      /\ notices \in [Subjects -> Nat]
  BY DEF TypeInv, TypeOK, SerialInv
<1>1. ASSUME findBulkTemplate(solo) PROVE SerialInv'
  <2> DEFINE n == [task[solo] EXCEPT !.pc = "template"]
  <2>1. /\ n.pc = "template" /\ n.ref = h.ref /\ n.item = h.item
        /\ n.targets = h.targets /\ n.window = h.window
    BY <1>0 DEF CallState
  <2>2. UNCHANGED Stored /\ h.pc = "bulk"  BY <1>1 DEF findBulkTemplate, Stored
  <2>3. CASE Kept(h.ref) /\ Valid(h.window)
    <3>1. Continue(solo, n)  BY <1>1, <2>3 DEF findBulkTemplate
    <3> HIDE DEF n
    <3>2. n.item = 1  BY <1>0, <2>1, <2>2 DEF Promise
    <3>3. Promise(n)
      BY <2>1, <2>3, <3>2 DEF Promise, TemplateList, AssignmentList
    <3> QED  BY <2>2, <3>1, <3>3, Quiet
  <2>4. CASE ~(Kept(h.ref) /\ Valid(h.window))
    BY <1>1, <2>4, Ends DEF findBulkTemplate, Return
  <2> QED  BY <2>3, <2>4
<1>2. ASSUME findTemplate(solo) PROVE SerialInv'
  <2> DEFINE n == [task[solo] EXCEPT !.pc = "conflicts"]
  <2>1. /\ n.pc = "conflicts" /\ n.ref = h.ref /\ n.item = h.item
        /\ n.targets = h.targets /\ n.window = h.window
    BY <1>0 DEF CallState
  <2>2. UNCHANGED Stored /\ h.pc = "template"  BY <1>2 DEF findTemplate, Stored
  <2>3. CASE Kept(h.ref)
    <3>1. Continue(solo, n)  BY <1>2, <2>3 DEF findTemplate
    <3> HIDE DEF n
    <3>2. Len(n.targets) > 1 => \A i \in 1 .. (n.item - 1) : Served(n, i)
      BY <1>0, <2>1, <2>2 DEF Promise, ItemStages, Served
    <3>3. Promise(n)
      BY <2>1, <2>3, <3>2 DEF Promise, TemplateList, AssignmentList
    <3> QED  BY <2>2, <3>1, <3>3, Quiet
  <2>4. CASE ~Kept(h.ref)
    <3>1. Continue(solo, NextItem(h))  BY <1>2, <2>4 DEF findTemplate
    <3>2. ~(Len(h.targets) > 1)  BY <1>0, <2>2, <2>4 DEF Promise, ItemStages
    <3>3. Promise(NextItem(h))  BY <1>0, <2>2, <3>2, NextItemPromise DEF ItemStages
    <3> QED  BY <2>2, <3>1, <3>3, Quiet
  <2> QED  BY <2>3, <2>4
<1>3. ASSUME detectConflicts(solo) PROVE SerialInv'
  <2> DEFINE n == [task[solo] EXCEPT !.pc = "insert"]
  <2>1. /\ n.pc = "insert" /\ n.ref = h.ref /\ n.item = h.item
        /\ n.targets = h.targets /\ n.window = h.window
    BY <1>0 DEF CallState
  <2>2. UNCHANGED Stored /\ h.pc = "conflicts"  BY <1>3 DEF detectConflicts, Stored
  <2>3. CASE Conflicts(assignment, Current(h), h.window) = {}
    <3>1. Continue(solo, n)  BY <1>3, <2>3 DEF detectConflicts
    <3> HIDE DEF n
    <3>2. Len(n.targets) > 1 => \A i \in 1 .. (n.item - 1) : Served(n, i)
      BY <1>0, <2>1, <2>2 DEF Promise, ItemStages, Served
    <3>3. Len(n.targets) > 1 => Kept(n.ref)
      BY <1>0, <2>1, <2>2 DEF Promise, ItemStages
    <3>4. Conflicts(assignment, Current(n), n.window) = {}
      BY <2>1, <2>3 DEF Current
    <3>5. Promise(n)
      BY <2>1, <3>2, <3>3, <3>4 DEF Promise, TemplateList, AssignmentList
    <3> QED  BY <2>2, <3>1, <3>5, Quiet
  <2>4. CASE Conflicts(assignment, Current(h), h.window) # {}
    <3>1. Continue(solo, NextItem(h))  BY <1>3, <2>4 DEF detectConflicts
    <3>2. PICK a \in Assignments : /\ assignment[a].status = ACTIVE
                                   /\ assignment[a].target = Current(h)
                                   /\ Meets(assignment[a], h.window)
      BY <2>4 DEF Conflicts
    <3>3. assignment[a] \in AssignmentDoc /\ h.window \in Period /\ Valid(h.window)
      BY <1>0, <2>2 DEF CallState, Sane, ItemStages
    <3> DEFINE q == [from |-> assignment[a].from, to |-> assignment[a].to]
    <3>4. q \in Period /\ Valid(q) /\ Meets(q, h.window)
      BY <3>2, <3>3 DEF AssignmentDoc, Period, Valid, Meets, MeetsBounded, MeetsIndefinite
    <3>5. Overlap(q, h.window)  BY <3>3, <3>4, MeetsOverlaps
    <3>6. Overlap(assignment[a], h.window)  BY <3>5 DEF Overlap
    <3>7. Served(h, h.item)  BY <3>2, <3>6 DEF Served, Current
    <3>8. Promise(NextItem(h))  BY <1>0, <2>2, <3>7, NextItemPromise DEF ItemStages
    <3> QED  BY <2>2, <3>1, <3>8, Quiet
  <2> QED  BY <2>3, <2>4
<1>4. ASSUME NEW a \in Assignments, insertAssignment(solo, a) PROVE SerialInv'
  <2> DEFINE d == [status |-> ACTIVE, template |-> h.ref, target |-> Current(h),
                   from |-> h.window.from, to |-> h.window.to]
             n == NextItem(h)
  <2>1. /\ h.pc = "insert" /\ Continue(solo, n) /\ a \in Unused
        /\ assignment' = [assignment EXCEPT ![a] = d]
        /\ template' = template /\ notices' = notices
    BY <1>4 DEF insertAssignment
  <2>2. task'[solo] = n  BY <2>1 DEF Continue, TypeInv, TypeOK
  <2>3. /\ n.pc \in {"template", "answer"} /\ n.ref = h.ref /\ n.targets = h.targets
        /\ n.window = h.window /\ n.item = h.item + 1 /\ h.item \in Nat /\ h.item >= 1
    BY <1>0, <2>1, NextItemType DEF ItemStages, Sane
  <2>4. /\ assignment'[a] = d
        /\ \A b \in Assignments : assignment[b].status = ACTIVE => assignment'[b] = assignment[b]
    BY <1>0, <2>1 DEF Unused, ACTIVE
  <2>5. Overlap(d, h.window)
    <3>1. h.window \in Period /\ Valid(h.window)
      BY <1>0, <2>1 DEF CallState, Sane, ItemStages
    <3> QED  BY <3>1, ShiftsAssumption DEF Overlap, Period, Valid
  <2> HIDE DEF n
  <2>6. ASSUME Len(n.targets) > 1, NEW i \in 1 .. (n.item - 1)
        PROVE  \E b \in Assignments : /\ assignment'[b].status = ACTIVE
                                      /\ assignment'[b].target = n.targets[i]
                                      /\ Overlap(assignment'[b], n.window)
    <3>1. CASE i = h.item
      BY <2>3, <2>4, <2>5, <3>1 DEF Current
    <3>2. CASE i \in 1 .. (h.item - 1)
      <4>1. Served(h, i)  BY <1>0, <2>1, <2>3, <2>6, <3>2 DEF Promise, ItemStages
      <4> QED  BY <2>3, <2>4, <4>1 DEF Served
    <3> QED  BY <2>3, <3>1, <3>2
  <2>7. n.pc \in ItemStages /\ Len(n.targets) > 1 => template'[n.ref].status \notin {"absent", "deleted"}
    BY <1>0, <2>1, <2>3 DEF Promise, ItemStages, Kept
  <2> HIDE DEF d
  <2>8. Promise(task[solo])'
    BY <2>2, <2>3, <2>6, <2>7
       DEF Promise, Served, Kept, ItemStages, TemplateList, AssignmentList
  <2> QED  BY <2>8 DEF SerialInv
<1>5. CASE answer(solo) \/ setStatus(solo) \/ removeTemplate(solo) \/ endDetection(solo)
  BY <1>5, Ends DEF answer, setStatus, removeTemplate, endDetection, Return
<1>6. ASSUME NEW s \in Subjects, findNotice(solo, s) PROVE SerialInv'
  <2> DEFINE m == [task[solo] EXCEPT !.pc = NoticeOf(task[solo].pc), !.ref = s]
             n == [task[solo] EXCEPT !.left = @ \ {s}]
  <2>1. UNCHANGED Stored /\ h.pc \in Looking  BY <1>6 DEF findNotice, Stored
  <2>2. CASE notices[s] = 0
    <3>1. Continue(solo, m)  BY <1>6, <2>2, Zenon DEF findNotice
    <3>2. /\ m.pc = NoticeOf(h.pc) /\ m.left = h.left
          /\ m.today = h.today /\ m.until = h.until
      BY <1>0 DEF CallState
    <3> HIDE DEF m
    <3>3. DueTemplates(m) = DueTemplates(h) /\ DueAssignments(m) = DueAssignments(h)
      BY <3>2 DEF DueTemplates, DueAssignments, Due
    <3>4. Promise(m)
      BY <1>0, <2>1, <3>2, <3>3
         DEF Promise, ItemStages, TemplateList, AssignmentList, NoticeOf, Looking
    <3> QED  BY <2>1, <3>1, <3>4, Quiet
  <2>3. CASE notices[s] # 0
    <3>1. Continue(solo, n)  BY <1>6, <2>3, Zenon DEF findNotice
    <3>2. /\ n.pc = h.pc /\ n.left = h.left \ {s}
          /\ n.today = h.today /\ n.until = h.until
      BY <1>0 DEF CallState
    <3>3. notices[s] > 0  BY <1>0, <2>3
    <3> HIDE DEF n
    <3>4. DueTemplates(n) = DueTemplates(h) /\ DueAssignments(n) = DueAssignments(h)
      BY <3>2 DEF DueTemplates, DueAssignments, Due
    <3>5. Promise(n)
      BY <1>0, <2>1, <3>2, <3>3, <3>4
         DEF Promise, ItemStages, TemplateList, AssignmentList, Looking
    <3> QED  BY <2>1, <3>1, <3>5, Quiet
  <2> QED  BY <2>2, <2>3
<1>7. ASSUME createNotice(solo) PROVE SerialInv'
  <2> DEFINE n == [task[solo] EXCEPT
              !.pc = IF task[solo].pc = "noticeTemplate" THEN "templates" ELSE "assignments",
              !.left = @ \ {task[solo].ref}]
  <2>1. /\ h.pc \in {"noticeTemplate", "noticeAssignment"} /\ h.ref \in Subjects
        /\ notices' = [notices EXCEPT ![h.ref] = @ + 1]
        /\ template' = template /\ assignment' = assignment
    BY <1>0, <1>7 DEF createNotice, Sane
  <2>2. Continue(solo, n)  BY <1>7, Zenon DEF createNotice
  <2>3. /\ n.pc = IF h.pc = "noticeTemplate" THEN "templates" ELSE "assignments"
        /\ n.left = h.left \ {h.ref} /\ n.today = h.today /\ n.until = h.until
    BY <1>0 DEF CallState
  <2>4. task'[solo] = n  BY <2>2 DEF Continue, TypeInv, TypeOK
  <2> HIDE DEF n
  <2>5. /\ notices'[h.ref] > 0
        /\ \A s \in Subjects : notices[s] > 0 => notices'[s] > 0
    BY <1>0, <2>1
  <2>6. /\ DueTemplates(task[solo])' = DueTemplates(h)
        /\ DueAssignments(task[solo])' = DueAssignments(h)
        /\ DueTemplates(h) \subseteq Subjects /\ DueAssignments(h) \subseteq Subjects
    BY <2>1, <2>3, <2>4 DEF DueTemplates, DueAssignments, Due, Subjects
  <2>7. Promise(task[solo])'
    BY <1>0, <2>1, <2>3, <2>4, <2>5, <2>6
       DEF Promise, ItemStages, TemplateList, AssignmentList
  <2> QED  BY <2>7 DEF SerialInv
<1>8. ASSUME findExpiringAssignments(solo) PROVE SerialInv'
  <2> DEFINE n == [task[solo] EXCEPT !.pc = "assignments", !.left = DueAssignments(task[solo])]
  <2>1. /\ n.pc = "assignments" /\ n.left = DueAssignments(h)
        /\ n.today = h.today /\ n.until = h.until
    BY <1>0 DEF CallState
  <2>2. /\ Continue(solo, n) /\ UNCHANGED Stored
        /\ h.pc = "templates" /\ h.left = {}
    BY <1>8, Zenon DEF findExpiringAssignments, Stored
  <2> HIDE DEF n
  <2>3. DueTemplates(n) = DueTemplates(h) /\ DueAssignments(n) = DueAssignments(h)
    BY <2>1 DEF DueTemplates, DueAssignments, Due
  <2>4. Promise(n)
    BY <1>0, <2>1, <2>2, <2>3 DEF Promise, ItemStages, TemplateList, AssignmentList
  <2> QED  BY <2>2, <2>4, Quiet
<1> QED  BY <1>1, <1>2, <1>3, <1>4, <1>5, <1>6, <1>7, <1>8 DEF Step

LEMMA NextSerial ==
    ASSUME NEW solo, Tasks = {solo}, TypeInv, SerialInv, [Next]_vars
    PROVE  SerialInv'
<1>1. CASE \E t \in Tasks : Call(t) \/ Step(t)
  BY <1>1, CallSerial, StepSerial
<1>2. CASE timePasses \/ UNCHANGED vars
  BY <1>2 DEF timePasses, vars, Stored, SerialInv, Promise, Conflicts, Served, Kept,
              DueTemplates, DueAssignments
<1>3. CASE restart
  <2>1. task'[solo] = Idle /\ Idle.pc \in Free  BY <1>3 DEF restart, Idle, Free
  <2> QED
    BY <2>1 DEF SerialInv, Promise, Free, ItemStages, TemplateList, AssignmentList
<1> QED  BY <1>1, <1>2, <1>3 DEF Next

\* An insertion meets none of the active assignments the query looks at.
LEMMA SerialInsertion ==
    ASSUME NEW solo, Tasks = {solo}, TypeInv, SerialInv, Next,
           NEW a \in Assignments, NEW b \in Assignments,
           assignment[a].status = "absent", assignment'[a].status # "absent",
           assignment[b].status = ACTIVE, assignment[b].target = assignment'[a].target,
           assignment[b].to # Indefinite \/ assignment'[a].to = Indefinite
    PROVE  ~Overlap(assignment'[a], assignment[b])
<1> DEFINE h == task[solo]
<1>0. /\ h \in CallState /\ Sane(h) /\ Promise(h)
      /\ assignment \in [Assignments -> AssignmentDoc]
  BY DEF TypeInv, TypeOK, SerialInv
<1>1. assignment' # assignment  OBVIOUS
<1>2. ~timePasses /\ ~restart /\ ~Call(solo)
  BY <1>1 DEF timePasses, restart, Stored, Call, assign, bulkAssign, updateStatus,
              createTemplate, updateTemplate, deleteTemplate, detectExpiringShifts
<1>3. Step(solo)  BY <1>2 DEF Next
<1>4. (\E c \in Assignments : insertAssignment(solo, c)) \/ setStatus(solo)
  BY <1>1, <1>3 DEF Step, findBulkTemplate, findTemplate, detectConflicts, answer,
                    removeTemplate, findNotice, createNotice, findExpiringAssignments,
                    endDetection, Stored
<1>5. CASE \E c \in Assignments : insertAssignment(solo, c)
  <2> DEFINE d == [status |-> ACTIVE, template |-> h.ref, target |-> Current(h),
                   from |-> h.window.from, to |-> h.window.to]
  <2>1. PICK c \in Assignments : insertAssignment(solo, c)  BY <1>5
  <2>2. h.pc = "insert" /\ assignment' = [assignment EXCEPT ![c] = d]
    BY <2>1 DEF insertAssignment
  <2>3. c = a /\ assignment'[a] = d  BY <1>0, <2>2
  <2>4. Conflicts(assignment, Current(h), h.window) = {}  BY <1>0, <2>2 DEF Promise
  <2>5. ~Meets(assignment[b], h.window)  BY <2>3, <2>4 DEF Conflicts
  <2>6. h.window \in Period /\ Valid(h.window)
    BY <1>0, <2>2 DEF CallState, Sane, ItemStages
  <2>7. assignment[b] \in AssignmentDoc  BY <1>0
  <2> DEFINE q == [from |-> assignment[b].from, to |-> assignment[b].to]
  <2>8. q \in Period /\ Valid(q) /\ ~Meets(q, h.window)
    BY <2>5, <2>7 DEF AssignmentDoc, Period, Valid, Meets, MeetsBounded, MeetsIndefinite
  <2>9. q.to # Indefinite \/ h.window.to = Indefinite  BY <2>3
  <2>10. ~Overlap(h.window, q)  BY <2>6, <2>8, <2>9, OverlapMeets
  <2> QED  BY <2>3, <2>10 DEF Overlap
<1>6. CASE setStatus(solo)
  <2>1. h.ref \in Assignments /\ assignment' = [assignment EXCEPT ![h.ref].status = h.status]
    BY <1>0, <1>6 DEF setStatus, Sane
  <2>2. a = h.ref  BY <1>0, <2>1
  <2>3. h.pc = "setStatus"  BY <1>6 DEF setStatus
  <2> QED  BY <1>0, <2>2, <2>3 DEF Promise
<1> QED  BY <1>4, <1>5, <1>6

\* While calls do not overlap, no shift is assigned over an active one of the
\* same target that has an end, and none without an end over any active one:
\* the three clauses of the conflict query leave no gap.
THEOREM SerialNoConflict ==
    ASSUME NEW solo, Tasks = {solo}
    PROVE  Spec => NoNewConflict
<1> DEFINE A == \A a, b \in Assignments :
                  (/\ assignment[a].status = "absent" /\ assignment'[a].status # "absent"
                   /\ assignment[b].status = ACTIVE
                   /\ assignment[b].target = assignment'[a].target
                   /\ (assignment[b].to # Indefinite \/ assignment'[a].to = Indefinite))
                  => ~Overlap(assignment'[a], assignment[b])
<1>1. TypeInv /\ SerialInv /\ [Next]_vars => [A]_vars  BY SerialInsertion
<1>2. TypeInv /\ SerialInv /\ [Next]_vars => SerialInv'  BY NextSerial
<1> QED  BY InitTyped, StepTyped, InitSerial, <1>1, <1>2, PTL DEF Spec, NoNewConflict

\* While calls do not overlap, a bulk assignment leaves every employee it is
\* done with on an active shift in the period it was asked for.
THEOREM SerialBulkServed ==
    ASSUME NEW solo, Tasks = {solo}
    PROVE  Spec => []BulkServed
<1>1. SerialInv => BulkServed  BY DEF SerialInv, Promise, BulkServed, ItemStages
<1>2. TypeInv /\ SerialInv /\ [Next]_vars => SerialInv'  BY NextSerial
<1> QED  BY InitTyped, StepTyped, InitSerial, <1>1, <1>2, PTL DEF Spec

\* While calls do not overlap, a detection that reaches its end leaves no
\* active document that expires between its two dates without a notice.
THEOREM SerialDetection ==
    ASSUME NEW solo, Tasks = {solo}
    PROVE  Spec => []DetectionComplete
<1>1. SerialInv => DetectionComplete
  BY DEF SerialInv, Promise, DetectionComplete, AssignmentList
<1>2. TypeInv /\ SerialInv /\ [Next]_vars => SerialInv'  BY NextSerial
<1> QED  BY InitTyped, StepTyped, InitSerial, <1>1, <1>2, PTL DEF Spec
=============================================================================
