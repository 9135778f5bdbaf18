------------------------------- MODULE Shifts --------------------------------
(***************************************************************************)
(* ScheduleAssignmentService, ShiftTemplateService and ShiftExpiryService: *)
(* who works which shift in which period, and the job that gives notice of *)
(* what is about to expire.                                                *)
(*                                                                         *)
(* A handler is one action per database round trip.  Dates are integers;   *)
(* a period without an end has the end Indefinite (null in the database).  *)
(* A target is an employee, a department or a position: two assignments    *)
(* can only conflict when they name the same one.  What a template says of *)
(* the hours worked guards nothing here and is left out.                   *)
(***************************************************************************)
EXTENDS Integers, Sequences, FiniteSets

CONSTANTS
    Tasks,              \* calls that can be in progress at the same time
    Templates,          \* ids of shift template documents
    Assignments,        \* ids of schedule assignment documents
    Targets,
    Windows,            \* the periods [from, to] clients ask for
    Lists,              \* the lists of employees clients assign in bulk
    AssignmentStatuses, \* the statuses of assignments clients set
    TemplateStatuses,   \* the statuses of templates clients set
    Expiries,           \* the expiration dates of templates clients set
    Horizons,           \* the days before expiry the job is started with
    LastTime,           \* bound: the last moment
    Indefinite,
    NoDocument

ACTIVE == "Active"
EXPIRED == "Expired"

ASSUME ShiftsAssumption ==
    /\ IsFiniteSet(Tasks) /\ IsFiniteSet(Assignments)
    /\ Indefinite \notin Int
    /\ NoDocument \notin Templates \cup Assignments
    /\ Templates \cap Assignments = {}
    /\ Windows \subseteq [from : Int, to : Int \cup {Indefinite}]
    /\ Lists \subseteq Seq(Targets) \ {<<>>}
    /\ AssignmentStatuses \subseteq {ACTIVE, "Inactive", "Cancelled", "Approved", EXPIRED}
    /\ TemplateStatuses \subseteq {ACTIVE, "Inactive", EXPIRED, "Cancelled"}
    /\ Expiries \subseteq Int \cup {Indefinite}
    /\ Horizons \subseteq Int
    /\ LastTime \in Int

VARIABLES
    now,        \* the clock of the server
    template,   \* template[p]: the document of p
    assignment, \* assignment[a]: the document of a
    notices,    \* notices[s]: how many pending notices name s
    task        \* task[t]: what the call t remembers between two awaits

vars == <<now, template, assignment, notices, task>>

Stored == <<template, assignment, notices>>

\* What a notice may be about.
Subjects == Templates \cup Assignments

NoTemplate == [status |-> "absent", expires |-> Indefinite]

NoAssignment == [status |-> "absent", template |-> NoDocument, target |-> NoDocument,
                 from |-> 0, to |-> Indefinite]

Always == [from |-> 0, to |-> Indefinite]

\* today and until are the two dates the expiry job computes when it starts.
Idle == [pc |-> "idle", ref |-> NoDocument, status |-> ACTIVE,
         targets |-> <<>>, item |-> 1, window |-> Always,
         today |-> 0, until |-> 0, left |-> {}]

Init ==
    /\ now = 0
    /\ template = [p \in Templates |-> NoTemplate]
    /\ assignment = [a \in Assignments |-> NoAssignment]
    /\ notices = [s \in Subjects |-> 0]
    /\ task = [t \in Tasks |-> Idle]

-----------------------------------------------------------------------------
Kept(p) == template[p].status \notin {"absent", "deleted"}

Unused == {a \in Assignments : assignment[a].status = "absent"}

Ready(t) == task[t].pc = "idle"

Continue(t, h) == task' = [task EXCEPT ![t] = h]

\* A handler returns or throws.
Return(t) == Continue(t, Idle)

-----------------------------------------------------------------------------
(* Assignments.                                                             *)

\* validateAssignment: new Date(from) >= new Date(to) is refused.
Valid(w) == w.to # Indefinite => w.from < w.to

\* Mutant: a period inside the one asked for is missed.
MeetsBounded_NoInner(a, w) ==
    /\ a.to # Indefinite
    /\ \/ a.from <= w.from /\ a.to >= w.from
       \/ a.from <= w.to /\ a.to >= w.to

\* The date clauses of the conflict query: a comparison with a stored null
\* does not match.
MeetsBounded(a, w) ==
    /\ a.to # Indefinite
    /\ \/ a.from <= w.from /\ a.to >= w.from
       \/ a.from <= w.to /\ a.to >= w.to
       \/ a.from >= w.from /\ a.to <= w.to

MeetsIndefinite(a, w) == a.to = Indefinite \/ a.to >= w.from

Meets(a, w) == IF w.to = Indefinite THEN MeetsIndefinite(a, w) ELSE MeetsBounded(a, w)

Conflicts(stored, e, w) ==
    {a \in Assignments : /\ stored[a].status = ACTIVE
                         /\ stored[a].target = e
                         /\ Meets(stored[a], w)}

\* The employee (department, position) a call is busy with.
Current(h) == h.targets[h.item]

\* Mutant: the first item that is done or fails ends the loop.
NextItem_Stops(h) == [h EXCEPT !.pc = "answer", !.item = Len(h.targets) + 1]

\* What follows when one target is done, or has failed: the next of a bulk
\* assignment, or the answer.
NextItem(h) == IF h.item < Len(h.targets)
               THEN [h EXCEPT !.pc = "template", !.item = h.item + 1]
               ELSE [h EXCEPT !.pc = "answer", !.item = h.item + 1]

assign(t, p, e, w) ==
    /\ Ready(t)
    /\ Unused # {}
    /\ Valid(w)
    /\ Continue(t, [Idle EXCEPT !.pc = "template", !.ref = p, !.targets = <<e>>,
                                !.window = w])
    /\ UNCHANGED <<now, Stored>>

bulkAssign(t, p, list, w) ==
    /\ Ready(t)
    /\ Cardinality(Unused) >= Len(list)
    /\ Continue(t, [Idle EXCEPT !.pc = "bulk", !.ref = p, !.targets = list, !.window = w])
    /\ UNCHANGED <<now, Stored>>

\* A period that validateAssignment refuses fails every item, before any await.
findBulkTemplate(t) ==
    /\ task[t].pc = "bulk"
    /\ IF Kept(task[t].ref) /\ Valid(task[t].window)
       THEN Continue(t, [task[t] EXCEPT !.pc = "template"])
       ELSE Return(t)
    /\ UNCHANGED <<now, Stored>>

findTemplate(t) ==
    /\ task[t].pc = "template"
    /\ Continue(t, IF Kept(task[t].ref)
                   THEN [task[t] EXCEPT !.pc = "conflicts"]
                   ELSE NextItem(task[t]))
    /\ UNCHANGED <<now, Stored>>

detectConflicts(t) ==
    /\ task[t].pc = "conflicts"
    /\ Continue(t, IF Conflicts(assignment, Current(task[t]), task[t].window) = {}
                   THEN [task[t] EXCEPT !.pc = "insert"]
                   ELSE NextItem(task[t]))
    /\ UNCHANGED <<now, Stored>>

insertAssignment(t, a) ==
    /\ task[t].pc = "insert"
    /\ a \in Unused
    /\ assignment' = [assignment EXCEPT ![a] =
           [status |-> ACTIVE, template |-> task[t].ref, target |-> Current(task[t]),
            from |-> task[t].window.from, to |-> task[t].window.to]]
    /\ Continue(t, NextItem(task[t]))
    /\ UNCHANGED <<now, template, notices>>

answer(t) ==
    /\ task[t].pc = "answer"
    /\ Return(t)
    /\ UNCHANGED <<now, Stored>>

\* Any status may follow any other; only Expired is compared with the clock.
updateStatus(t, a, s) ==
    /\ Ready(t)
    /\ assignment[a].status # "absent"
    /\ s = EXPIRED /\ assignment[a].to # Indefinite => assignment[a].to <= now
    /\ Continue(t, [Idle EXCEPT !.pc = "setStatus", !.ref = a, !.status = s])
    /\ UNCHANGED <<now, Stored>>

setStatus(t) ==
    /\ task[t].pc = "setStatus"
    /\ assignment' = [assignment EXCEPT ![task[t].ref].status = task[t].status]
    /\ Return(t)
    /\ UNCHANGED <<now, template, notices>>

-----------------------------------------------------------------------------
(* Shift templates.                                                         *)

createTemplate(t, p, s, x) ==
    /\ Ready(t)
    /\ template[p].status = "absent"
    /\ template' = [template EXCEPT ![p] = [status |-> s, expires |-> x]]
    /\ UNCHANGED <<now, assignment, notices, task>>

\* findByIdAndUpdate: one round trip writes what it finds.
updateTemplate(t, p, s, x) ==
    /\ Ready(t)
    /\ Kept(p)
    /\ template' = [template EXCEPT ![p] = [status |-> s, expires |-> x]]
    /\ UNCHANGED <<now, assignment, notices, task>>

\* Refused while active assignments use the template.
deleteTemplate(t, p) ==
    /\ Ready(t)
    /\ Kept(p)
    /\ \A a \in Assignments : assignment[a].status = ACTIVE => assignment[a].template # p
    /\ Continue(t, [Idle EXCEPT !.pc = "delete", !.ref = p])
    /\ UNCHANGED <<now, Stored>>

removeTemplate(t) ==
    /\ task[t].pc = "delete"
    /\ template' = [template EXCEPT ![task[t].ref].status = IF Kept(task[t].ref)
                                                            THEN "deleted" ELSE @]
    /\ Return(t)
    /\ UNCHANGED <<now, assignment, notices>>

-----------------------------------------------------------------------------
(* The expiry job, started daily by the scheduler and by hand.              *)

Due(status, date, h) ==
    status = ACTIVE /\ date # Indefinite /\ h.today <= date /\ date <= h.until

DueTemplates(h) == {p \in Templates : Due(template[p].status, template[p].expires, h)}

DueAssignments(h) == {a \in Assignments : Due(assignment[a].status, assignment[a].to, h)}

detectExpiringShifts(t, n) ==
    /\ Ready(t)
    /\ LET h == [Idle EXCEPT !.pc = "templates", !.today = now, !.until = now + n]
       IN  Continue(t, [h EXCEPT !.left = DueTemplates(h)])
    /\ UNCHANGED <<now, Stored>>

Looking == {"templates", "assignments"}

NoticeOf(list) == IF list = "templates" THEN "noticeTemplate" ELSE "noticeAssignment"

\* Mutant: a notice is created whatever the lookup finds.
findNotice_Unchecked(t, s) ==
    /\ task[t].pc \in Looking
    /\ s \in task[t].left
    /\ Continue(t, [task[t] EXCEPT !.pc = NoticeOf(task[t].pc), !.ref = s])
    /\ UNCHANGED <<now, Stored>>

\* The notice of one document of the list: created when the lookup finds none.
findNotice(t, s) ==
    /\ task[t].pc \in Looking
    /\ s \in task[t].left
    /\ Continue(t, IF notices[s] = 0
                   THEN [task[t] EXCEPT !.pc = NoticeOf(task[t].pc), !.ref = s]
                   ELSE [task[t] EXCEPT !.left = @ \ {s}])
    /\ UNCHANGED <<now, Stored>>

createNotice(t) ==
    /\ task[t].pc \in {"noticeTemplate", "noticeAssignment"}
    /\ notices' = [notices EXCEPT ![task[t].ref] = @ + 1]
    /\ Continue(t, [task[t] EXCEPT
           !.pc = IF task[t].pc = "noticeTemplate" THEN "templates" ELSE "assignments",
           !.left = @ \ {task[t].ref}])
    /\ UNCHANGED <<now, template, assignment>>

\* Mutant: the second list is never read.
findExpiringAssignments_None(t) ==
    /\ task[t].pc = "templates" /\ task[t].left = {}
    /\ Continue(t, [task[t] EXCEPT !.pc = "assignments"])
    /\ UNCHANGED <<now, Stored>>

findExpiringAssignments(t) ==
    /\ task[t].pc = "templates" /\ task[t].left = {}
    /\ Continue(t, [task[t] EXCEPT !.pc = "assignments", !.left = DueAssignments(task[t])])
    /\ UNCHANGED <<now, Stored>>

endDetection(t) ==
    /\ task[t].pc = "assignments" /\ task[t].left = {}
    /\ Return(t)
    /\ UNCHANGED <<now, Stored>>

-----------------------------------------------------------------------------
timePasses ==
    /\ now < LastTime
    /\ now' = now + 1
    /\ UNCHANGED <<Stored, task>>

\* A crash or redeploy loses the calls in progress.
restart ==
    /\ \E t \in Tasks : ~Ready(t)
    /\ task' = [t \in Tasks |-> Idle]
    /\ UNCHANGED <<now, Stored>>

Call(t) ==
    \/ \E p \in Templates, e \in Targets, w \in Windows : assign(t, p, e, w)
    \/ \E p \in Templates, l \in Lists, w \in Windows : bulkAssign(t, p, l, w)
    \/ \E a \in Assignments, s \in AssignmentStatuses : updateStatus(t, a, s)
    \/ \E p \in Templates, s \in TemplateStatuses, x \in Expiries :
          createTemplate(t, p, s, x) \/ updateTemplate(t, p, s, x)
    \/ \E p \in Templates : deleteTemplate(t, p)
    \/ \E n \in Horizons : detectExpiringShifts(t, n)

Step(t) ==
    \/ findBulkTemplate(t) \/ findTemplate(t) \/ detectConflicts(t)
    \/ \E a \in Assignments : insertAssignment(t, a)
    \/ answer(t) \/ setStatus(t) \/ removeTemplate(t)
    \/ \E s \in Subjects : findNotice(t, s)
    \/ createNotice(t) \/ findExpiringAssignments(t) \/ endDetection(t)

Next == timePasses \/ restart \/ \E t \in Tasks : Call(t) \/ Step(t)

Spec == Init /\ [][Next]_vars

-----------------------------------------------------------------------------
(* Properties.                                                              *)

PcValues == {"idle", "bulk", "template", "conflicts", "insert", "answer", "setStatus",
             "delete", "templates", "assignments", "noticeTemplate", "noticeAssignment"}

Period == [from : Int, to : Int \cup {Indefinite}]

AssignmentDoc ==
    {d \in [status : AssignmentStatuses \cup {"absent", ACTIVE},
            template : Templates \cup {NoDocument}, target : Targets \cup {NoDocument},
            from : Int, to : Int \cup {Indefinite}] : d.to # Indefinite => d.from < d.to}

TemplateDoc == [status : TemplateStatuses \cup {"absent", "deleted"},
                expires : Int \cup {Indefinite}]

CallState == [pc : PcValues, ref : Subjects \cup {NoDocument},
              status : AssignmentStatuses \cup {ACTIVE},
              targets : Seq(Targets), item : Nat, window : Period,
              today : Int, until : Int, left : SUBSET Subjects]

\* The documents and what the calls remember have their types; a stored
\* period that ends starts before it ends.
TypeOK ==
    /\ now \in Int
    /\ template \in [Templates -> TemplateDoc]
    /\ assignment \in [Assignments -> AssignmentDoc]
    /\ notices \in [Subjects -> Nat]
    /\ task \in [Tasks -> CallState]

\* Two periods have a moment in common; both ends belong to a period.
Overlap(a, b) == /\ b.to # Indefinite => a.from <= b.to
                 /\ a.to # Indefinite => b.from <= a.to

\* When calls do not overlap, no shift is assigned over an active one of the
\* same employee, department or position, where the active one has an end or
\* the new one has none (assign, detectConflicts).
NoNewConflict ==
    [][\A a, b \in Assignments :
          (/\ assignment[a].status = "absent" /\ assignment'[a].status # "absent"
           /\ assignment[b].status = ACTIVE
           /\ assignment[b].target = assignment'[a].target
           /\ (assignment[b].to # Indefinite \/ assignment'[a].to = Indefinite))
          => ~Overlap(assignment'[a], assignment[b])]_vars

\* Two active assignments of one target have no moment in common: what the
\* refusal "Resolve conflicts before creating new assignment" of assign is
\* there for.
NoDoubleBooking ==
    [][\A a, b \in Assignments :
          (/\ assignment[a].status = "absent" /\ assignment'[a].status # "absent"
           /\ assignment[b].status = ACTIVE
           /\ assignment[b].target = assignment'[a].target)
          => ~Overlap(assignment'[a], assignment[b])]_vars

Served(h, i) ==
    \E a \in Assignments : /\ assignment[a].status = ACTIVE
                           /\ assignment[a].target = h.targets[i]
                           /\ Overlap(assignment[a], h.window)

\* When calls do not overlap, a bulk assignment leaves every employee it is
\* done with on an active shift in the period: one employee's conflict stops
\* neither the ones before nor the ones after (bulkAssign's try and catch).
BulkServed ==
    \A t \in Tasks :
        task[t].pc \in {"template", "conflicts", "insert", "answer"} /\ Len(task[t].targets) > 1
            => \A i \in 1 .. (task[t].item - 1) : Served(task[t], i)

\* A document gets at most as many pending notices as detections can look for
\* one at the same time: one, when the job never overlaps itself, however
\* often it is started and cut short (detectExpiringShifts).
NoticesBounded == \A s \in Subjects : notices[s] <= Cardinality(Tasks)

\* When calls do not overlap, a detection that gets to its end has given notice
\* of every active template and assignment that expires between the two dates
\* it computed at its start, whatever earlier detections did or left undone.
DetectionComplete ==
    \A t \in Tasks :
        task[t].pc = "assignments" /\ task[t].left = {} =>
            \A s \in DueTemplates(task[t]) \cup DueAssignments(task[t]) : notices[s] > 0
=============================================================================
