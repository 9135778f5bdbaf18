---------------------------- MODULE LeaveCalendar ----------------------------
(***************************************************************************)
(* LeavesService.calendar: the calendar of one year and its blocked        *)
(* periods.  A handler is one action per database round trip.              *)
(*                                                                         *)
(* Mongoose keeps a version with every document for its arrays.  A push is *)
(* saved beside the pushes of others and raises the version; a splice      *)
(* writes the whole array, raises the version and is refused when the      *)
(* version is no longer the one that was read.  An update by query leaves  *)
(* the version as it is.                                                   *)
(***************************************************************************)
EXTENDS Naturals, Sequences, SequencesExt

CONSTANTS
    Tasks,          \* calls that can be in progress at the same time
    Calendars,      \* ids of calendar documents
    Periods,        \* blocked periods
    Contents,       \* what else a calendar may say
    Replacements,   \* the lists of periods that the bodies of updates set
    MaxPeriods,     \* bound: periods in one calendar
    None

VARIABLES
    calendar,   \* calendar[k]: the document of k
    task        \* task[t]: what the call t remembers between two awaits

vars == <<calendar, task>>

NoCalendar == [status |-> "absent", content |-> None, blockedPeriods |-> <<>>, version |-> 0]

Idle == [pc |-> "idle"]

Init == calendar = [k \in Calendars |-> NoCalendar] /\ task = [t \in Tasks |-> Idle]

-----------------------------------------------------------------------------
Ready(t) == task[t].pc = "idle"

Continue(t, h) == task' = [task EXCEPT ![t] = h]

\* A handler returns or throws.
Return(t) == Continue(t, Idle)

Kept(k) == calendar[k].status = "kept"

\* A calendar of the year is looked for, then one is inserted: no index keeps
\* a year from having two.
create(t, x) ==
    /\ Ready(t)
    /\ \A k \in Calendars : ~Kept(k)
    /\ Continue(t, [pc |-> "insert", content |-> x])
    /\ UNCHANGED calendar

insertCalendar(t, k) ==
    /\ task[t].pc = "insert"
    /\ calendar[k] = NoCalendar
    /\ calendar' = [calendar EXCEPT ![k] =
           [NoCalendar EXCEPT !.status = "kept", !.content = task[t].content]]
    /\ Return(t)

\* The body writes what it has, the periods only if it has some.
update(t, k, x, ps) ==
    /\ Ready(t)
    /\ Kept(k)
    /\ calendar' = [calendar EXCEPT ![k].content = x,
                                    ![k].blockedPeriods = IF ps = None THEN @ ELSE ps]
    /\ UNCHANGED task

remove(t, k) ==
    /\ Ready(t)
    /\ Kept(k)
    /\ calendar' = [calendar EXCEPT ![k].status = "deleted"]
    /\ UNCHANGED task

addBlockedPeriod(t, k, p) ==
    /\ Ready(t)
    /\ Kept(k)
    /\ Continue(t, [pc |-> "push", ref |-> k, period |-> p])
    /\ UNCHANGED calendar

\* A save of a calendar deleted meanwhile throws.
pushPeriod(t) ==
    LET k == task[t].ref IN
    /\ task[t].pc = "push"
    /\ Len(calendar[k].blockedPeriods) < MaxPeriods
    /\ calendar' = IF Kept(k)
                   THEN [calendar EXCEPT ![k].blockedPeriods = Append(@, task[t].period),
                                         ![k].version = @ + 1]
                   ELSE calendar
    /\ Return(t)

\* The index counts from zero and must lie within the list as read.
removeBlockedPeriod(t, k, index) ==
    /\ Ready(t)
    /\ Kept(k)
    /\ index < Len(calendar[k].blockedPeriods)
    /\ Continue(t, [pc |-> "splice", ref |-> k, version |-> calendar[k].version,
                    periods |-> RemoveAt(calendar[k].blockedPeriods, index + 1)])
    /\ UNCHANGED calendar

\* Mutant: the list is written whatever the version is.
splicePeriods_Unversioned(t) ==
    LET k == task[t].ref IN
    /\ task[t].pc = "splice"
    /\ calendar' = IF Kept(k)
                   THEN [calendar EXCEPT ![k].blockedPeriods = task[t].periods,
                                         ![k].version = @ + 1]
                   ELSE calendar
    /\ Return(t)

\* Throws when the calendar was deleted or its version has moved on.
splicePeriods(t) ==
    LET k == task[t].ref IN
    /\ task[t].pc = "splice"
    /\ calendar' = IF Kept(k) /\ calendar[k].version = task[t].version
                   THEN [calendar EXCEPT ![k].blockedPeriods = task[t].periods,
                                         ![k].version = @ + 1]
                   ELSE calendar
    /\ Return(t)

-----------------------------------------------------------------------------
\* A crash or redeploy loses the calls in progress.
restart ==
    /\ \E t \in Tasks : ~Ready(t)
    /\ task' = [t \in Tasks |-> Idle]
    /\ UNCHANGED calendar

Call(t) ==
    \/ \E x \in Contents : create(t, x)
    \/ \E k \in Calendars :
          \/ \E x \in Contents, ps \in Replacements \cup {None} : update(t, k, x, ps)
          \/ remove(t, k)
          \/ \E p \in Periods : addBlockedPeriod(t, k, p)
          \/ \E index \in 0 .. MaxPeriods : removeBlockedPeriod(t, k, index)

Step(t) == pushPeriod(t) \/ splicePeriods(t) \/ \E k \in Calendars : insertCalendar(t, k)

Next == restart \/ \E t \in Tasks : Call(t) \/ Step(t)

Spec == Init /\ [][Next]_vars

-----------------------------------------------------------------------------
(* Properties.                                                              *)

\* The stored documents have their types.
TypeOK ==
    calendar \in [Calendars -> [status : {"absent", "kept", "deleted"},
                                content : Contents \cup {None},
                                blockedPeriods : Seq(Periods), version : Nat]]

\* The bodies of updates leaving the periods alone, additions and removals that
\* overlap lose nothing: the list of a calendar changes by one period at its
\* end, or by one period taken out of it (addBlockedPeriod,
\* removeBlockedPeriod).
NoPeriodLost ==
    [][\A k \in Calendars :
          LET ps == calendar[k].blockedPeriods
              qs == calendar'[k].blockedPeriods
          IN  \/ qs = ps
              \/ \E p \in Periods : qs = Append(ps, p)
              \/ \E n \in 1 .. Len(ps) : qs = RemoveAt(ps, n)]_vars

\* While calls do not overlap, a year has one calendar.
OneCalendar == \A k, j \in Calendars : (Kept(k) /\ Kept(j)) => k = j
=============================================================================
