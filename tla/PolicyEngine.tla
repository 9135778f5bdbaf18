----------------------------- MODULE PolicyEngine ----------------------------
(***************************************************************************)
(* PolicyEngineService.computePolicyResults: what a day's punches come to  *)
(* under the policy in force, as operators.  When results are deleted and  *)
(* stored again is the matter of TimeExceptions.                           *)
(*                                                                         *)
(* Times are counted from the midnight of the record, PerMinute to the     *)
(* minute; the code's are milliseconds.  Multipliers and rates are whole   *)
(* numbers.                                                                *)
(***************************************************************************)
EXTENDS StoredRecords, Sequences, FiniteSetsExt

CONSTANT PerMinute

ASSUME PerMinuteAssumption == PerMinute \in Nat \ {0}

-----------------------------------------------------------------------------
(* The policy.                                                              *)

\* The four cases of $or in the query, a date that is not set among them.
InForce(p, date) ==
    LET since == p.effectiveFrom # None /\ p.effectiveFrom <= date
        until == p.effectiveTo # None /\ p.effectiveTo >= date
    IN  \/ since /\ until
        \/ since /\ p.effectiveTo = None
        \/ p.effectiveFrom = None /\ until
        \/ p.effectiveFrom = None /\ p.effectiveTo = None

Latest(S) == CHOOSE p \in S : \A q \in S : q.createdAt <= p.createdAt

\* The latest of the employee's own policies, or else of the global ones;
\* those of departments are not looked at.
getApplicablePolicy(policies, employee, date) ==
    LET found(scope) == {p \in policies : p.scope = scope /\ p.active /\ InForce(p, date)}
        own == {p \in found("EMPLOYEE") : p.employeeId = employee}
    IN  IF own # {} THEN Latest(own)
        ELSE IF found("GLOBAL") # {} THEN Latest(found("GLOBAL"))
        ELSE None

-----------------------------------------------------------------------------
(* The punches.                                                             *)

Before(punches, i, j) ==
    \/ punches[i].time < punches[j].time
    \/ punches[i].time = punches[j].time /\ i < j

\* The punches by time, those of one time as they were stored.
ByTime(punches) ==
    LET D == DOMAIN punches
        order == CHOOSE o \in [D -> D] : \A i, j \in D : i < j => Before(punches, o[i], o[j])
    IN  [i \in D |-> punches[order[i]]]

\* Mutant: an OUT leaves the IN before it in place for the next OUT.
WithPunch_Kept(sum, p) ==
    CASE p.type = "IN" -> [sum EXCEPT !.lastIn = p.time]
      [] p.type = "OUT" /\ sum.lastIn # None ->
            [sum EXCEPT !.total = @ + (p.time - sum.lastIn) \div PerMinute]
      [] OTHER -> sum

\* Of every stretch the whole minutes count.
WithPunch(sum, p) ==
    CASE p.type = "IN" -> [sum EXCEPT !.lastIn = p.time]
      [] p.type = "OUT" /\ sum.lastIn # None ->
            [total |-> sum.total + ((p.time - sum.lastIn) \div PerMinute), lastIn |-> None]
      [] OTHER -> sum

calculateWorkedMinutes(punches) ==
    LET sorted == ByTime(punches)
        sum[n \in 0 .. Len(punches)] ==
            IF n = 0 THEN [total |-> 0, lastIn |-> None] ELSE WithPunch(sum[n - 1], sorted[n])
    IN  sum[Len(punches)].total

applyRounding(minutes, rule, interval) ==
    IF interval = 0 THEN minutes
    ELSE CASE rule = "NONE" -> minutes
           [] rule = "ROUND_UP" -> -((-minutes) \div interval) * interval
           [] rule = "ROUND_DOWN" -> (minutes \div interval) * interval
           [] rule = "ROUND_NEAREST" -> ((2 * minutes + interval) \div (2 * interval)) * interval

AtLeast0(n) == IF n > 0 THEN n ELSE 0

\* By the first IN as stored, whatever its time.
calculateLateness(punches, scheduledStart, rule) ==
    LET ins == {i \in DOMAIN punches : punches[i].type = "IN"}
        grace == IF rule = None THEN 0 ELSE rule.gracePeriodMinutes
    IN  IF ins = {} THEN 0
        ELSE AtLeast0(punches[Min(ins)].time - scheduledStart - grace * PerMinute) \div PerMinute

isWeekend(date, p) == date % 7 \in p.weekendDays

-----------------------------------------------------------------------------
(* The results.  A day is a record with its punches, the date and schedule  *)
(* the caller gives, and the approved exceptions of the record.             *)

Values(day, p) ==
    LET worked == applyRounding(calculateWorkedMinutes(day.punches), p.roundingRule,
                                p.roundingIntervalMinutes)
        scheduled == day.scheduledMinutes
    IN  [worked |-> worked,
         late |-> IF day.scheduledStart # None /\ day.startDate = day.recordDate
                  THEN calculateLateness(day.punches, day.scheduledStart, p.latenessRule) ELSE 0,
         short |-> IF scheduled = 0 THEN 0 ELSE AtLeast0(scheduled - worked),
         over |-> IF scheduled = 0 THEN 0 ELSE AtLeast0(worked - scheduled)]

applyExceptions(types, v) ==
    [v EXCEPT !.late = IF "LATE" \in types THEN 0 ELSE @,
              !.short = IF "SHORT_TIME" \in types THEN 0 ELSE @]

\* A limit of 0 is none.
Capped(n, limit) == IF limit > 0 /\ n > limit THEN limit ELSE n

Penalty(type, amount, minutes) == [type |-> type, amount |-> amount, minutes |-> minutes]

LatenessPenalty(p, v) ==
    LET amount == Capped(Capped(v.late * p.latenessRule.deductionPerMinute,
                                p.latenessRule.maxDeductionPerDay), p.penaltyCapPerDay)
    IN  IF p.latenessRule # None /\ v.late > 0 /\ amount > 0
        THEN {Penalty("LATENESS", amount, v.late)} ELSE {}

ShortTimePenalty(p, v) ==
    LET effective == AtLeast0(v.short - p.shortTimeRule.gracePeriodMinutes)
        amount == Capped(effective * p.shortTimeRule.penaltyPerMinute, p.penaltyCapPerDay)
    IN  IF p.shortTimeRule # None /\ v.short > 0 /\ amount > 0
        THEN {Penalty("SHORT_TIME", amount, effective)} ELSE {}

computePenalties(day, p, v) ==
    LatenessPenalty(p, v) \cup ShortTimePenalty(p, v)
        \cup (IF day.hasMissedPunch THEN {Penalty("MISSED_PUNCH", 0, 0)} ELSE {})

Multiplier(p, weekend) ==
    IF weekend /\ p.overtimeRule.weekendMultiplier > 0 THEN p.overtimeRule.weekendMultiplier
    ELSE p.overtimeRule.multiplier

computeOvertime(day, p, v) ==
    LET minutes == Capped(v.over, p.overtimeRule.dailyCapMinutes)
        rate == Multiplier(p, isWeekend(day.recordDate, p))
    IN  IF p.overtimeRule # None /\ v.over > 0 /\ v.over >= p.overtimeRule.thresholdMinutes
        THEN {[minutes |-> minutes, amount |-> minutes * rate]} ELSE {}

computePolicyResults(day, p) ==
    LET v == applyExceptions(day.approved, Values(day, p))
    IN  [values |-> v, penalties |-> computePenalties(day, p, v),
         overtime |-> computeOvertime(day, p, v)]

-----------------------------------------------------------------------------
(* Properties.                                                              *)

\* The policy found is in force on the date by the plain reading of its two
\* dates, is the employee's own if any such is, and is missing only when
\* neither the employee nor everybody has one ("Priority: Employee-specific >
\* Department > Global", getApplicablePolicy; departments left out).
PolicyIsRight(policies, employee, date) ==
    LET applies(p) ==
            /\ p.active
            /\ p.effectiveFrom = None \/ p.effectiveFrom <= date
            /\ p.effectiveTo = None \/ date <= p.effectiveTo
            /\ p.scope = "GLOBAL" \/ (p.scope = "EMPLOYEE" /\ p.employeeId = employee)
        found == getApplicablePolicy(policies, employee, date)
    IN  IF found = None THEN \A p \in policies : ~applies(p)
        ELSE /\ applies(found)
             /\ found.scope = "GLOBAL" =>
                    \A p \in policies : applies(p) => p.scope = "GLOBAL"

\* An IN, and the punch after it when that is an OUT.
Paired(punches, i, j) ==
    /\ punches[i].type = "IN" /\ punches[j].type = "OUT" /\ Before(punches, i, j)
    /\ \A k \in DOMAIN punches : ~(Before(punches, i, k) /\ Before(punches, k, j))

Pairs(punches) ==
    {p \in (DOMAIN punches) \X (DOMAIN punches) : Paired(punches, p[1], p[2])}

\* The time that lies between an IN and the punch after it when that is an OUT.
Present(punches) ==
    UNION {punches[p[1]].time .. punches[p[2]].time - 1 : p \in Pairs(punches)}

\* What the flooring of each stretch may cost: less than a minute of each.
Floored(punches) == Cardinality(Pairs(punches)) * (PerMinute - 1)

\* The minutes worked are the time present, in whatever order the punches were
\* stored, but for less than a minute of each stretch, and never more ("Matches
\* IN/OUT pairs and sums the time differences", calculateWorkedMinutes).
WorkedIsPaired(punches) ==
    LET worked == calculateWorkedMinutes(punches) * PerMinute
        present == Cardinality(Present(punches))
    IN  worked <= present /\ present <= worked + Floored(punches)

\* Whoever was present for what was scheduled, and for what the flooring may cost,
\* is not penalised for short time when the policy does not round down; an
\* approved exception leaves no penalty of its kind; a day that brings overtime
\* brings no penalty for short time; and every penalty keeps to the policy's cap.
ResultsAreFair(day, p) ==
    LET r == computePolicyResults(day, p)
        of(type) == {x \in r.penalties : x.type = type}
        due == day.scheduledMinutes * PerMinute + Floored(day.punches)
    IN  /\ Cardinality(Present(day.punches)) >= due /\ p.roundingRule \in {"NONE", "ROUND_UP"}
               => of("SHORT_TIME") = {}
        /\ "LATE" \in day.approved => of("LATENESS") = {}
        /\ "SHORT_TIME" \in day.approved => of("SHORT_TIME") = {}
        /\ r.overtime = {} \/ of("SHORT_TIME") = {}
        /\ p.penaltyCapPerDay > 0 => \A x \in r.penalties : x.amount <= p.penaltyCapPerDay
=============================================================================
