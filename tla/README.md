# Formal models of the HR system

This directory holds TLA+ models of the HR system in `src/` (a NestJS/Mongoose
backend over MongoDB and a Next.js frontend), the TLC configurations that check
them on small instances, and TLAPS proofs of their main properties for every
instance.  Paths below are relative to `src/backend` unless they say otherwise.

- [1. The system](#1-the-system): components, state, operations, interactions,
  what is hard, what must hold
- [2. How the code is modelled](#2-how-the-code-is-modelled)
- [3. The modules](#3-the-modules)
- [4. The runs](#4-the-runs)
- [5. The proofs](#5-the-proofs)
- [6. Disagreements found](#6-disagreements-found)
- [7. What is not modelled](#7-what-is-not-modelled)
- [8. Plan](#8-plan)

## 1. The system

One Node process serves HTTP.  Every component is a NestJS service that keeps
all its state in MongoDB collections and none in memory (the one exception is
the notification and log arrays of time management).  Handlers are `async`
functions that load documents, test them, change them and save them; nothing
uses transactions, sessions, optimistic concurrency or locks.  So the
concurrency of the system is this: between two `await`s a handler runs alone;
at every `await` any other handler may run; and the process may die at any
`await`, keeping what was saved.

`app.module.ts` wires the leaves, employee-profile and auth modules (leaves
pulls in time management); the other subsystems are complete modules of the
repository that this file does not import yet.

| component | state it keeps | operations | hard behaviours | what makes it correct |
|---|---|---|---|---|
| **Leaves** `leaves/` | entitlement per employee, leave type and year; requests with a status and an approval flow; adjustments; types, categories, policies; calendar of a year | create/update/cancel a request, manager and HR decisions, bulk HR processing, entitlement create/update/adjust/remove, adjustment create/approve, calendar and blocked periods | balance read, computed and saved in separate round trips; status checked before and saved after an await; balance saved before the request, with an id in between that may not be one; loop over items that can fail | no negative balance, days reserved are covered and released exactly once, two-stage approval, duration frozen once decided, one entitlement per year |
| **Payroll execution** `payroll-execution/` | payroll runs (status, payment status), employee details, payslips, signing bonuses, termination benefits | create, calculate, review, edit, send for approvals, final approval, lock/unlock, payslips; approve/override bonuses and benefits | several routes through one status; status checked before many awaits and saved after; run ids computed from the latest one; "one run per period" by look-then-insert; errors swallowed after approval | no payment without both approvals, a locked run is not modified, one active run per period and entity, payslips only for approved runs, at most one per employee |
| **Payroll configuration** `payroll-configuration/` | pay grades, allowances, tax rules, insurance brackets... each `draft / approved / rejected`; company-wide settings | create, edit, approve, reject, delete | the draft check and the update are separate round trips | an approved configuration does not change |
| **Payroll tracking** `payroll-tracking/` | claims, disputes, refunds with statuses | create, review steps, refund creation | status moves are unguarded; ids by look-then-insert | a refund names a claim or dispute that exists; reports agree with the payslips |
| **Recruitment** `recruitment/` | requisitions, applications with stage and status, history, interviews and feedback, offers with approvals, notifications | publish, apply, move status, interview, feedback, offer create/approve/respond, onboarding hand-over | look-then-insert, push to arrays then count, several documents per decision | an offer is finally approved only with grounds, an acceptance is on file only after its consequences, an interview is completed only with enough feedback |
| **Employee profile** `employee-profile/` | profiles, change requests, disputes, auth | create, update, deactivate, change request create/approve/reject/withdraw | decision without status guard; two documents per approval | a request is decided once; what is applied was approved |
| **Organization structure** `organization-structure/` | departments, positions, reporting lines, assignments | create/update/deactivate, set/remove reporting line, hierarchy views | reporting lines set with no check for cycles; the walk that would find one follows the line up and may not end | the reporting graph stays a forest, every walk ends |
| **Time management: attendance** `time-management/` | attendance records with punches, time exceptions, corrections | punch, correct, detect missed punches, approve/reject/escalate an exception | read-modify-write of the punch array, decision guards | an exception is decided once, minutes worked match the punches |
| **Time management: shifts** `time-management/Shift/` | shift templates, schedule assignments, expiry notices | define, assign, bulk-assign, rotate, update, expire | conflict check then insert, open-ended assignments, scheduler ticks | no two active assignments of one employee overlap |
| **Time management: policy** `time-management/policy/` | policies, results (penalties and overtime) | select the policy of an employee, compute lateness, overtime, short time, penalties; recalculate | priority of scopes, rounding, thresholds; pending results are deleted and inserted again | the computation agrees with the rules at boundaries, results do not pile up |
| **Time management: payroll** `time-management/payroll/` | logs of synchronisations | payload, validation, synchronisation with retries; closing report and escalation, which write nothing | a save after the sending may fail; a retry overtakes the call it repeats | a completed synchronisation stays so; what validation accepts is complete |
| **Time management: reporting** `time-management/reporting/` | none | reports by page, exports | the last page, empty results | the pages together are the export |
| **Performance** `performance/` | cycles, templates, assignments, appraisals, disputes | create/activate/close a cycle, submit, publish, acknowledge, dispute, resolve | several documents per step, window of the dispute; the body of an update is assigned to the record | an adjusted dispute names its resolver |
| **Guards, controllers, DTOs, frontend** | none | authentication and role filters, request parsing, pages | route order | not state machines; see section 7 |

Interactions.  The services call one another by injected methods or share
collections: payroll execution reads profiles, contracts, approved payroll
configurations, approved refunds, leave requests and attendance; recruitment
hands an accepted offer to onboarding; time management feeds payroll.  There
are no messages and no queues; schedulers are `setInterval`-like ticks of the
same process.

## 2. How the code is modelled

- **One action per database round trip.**  A handler is cut at the awaits where
  another handler can make a difference.  What it carries across (the documents
  as it read them and as it will save them) is a record `task[t]`.  Each `t` is
  a call in progress: `Tasks` bounds how many overlap.
- **`doc.save()`** (`MongooseDoc.tla`, external) writes only the fields changed
  since the document was read, as absolute values: a save neither restores nor
  looks at the fields another call changed meanwhile.  `push` on an array is
  kept beside the pushes of others.  A save of a deleted document throws.
- **Schema validators and unique indexes** are part of the save.
- **A restart** forgets every `task` and keeps every document.
- **Ids, users, dates, texts** are model values, small sets or left out.
- **A computation that writes nothing** (pay, the policy engine, reports) is a
  set of operators or, where it loops over documents, an action per round.

## 3. The modules

| module | models | built on |
|---|---|---|
| `MongooseDoc` | `doc.save()` (external) | |
| `LeaveBalance` | the arithmetic of an entitlement document and the checks around it | |
| `LeaveRequests` | the calls on requests, entitlements and adjustments | `LeaveBalance`, `MongooseDoc` |
| `LeaveLedger` | the abstract promise: days held and days used within the days entitled | |
| `LeaveAccounting` | sums over the requests, and `LeaveRequests` as an implementation of `LeaveLedger` | `LeaveRequests`, `LeaveLedger` |
| `PayrollRuns` | payroll runs, employee details, payslips | `MongooseDoc` |
| `Recruitment` | applications, offers, interviews and their feedback | `MongooseDoc` |
| `Shifts` | shift assignments, templates, the expiry job | |
| `PayrollConfiguration` | configuration documents and their approval | `MongooseDoc` |
| `PayrollTracking`, `ChangeRequests`, `Organization`, `Appraisals`, `Bonuses`, `Requisitions`, `LeaveCalendar`, `LeavePolicies`, `PayrollSync`, `TimeExceptions` | one service, or part of one, each | most on `MongooseDoc` |
| `Desks` | the eleven services above as desks of one server | `PayrollConfiguration`, instances of the others |
| `PayCalculation` | what an employee earns in a run | |
| `StoredRecords` | a field that is not set, the sum of an amount over records | |
| `PolicyEngine`, `PrePayroll`, `PayReports`, `Reports` | computations over stored documents, as operators | `StoredRecords` |
| `Calculations` | an employee's pay, or a question put to one of these four | `PayCalculation` and these four |
| `MCLeaveRequests`, `MCPayrollRuns`, `MCRecruitment`, `MCShifts`, `MCDesks`, `MCCalculations` | values for the constants, symmetries, bounds | the above |
| `SumProofs` | lemmas: induction over a finite set, sums over finite sets | TLAPS |
| `LeaveRequestsProofs`, `LeaveSerialProofs`, `PayrollRunsProofs`, `RecruitmentProofs`, `ShiftsProofs`, `DesksProofs`, `CalculationsProofs` | theorems and proofs | the above, TLAPS |

### Leaves

| in the module | in `leaves/leaves.service.ts` |
|---|---|
| `ent[e]`, `entLife[e]` | the `LeaveEntitlement` documents of one employee and leave type (`YearOf` gives their years), and whether each is unborn, live or deleted |
| `req[r]`, `flow[r]` | status and duration of a request; how often each decision is in its approval flow |
| `adj[a]` | whether an adjustment is on record and has been approved |
| `task[t].pc` | which await a call is at: `findEnt`/`saveEnt` (a balance move), `insertReq`/`saveReq`, `bulk`/`hr` (the loop of `bulkProcess`), `insertEnt`, `saveAdj` |
| `create`, `update`, `cancel`, `managerApprove`, `managerReject`, `bulkProcess`, `hrApprove`, `hrReject` | the methods of those names |
| `findEntitlement`, `saveEntitlement`, `refuseMove`, `loseEntitlement` | `getEntitlementOrThrow`, then `reservePending`, `releasePending`, `consumePendingToTaken`, `revertTaken`, or the bodies of `leaveEntitlement.update` and `adjustBalance`, and the save that may throw |

`LeaveBalance` keeps the five numeric fields whose relation matters and the
validators that every save runs (`min: 0`).  A move computes all fields in
memory and `Saved` writes only those that changed, so that two overlapping
moves can mix their fields as they do in MongoDB.  `getEntitlementOrThrow` may
find any live document of the employee and leave type, because its filter names
no year.

After the balance is saved, most handlers build an id from the body or the
caller (`new Types.ObjectId`), which throws on a malformed one; the DTOs check
only that it is a string, and `main.ts` installs no pipe.  So a call carries
`id`, and ends after its `saveEntitlement` when that is `malformed`, without the
save of its request or adjustment.  `Malformed` is the set of operations in
whose calls such an id can occur.

### Payroll runs

| in the module | in `payroll-execution/payroll-execution.service.ts` |
|---|---|
| `run[r]` | status, payment status, the two approval dates, total and number of a run |
| `detail[r][e]`, `slip[r][e]` | the details and payslips on file for an employee, as sequences: there may be more than one |
| `pay[e]` | what a calculation of `e` would give now (`ok`, `draws`: whether it passes validation and does not throw; `net` pay; `grave`: no account or more than 60% deducted; `listed`: an insurance or refund that the payslip schema refuses); input to the runs, it may change at any time |
| `process`, `generateDraft`, `calculate`, `edit`, `approve`, `reject`, `sendForManagerApproval`, `sendForFinanceApproval`, `managerReviewAndApprove`, `finalApproval`, `lock`, `unlock`, `payslip`... | the handlers; two routes lead to most statuses and both are modelled |

`detectPayrollIrregularities` grades a stored detail as `grave`, or as a `Spike`
against what the previous approved or locked run paid the employee.  That run is
of another period: what it paid (`Earlier`) is chosen anew at each detection.
`here` says whether a run is of the period and entity at hand; an edit may move
it away and back.

A call that continues in another (`process` in `calculate`, `finalApproval` in
the distribution of payslips) keeps its continuation in `task[t].then`.

### Recruitment

| in the module | in `recruitment/recruitment.service.ts` |
|---|---|
| `application[a]`, `history[a]` | status of an application, and the statuses its history documents record |
| `offer[o]` | response, final status, the candidate's signature, and how many entries of `approvers` approve or not; `PushedOffer` saves approvals as a `$push` beside those of others |
| `onboarding` | the offers handed over (`triggerOnboarding`) |
| `interview[i]`, `feedback[i][m]` | status and panel, and the assessment results on file |

### Shifts

| in the module | in `time-management/Shift/services/` |
|---|---|
| `assignment[a]` | template, target, period and status of a schedule assignment; `Indefinite` is the stored null |
| `template[p]` | status and expiration date |
| `notices[s]` | how many notifications name a template or an assignment; nothing in the code moves one on from `pending` |
| `assign`, `bulkAssign`, `findTemplate`, `detectConflicts`, `insertAssignment`, `updateStatus`... | `schedule-assignment.service.ts` |
| `createTemplate`, `updateTemplate`, `deleteTemplate` | `shift-template.service.ts` |
| `detectExpiringShifts`, `findNotice`, `createNotice`, `findExpiringAssignments` | `shift-expiry.service.ts`, called by the cron job and by hand |

`Meets` is the date part of the conflict query clause by clause, with MongoDB's
rule that a comparison does not match null; `Overlap` is the reference it is
measured against.

### Desks

Eleven services keep a few kinds of documents each and share none.  Their
modules have the same form: the documents, `task[t]`, `Call(t)` (the handlers up
to their first write), `Step(t)` (the rest), and `restart`.  An update of an
appraisal record stores any of `Forms`, status and publisher included, because
the code assigns the body to the record.  `Desks` runs them
as one server: the first state chooses one desk (`focus`) and all calls are made
there, so that the state spaces add up instead of multiplying.  Its constants
are the sets of documents, people and contents of all desks; the two
configurations of `MCDesks` name small ones and choose the desks.

| module | state | in the code |
|---|---|---|
| `PayrollConfiguration` | `config[c]`: collection, status, content, approver | `payroll-configuration.service.ts`; brackets and settings have handlers of their own, seven collections share one set |
| `PayrollTracking` | `claim`, `claimDispute`, `refund` | `payroll-tracking.service.ts`: reviews, approvals, refunds and their payment |
| `ChangeRequests` | `profile[e]` (status, national id, one more field), `request[q]` | `employee-profile.service.ts`: creation, registration, change requests and the field each approval writes |
| `Organization` | `department`, `position` with `reportsToPositionId` | `organization-structure.service.ts` with the hooks of `position.schema.ts`, and the walk of `validateReportingLine`, one action per position |
| `Appraisals` | `appraisalTemplate`, `cycle`, `record`, `appraisalDispute` | `performance.service.ts` |
| `Bonuses` | `bonus[b]` | `payroll-execution.service.ts`: onboarding event, approval, override of a signing bonus |
| `Requisitions` | `jobTemplate`, `requisition`, `referral` | `recruitment.service.ts` |
| `LeaveCalendar` | `calendar[k]` with its list of blocked periods and its version | `leaves.service.ts`; the version is Mongoose's, kept for arrays |
| `LeavePolicies` | `code` (unique names of types and categories), `policy`, `now` | `leaves.service.ts`, with the loop of `checkExpiryRules` |
| `PayrollSync` | `log[s]`: status, whether it is dated, retries | `time-management/payroll/services/payroll.service.ts` |
| `TimeExceptions` | `exception[x]`, `pending[r][k]` | `time-management.service.ts` and the recalculation of `policy-engine.service.ts`, delete and insertions apart |

### Calculations

`PayCalculation` follows `validateEmployeeForPayroll` and
`calculateEmployeePayroll`: `validate` refuses or prorates the salary, then one
action per allowance, tax rule and insurance bracket in any order of the
documents, then unpaid leave, penalties with their protection of the minimum
wage, and the net pay.  Money is in cents with halves rounded up, dates in half
days so that times of day matter.

`PolicyEngine` has the policy in force, the minutes worked, rounding, and the
penalties and overtime of a day; `PrePayroll` the payload, the validation before
it and the closing report; `PayReports` the certificates of a year and the
reports by month, year and department of payroll tracking; `Reports` the pages,
totals and exports of time management.  `Calculations` asks them a question, one
a behaviour: `IsQuestion` says what documents can be stored (ids differ, dates
and amounts are numbers, sets are finite) and nothing of how many there are.
What the code gets by a sort is some list in that order (`ByTime`, where punches
of one time stay as stored; `Sorted`, where the database may list records of one
date in any order), so that the lists exist for sets of any size.  The times of
punches are in units of which a minute has `PerMinute`: the code rounds each pair
of punches down to whole minutes, and lateness too.

## 4. The runs

Every configuration bounds the calls in progress (`Tasks`), the documents and
the inputs.

| run | instance | what it shows |
|---|---|---|
| `leaves_overlap` | two calls at a time, one request, two entitlement documents of one year that come and go, restarts | what survives every interleaving: no field is ever stored negative, nothing is approved without both reviews on file, one entitlement per year, days are taken only by a handler entitled to take them |
| `leaves_serial` | one call at a time, two requests on one entitlement, HR updates and adjustments, batches that name a request twice | the balance is what it should be: it implements `LeaveLedger`, `remaining` is the rest, `pending` covers the open requests, the review only advances, durations are frozen, a batch serves every item whatever fails |
| `leaves_overdraw` | two creates at a time | violates `Covered`: both reserve the same days |
| `payroll_overlap` | two calls at a time, one run (a second one is checked, not followed: `MCOneRun`), one employee, restarts | what survives every interleaving: no payment without an approval on file, run ids unique, payslips only of approved runs |
| `payroll_serial` | one call at a time, two employees | no stored detail of high severity under review, one document each, totals match, approved stays approved, locked is frozen, payslips follow approval |
| `recruit_overlap` | two calls at a time, one application, one offer, one interview with a panel of two, restarts | an offer is approved only with two approvals or a signature, an acceptance has all its consequences on file before it, an interview is completed only with enough feedback |
| `shifts` | one call at a time, three assignments, two employees, one template, a clock, restarts | the conflict query misses nothing it can see, a bulk assignment serves everyone, at most as many notices per document as calls, a finished detection is complete |
| `shifts_double` | the same with two assignments | violates `NoDoubleBooking`: an assignment without an end is no obstacle |
| `desks_serial` | eleven desks, one call at a time, restarts | what checks before a write keep while nothing overlaps: approved configurations are frozen, change requests are applied before they are approved, decisions on exceptions stand, expiry takes out what expired and no more, the verdict on a reporting line is right, what is unique stays so |
| `desks_overlap` | seven of the desks, two calls at a time, restarts | what survives every interleaving: a status has the ground it rests on, pending results are bounded by the calls, no blocked period of a calendar is lost |
| `org_walk` | one call at a time, three positions, fair server | violates `ValidationEnds`: the walk goes round a loop above the target for ever |
| `calculations` | one employee over contracts, penalties and dates at the bounds; many small inputs of the other computations | every amount of a calculation is explained by the stages before it, penalties spare the minimum, paid days are days of the contract; minutes (to the rounding of each pair), results, payloads, pages and reports add up |

Deadlock is checked for the runs of leaves, payroll runs, recruitment and
shifts, where a call can always be made.  In the desks it is not: a desk whose
few ids are used up may have no call left.  In `calculations` it is not: a
calculation ends.

**Why the bounds are enough.**  The code never relates more than two documents
of a kind: a lost update, a duplicate, a stale decision each need two calls and
one document, or two calls that both insert.  Two calls and one or two
documents therefore reach every pair of steps; three or more calls repeat the
same pairs.  One request suffices where the property is per request; two where
days are summed.  Durations of 1 and 2 days against an entitlement of 2 give
"enough", "exactly enough" and "not enough".  Periods of a shift are chosen so
that each clause of the conflict query is the only one to match some pair.
An entry of an approval flow is counted once (`MaxFlow`: the code only asks
whether it is there), approvers up to one more than the two at which the code
decides (`MaxApprovers`), feedback up to twice per member (`MaxFeedback`: enough
for one member to stand in for another).  The clock of `Shifts` stops at
`LastTime`, when one of the periods has ended, others run, and all but one have
been due for a notice.  `MCOneSide` (recruitment) checks states that hold both an offer
and an interview but does not follow them: the handlers of the two share only
the application.  Symmetry is used over calls and documents (at the desks over departments
and positions), only in runs without liveness.  `leaves_serial` has malformed ids
(`MCKeepingOps`) where no days held for a request are given up: in `create`,
whose days then stay pending, and in the approval of an adjustment;
`leaves_overlap` has them in every call.

At the desks: two documents of a kind where one is unique or a list is read
(configurations, change requests, bonuses, calendars, policies, logs), two
departments (a position can change its department), three
positions for a loop of two that the source is outside of, otherwise one.  Two
overlapping calls use smaller sets (`Serially`).  `MaxPeriods` 3 leaves a
calendar a removal from the middle; `MaxRetries` 2 a retry of a retry;
`MaxReferrals` 1; `LastTime` 2 (months) a policy in force, due and expired.
`MCBound` stops the versions of calendars, which only grow.  The calculations
take dates at, before and after each end of the month and at noon, penalties
below, at and above what the minimum wage leaves, and punches in every order of
up to four, two at one time among them, at whole and half minutes
(`PerMinute` 2).

**Fairness.**  `FairSpec` states weak fairness of each call's `Step`, that is:
once a request has been received, the database answers each round trip and the
event loop resumes the handler.  Nothing is assumed of users (`Call`), of
changes to inputs or of restarts.  Three runs use it: `leaves_serial`
(`BatchServed`), `payroll_serial` (`PayslipsFollowApproval`) and `org_walk`
(`ValidationEnds`); the first two leave restarts out, because a call that dies
with the process is promised to no one.

**Why some properties are checked for one call at a time only.**  The code has
no protection against overlapping calls, and most of what relates several
documents fails under overlap (section 6).  What survives is in the `overlap`
runs; what the code keeps when calls do not overlap is in the `serial` runs;
what its comments promise and it does not keep is in the runs that expect a
violation.

## 5. The proofs

TLAPS proves the following for every value of the constants that satisfies the
assumptions of the module (`RequestsAssumption`, `PayrollAssumption`,
`RecruitmentAssumption`, `ShiftsAssumption`, `ConfigurationAssumption`,
`FormsAssumption`, `DesksAssumption`, `PayAssumption`, `PerMinuteAssumption`,
`CalculationsAssumption`, which state that ids are distinct from the
"none" values, that sets of statuses are the code's, that bounds, amounts and
rates are numbers, and that sets that are summed or counted are finite).  "Any
overlap" means any number of calls in progress, interleaved at any await.

| theorem | states | argument |
|---|---|---|
| `LeaveRequestsProofs!TypeCorrect`, `NeverNegative` | types; no negative field, any overlap and restarts | The inductive part is about the calls: the document a call is about to save was checked as a whole, so each field it writes is not negative, and fields it does not write are those stored. |
| `LeaveRequestsProofs!OneEntitlement` | one live entitlement per employee, type and year, any overlap and restarts | The index at the insert protects it, not the look before it: a document becomes live only when no other has its year. |
| `LeaveRequestsProofs!TwoStages`, `TakenAuthorised` | both reviews on file; taken moves only for cause | An approval flow only grows, so what a call saw in it when it checked is still there when it saves; each pending save carries the grounds for the status it will write. |
| `LeaveSerialProofs!SerialRemaining`, `SerialDuration`, `SerialAdvances` | for one call at a time | What a call has read is what is stored until it saves, by the same call's own steps. |
| `LeaveSerialProofs!SerialPendingCovers`, `SerialNeverOverdrawn` | `pending` covers the open requests, and the service implements `LeaveLedger`, for one undisturbed call at a time on one entitlement, any number of requests | The days held are a sum over the requests plus what the call has underway: each step changes one summand (`SumChange`), by as much as it moves the balance (`HeldInv`). A step of the service is a step or a stutter of the ledger (`Booked`, `LedgerStep`). |
| `PayrollRunsProofs!TypeCorrect`, `NothingPaidUnreviewed`, `RunIdsUnique` | types; approval dates; unique ids, any overlap and restarts | Approval dates are never cleared, so a save based on a stale read cannot lose the ground of a status. Ids are protected by the index at the insert, not by the computation before it. |
| `PayrollRunsProofs!PayslipsAreOfPaidRuns` | payslips are of paid runs, any overlap and restarts, without the route that makes a single payslip | Approved runs are paid, and no save takes "paid" back: each pending save carries it if the document it replaces has it. |
| `PayrollRunsProofs!SerialOneDocument`, `SerialApprovedStays`, `SerialLockedFrozen` | for one call at a time, any number of employees and runs | What the call read is what is stored when it saves, and a document it is about to insert is not there yet. |
| `PayrollRunsProofs!SerialReviewedWithoutGrave` | no detail without an account or with more than 60% deducted goes under review, for one call at a time, whatever earlier runs paid, without the route `reviewPayrollRun` approves by | The look at the details comes before the save, and nothing moves them in between. |
| `PayrollRunsProofs!SerialTotalsMatch` | the total net pay of a run is the sum of that of its details, for one whole calculation at a time, any finite set of employees | The loop keeps that the details of employees already done are those of this calculation and that its own running total is their sum (`CountInv`); a detail saved again replaces its summand. |
| `RecruitmentProofs!TypeCorrect`, `ApprovalGrounded`, `AcceptancesOrdered` | types; grounds of an approval; order of an acceptance, any overlap and restarts | Approvals and signatures are only added (`$push`, and a signature never removed), and a call's document extends the one it read; so saving over a newer document keeps grounds. Every call about to sign has the earlier writes on file. |
| `RecruitmentProofs!CompletedInterviews` | a completed interview has feedback for its panel, any overlap and restarts | Feedback is only added and the panel of an interview that is held does not change, so what a call has counted is still enough when it completes it (`PanelInv`). |
| `ShiftsProofs!TypeCorrect`, `NoticesAreBounded` | types; at most as many notices as calls that can look for one, any overlap and restarts | A call that found no notice is counted with the notices: `notices[s]` plus those calls never exceeds the number of calls. |
| `ShiftsProofs!SerialNoConflict`, `SerialBulkServed`, `SerialDetection` | for one call at a time, any periods, lists and horizons | `MeetsOverlaps` and `OverlapMeets` relate the query to `Overlap`; between two round trips nothing but the clock moves, so what a call promised when it read is true when it acts. |
| `DesksProofs!TypeCorrect`, `SerialApprovedIsFrozen`, `SerialConfigurationIsFrozen` | types of the configurations, any overlap; an approved configuration is frozen, for one call at a time, alone and on the server of eleven desks | A call that has passed a check finds the document as it was when it writes, because nobody else ran; a restart forgets the call and leaves the document. |
| `DesksProofs!DecisionsGrounded` | a refund, an approved bonus, an adjusted dispute, a completed synchronisation has its ground, any overlap and restarts | At each desk the ground is something no save takes back: documents are not deleted (`LookedUp`), dates once set stay (`Vetted`, `DatesKept`), and a save over a newer document writes only what it changed. |
| `DesksProofs!ResultsBounded` | pending results of a day and kind are at most the calls, any overlap and restarts | As for notices, but by what a call may still insert: a deletion makes room for exactly the calls that have still to insert (`ResultsCounted`). |
| `DesksProofs!PeriodsKept` | no blocked period is lost, any overlap and restarts, when updates leave the list alone | A removal holds the list of the version it read less one entry; the list changes only together with the version, and the save requires that version (`Spliced`). |
| `DesksProofs!SerialDocumentsConsistent` | types and uniqueness at every desk, for one call at a time | Types hold for any overlap. National ids and codes are checked in the call that writes them; settings and calendars are looked for and not there when the call inserts (`SettingsInv`, `OneYear`). |
| `DesksProofs!SerialVerdictIsRight` | the verdict on a reporting line, for one call at a time, any number of positions | `UpTo(target)` is the least closed set with the position above the target. Where the walk is, every such set contains it (`Reached`); the positions it has passed, without the source, are closed when it comes to an end (`Passed`). |
| `DesksProofs!SerialApprovedIsApplied` | an approved change request has been applied, for one call at a time | The profile is written before the request, and has the value asked for when the call comes to the request (`Fulfilled`). |
| `DesksProofs!SerialCheckIsExact` | a check of policies takes out of force what expired and nothing else, for one call at a time | Each policy the check still has to come to is as it was read, and each that had expired when it began is among them (`Expiring`, `Outstanding`). |
| `DesksProofs!SerialDecisionsStand` | decided exceptions and completed synchronisations stay, for one call at a time | What is about to be saved is still undecided (`Undecided`, `Incomplete`). |
| `CalculationsProofs!PayTypeCorrect`, `PayAlwaysAddsUp`, `PayAddsUpBesideQuestions` | types; every amount is explained, penalties spare the minimum, paid days are days of the contract, for any documents, rates and dates | Each stage carries the equation of the stages before it, and a round of a loop adds the same amount to both sides; the number of days paid is that of an interval inside the month and the contract. |
| `CalculationsProofs!ReadingsAlwaysAddUp` | every question is answered right, for any punches, policies, days, records, results, runs, payslips, filters and page lengths that can be stored | A question never changes (`Asking`), so each answer is a lemma about operators: `MinutesPaired`, `FairResults`, `PolicyFound`, `ValidComplete`, `YearOfMonths`, `CertifiedInOneYear`, `PagesAreReport`; see below. |

An invariant is proved through a stronger, inductive one that also says what
the calls in progress remember: `TypeInv` and the parts named in each module.
The property alone is never inductive here, because a call that is about to save
a document could remember anything.

**Hypotheses.**  Theorems that begin with `Serial` take `Tasks = {solo}`: section
6 says what overlapping calls break.  Some need more, each for something the
code does:

- `SerialPendingCovers` and `SerialNeverOverdrawn`: `Undisturbed`, that is nothing
  that stops a call between the save of the balance and that of the request, be
  it a restart or, in a call that gives up days (`GivingUp`: update, cancel, manager's and
  HR's decisions), a malformed id; it leaves the balance moved and the request as
  it was (section 6).  And no update by HR that sets `pending` itself, which `leaveEntitlement.update` lets it set to any number; and one
  entitlement on file, because `getEntitlementOrThrow` takes any year.
- `SerialTotalsMatch`: `WholeCalculations`, that is calculations over all
  employees that are not cut short, no total typed in by an edit, and no
  employee who loses what a calculation needs (a contract, an active status)
  after having been calculated: the loop skips such an employee and the old
  detail stays.
- `PeriodsKept`: `Replacements = {}`, no update whose body brings its own list of
  blocked periods, since `calendar.update` writes that list as it is.
- `PayslipsAreOfPaidRuns` and `SerialReviewedWithoutGrave`: without the route that
  section 6 names for each.

The runs that check these properties choose their constants within these
hypotheses.

**Sums.**  `SumFunctionOnSet` of the community modules is a fold defined by a
recursive function over sets.  `SumProofs` proves induction over a finite set
from the induction over its cardinality, then that the fold has a value, that it
does not depend on the order, and what happens to the sum when one summand
changes, is added, or grows; that sums over disjoint sets add up, and that what is
counted class by class (by employee, by month, by place in a list) adds up to the
whole (`SumPartition`).

**The calculations.**

- *Lists.*  `Listed`: a finite set whose every part has a first element can be
  listed in order.  So the sort of the punches and that of the records choose
  a list that exists, and a list without repetition as long as its set has
  every element of it (`ListsAll`).
- *Minutes worked.*  `LoopCounts`, by induction over the punches: after the first
  `k` of them, the total of the loop `Counts` the time covered between an IN and
  the OUT right after it (`Covered`), that is, does not exceed it and is short of it
  by less than a minute for each stretch; the IN that is kept is that of
  the last punch if it is one.  The next interval begins where the ones before
  end at the earliest, so sizes add, and each stretch is rounded down once
  (`CountsMore`, `MinutesCount`).
- *Results of a day.*  Rounding up never takes minutes away, so that who was
  present for what was scheduled and for what the rounding of the stretches may
  cost is not short (`CountsEnough`, `FullDay`); of short time and overtime
  one is 0; the cap of a day is applied last.
- *The closing.*  A validation without findings leaves no result pending and no
  record out; what is rejected or overridden is not in the payload; added up employee by employee the approved results are all there,
  once, because a result names one record and a record one employee.
- *The year.*  A moment that is not in the last second of a month is in one month
  of one year, so that months are classes.  That last second, which the code's
  months leave out, is excluded by the property, as it is in the run.
- *Pages.*  By induction, the pages up to page `k` are the list up to where page
  `k` ends; the number of pages announced is the least that reaches the end.

**Only model-checked.**  Liveness (`BatchServed`, `PayslipsFollowApproval`), which
needs fairness and `ENABLED`.  Every invariant and every action property of the
passing runs is stated by a theorem.

## 6. Disagreements found

Three runs expect a violation; `PROJECT.json` quotes the sentence of the code
each contradicts.

1. **Two creates reserve the same days** (`leaves_overdraw`).  Both read
   `remaining`, both pass, one reservation is overwritten.
2. **Two shifts at a time** (`shifts_double`).  See section 3, Shifts.
3. **The validation of a reporting line does not end** (`org_walk`).  Reporting
   lines are set without a check, and the walk up the line stops only at its
   source or at the top.

The models show more, not kept as runs; where a definition is named, checking
it with the named configuration reproduces it.

- A malformed id throws between the two saves of a call: `new Types.ObjectId` of
  the attachment, of who asks or of who decides comes after the balance was saved
  (`leaves.service.ts:462, 522, 545, 586, 614, 640`; `:828` for an adjustment),
  while the DTOs ask for a string and `main.ts` installs no pipe.  A
  rejection that fails so releases the days of a request that stays open, and can
  be repeated, with one call at a time and no restart.  `PendingCoversOpen` and
  `NeverOverdrawn` in `LeavesSerial.cfg` with `Malformed <- MCRequestOps`.
- `managerReject` accepts a request in `manager_approved` and releases its days
  only for `pending` (`leaves.service.ts:573`), so that the days a rejected
  request held stay pending: `PendingCoversOpen` says that `pending` covers the
  open requests, and the reverse does not hold.
- `OneActiveRun` with two runs in `PayrollSerial.cfg`: a rejected run can be
  edited, which makes it a draft again, after its successor was made
  (`payroll-execution.service.ts:1333`).
- `ApprovedStays` with two tasks: a rejection read before finance's approval is
  saved after it (`:1219`).
- `RemainingIdentity` and `DurationFrozen` with two tasks in
  `LeavesOverlap.cfg`: lost update of `remaining` (`leaves.service.ts:133`), and
  a duration saved after the status was decided (`:493`).
- `ApprovedByBoth` in `PayrollOverlap.cfg`: `payroll-execution-enum.ts:23` says
  approval by both; the review route approves with one.
- `LockedPayslipsFrozen` with the operation `payslip`: `generatePayslip` does
  not look at the status of the run (`payroll-execution.service.ts:2170`).
- `ReviewedWithoutGrave` with the operation `approve`: the review route does not
  count high severity details (`:1186`, against `:2819`).
- Of a salary spike nothing of the kind holds: it is graded at each detection
  against the previous run that is approved or locked by then
  (`:2594`, `:2660`), so that a run under review gains a high severity when that run
  is approved or unlocked later.  `ReviewedWithoutGrave` is about the causes that
  are stored with the detail.
- `PayslipsOnlyWhenPaid` with the operation `payslip` (`:2170`, against `:2296`).
- `OneDocumentEach` with two tasks: look-then-insert (`:2228`).
- `PayslipsFollowApproval` without the exception for outcomes that are `listed`
  (`Payable`): the insurance
  breakdown of a calculation (`:1793`) lacks `minSalary` and `maxSalary`, which
  `insuranceBrackets.schema.ts:26` requires, so its payslip is refused and the
  error swallowed (`:2921`).
- `AcceptedWasApproved` in `RecruitOverlap.cfg`: `respondToOffer` does not look
  at the approvals (`recruitment.service.ts:566` "Secure related parties'
  approval before sending").
- `CompletedByAll`: results are counted, not members (`:474`).
- `AcceptedIsApproved`: two overlapping answers mix their fields.
- `NoNewConflict` with two tasks in `Shifts.cfg`: lookup and insert are apart
  (`schedule-assignment.service.ts:135`).
- `ApprovedByManager`, `RefundedOnce` (`PayrollTracking`): an approval has no
  guard, and a refund asks neither for approval nor whether there was one
  (`payroll-tracking.service.ts:172`).
- An appraisal record takes the body of an update whole
  (`performance.service.ts:174`), so that it can become published with no one who
  published it; and a published record is submitted again.
- A requisition's posting date can be cleared by the body of an update
  (`recruitment.service.ts:214`).  `TemplateOnFile` (`Requisitions`): a template is
  deleted while used.
- `payroll-configuration/WORKFLOW.md:262` blocks the deletion of an approved
  configuration; `deleteConfiguration` of the six kinds that share it
  (`payroll-configuration.service.ts:128`) does not look at the status.
  `ApprovedIsFrozen` claims it of insurance brackets only.
- `ApprovedIsFrozen`, `ApprovedIsApplied`, `DecidedStays`, `OneCalendar`,
  `OneSettings` with two tasks: each check and its write are apart.

Of the calculations, read from the code and modelled as it is:

- Each pair of punches is rounded down to whole minutes
  (`policy-engine.service.ts:181`): 240.5 and 239.5 minutes count as 479, short of
  480.  `WorkedIsPaired` and `ResultsAreFair` allow for that much and no more.
- A penalty or an overtime that is `OVERRIDDEN`, a status both schemas declare and
  no code writes, is not pending for the validation and not in the payload
  (`payroll.service.ts:297`, `:102`).
- `penaltyCapPerDay` caps each penalty, not their sum
  (`policy-engine.service.ts`); an employee's policy assigned to others keeps
  its `createdAt`, so it does not win over a newer one; policies of departments
  are never looked at.
- Contract dates with a time of day: an end at noon counts one day more, a
  start at noon of the last day none.  An employee whose contract ended before
  the date of the run is refused, also for the days worked.  The floor at the
  minimum wage lifts the pay of no days worked to the whole minimum.  Insurance
  brackets that share a bound are both charged at it.
- A certificate of a year ends when December 31 begins, while the reports of
  the month and the year include that day.  A department's report gives the net
  pay of all runs.  The taxes and insurances embedded in a payslip keep no
  amount, so their reports are 0, and benefits are always empty.
- `checkAndEscalate` writes nothing.  The report before a synchronisation looks
  for exceptions by `createdAt`, which their schema does not store, and finds
  none.
- Pages of a report are stable only while nothing is inserted and dates differ.

Met while reading, in code that is not modelled:

- Creating an employee from a hired candidate passes a one-word name as first
  name and the name of a department as its id
  (`recruitment/services/adapter-services.ts:32`), which the profile's schema
  refuses.
- `attendance-record.schema.ts` declares `exceptionIds` as an ObjectId with the
  default `[]`, which Mongoose 8 cannot cast, so no record can be saved.
- `main.ts` installs no validation pipe: the bounds that DTOs declare are not
  enforced.  Refunds are never read by payroll execution; terminations are never
  created.  `hierarchy.service.ts` reads `reportingTo`, which no schema has.

## 7. What is not modelled

- **Texts, files, e-mails, logging, notifications** except the expiry notices of
  shifts: nothing guards on them.
- **Requests' parsing, guards and roles**: they decide who may call, not what a
  call does.  All routes of a modelled service are callable in its model.
- **Attendance saves** (punch, correction, missed punches): no record can be
  stored with the schema as it is; the minutes worked are modelled, the records
  are inputs.
- **Terminations and resignations** of payroll execution: no code creates one.
- **PolicyService** of time management: policies are stored, read and deleted
  one write at a time; `PolicyEngine` takes them as inputs.
- **Analytics** of recruitment: counts for a screen.
- **`time-leave-integration.helper.ts`**: called by nobody.
- **Contact data, passwords, login** of employees: no other call reads them.
- **Frontend**: it keeps no state the services rely on.

## 8. Plan

What is left, in the order of its worth.

1. A weaker `SerialPendingCovers`, for what a restart or a malformed id leaves: a
   balance that differs from what the open requests hold by the days of the
   calls that were cut short.
2. `LeaveCalendar` together with `create` of a request against blocked periods;
   `TimeExceptions` together with the amounts of `PolicyEngine`; `PayrollRuns`
   with `PayCalculation` as its source of outcomes.
3. Attendance as a module, once its records can be stored.
