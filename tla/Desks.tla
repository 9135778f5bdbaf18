-------------------------------- MODULE Desks ---------------------------------
(***************************************************************************)
(* The services that keep a few kinds of documents each and share none:    *)
(* one server process whose calls are all at one desk, which the first     *)
(* state chooses.  The desk of PayrollConfiguration is extended, the       *)
(* others are instances over variables of this module and the calls in     *)
(* progress.                                                               *)
(***************************************************************************)
EXTENDS Integers, FiniteSets, Sequences, PayrollConfiguration

CONSTANTS
    Desks,              \* the desks that are looked at
    Nothing,            \* no value
    Claims, ClaimDisputes, Refunds, Runs, Amounts,
    Employees, ProfileRequests, NationalIds, RequestTypes,
    Departments, Positions,
    AppraisalTemplates, Cycles, Records, AppraisalDisputes, Raters, Ratings, Forms,
    Bonuses, Hires, Hired, Eligible, Promised,
    JobTemplates, Requisitions, Candidates, Vacancies, MaxReferrals,
    Calendars, Periods, Years, Replacements, MaxPeriods,
    LeaveTypes, Codes, PolicyIds, Dates, Months, LastTime,
    Logs, MaxRetries,
    ExceptionIds, Days, Penalties, Reviewers

ASSUME DesksAssumption ==
    /\ Desks \subseteq {"configuration", "tracking", "requests", "structure", "performance",
                       "bonuses", "hiring", "calendar", "policies", "sync", "exceptions"}
    /\ IsFiniteSet(Tasks)
    /\ Nothing \notin Raters \cup NationalIds \cup Positions
    /\ MaxRetries \in Nat /\ MaxPeriods \in Nat /\ MaxReferrals \in Nat /\ LastTime \in Nat
    /\ Replacements \subseteq Seq(Periods)
    /\ Dates \subseteq Int /\ Months \subseteq Int

VARIABLES
    focus,      \* the desk the calls are at
    claim, claimDispute, refund,
    profile, request,
    department, position,
    appraisalTemplate, cycle, record, appraisalDispute,
    bonus,
    jobTemplate, requisition, referral,
    calendar,
    now, code, policy,
    log,
    exception, pending

Tracking == INSTANCE PayrollTracking
    WITH Disputes <- ClaimDisputes, None <- Nothing, dispute <- claimDispute

Requests == INSTANCE ChangeRequests
    WITH Requests <- ProfileRequests, Ids <- NationalIds, Types <- RequestTypes, None <- Nothing

Structure == INSTANCE Organization WITH None <- Nothing

Performance == INSTANCE Appraisals
    WITH Templates <- AppraisalTemplates, Disputes <- AppraisalDisputes, People <- Raters,
         Contents <- Ratings, None <- Nothing,
         template <- appraisalTemplate, dispute <- appraisalDispute

ASSUME FormsAssumption == Forms \subseteq Performance!Record

Signing == INSTANCE Bonuses WITH Employees <- Hires, None <- Nothing

Hiring == INSTANCE Requisitions
    WITH Templates <- JobTemplates, Contents <- Vacancies, None <- Nothing,
         template <- jobTemplate

Calendar == INSTANCE LeaveCalendar WITH Contents <- Years, None <- Nothing

Policies == INSTANCE LeavePolicies
    WITH Types <- LeaveTypes, Policies <- PolicyIds, None <- Nothing

Sync == INSTANCE PayrollSync

Exceptions == INSTANCE TimeExceptions
    WITH Exceptions <- ExceptionIds, Records <- Days, OVERTIME <- "OVERTIME",
         People <- Reviewers, None <- Nothing

DesksInit ==
    /\ focus \in Desks
    /\ Init /\ Tracking!Init /\ Requests!Init /\ Structure!Init /\ Performance!Init
    /\ Signing!Init /\ Hiring!Init /\ Calendar!Init /\ Policies!Init /\ Sync!Init
    /\ Exceptions!Init

\* What the desks keep, by desk.
TrackingFiles == <<claim, claimDispute, refund>>
RequestFiles == <<profile, request>>
StructureFiles == <<department, position>>
PerformanceFiles == <<appraisalTemplate, cycle, record, appraisalDispute>>
HiringFiles == <<jobTemplate, requisition, referral>>
PolicyFiles == <<now, code, policy>>
ExceptionFiles == <<exception, pending>>

DesksNext ==
    /\ UNCHANGED focus
    /\ IF focus = "configuration" THEN Next ELSE UNCHANGED config
    /\ IF focus = "tracking" THEN Tracking!Next ELSE UNCHANGED TrackingFiles
    /\ IF focus = "requests" THEN Requests!Next ELSE UNCHANGED RequestFiles
    /\ IF focus = "structure" THEN Structure!Next ELSE UNCHANGED StructureFiles
    /\ IF focus = "performance" THEN Performance!Next ELSE UNCHANGED PerformanceFiles
    /\ IF focus = "bonuses" THEN Signing!Next ELSE UNCHANGED bonus
    /\ IF focus = "hiring" THEN Hiring!Next ELSE UNCHANGED HiringFiles
    /\ IF focus = "calendar" THEN Calendar!Next ELSE UNCHANGED calendar
    /\ IF focus = "policies" THEN Policies!Next ELSE UNCHANGED PolicyFiles
    /\ IF focus = "sync" THEN Sync!Next ELSE UNCHANGED log
    /\ IF focus = "exceptions" THEN Exceptions!Next ELSE UNCHANGED ExceptionFiles

DesksVars == <<focus, config, TrackingFiles, RequestFiles, StructureFiles, PerformanceFiles, bonus,
               HiringFiles, calendar, PolicyFiles, log,
               ExceptionFiles, task>>

DesksSpec == DesksInit /\ [][DesksNext]_DesksVars

-----------------------------------------------------------------------------
(* Properties.                                                              *)

\* While calls do not overlap, the stored documents have their types, at every
\* desk, and what must be unique is, where an index keeps it so and where only a
\* look before the insertion does.
DocumentsConsistent ==
    /\ focus = "configuration" => TypeOK
    /\ Tracking!TypeOK /\ Requests!TypeOK /\ Structure!TypeOK /\ Performance!TypeOK
    /\ Signing!TypeOK /\ Hiring!TypeOK /\ Calendar!TypeOK /\ Policies!TypeOK
    /\ Sync!TypeOK /\ Exceptions!TypeOK
    /\ OneSettings /\ Calendar!OneCalendar
    /\ Requests!NationalIdsDiffer /\ Policies!CodesDiffer

\* However calls overlap and are cut short, a status rests on what it says: a
\* refund on the claims and disputes it names, an approved bonus on a date and
\* an eligible employee, an adjusted dispute on who resolved it, a completed
\* synchronisation on its date.  Appraisal records are not among them: the body
\* of an update may set their status without the publisher (updateAppraisal).
DecisionsHaveGrounds ==
    /\ Tracking!RefundHasGround
    /\ Signing!ApprovedIsListed
    /\ Performance!AdjustedIsResolved
    /\ Sync!CompletedIsDated

\* However recalculations overlap, results do not pile up (TimeExceptions).
PendingBounded == Exceptions!PendingBounded

\* Additions to and removals from a calendar that overlap lose no blocked
\* period (LeaveCalendar).
NoPeriodLost == Calendar!NoPeriodLost

\* While calls do not overlap, a change request is approved only when the
\* profile holds what it asks for (ChangeRequests).
ApprovedIsApplied == Requests!ApprovedIsApplied

\* While calls do not overlap, the verdict on a reporting line is right
\* (Organization).
VerdictIsRight == Structure!VerdictIsRight

\* While calls do not overlap, the check of leave policies takes out of force
\* what had expired and nothing else (LeavePolicies).
CheckIsExact == Policies!CheckIsExact

\* While calls do not overlap, what was decided stands: the verdict on a time
\* exception and a completed synchronisation.
DecisionsStand == Exceptions!DecidedStays /\ Sync!CompletedStays
=============================================================================
