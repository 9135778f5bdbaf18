----------------------------- MODULE Recruitment -----------------------------
(***************************************************************************)
(* RecruitmentService: applications and the history of their statuses,     *)
(* offers with their approvals and the candidate's answer, and interviews  *)
(* with the feedback of their panel.                                       *)
(*                                                                         *)
(* A handler is one action per database round trip that another handler    *)
(* can come between.  Of the history of an application only the statuses   *)
(* it records are kept, and of an offer's approvers how many said yes and  *)
(* how many did not; stages guard nothing and are left out.                *)
(***************************************************************************)
EXTENDS Integers, FiniteSets, FiniteSetsExt, MongooseDoc

CONSTANTS
    Tasks,          \* calls that can be in progress at the same time
    Applications,   \* ids of application documents
    Offers,         \* ids of offer documents
    Interviews,     \* ids of interview documents
    Interviewers,
    Statuses,       \* the statuses clients set
    MaxApprovers,   \* bound: entries in the approvers of an offer
    MaxFeedback,    \* bound: feedback by one interviewer on one interview
    NoDocument

SUBMITTED == "submitted"
OFFER == "offer"
HIRED == "hired"
REJECTED == "rejected"
PENDING == "pending"
APPROVED == "approved"
ACCEPTED == "accepted"
SCHEDULED == "scheduled"
COMPLETED == "completed"

ApplicationStatus == {SUBMITTED, "in_process", OFFER, HIRED, REJECTED}

OfferResponseStatus == {ACCEPTED, REJECTED, PENDING}

OfferFinalStatus == {APPROVED, REJECTED, PENDING}

ASSUME RecruitmentAssumption ==
    /\ NoDocument \notin Applications \cup Offers \cup Interviews
    /\ Statuses \subseteq ApplicationStatus
    /\ IsFiniteSet(Interviewers)
    /\ MaxApprovers \in Nat /\ MaxFeedback \in Nat

VARIABLES
    application, \* application[a]: the status on the document of a
    history,     \* history[a]: the statuses the history of a records
    offer,       \* offer[o]: the document of o
    onboarding,  \* the offers handed over to onboarding
    interview,   \* interview[i]: the status and panel on the document of i
    feedback,    \* feedback[i][m]: how many assessment results m gave on i
    task         \* task[t]: what the call t remembers between two awaits

vars == <<application, history, offer, onboarding, interview, feedback, task>>

NoOffer == [app |-> NoDocument, response |-> PENDING, final |-> PENDING,
            signed |-> FALSE, yes |-> 0, no |-> 0]

NoInterview == [status |-> "absent", panel |-> {}]

Idle == [pc |-> "idle", aid |-> NoDocument, oid |-> NoDocument, iid |-> NoDocument,
         status |-> "absent", seen |-> NoOffer, upd |-> NoOffer]

Init ==
    /\ application = [a \in Applications |-> "absent"]
    /\ history = [a \in Applications |-> {}]
    /\ offer = [o \in Offers |-> NoOffer]
    /\ onboarding = {}
    /\ interview = [i \in Interviews |-> NoInterview]
    /\ feedback = [i \in Interviews |-> [m \in Interviewers |-> 0]]
    /\ task = [t \in Tasks |-> Idle]

-----------------------------------------------------------------------------
Applied(a) == application[a] # "absent"

Offered(o) == offer[o].app # NoDocument

Held(i) == interview[i].status # "absent"

Ready(t) == task[t].pc = "idle"

Continue(t, h) == task' = [task EXCEPT ![t] = h]

\* A handler returns or throws.
Return(t) == Continue(t, Idle)

Stored == <<application, history, offer, onboarding, interview, feedback>>

-----------------------------------------------------------------------------
(* Applications.                                                            *)

\* The client may name the status to begin with; "submitted" is the default.
createApplication(t, a, s) ==
    /\ Ready(t)
    /\ ~Applied(a)
    /\ application' = [application EXCEPT ![a] = s]
    /\ Continue(t, [Idle EXCEPT !.pc = "record", !.aid = a, !.status = s])
    /\ UNCHANGED <<history, offer, onboarding, interview, feedback>>

\* The status is the only field written, and not written when it is the one
\* that was read: either way the read and the save act as one step.  Any
\* status may follow any.
SetStatus(a, s) == application' = [application EXCEPT ![a] = s]

\* A client sets a status, moves the stage alone and keeps the status, or
\* sends the rejection.
updateApplicationStatus(t, a, s) ==
    /\ Ready(t)
    /\ Applied(a)
    /\ SetStatus(a, s)
    /\ Continue(t, [Idle EXCEPT !.pc = "record", !.aid = a, !.status = s])
    /\ UNCHANGED <<history, offer, onboarding, interview, feedback>>

\* The update on behalf of an accepted offer.
updateToHired(t) ==
    /\ task[t].pc = "hire"
    /\ SetStatus(task[t].aid, HIRED)
    /\ Continue(t, [task[t] EXCEPT !.pc = "record", !.status = HIRED])
    /\ UNCHANGED <<history, offer, onboarding, interview, feedback>>

\* After the history of a hired application comes the save of its offer.
createApplicationHistory(t) ==
    /\ task[t].pc = "record"
    /\ history' = [history EXCEPT ![task[t].aid] = @ \cup {task[t].status}]
    /\ IF task[t].oid = NoDocument THEN Return(t)
       ELSE Continue(t, [task[t] EXCEPT !.pc = "saveOffer"])
    /\ UNCHANGED <<application, offer, onboarding, interview, feedback>>

-----------------------------------------------------------------------------
(* Offers.                                                                  *)

createOffer(t, a) ==
    /\ Ready(t)
    /\ application[a] = OFFER
    /\ Continue(t, [Idle EXCEPT !.pc = "insertOffer", !.aid = a])
    /\ UNCHANGED Stored

insertOffer(t, o) ==
    /\ task[t].pc = "insertOffer"
    /\ ~Offered(o)
    /\ offer' = [offer EXCEPT ![o] = [NoOffer EXCEPT !.app = task[t].aid]]
    /\ Return(t)
    /\ UNCHANGED <<application, history, onboarding, interview, feedback>>

Approvers(d) == d.yes + d.no

\* Mutant: one approver is enough.
AllApproved_One(d) == d.no = 0 /\ d.yes >= 1

\* "Assume 2 approvals needed": as many entries that approve, whoever made them.
AllApproved(d) == d.no = 0 /\ d.yes >= 2

\* Mutant: an approval is sent on rather than final.
Judged_Sent(d, vote) ==
    LET pushed == [d EXCEPT ![vote] = @ + 1]
    IN IF AllApproved(pushed) THEN [pushed EXCEPT !.final = "sent"] ELSE pushed

Judged(d, vote) ==
    LET pushed == [d EXCEPT ![vote] = @ + 1]
    IN IF AllApproved(pushed) THEN [pushed EXCEPT !.final = APPROVED] ELSE pushed

\* The call goes on to save the offer, read as it is now, as upd.
Decide(t, o, pc, upd) ==
    /\ Continue(t, [Idle EXCEPT !.pc = pc, !.oid = o, !.aid = offer[o].app,
                                !.seen = offer[o], !.upd = upd])
    /\ UNCHANGED Stored

\* An approver's status is one of three; only "approved" counts as a yes.
approveOffer(t, o, vote) ==
    /\ Ready(t)
    /\ Offered(o)
    /\ Approvers(offer[o]) < MaxApprovers
    /\ Decide(t, o, "saveOffer", Judged(offer[o], vote))

\* An answer other than yes leaves the date of the signature.
Answered(d, answer) ==
    CASE answer = ACCEPTED -> [d EXCEPT !.response = ACCEPTED, !.signed = TRUE,
                                        !.final = APPROVED]
      [] answer = REJECTED -> [d EXCEPT !.response = REJECTED, !.final = REJECTED]
      [] answer = PENDING  -> [d EXCEPT !.response = PENDING]

\* Mutant: the offer is saved at once, and nobody is hired for it.
respondToOffer_SaveOnly(t, o, answer) ==
    /\ Ready(t)
    /\ Offered(o)
    /\ Decide(t, o, "saveOffer", Answered(offer[o], answer))

\* The candidate may answer at any time, and again.  The offer is saved last.
respondToOffer(t, o, answer) ==
    /\ Ready(t)
    /\ Offered(o)
    /\ Decide(t, o, IF answer = ACCEPTED THEN "onboard" ELSE "saveOffer",
              Answered(offer[o], answer))

\* The employee profile is made from a name of one word, which the profile
\* schema refuses, and what is thrown is logged and dropped; the stub of the
\* onboarding service accepts whatever it is given.
triggerOnboarding(t) ==
    /\ task[t].pc = "onboard"
    /\ onboarding' = onboarding \cup {task[t].oid}
    /\ Continue(t, [task[t] EXCEPT !.pc = "hire"])
    /\ UNCHANGED <<application, history, offer, interview, feedback>>

\* An entry pushed to the approvers is kept beside those pushed meanwhile.
PushedOffer(stored, read, doc) ==
    [Saved(stored, read, doc) EXCEPT !.yes = stored.yes + (doc.yes - read.yes),
                                     !.no = stored.no + (doc.no - read.no)]

saveOffer(t) ==
    /\ task[t].pc = "saveOffer"
    /\ offer' = [offer EXCEPT ![task[t].oid] = PushedOffer(@, task[t].seen, task[t].upd)]
    /\ Return(t)
    /\ UNCHANGED <<application, history, onboarding, interview, feedback>>

-----------------------------------------------------------------------------
(* Interviews.                                                              *)

scheduleInterview(t, i, panel) ==
    /\ Ready(t)
    /\ ~Held(i)
    /\ \E a \in Applications : Applied(a)
    /\ panel # {}
    /\ interview' = [interview EXCEPT ![i] = [status |-> SCHEDULED, panel |-> panel]]
    /\ UNCHANGED <<application, history, offer, onboarding, feedback, task>>

\* Nothing asks whether m gave feedback before.
submitInterviewFeedback(t, i, m) ==
    /\ Ready(t)
    /\ Held(i)
    /\ m \in interview[i].panel
    /\ feedback[i][m] < MaxFeedback
    /\ feedback' = [feedback EXCEPT ![i][m] = @ + 1]
    /\ Continue(t, [Idle EXCEPT !.pc = "countFeedback", !.iid = i])
    /\ UNCHANGED <<application, history, offer, onboarding, interview>>

AllFeedback(i) == SumFunctionOnSet(feedback[i], Interviewers)

\* Mutant: every feedback completes the interview.
AllReceived_Any(i) == AllFeedback(i) >= 1

\* As many results as the panel has members, whoever they are from.
AllReceived(i) == AllFeedback(i) = Cardinality(interview[i].panel)

countFeedback(t) ==
    /\ task[t].pc = "countFeedback"
    /\ IF AllReceived(task[t].iid)
       THEN Continue(t, [task[t] EXCEPT !.pc = "complete"])
       ELSE Return(t)
    /\ UNCHANGED Stored

completeInterview(t) ==
    /\ task[t].pc = "complete"
    /\ interview' = [interview EXCEPT ![task[t].iid].status = COMPLETED]
    /\ Return(t)
    /\ UNCHANGED <<application, history, offer, onboarding, feedback>>

-----------------------------------------------------------------------------
\* The process dies and starts again: calls in progress are lost.
restart ==
    /\ \E t \in Tasks : ~Ready(t)
    /\ task' = [t \in Tasks |-> Idle]
    /\ UNCHANGED Stored

-----------------------------------------------------------------------------
\* A call arrives.
Call(t) ==
    \/ \E a \in Applications, s \in Statuses \cup {SUBMITTED} : createApplication(t, a, s)
    \/ \E a \in Applications :
          \E s \in Statuses \cup {application[a]} : updateApplicationStatus(t, a, s)
    \/ \E a \in Applications : createOffer(t, a)
    \/ \E o \in Offers, vote \in {"yes", "no"} : approveOffer(t, o, vote)
    \/ \E o \in Offers, answer \in OfferResponseStatus : respondToOffer(t, o, answer)
    \/ \E i \in Interviews, panel \in SUBSET Interviewers : scheduleInterview(t, i, panel)
    \/ \E i \in Interviews, m \in Interviewers : submitInterviewFeedback(t, i, m)

\* A call in progress gets the answer to its last database operation.
Step(t) ==
    \/ updateToHired(t)
    \/ createApplicationHistory(t)
    \/ \E o \in Offers : insertOffer(t, o)
    \/ triggerOnboarding(t)
    \/ saveOffer(t)
    \/ countFeedback(t)
    \/ completeInterview(t)

Next == (\E t \in Tasks : Call(t) \/ Step(t)) \/ restart

Spec == Init /\ [][Next]_vars

-----------------------------------------------------------------------------
(* Properties.                                                              *)

OfferDoc == [app : Applications \cup {NoDocument}, response : OfferResponseStatus,
             final : OfferFinalStatus, signed : BOOLEAN, yes : Nat, no : Nat]

InterviewDoc == [status : {"absent", SCHEDULED, COMPLETED}, panel : SUBSET Interviewers]

Frame == [pc : {"idle", "record", "insertOffer", "saveOffer", "onboard", "hire",
                "countFeedback", "complete"},
          aid : Applications \cup {NoDocument}, oid : Offers \cup {NoDocument},
          iid : Interviews \cup {NoDocument}, status : ApplicationStatus \cup {"absent"},
          seen : OfferDoc, upd : OfferDoc]

\* The types of the variables.
TypeOK ==
    /\ application \in [Applications -> ApplicationStatus \cup {"absent"}]
    /\ history \in [Applications -> SUBSET ApplicationStatus]
    /\ offer \in [Offers -> OfferDoc]
    /\ onboarding \subseteq Offers
    /\ interview \in [Interviews -> InterviewDoc]
    /\ feedback \in [Interviews -> [Interviewers -> Nat]]
    /\ task \in [Tasks -> Frame]

\* However approvals and answers overlap, and whatever they overwrite, an
\* offer that is finally approved was approved by two entries of its
\* approvers or signed by the candidate (approveOffer, respondToOffer).
ApprovedWithGrounds ==
    \A o \in Offers :
        offer[o].final = APPROVED => offer[o].yes >= 2 \/ offer[o].signed

\* An answer that says yes is on file only after everything it sets off: the
\* candidate's signature, the hand-over to onboarding, and an application
\* whose history says hired, even if the process died on the way or another
\* answer was saved in between (respondToOffer saves the offer last).
AcceptanceInOrder ==
    \A o \in Offers :
        /\ offer[o].response = ACCEPTED => offer[o].signed
        /\ offer[o].signed => o \in onboarding /\ HIRED \in history[offer[o].app]

\* A completed interview has at least as much feedback as its panel has
\* members, though the count and the save are apart (submitInterviewFeedback).
CompletedHasFeedback ==
    \A i \in Interviews :
        interview[i].status = COMPLETED => AllFeedback(i) >= Cardinality(interview[i].panel)

-----------------------------------------------------------------------------
(* What the code says and does not keep.                                    *)

\* A candidate accepts an offer only once the parties have approved it
\* ("Secure related parties' approval before sending", createOffer).
AcceptedWasApproved == \A o \in Offers : offer[o].signed => offer[o].yes >= 2

\* A completed interview has feedback of its whole panel ("Update interview
\* status if all panel members submitted feedback", submitInterviewFeedback).
CompletedByAll ==
    \A i \in Interviews :
        interview[i].status = COMPLETED => \A m \in interview[i].panel : feedback[i][m] > 0

\* An accepted offer stands ("fully approved - ready to send", approveOffer,
\* and "Use APPROVED for accepted offers", respondToOffer).
AcceptedIsApproved ==
    \A o \in Offers : offer[o].response = ACCEPTED => offer[o].final = APPROVED
=============================================================================
