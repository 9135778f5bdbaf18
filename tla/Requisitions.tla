---------------------------- MODULE Requisitions -----------------------------
(***************************************************************************)
(* RecruitmentService: job templates, the requisitions that use them, and  *)
(* referrals.  A handler is one action per database round trip.  Of a      *)
(* requisition the model keeps its status, its template and whether its    *)
(* posting date is set; what a template says is one value.                 *)
(***************************************************************************)
EXTENDS Naturals, MongooseDoc

CONSTANTS
    Tasks,          \* calls that can be in progress at the same time
    Templates,
    Requisitions,
    Candidates,
    Contents,       \* what a template may say
    MaxReferrals,   \* bound: referrals of one candidate
    None

DRAFT == "draft"
PUBLISHED == "published"
CLOSED == "closed"

PublishStatus == {DRAFT, PUBLISHED, CLOSED}

VARIABLES
    template,       \* template[p]: the content of p, None when it is not kept
    requisition,    \* requisition[q]: the document of q
    referral,       \* referral[c]: how many referrals name the candidate c
    task            \* task[t]: what the call t remembers between two awaits

vars == <<template, requisition, referral, task>>

NoRequisition == [publishStatus |-> "absent", templateId |-> None, posted |-> FALSE]

Idle == [pc |-> "idle"]

Init ==
    /\ template = [p \in Templates |-> None]
    /\ requisition = [q \in Requisitions |-> NoRequisition]
    /\ referral = [c \in Candidates |-> 0]
    /\ task = [t \in Tasks |-> Idle]

-----------------------------------------------------------------------------
Ready(t) == task[t].pc = "idle"

Continue(t, h) == task' = [task EXCEPT ![t] = h]

\* A handler returns or throws.
Return(t) == Continue(t, Idle)

Stored == <<template, requisition, referral>>

createJobTemplate(t, p, x) ==
    /\ Ready(t)
    /\ template[p] = None
    /\ template' = [template EXCEPT ![p] = x]
    /\ UNCHANGED <<requisition, referral, task>>

updateJobTemplate(t, p, x) ==
    /\ Ready(t)
    /\ template[p] # None
    /\ template' = [template EXCEPT ![p] = x]
    /\ UNCHANGED <<requisition, referral, task>>

\* The requisitions that name the template are not looked for.
deleteJobTemplate(t, p) ==
    /\ Ready(t)
    /\ template[p] # None
    /\ template' = [template EXCEPT ![p] = None]
    /\ UNCHANGED <<requisition, referral, task>>

\* A template that the body names is looked up first.
createJobRequisition(t, doc) ==
    /\ Ready(t)
    /\ doc.templateId # None => template[doc.templateId] # None
    /\ Continue(t, [pc |-> "insert", doc |-> doc])
    /\ UNCHANGED Stored

insertRequisition(t, q) ==
    /\ task[t].pc = "insert"
    /\ requisition[q] = NoRequisition
    /\ requisition' = [requisition EXCEPT ![q] = task[t].doc]
    /\ Return(t)
    /\ UNCHANGED <<template, referral>>

\* Any status but published may be published, closed ones too.
publishJobRequisition(t, q) ==
    /\ Ready(t)
    /\ requisition[q].publishStatus \in {DRAFT, CLOSED}
    /\ Continue(t, [pc |-> "save", ref |-> q, read |-> requisition[q],
                    doc |-> [requisition[q] EXCEPT !.publishStatus = PUBLISHED,
                                                   !.posted = TRUE]])
    /\ UNCHANGED Stored

saveRequisition(t) ==
    /\ task[t].pc = "save"
    /\ requisition' = [requisition EXCEPT ![task[t].ref] = Saved(@, task[t].read, task[t].doc)]
    /\ Return(t)
    /\ UNCHANGED <<template, referral>>

\* findByIdAndUpdate with the fields the body has, which leave or change a
\* status, a template that is not looked up, and a posting date.
updateJobRequisition(t, q, doc) ==
    /\ Ready(t)
    /\ requisition[q] # NoRequisition
    /\ requisition' = [requisition EXCEPT ![q] = doc]
    /\ UNCHANGED <<template, referral, task>>

\* Any number of them may name one candidate.
createReferral(t, c) ==
    /\ Ready(t)
    /\ referral[c] < MaxReferrals
    /\ referral' = [referral EXCEPT ![c] = @ + 1]
    /\ UNCHANGED <<template, requisition, task>>

-----------------------------------------------------------------------------
\* A crash or redeploy loses the calls in progress.
restart ==
    /\ \E t \in Tasks : ~Ready(t)
    /\ task' = [t \in Tasks |-> Idle]
    /\ UNCHANGED Stored

\* What the bodies of requests may say of a requisition.
Bodies == [publishStatus : PublishStatus, templateId : Templates \cup {None}, posted : BOOLEAN]

Call(t) ==
    \/ \E p \in Templates :
          \/ \E x \in Contents : createJobTemplate(t, p, x) \/ updateJobTemplate(t, p, x)
          \/ deleteJobTemplate(t, p)
    \/ \E doc \in Bodies : createJobRequisition(t, doc)
    \/ \E q \in Requisitions :
          \/ publishJobRequisition(t, q)
          \/ \E doc \in Bodies : updateJobRequisition(t, q, doc)
    \/ \E c \in Candidates : createReferral(t, c)

Step(t) == saveRequisition(t) \/ \E q \in Requisitions : insertRequisition(t, q)

Next == restart \/ \E t \in Tasks : Call(t) \/ Step(t)

Spec == Init /\ [][Next]_vars

-----------------------------------------------------------------------------
(* Properties.                                                              *)

Requisition == [publishStatus : PublishStatus, templateId : Templates \cup {None},
                posted : BOOLEAN]

\* The stored documents have their types.
TypeOK ==
    /\ template \in [Templates -> Contents \cup {None}]
    /\ requisition \in [Requisitions -> Requisition \cup {NoRequisition}]
    /\ referral \in [Candidates -> 0 .. MaxReferrals]

\* The template of every requisition is on file.
TemplateOnFile ==
    \A q \in Requisitions :
        requisition[q].templateId # None => template[requisition[q].templateId] # None
=============================================================================
