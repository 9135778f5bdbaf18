------------------------ MODULE PayrollConfiguration -------------------------
(***************************************************************************)
(* PayrollConfigurationService: the documents that say what is paid.       *)
(* Insurance brackets have handlers of their own, the company-wide         *)
(* settings have no status, and the seven other collections share one set  *)
(* of handlers, of which approval and deletion have no route.  A handler   *)
(* is one action per database round trip.  The editable fields of a        *)
(* document are one value; names, dates and creators are left out.         *)
(***************************************************************************)
EXTENDS MongooseDoc

CONSTANTS
    Tasks,      \* calls that can be in progress at the same time
    Configs,    \* ids of configuration documents
    Contents,   \* what the editable fields may hold
    Approvers,
    NoOne

DRAFT == "draft"
APPROVED == "approved"
REJECTED == "rejected"

BRACKET == "insuranceBrackets"
SETTINGS == "CompanyWideSettings"

Collections == {"allowance", "signingBonus", "taxRules", BRACKET, "payType", "payrollPolicies",
                "terminationAndResignationBenefits", SETTINGS, "payGrade"}

ASSUME ConfigurationAssumption == NoOne \notin Approvers \cup Contents \cup Collections

VARIABLES
    config,     \* config[c]: the document of c
    task        \* task[t]: what the call t remembers between two awaits

vars == <<config, task>>

NoConfig == [status |-> "absent", kind |-> NoOne, content |-> NoOne, approvedBy |-> NoOne]

Idle == [pc |-> "idle"]

Init ==
    /\ config = [c \in Configs |-> NoConfig]
    /\ task = [t \in Tasks |-> Idle]

-----------------------------------------------------------------------------
Kept(c) == config[c].status \notin {"absent", "deleted"}

Bracket(c) == Kept(c) /\ config[c].kind = BRACKET

Settings(c) == Kept(c) /\ config[c].kind = SETTINGS

\* A document of one of the collections that share their handlers.
Generic(c) == Kept(c) /\ config[c].kind \notin {BRACKET, SETTINGS}

Ready(t) == task[t].pc = "idle"

Continue(t, h) == task' = [task EXCEPT ![t] = h]

\* A handler returns or throws.
Return(t) == Continue(t, Idle)

\* The call is about to write content into c by id.
Writing(c, x) == [pc |-> "write", ref |-> c, content |-> x]

\* The call has read the document of c and is about to save it as doc.
Saving(c, doc) == [pc |-> "save", ref |-> c, read |-> config[c], doc |-> doc]

Removing(c) == [pc |-> "remove", ref |-> c]

-----------------------------------------------------------------------------
\* new model and save: the body may name an approver, too.
create(t, c, k, x, a) ==
    /\ Ready(t)
    /\ config[c] = NoConfig
    /\ config' = [config EXCEPT ![c] =
           [status |-> DRAFT, kind |-> k, content |-> x, approvedBy |-> a]]
    /\ UNCHANGED task

\* Mutant: the status is not looked at.
editConfiguration_AnyStatus(t, c, x) ==
    /\ Ready(t)
    /\ Generic(c)
    /\ Continue(t, Writing(c, x))
    /\ UNCHANGED config

editConfiguration(t, c, x) ==
    /\ Ready(t)
    /\ Generic(c)
    /\ config[c].status = DRAFT
    /\ Continue(t, Writing(c, x))
    /\ UNCHANGED config

\* findByIdAndUpdate of the editable fields: whatever the document is by now.
writeContent(t) ==
    /\ task[t].pc = "write"
    /\ config' = IF Kept(task[t].ref)
                 THEN [config EXCEPT ![task[t].ref].content = task[t].content]
                 ELSE config
    /\ Return(t)

\* One round trip, whatever the status is.
approveConfiguration(t, c, a) ==
    /\ Ready(t)
    /\ Generic(c)
    /\ config' = [config EXCEPT ![c].status = APPROVED, ![c].approvedBy = a]
    /\ UNCHANGED task

deleteConfiguration(t, c) ==
    /\ Ready(t)
    /\ Generic(c)
    /\ config' = [config EXCEPT ![c].status = "deleted"]
    /\ UNCHANGED task

-----------------------------------------------------------------------------
(* Insurance brackets: find, check, save.                                   *)

updateInsuranceBracket(t, c, x) ==
    /\ Ready(t)
    /\ Bracket(c)
    /\ config[c].status = DRAFT
    /\ Continue(t, Saving(c, [config[c] EXCEPT !.content = x]))
    /\ UNCHANGED config

approveInsuranceBracket(t, c, a) ==
    /\ Ready(t)
    /\ Bracket(c)
    /\ config[c].status # APPROVED
    /\ Continue(t, Saving(c, [config[c] EXCEPT !.status = APPROVED, !.approvedBy = a]))
    /\ UNCHANGED config

rejectInsuranceBracket(t, c) ==
    /\ Ready(t)
    /\ Bracket(c)
    /\ config[c].status # REJECTED
    /\ Continue(t, Saving(c, [config[c] EXCEPT !.status = REJECTED, !.approvedBy = NoOne]))
    /\ UNCHANGED config

\* A save of a document deleted meanwhile throws.
saveBracket(t) ==
    /\ task[t].pc = "save"
    /\ config' = IF Kept(task[t].ref)
                 THEN [config EXCEPT ![task[t].ref] = Saved(@, task[t].read, task[t].doc)]
                 ELSE config
    /\ Return(t)

deleteInsuranceBracket(t, c) ==
    /\ Ready(t)
    /\ Bracket(c)
    /\ config[c].status # APPROVED
    /\ Continue(t, Removing(c))
    /\ UNCHANGED config

removeBracket(t) ==
    /\ task[t].pc = "remove"
    /\ config' = IF Kept(task[t].ref)
                 THEN [config EXCEPT ![task[t].ref].status = "deleted"]
                 ELSE config
    /\ Return(t)

-----------------------------------------------------------------------------
(* Company-wide settings: no status, at most one document is meant.         *)

\* Mutant: existing settings are not looked for.
createCompanyWideSettings_Unchecked(t, x) ==
    /\ Ready(t)
    /\ Continue(t, [pc |-> "insert", content |-> x])
    /\ UNCHANGED config

createCompanyWideSettings(t, x) ==
    /\ Ready(t)
    /\ \A c \in Configs : ~Settings(c)
    /\ Continue(t, [pc |-> "insert", content |-> x])
    /\ UNCHANGED config

insertSettings(t, c) ==
    /\ task[t].pc = "insert"
    /\ config[c] = NoConfig
    /\ config' = [config EXCEPT ![c] =
           [status |-> "in force", kind |-> SETTINGS, content |-> task[t].content,
            approvedBy |-> NoOne]]
    /\ Return(t)

updateCompanyWideSettings(t, c, x) ==
    /\ Ready(t)
    /\ Settings(c)
    /\ Continue(t, Writing(c, x))
    /\ UNCHANGED config

-----------------------------------------------------------------------------
\* A crash or redeploy loses the calls in progress.
restart ==
    /\ \E t \in Tasks : ~Ready(t)
    /\ task' = [t \in Tasks |-> Idle]
    /\ UNCHANGED config

\* The handlers that a collection has routes for: create and update, and two
\* that read.
Collection(t, k) ==
    \E c \in Configs, x \in Contents :
        \/ \E a \in Approvers \cup {NoOne} : create(t, c, k, x, a)
        \/ config[c].kind = k /\ editConfiguration(t, c, x)

PayrollPolicies(t) == Collection(t, "payrollPolicies")

PayGrades(t) == Collection(t, "payGrade")

PayTypes(t) == Collection(t, "payType")

Allowances(t) == Collection(t, "allowance")

SigningBonuses(t) == Collection(t, "signingBonus")

TerminationBenefits(t) == Collection(t, "terminationAndResignationBenefits")

TaxRules(t) == Collection(t, "taxRules")

InsuranceBrackets(t) ==
    \E c \in Configs :
        \/ \E x \in Contents :
              \/ \E a \in Approvers \cup {NoOne} : create(t, c, BRACKET, x, a)
              \/ updateInsuranceBracket(t, c, x)
        \/ \E a \in Approvers : approveInsuranceBracket(t, c, a)
        \/ rejectInsuranceBracket(t, c) \/ deleteInsuranceBracket(t, c)

CompanyWideSettings(t) ==
    \E x \in Contents :
        createCompanyWideSettings(t, x) \/ \E c \in Configs : updateCompanyWideSettings(t, c, x)

Unrouted(t) ==
    \E c \in Configs :
        deleteConfiguration(t, c) \/ \E a \in Approvers : approveConfiguration(t, c, a)

CallDrafts(t) ==
    \/ PayrollPolicies(t) \/ PayGrades(t) \/ PayTypes(t) \/ Allowances(t)

CallBenefits(t) == SigningBonuses(t) \/ TerminationBenefits(t)

CallSettings(t) == CompanyWideSettings(t) \/ TaxRules(t)

Call(t) ==
    \/ InsuranceBrackets(t) \/ CallDrafts(t) \/ CallBenefits(t) \/ CallSettings(t)
    \/ Unrouted(t)

Step(t) ==
    \/ writeContent(t) \/ saveBracket(t) \/ removeBracket(t)
    \/ \E c \in Configs : insertSettings(t, c)

Next == restart \/ \E t \in Tasks : Call(t) \/ Step(t)

Spec == Init /\ [][Next]_vars

-----------------------------------------------------------------------------
(* Properties.                                                              *)

Stored == [status : {"deleted", DRAFT, APPROVED, REJECTED, "in force"}, kind : Collections,
           content : Contents, approvedBy : Approvers \cup {NoOne}]

ConfigDoc == {NoConfig} \cup Stored

CallState ==
    {Idle}
    \cup [pc : {"write"}, ref : Configs, content : Contents]
    \cup [pc : {"insert"}, content : Contents]
    \cup [pc : {"save"}, ref : Configs, read : Stored, doc : Stored]
    \cup [pc : {"remove"}, ref : Configs]

\* The documents and what the calls remember have their types.
TypeOK == config \in [Configs -> ConfigDoc] /\ task \in [Tasks -> CallState]

\* While calls do not overlap, an approved configuration keeps its content,
\* and an approved insurance bracket is not deleted: the draft check of every
\* edit and the approval check of the deletion (WORKFLOW.md, "APPROVED:
\* Configuration is active and published. Editing is blocked").
ApprovedIsFrozen ==
    [][\A c \in Configs :
          config[c].status = APPROVED =>
              /\ config'[c].content = config[c].content
              /\ Bracket(c) => config'[c].status # "deleted"]_vars

\* While calls do not overlap, there is at most one document of company-wide
\* settings (createCompanyWideSettings: "typically only one should exist").
OneSettings == \A c, d \in Configs : (Settings(c) /\ Settings(d)) => c = d
=============================================================================
