----------------------------- MODULE DesksProofs ------------------------------
(***************************************************************************)
(* Theorems about Desks, for every set of documents and calls: each desk's *)
(* inductive invariant, and what follows for the desks together.  First    *)
(* the desk that Desks extends, PayrollConfiguration, then one section for *)
(* each of the others.  What needs calls not to overlap says so: the set   *)
(* of calls in progress has one element.  The process may restart in the   *)
(* middle of any call.                                                     *)
(***************************************************************************)
EXTENDS Desks, FiniteSetTheorems, SequenceTheorems, TLAPS

-----------------------------------------------------------------------------
(* The steps, by handler.                                                   *)

\* What a call to a handler may do to or learn of the document c.
CallAbout(t, c) ==
    \/ \E k \in Collections \ {SETTINGS}, x \in Contents, a \in Approvers \cup {NoOne} :
           create(t, c, k, x, a)
    \/ \E x \in Contents : editConfiguration(t, c, x)
    \/ \E x \in Contents : updateInsuranceBracket(t, c, x)
    \/ \E x \in Contents : updateCompanyWideSettings(t, c, x)
    \/ \E a \in Approvers : approveConfiguration(t, c, a)
    \/ \E a \in Approvers : approveInsuranceBracket(t, c, a)
    \/ rejectInsuranceBracket(t, c)
    \/ deleteInsuranceBracket(t, c)
    \/ deleteConfiguration(t, c)

LEMMA CollectionCalls ==
    ASSUME NEW t, NEW k \in Collections \ {SETTINGS}, Collection(t, k)
    PROVE  \E c \in Configs : CallAbout(t, c)
BY DEF Collection, CallAbout

LEMMA Calls ==
    ASSUME NEW t, Call(t)
    PROVE  \/ \E c \in Configs : CallAbout(t, c)
           \/ \E x \in Contents : createCompanyWideSettings(t, x)
<1>1. CASE InsuranceBrackets(t)
  <2>1. BRACKET \in Collections \ {SETTINGS}
    BY DEF Collections, BRACKET, SETTINGS
  <2> QED BY <1>1, <2>1 DEF InsuranceBrackets, CallAbout
<1>2. CASE CallDrafts(t) \/ CallBenefits(t) \/ TaxRules(t)
  <2>1. \E k \in Collections \ {SETTINGS} : Collection(t, k)
    BY <1>2 DEF CallDrafts, CallBenefits, TaxRules, PayrollPolicies, PayGrades, PayTypes,
                Allowances, SigningBonuses, TerminationBenefits, Collections, BRACKET, SETTINGS
  <2> QED BY <2>1, CollectionCalls
<1>3. CASE CompanyWideSettings(t)
  BY <1>3 DEF CompanyWideSettings, CallAbout
<1>4. CASE Unrouted(t)
  BY <1>4 DEF Unrouted, CallAbout
<1> QED BY <1>1, <1>2, <1>3, <1>4 DEF Call, CallSettings

-----------------------------------------------------------------------------
(* Types.                                                                   *)

LEMMA KeptIsStored ==
    ASSUME TypeOK, NEW c \in Configs, Kept(c)
    PROVE  config[c] \in Stored
<1>1. config[c] = NoConfig \/ config[c] \in Stored
  BY DEF TypeOK, ConfigDoc, Stored
<1>2. NoConfig.status = "absent"
  BY DEF NoConfig
<1> QED BY <1>1, <1>2 DEF Kept

\* A call that is kept in mind and a document that is stored have their types.
LEMMA TaskType ==
    ASSUME TypeOK, NEW t \in Tasks, NEW h \in CallState, Continue(t, h)
    PROVE  task' \in [Tasks -> CallState]
BY DEF TypeOK, Continue

LEMMA ReturnType ==
    ASSUME TypeOK, NEW t \in Tasks, Return(t)
    PROVE  task' \in [Tasks -> CallState]
BY TaskType DEF Return, CallState

LEMMA ConfigType ==
    ASSUME TypeOK, NEW c \in Configs, NEW d \in Stored, config' = [config EXCEPT ![c] = d]
    PROVE  config' \in [Configs -> ConfigDoc]
BY DEF TypeOK, ConfigDoc, Stored

\* Every field of what a save leaves is that of one of three documents.
LEMMA SavedType ==
    ASSUME NEW d \in Stored, NEW read \in Stored, NEW doc \in Stored
    PROVE  Saved(d, read, doc) \in Stored
<1>1. DOMAIN d = {"status", "kind", "content", "approvedBy"}
  BY DEF Stored
<1> DEFINE val(f) == IF doc[f] # read[f] THEN doc[f] ELSE d[f]
           s == val("status")
           k == val("kind")
           x == val("content")
           a == val("approvedBy")
<1>2. Saved(d, read, doc) = [f \in {"status", "kind", "content", "approvedBy"} |-> val(f)]
  BY <1>1 DEF Saved
<1>3. Saved(d, read, doc) = [status |-> s, kind |-> k, content |-> x, approvedBy |-> a]
  BY <1>2
<1>4. /\ s \in {"deleted", DRAFT, APPROVED, REJECTED, "in force"}
      /\ k \in Collections /\ x \in Contents /\ a \in Approvers \cup {NoOne}
  BY DEF Stored
<1> HIDE DEF s, k, x, a
<1>5. [status |-> s, kind |-> k, content |-> x, approvedBy |-> a] \in Stored
  BY <1>4 DEF Stored
<1> QED BY <1>3, <1>5

-----------------------------------------------------------------------------
(* Every step keeps the types.                                              *)

LEMMA TypeByCall ==
    ASSUME TypeOK, NEW t \in Tasks, NEW c \in Configs, CallAbout(t, c)
    PROVE  TypeOK'
<1>1. ASSUME NEW k \in Collections, NEW x \in Contents, NEW a \in Approvers \cup {NoOne},
             create(t, c, k, x, a)
      PROVE  TypeOK'
  <2>1. [status |-> DRAFT, kind |-> k, content |-> x, approvedBy |-> a] \in Stored
    BY DEF Stored
  <2> QED BY <1>1, <2>1, ConfigType DEF create, TypeOK
<1>2. ASSUME NEW x \in Contents, editConfiguration(t, c, x) \/ updateCompanyWideSettings(t, c, x)
      PROVE  TypeOK'
  <2>1. Writing(c, x) \in CallState
    BY DEF Writing, CallState
  <2> QED BY <1>2, <2>1, TaskType DEF editConfiguration, updateCompanyWideSettings, TypeOK
<1>3. ASSUME NEW doc, Kept(c), Kept(c) => doc \in Stored, Continue(t, Saving(c, doc)), UNCHANGED config
      PROVE  TypeOK'
  <2>1. Saving(c, doc) \in CallState
    BY <1>3, KeptIsStored DEF Saving, CallState
  <2> QED BY <1>3, <2>1, TaskType DEF TypeOK
<1>4. ASSUME NEW x \in Contents, updateInsuranceBracket(t, c, x)
      PROVE  TypeOK'
  <2>1. Kept(c) => [config[c] EXCEPT !.content = x] \in Stored
    BY KeptIsStored DEF Stored
  <2> QED BY <1>3, <1>4, <2>1 DEF updateInsuranceBracket, Bracket
<1>5. ASSUME NEW a \in Approvers, approveInsuranceBracket(t, c, a)
      PROVE  TypeOK'
  <2>1. Kept(c) => [config[c] EXCEPT !.status = APPROVED, !.approvedBy = a] \in Stored
    BY KeptIsStored DEF Stored
  <2> QED BY <1>3, <1>5, <2>1 DEF approveInsuranceBracket, Bracket
<1>6. ASSUME rejectInsuranceBracket(t, c)
      PROVE  TypeOK'
  <2>1. Kept(c) => [config[c] EXCEPT !.status = REJECTED, !.approvedBy = NoOne] \in Stored
    BY KeptIsStored DEF Stored
  <2> QED BY <1>3, <1>6, <2>1 DEF rejectInsuranceBracket, Bracket
<1>7. ASSUME NEW a \in Approvers, approveConfiguration(t, c, a)
      PROVE  TypeOK'
  <2>1. [config[c] EXCEPT !.status = APPROVED, !.approvedBy = a] \in Stored
    BY <1>7, KeptIsStored DEF approveConfiguration, Generic, Stored
  <2>2. config' = [config EXCEPT ![c] = [config[c] EXCEPT !.status = APPROVED, !.approvedBy = a]]
    BY <1>7 DEF approveConfiguration, TypeOK
  <2> QED BY <1>7, <2>1, <2>2, ConfigType DEF approveConfiguration, TypeOK
<1>8. ASSUME deleteInsuranceBracket(t, c)
      PROVE  TypeOK'
  <2>1. Removing(c) \in CallState
    BY DEF Removing, CallState
  <2> QED BY <1>8, <2>1, TaskType DEF deleteInsuranceBracket, TypeOK
<1>9. ASSUME deleteConfiguration(t, c)
      PROVE  TypeOK'
  <2>1. [config[c] EXCEPT !.status = "deleted"] \in Stored
    BY <1>9, KeptIsStored DEF deleteConfiguration, Generic, Stored
  <2>2. config' = [config EXCEPT ![c] = [config[c] EXCEPT !.status = "deleted"]]
    BY <1>9 DEF deleteConfiguration, TypeOK
  <2> QED BY <1>9, <2>1, <2>2, ConfigType DEF deleteConfiguration, TypeOK
<1> QED BY <1>1, <1>2, <1>4, <1>5, <1>6, <1>7, <1>8, <1>9 DEF CallAbout

LEMMA TypeByInit == Init => TypeOK
BY DEF Init, TypeOK, ConfigDoc, CallState

LEMMA TypeByStep ==
    ASSUME TypeOK, NEW t \in Tasks, Step(t)
    PROVE  TypeOK'
<1> DEFINE h == task[t]
           c == h.ref
<1>1. h \in CallState
  BY DEF TypeOK
<1>2. ASSUME NEW doc, Kept(c) => doc \in Stored, c \in Configs, Return(t),
             config' = IF Kept(c) THEN [config EXCEPT ![c] = doc] ELSE config
      PROVE  TypeOK'
  BY <1>2, ReturnType, ConfigType DEF TypeOK
<1>3. CASE writeContent(t)
  <2>1. c \in Configs /\ h.content \in Contents
    BY <1>1, <1>3 DEF CallState, Idle, writeContent
  <2>2. Kept(c) => [config[c] EXCEPT !.content = h.content] \in Stored
    BY <2>1, KeptIsStored DEF Stored
  <2>3. [config EXCEPT ![c].content = h.content]
           = [config EXCEPT ![c] = [config[c] EXCEPT !.content = h.content]]
    BY <2>1 DEF TypeOK
  <2> QED BY <1>2, <1>3, <2>1, <2>2, <2>3 DEF writeContent
<1>4. CASE saveBracket(t)
  <2>1. c \in Configs /\ h.read \in Stored /\ h.doc \in Stored
    BY <1>1, <1>4 DEF CallState, Idle, saveBracket
  <2>2. Kept(c) => Saved(config[c], h.read, h.doc) \in Stored
    BY <2>1, KeptIsStored, SavedType
  <2>3. [config EXCEPT ![c] = Saved(@, h.read, h.doc)]
           = [config EXCEPT ![c] = Saved(config[c], h.read, h.doc)]
    BY <2>1 DEF TypeOK
  <2> QED BY <1>2, <1>4, <2>1, <2>2, <2>3 DEF saveBracket
<1>5. CASE removeBracket(t)
  <2>1. c \in Configs
    BY <1>1, <1>5 DEF CallState, Idle, removeBracket
  <2>2. Kept(c) => [config[c] EXCEPT !.status = "deleted"] \in Stored
    BY <2>1, KeptIsStored DEF Stored
  <2>3. [config EXCEPT ![c].status = "deleted"]
           = [config EXCEPT ![c] = [config[c] EXCEPT !.status = "deleted"]]
    BY <2>1 DEF TypeOK
  <2> QED BY <1>2, <1>5, <2>1, <2>2, <2>3 DEF removeBracket
<1>6. ASSUME NEW b \in Configs, insertSettings(t, b)
      PROVE  TypeOK'
  <2>1. h.content \in Contents
    <3>1. h.pc = "insert"
      BY <1>6 DEF insertSettings
    <3>2. h \in [pc : {"insert"}, content : Contents]
      BY <1>1, <3>1 DEF CallState, Idle
    <3> QED BY <3>2
  <2>2. [status |-> "in force", kind |-> SETTINGS, content |-> h.content, approvedBy |-> NoOne]
           \in Stored
    BY <2>1 DEF Stored, Collections
  <2> QED BY <1>6, <2>2, ConfigType, ReturnType DEF insertSettings, TypeOK
<1> QED BY <1>3, <1>4, <1>5, <1>6 DEF Step

LEMMA TypeKept == TypeOK /\ [Next]_vars => TypeOK'
<1> SUFFICES ASSUME TypeOK, [Next]_vars PROVE TypeOK'
  OBVIOUS
<1>1. CASE restart
  BY <1>1 DEF restart, TypeOK, CallState
<1>2. ASSUME NEW t \in Tasks, Call(t)
      PROVE  TypeOK'
  <2>1. ASSUME NEW x \in Contents, createCompanyWideSettings(t, x)
        PROVE  TypeOK'
    <3>1. [pc |-> "insert", content |-> x] \in CallState
      BY DEF CallState
    <3> QED BY <2>1, <3>1, TaskType DEF createCompanyWideSettings, TypeOK
  <2> QED BY <1>2, <2>1, Calls, TypeByCall
<1>3. CASE UNCHANGED vars
  BY <1>3 DEF vars, TypeOK
<1> QED BY <1>1, <1>2, <1>3, TypeByStep DEF Next

\* Stored configurations and calls in progress have their types, however many
\* calls overlap and whenever the server restarts.
THEOREM TypeCorrect == Spec => []TypeOK
BY TypeByInit, TypeKept, PTL DEF Spec

-----------------------------------------------------------------------------
(* While calls do not overlap.                                              *)

\* What the handlers promise of c in a step.
Frozen(c) ==
    config[c].status = APPROVED =>
        /\ config'[c].content = config[c].content
        /\ Bracket(c) => config'[c].status # "deleted"

\* No settings are ever approved: they are no draft, and have no approval.
SettingsPlain == \A c \in Configs : config[c].kind = SETTINGS => config[c].status # APPROVED

\* What a handler has checked of the document it is about to write.
Checked(h) ==
    /\ h.pc = "write" => config[h.ref].status # APPROVED
    /\ h.pc = "save" =>
          /\ config[h.ref] = h.read
          /\ h.doc.kind = BRACKET /\ h.doc.status # "deleted"
          /\ h.read.status = APPROVED => h.doc.content = h.read.content
    /\ h.pc = "remove" => config[h.ref].kind = BRACKET /\ config[h.ref].status # APPROVED

SerialInv == TypeOK /\ SettingsPlain /\ \A t \in Tasks : Checked(task[t])

\* The handler has read and goes on.
LEMMA SerialRead ==
    ASSUME SerialInv, TypeOK', NEW t \in Tasks, Tasks = {t}, NEW h,
           Continue(t, h), UNCHANGED config, Checked(h)
    PROVE  SerialInv' /\ \A c \in Configs : Frozen(c)
<1>1. task'[t] = h
  BY DEF SerialInv, TypeOK, Continue
<1>2. Checked(h)'
  BY DEF Checked
<1> QED BY <1>1, <1>2 DEF SerialInv, SettingsPlain, Frozen, APPROVED, Checked

\* The handler has written one document and is done, or none.
LEMMA SerialWritten ==
    ASSUME SerialInv, TypeOK', NEW t \in Tasks, Tasks = {t}, task'[t] = Idle,
           NEW c \in Configs, \A b \in Configs \ {c} : config'[b] = config[b],
           config'[c].kind = SETTINGS => config'[c].status # APPROVED,
           Frozen(c)
    PROVE  SerialInv' /\ \A b \in Configs : Frozen(b)
<1>1. Checked(Idle)'
  BY DEF Checked, Idle
<1>2. SettingsPlain'
  BY DEF SerialInv, SettingsPlain
<1>3. ASSUME NEW b \in Configs \ {c} PROVE Frozen(b)
  BY <1>3 DEF Frozen, APPROVED
<1> QED BY <1>1, <1>2, <1>3 DEF SerialInv

LEMMA SerialCall ==
    ASSUME SerialInv, TypeOK', NEW t \in Tasks, Tasks = {t},
           NEW c \in Configs, CallAbout(t, c)
    PROVE  SerialInv' /\ \A b \in Configs : Frozen(b)
<1> DEFINE Goal == SerialInv' /\ \A b \in Configs : Frozen(b)
<1>0. TypeOK /\ SettingsPlain /\ config \in [Configs -> ConfigDoc]
  BY DEF SerialInv, TypeOK
<1>1. ASSUME NEW k \in Collections \ {SETTINGS}, NEW x \in Contents,
             NEW a \in Approvers \cup {NoOne}, create(t, c, k, x, a)
      PROVE  Goal
  <2>1. /\ task' = task /\ task[t] = Idle
        /\ config[c].status = "absent" /\ config'[c].kind # SETTINGS
        /\ \A b \in Configs \ {c} : config'[b] = config[b]
    <3>1. task[t] = Idle
      <4>1. task[t] \in CallState /\ task[t].pc = "idle"
        BY <1>0, <1>1 DEF TypeOK, create, Ready
      <4> QED BY <4>1 DEF CallState
    <3> QED BY <1>0, <1>1, <3>1 DEF create, NoConfig
  <2> QED BY <2>1, SerialWritten DEF Frozen, APPROVED
<1>2. ASSUME NEW x \in Contents, editConfiguration(t, c, x)
      PROVE  Goal
  <2>1. Checked(Writing(c, x))
    BY <1>2 DEF editConfiguration, Checked, Writing, DRAFT, APPROVED
  <2> QED BY <1>2, <2>1, SerialRead DEF editConfiguration
<1>3. ASSUME NEW x \in Contents, updateCompanyWideSettings(t, c, x)
      PROVE  Goal
  <2>1. Checked(Writing(c, x))
    BY <1>0, <1>3 DEF updateCompanyWideSettings, Settings, SettingsPlain, Checked, Writing
  <2> QED BY <1>3, <2>1, SerialRead DEF updateCompanyWideSettings
<1>4. ASSUME NEW doc, Continue(t, Saving(c, doc)), UNCHANGED config,
             doc.kind = BRACKET, doc.status # "deleted",
             config[c].status = APPROVED => doc.content = config[c].content
      PROVE  Goal
  <2>1. Checked(Saving(c, doc))
    BY <1>4 DEF Checked, Saving
  <2> QED BY <1>4, <2>1, SerialRead
<1>5. Kept(c) => config[c] \in Stored
  BY <1>0, KeptIsStored
<1>6. ASSUME NEW x \in Contents, updateInsuranceBracket(t, c, x)
      PROVE  Goal
  <2> DEFINE doc == [config[c] EXCEPT !.content = x]
  <2>1. /\ config[c] \in Stored /\ config[c].kind = BRACKET /\ config[c].status = DRAFT
        /\ Continue(t, Saving(c, doc)) /\ UNCHANGED config
    BY <1>5, <1>6 DEF updateInsuranceBracket, Bracket
  <2>2. doc.kind = BRACKET /\ doc.status = DRAFT
    BY <2>1 DEF Stored
  <2> QED BY <1>4, <2>1, <2>2 DEF DRAFT, APPROVED
<1>7. ASSUME NEW a \in Approvers, approveInsuranceBracket(t, c, a)
      PROVE  Goal
  <2> DEFINE doc == [config[c] EXCEPT !.status = APPROVED, !.approvedBy = a]
  <2>1. /\ config[c] \in Stored /\ config[c].kind = BRACKET
        /\ Continue(t, Saving(c, doc)) /\ UNCHANGED config
    BY <1>5, <1>7 DEF approveInsuranceBracket, Bracket
  <2>2. doc.kind = BRACKET /\ doc.status = APPROVED /\ doc.content = config[c].content
    BY <2>1 DEF Stored
  <2> QED BY <1>4, <2>1, <2>2 DEF APPROVED
<1>8. ASSUME rejectInsuranceBracket(t, c)
      PROVE  Goal
  <2> DEFINE doc == [config[c] EXCEPT !.status = REJECTED, !.approvedBy = NoOne]
  <2>1. /\ config[c] \in Stored /\ config[c].kind = BRACKET
        /\ Continue(t, Saving(c, doc)) /\ UNCHANGED config
    BY <1>5, <1>8 DEF rejectInsuranceBracket, Bracket
  <2>2. doc.kind = BRACKET /\ doc.status = REJECTED /\ doc.content = config[c].content
    BY <2>1 DEF Stored
  <2> QED BY <1>4, <2>1, <2>2 DEF REJECTED
<1>9. ASSUME deleteInsuranceBracket(t, c)
      PROVE  Goal
  <2>1. Checked(Removing(c))
    BY <1>9 DEF deleteInsuranceBracket, Bracket, Checked, Removing
  <2> QED BY <1>9, <2>1, SerialRead DEF deleteInsuranceBracket
<1>10. ASSUME NEW doc, Generic(c), config' = [config EXCEPT ![c] = doc], UNCHANGED task,
              Ready(t), doc.kind = config[c].kind, doc.content = config[c].content
       PROVE  Goal
  <2>1. task[t] = Idle
    <3>1. task[t] \in CallState /\ task[t].pc = "idle"
      BY <1>0, <1>10 DEF TypeOK, Ready
    <3> QED BY <3>1 DEF CallState
  <2>2. config'[c] = doc /\ \A b \in Configs \ {c} : config'[b] = config[b]
    BY <1>0, <1>10
  <2>3. config[c].kind \notin {BRACKET, SETTINGS}
    BY <1>10 DEF Generic
  <2>4. Frozen(c)
    BY <1>10, <2>2, <2>3 DEF Frozen, Bracket
  <2> QED BY <1>10, <2>1, <2>2, <2>3, <2>4, SerialWritten
<1>11. ASSUME NEW a \in Approvers, approveConfiguration(t, c, a)
       PROVE  Goal
  <2> DEFINE doc == [config[c] EXCEPT !.status = APPROVED, !.approvedBy = a]
  <2>1. config' = [config EXCEPT ![c] = doc] /\ config[c] \in Stored
    BY <1>0, <1>5, <1>11 DEF approveConfiguration, Generic
  <2>2. doc.kind = config[c].kind /\ doc.content = config[c].content
    BY <2>1 DEF Stored
  <2> QED BY <1>10, <1>11, <2>1, <2>2 DEF approveConfiguration
<1>12. ASSUME deleteConfiguration(t, c)
       PROVE  Goal
  <2> DEFINE doc == [config[c] EXCEPT !.status = "deleted"]
  <2>1. config' = [config EXCEPT ![c] = doc] /\ config[c] \in Stored
    BY <1>0, <1>5, <1>12 DEF deleteConfiguration, Generic
  <2>2. doc.kind = config[c].kind /\ doc.content = config[c].content
    BY <2>1 DEF Stored
  <2> QED BY <1>10, <1>12, <2>1, <2>2 DEF deleteConfiguration
<1> QED
  BY <1>1, <1>2, <1>3, <1>6, <1>7, <1>8, <1>9, <1>11, <1>12 DEF CallAbout

LEMMA SerialStep ==
    ASSUME SerialInv, TypeOK', NEW t \in Tasks, Tasks = {t}, Step(t)
    PROVE  SerialInv' /\ \A b \in Configs : Frozen(b)
<1> DEFINE h == task[t]
           c == h.ref
           Goal == SerialInv' /\ \A b \in Configs : Frozen(b)
<1>0. /\ TypeOK /\ SettingsPlain /\ Checked(h)
      /\ config \in [Configs -> ConfigDoc] /\ h \in CallState
  BY DEF SerialInv, TypeOK
<1>1. Return(t) => task'[t] = Idle
  BY <1>0 DEF Return, Continue, TypeOK
<1>2. ASSUME NEW doc, c \in Configs, task'[t] = Idle,
             config' = IF Kept(c) THEN [config EXCEPT ![c] = doc] ELSE config,
             Kept(c) => /\ doc.kind = SETTINGS => doc.status # APPROVED
                        /\ config[c].status = APPROVED =>
                              /\ doc.content = config[c].content
                              /\ config[c].kind = BRACKET => doc.status # "deleted"
      PROVE  Goal
  <2>1. /\ \A b \in Configs \ {c} : config'[b] = config[b]
        /\ config'[c] = IF Kept(c) THEN doc ELSE config[c]
    BY <1>0, <1>2
  <2>2. config'[c].kind = SETTINGS => config'[c].status # APPROVED
    BY <1>0, <1>2, <2>1 DEF SettingsPlain
  <2>3. Frozen(c)
    BY <1>2, <2>1 DEF Frozen, Bracket, APPROVED
  <2> QED BY <1>2, <2>1, <2>2, <2>3, SerialWritten
<1>3. Kept(c) /\ c \in Configs => config[c] \in Stored
  BY <1>0, KeptIsStored
<1>4. CASE writeContent(t)
  <2> DEFINE doc == [config[c] EXCEPT !.content = h.content]
  <2>1. h.pc = "write"
    BY <1>4 DEF writeContent
  <2>2. c \in Configs /\ config[c].status # APPROVED
    BY <1>0, <2>1 DEF CallState, Idle, Checked
  <2>3. config' = IF Kept(c) THEN [config EXCEPT ![c] = doc] ELSE config
    BY <1>0, <1>4, <2>2 DEF writeContent
  <2>4. Kept(c) => doc.kind = config[c].kind /\ doc.status = config[c].status
    BY <1>3, <2>2 DEF Stored
  <2> QED BY <1>1, <1>2, <1>4, <2>2, <2>3, <2>4 DEF writeContent
<1>5. CASE saveBracket(t)
  <2> DEFINE doc == Saved(config[c], h.read, h.doc)
  <2>1. h.pc = "save"
    BY <1>5 DEF saveBracket
  <2>2. c \in Configs /\ h.read \in Stored /\ h.doc \in Stored
    BY <1>0, <2>1 DEF CallState, Idle
  <2>3. /\ config[c] = h.read /\ h.doc.kind = BRACKET /\ h.doc.status # "deleted"
        /\ config[c].status = APPROVED => h.doc.content = config[c].content
    BY <1>0, <2>1 DEF Checked
  <2>4. doc = h.doc
    <3>1. /\ DOMAIN config[c] = {"status", "kind", "content", "approvedBy"}
          /\ h.doc = [f \in {"status", "kind", "content", "approvedBy"} |-> h.doc[f]]
      BY <2>2, <2>3 DEF Stored
    <3>2. doc = [f \in {"status", "kind", "content", "approvedBy"} |-> h.doc[f]]
      BY <2>3, <3>1 DEF Saved
    <3> QED BY <3>1, <3>2
  <2>5. config' = IF Kept(c) THEN [config EXCEPT ![c] = doc] ELSE config
    BY <1>0, <1>5, <2>2 DEF saveBracket
  <2>6. doc.kind # SETTINGS
    BY <2>3, <2>4 DEF BRACKET, SETTINGS
  <2> HIDE DEF doc
  <2> QED BY <1>1, <1>2, <1>5, <2>2, <2>3, <2>4, <2>5, <2>6 DEF saveBracket
<1>6. CASE removeBracket(t)
  <2> DEFINE doc == [config[c] EXCEPT !.status = "deleted"]
  <2>1. h.pc = "remove"
    BY <1>6 DEF removeBracket
  <2>2. c \in Configs /\ config[c].kind = BRACKET /\ config[c].status # APPROVED
    BY <1>0, <2>1 DEF CallState, Idle, Checked
  <2>3. config' = IF Kept(c) THEN [config EXCEPT ![c] = doc] ELSE config
    BY <1>0, <1>6, <2>2 DEF removeBracket
  <2>4. Kept(c) => doc.kind = config[c].kind /\ doc.status = "deleted"
    BY <1>3, <2>2 DEF Stored
  <2> QED BY <1>1, <1>2, <1>6, <2>2, <2>3, <2>4 DEF removeBracket, APPROVED
<1>7. ASSUME NEW b \in Configs, insertSettings(t, b)
      PROVE  Goal
  <2>1. /\ config[b].status = "absent" /\ config'[b].status = "in force"
        /\ \A d \in Configs \ {b} : config'[d] = config[d]
    <3> DEFINE doc == [status |-> "in force", kind |-> SETTINGS, content |-> h.content,
                       approvedBy |-> NoOne]
    <3>1. doc.status = "in force"
      OBVIOUS
    <3>2. config[b] = NoConfig /\ config' = [config EXCEPT ![b] = doc]
      BY <1>7 DEF insertSettings
    <3>3. NoConfig.status = "absent"
      BY DEF NoConfig
    <3> HIDE DEF doc
    <3>4. config'[b] = doc /\ \A d \in Configs \ {b} : config'[d] = config[d]
      BY <1>0, <3>2
    <3> QED BY <3>1, <3>2, <3>3, <3>4
  <2> QED BY <1>1, <1>7, <2>1, SerialWritten DEF insertSettings, Frozen, APPROVED
<1> QED BY <1>4, <1>5, <1>6, <1>7 DEF Step

LEMMA SerialKept ==
    ASSUME NEW solo, Tasks = {solo}, SerialInv, [Next]_vars
    PROVE  SerialInv' /\ \A c \in Configs : Frozen(c)
<1>1. TypeOK'
  BY TypeKept DEF SerialInv
<1>2. CASE restart
  <2>1. task'[solo] = Idle /\ config' = config
    BY <1>2 DEF restart
  <2>2. Checked(Idle)'
    BY DEF Checked, Idle
  <2> QED BY <1>1, <2>1, <2>2 DEF SerialInv, SettingsPlain, Frozen, APPROVED
<1>3. CASE UNCHANGED vars
  BY <1>1, <1>3 DEF vars, SerialInv, SettingsPlain, Checked, Frozen, APPROVED
<1>4. CASE Call(solo)
  <2>1. ASSUME NEW x \in Contents, createCompanyWideSettings(solo, x)
        PROVE  SerialInv' /\ \A c \in Configs : Frozen(c)
    <3>1. Checked([pc |-> "insert", content |-> x])
      BY DEF Checked
    <3> QED BY <1>1, <2>1, <3>1, SerialRead DEF createCompanyWideSettings
  <2> QED BY <1>1, <1>4, <2>1, Calls, SerialCall
<1>5. CASE Step(solo)
  BY <1>1, <1>5, SerialStep
<1> QED BY <1>2, <1>3, <1>4, <1>5 DEF Next

\* While calls do not overlap, whenever the server restarts: an approved
\* configuration keeps its content, and an approved insurance bracket is not
\* deleted, for the check before each edit and each deletion (editConfiguration,
\* updateInsuranceBracket, deleteInsuranceBracket).
THEOREM SerialApprovedIsFrozen ==
    ASSUME NEW CONSTANT solo, Tasks = {solo}
    PROVE  Spec => ApprovedIsFrozen
<1>1. Init => SerialInv
  BY TypeByInit DEF Init, SerialInv, SettingsPlain, NoConfig, Checked, Idle, APPROVED
<1>2. SerialInv /\ [Next]_vars => SerialInv'
  BY SerialKept
<1>3. SerialInv /\ [Next]_vars =>
         [\A c \in Configs :
            config[c].status = APPROVED =>
                /\ config'[c].content = config[c].content
                /\ Bracket(c) => config'[c].status # "deleted"]_vars
  BY SerialKept DEF Frozen
<1> QED BY <1>1, <1>2, <1>3, PTL DEF Spec, ApprovedIsFrozen

-----------------------------------------------------------------------------
(* The company-wide settings.                                               *)

\* There is one document of settings, and none when one is to be inserted.
SettingsInv ==
    /\ SerialInv /\ OneSettings
    /\ \A t \in Tasks : task[t].pc = "insert" => \A c \in Configs : ~Settings(c)

\* A document that is settings after the step was so before it.
NoNewSettings ==
    \A c \in Configs :
        (config'[c].status \notin {"absent", "deleted"} /\ config'[c].kind = SETTINGS)
            => Settings(c)

LEMMA SettingsKept ==
    ASSUME NEW t, Tasks = {t}, SettingsInv, [Next]_vars
    PROVE  SettingsInv'
<1>1. SerialInv' /\ TypeOK  BY SerialKept DEF SettingsInv, SerialInv
<1>2. t \in Tasks /\ config \in [Configs -> ConfigDoc] /\ task \in [Tasks -> CallState]
  BY <1>1 DEF TypeOK
<1>3. ASSUME NoNewSettings,
             task'[t].pc = "insert" => task[t].pc = "insert" \/ \A c \in Configs : ~Settings(c)
      PROVE  SettingsInv'
  BY <1>1, <1>3 DEF SettingsInv, NoNewSettings, OneSettings, Settings, Kept
\* Nothing is written.
<1>4. ASSUME config' = config, NEW h, Continue(t, h),
             h.pc = "insert" => \A c \in Configs : ~Settings(c)
      PROVE  SettingsInv'
  <2>1. task'[t] = h  BY <1>2, <1>4 DEF Continue
  <2> QED  BY <1>3, <1>4, <2>1 DEF NoNewSettings, Settings, Kept
\* One document is written, with no settings for what was none.
<1>5. ASSUME NEW c, NEW doc, config' = [config EXCEPT ![c] = doc],
             doc.kind = SETTINGS => Settings(c), task' = task \/ Return(t)
      PROVE  SettingsInv'
  <2>1. NoNewSettings  BY <1>2, <1>5 DEF NoNewSettings, Settings, Kept
  <2>2. task'[t].pc = "insert" => task[t].pc = "insert"
    BY <1>2, <1>5 DEF Return, Continue, Idle
  <2> QED  BY <1>3, <2>1, <2>2
<1>r. ASSUME config' = config, Return(t)  PROVE SettingsInv'
  BY <1>4, <1>r DEF Return, Idle
<1>s. \A c \in Configs : Kept(c) => config[c] \in Stored  BY <1>1, KeptIsStored
<1>6. CASE restart
  <2>1. config' = config /\ task'[t].pc = "idle"  BY <1>2, <1>6 DEF restart, Idle
  <2> QED  BY <1>3, <2>1 DEF NoNewSettings, Settings, Kept
<1>7. CASE UNCHANGED vars  BY <1>3, <1>7 DEF vars, NoNewSettings, Settings, Kept
<1>8. ASSUME NEW x \in Contents, createCompanyWideSettings(t, x)  PROVE SettingsInv'
  BY <1>4, <1>8 DEF createCompanyWideSettings
<1>9. ASSUME NEW c \in Configs, CallAbout(t, c)  PROVE SettingsInv'
  <2>1. ASSUME NEW k \in Collections \ {SETTINGS}, NEW x \in Contents,
               NEW a \in Approvers \cup {NoOne}, create(t, c, k, x, a)
        PROVE  SettingsInv'
    BY <1>5, <2>1 DEF create
  <2>2. ASSUME NEW x \in Contents, editConfiguration(t, c, x) \/ updateCompanyWideSettings(t, c, x)
        PROVE  SettingsInv'
    BY <1>4, <2>2 DEF editConfiguration, updateCompanyWideSettings, Writing
  <2>3. ASSUME NEW doc, config' = config, Continue(t, Saving(c, doc))  PROVE SettingsInv'
    BY <1>4, <2>3 DEF Saving
  <2>4. CASE deleteInsuranceBracket(t, c)
    BY <1>4, <2>4 DEF deleteInsuranceBracket, Removing
  <2>5. ASSUME NEW a \in Approvers, approveConfiguration(t, c, a)  PROVE SettingsInv'
    <3> DEFINE doc == [config[c] EXCEPT !.status = APPROVED, !.approvedBy = a]
    <3>1. /\ config' = [config EXCEPT ![c] = doc] /\ task' = task
          /\ config[c] \in Stored /\ config[c].kind # SETTINGS
      BY <1>2, <1>s, <2>5 DEF approveConfiguration, Generic
    <3>2. doc.kind # SETTINGS  BY <3>1 DEF Stored
    <3> HIDE DEF doc
    <3> QED  BY <1>5, <3>1, <3>2
  <2>6. CASE deleteConfiguration(t, c)
    <3> DEFINE doc == [config[c] EXCEPT !.status = "deleted"]
    <3>1. /\ config' = [config EXCEPT ![c] = doc] /\ task' = task
          /\ config[c] \in Stored /\ config[c].kind # SETTINGS
      BY <1>2, <1>s, <2>6 DEF deleteConfiguration, Generic
    <3>2. doc.kind # SETTINGS  BY <3>1 DEF Stored
    <3> HIDE DEF doc
    <3> QED  BY <1>5, <3>1, <3>2
  <2> QED
    BY <1>9, <2>1, <2>2, <2>3, <2>4, <2>5, <2>6
       DEF CallAbout, updateInsuranceBracket, approveInsuranceBracket, rejectInsuranceBracket
<1>10. CASE writeContent(t)
  <2> DEFINE c == task[t].ref
             doc == [config[c] EXCEPT !.content = task[t].content]
  <2>1. Return(t) /\ c \in Configs /\ (config' = config \/
                        (Kept(c) /\ config' = [config EXCEPT ![c] = doc]))
    BY <1>2, <1>10 DEF writeContent, CallState, Idle
  <2>2. Kept(c) => (doc.kind = SETTINGS => Settings(c))
    BY <1>s, <2>1 DEF Stored, Settings
  <2> HIDE DEF doc, c
  <2> QED  BY <1>5, <1>r, <2>1, <2>2
<1>11. CASE saveBracket(t)
  <2> DEFINE h == task[t]
             c == h.ref
             doc == Saved(config[c], h.read, h.doc)
  <2>1. /\ h.pc = "save" /\ Return(t) /\ c \in Configs
        /\ h.read \in Stored /\ h.doc \in Stored
        /\ config' = config \/ (Kept(c) /\ config' = [config EXCEPT ![c] = doc])
    BY <1>2, <1>11 DEF saveBracket, CallState, Idle
  <2>2. config[c] = h.read /\ h.doc.kind = BRACKET
    BY <2>1 DEF SettingsInv, SerialInv, Checked
  <2>3. doc.kind = BRACKET  BY <2>1, <2>2 DEF Saved, Stored
  <2> HIDE DEF doc, c, h
  <2> QED  BY <1>5, <1>r, <2>1, <2>3 DEF BRACKET, SETTINGS
<1>12. CASE removeBracket(t)
  <2> DEFINE c == task[t].ref
             doc == [config[c] EXCEPT !.status = "deleted"]
  <2>1. Return(t) /\ c \in Configs /\ (config' = config \/
                        (Kept(c) /\ config' = [config EXCEPT ![c] = doc]))
    BY <1>2, <1>12 DEF removeBracket, CallState, Idle
  <2>2. Kept(c) => (doc.kind = SETTINGS => Settings(c))
    BY <1>s, <2>1 DEF Stored, Settings
  <2> HIDE DEF doc, c
  <2> QED  BY <1>5, <1>r, <2>1, <2>2
\* The one document of settings there is, is the one inserted.
<1>13. ASSUME NEW b \in Configs, insertSettings(t, b)  PROVE SettingsInv'
  <2>1. \A c \in Configs : ~Settings(c)  BY <1>2, <1>13 DEF SettingsInv, insertSettings
  <2>2. \A c \in Configs \ {b} : config'[c] = config[c]  BY <1>2, <1>13 DEF insertSettings
  <2>3. task'[t].pc = "idle"  BY <1>2, <1>13 DEF insertSettings, Return, Continue, Idle
  <2>4. OneSettings'  BY <2>1, <2>2 DEF OneSettings, Settings, Kept
  <2> QED  BY <1>1, <2>3, <2>4 DEF SettingsInv
<1> QED
  <2>1. CASE Step(t)  BY <2>1, <1>10, <1>11, <1>12, <1>13 DEF Step
  <2>2. CASE Call(t)  BY <2>2, <1>8, <1>9, Calls
  <2> QED  BY <1>6, <1>7, <2>1, <2>2 DEF Next

LEMMA SettingsStart == Init => SettingsInv
  BY TypeByInit
     DEF Init, SettingsInv, SerialInv, SettingsPlain, NoConfig, Checked, Idle, APPROVED,
         OneSettings, Settings, Kept

-----------------------------------------------------------------------------
(* Claims, disputes and refunds.                                            *)

ClaimStored == [status : Tracking!ClaimStatus, approvedAmount : Amounts \cup {Nothing}]

RefundStored == [status : Tracking!RefundStatus, claimId : Claims \cup {Nothing},
                 disputeId : ClaimDisputes \cup {Nothing}, paidIn : Runs \cup {Nothing}]

TrackingCalls ==
    {Tracking!Idle}
    \cup [pc : {"insertClaim"}, ref : Claims]
    \cup [pc : {"saveClaim"}, ref : Claims, read : ClaimStored, doc : ClaimStored]
    \cup [pc : {"insertDispute"}, ref : ClaimDisputes]
    \cup [pc : {"saveDispute"}, ref : ClaimDisputes, status : Tracking!ClaimStatus]
    \cup [pc : {"findClaim", "findDispute", "insertRefund"}, claimId : Claims \cup {Nothing},
          disputeId : ClaimDisputes \cup {Nothing}]
    \cup [pc : {"saveRefund"}, ref : Refunds, read : RefundStored, doc : RefundStored]

ClaimOnFile(c) == c # Nothing => claim[c] # Tracking!NoClaim
DisputeOnFile(d) == d # Nothing => claimDispute[d] # "absent"

\* What a call is to save is on file; what its refund names is on file as far
\* as it has looked.
LookedUp(h) ==
    /\ h.pc = "saveClaim" => claim[h.ref] # Tracking!NoClaim
    /\ h.pc = "saveDispute" => claimDispute[h.ref] # "absent"
    /\ h.pc = "saveRefund" =>
         /\ refund[h.ref] # Tracking!NoRefund
         /\ h.doc.claimId = h.read.claimId /\ h.doc.disputeId = h.read.disputeId
    /\ h.pc \in {"findClaim", "findDispute", "insertRefund"} =>
         h.claimId # Nothing \/ h.disputeId # Nothing
    /\ h.pc \in {"findDispute", "insertRefund"} => ClaimOnFile(h.claimId)
    /\ h.pc = "insertRefund" => DisputeOnFile(h.disputeId)

Founded(f) ==
    /\ f.claimId # Nothing \/ f.disputeId # Nothing
    /\ ClaimOnFile(f.claimId) /\ DisputeOnFile(f.disputeId)

TrackingInv ==
    /\ Tracking!TypeOK /\ Tracking!RefundHasGround
    /\ task \in [Tasks -> TrackingCalls]
    /\ \A t \in Tasks : LookedUp(task[t])

LEMMA TrackingStatuses ==
    /\ "absent" \notin Tracking!ClaimStatus /\ "absent" \notin Tracking!RefundStatus
    /\ Tracking!UNDER_REVIEW \in Tracking!ClaimStatus /\ Tracking!PENDING \in Tracking!RefundStatus
  BY DEF Tracking!ClaimStatus, Tracking!RefundStatus, Tracking!UNDER_REVIEW,
         Tracking!PENDING_MANAGER_APPROVAL, Tracking!APPROVED, Tracking!REJECTED,
         Tracking!PENDING, Tracking!PAID

LEMMA TrackingDocs ==
    /\ Tracking!ClaimDoc = ClaimStored \cup {Tracking!NoClaim}
    /\ Tracking!RefundDoc = RefundStored \cup {Tracking!NoRefund}
    /\ Tracking!NoClaim \notin ClaimStored /\ Tracking!NoRefund \notin RefundStored
<1>1. /\ Tracking!ClaimDoc = ClaimStored \cup {Tracking!NoClaim}
      /\ Tracking!RefundDoc = RefundStored \cup {Tracking!NoRefund}
  BY DEF Tracking!ClaimDoc, ClaimStored, Tracking!RefundDoc, RefundStored
<1>2. Tracking!NoClaim.status = "absent" /\ Tracking!NoRefund.status = "absent"
  BY DEF Tracking!NoClaim, Tracking!NoRefund
<1>3. /\ \A x \in ClaimStored : x.status \in Tracking!ClaimStatus
      /\ \A x \in RefundStored : x.status \in Tracking!RefundStatus
  BY DEF ClaimStored, RefundStored
<1> QED  BY <1>1, <1>2, <1>3, TrackingStatuses

LEMMA TrackingFrame ==
    ASSUME TrackingInv, UNCHANGED <<claim, claimDispute, refund>>, NEW t \in Tasks,
           NEW h \in TrackingCalls, LookedUp(h), Tracking!Continue(t, h)
    PROVE  TrackingInv'
<1>1. \A u \in Tasks : task'[u] = IF u = t THEN h ELSE task[u]
  BY DEF TrackingInv, Tracking!Continue
<1>2. task' \in [Tasks -> TrackingCalls]  BY DEF TrackingInv, Tracking!Continue
<1>3. \A u \in Tasks : LookedUp(task[u])'
  BY <1>1 DEF TrackingInv, LookedUp, ClaimOnFile, DisputeOnFile
<1> QED  BY <1>2, <1>3 DEF TrackingInv, Tracking!TypeOK, Tracking!RefundHasGround

LEMMA TrackingIdle == Tracking!Idle \in TrackingCalls /\ LookedUp(Tracking!Idle)
  BY DEF TrackingCalls, Tracking!Idle, LookedUp

LEMMA TrackingReturn ==
    ASSUME TrackingInv, UNCHANGED <<claim, claimDispute, refund>>, NEW t \in Tasks,
           Tracking!Return(t)
    PROVE  TrackingInv'
  BY TrackingIdle, TrackingFrame DEF Tracking!Return

\* A write takes nothing off the files, and a refund is founded or names what
\* it has named.
LEMMA TrackingWrites ==
    ASSUME TrackingInv, NEW t \in Tasks, Tracking!Return(t), Tracking!TypeOK',
           \A c \in Claims : claim[c] # Tracking!NoClaim => claim'[c] # Tracking!NoClaim,
           \A d \in ClaimDisputes : claimDispute[d] # "absent" => claimDispute'[d] # "absent",
           \A r \in Refunds : refund[r] # Tracking!NoRefund => refund'[r] # Tracking!NoRefund,
           \A r \in Refunds : refund'[r] # Tracking!NoRefund =>
               \/ Founded(refund'[r])
               \/ /\ refund[r] # Tracking!NoRefund
                  /\ refund'[r].claimId = refund[r].claimId
                  /\ refund'[r].disputeId = refund[r].disputeId
    PROVE  TrackingInv'
<1>1. /\ task' \in [Tasks -> TrackingCalls]
      /\ \A u \in Tasks : task'[u] = IF u = t THEN Tracking!Idle ELSE task[u]
  BY TrackingIdle DEF TrackingInv, Tracking!Return, Tracking!Continue
<1>2. \A c \in Claims \cup {Nothing} : ClaimOnFile(c) => ClaimOnFile(c)'
  BY DEF ClaimOnFile
<1>3. \A d \in ClaimDisputes \cup {Nothing} : DisputeOnFile(d) => DisputeOnFile(d)'
  BY DEF DisputeOnFile
<1>4. \A u \in Tasks : LookedUp(task[u])'
  <2> SUFFICES ASSUME NEW u \in Tasks  PROVE LookedUp(task[u])'
    OBVIOUS
  <2>1. CASE task'[u] = Tracking!Idle  BY <2>1 DEF LookedUp, Tracking!Idle
  <2>2. CASE task'[u] = task[u]
    <3> DEFINE h == task[u]
    <3>1. h \in TrackingCalls /\ LookedUp(h)  BY DEF TrackingInv
    <3>2. /\ h.pc = "saveClaim" => h.ref \in Claims
          /\ h.pc = "saveDispute" => h.ref \in ClaimDisputes
          /\ h.pc = "saveRefund" => h.ref \in Refunds
          /\ h.pc \in {"findClaim", "findDispute", "insertRefund"} =>
               h.claimId \in Claims \cup {Nothing} /\ h.disputeId \in ClaimDisputes \cup {Nothing}
      BY <3>1 DEF TrackingCalls, Tracking!Idle
    <3> HIDE DEF h
    <3>3. /\ h.pc = "saveClaim" => claim'[h.ref] # Tracking!NoClaim
          /\ h.pc = "saveDispute" => claimDispute'[h.ref] # "absent"
          /\ h.pc = "saveRefund" => refund'[h.ref] # Tracking!NoRefund
      BY <3>1, <3>2 DEF LookedUp
    <3>4. /\ h.pc \in {"findDispute", "insertRefund"} =>
               (h.claimId # Nothing => claim'[h.claimId] # Tracking!NoClaim)
          /\ h.pc = "insertRefund" =>
               (h.disputeId # Nothing => claimDispute'[h.disputeId] # "absent")
      BY <3>1, <3>2 DEF LookedUp, ClaimOnFile, DisputeOnFile
    <3>5. task'[u] = h  BY <2>2 DEF h
    <3> QED  BY <3>1, <3>3, <3>4, <3>5 DEF LookedUp, ClaimOnFile, DisputeOnFile
  <2> QED  BY <1>1, <2>1, <2>2
<1>5. Tracking!RefundHasGround'
  <2> SUFFICES ASSUME NEW r \in Refunds, refund'[r] # Tracking!NoRefund
               PROVE  /\ refund'[r].claimId # Nothing \/ refund'[r].disputeId # Nothing
                      /\ refund'[r].claimId # Nothing =>
                            claim'[refund'[r].claimId] # Tracking!NoClaim
                      /\ refund'[r].disputeId # Nothing =>
                            claimDispute'[refund'[r].disputeId] # "absent"
    BY DEF Tracking!RefundHasGround
  <2>1. /\ refund'[r].claimId \in Claims \cup {Nothing}
        /\ refund'[r].disputeId \in ClaimDisputes \cup {Nothing}
    BY TrackingDocs DEF Tracking!TypeOK, RefundStored
  <2>2. /\ refund'[r].claimId # Nothing \/ refund'[r].disputeId # Nothing
        /\ refund'[r].claimId # Nothing => claim[refund'[r].claimId] # Tracking!NoClaim
        /\ refund'[r].disputeId # Nothing => claimDispute[refund'[r].disputeId] # "absent"
    BY DEF TrackingInv, Tracking!RefundHasGround, Founded, ClaimOnFile, DisputeOnFile
  <2> QED  BY <2>1, <2>2
<1> QED  BY <1>1, <1>4, <1>5 DEF TrackingInv

LEMMA TrackingCall ==
    ASSUME TrackingInv, NEW t \in Tasks, Tracking!Call(t)
    PROVE  TrackingInv'
<1>n. Nothing \in Claims \cup {Nothing} /\ Nothing \in Amounts \cup {Nothing}  OBVIOUS
<1>1. ASSUME NEW c \in Claims, Tracking!createClaim(t, c)  PROVE TrackingInv'
  <2> DEFINE h == [pc |-> "insertClaim", ref |-> c]
  <2>1. h \in TrackingCalls /\ LookedUp(h)  BY DEF TrackingCalls, LookedUp
  <2> QED  BY <1>1, <2>1, TrackingFrame DEF Tracking!createClaim, Tracking!Stored
<1>2. ASSUME NEW c \in Claims, NEW s \in Tracking!ClaimStatus, NEW x \in Amounts \cup {Nothing},
             Tracking!updateClaimStatus(t, c, s, x)
      PROVE  TrackingInv'
  <2> DEFINE amount == IF x = Nothing THEN claim[c].approvedAmount ELSE x
             h == [pc |-> "saveClaim", ref |-> c, read |-> claim[c],
                   doc |-> [status |-> s, approvedAmount |-> amount]]
  <2>1. /\ claim[c] # Tracking!NoClaim /\ Tracking!Continue(t, h)
        /\ UNCHANGED <<claim, claimDispute, refund>>
    BY <1>2 DEF Tracking!updateClaimStatus, Tracking!Stored
  <2>2. claim[c] \in ClaimStored  BY <2>1, TrackingDocs DEF TrackingInv, Tracking!TypeOK
  <2>3. amount \in Amounts \cup {Nothing}  BY <2>2 DEF ClaimStored
  <2> HIDE DEF amount
  <2>4. h \in TrackingCalls  BY <2>2, <2>3 DEF TrackingCalls, ClaimStored
  <2>5. LookedUp(h)  BY <2>1 DEF LookedUp
  <2> HIDE DEF h
  <2> QED  BY <2>1, <2>4, <2>5, TrackingFrame
<1>3. ASSUME NEW d \in ClaimDisputes, Tracking!createDispute(t, d)  PROVE TrackingInv'
  <2> DEFINE h == [pc |-> "insertDispute", ref |-> d]
  <2>1. h \in TrackingCalls /\ LookedUp(h)  BY DEF TrackingCalls, LookedUp
  <2> QED  BY <1>3, <2>1, TrackingFrame DEF Tracking!createDispute, Tracking!Stored
<1>4. ASSUME NEW d \in ClaimDisputes, NEW s \in Tracking!ClaimStatus,
             Tracking!updateDisputeStatus(t, d, s)
      PROVE  TrackingInv'
  <2> DEFINE h == [pc |-> "saveDispute", ref |-> d, status |-> s]
  <2>1. /\ claimDispute[d] # "absent" /\ UNCHANGED <<claim, claimDispute, refund>>
        /\ task' = task \/ Tracking!Continue(t, h)
    BY <1>4 DEF Tracking!updateDisputeStatus, Tracking!Stored
  <2>2. h \in TrackingCalls /\ LookedUp(h)  BY <2>1 DEF TrackingCalls, LookedUp
  <2>3. CASE task' = task
    BY <2>1, <2>3 DEF TrackingInv, Tracking!TypeOK, Tracking!RefundHasGround, LookedUp,
                      ClaimOnFile, DisputeOnFile
  <2> QED  BY <2>1, <2>2, <2>3, TrackingFrame
<1>5. ASSUME NEW c \in Claims \cup {Nothing}, NEW d \in ClaimDisputes \cup {Nothing},
             Tracking!createRefund(t, c, d)
      PROVE  TrackingInv'
  <2> DEFINE h == [pc |-> "findClaim", claimId |-> c, disputeId |-> d]
  <2>1. h \in TrackingCalls /\ LookedUp(h)
    BY <1>5 DEF TrackingCalls, LookedUp, Tracking!createRefund
  <2> QED  BY <1>5, <2>1, TrackingFrame DEF Tracking!createRefund, Tracking!Stored
<1>6. ASSUME NEW r \in Refunds, NEW s \in Tracking!RefundStatus, NEW run \in Runs \cup {Nothing},
             Tracking!updateRefundStatus(t, r, s, run)
      PROVE  TrackingInv'
  <2> DEFINE paid == IF run = Nothing THEN refund[r].paidIn ELSE run
             doc == [refund[r] EXCEPT !.status = s, !.paidIn = paid]
             h == [pc |-> "saveRefund", ref |-> r, read |-> refund[r], doc |-> doc]
  <2>1. /\ refund[r] # Tracking!NoRefund /\ Tracking!Continue(t, h)
        /\ UNCHANGED <<claim, claimDispute, refund>>
    BY <1>6 DEF Tracking!updateRefundStatus, Tracking!Stored
  <2>2. refund[r] \in RefundStored  BY <2>1, TrackingDocs DEF TrackingInv, Tracking!TypeOK
  <2>3. paid \in Runs \cup {Nothing}  BY <2>2 DEF RefundStored
  <2> HIDE DEF paid
  <2>4. /\ doc \in RefundStored /\ doc.claimId = refund[r].claimId
        /\ doc.disputeId = refund[r].disputeId
    BY <2>2, <2>3 DEF RefundStored
  <2> HIDE DEF doc
  <2>5. h \in TrackingCalls  BY <2>2, <2>4 DEF TrackingCalls
  <2>6. LookedUp(h)  BY <2>1, <2>4 DEF LookedUp
  <2> HIDE DEF h
  <2> QED  BY <2>1, <2>5, <2>6, TrackingFrame
<1> QED  BY <1>1, <1>2, <1>3, <1>4, <1>5, <1>6 DEF Tracking!Call

LEMMA TrackingStep ==
    ASSUME TrackingInv, NEW t \in Tasks, Tracking!Step(t)
    PROVE  TrackingInv'
<1> DEFINE f == task[t]
<1>f. f \in TrackingCalls /\ LookedUp(f)  BY DEF TrackingInv
<1>t. Tracking!TypeOK  BY DEF TrackingInv
<1>1. ASSUME Tracking!insertClaim(t)  PROVE TrackingInv'
  <2> DEFINE c == task[t].ref
             doc == [claim[c] EXCEPT !.status = Tracking!UNDER_REVIEW]
  <2>1. /\ c \in Claims /\ Tracking!Return(t) /\ UNCHANGED <<claimDispute, refund>>
        /\ claim' = IF claim[c] = Tracking!NoClaim THEN [claim EXCEPT ![c] = doc] ELSE claim
    BY <1>1, <1>f DEF Tracking!insertClaim, TrackingCalls, Tracking!Idle
  <2>2. claim[c] = Tracking!NoClaim => doc \in ClaimStored
    BY TrackingStatuses DEF Tracking!NoClaim, ClaimStored
  <2> HIDE DEF doc
  <2>3. claim' \in [Claims -> Tracking!ClaimDoc]
          /\ \A x \in Claims : claim[x] # Tracking!NoClaim => claim'[x] # Tracking!NoClaim
    BY <1>t, <2>1, <2>2, TrackingDocs DEF Tracking!TypeOK
  <2>4. Tracking!TypeOK'  BY <1>t, <2>1, <2>3 DEF Tracking!TypeOK
  <2> QED  BY <2>1, <2>3, <2>4, TrackingWrites
<1>2. ASSUME Tracking!saveClaim(t)  PROVE TrackingInv'
  <2> DEFINE c == task[t].ref
             doc == Tracking!Saved(claim[c], task[t].read, task[t].doc)
  <2>1. /\ c \in Claims /\ task[t].read \in ClaimStored /\ task[t].doc \in ClaimStored
        /\ Tracking!Return(t) /\ UNCHANGED <<claimDispute, refund>>
        /\ claim' = [claim EXCEPT ![c] = doc] /\ claim[c] # Tracking!NoClaim
    BY <1>2, <1>f DEF Tracking!saveClaim, TrackingCalls, Tracking!Idle, LookedUp
  <2>2. claim[c] \in ClaimStored  BY <1>t, <2>1, TrackingDocs DEF Tracking!TypeOK
  <2>3. doc \in ClaimStored  BY <2>1, <2>2 DEF Tracking!Saved, ClaimStored
  <2> HIDE DEF doc
  <2>4. claim' \in [Claims -> Tracking!ClaimDoc]
          /\ \A x \in Claims : claim[x] # Tracking!NoClaim => claim'[x] # Tracking!NoClaim
    BY <1>t, <2>1, <2>3, TrackingDocs DEF Tracking!TypeOK
  <2>5. Tracking!TypeOK'  BY <1>t, <2>1, <2>4 DEF Tracking!TypeOK
  <2> QED  BY <2>1, <2>4, <2>5, TrackingWrites
<1>3. ASSUME Tracking!insertDispute(t)  PROVE TrackingInv'
  <2> DEFINE d == task[t].ref
             s == IF claimDispute[d] = "absent" THEN Tracking!UNDER_REVIEW ELSE claimDispute[d]
  <2>1. /\ d \in ClaimDisputes /\ Tracking!Return(t) /\ UNCHANGED <<claim, refund>>
        /\ claimDispute' = [claimDispute EXCEPT ![d] = s]
    BY <1>3, <1>f DEF Tracking!insertDispute, TrackingCalls, Tracking!Idle
  <2>2. s \in Tracking!ClaimStatus
    BY <1>t, <2>1, TrackingStatuses DEF Tracking!TypeOK
  <2> HIDE DEF s
  <2>3. Tracking!TypeOK' /\ \A x \in ClaimDisputes : claimDispute[x] # "absent" => claimDispute'[x] # "absent"
    BY <1>t, <2>1, <2>2, TrackingStatuses DEF Tracking!TypeOK
  <2> QED  BY <2>1, <2>3, TrackingWrites
<1>4. ASSUME Tracking!saveDispute(t)  PROVE TrackingInv'
  <2>1. /\ f.ref \in ClaimDisputes /\ f.status \in Tracking!ClaimStatus /\ Tracking!Return(t)
        /\ UNCHANGED <<claim, refund>>
        /\ claimDispute' = [claimDispute EXCEPT ![f.ref] = f.status]
    BY <1>4, <1>f DEF Tracking!saveDispute, TrackingCalls, Tracking!Idle
  <2> HIDE DEF f
  <2>2. Tracking!TypeOK' /\ \A x \in ClaimDisputes : claimDispute[x] # "absent" => claimDispute'[x] # "absent"
    BY <1>t, <2>1, TrackingStatuses DEF Tracking!TypeOK
  <2> QED  BY <2>1, <2>2, TrackingWrites
<1>5. ASSUME Tracking!findClaim(t)  PROVE TrackingInv'
  <2> DEFINE h == [task[t] EXCEPT !.pc = "findDispute"]
  <2>1. /\ f.pc = "findClaim" /\ UNCHANGED <<claim, claimDispute, refund>>
        /\ \/ Tracking!Continue(t, h) /\ (f.claimId = Nothing \/ claim[f.claimId] # Tracking!NoClaim)
           \/ Tracking!Return(t)
    BY <1>5 DEF Tracking!findClaim, Tracking!Stored
  <2>2. /\ h \in TrackingCalls /\ h.pc = "findDispute" /\ h.claimId = f.claimId
        /\ h.disputeId = f.disputeId
    BY <1>f, <2>1 DEF TrackingCalls, Tracking!Idle
  <2> HIDE DEF h
  <2>3. (f.claimId = Nothing \/ claim[f.claimId] # Tracking!NoClaim) => LookedUp(h)
    BY <1>f, <2>1, <2>2 DEF LookedUp, ClaimOnFile
  <2> QED  BY <2>1, <2>2, <2>3, TrackingFrame, TrackingReturn
<1>6. ASSUME Tracking!findDispute(t)  PROVE TrackingInv'
  <2> DEFINE h == [task[t] EXCEPT !.pc = "insertRefund"]
  <2>1. /\ f.pc = "findDispute" /\ UNCHANGED <<claim, claimDispute, refund>>
        /\ \/ Tracking!Continue(t, h) /\ (f.disputeId = Nothing \/ claimDispute[f.disputeId] # "absent")
           \/ Tracking!Return(t)
    BY <1>6 DEF Tracking!findDispute, Tracking!Stored
  <2>2. /\ h \in TrackingCalls /\ h.pc = "insertRefund" /\ h.claimId = f.claimId
        /\ h.disputeId = f.disputeId
    BY <1>f, <2>1 DEF TrackingCalls, Tracking!Idle
  <2> HIDE DEF h
  <2>3. (f.disputeId = Nothing \/ claimDispute[f.disputeId] # "absent") => LookedUp(h)
    BY <1>f, <2>1, <2>2 DEF LookedUp, DisputeOnFile
  <2> QED  BY <2>1, <2>2, <2>3, TrackingFrame, TrackingReturn
<1>7. ASSUME Tracking!saveRefund(t)  PROVE TrackingInv'
  <2> DEFINE r == task[t].ref
             doc == Tracking!Saved(refund[r], task[t].read, task[t].doc)
  <2>1. /\ r \in Refunds /\ task[t].read \in RefundStored /\ task[t].doc \in RefundStored
        /\ Tracking!Return(t) /\ UNCHANGED <<claim, claimDispute>>
        /\ refund' = [refund EXCEPT ![r] = doc] /\ refund[r] # Tracking!NoRefund
        /\ task[t].doc.claimId = task[t].read.claimId
        /\ task[t].doc.disputeId = task[t].read.disputeId
    BY <1>7, <1>f DEF Tracking!saveRefund, TrackingCalls, Tracking!Idle, LookedUp
  <2>2. refund[r] \in RefundStored  BY <1>t, <2>1, TrackingDocs DEF Tracking!TypeOK
  <2>3. /\ doc \in RefundStored /\ doc.claimId = refund[r].claimId
        /\ doc.disputeId = refund[r].disputeId
    BY <2>1, <2>2 DEF Tracking!Saved, RefundStored
  <2> HIDE DEF doc, r
  <2>4. Tracking!TypeOK'  BY <1>t, <2>1, <2>3, TrackingDocs DEF Tracking!TypeOK
  <2>5. \A x \in Refunds : refund'[x] = IF x = r THEN doc ELSE refund[x]
    BY <1>t, <2>1 DEF Tracking!TypeOK
  <2>6. doc # Tracking!NoRefund  BY <2>3, TrackingDocs
  <2> QED  BY <2>1, <2>3, <2>4, <2>5, <2>6, TrackingWrites
<1>8. ASSUME NEW r \in Refunds, Tracking!insertRefund(t, r)  PROVE TrackingInv'
  <2> DEFINE doc == [status |-> Tracking!PENDING, claimId |-> f.claimId,
                     disputeId |-> f.disputeId, paidIn |-> Nothing]
  <2>1. /\ f.pc = "insertRefund" /\ Tracking!Return(t) /\ UNCHANGED <<claim, claimDispute>>
        /\ refund' = [refund EXCEPT ![r] = doc]
    BY <1>8 DEF Tracking!insertRefund
  <2>2. f.claimId \in Claims \cup {Nothing} /\ f.disputeId \in ClaimDisputes \cup {Nothing}
    BY <1>f, <2>1 DEF TrackingCalls, Tracking!Idle
  <2>3. doc \in RefundStored /\ Founded(doc)
    BY <1>f, <2>1, <2>2, TrackingStatuses DEF RefundStored, Founded, LookedUp
  <2> HIDE DEF doc
  <2>4. Tracking!TypeOK'  BY <1>t, <2>1, <2>3, TrackingDocs DEF Tracking!TypeOK
  <2>5. \A x \in Refunds : refund'[x] = IF x = r THEN doc ELSE refund[x]
    BY <1>t, <2>1 DEF Tracking!TypeOK
  <2>6. doc # Tracking!NoRefund  BY <2>3, TrackingDocs
  <2> QED  BY <2>1, <2>3, <2>4, <2>5, <2>6, TrackingWrites
<1> QED  BY <1>1, <1>2, <1>3, <1>4, <1>5, <1>6, <1>7, <1>8 DEF Tracking!Step

LEMMA TrackingKept ==
    TrackingInv /\ (Tracking!Next \/ UNCHANGED <<claim, claimDispute, refund, task>>) => TrackingInv'
<1> SUFFICES ASSUME TrackingInv, Tracking!Next \/ UNCHANGED <<claim, claimDispute, refund, task>>
             PROVE  TrackingInv'
  OBVIOUS
<1>1. CASE UNCHANGED <<claim, claimDispute, refund, task>>
  BY <1>1 DEF TrackingInv, Tracking!TypeOK, Tracking!RefundHasGround, LookedUp, ClaimOnFile,
              DisputeOnFile
<1>2. CASE Tracking!restart
  <2>1. task' = [t \in Tasks |-> Tracking!Idle] /\ UNCHANGED <<claim, claimDispute, refund>>
    BY <1>2 DEF Tracking!restart, Tracking!Stored
  <2>2. task' \in [Tasks -> TrackingCalls] /\ \A t \in Tasks : LookedUp(task[t])'
    BY <2>1, TrackingIdle DEF LookedUp, Tracking!Idle
  <2> QED  BY <2>1, <2>2 DEF TrackingInv, Tracking!TypeOK, Tracking!RefundHasGround
<1> QED  BY <1>1, <1>2, TrackingCall, TrackingStep DEF Tracking!Next

LEMMA TrackingStarts == Tracking!Init => TrackingInv
  BY TrackingDocs, TrackingIdle
     DEF Tracking!Init, TrackingInv, Tracking!TypeOK, Tracking!RefundHasGround

-----------------------------------------------------------------------------
(* Profiles and the requests to change them.                                *)

Wish(doc) == [field |-> doc.field, newValue |-> doc.newValue]

RequestDoc == {doc \in Requests!Request : doc.field = Nothing \/ Wish(doc) \in Requests!Wishes}

Approving == {"employee", "duplicate", "apply", "approve"}

RequestCalls ==
    {Requests!Idle}
    \cup [pc : {"register"}, ref : Employees, nationalId : NationalIds]
    \cup [pc : {"deactivate"}, ref : Employees]
    \cup [pc : {"insert"}, doc : RequestDoc]
    \cup [pc : Approving, ref : ProfileRequests, of : Employees, wish : Requests!Wishes]
    \cup [pc : {"save"}, ref : ProfileRequests, status : {Requests!APPROVED, Requests!REJECTED}]

\* What a call h has read of the requests is so in q.
About(q, h) ==
    /\ h.pc = "save" => q[h.ref].status # "absent"
    /\ h.pc \in Approving =>
         q[h.ref].status # "absent" /\ h.of = q[h.ref].of /\ h.wish = Wish(q[h.ref])

\* The employees it has found are among the profiles p.
Present(p, h) ==
    /\ h.pc = "deactivate" => p[h.ref] # Requests!NoProfile
    /\ h.pc \in {"duplicate", "apply", "approve"} => p[h.of] # Requests!NoProfile

\* About to approve a request, it has had what the request asks for.
Fulfilled(p, h) ==
    h.pc = "approve" =>
        h.wish.newValue = IF h.wish.field = "nationalId" THEN p[h.of].nationalId
                                                         ELSE p[h.of].contractType

IdsDiffer(p) ==
    \A e, f \in Employees :
        p[e].nationalId \in NationalIds /\ p[f].nationalId = p[e].nationalId => f = e

Profiles == [Employees -> Requests!Profile \cup {Requests!NoProfile}]

RequestDocs == [ProfileRequests -> RequestDoc \cup {Requests!NoRequest}]

RequestsInv ==
    /\ profile \in Profiles /\ IdsDiffer(profile)
    /\ request \in RequestDocs
    /\ task \in [Tasks -> RequestCalls]
    /\ \A t \in Tasks :
          /\ About(request, task[t]) /\ Present(profile, task[t])
          /\ Tasks = {t} => Fulfilled(profile, task[t])

LEMMA RequestsIdle ==
    /\ Requests!Idle \in RequestCalls
    /\ \A h \in RequestCalls : h.pc = "idle" => h = Requests!Idle
    /\ \A p, q : About(q, Requests!Idle) /\ Present(p, Requests!Idle) /\ Fulfilled(p, Requests!Idle)
<1>1. Requests!Idle \in RequestCalls  BY DEF RequestCalls
<1>2. \A h \in RequestCalls : h.pc = "idle" => h = Requests!Idle
  BY DEF RequestCalls, Approving
<1>3. \A p, q : About(q, Requests!Idle) /\ Present(p, Requests!Idle) /\ Fulfilled(p, Requests!Idle)
  BY DEF Requests!Idle, About, Present, Fulfilled, Approving
<1> QED  BY <1>1, <1>2, <1>3

LEMMA RequestsRefs ==
    ASSUME NEW h \in RequestCalls
    PROVE  /\ h.pc = "register" => h.ref \in Employees /\ h.nationalId \in NationalIds
           /\ h.pc = "deactivate" => h.ref \in Employees
           /\ h.pc = "insert" => h.doc \in RequestDoc
           /\ h.pc \in Approving =>
                h.ref \in ProfileRequests /\ h.of \in Employees /\ h.wish \in Requests!Wishes
           /\ h.pc = "save" =>
                h.ref \in ProfileRequests /\ h.status \in {Requests!APPROVED, Requests!REJECTED}
  BY DEF RequestCalls, Requests!Idle, Approving

LEMMA RequestsDocs ==
    /\ Requests!NoProfile \notin Requests!Profile /\ Requests!NoProfile.nationalId = Nothing
    /\ Requests!NoRequest.status = "absent" /\ Requests!NoRequest.field = Nothing
    /\ \A x \in RequestDoc : x.status # "absent"
    /\ Requests!NoRequest \notin RequestDoc
<1>1. Requests!NoProfile.status = "absent" /\ Requests!NoProfile.nationalId = Nothing
  BY DEF Requests!NoProfile
<1>2. Requests!NoRequest.status = "absent" /\ Requests!NoRequest.field = Nothing
  BY DEF Requests!NoRequest
<1>3. \A x \in Requests!Profile : x.status # "absent"  BY DEF Requests!Profile
<1>4. \A x \in RequestDoc : x.status # "absent"
  BY DEF RequestDoc, Requests!Request, Requests!PENDING, Requests!APPROVED, Requests!REJECTED
<1> QED  BY <1>1, <1>2, <1>3, <1>4

\* Requests keep what they ask for, and hired employees stay on file.
Steady ==
    /\ \A e \in Employees :
          profile[e] # Requests!NoProfile => profile'[e] # Requests!NoProfile
    /\ \A r \in ProfileRequests : request[r].status # "absent" =>
          /\ request'[r].status # "absent" /\ request'[r].of = request[r].of
          /\ request'[r].field = request[r].field /\ request'[r].newValue = request[r].newValue

LEMMA RequestsMove ==
    ASSUME RequestsInv, profile' \in Profiles, IdsDiffer(profile'), request' \in RequestDocs, Steady,
           NEW t \in Tasks, NEW h \in RequestCalls, Requests!Continue(t, h),
           About(request', h), Present(profile', h), Tasks = {t} => Fulfilled(profile', h)
    PROVE  RequestsInv'
<1>1. task' \in [Tasks -> RequestCalls] /\ \A u \in Tasks : task'[u] = IF u = t THEN h ELSE task[u]
  BY DEF RequestsInv, Requests!Continue
<1>2. ASSUME NEW u \in Tasks
      PROVE  /\ About(request', task'[u]) /\ Present(profile', task'[u])
             /\ Tasks = {u} => Fulfilled(profile', task'[u])
  <2>1. CASE u = t  BY <1>1, <2>1
  <2>2. CASE u # t
    <3> DEFINE g == task[u]
    <3>1. g \in RequestCalls /\ About(request, g) /\ Present(profile, g)  BY DEF RequestsInv
    <3>2. task'[u] = g /\ Tasks # {u}  BY <1>1, <2>2
    <3> HIDE DEF g
    <3>3. About(request', g)
      BY <3>1, RequestsRefs DEF About, Steady, Wish
    <3>4. Present(profile', g)
      BY <3>1, RequestsRefs DEF Present, Steady, Approving
    <3> QED  BY <3>2, <3>3, <3>4
  <2> QED  BY <2>1, <2>2
<1> QED  BY <1>1, <1>2 DEF RequestsInv

\* Only reads: h goes on from what is on file.
LEMMA RequestsFrame ==
    ASSUME RequestsInv, UNCHANGED <<profile, request>>, NEW t \in Tasks, NEW h \in RequestCalls,
           Requests!Continue(t, h), About(request, h), Present(profile, h), Fulfilled(profile, h)
    PROVE  RequestsInv'
<1>1. profile' \in Profiles /\ IdsDiffer(profile') /\ request' \in RequestDocs /\ Steady
  BY DEF RequestsInv, Steady
<1>2. About(request', h) /\ Present(profile', h) /\ Fulfilled(profile', h)  OBVIOUS
<1> QED  BY <1>1, <1>2, RequestsMove

\* A call that is done after a write, or was none.
LEMMA RequestsDone ==
    ASSUME RequestsInv, profile' \in Profiles, IdsDiffer(profile'), request' \in RequestDocs, Steady,
           NEW t \in Tasks, Requests!Return(t) \/ (Requests!Ready(t) /\ task' = task)
    PROVE  RequestsInv'
<1>1. Requests!Continue(t, Requests!Idle)
  <2>1. CASE Requests!Return(t)  BY <2>1 DEF Requests!Return
  <2>2. CASE Requests!Ready(t) /\ task' = task
    <3>1. task[t] = Requests!Idle  BY <2>2, RequestsIdle DEF RequestsInv, Requests!Ready
    <3>2. task = [task EXCEPT ![t] = Requests!Idle]  BY <3>1 DEF RequestsInv
    <3> QED  BY <2>2, <3>2 DEF Requests!Continue
  <2> QED  BY <2>1, <2>2
<1> QED  BY <1>1, RequestsIdle, RequestsMove

\* One profile is written, with a national id that nobody else has.
LEMMA ProfileWrites ==
    ASSUME RequestsInv, NEW e \in Employees, NEW doc \in Requests!Profile,
           profile' = [profile EXCEPT ![e] = doc], request' = request,
           \A f \in Employees \ {e} : profile[f].nationalId # doc.nationalId
    PROVE  profile' \in Profiles /\ IdsDiffer(profile') /\ request' \in RequestDocs /\ Steady
<1>1. profile' \in Profiles /\ \A f \in Employees : profile'[f] = IF f = e THEN doc ELSE profile[f]
  BY DEF RequestsInv, Profiles
<1>2. IdsDiffer(profile')  BY <1>1 DEF RequestsInv, IdsDiffer
<1>3. Steady  BY <1>1, RequestsDocs DEF Steady
<1> QED  BY <1>1, <1>2, <1>3 DEF RequestsInv

\* One request is written: a new one, or one that asks for what it did.
LEMMA RequestWrites ==
    ASSUME RequestsInv, NEW r \in ProfileRequests, NEW doc \in RequestDoc,
           request' = [request EXCEPT ![r] = doc], profile' = profile,
           request[r].status # "absent" =>
               /\ doc.of = request[r].of /\ doc.field = request[r].field
               /\ doc.newValue = request[r].newValue
    PROVE  profile' \in Profiles /\ IdsDiffer(profile') /\ request' \in RequestDocs /\ Steady
<1>1. /\ request' \in RequestDocs
      /\ \A q \in ProfileRequests : request'[q] = IF q = r THEN doc ELSE request[q]
  BY DEF RequestsInv, RequestDocs
<1>2. Steady  BY <1>1, RequestsDocs DEF Steady
<1> QED  BY <1>1, <1>2 DEF RequestsInv

\* An update of one field that the index does not refuse.
LEMMA ProfileUpdated ==
    ASSUME RequestsInv, NEW e \in Employees, Requests!Employed(e), NEW w \in Requests!Wishes,
           ~Requests!Refused(e, w), profile' = Requests!Updated(e, w), request' = request
    PROVE  /\ profile' \in Profiles /\ IdsDiffer(profile') /\ request' \in RequestDocs /\ Steady
           /\ w.newValue = IF w.field = "nationalId" THEN profile'[e].nationalId
                                                     ELSE profile'[e].contractType
<1>1. profile[e] \in Requests!Profile /\ profile \in Profiles
  BY DEF Requests!Employed, RequestsInv, Profiles
<1>2. CASE w.field = "nationalId"
  <2> DEFINE doc == [profile[e] EXCEPT !.nationalId = w.newValue]
  <2>1. w.newValue \in NationalIds  BY <1>2 DEF Requests!Wishes
  <2>2. doc \in Requests!Profile /\ doc.nationalId = w.newValue  BY <1>1, <2>1 DEF Requests!Profile
  <2>3. profile' = [profile EXCEPT ![e] = doc]  BY <1>2 DEF Requests!Updated
  <2>4. \A f \in Employees \ {e} : profile[f].nationalId # w.newValue
    BY <1>2 DEF Requests!Refused, Requests!Holders
  <2> HIDE DEF doc
  <2>5. profile'[e] = doc  BY <1>1, <2>3 DEF Profiles
  <2>6. \A f \in Employees \ {e} : profile[f].nationalId # doc.nationalId  BY <2>2, <2>4
  <2>7. profile' \in Profiles /\ IdsDiffer(profile') /\ request' \in RequestDocs /\ Steady
    BY <2>2, <2>3, <2>6, ProfileWrites
  <2> QED  BY <1>2, <2>2, <2>5, <2>7
<1>3. CASE w.field # "nationalId"
  <2> DEFINE doc == [profile[e] EXCEPT !.contractType = w.newValue]
  <2>1. w.newValue \in RequestTypes  BY <1>3 DEF Requests!Wishes
  <2>2. /\ doc \in Requests!Profile /\ doc.contractType = w.newValue
        /\ doc.nationalId = profile[e].nationalId
    BY <1>1, <2>1 DEF Requests!Profile
  <2>3. profile' = [profile EXCEPT ![e] = doc]  BY <1>3 DEF Requests!Updated
  <2>4. profile[e].nationalId \in NationalIds  BY <1>1 DEF Requests!Profile
  <2>5. \A f \in Employees \ {e} : profile[f].nationalId # profile[e].nationalId
    BY <2>4 DEF RequestsInv, IdsDiffer
  <2> HIDE DEF doc
  <2>6. profile'[e] = doc  BY <1>1, <2>3 DEF Profiles
  <2>7. \A f \in Employees \ {e} : profile[f].nationalId # doc.nationalId  BY <2>2, <2>5
  <2>8. profile' \in Profiles /\ IdsDiffer(profile') /\ request' \in RequestDocs /\ Steady
    BY <2>2, <2>3, <2>7, ProfileWrites
  <2> QED  BY <1>3, <2>2, <2>6, <2>8
<1> QED  BY <1>2, <1>3

LEMMA RequestsCallProfile ==
    ASSUME RequestsInv, NEW t \in Tasks, NEW e \in Employees,
           \/ \E i \in NationalIds :
                 Requests!register(t, e, i) \/ \E c \in RequestTypes : Requests!create(t, e, i, c)
           \/ Requests!deactivate(t, e)
           \/ \E w \in Requests!Wishes : Requests!update(t, e, w)
    PROVE  RequestsInv'
<1>1. ASSUME NEW i \in NationalIds, Requests!register(t, e, i)  PROVE RequestsInv'
  <2> DEFINE h == [pc |-> "register", ref |-> e, nationalId |-> i]
  <2>1. h \in RequestCalls  BY DEF RequestCalls
  <2>2. About(request, h) /\ Present(profile, h) /\ Fulfilled(profile, h)
    BY DEF About, Present, Fulfilled, Approving
  <2>3. Requests!Continue(t, h) /\ UNCHANGED <<profile, request>>
    BY <1>1 DEF Requests!register
  <2> HIDE DEF h
  <2> QED  BY <2>1, <2>2, <2>3, RequestsFrame
<1>2. ASSUME NEW i \in NationalIds, NEW c \in RequestTypes, Requests!create(t, e, i, c)
      PROVE  RequestsInv'
  <2> DEFINE doc == [status |-> "ACTIVE", nationalId |-> i, contractType |-> c]
  <2>1. doc \in Requests!Profile /\ doc.nationalId = i  BY DEF Requests!Profile
  <2>2. \A f \in Employees \ {e} : profile[f].nationalId # i
    BY <1>2 DEF Requests!create, Requests!Holders
  <2>3. /\ profile' = [profile EXCEPT ![e] = doc] /\ request' = request /\ task' = task
        /\ Requests!Ready(t)
    BY <1>2 DEF Requests!create
  <2> HIDE DEF doc
  <2> QED  BY <2>1, <2>2, <2>3, ProfileWrites, RequestsDone
<1>3. ASSUME Requests!deactivate(t, e)  PROVE RequestsInv'
  <2> DEFINE h == [pc |-> "deactivate", ref |-> e]
  <2>1. h \in RequestCalls  BY DEF RequestCalls
  <2>2. About(request, h) /\ Present(profile, h) /\ Fulfilled(profile, h)
    BY <1>3 DEF Requests!deactivate, Requests!Employed, About, Present, Fulfilled, Approving
  <2>3. Requests!Continue(t, h) /\ UNCHANGED <<profile, request>>
    BY <1>3 DEF Requests!deactivate
  <2> HIDE DEF h
  <2> QED  BY <2>1, <2>2, <2>3, RequestsFrame
<1>4. ASSUME NEW w \in Requests!Wishes, Requests!update(t, e, w)  PROVE RequestsInv'
  BY <1>4, ProfileUpdated, RequestsDone DEF Requests!update
<1> QED  BY <1>1, <1>2, <1>3, <1>4

LEMMA RequestsCallRequest ==
    ASSUME RequestsInv, NEW t \in Tasks, Requests!CallRequest(t) \/ Requests!CallDispute(t)
    PROVE  RequestsInv'
<1>t. request \in RequestDocs  BY DEF RequestsInv
<1>1. ASSUME NEW e \in Employees, NEW f \in Employees, NEW w \in Requests!Wishes,
             Requests!createChangeRequest(t, e, f, w)
      PROVE  RequestsInv'
  <2> DEFINE doc == [status |-> Requests!PENDING, of |-> f, field |-> w.field,
                     newValue |-> w.newValue]
             h == [pc |-> "insert", doc |-> doc]
  <2>1. doc \in Requests!Request  BY DEF Requests!Request, Requests!Wishes
  <2>2. Wish(doc) \in Requests!Wishes  BY DEF Wish, Requests!Wishes
  <2>3. doc \in RequestDoc  BY <2>1, <2>2 DEF RequestDoc
  <2> HIDE DEF doc
  <2>4. h \in RequestCalls  BY <2>3 DEF RequestCalls
  <2>5. About(request, h) /\ Present(profile, h) /\ Fulfilled(profile, h)
    BY DEF About, Present, Fulfilled, Approving
  <2>6. Requests!Continue(t, h) /\ UNCHANGED <<profile, request>>
    BY <1>1 DEF Requests!createChangeRequest, doc
  <2> HIDE DEF h
  <2> QED  BY <2>4, <2>5, <2>6, RequestsFrame
<1>2. ASSUME NEW r \in ProfileRequests, Requests!approveChangeRequest(t, r)  PROVE RequestsInv'
  <2> DEFINE w == Wish(request[r])
             h == [pc |-> "employee", ref |-> r, of |-> request[r].of, wish |-> w]
  <2>1. /\ Requests!Continue(t, h) /\ UNCHANGED <<profile, request>>
        /\ request[r].status # "absent" /\ request[r].field # Nothing
    BY <1>2 DEF Requests!approveChangeRequest, Wish
  <2>2. request[r] \in RequestDoc  BY <1>t, <2>1, RequestsDocs DEF RequestDocs
  <2>3. w \in Requests!Wishes /\ request[r].of \in Employees
    BY <2>1, <2>2 DEF RequestDoc, Requests!Request
  <2> HIDE DEF w
  <2>4. h \in RequestCalls  BY <2>3 DEF RequestCalls, Approving
  <2>5. About(request, h) /\ Present(profile, h) /\ Fulfilled(profile, h)
    BY <2>1 DEF About, Present, Fulfilled, Approving, w
  <2> HIDE DEF h
  <2> QED  BY <2>1, <2>4, <2>5, RequestsFrame
<1>3. ASSUME NEW r \in ProfileRequests, NEW s \in {Requests!APPROVED, Requests!REJECTED},
             Requests!Decide(t, r, s)
      PROVE  RequestsInv'
  <2> DEFINE h == [pc |-> "save", ref |-> r, status |-> s]
  <2>1. /\ request[r].status # "absent" /\ Requests!Ready(t)
        /\ UNCHANGED <<profile, request>>
        /\ task' = task \/ Requests!Continue(t, h)
    BY <1>3 DEF Requests!Decide
  <2>2. h \in RequestCalls  BY DEF RequestCalls
  <2>3. About(request, h) /\ Present(profile, h) /\ Fulfilled(profile, h)
    BY <2>1 DEF About, Present, Fulfilled, Approving
  <2>4. profile' \in Profiles /\ IdsDiffer(profile') /\ request' \in RequestDocs /\ Steady
    BY <2>1 DEF RequestsInv, Steady
  <2> HIDE DEF h
  <2> QED  BY <2>1, <2>2, <2>3, <2>4, RequestsFrame, RequestsDone
<1>4. ASSUME NEW r \in ProfileRequests, NEW f \in Employees, Requests!submitDispute(t, r, f)
      PROVE  RequestsInv'
  <2> DEFINE doc == [Requests!NoRequest EXCEPT !.status = Requests!PENDING, !.of = f]
  <2>1. doc \in Requests!Request /\ doc.field = Nothing
    BY DEF Requests!NoRequest, Requests!Request
  <2>2. doc \in RequestDoc  BY <2>1 DEF RequestDoc
  <2>3. /\ request' = [request EXCEPT ![r] = doc] /\ UNCHANGED <<profile, task>>
        /\ Requests!Ready(t) /\ request[r].status = "absent"
    BY <1>4, RequestsDocs DEF Requests!submitDispute
  <2> HIDE DEF doc
  <2> QED  BY <2>2, <2>3, RequestWrites, RequestsDone
<1> QED
  BY <1>1, <1>2, <1>3, <1>4
     DEF Requests!CallRequest, Requests!CallDispute, Requests!rejectChangeRequest,
         Requests!withdrawChangeRequest, Requests!resolveDispute, Requests!approveDispute

LEMMA RequestsStep ==
    ASSUME RequestsInv, NEW t \in Tasks, Requests!Step(t)
    PROVE  RequestsInv'
<1> DEFINE f == task[t]
<1>t. profile \in Profiles /\ IdsDiffer(profile) /\ request \in RequestDocs  BY DEF RequestsInv
<1>f. f \in RequestCalls /\ About(request, f) /\ Present(profile, f)  BY DEF RequestsInv
<1>r. /\ f.pc = "register" => f.ref \in Employees /\ f.nationalId \in NationalIds
      /\ f.pc = "deactivate" => f.ref \in Employees
      /\ f.pc = "insert" => f.doc \in RequestDoc
      /\ f.pc \in Approving =>
           f.ref \in ProfileRequests /\ f.of \in Employees /\ f.wish \in Requests!Wishes
      /\ f.pc = "save" =>
           f.ref \in ProfileRequests /\ f.status \in {Requests!APPROVED, Requests!REJECTED}
  BY <1>f, RequestsRefs
\* Nothing is written, and the call is done.
<1>n. ASSUME UNCHANGED <<profile, request>>, Requests!Return(t)  PROVE RequestsInv'
  BY <1>n, <1>t, RequestsDone DEF Steady
\* An approval goes on, the request and the employee being the same.
<1>a. ASSUME NEW pc \in {"duplicate", "apply", "approve"}, f.pc \in Approving
      PROVE  LET h == [f EXCEPT !.pc = pc]
             IN  /\ h \in RequestCalls /\ h.pc = pc /\ About(request, h)
                 /\ h.ref = f.ref /\ h.of = f.of /\ h.wish = f.wish
  <2>1. f \in [pc : Approving, ref : ProfileRequests, of : Employees, wish : Requests!Wishes]
    BY <1>a, <1>f DEF RequestCalls, Requests!Idle, Approving
  <2>2. pc \in Approving  BY DEF Approving
  <2> DEFINE h == [f EXCEPT !.pc = pc]
  <2>3. /\ h \in [pc : Approving, ref : ProfileRequests, of : Employees, wish : Requests!Wishes]
        /\ h.pc = pc /\ h.ref = f.ref /\ h.of = f.of /\ h.wish = f.wish
    <3> HIDE DEF f
    <3> QED  BY <2>1, <2>2
  <2> HIDE DEF h
  <2>4. About(request, h)  BY <1>f, <1>a, <2>2, <2>3 DEF About, Approving
  <2> QED  BY <2>3, <2>4 DEF h, RequestCalls
<1>1. ASSUME Requests!insertProfile(t)  PROVE RequestsInv'
  <2> DEFINE e == f.ref
             doc == [Requests!NoProfile EXCEPT !.status = "ACTIVE", !.nationalId = f.nationalId]
  <2>1. f.pc = "register" /\ Requests!Return(t) /\ request' = request
    BY <1>1 DEF Requests!insertProfile
  <2>2. CASE Requests!Employed(f.ref) \/ Requests!Holders(f.nationalId) # {}
    BY <1>1, <1>n, <2>1, <2>2 DEF Requests!insertProfile
  <2>3. CASE ~(Requests!Employed(f.ref) \/ Requests!Holders(f.nationalId) # {})
    <3>1. doc \in Requests!Profile /\ doc.nationalId = f.nationalId
      BY <1>r, <2>1 DEF Requests!NoProfile, Requests!Profile
    <3>2. \A x \in Employees \ {e} : profile[x].nationalId # f.nationalId
      BY <2>3 DEF Requests!Holders
    <3>3. /\ profile' = [profile EXCEPT ![e] = doc] /\ e \in Employees
          /\ \A x \in Employees \ {e} : profile[x].nationalId # doc.nationalId
      BY <1>1, <1>r, <2>1, <2>3, <3>1, <3>2 DEF Requests!insertProfile
    <3> HIDE DEF doc, e, f
    <3>4. profile' \in Profiles /\ IdsDiffer(profile') /\ request' \in RequestDocs /\ Steady
      BY <2>1, <3>1, <3>3, ProfileWrites
    <3> QED  BY <2>1, <3>4, RequestsDone
  <2> QED  BY <2>2, <2>3
<1>2. ASSUME Requests!setInactive(t)  PROVE RequestsInv'
  <2> DEFINE e == f.ref
             doc == [profile[e] EXCEPT !.status = "INACTIVE"]
  <2>1. /\ f.pc = "deactivate" /\ Requests!Return(t) /\ request' = request
        /\ profile' = [profile EXCEPT ![e] = doc]
    BY <1>2 DEF Requests!setInactive
  <2>2. e \in Employees /\ profile[e] \in Requests!Profile
    BY <1>f, <1>r, <1>t, <2>1 DEF Present, Profiles
  <2>3. doc \in Requests!Profile /\ doc.nationalId = profile[e].nationalId
        /\ profile[e].nationalId \in NationalIds
    BY <2>2 DEF Requests!Profile
  <2>4. \A x \in Employees \ {e} : profile[x].nationalId # doc.nationalId
    BY <1>t, <2>2, <2>3 DEF IdsDiffer
  <2> HIDE DEF doc, e, f
  <2>5. profile' \in Profiles /\ IdsDiffer(profile') /\ request' \in RequestDocs /\ Steady
    BY <2>1, <2>2, <2>3, <2>4, ProfileWrites
  <2> QED  BY <2>1, <2>5, RequestsDone
<1>3. ASSUME Requests!findEmployee(t)  PROVE RequestsInv'
  <2> DEFINE pc == IF f.wish.field # "nationalId" THEN "apply"
                   ELSE IF profile[f.of].nationalId = f.wish.newValue THEN "approve"
                   ELSE "duplicate"
             h == [f EXCEPT !.pc = pc]
  <2>1. f.pc = "employee" /\ UNCHANGED <<profile, request>>  BY <1>3 DEF Requests!findEmployee
  <2>2. CASE Requests!Return(t)  BY <1>n, <2>1, <2>2
  <2>3. CASE Requests!Employed(f.of) /\ Requests!Continue(t, h)
    <3>1. pc \in {"duplicate", "apply", "approve"}  OBVIOUS
    <3>2. pc = "approve" => f.wish.field = "nationalId"
                              /\ profile[f.of].nationalId = f.wish.newValue
      OBVIOUS
    <3> HIDE DEF pc
    <3>3. /\ h \in RequestCalls /\ h.pc = pc /\ About(request, h)
          /\ h.ref = f.ref /\ h.of = f.of /\ h.wish = f.wish
      BY <1>a, <2>1, <3>1 DEF Approving
    <3> HIDE DEF h
    <3>4. Present(profile, h) /\ Fulfilled(profile, h)
      BY <2>3, <3>1, <3>2, <3>3 DEF Present, Fulfilled, Requests!Employed
    <3> QED  BY <2>1, <2>3, <3>3, <3>4, RequestsFrame
  <2> QED  BY <1>3, <2>2, <2>3 DEF Requests!findEmployee
<1>4. ASSUME Requests!findDuplicate(t)  PROVE RequestsInv'
  <2> DEFINE h == [f EXCEPT !.pc = "apply"]
  <2>1. /\ f.pc = "duplicate" /\ UNCHANGED <<profile, request>>
        /\ Requests!Continue(t, h) \/ Requests!Return(t)
    BY <1>4 DEF Requests!findDuplicate
  <2>2. /\ h \in RequestCalls /\ h.pc = "apply" /\ About(request, h)
        /\ h.ref = f.ref /\ h.of = f.of /\ h.wish = f.wish
    BY <1>a, <2>1 DEF Approving
  <2> HIDE DEF h
  <2>3. Present(profile, h) /\ Fulfilled(profile, h)
    BY <1>f, <2>1, <2>2 DEF Present, Fulfilled
  <2> QED  BY <1>n, <2>1, <2>2, <2>3, RequestsFrame
<1>5. ASSUME Requests!applyChange(t)  PROVE RequestsInv'
  <2> DEFINE h == [f EXCEPT !.pc = "approve"]
  <2>1. f.pc = "apply" /\ request' = request  BY <1>5 DEF Requests!applyChange
  <2>2. CASE Requests!Return(t) /\ profile' = profile  BY <1>n, <2>1, <2>2
  <2>3. CASE /\ ~Requests!Refused(f.of, f.wish) /\ profile' = Requests!Updated(f.of, f.wish)
             /\ Requests!Continue(t, h)
    <3>1. /\ h \in RequestCalls /\ h.pc = "approve" /\ About(request, h)
          /\ h.ref = f.ref /\ h.of = f.of /\ h.wish = f.wish
      BY <1>a, <2>1 DEF Approving
    <3>2. Requests!Employed(f.of) /\ f.of \in Employees /\ f.wish \in Requests!Wishes
      BY <1>f, <1>r, <2>1 DEF Present, Requests!Employed, Approving
    <3> HIDE DEF h, f
    <3>3. /\ profile' \in Profiles /\ IdsDiffer(profile') /\ request' \in RequestDocs /\ Steady
          /\ f.wish.newValue = IF f.wish.field = "nationalId" THEN profile'[f.of].nationalId
                                                              ELSE profile'[f.of].contractType
      BY <2>1, <2>3, <3>2, ProfileUpdated
    <3>4. Present(profile', h)  BY <3>1, <3>2, <3>3 DEF Present, Steady, Requests!Employed
    <3>5. Fulfilled(profile', h)  BY <3>1, <3>3 DEF Fulfilled
    <3>6. About(request', h)  BY <2>1, <3>1
    <3> QED  BY <2>3, <3>1, <3>3, <3>4, <3>5, <3>6, RequestsMove
  <2> QED  BY <1>5, <2>2, <2>3 DEF Requests!applyChange
<1>w. ASSUME NEW s \in {Requests!APPROVED, Requests!REJECTED}, f.ref \in ProfileRequests,
             request[f.ref].status # "absent",
             request' = [request EXCEPT ![f.ref].status = s], profile' = profile,
             Requests!Return(t)
      PROVE  RequestsInv'
  <2> DEFINE doc == [request[f.ref] EXCEPT !.status = s]
  <2>1. request[f.ref] \in RequestDoc  BY <1>t, <1>w, RequestsDocs DEF RequestDocs
  <2>2. /\ doc \in Requests!Request /\ doc.of = request[f.ref].of
        /\ doc.field = request[f.ref].field /\ doc.newValue = request[f.ref].newValue
    BY <2>1 DEF RequestDoc, Requests!Request
  <2>3. request' = [request EXCEPT ![f.ref] = doc]  BY <1>w
  <2> HIDE DEF doc, f
  <2>4. doc \in RequestDoc  BY <2>1, <2>2 DEF RequestDoc, Wish
  <2>5. profile' \in Profiles /\ IdsDiffer(profile') /\ request' \in RequestDocs /\ Steady
    BY <1>w, <2>2, <2>3, <2>4, RequestWrites
  <2> QED  BY <1>w, <2>5, RequestsDone
<1>6. ASSUME Requests!approveRequest(t)  PROVE RequestsInv'
  BY <1>6, <1>f, <1>r, <1>w DEF Requests!approveRequest, About, Approving
<1>7. ASSUME Requests!saveRequest(t)  PROVE RequestsInv'
  BY <1>7, <1>f, <1>r, <1>w DEF Requests!saveRequest, About
<1>8. ASSUME NEW r \in ProfileRequests, Requests!insertRequest(t, r)  PROVE RequestsInv'
  <2>1. /\ f.doc \in RequestDoc /\ request' = [request EXCEPT ![r] = f.doc]
        /\ request[r].status = "absent" /\ Requests!Return(t) /\ profile' = profile
    BY <1>8, <1>r, RequestsDocs DEF Requests!insertRequest
  <2> HIDE DEF f
  <2>2. profile' \in Profiles /\ IdsDiffer(profile') /\ request' \in RequestDocs /\ Steady
    BY <2>1, RequestWrites
  <2> QED  BY <2>1, <2>2, RequestsDone
<1> QED  BY <1>1, <1>2, <1>3, <1>4, <1>5, <1>6, <1>7, <1>8 DEF Requests!Step

LEMMA RequestsKept ==
    RequestsInv /\ (Requests!Next \/ UNCHANGED <<profile, request, task>>) => RequestsInv'
<1> SUFFICES ASSUME RequestsInv, Requests!Next \/ UNCHANGED <<profile, request, task>>
             PROVE  RequestsInv'
  OBVIOUS
<1>1. CASE UNCHANGED <<profile, request, task>>  BY <1>1 DEF RequestsInv
<1>2. CASE Requests!restart
  <2>1. task' = [t \in Tasks |-> Requests!Idle] /\ UNCHANGED <<profile, request>>
    BY <1>2 DEF Requests!restart
  <2>2. task' \in [Tasks -> RequestCalls] /\ \A t \in Tasks : task'[t] = Requests!Idle
    BY <2>1, RequestsIdle
  <2> QED  BY <2>1, <2>2, RequestsIdle DEF RequestsInv
<1>3. ASSUME NEW t \in Tasks, Requests!Call(t)  PROVE RequestsInv'
  BY <1>3, RequestsCallProfile, RequestsCallRequest DEF Requests!Call, Requests!CallProfile
<1> QED  BY <1>1, <1>2, <1>3, RequestsStep DEF Requests!Next

LEMMA RequestsStart == Requests!Init => RequestsInv
<1> SUFFICES ASSUME Requests!Init  PROVE RequestsInv
  OBVIOUS
<1>1. /\ profile = [e \in Employees |-> Requests!NoProfile]
      /\ request = [r \in ProfileRequests |-> Requests!NoRequest]
      /\ task = [t \in Tasks |-> Requests!Idle]
  BY DEF Requests!Init
<1>2. profile \in Profiles /\ request \in RequestDocs  BY <1>1 DEF Profiles, RequestDocs
<1>3. IdsDiffer(profile)  BY <1>1, RequestsDocs, DesksAssumption DEF IdsDiffer
<1>4. task \in [Tasks -> RequestCalls] /\ \A t \in Tasks : task[t] = Requests!Idle
  BY <1>1, RequestsIdle
<1> QED  BY <1>2, <1>3, <1>4, RequestsIdle DEF RequestsInv

\* What the invariant says of the run's properties.
LEMMA RequestsHold ==
    /\ RequestsInv => Requests!TypeOK /\ Requests!NationalIdsDiffer
    /\ RequestsInv => \A r \in ProfileRequests, t \in Tasks :
          (Tasks = {t} /\ task[t].pc = "approve" /\ task[t].ref = r) =>
              LET p == profile[request[r].of]
              IN  request[r].newValue = IF request[r].field = "nationalId"
                                        THEN p.nationalId ELSE p.contractType
<1>1. RequestsInv => Requests!TypeOK
  BY DEF RequestsInv, Requests!TypeOK, Profiles, RequestDocs, RequestDoc
<1>2. ASSUME RequestsInv, NEW i \in NationalIds
      PROVE  Requests!Cardinality(Requests!Holders(i)) <= 1
  <2>1. Requests!Cardinality(Requests!Holders(i)) = Cardinality(Requests!Holders(i))
    BY DEF Requests!Cardinality, Cardinality
  <2>2. \A e, f \in Requests!Holders(i) : e = f
    BY <1>2 DEF Requests!Holders, RequestsInv, IdsDiffer
  <2>3. CASE Requests!Holders(i) = {}  BY <2>1, <2>3, FS_EmptySet
  <2>4. ASSUME NEW e \in Requests!Holders(i)
        PROVE  Requests!Cardinality(Requests!Holders(i)) <= 1
    <3>1. Requests!Holders(i) = {e}  BY <2>2, <2>4
    <3> QED  BY <2>1, <3>1, FS_Singleton
  <2> QED  BY <2>3, <2>4
<1>3. RequestsInv => Requests!NationalIdsDiffer  BY <1>2 DEF Requests!NationalIdsDiffer
<1>4. ASSUME RequestsInv, NEW r \in ProfileRequests, NEW t \in Tasks, Tasks = {t},
             task[t].pc = "approve", task[t].ref = r
      PROVE  LET p == profile[request[r].of]
             IN  request[r].newValue = IF request[r].field = "nationalId"
                                       THEN p.nationalId ELSE p.contractType
  <2>1. /\ task[t].of = request[r].of /\ task[t].wish = Wish(request[r])
        /\ Fulfilled(profile, task[t])
    BY <1>4 DEF RequestsInv, About, Approving
  <2>2. task[t].wish.field = request[r].field /\ task[t].wish.newValue = request[r].newValue
    BY <2>1 DEF Wish
  <2> QED  BY <1>4, <2>1, <2>2 DEF Fulfilled
<1> QED  BY <1>1, <1>3, <1>4

-----------------------------------------------------------------------------
(* The validation of a reporting line.                                      *)

Verdicts == {"valid", "loop", "invalid"}

StructureCalls ==
    {Structure!Idle}
    \cup [pc : {"walk"}, source : Positions, target : Positions, current : Positions \cup {Nothing}]
    \cup [pc : {"answer"}, source : Positions, target : Positions, verdict : Verdicts]

\* In every closed set with the position above the target there is q.
Reached(target, q) ==
    \A S \in SUBSET (Positions \cup {Nothing}) :
        (Structure!Above(target) \in S /\ Structure!Closed(S)) => q \in S

\* The positions W are passed on the way from the target to q, and the source
\* is none of them.
Passed(W, source, target, q) ==
    /\ source \notin W
    /\ Structure!Above(target) \in W \cup {q}
    /\ \A p \in W : Structure!Above(p) \in W \cup {q}

\* What a walk has found out so far, and what an answer rests on.
Walked(h) ==
    /\ h.pc = "walk" =>
         /\ position[h.source].kept
         /\ Reached(h.target, h.current)
         /\ \E W \in SUBSET Positions : Passed(W, h.source, h.target, h.current)
    /\ h.pc = "answer" =>
         /\ h.verdict = "valid" => h.source \notin Structure!UpTo(h.target)
         /\ h.verdict = "loop" => h.source \in Structure!UpTo(h.target)

StructureInv ==
    /\ Structure!TypeOK
    /\ task \in [Tasks -> StructureCalls]
    /\ \A t \in Tasks : Tasks = {t} => Walked(task[t])

LEMMA StructureIdle ==
    /\ Structure!Idle \in StructureCalls
    /\ \A h \in StructureCalls : h.pc = "idle" => h = Structure!Idle
    /\ \A h \in StructureCalls : h.pc = "walk" =>
         h \in [pc : {"walk"}, source : Positions, target : Positions,
                current : Positions \cup {Nothing}]
  BY DEF StructureCalls, Structure!Idle

\* Every position on file reports to a position or to none.
LEMMA LinesType ==
    ASSUME Structure!TypeOK, NEW p \in Positions
    PROVE  /\ Structure!Above(p) \in Positions \cup {Nothing}
           /\ position[p].kept \in BOOLEAN
           /\ ~position[p].kept => Structure!Above(p) = Nothing
<1>1. CASE position[p] \in Structure!Position
  BY <1>1 DEF Structure!Position, Structure!Above
<1>2. CASE position[p] = Structure!NoPosition
  BY <1>2 DEF Structure!NoPosition, Structure!Above
<1> QED  BY <1>1, <1>2 DEF Structure!TypeOK

\* The documents may be written: no call that looks at them is in progress.
LEMMA StructureWrites ==
    ASSUME StructureInv, Structure!TypeOK', NEW t \in Tasks, Structure!Ready(t), task' = task
    PROVE  StructureInv'
<1>1. task[t] = Structure!Idle  BY StructureIdle DEF StructureInv, Structure!Ready
<1>2. ASSUME NEW u \in Tasks, Tasks = {u}  PROVE Walked(task[u])'
  <2>1. task'[u].pc = "idle"  BY <1>1, <1>2 DEF Structure!Idle
  <2> QED  BY <2>1 DEF Walked
<1> QED  BY <1>2 DEF StructureInv

\* The call goes on from the lines as they are.
LEMMA StructureFrame ==
    ASSUME StructureInv, UNCHANGED <<department, position>>, NEW t \in Tasks,
           NEW h \in StructureCalls, Tasks = {t} => Walked(h), Structure!Continue(t, h)
    PROVE  StructureInv'
<1>1. task' \in [Tasks -> StructureCalls] /\ task'[t] = h
  BY DEF StructureInv, Structure!Continue
<1>2. Structure!TypeOK'  BY DEF StructureInv, Structure!TypeOK
<1>3. ASSUME NEW u \in Tasks, Tasks = {u}  PROVE Walked(task[u])'
  <2>1. u = t  BY <1>3
  <2>2. Walked(h)'
    BY <1>3, <2>1 DEF Walked, Reached, Passed, Structure!Above, Structure!UpTo, Structure!Closed
  <2> QED  BY <1>1, <2>1, <2>2 DEF Walked
<1> QED  BY <1>1, <1>2, <1>3 DEF StructureInv

LEMMA DepartmentWrites ==
    ASSUME StructureInv, NEW d \in Departments, NEW doc \in Structure!Department,
           department' = [department EXCEPT ![d] = doc], position' = position
    PROVE  Structure!TypeOK'
  BY DEF StructureInv, Structure!TypeOK

LEMMA PositionWrites ==
    ASSUME StructureInv, NEW p \in Positions, NEW doc \in Structure!Position,
           position' = [position EXCEPT ![p] = doc], department' = department
    PROVE  Structure!TypeOK'
  BY DEF StructureInv, Structure!TypeOK

LEMMA StructureCallDepartment ==
    ASSUME StructureInv, NEW t \in Tasks, Structure!CallDepartment(t)
    PROVE  StructureInv'
<1>d. \A d \in Departments : department[d].kept => department[d] \in Structure!Department
  BY DEF StructureInv, Structure!TypeOK, Structure!NoDepartment
<1>1. ASSUME NEW d \in Departments, Structure!createDepartment(t, d)  PROVE StructureInv'
  <2>1. [Structure!NoDepartment EXCEPT !.kept = TRUE, !.isActive = TRUE] \in Structure!Department
    BY DEF Structure!NoDepartment, Structure!Department
  <2> QED  BY <1>1, <2>1, DepartmentWrites, StructureWrites DEF Structure!createDepartment
<1>2. ASSUME NEW d \in Departments, NEW p \in Positions, Structure!updateDepartment(t, d, p)
      PROVE  StructureInv'
  <2> DEFINE doc == [department[d] EXCEPT !.headPositionId = p]
  <2>1. /\ Structure!Ready(t) /\ task' = task /\ position' = position
        /\ department' = [department EXCEPT ![d] = doc] /\ department[d] \in Structure!Department
    BY <1>2, <1>d DEF Structure!updateDepartment
  <2>2. doc \in Structure!Department  BY <2>1 DEF Structure!Department
  <2> HIDE DEF doc
  <2> QED  BY <2>1, <2>2, DepartmentWrites, StructureWrites
<1>3. ASSUME NEW d \in Departments, NEW b \in BOOLEAN, Structure!setDepartmentActive(t, d, b)
      PROVE  StructureInv'
  <2> DEFINE doc == [department[d] EXCEPT !.isActive = b]
  <2>1. /\ Structure!Ready(t) /\ task' = task /\ position' = position
        /\ department' = [department EXCEPT ![d] = doc] /\ department[d] \in Structure!Department
    BY <1>3, <1>d DEF Structure!setDepartmentActive
  <2>2. doc \in Structure!Department  BY <2>1 DEF Structure!Department
  <2> HIDE DEF doc
  <2> QED  BY <2>1, <2>2, DepartmentWrites, StructureWrites
<1> QED  BY <1>1, <1>2, <1>3 DEF Structure!CallDepartment

LEMMA StructureCallPosition ==
    ASSUME StructureInv, NEW t \in Tasks, Structure!CallPosition(t)
    PROVE  StructureInv'
<1>p. /\ \A p \in Positions : position[p].kept => position[p] \in Structure!Position
      /\ position \in [Positions -> Structure!Position \cup {Structure!NoPosition}]
  BY DEF StructureInv, Structure!TypeOK, Structure!NoPosition
<1>d. ASSUME NEW d \in Departments, NEW p \in Positions
      PROVE  Structure!DepartmentHead(d, p) \in Positions \cup {Nothing}
  <2>1. department[d] \in Structure!Department \cup {Structure!NoDepartment}
    BY DEF StructureInv, Structure!TypeOK
  <2>2. department[d].headPositionId \in Positions \cup {Nothing}
    <3>1. CASE department[d] \in Structure!Department  BY <3>1 DEF Structure!Department
    <3>2. CASE department[d] = Structure!NoDepartment  BY <3>2 DEF Structure!NoDepartment
    <3> QED  BY <2>1, <3>1, <3>2
  <2> QED  BY <2>2 DEF Structure!DepartmentHead
<1>r. ASSUME NEW d \in Departments, NEW p \in Positions, position[p].kept
      PROVE  Structure!Rehomed(p, d) \in Structure!Position
  <2> DEFINE q == IF Structure!DepartmentHead(d, p) = Nothing THEN position[p].reportsToPositionId
                  ELSE Structure!DepartmentHead(d, p)
  <2>1. position[p] \in Structure!Position  BY <1>p, <1>r
  <2>2. q \in Positions \cup {Nothing}  BY <1>d, <2>1 DEF Structure!Position
  <2>3. Structure!Rehomed(p, d) = [position[p] EXCEPT !.departmentId = d, !.reportsToPositionId = q]
    BY <2>1 DEF Structure!Rehomed, Structure!Position
  <2> HIDE DEF q
  <2>4. [position[p] EXCEPT !.departmentId = d, !.reportsToPositionId = q] \in Structure!Position
    BY <2>1, <2>2 DEF Structure!Position
  <2> QED  BY <2>3, <2>4
<1>1. ASSUME NEW p \in Positions, NEW d \in Departments, NEW q \in Positions \cup {Nothing},
             Structure!createPosition(t, p, d, q)
      PROVE  StructureInv'
  <2> DEFINE doc == [kept |-> TRUE, isActive |-> TRUE, departmentId |-> d, reportsToPositionId |-> q]
  <2>1. doc \in Structure!Position  BY DEF Structure!Position
  <2>2. /\ Structure!Ready(t) /\ task' = task /\ department' = department
        /\ position' = [position EXCEPT ![p] = doc]
    BY <1>1 DEF Structure!createPosition
  <2> HIDE DEF doc
  <2> QED  BY <2>1, <2>2, PositionWrites, StructureWrites
<1>2. ASSUME NEW p \in Positions, NEW d \in Departments, NEW q \in Positions \cup {Nothing},
             Structure!updatePosition(t, p, d, q)
      PROVE  StructureInv'
  <2> DEFINE line == [position[p] EXCEPT !.departmentId = d, !.reportsToPositionId = q]
             doc == IF q = Nothing THEN Structure!Rehomed(p, d) ELSE line
  <2>1. /\ Structure!Ready(t) /\ task' = task /\ department' = department /\ position[p].kept
        /\ position' = [position EXCEPT ![p] = doc]
    BY <1>2, <1>p DEF Structure!updatePosition
  <2>2. line \in Structure!Position  BY <1>p, <2>1 DEF Structure!Position
  <2>3. doc \in Structure!Position  BY <1>r, <2>1, <2>2
  <2> HIDE DEF doc
  <2> QED  BY <2>1, <2>3, PositionWrites, StructureWrites
<1>3. ASSUME NEW p \in Positions, Structure!deactivatePosition(t, p)  PROVE StructureInv'
  <2> DEFINE home == Structure!Rehomed(p, position[p].departmentId)
             doc == [home EXCEPT !.isActive = FALSE]
  <2>1. /\ Structure!Ready(t) /\ task' = task /\ department' = department /\ position[p].kept
        /\ position' = [position EXCEPT ![p] = doc]
    BY <1>3, <1>p DEF Structure!deactivatePosition
  <2>2. position[p].departmentId \in Departments  BY <1>p, <2>1 DEF Structure!Position
  <2>3. home \in Structure!Position  BY <1>r, <2>1, <2>2
  <2> HIDE DEF home
  <2>4. doc \in Structure!Position  BY <2>3 DEF Structure!Position
  <2> HIDE DEF doc
  <2> QED  BY <2>1, <2>4, PositionWrites, StructureWrites
<1>4. ASSUME NEW p \in Positions, Structure!activatePosition(t, p)  PROVE StructureInv'
  <2> DEFINE doc == [position[p] EXCEPT !.isActive = TRUE]
  <2>1. /\ Structure!Ready(t) /\ task' = task /\ department' = department /\ position[p].kept
        /\ position' = [position EXCEPT ![p] = doc]
    BY <1>4 DEF Structure!activatePosition
  <2>2. doc \in Structure!Position  BY <1>p, <2>1 DEF Structure!Position
  <2> HIDE DEF doc
  <2> QED  BY <2>1, <2>2, PositionWrites, StructureWrites
<1> QED  BY <1>1, <1>2, <1>3, <1>4 DEF Structure!CallPosition

LEMMA StructureCallLine ==
    ASSUME StructureInv, NEW t \in Tasks, Structure!CallLine(t)
    PROVE  StructureInv'
<1>p. \A p \in Positions : position[p].kept => position[p] \in Structure!Position
  BY DEF StructureInv, Structure!TypeOK, Structure!NoPosition
<1>w. ASSUME NEW p \in Positions, NEW q \in Positions \cup {Nothing}, position[p].kept,
             Structure!Ready(t), task' = task, department' = department,
             position' = [position EXCEPT ![p].reportsToPositionId = q]
      PROVE  StructureInv'
  <2> DEFINE doc == [position[p] EXCEPT !.reportsToPositionId = q]
  <2>1. position' = [position EXCEPT ![p] = doc]  BY <1>w
  <2>2. doc \in Structure!Position  BY <1>p, <1>w DEF Structure!Position
  <2> HIDE DEF doc
  <2> QED  BY <1>w, <2>1, <2>2, PositionWrites, StructureWrites
<1>1. ASSUME NEW p \in Positions, NEW q \in Positions,
             Structure!setReportingLine(t, p, q) \/ Structure!removeReportingLine(t, p)
      PROVE  StructureInv'
  BY <1>1, <1>w DEF Structure!setReportingLine, Structure!removeReportingLine
<1>2. ASSUME NEW p \in Positions, NEW q \in Positions, Structure!validateReportingLine(t, p, q)
      PROVE  StructureInv'
  <2> DEFINE w == [pc |-> "walk", source |-> p, target |-> q, current |-> Structure!Above(q)]
             a == Structure!Answer(p, q, "invalid")
  <2>1. /\ position[p].kept /\ UNCHANGED <<department, position>>
        /\ Structure!Continue(t, w) \/ Structure!Continue(t, a)
    BY <1>2 DEF Structure!validateReportingLine
  <2>2. w \in StructureCalls  BY LinesType DEF StructureInv, StructureCalls
  <2>3. Walked(w)
    <3>1. Reached(q, Structure!Above(q))  BY DEF Reached
    <3>2. Passed({}, p, q, Structure!Above(q))  BY DEF Passed
    <3> QED  BY <2>1, <3>1, <3>2 DEF Walked
  <2>4. a \in StructureCalls /\ Walked(a)
    BY DEF StructureCalls, Structure!Answer, Walked, Verdicts
  <2> HIDE DEF w, a
  <2> QED  BY <2>1, <2>2, <2>3, <2>4, StructureFrame
<1> QED  BY <1>1, <1>2 DEF Structure!CallLine

\* The walk has come to an end above which there is nobody: what it passed is
\* closed, and without the source.
LEMMA WalkEnds ==
    ASSUME StructureInv, NEW h \in StructureCalls, h.pc = "walk", Walked(h),
           h.current = Nothing \/ ~position[h.current].kept
    PROVE  h.source \notin Structure!UpTo(h.target)
<1>1. h.source \in Positions /\ h.target \in Positions /\ h.current \in Positions \cup {Nothing}
  BY StructureIdle
<1>2. position[h.source].kept  BY DEF Walked
<1>3. PICK W \in SUBSET Positions : Passed(W, h.source, h.target, h.current)
  BY DEF Walked
<1> DEFINE S == W \cup {h.current}
<1>4. S \in SUBSET (Positions \cup {Nothing}) /\ Structure!Above(h.target) \in S
  BY <1>1, <1>3 DEF Passed
<1>5. Structure!Closed(S)
  <2> SUFFICES ASSUME NEW p \in S \cap Positions, position[p].kept
               PROVE  Structure!Above(p) \in S
    BY DEF Structure!Closed
  <2>1. p \in W  BY DesksAssumption
  <2> QED  BY <1>3, <2>1 DEF Passed
<1>6. h.source \notin S
  BY <1>1, <1>2, <1>3, DesksAssumption DEF Passed
<1> HIDE DEF S
<1> QED  BY <1>4, <1>5, <1>6 DEF Structure!UpTo

\* One position further up.
LEMMA WalkGoesOn ==
    ASSUME StructureInv, NEW h \in StructureCalls, h.pc = "walk", Walked(h),
           h.current \in Positions, position[h.current].kept, h.current # h.source
    PROVE  LET g == [h EXCEPT !.current = Structure!Above(h.current)]
           IN  g \in StructureCalls /\ Walked(g)
<1> DEFINE c == h.current
           g == [h EXCEPT !.current = Structure!Above(c)]
<1>1. h \in [pc : {"walk"}, source : Positions, target : Positions,
             current : Positions \cup {Nothing}]
  BY StructureIdle
<1>2. Structure!Above(c) \in Positions \cup {Nothing}  BY LinesType DEF StructureInv
<1>3. /\ g \in StructureCalls /\ g.pc = "walk" /\ g.source = h.source /\ g.target = h.target
      /\ g.current = Structure!Above(c)
  BY <1>1, <1>2 DEF StructureCalls
<1> HIDE DEF g
<1>4. Reached(h.target, Structure!Above(c))
  BY DEF Walked, Reached, Structure!Closed
<1>5. PICK W \in SUBSET Positions : Passed(W, h.source, h.target, c)
  BY DEF Walked
<1>6. Passed(W \cup {c}, h.source, h.target, Structure!Above(c))
  BY <1>5 DEF Passed
<1>7. W \cup {c} \in SUBSET Positions  OBVIOUS
<1>8. \E V \in SUBSET Positions : Passed(V, h.source, h.target, Structure!Above(c))
  BY <1>6, <1>7
<1>9. Walked(g)  BY <1>3, <1>4, <1>8 DEF Walked
<1> QED  BY <1>3, <1>9 DEF g

LEMMA StructureStep ==
    ASSUME StructureInv, NEW t \in Tasks, Structure!Step(t)
    PROVE  StructureInv'
<1> DEFINE h == task[t]
<1>h. h \in StructureCalls /\ (Tasks = {t} => Walked(h))  BY DEF StructureInv
<1>1. CASE Structure!answer(t)
  <2>1. Walked(Structure!Idle)  BY DEF Walked, Structure!Idle
  <2> QED  BY <1>1, <2>1, StructureIdle, StructureFrame DEF Structure!answer, Structure!Return
<1>2. CASE Structure!walk(t)
  <2> DEFINE v == Structure!Answer(h.source, h.target, "valid")
             l == Structure!Answer(h.source, h.target, "loop")
             g == [h EXCEPT !.current = Structure!Above(h.current)]
  <2>1. /\ h.pc = "walk" /\ UNCHANGED <<department, position>>
        /\ \/ (h.current = Nothing \/ ~position[h.current].kept) /\ Structure!Continue(t, v)
           \/ /\ h.current # Nothing /\ position[h.current].kept /\ h.current = h.source
              /\ Structure!Continue(t, l)
           \/ /\ h.current # Nothing /\ position[h.current].kept /\ h.current # h.source
              /\ Structure!Continue(t, g)
    BY <1>2 DEF Structure!walk
  <2>2. h.source \in Positions /\ h.target \in Positions /\ h.current \in Positions \cup {Nothing}
    BY <1>h, <2>1, StructureIdle
  <2>3. v \in StructureCalls /\ l \in StructureCalls
    BY <2>2 DEF StructureCalls, Structure!Answer, Verdicts
  <2>4. ASSUME h.current = Nothing \/ ~position[h.current].kept, Tasks = {t}
        PROVE  Walked(v)
    <3>1. h.source \notin Structure!UpTo(h.target)  BY <1>h, <2>1, <2>4, WalkEnds
    <3> QED  BY <3>1 DEF Walked, Structure!Answer
  <2>5. ASSUME h.current = h.source, Tasks = {t}  PROVE Walked(l)
    <3>1. Reached(h.target, h.source)  BY <1>h, <2>1, <2>5 DEF Walked
    <3>2. h.source \in Structure!UpTo(h.target)  BY <2>2, <3>1 DEF Reached, Structure!UpTo
    <3> QED  BY <3>2 DEF Walked, Structure!Answer
  <2>6. ASSUME h.current # Nothing, position[h.current].kept, h.current # h.source
        PROVE  g \in StructureCalls /\ (Tasks = {t} => Walked(g))
    <3>1. h.current \in Positions  BY <2>2, <2>6
    <3>2. g \in StructureCalls
      <4>1. h \in [pc : {"walk"}, source : Positions, target : Positions,
                   current : Positions \cup {Nothing}]
        BY <1>h, <2>1, StructureIdle
      <4>2. Structure!Above(h.current) \in Positions \cup {Nothing}
        BY <3>1, LinesType DEF StructureInv
      <4> QED  BY <4>1, <4>2 DEF StructureCalls
    <3>3. Tasks = {t} => Walked(g)  BY <1>h, <2>1, <2>6, <3>1, WalkGoesOn
    <3> QED  BY <3>2, <3>3
  <2> HIDE DEF v, l, g
  <2> QED  BY <2>1, <2>3, <2>4, <2>5, <2>6, StructureFrame
<1> QED  BY <1>1, <1>2 DEF Structure!Step

LEMMA StructureKept ==
    StructureInv /\ (Structure!Next \/ UNCHANGED <<department, position, task>>) => StructureInv'
<1> SUFFICES ASSUME StructureInv, Structure!Next \/ UNCHANGED <<department, position, task>>
             PROVE  StructureInv'
  OBVIOUS
<1>1. CASE UNCHANGED <<department, position, task>>
  BY <1>1 DEF StructureInv, Structure!TypeOK, Walked, Reached, Passed, Structure!Above,
              Structure!UpTo, Structure!Closed
<1>2. CASE Structure!restart
  <2>1. task' = [t \in Tasks |-> Structure!Idle] /\ UNCHANGED <<department, position>>
    BY <1>2 DEF Structure!restart
  <2>2. task' \in [Tasks -> StructureCalls] /\ \A t \in Tasks : task'[t].pc = "idle"
    BY <2>1, StructureIdle DEF Structure!Idle
  <2>3. Structure!TypeOK' /\ \A t \in Tasks : Walked(task[t])'
    BY <2>1, <2>2 DEF StructureInv, Structure!TypeOK, Walked
  <2> QED  BY <2>2, <2>3 DEF StructureInv
<1> QED
  BY <1>1, <1>2, StructureCallDepartment, StructureCallPosition, StructureCallLine, StructureStep
     DEF Structure!Next, Structure!Call

LEMMA StructureStarts == Structure!Init => StructureInv
<1> SUFFICES ASSUME Structure!Init  PROVE StructureInv
  OBVIOUS
<1>1. Structure!TypeOK  BY DEF Structure!Init, Structure!TypeOK
<1>2. task \in [Tasks -> StructureCalls] /\ \A t \in Tasks : task[t].pc = "idle"
  BY StructureIdle DEF Structure!Init, Structure!Idle
<1> QED  BY <1>1, <1>2 DEF StructureInv, Walked

\* With one call at a time its verdict is right.
LEMMA VerdictsHold ==
    ASSUME StructureInv, NEW t \in Tasks, Tasks = {t}
    PROVE  Structure!VerdictIsRight
  BY DEF StructureInv, Walked, Structure!VerdictIsRight

-----------------------------------------------------------------------------
(* Appraisals.                                                              *)

AppraisalCalls ==
    {Performance!Idle}
    \cup [pc : {"saveCycle"}, ref : Cycles, read : Performance!Cycle, doc : Performance!Cycle]
    \cup [pc : {"saveRecord"}, ref : Records, read : Performance!Record, doc : Performance!Record]
    \cup [pc : {"insertDispute"}, doc : Performance!Dispute]
    \cup [pc : {"saveDispute"}, ref : AppraisalDisputes, read : Performance!Dispute,
          doc : Performance!Dispute]

\* What a call will save is on file.  Who resolved the dispute a call has read
\* is named still, in the database and in what the call will save.
Signed(h) ==
    /\ h.pc = "saveCycle" => cycle[h.ref] # Performance!NoCycle
    /\ h.pc = "saveRecord" => record[h.ref] # Performance!NoRecord
    /\ h.pc = "insertDispute" => h.doc.status = Performance!OPEN
    /\ h.pc = "saveDispute" =>
         /\ h.doc.resolvedBy # Nothing
         /\ h.read.resolvedBy # Nothing => appraisalDispute[h.ref].resolvedBy # Nothing

AppraisalInv ==
    /\ Performance!TypeOK /\ Performance!AdjustedIsResolved
    /\ task \in [Tasks -> AppraisalCalls]
    /\ \A t \in Tasks : Signed(task[t])

LEMMA AppraisalIdle == Performance!Idle \in AppraisalCalls /\ Signed(Performance!Idle)
  BY DEF AppraisalCalls, Performance!Idle, Signed

LEMMA AppraisalDocs ==
    /\ Performance!NoCycle \notin Performance!Cycle
    /\ Performance!NoRecord \notin Performance!Record
    /\ Performance!NoDispute.status = "absent" /\ Performance!NoRecord.status = "absent"
    /\ Performance!NoDispute.resolvedBy = Nothing
<1>1. Performance!NoCycle.status = "absent" /\ Performance!NoRecord.status = "absent"
  BY DEF Performance!NoCycle, Performance!NoRecord
<1>2. \A x \in Performance!Cycle : x.status # "absent"
  BY DEF Performance!Cycle, Performance!CycleStatus, Performance!PLANNED, Performance!ACTIVE,
         Performance!CLOSED, Performance!ARCHIVED
<1>3. \A x \in Performance!Record : x.status # "absent"
  BY DEF Performance!Record, Performance!DRAFT, Performance!MANAGER_SUBMITTED,
         Performance!HR_PUBLISHED
<1>4. Performance!NoDispute.status = "absent" /\ Performance!NoDispute.resolvedBy = Nothing
  BY DEF Performance!NoDispute
<1> QED  BY <1>1, <1>2, <1>3, <1>4

LEMMA AppraisalOnFile ==
    ASSUME Performance!TypeOK
    PROVE  /\ \A c \in Cycles : cycle[c] # Performance!NoCycle => cycle[c] \in Performance!Cycle
           /\ \A r \in Records : record[r] # Performance!NoRecord => record[r] \in Performance!Record
           /\ \A d \in AppraisalDisputes :
                 Performance!Raised(d) => appraisalDispute[d] \in Performance!Dispute
  BY AppraisalDocs DEF Performance!TypeOK, Performance!Raised

LEMMA AppraisalFrame ==
    ASSUME AppraisalInv, UNCHANGED PerformanceFiles, NEW t \in Tasks,
           NEW h \in AppraisalCalls, Signed(h), Performance!Continue(t, h)
    PROVE  AppraisalInv'
<1>0. UNCHANGED <<appraisalTemplate, cycle, record, appraisalDispute>>  BY DEF PerformanceFiles
<1>1. \A u \in Tasks : task'[u] = IF u = t THEN h ELSE task[u]
  BY DEF AppraisalInv, Performance!Continue
<1>2. task' \in [Tasks -> AppraisalCalls]  BY DEF AppraisalInv, Performance!Continue
<1>3. \A u \in Tasks : Signed(task[u])'  BY <1>0, <1>1 DEF AppraisalInv, Signed
<1> QED  BY <1>0, <1>2, <1>3 DEF AppraisalInv, Performance!TypeOK, Performance!AdjustedIsResolved

\* A write keeps what is on file there, and what is signed.
LEMMA AppraisalWrites ==
    ASSUME AppraisalInv, NEW t \in Tasks, task' = task \/ Performance!Return(t),
           Performance!TypeOK', Performance!AdjustedIsResolved',
           \A c \in Cycles : cycle[c] # Performance!NoCycle => cycle'[c] # Performance!NoCycle,
           \A r \in Records : record[r] # Performance!NoRecord =>
               record'[r] # Performance!NoRecord,
           \A d \in AppraisalDisputes :
               appraisalDispute[d].resolvedBy # Nothing => appraisalDispute'[d].resolvedBy # Nothing
    PROVE  AppraisalInv'
<1>1. /\ task' \in [Tasks -> AppraisalCalls]
      /\ \A u \in Tasks : task'[u] \in {Performance!Idle, task[u]}
  BY AppraisalIdle DEF AppraisalInv, Performance!Return, Performance!Continue
<1>2. \A u \in Tasks : Signed(task[u])'
  <2> SUFFICES ASSUME NEW u \in Tasks  PROVE Signed(task[u])'
    OBVIOUS
  <2>1. CASE task'[u] = Performance!Idle  BY <2>1 DEF Signed, Performance!Idle
  <2>2. CASE task'[u] = task[u]
    <3> DEFINE h == task[u]
    <3>1. h \in AppraisalCalls /\ Signed(h)  BY DEF AppraisalInv
    <3>2. /\ h.pc = "saveCycle" => h.ref \in Cycles
          /\ h.pc = "saveRecord" => h.ref \in Records
          /\ h.pc = "saveDispute" => h.ref \in AppraisalDisputes
      BY <3>1 DEF AppraisalCalls, Performance!Idle
    <3> HIDE DEF h
    <3>3. task'[u] = h  BY <2>2 DEF h
    <3> QED  BY <3>1, <3>2, <3>3 DEF Signed
  <2> QED  BY <1>1, <2>1, <2>2
<1> QED  BY <1>1, <1>2 DEF AppraisalInv

LEMMA AppraisalCatalogue ==
    ASSUME AppraisalInv, NEW t \in Tasks, Performance!CallCatalogue(t)
    PROVE  AppraisalInv'
<1>t. Performance!TypeOK /\ Performance!AdjustedIsResolved  BY DEF AppraisalInv
<1>1. ASSUME NEW p \in AppraisalTemplates, NEW x \in Ratings \cup {"deleted"},
             appraisalTemplate' = [appraisalTemplate EXCEPT ![p] = x],
             UNCHANGED <<cycle, record, appraisalDispute, task>>
      PROVE  AppraisalInv'
  <2>1. Performance!TypeOK' /\ Performance!AdjustedIsResolved'
    BY <1>1, <1>t DEF Performance!TypeOK, Performance!AdjustedIsResolved
  <2> QED  BY <1>1, <2>1, AppraisalWrites
<1>2. ASSUME NEW c \in Cycles, NEW doc \in Performance!Cycle,
             cycle' = [cycle EXCEPT ![c] = doc],
             UNCHANGED <<appraisalTemplate, record, appraisalDispute>>,
             task' = task \/ Performance!Return(t)
      PROVE  AppraisalInv'
  <2>1. Performance!TypeOK' /\ Performance!AdjustedIsResolved'
    BY <1>2, <1>t DEF Performance!TypeOK, Performance!AdjustedIsResolved
  <2>2. \A x \in Cycles : cycle[x] # Performance!NoCycle => cycle'[x] # Performance!NoCycle
    BY <1>2, <1>t, AppraisalDocs DEF Performance!TypeOK
  <2> QED  BY <1>2, <2>1, <2>2, AppraisalWrites
<1>s. ASSUME NEW c \in Cycles, cycle[c] # Performance!NoCycle, NEW s \in Performance!CycleStatus
      PROVE  /\ [cycle[c] EXCEPT !.status = s] \in Performance!Cycle
             /\ [cycle[c] EXCEPT !.status = s, !.published = TRUE] \in Performance!Cycle
             /\ [cycle[c] EXCEPT !.status = s, !.closed = TRUE] \in Performance!Cycle
             /\ [cycle[c] EXCEPT !.status = s, !.archived = TRUE] \in Performance!Cycle
  BY <1>t, <1>s, AppraisalOnFile DEF Performance!Cycle
<1>v. /\ Performance!PLANNED \in Performance!CycleStatus
      /\ Performance!ACTIVE \in Performance!CycleStatus
      /\ Performance!CLOSED \in Performance!CycleStatus
      /\ Performance!ARCHIVED \in Performance!CycleStatus
  BY DEF Performance!CycleStatus
<1>3. ASSUME NEW p \in AppraisalTemplates, Performance!deleteTemplate(t, p)  PROVE AppraisalInv'
  BY <1>3, <1>1 DEF Performance!deleteTemplate
<1>4. ASSUME NEW p \in AppraisalTemplates, NEW x \in Ratings,
             Performance!createTemplate(t, p, x) \/ Performance!updateTemplate(t, p, x)
      PROVE  AppraisalInv'
  BY <1>4, <1>1 DEF Performance!createTemplate, Performance!updateTemplate
<1>5. ASSUME NEW c \in Cycles, NEW x \in Performance!Cycle, Performance!createCycle(t, c, x)
      PROVE  AppraisalInv'
  <2> DEFINE doc == [x EXCEPT !.status = Performance!PLANNED]
  <2>1. doc \in Performance!Cycle  BY <1>v DEF Performance!Cycle
  <2>2. /\ cycle' = [cycle EXCEPT ![c] = doc]
        /\ UNCHANGED <<appraisalTemplate, record, appraisalDispute, task>>
    BY <1>5 DEF Performance!createCycle
  <2> HIDE DEF doc
  <2> QED  BY <2>1, <2>2, <1>2
<1>6. ASSUME NEW c \in Cycles, NEW doc, Performance!updateCycle(t, c, doc),
             cycle[c] # Performance!NoCycle => doc \in Performance!Cycle
      PROVE  AppraisalInv'
  BY <1>6, <1>2 DEF Performance!updateCycle
<1>7. ASSUME NEW c \in Cycles,
             Performance!activateCycle(t, c) \/ Performance!closeCycle(t, c)
               \/ Performance!archiveCycle(t, c)
               \/ \E doc \in Performance!Cycle : Performance!updateCycle(t, c, doc)
      PROVE  AppraisalInv'
  <2>1. \E doc : /\ Performance!updateCycle(t, c, doc)
                 /\ cycle[c] # Performance!NoCycle => doc \in Performance!Cycle
    BY <1>7, <1>s, <1>v
       DEF Performance!activateCycle, Performance!closeCycle, Performance!archiveCycle
  <2> QED  BY <2>1, <1>6
<1>8. ASSUME NEW c \in Cycles, Performance!publishCycleResults(t, c)  PROVE AppraisalInv'
  <2> DEFINE doc == [cycle[c] EXCEPT !.status = Performance!CLOSED, !.published = TRUE]
             h == [pc |-> "saveCycle", ref |-> c, read |-> cycle[c], doc |-> doc]
  <2>1. cycle[c] # Performance!NoCycle /\ UNCHANGED PerformanceFiles /\ Performance!Continue(t, h)
    BY <1>8 DEF Performance!publishCycleResults, Performance!Stored, PerformanceFiles
  <2>2. cycle[c] \in Performance!Cycle /\ doc \in Performance!Cycle
    BY <2>1, <1>t, <1>s, <1>v, AppraisalOnFile
  <2> HIDE DEF doc
  <2>3. h \in AppraisalCalls /\ Signed(h)  BY <2>1, <2>2 DEF AppraisalCalls, Signed
  <2> HIDE DEF h
  <2> QED  BY <2>1, <2>3, AppraisalFrame
<1> QED  BY <1>3, <1>4, <1>5, <1>7, <1>8 DEF Performance!CallCatalogue

LEMMA AppraisalRecord ==
    ASSUME AppraisalInv, NEW t \in Tasks, Performance!CallRecord(t)
    PROVE  AppraisalInv'
<1>t. Performance!TypeOK /\ Performance!AdjustedIsResolved  BY DEF AppraisalInv
<1>r. \A r \in Records : record[r] # Performance!NoRecord => record[r] \in Performance!Record
  BY <1>t, AppraisalOnFile
<1>1. ASSUME NEW r \in Records, record[r] # Performance!NoRecord, NEW doc \in Performance!Record,
             UNCHANGED PerformanceFiles,
             Performance!Continue(t, Performance!SavingRecord(r, doc))
      PROVE  AppraisalInv'
  <2> DEFINE h == Performance!SavingRecord(r, doc)
  <2>1. h = [pc |-> "saveRecord", ref |-> r, read |-> record[r], doc |-> doc]
    BY DEF Performance!SavingRecord
  <2>2. h \in AppraisalCalls  BY <1>1, <1>r, <2>1 DEF AppraisalCalls
  <2>3. Signed(h)  BY <1>1, <2>1 DEF Signed
  <2> HIDE DEF h
  <2> QED  BY <1>1, <2>2, <2>3, AppraisalFrame DEF h
<1>2. ASSUME NEW r \in Records, NEW a \in Raters, NEW doc \in Forms,
             Performance!updateAppraisal(t, r, a, doc)
      PROVE  AppraisalInv'
  <2>1. doc \in Performance!Record  BY FormsAssumption
  <2> QED
    BY <1>2, <2>1, <1>1 DEF Performance!updateAppraisal, Performance!Written, Performance!Stored,
                            PerformanceFiles
<1>3. ASSUME NEW r \in Records, NEW a \in Raters, Performance!updateAppraisalStatus(t, r, a)
      PROVE  AppraisalInv'
  <2> DEFINE doc == [record[r] EXCEPT !.status = Performance!MANAGER_SUBMITTED, !.submitted = TRUE]
  <2>1. /\ record[r] # Performance!NoRecord /\ UNCHANGED PerformanceFiles
        /\ Performance!Continue(t, Performance!SavingRecord(r, doc))
    BY <1>3 DEF Performance!updateAppraisalStatus, Performance!Written, Performance!Stored,
                PerformanceFiles
  <2>2. doc \in Performance!Record  BY <1>r, <2>1 DEF Performance!Record
  <2> HIDE DEF doc
  <2> QED  BY <2>1, <2>2, <1>1
<1>4. ASSUME NEW r \in Records, NEW a \in Raters, Performance!publishAppraisal(t, r, a)
      PROVE  AppraisalInv'
  <2> DEFINE doc == [record[r] EXCEPT !.status = Performance!HR_PUBLISHED, !.publishedBy = a]
  <2>1. /\ record[r] # Performance!NoRecord /\ UNCHANGED PerformanceFiles
        /\ Performance!Continue(t, Performance!SavingRecord(r, doc))
    BY <1>4 DEF Performance!publishAppraisal, Performance!Written, Performance!Stored,
                PerformanceFiles
  <2>2. doc \in Performance!Record  BY <1>r, <2>1 DEF Performance!Record
  <2> HIDE DEF doc
  <2> QED  BY <2>1, <2>2, <1>1
<1>5. ASSUME NEW r \in Records, NEW a \in Raters, Performance!employeeAcknowledgeAppraisal(t, r, a)
      PROVE  AppraisalInv'
  <2> DEFINE doc == [record[r] EXCEPT !.acknowledged = TRUE]
  <2>1. /\ record[r] # Performance!NoRecord /\ UNCHANGED PerformanceFiles
        /\ Performance!Continue(t, Performance!SavingRecord(r, doc))
    BY <1>5 DEF Performance!employeeAcknowledgeAppraisal, Performance!Written, Performance!Stored,
                PerformanceFiles
  <2>2. doc \in Performance!Record  BY <1>r, <2>1 DEF Performance!Record
  <2> HIDE DEF doc
  <2> QED  BY <2>1, <2>2, <1>1
<1>6. ASSUME NEW r \in Records, NEW a \in Raters, Performance!createDispute(t, r, a)
      PROVE  AppraisalInv'
  <2> DEFINE doc == [Performance!NoDispute EXCEPT !.status = Performance!OPEN, !.appraisalId = r,
                                                  !.raisedBy = a]
             h == [pc |-> "insertDispute", doc |-> doc]
  <2>1. UNCHANGED PerformanceFiles /\ Performance!Continue(t, h)
    BY <1>6 DEF Performance!createDispute, Performance!Stored, PerformanceFiles
  <2>2. doc \in Performance!Dispute /\ doc.status = Performance!OPEN
    BY DEF Performance!NoDispute, Performance!Dispute
  <2> HIDE DEF doc
  <2>3. h \in AppraisalCalls /\ Signed(h)  BY <2>2 DEF AppraisalCalls, Signed
  <2> HIDE DEF h
  <2> QED  BY <2>1, <2>3, AppraisalFrame
<1>7. ASSUME NEW r \in Records, NEW a \in Raters, NEW x \in Forms,
             Performance!createAppraisal(t, r, a, x)
      PROVE  AppraisalInv'
  <2> DEFINE doc == [x EXCEPT !.status = Performance!DRAFT, !.manager = a]
  <2>1. /\ record[r] = Performance!NoRecord /\ record' = [record EXCEPT ![r] = doc]
        /\ UNCHANGED <<appraisalTemplate, cycle, appraisalDispute, task>>
    BY <1>7 DEF Performance!createAppraisal, Performance!Written
  <2>2. x \in Performance!Record  BY FormsAssumption
  <2>3. doc \in Performance!Record  BY <2>2 DEF Performance!Record
  <2> HIDE DEF doc
  <2>4. Performance!TypeOK'  BY <1>t, <2>1, <2>3 DEF Performance!TypeOK
  <2>5. \A q \in Records : record'[q] = IF q = r THEN doc ELSE record[q]
    BY <1>t, <2>1 DEF Performance!TypeOK
  <2>6. Performance!AdjustedIsResolved'
    BY <1>t, <2>1 DEF Performance!AdjustedIsResolved
  <2>7. \A q \in Records : record[q] # Performance!NoRecord => record'[q] # Performance!NoRecord
    BY <2>1, <2>5
  <2> QED  BY <2>1, <2>4, <2>6, <2>7, AppraisalWrites
<1> QED  BY <1>2, <1>3, <1>4, <1>5, <1>6, <1>7 DEF Performance!CallRecord

LEMMA AppraisalDispute ==
    ASSUME AppraisalInv, NEW t \in Tasks, Performance!CallDispute(t)
    PROVE  AppraisalInv'
<1>t. Performance!TypeOK /\ Performance!AdjustedIsResolved  BY DEF AppraisalInv
<1>1. ASSUME NEW d \in AppraisalDisputes, Performance!deleteDispute(t, d)  PROVE AppraisalInv'
  <2> DEFINE doc == [appraisalDispute[d] EXCEPT !.status = "deleted"]
  <2>1. /\ Performance!Raised(d) /\ appraisalDispute' = [appraisalDispute EXCEPT ![d] = doc]
        /\ UNCHANGED <<appraisalTemplate, cycle, record, task>>
    BY <1>1 DEF Performance!deleteDispute
  <2>2. appraisalDispute[d] \in Performance!Dispute  BY <1>t, <2>1, AppraisalOnFile
  <2>3. /\ doc \in Performance!Dispute /\ doc.status = "deleted"
        /\ doc.resolvedBy = appraisalDispute[d].resolvedBy
    BY <2>2 DEF Performance!Dispute
  <2> HIDE DEF doc
  <2>4. Performance!TypeOK'  BY <1>t, <2>1, <2>3 DEF Performance!TypeOK
  <2>5. \A q \in AppraisalDisputes :
           appraisalDispute'[q] = IF q = d THEN doc ELSE appraisalDispute[q]
    BY <1>t, <2>1 DEF Performance!TypeOK
  <2>6. Performance!AdjustedIsResolved'
    BY <1>t, <2>1, <2>3, <2>5 DEF Performance!AdjustedIsResolved, Performance!ADJUSTED
  <2> QED  BY <2>1, <2>3, <2>4, <2>5, <2>6, AppraisalWrites
<1>2. ASSUME NEW d \in AppraisalDisputes, NEW a \in Raters, Performance!resolveDispute(t, d, a)
      PROVE  AppraisalInv'
  <2> DEFINE doc == [appraisalDispute[d] EXCEPT !.status = Performance!ADJUSTED, !.resolvedBy = a]
             h == [pc |-> "saveDispute", ref |-> d, read |-> appraisalDispute[d], doc |-> doc]
  <2>1. Performance!Raised(d) /\ UNCHANGED PerformanceFiles /\ Performance!Continue(t, h)
    BY <1>2 DEF Performance!resolveDispute, Performance!Stored, PerformanceFiles
  <2>2. appraisalDispute[d] \in Performance!Dispute  BY <1>t, <2>1, AppraisalOnFile
  <2>3. doc \in Performance!Dispute /\ doc.resolvedBy # Nothing
    BY <2>2, DesksAssumption DEF Performance!Dispute
  <2> HIDE DEF doc
  <2>4. h \in AppraisalCalls  BY <2>2, <2>3 DEF AppraisalCalls
  <2>5. Signed(h)  BY <2>3 DEF Signed
  <2> HIDE DEF h
  <2> QED  BY <2>1, <2>4, <2>5, AppraisalFrame
<1> QED  BY <1>1, <1>2 DEF Performance!CallDispute

LEMMA AppraisalStep ==
    ASSUME AppraisalInv, NEW t \in Tasks, Performance!Step(t)
    PROVE  AppraisalInv'
<1> DEFINE f == task[t]
<1>f. f \in AppraisalCalls /\ Signed(f)  BY DEF AppraisalInv
<1>t. Performance!TypeOK /\ Performance!AdjustedIsResolved  BY DEF AppraisalInv
<1>1. ASSUME Performance!saveCycle(t)  PROVE AppraisalInv'
  <2> DEFINE doc == Performance!Saved(cycle[f.ref], f.read, f.doc)
  <2>1. /\ f.ref \in Cycles /\ f.read \in Performance!Cycle /\ f.doc \in Performance!Cycle
        /\ cycle[f.ref] # Performance!NoCycle /\ Performance!Return(t)
        /\ cycle' = [cycle EXCEPT ![f.ref] = doc]
        /\ UNCHANGED <<appraisalTemplate, record, appraisalDispute>>
    BY <1>1, <1>f DEF Performance!saveCycle, AppraisalCalls, Performance!Idle, Signed
  <2>2. doc \in Performance!Cycle
    BY <1>t, <2>1, AppraisalOnFile DEF Performance!Saved, Performance!Cycle
  <2> HIDE DEF doc, f
  <2>3. Performance!TypeOK' /\ Performance!AdjustedIsResolved'
    BY <1>t, <2>1, <2>2 DEF Performance!TypeOK, Performance!AdjustedIsResolved
  <2>4. \A x \in Cycles : cycle[x] # Performance!NoCycle => cycle'[x] # Performance!NoCycle
    BY <1>t, <2>1, <2>2, AppraisalDocs DEF Performance!TypeOK
  <2> QED  BY <2>1, <2>3, <2>4, AppraisalWrites
<1>2. ASSUME Performance!saveRecord(t)  PROVE AppraisalInv'
  <2> DEFINE r == f.ref
             doc == Performance!Saved(record[r], f.read, f.doc)
  <2>1. /\ f.pc = "saveRecord" /\ r \in Records
        /\ f.read \in Performance!Record /\ f.doc \in Performance!Record
        /\ record[r] # Performance!NoRecord /\ Performance!Return(t)
        /\ record' = [record EXCEPT ![r] = doc]
        /\ UNCHANGED <<appraisalTemplate, cycle, appraisalDispute>>
    BY <1>2, <1>f DEF Performance!saveRecord, AppraisalCalls, Performance!Idle, Signed
  <2>2. record[r] \in Performance!Record  BY <1>t, <2>1, AppraisalOnFile
  <2>3. doc \in Performance!Record  BY <2>1, <2>2 DEF Performance!Saved, Performance!Record
  <2> HIDE DEF doc, f, r
  <2>4. Performance!TypeOK'  BY <1>t, <2>1, <2>3 DEF Performance!TypeOK
  <2>5. \A q \in Records : record'[q] = IF q = r THEN doc ELSE record[q]
    BY <1>t, <2>1 DEF Performance!TypeOK
  <2>6. Performance!AdjustedIsResolved'
    BY <1>t, <2>1 DEF Performance!AdjustedIsResolved
  <2>7. \A q \in Records : record[q] # Performance!NoRecord => record'[q] # Performance!NoRecord
    BY <2>3, <2>5, AppraisalDocs
  <2> QED  BY <2>1, <2>4, <2>6, <2>7, AppraisalWrites
<1>3. ASSUME Performance!saveDispute(t)  PROVE AppraisalInv'
  <2> DEFINE d == f.ref
             doc == Performance!Saved(appraisalDispute[d], f.read, f.doc)
  <2>1. /\ f.pc = "saveDispute" /\ d \in AppraisalDisputes
        /\ f.read \in Performance!Dispute /\ f.doc \in Performance!Dispute
        /\ Performance!Return(t) /\ UNCHANGED <<appraisalTemplate, cycle, record>>
        /\ appraisalDispute' = IF Performance!Raised(d)
                               THEN [appraisalDispute EXCEPT ![d] = doc] ELSE appraisalDispute
    BY <1>3, <1>f DEF Performance!saveDispute, AppraisalCalls, Performance!Idle
  <2>2. CASE ~Performance!Raised(d)
    <3>1. Performance!TypeOK' /\ Performance!AdjustedIsResolved'
      BY <1>t, <2>1, <2>2 DEF Performance!TypeOK, Performance!AdjustedIsResolved
    <3> QED  BY <2>1, <2>2, <3>1, AppraisalWrites
  <2>3. CASE Performance!Raised(d)
    <3>1. appraisalDispute[d] \in Performance!Dispute  BY <1>t, <2>1, <2>3, AppraisalOnFile
    <3>2. /\ doc \in Performance!Dispute
          /\ doc.resolvedBy = IF f.doc.resolvedBy # f.read.resolvedBy THEN f.doc.resolvedBy
                              ELSE appraisalDispute[d].resolvedBy
      BY <2>1, <3>1 DEF Performance!Saved, Performance!Dispute
    <3>3. doc.resolvedBy # Nothing  BY <1>f, <2>1, <3>2 DEF Signed
    <3> HIDE DEF doc, f, d
    <3>4. Performance!TypeOK'  BY <1>t, <2>1, <2>3, <3>2 DEF Performance!TypeOK
    <3>5. \A q \in AppraisalDisputes :
             appraisalDispute'[q] = IF q = d THEN doc ELSE appraisalDispute[q]
      BY <1>t, <2>1, <2>3 DEF Performance!TypeOK
    <3>6. Performance!AdjustedIsResolved'
      BY <1>t, <2>1, <3>3, <3>5 DEF Performance!AdjustedIsResolved
    <3> QED  BY <2>1, <3>3, <3>4, <3>5, <3>6, AppraisalWrites
  <2> QED  BY <2>2, <2>3
<1>4. ASSUME NEW d \in AppraisalDisputes, Performance!insertDispute(t, d)  PROVE AppraisalInv'
  <2>1. /\ f.doc \in Performance!Dispute /\ f.doc.status = Performance!OPEN
        /\ appraisalDispute[d] = Performance!NoDispute
        /\ Performance!Return(t) /\ UNCHANGED <<appraisalTemplate, cycle, record>>
        /\ appraisalDispute' = [appraisalDispute EXCEPT ![d] = f.doc]
    BY <1>4, <1>f DEF Performance!insertDispute, AppraisalCalls, Performance!Idle, Signed
  <2> HIDE DEF f
  <2>2. Performance!TypeOK'  BY <1>t, <2>1 DEF Performance!TypeOK
  <2>3. \A q \in AppraisalDisputes :
           appraisalDispute'[q] = IF q = d THEN f.doc ELSE appraisalDispute[q]
    BY <1>t, <2>1 DEF Performance!TypeOK
  <2>4. Performance!AdjustedIsResolved'
    BY <1>t, <2>1, <2>3 DEF Performance!AdjustedIsResolved, Performance!OPEN, Performance!ADJUSTED
  <2>5. appraisalDispute[d].resolvedBy = Nothing  BY <2>1, AppraisalDocs
  <2> QED  BY <2>1, <2>2, <2>3, <2>4, <2>5, AppraisalWrites
<1> QED  BY <1>1, <1>2, <1>3, <1>4 DEF Performance!Step

LEMMA AppraisalKept ==
    AppraisalInv /\ (Performance!Next \/ UNCHANGED <<PerformanceFiles, task>>) => AppraisalInv'
<1> SUFFICES ASSUME AppraisalInv, Performance!Next \/ UNCHANGED <<PerformanceFiles, task>>
             PROVE  AppraisalInv'
  OBVIOUS
<1>1. CASE UNCHANGED <<PerformanceFiles, task>>
  BY <1>1 DEF PerformanceFiles, AppraisalInv, Performance!TypeOK, Performance!AdjustedIsResolved,
              Signed
<1>2. CASE Performance!restart
  <2>1. /\ task' = [t \in Tasks |-> Performance!Idle]
        /\ UNCHANGED <<appraisalTemplate, cycle, record, appraisalDispute>>
    BY <1>2 DEF Performance!restart, Performance!Stored
  <2>2. task' \in [Tasks -> AppraisalCalls] /\ \A t \in Tasks : Signed(task[t])'
    BY <2>1, AppraisalIdle DEF Signed, Performance!Idle
  <2> QED  BY <2>1, <2>2 DEF AppraisalInv, Performance!TypeOK, Performance!AdjustedIsResolved
<1> QED  BY <1>1, <1>2, AppraisalCatalogue, AppraisalRecord, AppraisalDispute, AppraisalStep
         DEF Performance!Next, Performance!Call

LEMMA AppraisalStarts == Performance!Init => AppraisalInv
<1> SUFFICES ASSUME Performance!Init  PROVE AppraisalInv
  OBVIOUS
<1>1. Performance!TypeOK  BY DEF Performance!Init, Performance!TypeOK
<1>2. Performance!AdjustedIsResolved
  BY AppraisalDocs DEF Performance!Init, Performance!AdjustedIsResolved, Performance!MANAGER_SUBMITTED,
                       Performance!HR_PUBLISHED, Performance!ADJUSTED
<1> QED  BY <1>1, <1>2, AppraisalIdle DEF Performance!Init, AppraisalInv
-----------------------------------------------------------------------------
(* Signing bonuses.                                                         *)

BonusDoc == [status : Signing!BonusStatus, employeeId : Hires, dated : BOOLEAN]

SigningCalls == {Signing!Idle} \cup
    [pc : {"employee", "save"}, ref : Bonuses, read : BonusDoc, doc : BonusDoc]

\* The bonus a call holds is on file, its employee is the one that was read, a
\* date once set stays, and what is saved has passed the check.
Vetted(h) ==
    h.pc # "idle" =>
        /\ bonus[h.ref] # Signing!NoBonus
        /\ bonus[h.ref].employeeId = h.read.employeeId
        /\ h.read.dated => bonus[h.ref].dated
        /\ h.read.dated => h.doc.dated
        /\ h.doc.employeeId = h.read.employeeId
        /\ h.pc = "save" => Signing!isContractEligible(h.read.employeeId) /\ h.doc.dated

SigningInv ==
    /\ Signing!TypeOK /\ Signing!ApprovedIsListed
    /\ task \in [Tasks -> SigningCalls]
    /\ \A t \in Tasks : Vetted(task[t])

LEMMA BonusOnFile ==
    ASSUME Signing!TypeOK, NEW b \in Bonuses, bonus[b] # Signing!NoBonus
    PROVE  bonus[b] \in BonusDoc
  BY DEF Signing!TypeOK, BonusDoc

\* What is inserted is pending and takes the place of nothing.
LEMMA BonusInserted ==
    ASSUME SigningInv, NEW b \in Bonuses, NEW e \in Hires, NEW dated \in BOOLEAN,
           bonus[b] = Signing!NoBonus, task' = task,
           bonus' = [bonus EXCEPT ![b] = [status |-> Signing!PENDING, employeeId |-> e,
                                          dated |-> dated]]
    PROVE  SigningInv'
<1>1. Signing!TypeOK'  BY DEF SigningInv, Signing!TypeOK, Signing!BonusStatus
<1>2. Signing!ApprovedIsListed'
  BY DEF SigningInv, Signing!TypeOK, Signing!ApprovedIsListed, Signing!Processed, Signing!PENDING,
         Signing!APPROVED
<1>3. \A t \in Tasks : Vetted(task[t])'
  BY DEF SigningInv, Signing!TypeOK, SigningCalls, Signing!Idle, Vetted
<1> QED  BY <1>1, <1>2, <1>3 DEF SigningInv

LEMMA SigningFrame ==
    ASSUME SigningInv, bonus' = bonus, NEW t \in Tasks, NEW h \in SigningCalls, Vetted(h),
           Signing!Continue(t, h)
    PROVE  SigningInv'
<1>1. \A u \in Tasks : task'[u] = IF u = t THEN h ELSE task[u]
  BY DEF SigningInv, Signing!Continue
<1>2. task' \in [Tasks -> SigningCalls]  BY DEF SigningInv, Signing!Continue
<1>3. \A u \in Tasks : Vetted(task[u])'  BY <1>1 DEF SigningInv, Vetted
<1> QED  BY <1>2, <1>3
         DEF SigningInv, Signing!TypeOK, Signing!ApprovedIsListed, Signing!Processed

LEMMA SigningReturn ==
    ASSUME SigningInv, bonus' = bonus, NEW t \in Tasks, Signing!Return(t)
    PROVE  SigningInv'
<1>1. Signing!Idle \in SigningCalls /\ Vetted(Signing!Idle)
  BY DEF SigningCalls, Signing!Idle, Vetted
<1> QED  BY <1>1, SigningFrame DEF Signing!Return

LEMMA SigningDecides ==
    ASSUME SigningInv, bonus' = bonus, NEW t \in Tasks, NEW b \in Bonuses,
           bonus[b] # Signing!NoBonus, NEW s \in Signing!BonusStatus, NEW date \in BOOLEAN,
           Signing!Continue(t, Signing!Deciding(b, s, date))
    PROVE  SigningInv'
<1> DEFINE h == Signing!Deciding(b, s, date)
<1>1. bonus[b] \in BonusDoc  BY BonusOnFile DEF SigningInv
<1>2. [bonus[b] EXCEPT !.status = s, !.dated = @ \/ date] \in BonusDoc
  BY <1>1 DEF BonusDoc
<1>3. h \in SigningCalls  BY <1>1, <1>2 DEF Signing!Deciding, SigningCalls
<1>4. Vetted(h)  BY <1>1 DEF Signing!Deciding, Vetted, BonusDoc
<1> QED  BY <1>3, <1>4, SigningFrame

LEMMA SigningSaves ==
    ASSUME SigningInv, NEW t \in Tasks, Signing!saveBonus(t)
    PROVE  SigningInv'
<1> DEFINE h == task[t]
           saved == Saved(bonus[h.ref], h.read, h.doc)
<1>1. /\ h.pc = "save" /\ h.ref \in Bonuses /\ h.read \in BonusDoc /\ h.doc \in BonusDoc
      /\ Vetted(h)
  BY DEF Signing!saveBonus, SigningInv, SigningCalls, Signing!Idle
<1>2. bonus[h.ref] \in BonusDoc  BY <1>1, BonusOnFile DEF SigningInv, Vetted
<1>3. /\ saved \in BonusDoc
      /\ saved.employeeId = bonus[h.ref].employeeId
      /\ saved.dated /\ Signing!isContractEligible(saved.employeeId)
  BY <1>1, <1>2 DEF Saved, BonusDoc, Vetted
<1>4. bonus' = [bonus EXCEPT ![h.ref] = Signing!Saved(bonus[h.ref], h.read, h.doc)]
  BY DEF Signing!saveBonus
<1>5. Signing!Saved(bonus[h.ref], h.read, h.doc) = saved
  BY DEF Saved, Signing!Saved
<1> HIDE DEF saved
<1>6. Signing!TypeOK'
  BY <1>3, <1>4, <1>5, <1>1 DEF SigningInv, Signing!TypeOK, BonusDoc
<1>7. Signing!ApprovedIsListed'
  BY <1>3, <1>4, <1>5, <1>1
     DEF SigningInv, Signing!TypeOK, Signing!ApprovedIsListed, Signing!Processed
<1>8. task' \in [Tasks -> SigningCalls] /\ \A u \in Tasks : task'[u] \in {task[u], Signing!Idle}
  BY DEF Signing!saveBonus, Signing!Return, Signing!Continue, SigningInv, SigningCalls
<1>9. saved # Signing!NoBonus
  BY <1>3 DEF BonusDoc, Signing!NoBonus, Signing!BonusStatus, Signing!PENDING, Signing!PAID,
              Signing!APPROVED, Signing!REJECTED
<1>10. \A u \in Tasks : Vetted(task[u])'
  <2> SUFFICES ASSUME NEW u \in Tasks  PROVE Vetted(task[u])'
    OBVIOUS
  <2>1. CASE task'[u] = Signing!Idle
    BY <2>1 DEF Vetted, Signing!Idle
  <2>2. CASE task'[u] = task[u] /\ task[u].pc # "idle"
    <3>1. task[u].ref \in Bonuses /\ Vetted(task[u])
      BY <2>2 DEF SigningInv, SigningCalls, Signing!Idle
    <3>2. CASE task[u].ref = h.ref
      <4>1. bonus'[h.ref] = saved  BY <1>4, <1>5, <1>1 DEF SigningInv, Signing!TypeOK
      <4> QED  BY <2>2, <3>1, <3>2, <4>1, <1>3, <1>9 DEF Vetted
    <3>3. CASE task[u].ref # h.ref
      <4>1. bonus'[task[u].ref] = bonus[task[u].ref]
        BY <1>4, <3>1, <3>3 DEF SigningInv, Signing!TypeOK
      <4> QED  BY <2>2, <3>1, <4>1 DEF Vetted
    <3> QED  BY <3>2, <3>3
  <2> QED  BY <1>8, <2>1, <2>2 DEF Vetted
<1> QED  BY <1>6, <1>7, <1>8, <1>10 DEF SigningInv

LEMMA SigningKept ==
    SigningInv /\ (Signing!Next \/ (bonus' = bonus /\ task' = task)) => SigningInv'
<1> SUFFICES ASSUME SigningInv, Signing!Next \/ (bonus' = bonus /\ task' = task)
             PROVE  SigningInv'
  OBVIOUS
<1>0. CASE bonus' = bonus /\ task' = task
  BY <1>0 DEF SigningInv, Signing!TypeOK, Signing!ApprovedIsListed, Signing!Processed, Vetted
<1>1. CASE Signing!restart
  <2>1. task' = [t \in Tasks |-> Signing!Idle] /\ bonus' = bonus  BY <1>1 DEF Signing!restart
  <2>2. task' \in [Tasks -> SigningCalls] /\ \A t \in Tasks : Vetted(task[t])'
    BY <2>1 DEF SigningCalls, Vetted, Signing!Idle
  <2> QED  BY <2>1, <2>2
           DEF SigningInv, Signing!TypeOK, Signing!ApprovedIsListed, Signing!Processed
<1>2. ASSUME NEW b \in Bonuses, NEW e \in Hires, NEW dated \in BOOLEAN, Signing!enter(b, e, dated)
      PROVE  SigningInv'
  BY <1>2, BonusInserted DEF Signing!enter
<1>3. ASSUME NEW t \in Tasks, NEW b \in Bonuses, NEW e \in Hires, NEW flag \in BOOLEAN,
             Signing!handleNewHireEvent(t, b, e, flag)
      PROVE  SigningInv'
  BY <1>3, BonusInserted DEF Signing!handleNewHireEvent
<1>4. ASSUME NEW t \in Tasks, NEW b \in Bonuses, NEW date \in BOOLEAN,
             Signing!approveSigningBonus(t, b, date)
      PROVE  SigningInv'
  BY <1>4, SigningDecides DEF Signing!approveSigningBonus, Signing!BonusStatus
<1>5. ASSUME NEW t \in Tasks, NEW b \in Bonuses, NEW s \in Signing!BonusStatus \cup {Nothing},
             NEW date \in BOOLEAN, Signing!manuallyOverrideSigningBonus(t, b, s, date)
      PROVE  SigningInv'
  <2> DEFINE status == IF s = Nothing THEN bonus[b].status ELSE s
  <2>1. /\ bonus[b] # Signing!NoBonus /\ bonus' = bonus
        /\ Signing!Continue(t, Signing!Deciding(b, status, date))
    BY <1>5 DEF Signing!manuallyOverrideSigningBonus
  <2>2. status \in Signing!BonusStatus
    BY <2>1, BonusOnFile DEF SigningInv, BonusDoc
  <2> HIDE DEF status
  <2> QED  BY <2>1, <2>2, SigningDecides
<1>6. ASSUME NEW t \in Tasks, Signing!findEmployee(t)  PROVE SigningInv'
  <2> DEFINE h == [task[t] EXCEPT !.pc = "save"]
  <2>1. task[t] \in SigningCalls /\ task[t].pc = "employee" /\ Vetted(task[t]) /\ bonus' = bonus
    BY <1>6 DEF Signing!findEmployee, SigningInv
  <2>2. /\ h \in SigningCalls /\ h.pc = "save" /\ h.ref = task[t].ref /\ h.read = task[t].read
        /\ h.doc = task[t].doc
    BY <2>1 DEF SigningCalls, Signing!Idle
  <2> HIDE DEF h
  <2>3. CASE Signing!isContractEligible(task[t].read.employeeId) /\ task[t].doc.dated
    <3>1. Signing!Continue(t, h)  BY <1>6, <2>3 DEF Signing!findEmployee, h
    <3>2. Vetted(h)  BY <2>1, <2>2, <2>3 DEF Vetted
    <3> QED  BY <2>1, <2>2, <3>1, <3>2, SigningFrame
  <2>4. CASE ~(Signing!isContractEligible(task[t].read.employeeId) /\ task[t].doc.dated)
    <3>1. Signing!Return(t)  BY <1>6, <2>4 DEF Signing!findEmployee
    <3> QED  BY <2>1, <3>1, SigningReturn
  <2> QED  BY <2>3, <2>4
<1> QED  BY <1>0, <1>1, <1>2, <1>3, <1>4, <1>5, <1>6, SigningSaves
         DEF Signing!Next, Signing!Call, Signing!Step

LEMMA SigningStarts == Signing!Init => SigningInv
  BY DEF Signing!Init, SigningInv, Signing!TypeOK, Signing!ApprovedIsListed, Signing!NoBonus,
         Signing!APPROVED, Signing!Idle, SigningCalls, Vetted

-----------------------------------------------------------------------------
(* Requisitions and referrals.                                              *)

HiringCalls ==
    {Hiring!Idle} \cup [pc : {"insert"}, doc : Hiring!Requisition]
    \cup [pc : {"save"}, ref : Requisitions, read : Hiring!Requisition, doc : Hiring!Requisition]

HiringInv ==
    /\ Hiring!TypeOK
    /\ task \in [Tasks -> HiringCalls]
    /\ \A t \in Tasks : task[t].pc = "save" => requisition[task[t].ref] # Hiring!NoRequisition

LEMMA HiringIdle == Hiring!Idle \in HiringCalls /\ Hiring!Idle.pc = "idle"
  BY DEF HiringCalls, Hiring!Idle

LEMMA HiringDocs ==
    /\ Hiring!NoRequisition \notin Hiring!Requisition
    /\ Hiring!Bodies = Hiring!Requisition
<1>1. Hiring!NoRequisition.publishStatus = "absent"  BY DEF Hiring!NoRequisition
<1>2. \A x \in Hiring!Requisition : x.publishStatus # "absent"
  BY DEF Hiring!Requisition, Hiring!PublishStatus, Hiring!DRAFT, Hiring!PUBLISHED, Hiring!CLOSED
<1> QED  BY <1>1, <1>2 DEF Hiring!Bodies, Hiring!Requisition

LEMMA HiringFrame ==
    ASSUME HiringInv, UNCHANGED HiringFiles, NEW t \in Tasks, NEW h \in HiringCalls,
           h.pc = "save" => requisition[h.ref] # Hiring!NoRequisition, Hiring!Continue(t, h)
    PROVE  HiringInv'
<1>1. task' \in [Tasks -> HiringCalls] /\ \A u \in Tasks : task'[u] = IF u = t THEN h ELSE task[u]
  BY DEF HiringInv, Hiring!Continue
<1>2. UNCHANGED <<jobTemplate, requisition, referral>>  BY DEF HiringFiles
<1> QED  BY <1>1, <1>2 DEF HiringInv, Hiring!TypeOK

\* A write keeps the types and takes no requisition off the files.
LEMMA HiringWrites ==
    ASSUME HiringInv, NEW t \in Tasks, task' = task \/ Hiring!Return(t), Hiring!TypeOK',
           \A q \in Requisitions :
              requisition[q] # Hiring!NoRequisition => requisition'[q] # Hiring!NoRequisition
    PROVE  HiringInv'
<1>1. /\ task' \in [Tasks -> HiringCalls]
      /\ \A u \in Tasks : task'[u] \in {task[u], Hiring!Idle}
  BY HiringIdle DEF HiringInv, Hiring!Return, Hiring!Continue
<1>2. ASSUME NEW u \in Tasks, task'[u].pc = "save"
      PROVE  requisition'[task'[u].ref] # Hiring!NoRequisition
  <2>1. task'[u] = task[u]  BY <1>1, <1>2, HiringIdle
  <2>2. task[u] \in HiringCalls /\ requisition[task[u].ref] # Hiring!NoRequisition
    BY <1>2, <2>1 DEF HiringInv
  <2>3. task[u].ref \in Requisitions  BY <1>2, <2>1, <2>2 DEF HiringCalls, Hiring!Idle
  <2> QED  BY <2>1, <2>2, <2>3
<1> QED  BY <1>1, <1>2 DEF HiringInv

LEMMA HiringMoves ==
    ASSUME HiringInv, NEW t \in Tasks, Hiring!Call(t) \/ Hiring!Step(t)
    PROVE  HiringInv'
<1>t. /\ jobTemplate \in [JobTemplates -> Vacancies \cup {Nothing}]
      /\ requisition \in [Requisitions -> Hiring!Requisition \cup {Hiring!NoRequisition}]
      /\ referral \in [Candidates -> 0 .. MaxReferrals]
  BY DEF HiringInv, Hiring!TypeOK
<1>f. task[t] \in HiringCalls  BY DEF HiringInv
<1>w. ASSUME NEW q \in Requisitions, NEW doc \in Hiring!Requisition,
             requisition' = [requisition EXCEPT ![q] = doc],
             UNCHANGED <<jobTemplate, referral>>, task' = task \/ Hiring!Return(t)
      PROVE  HiringInv'
  <2>1. Hiring!TypeOK'  BY <1>t, <1>w DEF Hiring!TypeOK
  <2>2. \A r \in Requisitions :
            requisition[r] # Hiring!NoRequisition => requisition'[r] # Hiring!NoRequisition
    BY <1>t, <1>w, HiringDocs
  <2> QED  BY <1>w, <2>1, <2>2, HiringWrites
<1>p. ASSUME NEW p \in JobTemplates, NEW x \in Vacancies \cup {Nothing},
             jobTemplate' = [jobTemplate EXCEPT ![p] = x], UNCHANGED <<requisition, referral, task>>
      PROVE  HiringInv'
  <2>1. Hiring!TypeOK'  BY <1>t, <1>p DEF Hiring!TypeOK
  <2> QED  BY <1>p, <2>1, HiringWrites
<1>1. ASSUME NEW p \in JobTemplates, NEW x \in Vacancies,
             Hiring!createJobTemplate(t, p, x) \/ Hiring!updateJobTemplate(t, p, x)
      PROVE  HiringInv'
  BY <1>1, <1>p DEF Hiring!createJobTemplate, Hiring!updateJobTemplate
<1>2. ASSUME NEW p \in JobTemplates, Hiring!deleteJobTemplate(t, p)  PROVE HiringInv'
  BY <1>2, <1>p DEF Hiring!deleteJobTemplate
<1>3. ASSUME NEW doc \in Hiring!Bodies, Hiring!createJobRequisition(t, doc)  PROVE HiringInv'
  <2> DEFINE h == [pc |-> "insert", doc |-> doc]
  <2>1. h \in HiringCalls /\ h.pc = "insert"  BY HiringDocs DEF HiringCalls
  <2>2. UNCHANGED HiringFiles /\ Hiring!Continue(t, h)
    BY <1>3 DEF Hiring!createJobRequisition, Hiring!Stored, HiringFiles
  <2> HIDE DEF h
  <2> QED  BY <2>1, <2>2, HiringFrame
<1>4. ASSUME NEW q \in Requisitions, Hiring!publishJobRequisition(t, q)  PROVE HiringInv'
  <2> DEFINE h == [pc |-> "save", ref |-> q, read |-> requisition[q],
                   doc |-> [requisition[q] EXCEPT !.publishStatus = Hiring!PUBLISHED,
                                                  !.posted = TRUE]]
  <2>1. UNCHANGED HiringFiles /\ Hiring!Continue(t, h) /\ requisition[q] # Hiring!NoRequisition
    BY <1>4 DEF Hiring!publishJobRequisition, Hiring!Stored, HiringFiles, Hiring!NoRequisition,
                Hiring!DRAFT, Hiring!CLOSED
  <2>2. requisition[q] \in Hiring!Requisition  BY <1>t, <2>1
  <2>3. h \in HiringCalls /\ h.ref = q
    BY <2>2 DEF HiringCalls, Hiring!Requisition, Hiring!PublishStatus
  <2> HIDE DEF h
  <2> QED  BY <2>1, <2>3, HiringFrame
<1>5. ASSUME NEW q \in Requisitions, NEW doc \in Hiring!Bodies,
             Hiring!updateJobRequisition(t, q, doc)
      PROVE  HiringInv'
  <2>1. doc \in Hiring!Requisition  BY DEF Hiring!Bodies, Hiring!Requisition
  <2> QED  BY <1>5, <2>1, <1>w DEF Hiring!updateJobRequisition
<1>6. ASSUME NEW c \in Candidates, Hiring!createReferral(t, c)  PROVE HiringInv'
  <2>1. referral' \in [Candidates -> 0 .. MaxReferrals]
    BY <1>t, <1>6, DesksAssumption DEF Hiring!createReferral
  <2>2. UNCHANGED <<jobTemplate, requisition, task>>  BY <1>6 DEF Hiring!createReferral
  <2>3. Hiring!TypeOK'  BY <1>t, <2>1, <2>2 DEF Hiring!TypeOK
  <2> QED  BY <2>2, <2>3, HiringWrites
<1>7. ASSUME NEW q \in Requisitions, Hiring!insertRequisition(t, q)  PROVE HiringInv'
  <2>1. task[t].doc \in Hiring!Requisition
    BY <1>7, <1>f DEF Hiring!insertRequisition, HiringCalls, Hiring!Idle
  <2> QED  BY <1>7, <2>1, <1>w DEF Hiring!insertRequisition
<1>8. ASSUME Hiring!saveRequisition(t)  PROVE HiringInv'
  <2> DEFINE f == task[t]
             doc == Hiring!Saved(requisition[f.ref], f.read, f.doc)
  <2>1. /\ f.ref \in Requisitions /\ f.read \in Hiring!Requisition /\ f.doc \in Hiring!Requisition
        /\ requisition[f.ref] # Hiring!NoRequisition
    BY <1>8, <1>f DEF Hiring!saveRequisition, HiringCalls, Hiring!Idle, HiringInv
  <2>2. requisition' = [requisition EXCEPT ![f.ref] = doc] /\ Hiring!Return(t)
        /\ UNCHANGED <<jobTemplate, referral>>
    BY <1>8 DEF Hiring!saveRequisition
  <2>3. requisition[f.ref] \in Hiring!Requisition  BY <1>t, <2>1
  <2>4. doc \in Hiring!Requisition  BY <2>1, <2>3 DEF Hiring!Saved, Hiring!Requisition
  <2> HIDE DEF doc, f
  <2> QED  BY <2>1, <2>2, <2>4, <1>w
<1> QED  BY <1>1, <1>2, <1>3, <1>4, <1>5, <1>6, <1>7, <1>8 DEF Hiring!Call, Hiring!Step

LEMMA HiringKept ==
    HiringInv /\ (Hiring!Next \/ UNCHANGED <<jobTemplate, requisition, referral, task>>) => HiringInv'
<1> SUFFICES ASSUME HiringInv, Hiring!Next \/ UNCHANGED <<jobTemplate, requisition, referral, task>>
             PROVE  HiringInv'
  OBVIOUS
<1>1. CASE UNCHANGED <<jobTemplate, requisition, referral, task>>
  BY <1>1 DEF HiringInv, Hiring!TypeOK
<1>2. CASE Hiring!restart
  <2>1. task' = [t \in Tasks |-> Hiring!Idle] /\ UNCHANGED <<jobTemplate, requisition, referral>>
    BY <1>2 DEF Hiring!restart, Hiring!Stored
  <2> QED  BY <2>1, HiringIdle DEF HiringInv, Hiring!TypeOK
<1> QED  BY <1>1, <1>2, HiringMoves DEF Hiring!Next

LEMMA HiringStarts == Hiring!Init => HiringInv
  BY HiringIdle, DesksAssumption DEF Hiring!Init, HiringInv, Hiring!TypeOK

-----------------------------------------------------------------------------
(* The calendar of a year.                                                  *)

CalendarDoc ==
    [status : {"absent", "kept", "deleted"}, content : Years \cup {Nothing},
     blockedPeriods : Seq(Periods), version : Nat]

CalendarCalls ==
    {Calendar!Idle}
    \cup [pc : {"insert"}, content : Years]
    \cup [pc : {"push"}, ref : Calendars, period : Periods]
    \cup [pc : {"splice"}, ref : Calendars, version : Nat, periods : Seq(Periods)]

\* The list a removal is to write is that of the calendar less one period, as
\* long as the calendar is at the version it had: bodies that set the list
\* would change it and not the version.
Spliced(h) ==
    h.pc = "splice" =>
        /\ h.version <= calendar[h.ref].version
        /\ (h.version = calendar[h.ref].version /\ Replacements = {}) =>
             \E n \in 1 .. Len(calendar[h.ref].blockedPeriods) :
                 h.periods = Calendar!RemoveAt(calendar[h.ref].blockedPeriods, n)

CalendarInv ==
    /\ calendar \in [Calendars -> CalendarDoc]
    /\ task \in [Tasks -> CalendarCalls]
    /\ \A t \in Tasks : Spliced(task[t])

\* The list ps of a calendar becomes qs.
OneByOne(ps, qs) ==
    \/ qs = ps
    \/ \E p \in Periods : qs = Append(ps, p)
    \/ \E n \in 1 .. Len(ps) : qs = Calendar!RemoveAt(ps, n)

ListsOneByOne ==
    \A k \in Calendars : OneByOne(calendar[k].blockedPeriods, calendar'[k].blockedPeriods)

LEMMA RemovedIsList ==
    ASSUME NEW ps \in Seq(Periods), NEW n \in 1 .. Len(ps)
    PROVE  Calendar!RemoveAt(ps, n) \in Seq(Periods)
<1>1. Len(ps) \in Nat /\ \A i \in 1 .. Len(ps) : ps[i] \in Periods
  BY ElementOfSeq, LenProperties
<1>2. SubSeq(ps, 1, n - 1) \in Seq(Periods) /\ SubSeq(ps, n + 1, Len(ps)) \in Seq(Periods)
  <2>1. /\ n - 1 \in Int /\ n + 1 \in Int /\ Len(ps) \in Int /\ 1 \in Int
        /\ \A i \in 1 .. (n - 1) : ps[i] \in Periods
        /\ \A i \in (n + 1) .. Len(ps) : ps[i] \in Periods
    BY <1>1
  <2> QED  BY <2>1, SubSeqProperties
<1> QED  BY <1>2, ConcatProperties DEF Calendar!RemoveAt

LEMMA CalendarChanged ==
    ASSUME NEW d \in CalendarDoc, NEW qs \in Seq(Periods)
    PROVE  LET doc == [d EXCEPT !.blockedPeriods = qs, !.version = @ + 1]
           IN  /\ doc \in CalendarDoc
               /\ doc.version = d.version + 1 /\ doc.blockedPeriods = qs
<1>1. PICK v \in Nat : v = d.version + 1  BY DEF CalendarDoc
<1>2. LET doc == [d EXCEPT !.blockedPeriods = qs, !.version = v]
      IN  doc \in CalendarDoc /\ doc.version = v /\ doc.blockedPeriods = qs
  BY DEF CalendarDoc
<1> QED  BY <1>1, <1>2, Zenon

LEMMA CalendarIdle == Calendar!Idle \in CalendarCalls /\ Spliced(Calendar!Idle)
  BY DEF CalendarCalls, Calendar!Idle, Spliced

LEMMA CalendarFrame ==
    ASSUME CalendarInv, calendar' = calendar, NEW t \in Tasks, NEW h \in CalendarCalls,
           Spliced(h), Calendar!Continue(t, h)
    PROVE  CalendarInv' /\ ListsOneByOne
<1>1. \A u \in Tasks : task'[u] = IF u = t THEN h ELSE task[u]
  BY DEF CalendarInv, Calendar!Continue
<1>2. task' \in [Tasks -> CalendarCalls]  BY DEF CalendarInv, Calendar!Continue
<1>3. \A u \in Tasks : Spliced(task[u])'
  <2> SUFFICES ASSUME NEW u \in Tasks  PROVE Spliced(task[u])'
    OBVIOUS
  <2>1. Spliced(task[u])  BY DEF CalendarInv
  <2>2. CASE u = t  BY <1>1, <2>2 DEF Spliced
  <2>3. CASE u # t  BY <1>1, <2>1, <2>3 DEF Spliced
  <2> QED  BY <2>2, <2>3
<1> QED  BY <1>2, <1>3 DEF CalendarInv, ListsOneByOne, OneByOne

\* One calendar is written: with its list and version as they were, or with
\* another list, one by one, and the next version.
LEMMA CalendarWrites ==
    ASSUME CalendarInv, NEW t \in Tasks, task' = task \/ Calendar!Return(t),
           NEW k \in Calendars, NEW doc \in CalendarDoc,
           calendar' = [calendar EXCEPT ![k] = doc],
           \/ /\ doc.version = calendar[k].version
              /\ Replacements = {} => doc.blockedPeriods = calendar[k].blockedPeriods
           \/ /\ doc.version = calendar[k].version + 1
              /\ Replacements = {} =>
                    OneByOne(calendar[k].blockedPeriods, doc.blockedPeriods)
    PROVE  CalendarInv' /\ (Replacements = {} => ListsOneByOne)
<1>1. \A j \in Calendars : calendar'[j] = IF j = k THEN doc ELSE calendar[j]
  BY DEF CalendarInv
<1>2. calendar' \in [Calendars -> CalendarDoc]  BY DEF CalendarInv
<1>3. \A j \in Calendars : calendar[j].version \in Nat  BY DEF CalendarInv, CalendarDoc
<1>4. /\ task' \in [Tasks -> CalendarCalls]
      /\ \A u \in Tasks : task'[u] \in {task[u], Calendar!Idle}
  BY CalendarIdle DEF CalendarInv, Calendar!Return, Calendar!Continue
<1>5. \A u \in Tasks : Spliced(task[u])'
  <2> SUFFICES ASSUME NEW u \in Tasks  PROVE Spliced(task[u])'
    OBVIOUS
  <2>1. CASE task'[u] = Calendar!Idle  BY <2>1 DEF Spliced, Calendar!Idle
  <2>2. CASE task'[u] = task[u] /\ task[u].pc = "splice"
    <3> DEFINE h == task[u]
    <3>1. h \in CalendarCalls /\ Spliced(h)  BY DEF CalendarInv
    <3>2. h.ref \in Calendars /\ h.version \in Nat /\ h.pc = "splice"
      BY <2>2, <3>1 DEF CalendarCalls, Calendar!Idle
    <3> HIDE DEF h
    <3>3. /\ h.version <= calendar'[h.ref].version
          /\ (h.version = calendar'[h.ref].version /\ Replacements = {}) =>
                \E n \in 1 .. Len(calendar'[h.ref].blockedPeriods) :
                    h.periods = Calendar!RemoveAt(calendar'[h.ref].blockedPeriods, n)
      <4>1. CASE h.ref # k  BY <1>1, <3>1, <3>2, <4>1 DEF Spliced
      <4>2. CASE h.ref = k /\ doc.version = calendar[k].version
        <5>1. calendar'[k] = doc  BY <1>1
        <5>2. Replacements = {} => doc.blockedPeriods = calendar[k].blockedPeriods
          BY <1>3, <4>2
        <5> QED  BY <3>1, <3>2, <4>2, <5>1, <5>2 DEF Spliced
      <4>3. CASE h.ref = k /\ doc.version = calendar[k].version + 1
        <5>1. calendar'[k] = doc /\ h.version <= calendar[k].version
          BY <1>1, <3>1, <3>2, <4>3 DEF Spliced
        <5> QED  BY <1>3, <3>2, <4>3, <5>1
      <4> QED  BY <4>1, <4>2, <4>3
    <3>4. task'[u] = h  BY <2>2 DEF h
    <3> QED  BY <3>3, <3>4 DEF Spliced
  <2>3. CASE task'[u] = task[u] /\ task[u].pc # "splice"  BY <2>3 DEF Spliced
  <2> QED  BY <1>4, <2>1, <2>2, <2>3
<1>6. ASSUME Replacements = {}, NEW j \in Calendars
      PROVE  OneByOne(calendar[j].blockedPeriods, calendar'[j].blockedPeriods)
  BY <1>1, <1>6 DEF OneByOne
<1> QED  BY <1>2, <1>4, <1>5, <1>6 DEF CalendarInv, ListsOneByOne

LEMMA CalendarMoves ==
    ASSUME CalendarInv, NEW t \in Tasks, Calendar!Call(t) \/ Calendar!Step(t)
    PROVE  CalendarInv' /\ (Replacements = {} => ListsOneByOne)
<1>c. /\ calendar \in [Calendars -> CalendarDoc]
      /\ \A k \in Calendars :
            /\ calendar[k] \in CalendarDoc
            /\ calendar[k].version \in Nat /\ calendar[k].blockedPeriods \in Seq(Periods)
  BY DEF CalendarInv, CalendarDoc
<1>f. task[t] \in CalendarCalls /\ Spliced(task[t])  BY DEF CalendarInv
<1>1. ASSUME NEW x \in Years, Calendar!create(t, x)  PROVE CalendarInv' /\ ListsOneByOne
  <2> DEFINE h == [pc |-> "insert", content |-> x]
  <2>1. h \in CalendarCalls /\ Spliced(h)  BY DEF CalendarCalls, Spliced
  <2> QED  BY <1>1, <2>1, CalendarFrame DEF Calendar!create
<1>2. ASSUME NEW k \in Calendars, NEW x \in Years, NEW ps \in Replacements \cup {Nothing},
             Calendar!update(t, k, x, ps)
      PROVE  CalendarInv' /\ (Replacements = {} => ListsOneByOne)
  <2> DEFINE qs == IF ps = Nothing THEN calendar[k].blockedPeriods ELSE ps
             doc == [calendar[k] EXCEPT !.content = x, !.blockedPeriods = qs]
  <2>1. qs \in Seq(Periods) /\ (Replacements = {} => qs = calendar[k].blockedPeriods)
    BY <1>c, DesksAssumption
  <2>2. calendar' = [calendar EXCEPT ![k] = doc] /\ task' = task
    BY <1>2, <1>c DEF Calendar!update, CalendarDoc
  <2> HIDE DEF qs
  <2>3. doc \in CalendarDoc /\ doc.version = calendar[k].version /\ doc.blockedPeriods = qs
    BY <1>c, <2>1 DEF CalendarDoc
  <2> HIDE DEF doc
  <2> QED  BY <2>1, <2>2, <2>3, CalendarWrites
<1>3. ASSUME NEW k \in Calendars, Calendar!remove(t, k)
      PROVE  CalendarInv' /\ (Replacements = {} => ListsOneByOne)
  <2> DEFINE doc == [calendar[k] EXCEPT !.status = "deleted"]
  <2>1. calendar' = [calendar EXCEPT ![k] = doc] /\ task' = task
    BY <1>3 DEF Calendar!remove
  <2>2. /\ doc \in CalendarDoc /\ doc.version = calendar[k].version
        /\ doc.blockedPeriods = calendar[k].blockedPeriods
    BY <1>c DEF CalendarDoc
  <2> HIDE DEF doc
  <2> QED  BY <2>1, <2>2, CalendarWrites
<1>4. ASSUME NEW k \in Calendars, NEW p \in Periods, Calendar!addBlockedPeriod(t, k, p)
      PROVE  CalendarInv' /\ ListsOneByOne
  <2> DEFINE h == [pc |-> "push", ref |-> k, period |-> p]
  <2>1. h \in CalendarCalls /\ Spliced(h)  BY DEF CalendarCalls, Spliced
  <2> QED  BY <1>4, <2>1, CalendarFrame DEF Calendar!addBlockedPeriod
<1>5. ASSUME NEW k \in Calendars, NEW index \in 0 .. MaxPeriods,
             Calendar!removeBlockedPeriod(t, k, index)
      PROVE  CalendarInv' /\ ListsOneByOne
  <2> DEFINE ps == calendar[k].blockedPeriods
             qs == Calendar!RemoveAt(ps, index + 1)
             h == [pc |-> "splice", ref |-> k, version |-> calendar[k].version, periods |-> qs]
  <2>1. Calendar!Continue(t, h) /\ calendar' = calendar /\ index < Len(ps)
    BY <1>5 DEF Calendar!removeBlockedPeriod
  <2>2. index + 1 \in 1 .. Len(ps)
    <3>1. index \in Nat /\ Len(ps) \in Nat  BY <1>c, LenProperties, DesksAssumption
    <3> QED  BY <2>1, <3>1
  <2>3. qs \in Seq(Periods)  BY <1>c, <2>2, RemovedIsList
  <2>4. \E n \in 1 .. Len(ps) : qs = Calendar!RemoveAt(ps, n)  BY <2>2
  <2> HIDE DEF qs
  <2>5. h \in CalendarCalls /\ Spliced(h)  BY <1>c, <2>3, <2>4 DEF CalendarCalls, Spliced
  <2> HIDE DEF h
  <2> QED  BY <2>1, <2>5, CalendarFrame
<1>6. ASSUME NEW k \in Calendars, Calendar!insertCalendar(t, k)
      PROVE  CalendarInv' /\ (Replacements = {} => ListsOneByOne)
  <2> DEFINE doc == [Calendar!NoCalendar EXCEPT !.status = "kept", !.content = task[t].content]
  <2>1. /\ task[t].pc = "insert" /\ calendar[k] = Calendar!NoCalendar
        /\ calendar' = [calendar EXCEPT ![k] = doc] /\ Calendar!Return(t)
    BY <1>6 DEF Calendar!insertCalendar
  <2>2. task[t].content \in Years  BY <1>f, <2>1 DEF CalendarCalls, Calendar!Idle
  <2>3. /\ doc \in CalendarDoc /\ doc.version = Calendar!NoCalendar.version
        /\ doc.blockedPeriods = Calendar!NoCalendar.blockedPeriods
    BY <1>c, <2>1, <2>2 DEF CalendarDoc
  <2> HIDE DEF doc
  <2> QED  BY <2>1, <2>3, CalendarWrites
<1>7. ASSUME Calendar!pushPeriod(t)
      PROVE  CalendarInv' /\ (Replacements = {} => ListsOneByOne)
  <2> DEFINE k == task[t].ref
             p == task[t].period
             doc == [calendar[k] EXCEPT !.blockedPeriods = Append(@, p), !.version = @ + 1]
  <2>1. /\ task[t].pc = "push" /\ Calendar!Return(t)
        /\ k \in Calendars /\ p \in Periods
    BY <1>7, <1>f DEF Calendar!pushPeriod, CalendarCalls, Calendar!Idle
  <2>2. calendar' = calendar \/ calendar' = [calendar EXCEPT ![k] = doc]
    BY <1>7, <1>c, <2>1 DEF Calendar!pushPeriod, CalendarDoc
  <2>3. Append(calendar[k].blockedPeriods, p) \in Seq(Periods)
    BY <1>c, <2>1
  <2>4. /\ doc \in CalendarDoc /\ doc.version = calendar[k].version + 1
        /\ doc.blockedPeriods = Append(calendar[k].blockedPeriods, p)
    BY <1>c, <2>1, <2>3, CalendarChanged
  <2>5. OneByOne(calendar[k].blockedPeriods, doc.blockedPeriods)
    BY <2>1, <2>4 DEF OneByOne
  <2> HIDE DEF doc, k
  <2> QED  BY <2>1, <2>2, <2>4, <2>5, CalendarWrites, CalendarFrame, CalendarIdle
           DEF Calendar!Return
<1>8. ASSUME Calendar!splicePeriods(t)
      PROVE  CalendarInv' /\ (Replacements = {} => ListsOneByOne)
  <2> DEFINE k == task[t].ref
             doc == [calendar[k] EXCEPT !.blockedPeriods = task[t].periods, !.version = @ + 1]
  <2>1. /\ task[t].pc = "splice" /\ Calendar!Return(t)
        /\ k \in Calendars /\ task[t].periods \in Seq(Periods)
    BY <1>8, <1>f DEF Calendar!splicePeriods, CalendarCalls, Calendar!Idle
  <2>2. \/ calendar' = calendar
        \/ calendar' = [calendar EXCEPT ![k] = doc] /\ calendar[k].version = task[t].version
    BY <1>8, <1>c, <2>1 DEF Calendar!splicePeriods, CalendarDoc
  <2>3. /\ doc \in CalendarDoc /\ doc.version = calendar[k].version + 1
        /\ doc.blockedPeriods = task[t].periods
    BY <1>c, <2>1, CalendarChanged
  <2>4. (Replacements = {} /\ calendar[k].version = task[t].version) =>
            OneByOne(calendar[k].blockedPeriods, doc.blockedPeriods)
    BY <1>f, <2>1, <2>3 DEF OneByOne, Spliced
  <2> HIDE DEF doc, k
  <2> QED  BY <2>1, <2>2, <2>3, <2>4, CalendarWrites, CalendarFrame, CalendarIdle
           DEF Calendar!Return
<1> QED  BY <1>1, <1>2, <1>3, <1>4, <1>5, <1>6, <1>7, <1>8 DEF Calendar!Call, Calendar!Step

LEMMA CalendarKept ==
    CalendarInv /\ (Calendar!Next \/ UNCHANGED <<calendar, task>>) =>
        CalendarInv' /\ (Replacements = {} => ListsOneByOne)
<1> SUFFICES ASSUME CalendarInv, Calendar!Next \/ UNCHANGED <<calendar, task>>
             PROVE  CalendarInv' /\ (Replacements = {} => ListsOneByOne)
  OBVIOUS
<1>1. CASE UNCHANGED <<calendar, task>>
  BY <1>1 DEF CalendarInv, Spliced, ListsOneByOne, OneByOne
<1>2. CASE Calendar!restart
  <2>1. task' = [t \in Tasks |-> Calendar!Idle] /\ calendar' = calendar
    BY <1>2 DEF Calendar!restart
  <2>2. task' \in [Tasks -> CalendarCalls] /\ \A t \in Tasks : task'[t] = Calendar!Idle
    BY <2>1, CalendarIdle
  <2>3. \A t \in Tasks : Spliced(task[t])'  BY <2>2 DEF Spliced, Calendar!Idle
  <2> QED  BY <2>1, <2>2, <2>3 DEF CalendarInv, ListsOneByOne, OneByOne
<1> QED  BY <1>1, <1>2, CalendarMoves DEF Calendar!Next

LEMMA CalendarStarts == Calendar!Init => CalendarInv
<1> SUFFICES ASSUME Calendar!Init  PROVE CalendarInv
  OBVIOUS
<1>1. Calendar!NoCalendar \in CalendarDoc  BY EmptySeq DEF Calendar!NoCalendar, CalendarDoc
<1> QED  BY <1>1, CalendarIdle DEF Calendar!Init, CalendarInv

\* With one call at a time a year has one calendar: none is kept when one is to
\* be inserted.
OneYear ==
    /\ Calendar!OneCalendar
    /\ \A t \in Tasks : task[t].pc = "insert" => \A k \in Calendars : ~Calendar!Kept(k)

LEMMA OneYearKept ==
    ASSUME NEW t, Tasks = {t}, CalendarInv, OneYear,
           Calendar!Next \/ UNCHANGED <<calendar, task>>
    PROVE  OneYear'
<1>1. /\ t \in Tasks /\ calendar \in [Calendars -> CalendarDoc]
      /\ task \in [Tasks -> CalendarCalls]
  BY DEF CalendarInv
\* No calendar is made.
<1>2. ASSUME \A k \in Calendars : calendar'[k].status = "kept" => Calendar!Kept(k),
             task'[t].pc = "insert" => task[t].pc = "insert" \/ \A k \in Calendars : ~Calendar!Kept(k)
      PROVE  OneYear'
  BY <1>2 DEF OneYear, Calendar!OneCalendar, Calendar!Kept
\* One document of a calendar that is kept is written, and no insertion follows.
<1>3. ASSUME NEW k \in Calendars, Calendar!Kept(k), NEW doc,
             calendar' = [calendar EXCEPT ![k] = doc], task' = task \/ Calendar!Return(t)
      PROVE  OneYear'
  <2>1. \A j \in Calendars : calendar'[j].status = "kept" => Calendar!Kept(j)
    BY <1>1, <1>3 DEF Calendar!Kept
  <2>2. task'[t].pc = "insert" => task[t].pc = "insert"
    BY <1>1, <1>3 DEF Calendar!Return, Calendar!Continue, Calendar!Idle
  <2> QED  BY <1>2, <2>1, <2>2
\* Nothing is written.
<1>4. ASSUME calendar' = calendar, NEW h, Calendar!Continue(t, h),
             h.pc = "insert" => \A k \in Calendars : ~Calendar!Kept(k)
      PROVE  OneYear'
  <2>1. task'[t] = h  BY <1>1, <1>4 DEF Calendar!Continue
  <2> QED  BY <1>2, <1>4, <2>1 DEF Calendar!Kept
<1>r. (calendar' = calendar /\ Calendar!Return(t)) => OneYear'
  BY <1>4 DEF Calendar!Return, Calendar!Idle
<1>5. CASE UNCHANGED <<calendar, task>>
  BY <1>2, <1>5 DEF Calendar!Kept
<1>6. CASE Calendar!restart
  <2>1. calendar' = calendar /\ task'[t].pc = "idle"
    BY <1>1, <1>6 DEF Calendar!restart, Calendar!Idle
  <2> QED  BY <1>2, <2>1 DEF Calendar!Kept
<1>7. ASSUME NEW x \in Years, Calendar!create(t, x)  PROVE OneYear'
  BY <1>4, <1>7 DEF Calendar!create
<1>8. ASSUME NEW k \in Calendars, NEW x \in Years, NEW ps \in Replacements \cup {Nothing},
             Calendar!update(t, k, x, ps)
      PROVE  OneYear'
  <2>1. \E doc : calendar' = [calendar EXCEPT ![k] = doc]
    <3> DEFINE qs == IF ps = Nothing THEN calendar[k].blockedPeriods ELSE ps
    <3>1. calendar' = [calendar EXCEPT ![k] = [calendar[k] EXCEPT !.content = x,
                                                                 !.blockedPeriods = qs]]
      BY <1>8, <1>1 DEF Calendar!update, CalendarDoc
    <3> QED  BY <3>1
  <2> QED  BY <1>3, <1>8, <2>1 DEF Calendar!update
<1>9. ASSUME NEW k \in Calendars, Calendar!remove(t, k)  PROVE OneYear'
  <2>1. calendar' = [calendar EXCEPT ![k] = [calendar[k] EXCEPT !.status = "deleted"]]
    BY <1>9 DEF Calendar!remove
  <2> QED  BY <1>3, <1>9, <2>1 DEF Calendar!remove
<1>10. ASSUME NEW k \in Calendars, NEW p \in Periods, Calendar!addBlockedPeriod(t, k, p)
       PROVE  OneYear'
  BY <1>4, <1>10 DEF Calendar!addBlockedPeriod
<1>11. ASSUME NEW k \in Calendars, NEW index \in 0 .. MaxPeriods,
              Calendar!removeBlockedPeriod(t, k, index)
       PROVE  OneYear'
  BY <1>4, <1>11 DEF Calendar!removeBlockedPeriod
\* The one calendar there is, is the one inserted.
<1>12. ASSUME NEW k \in Calendars, Calendar!insertCalendar(t, k)  PROVE OneYear'
  <2>1. \A j \in Calendars : ~Calendar!Kept(j)
    BY <1>1, <1>12 DEF OneYear, Calendar!insertCalendar
  <2>2. \A j \in Calendars \ {k} : calendar'[j] = calendar[j]
    BY <1>1, <1>12 DEF Calendar!insertCalendar
  <2>3. task'[t].pc = "idle"
    BY <1>1, <1>12 DEF Calendar!insertCalendar, Calendar!Return, Calendar!Continue, Calendar!Idle
  <2>4. \A u \in Tasks : task'[u].pc # "insert"  BY <2>3
  <2> QED  BY <2>1, <2>2, <2>4 DEF OneYear, Calendar!OneCalendar, Calendar!Kept
<1>13. CASE Calendar!pushPeriod(t)
  <2> DEFINE k == task[t].ref
             doc == [calendar[k] EXCEPT !.blockedPeriods = Append(@, task[t].period),
                                        !.version = @ + 1]
  <2>1. task[t].pc = "push" /\ Calendar!Return(t)  BY <1>13 DEF Calendar!pushPeriod
  <2>2. k \in Calendars  BY <1>1, <2>1 DEF CalendarCalls, Calendar!Idle
  <2>3. calendar' = calendar \/ (Calendar!Kept(k) /\ calendar' = [calendar EXCEPT ![k] = doc])
    BY <1>13, <1>1, <2>2 DEF Calendar!pushPeriod, CalendarDoc
  <2> HIDE DEF doc, k
  <2> QED  BY <1>3, <1>r, <2>1, <2>2, <2>3
<1>14. CASE Calendar!splicePeriods(t)
  <2> DEFINE k == task[t].ref
             doc == [calendar[k] EXCEPT !.blockedPeriods = task[t].periods, !.version = @ + 1]
  <2>1. task[t].pc = "splice" /\ Calendar!Return(t)  BY <1>14 DEF Calendar!splicePeriods
  <2>2. k \in Calendars  BY <1>1, <2>1 DEF CalendarCalls, Calendar!Idle
  <2>3. calendar' = calendar \/ (Calendar!Kept(k) /\ calendar' = [calendar EXCEPT ![k] = doc])
    BY <1>14, <1>1, <2>2 DEF Calendar!splicePeriods, CalendarDoc
  <2> HIDE DEF doc, k
  <2> QED  BY <1>3, <1>r, <2>1, <2>2, <2>3
<1> QED
  BY <1>5, <1>6, <1>7, <1>8, <1>9, <1>10, <1>11, <1>12, <1>13, <1>14
     DEF Calendar!Next, Calendar!Call, Calendar!Step

LEMMA OneYearStarts == Calendar!Init => OneYear
  BY DEF Calendar!Init, OneYear, Calendar!OneCalendar, Calendar!Kept, Calendar!NoCalendar,
         Calendar!Idle

-----------------------------------------------------------------------------
(* Codes and leave policies.                                                *)

PolicyCalls ==
    {Policies!Idle}
    \cup [pc : {"expire"}, now : 0 .. LastTime, due : SUBSET PolicyIds,
          read : [PolicyIds -> Policies!Policy \cup {Policies!NoPolicy}]]

\* A check in progress began in the past, and what it is to take out of force
\* had expired in what it read.
Expiring(h) ==
    h.pc = "expire" => h.now <= now /\ \A p \in h.due : Policies!Expired(h.read[p], h.now)

\* Alone, a check has yet to come to every policy that had expired when it
\* began, and each is as it was read.
Outstanding(h) ==
    h.pc = "expire" =>
        /\ \A p \in PolicyIds : Policies!Expired(policy[p], h.now) => p \in h.due
        /\ \A p \in h.due : policy[p] = h.read[p]

PoliciesInv ==
    /\ now \in 0 .. LastTime
    /\ Policies!TypeOK /\ Policies!CodesDiffer
    /\ task \in [Tasks -> PolicyCalls]
    /\ \A t \in Tasks : Expiring(task[t])
    /\ \A t \in Tasks : Tasks = {t} => Outstanding(task[t])

\* What the check of t does to the policy p in a step.
ExactFor(t, p) ==
    task[t].pc = "expire" =>
        /\ (task[t].due = {} /\ ~task'[t].pc = "expire") =>
              ~Policies!Expired(policy[p], task[t].now)
        /\ (policy[p].isActive /\ ~policy'[p].isActive) =>
              LET doc == task[t].read[p]
                  base == IF doc.effectiveFrom = Nothing THEN doc.createdAt ELSE doc.effectiveFrom
              IN  /\ base + doc.expiryAfterMonths <= now
                  /\ policy'[p].effectiveTo \in base .. now

ChecksExact == \A t \in Tasks, p \in PolicyIds : Tasks = {t} => ExactFor(t, p)

LEMMA PolicyIdle ==
    /\ Policies!Idle \in PolicyCalls
    /\ Policies!Idle.pc = "idle"
    /\ Expiring(Policies!Idle) /\ Outstanding(Policies!Idle)
  BY DEF PolicyCalls, Policies!Idle, Expiring, Outstanding

LEMMA PolicyDocs ==
    /\ Policies!NoPolicy \notin Policies!Policy
    /\ Policies!NoPolicy.status = "absent"
    /\ \A x \in Policies!Policy : x.status # "absent"
<1>1. Policies!NoPolicy.status = "absent"  BY DEF Policies!NoPolicy
<1>2. \A x \in Policies!Policy : x.status # "absent"  BY DEF Policies!Policy
<1> QED  BY <1>1, <1>2

\* The date an expired policy expired at.
LEMMA ExpiryInPast ==
    ASSUME NEW doc \in Policies!Policy \cup {Policies!NoPolicy}, NEW m \in 0 .. LastTime,
           Policies!Expired(doc, m)
    PROVE  LET base == IF doc.effectiveFrom = Nothing THEN doc.createdAt ELSE doc.effectiveFrom
           IN  /\ doc \in Policies!Policy /\ doc.isActive
               /\ base \in Int /\ doc.expiryAfterMonths \in Int
               /\ Policies!ExpiryDate(doc) = base + doc.expiryAfterMonths
               /\ Policies!ExpiryDate(doc) \in base .. m
<1>1. doc \in Policies!Policy /\ doc.isActive
  BY PolicyDocs DEF Policies!Expired
<1>2. /\ doc.expiryAfterMonths \in Int /\ doc.expiryAfterMonths > 0
      /\ doc.createdAt \in Int /\ doc.effectiveFrom \in Int \cup {Nothing}
  <2>1. /\ doc.createdAt \in 0 .. LastTime /\ doc.effectiveFrom \in Dates \cup {Nothing}
        /\ doc.expiryAfterMonths \in Months \cup {Nothing}
    BY <1>1 DEF Policies!Policy
  <2>2. doc.expiryAfterMonths # Nothing /\ doc.expiryAfterMonths > 0  BY DEF Policies!Expired
  <2>3. Dates \subseteq Int /\ Months \subseteq Int /\ 0 .. LastTime \subseteq Int
    BY DesksAssumption
  <2>4. doc.createdAt \in Int  BY <2>1, <2>3
  <2>5. doc.effectiveFrom \in Int \cup {Nothing}  BY <2>1, <2>3
  <2>6. doc.expiryAfterMonths \in Int  BY <2>1, <2>2, <2>3
  <2> QED  BY <2>2, <2>4, <2>5, <2>6
<1> QED  BY <1>1, <1>2 DEF Policies!Expired, Policies!ExpiryDate

LEMMA PoliciesFrame ==
    ASSUME PoliciesInv, UNCHANGED PolicyFiles, NEW t \in Tasks, NEW h \in PolicyCalls,
           Expiring(h), Tasks = {t} => Outstanding(h), Policies!Continue(t, h),
           task[t].pc # "expire" \/ (Tasks = {t} => \A p \in PolicyIds :
                                         ~Policies!Expired(policy[p], task[t].now))
    PROVE  PoliciesInv' /\ ChecksExact
<1>1. task' \in [Tasks -> PolicyCalls] /\ \A u \in Tasks : task'[u] = IF u = t THEN h ELSE task[u]
  BY DEF PoliciesInv, Policies!Continue
<1>2. UNCHANGED <<now, code, policy>>  BY DEF PolicyFiles
<1>3. \A u \in Tasks : Expiring(task[u])'  BY <1>1, <1>2 DEF PoliciesInv, Expiring
<1>4. \A u \in Tasks : Tasks = {u} => Outstanding(task[u])'
  <2> SUFFICES ASSUME NEW u \in Tasks, Tasks = {u}  PROVE Outstanding(task[u])'
    OBVIOUS
  <2>1. u = t /\ task'[u] = h /\ Outstanding(h)  BY <1>1
  <2> QED  BY <1>2, <2>1 DEF Outstanding
<1>5. ChecksExact
  BY <1>2 DEF ChecksExact, ExactFor
<1> QED  BY <1>1, <1>2, <1>3, <1>4, <1>5
         DEF PoliciesInv, Policies!TypeOK, Policies!CodesDiffer, Policies!Taken

\* A write that is no step of a check.
LEMMA PoliciesWritten ==
    ASSUME PoliciesInv, task' = task, now' = now, Policies!TypeOK', Policies!CodesDiffer',
           policy' = policy \/ \E t \in Tasks : task[t].pc = "idle"
    PROVE  PoliciesInv' /\ ChecksExact
<1>1. \A u \in Tasks : Expiring(task[u])'  BY DEF PoliciesInv, Expiring
<1>2. CASE policy' = policy
  <2>1. \A u \in Tasks : Tasks = {u} => Outstanding(task[u])'
    BY <1>2 DEF PoliciesInv, Outstanding
  <2>2. ChecksExact  BY <1>2 DEF ChecksExact, ExactFor
  <2> QED  BY <1>1, <2>1, <2>2 DEF PoliciesInv
<1>3. CASE \E t \in Tasks : task[t].pc = "idle"
  <2>1. \A u \in Tasks : Tasks = {u} => task[u].pc = "idle"  BY <1>3
  <2>2. \A u \in Tasks : Tasks = {u} => Outstanding(task[u])'  BY <2>1 DEF Outstanding
  <2>3. ChecksExact  BY <2>1 DEF ChecksExact, ExactFor
  <2> QED  BY <1>1, <2>2, <2>3 DEF PoliciesInv
<1> QED  BY <1>2, <1>3

LEMMA PolicyWritten ==
    ASSUME PoliciesInv, NEW t \in Tasks, Policies!Ready(t), NEW p \in PolicyIds,
           NEW doc \in Policies!Policy, policy' = [policy EXCEPT ![p] = doc],
           UNCHANGED <<now, code, task>>
    PROVE  PoliciesInv' /\ ChecksExact
<1>1. Policies!TypeOK'  BY DEF PoliciesInv, Policies!TypeOK
<1>2. Policies!CodesDiffer'  BY DEF PoliciesInv, Policies!CodesDiffer, Policies!Taken
<1>3. task[t].pc = "idle"  BY DEF Policies!Ready
<1> QED  BY <1>1, <1>2, <1>3, PoliciesWritten

LEMMA PoliciesCall ==
    ASSUME PoliciesInv, NEW t \in Tasks, Policies!Call(t)
    PROVE  PoliciesInv' /\ ChecksExact
<1>t. /\ code \in [LeaveTypes -> Codes \cup {Nothing}]
      /\ policy \in [PolicyIds -> Policies!Policy \cup {Policies!NoPolicy}]
      /\ now \in 0 .. LastTime
  BY DEF PoliciesInv, Policies!TypeOK
<1>1. ASSUME NEW y \in LeaveTypes, NEW c \in Codes \cup {Nothing},
             c = Nothing \/ ~Policies!Taken(y, c), code' = [code EXCEPT ![y] = c],
             UNCHANGED <<now, policy, task>>
      PROVE  PoliciesInv' /\ ChecksExact
  <2>1. Policies!TypeOK'  BY <1>t, <1>1 DEF Policies!TypeOK
  <2>2. \A z \in LeaveTypes : code'[z] = IF z = y THEN c ELSE code[z]  BY <1>t, <1>1
  <2>3. Policies!CodesDiffer'
    BY <1>1, <2>2 DEF PoliciesInv, Policies!CodesDiffer, Policies!Taken
  <2> QED  BY <1>1, <2>1, <2>3, PoliciesWritten
<1>2. ASSUME NEW y \in LeaveTypes, Policies!removeType(t, y)  PROVE PoliciesInv' /\ ChecksExact
  BY <1>1, <1>2 DEF Policies!removeType
<1>3. ASSUME NEW y \in LeaveTypes, NEW c \in Codes, Policies!setCode(t, y, c)
      PROVE  PoliciesInv' /\ ChecksExact
  BY <1>1, <1>3 DEF Policies!setCode
<1>4. ASSUME NEW p \in PolicyIds, NEW from \in Dates \cup {Nothing}, NEW to \in Dates \cup {Nothing},
             NEW m \in Months \cup {Nothing}, Policies!createPolicy(t, p, from, to, m)
      PROVE  PoliciesInv' /\ ChecksExact
  <2> DEFINE doc == [status |-> "kept", isActive |-> TRUE, createdAt |-> now,
                     effectiveFrom |-> from, effectiveTo |-> to, expiryAfterMonths |-> m]
  <2>1. doc \in Policies!Policy  BY <1>t, DesksAssumption DEF Policies!Policy
  <2> HIDE DEF doc
  <2>2. Policies!Ready(t) /\ policy' = [policy EXCEPT ![p] = doc] /\ UNCHANGED <<now, code, task>>
    BY <1>4 DEF Policies!createPolicy, doc
  <2> QED  BY <2>1, <2>2, PolicyWritten
<1>5. ASSUME NEW p \in PolicyIds, NEW from \in Dates \cup {Nothing}, NEW to \in Dates \cup {Nothing},
             Policies!updatePolicy(t, p, from, to)
      PROVE  PoliciesInv' /\ ChecksExact
  <2> DEFINE d == policy[p]
             f1 == IF from = Nothing THEN d.effectiveFrom ELSE from
             t1 == IF to = Nothing THEN d.effectiveTo ELSE to
             doc == [d EXCEPT !.effectiveFrom = f1, !.effectiveTo = t1]
  <2>1. d \in Policies!Policy
    BY <1>t, <1>5, PolicyDocs DEF Policies!updatePolicy, Policies!Kept
  <2>2. /\ policy' = [policy EXCEPT ![p] = doc]
        /\ Policies!Ready(t) /\ UNCHANGED <<now, code, task>>
    BY <1>t, <1>5, <2>1 DEF Policies!updatePolicy, Policies!Policy
  <2>3. f1 \in Dates \cup {Nothing} /\ t1 \in Int \cup {Nothing}
    BY <2>1, DesksAssumption DEF Policies!Policy
  <2> HIDE DEF f1, t1, d
  <2>4. doc \in Policies!Policy  BY <2>1, <2>3 DEF Policies!Policy
  <2> HIDE DEF doc
  <2> QED  BY <2>2, <2>4, PolicyWritten
<1>6. ASSUME NEW p \in PolicyIds, Policies!removePolicy(t, p)  PROVE PoliciesInv' /\ ChecksExact
  <2> DEFINE doc == [policy[p] EXCEPT !.status = "deleted"]
  <2>1. policy[p] \in Policies!Policy
    BY <1>t, <1>6, PolicyDocs DEF Policies!removePolicy, Policies!Kept
  <2>2. doc \in Policies!Policy  BY <2>1 DEF Policies!Policy
  <2>3. /\ policy' = [policy EXCEPT ![p] = doc]
        /\ Policies!Ready(t) /\ UNCHANGED <<now, code, task>>
    BY <1>6 DEF Policies!removePolicy
  <2> HIDE DEF doc
  <2> QED  BY <2>2, <2>3, PolicyWritten
<1>7. ASSUME Policies!checkExpiryRules(t)  PROVE PoliciesInv' /\ ChecksExact
  <2> DEFINE due == {p \in PolicyIds : Policies!Expired(policy[p], now)}
             h == [pc |-> "expire", now |-> now, due |-> due, read |-> policy]
  <2>1. Policies!Continue(t, h) /\ UNCHANGED PolicyFiles /\ task[t].pc # "expire"
    BY <1>7 DEF Policies!checkExpiryRules, Policies!Ready, PolicyFiles
  <2>2. h \in PolicyCalls  BY <1>t DEF PolicyCalls
  <2>3. Expiring(h) /\ Outstanding(h)  BY <1>t DEF Expiring, Outstanding
  <2> HIDE DEF h
  <2> QED  BY <2>1, <2>2, <2>3, PoliciesFrame
<1> QED  BY <1>2, <1>3, <1>4, <1>5, <1>6, <1>7 DEF Policies!Call

LEMMA PoliciesExpire ==
    ASSUME PoliciesInv, NEW t \in Tasks, NEW p \in PolicyIds, Policies!expirePolicy(t, p)
    PROVE  PoliciesInv' /\ ChecksExact
<1> DEFINE h == task[t]
<1>t. /\ code \in [LeaveTypes -> Codes \cup {Nothing}]
      /\ policy \in [PolicyIds -> Policies!Policy \cup {Policies!NoPolicy}]
      /\ now \in 0 .. LastTime
  BY DEF PoliciesInv, Policies!TypeOK
<1>1. /\ h.pc = "expire" /\ p \in h.due /\ h \in PolicyCalls /\ Expiring(h)
      /\ Tasks = {t} => Outstanding(h)
  BY DEF Policies!expirePolicy, PoliciesInv
<1>2. /\ h.now \in 0 .. LastTime /\ h.now <= now /\ h.due \in SUBSET PolicyIds
      /\ h.read \in [PolicyIds -> Policies!Policy \cup {Policies!NoPolicy}]
  BY <1>1 DEF PolicyCalls, Policies!Idle, Expiring
<1>3. CASE ~Policies!Kept(p)
  <2>1. UNCHANGED <<now, code, policy>> /\ Policies!Return(t)
    BY <1>3 DEF Policies!expirePolicy
  <2>2. /\ task' \in [Tasks -> PolicyCalls]
        /\ \A u \in Tasks : task'[u] = IF u = t THEN Policies!Idle ELSE task[u]
    BY <2>1, PolicyIdle DEF PoliciesInv, Policies!Return, Policies!Continue
  <2>3. \A u \in Tasks : Expiring(task[u])'
    BY <2>1, <2>2, PolicyIdle DEF PoliciesInv, Expiring
  <2>4. \A u \in Tasks : Tasks = {u} => Outstanding(task[u])'
    BY <2>1, <2>2, PolicyIdle DEF Outstanding
  <2>5. ChecksExact
    <3> SUFFICES ASSUME NEW u \in Tasks, NEW q \in PolicyIds, Tasks = {u}  PROVE ExactFor(u, q)
      BY DEF ChecksExact
    <3>1. u = t  OBVIOUS
    <3>2. task[u].due # {}  BY <1>1, <3>1
    <3> QED  BY <2>1, <3>2 DEF ExactFor
  <2> QED  BY <2>1, <2>2, <2>3, <2>4, <2>5
           DEF PoliciesInv, Policies!TypeOK, Policies!CodesDiffer, Policies!Taken
<1>4. CASE Policies!Kept(p)
  <2> DEFINE r == h.read[p]
             date == Policies!ExpiryDate(r)
             due == h.due \ {p}
             new == [r EXCEPT !.isActive = FALSE, !.effectiveTo = date]
             doc == Policies!Saved(policy[p], r, new)
             g == [h EXCEPT !.due = due]
  <2>1. /\ policy' = [policy EXCEPT ![p] = doc] /\ UNCHANGED <<now, code>>
        /\ Policies!Continue(t, g)
    BY <1>4 DEF Policies!expirePolicy
  <2>2. r \in Policies!Policy \cup {Policies!NoPolicy} /\ Policies!Expired(r, h.now)
    BY <1>1, <1>2 DEF Expiring
  <2>3. /\ r \in Policies!Policy /\ r.isActive /\ date \in Int
        /\ LET base == IF r.effectiveFrom = Nothing THEN r.createdAt ELSE r.effectiveFrom
           IN  /\ base \in Int /\ r.expiryAfterMonths \in Int
               /\ date = base + r.expiryAfterMonths /\ date \in base .. h.now
    BY <1>2, <2>2, ExpiryInPast
  <2>4. policy[p] \in Policies!Policy  BY <1>t, <1>4, PolicyDocs DEF Policies!Kept
  <2> HIDE DEF date, r
  <2>5. new \in Policies!Policy /\ ~new.isActive /\ new.effectiveTo = date
    BY <2>3 DEF Policies!Policy
  <2> HIDE DEF new
  <2>6. /\ doc \in Policies!Policy /\ ~doc.isActive
        /\ doc.effectiveTo = IF date = r.effectiveTo THEN policy[p].effectiveTo ELSE date
    BY <2>3, <2>4, <2>5 DEF Policies!Saved, Policies!Policy
  <2> HIDE DEF doc
  <2>7. /\ g \in PolicyCalls /\ g.pc = "expire" /\ g.now = h.now /\ g.due = due /\ g.read = h.read
    <3>1. h \in [pc : {"expire"}, now : 0 .. LastTime, due : SUBSET PolicyIds,
                 read : [PolicyIds -> Policies!Policy \cup {Policies!NoPolicy}]]
      BY <1>1 DEF PolicyCalls, Policies!Idle
    <3>2. due \in SUBSET PolicyIds  BY <1>2
    <3> HIDE DEF due, h
    <3> QED  BY <3>1, <3>2 DEF PolicyCalls
  <2> HIDE DEF g
  <2>8. \A u \in Tasks : task'[u] = IF u = t THEN g ELSE task[u]
    BY <2>1 DEF PoliciesInv, Policies!Continue
  <2>9. task' \in [Tasks -> PolicyCalls]
    BY <2>1, <2>7 DEF PoliciesInv, Policies!Continue
  <2>10. \A q \in PolicyIds : policy'[q] = IF q = p THEN doc ELSE policy[q]
    BY <1>t, <2>1
  <2>11. \A u \in Tasks : Expiring(task[u])'
    <3>1. Expiring(g)  BY <1>1, <1>2, <2>7 DEF Expiring
    <3> QED  BY <2>1, <2>8, <3>1 DEF PoliciesInv, Expiring
  <2>12. \A u \in Tasks : Tasks = {u} => Outstanding(task[u])'
    <3> SUFFICES ASSUME NEW u \in Tasks, Tasks = {u}  PROVE Outstanding(task[u])'
      OBVIOUS
    <3>1. u = t /\ task'[u] = g /\ Outstanding(h)  BY <1>1, <2>8
    <3>2. ASSUME NEW q \in PolicyIds, Policies!Expired(policy'[q], h.now)  PROVE q \in due
      <4>1. q # p  BY <2>6, <2>10, <3>2 DEF Policies!Expired
      <4>2. Policies!Expired(policy[q], h.now)  BY <2>10, <3>2, <4>1
      <4> QED  BY <1>1, <3>1, <4>1, <4>2 DEF Outstanding
    <3>3. ASSUME NEW q \in due  PROVE policy'[q] = h.read[q]
      BY <1>1, <1>2, <2>10, <3>1, <3>3 DEF Outstanding
    <3> QED  BY <2>7, <3>1, <3>2, <3>3 DEF Outstanding
  <2>13. ChecksExact
    <3> SUFFICES ASSUME NEW u \in Tasks, NEW q \in PolicyIds, Tasks = {u}  PROVE ExactFor(u, q)
      BY DEF ChecksExact
    <3>1. u = t /\ task[u].due # {} /\ Outstanding(h)  BY <1>1
    <3>2. ASSUME policy[q].isActive, ~policy'[q].isActive
          PROVE  q = p
      BY <2>10, <3>2
    <3>3. policy[p] = r  BY <1>1, <3>1 DEF Outstanding, r
    <3>4. policy'[p].effectiveTo = date  BY <2>6, <2>10, <3>3
    <3>5. LET base == IF r.effectiveFrom = Nothing THEN r.createdAt ELSE r.effectiveFrom
          IN  /\ base + r.expiryAfterMonths <= now
              /\ policy'[p].effectiveTo \in base .. now
      BY <1>t, <1>2, <2>3, <3>4
    <3> QED  BY <3>1, <3>2, <3>5 DEF ExactFor, r
  <2>14. Policies!TypeOK' /\ Policies!CodesDiffer' /\ now' \in 0 .. LastTime
    BY <1>t, <2>1, <2>6
       DEF PoliciesInv, Policies!TypeOK, Policies!CodesDiffer, Policies!Taken
  <2> QED  BY <2>9, <2>11, <2>12, <2>13, <2>14 DEF PoliciesInv
<1> QED  BY <1>3, <1>4

LEMMA PoliciesKept ==
    PoliciesInv /\ (Policies!Next \/ UNCHANGED <<now, code, policy, task>>) =>
        PoliciesInv' /\ ChecksExact
<1> SUFFICES ASSUME PoliciesInv, Policies!Next \/ UNCHANGED <<now, code, policy, task>>
             PROVE  PoliciesInv' /\ ChecksExact
  OBVIOUS
<1>1. CASE UNCHANGED <<now, code, policy, task>>
  BY <1>1, PoliciesWritten
     DEF PoliciesInv, Policies!TypeOK, Policies!CodesDiffer, Policies!Taken
<1>2. CASE Policies!timePasses
  <2>1. /\ now' \in 0 .. LastTime /\ now < now' /\ UNCHANGED <<code, policy, task>>
    BY <1>2, DesksAssumption DEF Policies!timePasses, PoliciesInv
  <2>2. ASSUME NEW u \in Tasks  PROVE Expiring(task[u])'
    <3>1. task[u] \in PolicyCalls /\ Expiring(task[u])  BY DEF PoliciesInv
    <3>2. task[u].pc = "expire" => task[u].now \in 0 .. LastTime
      BY <3>1 DEF PolicyCalls, Policies!Idle
    <3>3. now \in 0 .. LastTime  BY DEF PoliciesInv
    <3> QED  BY <2>1, <3>1, <3>2, <3>3 DEF Expiring
  <2>3. \A u \in Tasks : Tasks = {u} => Outstanding(task[u])'
    BY <2>1 DEF PoliciesInv, Outstanding
  <2>4. ChecksExact  BY <2>1 DEF ChecksExact, ExactFor
  <2> QED  BY <2>1, <2>2, <2>3, <2>4
           DEF PoliciesInv, Policies!TypeOK, Policies!CodesDiffer, Policies!Taken
<1>3. CASE Policies!restart
  <2>1. task' = [t \in Tasks |-> Policies!Idle] /\ UNCHANGED <<now, code, policy>>
    BY <1>3 DEF Policies!restart
  <2>2. task' \in [Tasks -> PolicyCalls] /\ \A u \in Tasks : task'[u] = Policies!Idle
    BY <2>1, PolicyIdle
  <2>3. /\ \A u \in Tasks : Expiring(task[u])'
        /\ \A u \in Tasks : Outstanding(task[u])'
    BY <2>2, PolicyIdle DEF Expiring, Outstanding
  <2>4. ChecksExact
    <3> SUFFICES ASSUME NEW u \in Tasks, NEW q \in PolicyIds, Tasks = {u}  PROVE ExactFor(u, q)
      BY DEF ChecksExact
    <3>1. Outstanding(task[u])  BY DEF PoliciesInv
    <3> QED  BY <2>1, <3>1 DEF ExactFor, Outstanding
  <2> QED  BY <2>1, <2>2, <2>3, <2>4
           DEF PoliciesInv, Policies!TypeOK, Policies!CodesDiffer, Policies!Taken
<1>4. ASSUME NEW t \in Tasks, Policies!endCheck(t)  PROVE PoliciesInv' /\ ChecksExact
  <2>1. UNCHANGED PolicyFiles /\ Policies!Continue(t, Policies!Idle)
        /\ task[t].pc = "expire" /\ task[t].due = {}
    BY <1>4 DEF Policies!endCheck, Policies!Return, PolicyFiles
  <2>2. Tasks = {t} => \A p \in PolicyIds : ~Policies!Expired(policy[p], task[t].now)
    BY <2>1 DEF PoliciesInv, Outstanding
  <2> QED  BY <2>1, <2>2, PolicyIdle, PoliciesFrame
<1> QED  BY <1>1, <1>2, <1>3, <1>4, PoliciesCall, PoliciesExpire DEF Policies!Next, Policies!Step

LEMMA PoliciesStart == Policies!Init => PoliciesInv
<1> SUFFICES ASSUME Policies!Init  PROVE PoliciesInv
  OBVIOUS
<1>1. /\ now = 0 /\ code = [y \in LeaveTypes |-> Nothing]
      /\ policy = [p \in PolicyIds |-> Policies!NoPolicy]
      /\ task = [t \in Tasks |-> Policies!Idle]
  BY DEF Policies!Init
<1>2. Policies!TypeOK /\ Policies!CodesDiffer /\ now \in 0 .. LastTime
  BY <1>1, DesksAssumption DEF Policies!TypeOK, Policies!CodesDiffer
<1> QED  BY <1>1, <1>2, PolicyIdle DEF PoliciesInv

-----------------------------------------------------------------------------
(* Payroll synchronisation.                                                 *)

LogDoc == [status : {"absent", Sync!IN_PROGRESS, Sync!COMPLETED, Sync!FAILED},
           synced : BOOLEAN, retryCount : 0 .. MaxRetries]

SyncCalls ==
    {Sync!Idle} \cup [pc : {"send"}, ref : Logs, doc : LogDoc]
    \cup [pc : {"restart", "fail"}, ref : Logs, read : LogDoc, doc : LogDoc]

\* No call forgets a date that it has read, and no retry or failure completes.
DatesKept(h) ==
    /\ h.pc = "send" => (h.doc.synced => log[h.ref].synced)
    /\ h.pc \in {"restart", "fail"} =>
          /\ h.read.synced => log[h.ref].synced
          /\ h.read.synced => h.doc.synced
          /\ h.doc.status # Sync!COMPLETED
    /\ h.pc = "restart" => h.doc.synced = h.read.synced

SyncInv ==
    /\ log \in [Logs -> LogDoc]
    /\ Sync!CompletedIsDated
    /\ task \in [Tasks -> SyncCalls]
    /\ \A t \in Tasks : DatesKept(task[t])

LEMMA LogSaved ==
    ASSUME NEW d \in LogDoc, NEW read \in LogDoc, NEW doc \in LogDoc
    PROVE  /\ Sync!Saved(d, read, doc) \in LogDoc
           /\ Sync!Saved(d, read, doc).status =
                 IF doc.status # read.status THEN doc.status ELSE d.status
           /\ Sync!Saved(d, read, doc).synced =
                 IF doc.synced # read.synced THEN doc.synced ELSE d.synced
  BY DEF Sync!Saved, LogDoc

\* A step of the call t on the log s that loses no date.
LEMMA SyncWrites ==
    ASSUME SyncInv, NEW t \in Tasks, NEW h \in SyncCalls, Sync!Continue(t, h),
           NEW s \in Logs, NEW d \in LogDoc, log' = [log EXCEPT ![s] = d],
           d.status = Sync!COMPLETED => d.synced, log[s].synced => d.synced,
           h.pc # "idle" => h.ref = s,
           h.pc = "send" => (h.doc.synced => d.synced),
           h.pc \in {"restart", "fail"} =>
               /\ h.read.synced => d.synced
               /\ h.read.synced => h.doc.synced
               /\ h.doc.status # Sync!COMPLETED,
           h.pc = "restart" => h.doc.synced = h.read.synced
    PROVE  SyncInv'
<1>1. log' \in [Logs -> LogDoc] /\ log'[s] = d /\ \A q \in Logs : log[q].synced => log'[q].synced
  BY DEF SyncInv
<1>2. Sync!CompletedIsDated'  BY <1>1 DEF SyncInv, Sync!CompletedIsDated
<1>3. task' \in [Tasks -> SyncCalls] /\ \A u \in Tasks : task'[u] = IF u = t THEN h ELSE task[u]
  BY DEF SyncInv, Sync!Continue
<1>4. \A u \in Tasks : DatesKept(task[u])'
  <2> SUFFICES ASSUME NEW u \in Tasks  PROVE DatesKept(task[u])'
    OBVIOUS
  <2>1. CASE u = t
    BY <2>1, <1>1, <1>3 DEF DatesKept, SyncCalls
  <2>2. CASE u # t
    <3>1. task'[u] = task[u] /\ task[u] \in SyncCalls /\ DatesKept(task[u])
      BY <2>2, <1>3 DEF SyncInv
    <3>2. task[u].pc \in {"send", "restart", "fail"} => task[u].ref \in Logs
      BY <3>1 DEF SyncCalls, Sync!Idle
    <3> QED  BY <3>1, <3>2, <1>1 DEF DatesKept
  <2> QED  BY <2>1, <2>2
<1> QED  BY <1>1, <1>2, <1>3, <1>4 DEF SyncInv

LEMMA SyncFrame ==
    ASSUME SyncInv, log' = log, NEW t \in Tasks, NEW h \in SyncCalls, Sync!Continue(t, h),
           DatesKept(h)
    PROVE  SyncInv'
<1>1. \A u \in Tasks : task'[u] = IF u = t THEN h ELSE task[u]
  BY DEF SyncInv, Sync!Continue
<1>2. \A u \in Tasks : DatesKept(task[u])'  BY <1>1 DEF SyncInv, DatesKept
<1> QED  BY <1>2 DEF SyncInv, Sync!CompletedIsDated, Sync!Continue

LEMMA SyncIdle == Sync!Idle \in SyncCalls /\ Sync!Idle.pc = "idle"
  BY DEF SyncCalls, Sync!Idle

LEMMA SyncKept ==
    SyncInv /\ (Sync!Next \/ (log' = log /\ task' = task)) => SyncInv'
<1> SUFFICES ASSUME SyncInv, Sync!Next \/ (log' = log /\ task' = task)
             PROVE  SyncInv'
  OBVIOUS
<1>0. CASE log' = log /\ task' = task
  BY <1>0 DEF SyncInv, Sync!CompletedIsDated, DatesKept
<1>1. CASE Sync!restart
  <2>1. task' = [t \in Tasks |-> Sync!Idle] /\ log' = log  BY <1>1 DEF Sync!restart
  <2>2. task' \in [Tasks -> SyncCalls] /\ \A t \in Tasks : DatesKept(task[t])'
    BY <2>1, SyncIdle DEF DatesKept
  <2> QED  BY <2>1, <2>2 DEF SyncInv, Sync!CompletedIsDated
<1>2. ASSUME NEW t \in Tasks, NEW s \in Logs, Sync!syncPayroll(t, s)  PROVE SyncInv'
  <2> DEFINE d == [Sync!NoLog EXCEPT !.status = Sync!IN_PROGRESS]
             h == Sync!Sending(s, d)
  <2>1. log[s] = Sync!NoLog /\ log' = [log EXCEPT ![s] = d] /\ Sync!Continue(t, h)
    BY <1>2 DEF Sync!syncPayroll
  <2>2. d \in LogDoc /\ d.status # Sync!COMPLETED /\ d.synced = FALSE
    <3>1. 0 \in 0 .. MaxRetries  BY DesksAssumption
    <3>2. Sync!NoLog \in LogDoc /\ Sync!NoLog.synced = FALSE
      BY <3>1 DEF Sync!NoLog, LogDoc
    <3> QED  BY <3>2, Zenon DEF LogDoc, Sync!IN_PROGRESS, Sync!COMPLETED
  <2>3. log[s].synced = FALSE  BY <2>1 DEF Sync!NoLog
  <2> HIDE DEF d
  <2>4. h \in SyncCalls /\ h.pc = "send" /\ h.ref = s /\ h.doc = d
    BY <2>2 DEF Sync!Sending, SyncCalls
  <2> HIDE DEF h
  <2> QED  BY <2>1, <2>2, <2>3, <2>4, SyncWrites
<1>3. ASSUME NEW t \in Tasks, NEW s \in Logs, Sync!retryPayrollSync(t, s)  PROVE SyncInv'
  <2> DEFINE d == [log[s] EXCEPT !.status = Sync!IN_PROGRESS, !.retryCount = @ + 1]
             h == [pc |-> "restart", ref |-> s, read |-> log[s], doc |-> d]
  <2>1. log' = log /\ log[s].retryCount < MaxRetries /\ Sync!Continue(t, h)
    BY <1>3 DEF Sync!retryPayrollSync
  <2>2. log[s] \in LogDoc  BY DEF SyncInv
  <2>3. d \in LogDoc /\ d.status # Sync!COMPLETED /\ d.synced = log[s].synced
    <3>1. log[s].retryCount + 1 \in 0 .. MaxRetries
      BY <2>1, <2>2, DesksAssumption DEF LogDoc
    <3> QED  BY <2>2, <3>1, Zenon DEF LogDoc, Sync!IN_PROGRESS, Sync!COMPLETED
  <2> HIDE DEF d
  <2>4. h \in SyncCalls /\ DatesKept(h)  BY <2>2, <2>3 DEF SyncCalls, DatesKept
  <2> HIDE DEF h
  <2> QED  BY <2>1, <2>4, SyncFrame
<1>4. ASSUME NEW t \in Tasks, Sync!saveRetry(t)  PROVE SyncInv'
  <2> DEFINE f == task[t]
             d == Sync!Saved(log[f.ref], f.read, f.doc)
             h == Sync!Sending(f.ref, f.doc)
  <2>1. /\ f.pc = "restart" /\ f.ref \in Logs /\ f.read \in LogDoc /\ f.doc \in LogDoc
        /\ DatesKept(f) /\ log[f.ref] \in LogDoc
    BY <1>4 DEF Sync!saveRetry, SyncInv, SyncCalls, Sync!Idle
  <2>2. log' = [log EXCEPT ![f.ref] = d] /\ Sync!Continue(t, h)
    BY <1>4 DEF Sync!saveRetry
  <2>3. /\ d \in LogDoc /\ d.synced = log[f.ref].synced
        /\ d.status = Sync!COMPLETED => log[f.ref].status = Sync!COMPLETED
    BY <2>1, LogSaved DEF DatesKept
  <2>4. log[f.ref].status = Sync!COMPLETED => log[f.ref].synced
    BY <2>1 DEF SyncInv, Sync!CompletedIsDated
  <2> HIDE DEF d
  <2>5. h \in SyncCalls /\ h.pc = "send" /\ h.ref = f.ref /\ h.doc = f.doc
    BY <2>1 DEF Sync!Sending, SyncCalls
  <2>6. h.doc.synced => d.synced  BY <2>1, <2>3, <2>5 DEF DatesKept
  <2> HIDE DEF h, f
  <2> QED  BY <2>1, <2>2, <2>3, <2>4, <2>5, <2>6, SyncWrites
<1>5. ASSUME NEW t \in Tasks, Sync!complete(t)  PROVE SyncInv'
  <2> DEFINE f == task[t]
             d == Sync!Saved(log[f.ref], f.doc, Sync!Done(f))
  <2>1. f.pc = "send" /\ f.ref \in Logs /\ f.doc \in LogDoc /\ DatesKept(f) /\ log[f.ref] \in LogDoc
    BY <1>5 DEF Sync!complete, SyncInv, SyncCalls, Sync!Idle
  <2>2. log' = [log EXCEPT ![f.ref] = d] /\ Sync!Continue(t, Sync!Idle)
    BY <1>5 DEF Sync!complete, Sync!Return
  <2>3. Sync!Done(f) \in LogDoc /\ Sync!Done(f).synced  BY <2>1 DEF Sync!Done, LogDoc
  <2>4. d \in LogDoc /\ d.synced  BY <2>1, <2>3, LogSaved DEF DatesKept
  <2> HIDE DEF d, f
  <2> QED  BY <2>1, <2>2, <2>4, SyncIdle, SyncWrites
<1>6. ASSUME NEW t \in Tasks, Sync!fail(t)  PROVE SyncInv'
  <2> DEFINE f == task[t]
             h(doc) == [pc |-> "fail", ref |-> f.ref, read |-> f.doc,
                        doc |-> [doc EXCEPT !.status = Sync!FAILED]]
  <2>1. f.pc = "send" /\ f.ref \in Logs /\ f.doc \in LogDoc /\ DatesKept(f) /\ log' = log
    BY <1>6 DEF Sync!fail, SyncInv, SyncCalls, Sync!Idle
  <2>2. PICK doc \in {f.doc, Sync!Done(f)} : Sync!Continue(t, h(doc))
    BY <1>6 DEF Sync!fail
  <2>3. doc \in LogDoc /\ (f.doc.synced => doc.synced)
    BY <2>1, <2>2 DEF Sync!Done, LogDoc
  <2>4. h(doc) \in SyncCalls  BY <2>1, <2>3 DEF SyncCalls, LogDoc
  <2>5. DatesKept(h(doc))
    BY <2>1, <2>3 DEF DatesKept, LogDoc, Sync!FAILED, Sync!COMPLETED
  <2> HIDE DEF h
  <2> QED  BY <2>1, <2>2, <2>4, <2>5, SyncFrame
<1>7. ASSUME NEW t \in Tasks, Sync!saveFailure(t)  PROVE SyncInv'
  <2> DEFINE f == task[t]
             d == Sync!Saved(log[f.ref], f.read, f.doc)
  <2>1. /\ f.pc = "fail" /\ f.ref \in Logs /\ f.read \in LogDoc /\ f.doc \in LogDoc
        /\ DatesKept(f) /\ log[f.ref] \in LogDoc
    BY <1>7 DEF Sync!saveFailure, SyncInv, SyncCalls, Sync!Idle
  <2>2. log' = [log EXCEPT ![f.ref] = d] /\ Sync!Continue(t, Sync!Idle)
    BY <1>7 DEF Sync!saveFailure, Sync!Return
  <2>3. /\ d \in LogDoc /\ (log[f.ref].synced => d.synced)
        /\ d.status = Sync!COMPLETED => log[f.ref].status = Sync!COMPLETED
    BY <2>1, LogSaved DEF DatesKept, LogDoc
  <2>4. log[f.ref].status = Sync!COMPLETED => log[f.ref].synced
    BY <2>1 DEF SyncInv, Sync!CompletedIsDated
  <2> HIDE DEF d, f
  <2> QED  BY <2>1, <2>2, <2>3, <2>4, SyncIdle, SyncWrites
<1> QED  BY <1>0, <1>1, <1>2, <1>3, <1>4, <1>5, <1>6, <1>7
         DEF Sync!Next, Sync!Call, Sync!Step

LEMMA SyncStarts == Sync!Init => SyncInv
  BY DesksAssumption, SyncIdle
     DEF Sync!Init, SyncInv, Sync!CompletedIsDated, Sync!NoLog, LogDoc, Sync!COMPLETED, DatesKept

\* With one call at a time, what is being sent is not completed.
Incomplete ==
    \A t \in Tasks :
        task[t].pc \in {"send", "restart", "fail"} => log[task[t].ref].status # Sync!COMPLETED

LogsStay == \A s \in Logs : log[s].status = Sync!COMPLETED => log'[s] = log[s]

LEMMA CompletedStay ==
    ASSUME NEW t, Tasks = {t}, SyncInv, Incomplete, Sync!Next \/ UNCHANGED <<log, task>>
    PROVE  Incomplete' /\ LogsStay
<1> DEFINE f == task[t]
<1>1. t \in Tasks /\ task \in [Tasks -> SyncCalls] /\ log \in [Logs -> LogDoc] /\ DatesKept(f)
  BY DEF SyncInv
<1>f. /\ f.pc \in {"send", "restart", "fail"} =>
           f.ref \in Logs /\ f.doc \in LogDoc /\ log[f.ref].status # Sync!COMPLETED
      /\ f.pc \in {"restart", "fail"} =>
           f.ref \in Logs /\ f.read \in LogDoc /\ f.doc.status # Sync!COMPLETED
  BY <1>1 DEF SyncCalls, Sync!Idle, Incomplete, DatesKept
\* One log is written that is not completed, or none, and the call goes on.
<1>2. ASSUME NEW s \in Logs, log[s].status # Sync!COMPLETED, NEW d, NEW h,
             log' = log \/ log' = [log EXCEPT ![s] = d], Sync!Continue(t, h),
             h.pc = "idle" \/ (h.ref = s /\ log'[s].status # Sync!COMPLETED)
      PROVE  Incomplete' /\ LogsStay
  <2>1. task'[t] = h /\ \A q \in Logs \ {s} : log'[q] = log[q]
    BY <1>1, <1>2 DEF Sync!Continue
  <2> QED  BY <1>2, <2>1 DEF Incomplete, LogsStay
<1>3. CASE UNCHANGED <<log, task>>  BY <1>3 DEF Incomplete, LogsStay
<1>4. CASE Sync!restart
  <2>1. log' = log /\ task'[t].pc = "idle"  BY <1>1, <1>4 DEF Sync!restart, Sync!Idle
  <2> QED  BY <2>1 DEF Incomplete, LogsStay
<1>5. ASSUME NEW s \in Logs, Sync!syncPayroll(t, s)  PROVE Incomplete' /\ LogsStay
  <2> DEFINE d == [Sync!NoLog EXCEPT !.status = Sync!IN_PROGRESS]
             h == Sync!Sending(s, d)
  <2>1. log[s] = Sync!NoLog /\ log' = [log EXCEPT ![s] = d] /\ Sync!Continue(t, h)
    BY <1>5 DEF Sync!syncPayroll
  <2>2. log[s].status # Sync!COMPLETED /\ d.status # Sync!COMPLETED /\ h.ref = s
    BY <2>1 DEF Sync!NoLog, Sync!IN_PROGRESS, Sync!COMPLETED, Sync!Sending
  <2> HIDE DEF d, h
  <2>3. log'[s] = d  BY <1>1, <2>1
  <2> QED  BY <1>2, <2>1, <2>2, <2>3
<1>6. ASSUME NEW s \in Logs, Sync!retryPayrollSync(t, s)  PROVE Incomplete' /\ LogsStay
  BY <1>2, <1>6 DEF Sync!retryPayrollSync
<1>7. CASE Sync!saveRetry(t)
  <2> DEFINE d == Sync!Saved(log[f.ref], f.read, f.doc)
             h == Sync!Sending(f.ref, f.doc)
  <2>1. f.pc = "restart" /\ log' = [log EXCEPT ![f.ref] = d] /\ Sync!Continue(t, h)
    BY <1>7 DEF Sync!saveRetry
  <2>2. d.status # Sync!COMPLETED /\ h.ref = f.ref
    BY <1>1, <1>f, <2>1, LogSaved DEF Sync!Sending
  <2> HIDE DEF d, h
  <2>3. log'[f.ref] = d  BY <1>1, <1>f, <2>1
  <2> QED  BY <1>2, <1>f, <2>1, <2>2, <2>3
<1>8. CASE Sync!complete(t) \/ Sync!saveFailure(t)
  <2>1. /\ f.pc \in {"send", "fail"} /\ Sync!Continue(t, Sync!Idle)
        /\ \E d : log' = [log EXCEPT ![f.ref] = d]
    BY <1>8 DEF Sync!complete, Sync!saveFailure, Sync!Return
  <2> HIDE DEF f
  <2> QED  BY <1>2, <1>f, <2>1 DEF Sync!Idle
<1>9. CASE Sync!fail(t)
  <2>1. PICK h : log' = log /\ f.pc = "send" /\ h.ref = f.ref /\ Sync!Continue(t, h)
    BY <1>9 DEF Sync!fail
  <2> HIDE DEF f
  <2> QED  BY <1>2, <1>f, <2>1
<1> QED
  BY <1>3, <1>4, <1>5, <1>6, <1>7, <1>8, <1>9 DEF Sync!Next, Sync!Call, Sync!Step

-----------------------------------------------------------------------------
(* Time exceptions and the results of a record.                             *)

ExceptionDoc ==
    [status : {Exceptions!OPEN, Exceptions!APPROVED, Exceptions!REJECTED, Exceptions!ESCALATED},
     attendanceRecordId : Days \cup {Nothing}, assignedTo : Reviewers]

ExceptionCalls ==
    {Exceptions!Idle}
    \cup [pc : {"save"}, ref : ExceptionIds, read : ExceptionDoc, doc : ExceptionDoc]
    \cup [pc : {"deletePenalties", "deleteOvertime", "compute"}, rec : Days]
    \cup [pc : {"insert"}, rec : Days, todo : SUBSET Exceptions!Kinds]

\* The call h may still insert a result of the kind k into the record r, having
\* deleted those that were pending.
Armed(h, r, k) ==
    /\ h.pc # "idle" /\ h.pc # "save" /\ h.rec = r
    /\ \/ h.pc = "deleteOvertime" /\ k \in Penalties
       \/ h.pc = "compute"
       \/ h.pc = "insert" /\ k \in h.todo

ArmedTasks(r, k) == {t \in Tasks : Armed(task[t], r, k)}

\* Every pending result beside the calls that may add one: no more than calls.
ResultsCounted ==
    \A r \in Days, k \in Exceptions!Kinds :
        pending[r][k] + Cardinality(ArmedTasks(r, k)) <= Cardinality(Tasks)

ExceptionInv ==
    /\ Exceptions!TypeOK
    /\ task \in [Tasks -> ExceptionCalls]
    /\ \A t \in Tasks : task[t].pc = "save" => exception[task[t].ref] # Exceptions!NoException
    /\ ResultsCounted

LEMMA SubsetCount ==
    ASSUME NEW S, IsFiniteSet(S), NEW A \in SUBSET S
    PROVE  Cardinality(A) \in Nat /\ Cardinality(S) \in Nat /\ Cardinality(A) <= Cardinality(S)
  BY FS_Subset, FS_CardinalityType

\* One more pending for one fewer that may add it, or none at all.
LEMMA CountStep ==
    ASSUME NEW S, IsFiniteSet(S), NEW A \in SUBSET S, NEW B \in SUBSET S, NEW p \in Nat,
           NEW q \in Nat, p + Cardinality(A) <= Cardinality(S),
           \/ q <= p /\ B \subseteq A
           \/ q = 0
           \/ q = p + 1 /\ \E t \in A : B \subseteq A \ {t}
    PROVE  q + Cardinality(B) <= Cardinality(S)
<1>1. IsFiniteSet(A) /\ IsFiniteSet(B)  BY FS_Subset
<1>2. Cardinality(A) \in Nat /\ Cardinality(B) \in Nat /\ Cardinality(S) \in Nat
  BY <1>1, FS_CardinalityType
<1>3. CASE q <= p /\ B \subseteq A
  <2>1. Cardinality(B) <= Cardinality(A)  BY <1>1, <1>3, SubsetCount
  <2> QED  BY <1>2, <1>3, <2>1
<1>4. CASE q = 0
  <2>1. Cardinality(B) <= Cardinality(S)  BY SubsetCount
  <2> QED  BY <1>2, <1>4, <2>1
<1>5. CASE q = p + 1 /\ \E t \in A : B \subseteq A \ {t}
  <2>1. PICK t \in A : B \subseteq A \ {t}  BY <1>5
  <2>2. Cardinality(A \ {t}) = Cardinality(A) - 1 /\ IsFiniteSet(A \ {t})
    BY <1>1, FS_RemoveElement
  <2>3. Cardinality(B) <= Cardinality(A \ {t})  BY <2>1, <2>2, SubsetCount
  <2> QED  BY <1>2, <1>5, <2>2, <2>3
<1> QED  BY <1>3, <1>4, <1>5

LEMMA ExceptionIdle ==
    /\ Exceptions!Idle \in ExceptionCalls
    /\ \A r, k : ~Armed(Exceptions!Idle, r, k)
    /\ Exceptions!Idle.pc = "idle"
  BY DEF ExceptionCalls, Exceptions!Idle, Armed

LEMMA ExceptionDocs ==
    /\ Exceptions!NoException \notin ExceptionDoc
    /\ Exceptions!TypeOK =>
          /\ \A x \in ExceptionIds : exception[x] # Exceptions!NoException => exception[x] \in ExceptionDoc
          /\ exception \in [ExceptionIds -> ExceptionDoc \cup {Exceptions!NoException}]
          /\ pending \in [Days -> [Exceptions!Kinds -> Nat]]
<1>1. Exceptions!NoException.status = "absent"  BY DEF Exceptions!NoException
<1>2. \A x \in ExceptionDoc : x.status # "absent"
  BY DEF ExceptionDoc, Exceptions!OPEN, Exceptions!APPROVED, Exceptions!REJECTED,
         Exceptions!ESCALATED
<1>3. Exceptions!TypeOK =>
          /\ exception \in [ExceptionIds -> ExceptionDoc \cup {Exceptions!NoException}]
          /\ pending \in [Days -> [Exceptions!Kinds -> Nat]]
  BY DEF Exceptions!TypeOK, ExceptionDoc
<1> QED  BY <1>1, <1>2, <1>3

\* One call goes on; the results of a kind pending in a record are no more than
\* they were, none, or one more in place of its turn.
LEMMA ExceptionMoves ==
    ASSUME ExceptionInv, Exceptions!TypeOK', NEW t \in Tasks, NEW h \in ExceptionCalls,
           Exceptions!Continue(t, h),
           h.pc = "save" => exception[h.ref] # Exceptions!NoException,
           \A x \in ExceptionIds :
              exception[x] # Exceptions!NoException => exception'[x] # Exceptions!NoException,
           \A r \in Days, k \in Exceptions!Kinds :
              \/ pending'[r][k] <= pending[r][k] /\ (Armed(h, r, k) => Armed(task[t], r, k))
              \/ pending'[r][k] = 0
              \/ /\ pending'[r][k] = pending[r][k] + 1
                 /\ Armed(task[t], r, k) /\ ~Armed(h, r, k)
    PROVE  ExceptionInv'
<1>1. /\ task' \in [Tasks -> ExceptionCalls]
      /\ \A u \in Tasks : task'[u] = IF u = t THEN h ELSE task[u]
  BY DEF ExceptionInv, Exceptions!Continue
<1>2. ASSUME NEW u \in Tasks, task'[u].pc = "save"
      PROVE  exception'[task'[u].ref] # Exceptions!NoException
  <2>1. task'[u].ref \in ExceptionIds  BY <1>1, <1>2 DEF ExceptionCalls, Exceptions!Idle
  <2>2. exception[task'[u].ref] # Exceptions!NoException  BY <1>1, <1>2 DEF ExceptionInv
  <2> QED  BY <2>1, <2>2
<1>3. ASSUME NEW r \in Days, NEW k \in Exceptions!Kinds
      PROVE  pending'[r][k] + Cardinality(ArmedTasks(r, k)') <= Cardinality(Tasks)
  <2> DEFINE A == ArmedTasks(r, k)
  <2>1. PICK B \in SUBSET Tasks : B = ArmedTasks(r, k)'  BY DEF ArmedTasks
  <2>2. \A u \in Tasks : u \in B <=> IF u = t THEN Armed(h, r, k) ELSE u \in A
    BY <1>1, <2>1 DEF ArmedTasks, Armed
  <2>3. A \in SUBSET Tasks /\ (t \in A <=> Armed(task[t], r, k))  BY DEF ArmedTasks
  <2>4. pending[r][k] + Cardinality(A) <= Cardinality(Tasks)
    BY DEF ExceptionInv, ResultsCounted
  <2>5. pending[r][k] \in Nat /\ pending'[r][k] \in Nat
    BY DEF ExceptionInv, Exceptions!TypeOK
  <2> HIDE DEF A
  <2>6. \/ pending'[r][k] <= pending[r][k] /\ B \subseteq A
        \/ pending'[r][k] = 0
        \/ pending'[r][k] = pending[r][k] + 1 /\ \E u \in A : B \subseteq A \ {u}
    BY <2>2, <2>3
  <2>7. pending'[r][k] + Cardinality(B) <= Cardinality(Tasks)
    BY <2>3, <2>4, <2>5, <2>6, CountStep, DesksAssumption
  <2> QED  BY <2>1, <2>7
<1> QED  BY <1>1, <1>2, <1>3 DEF ExceptionInv, ResultsCounted

\* The files change under no call: an exception is created or a result decided.
LEMMA ExceptionFiled ==
    ASSUME ExceptionInv, Exceptions!TypeOK', task' = task,
           \A x \in ExceptionIds :
              exception[x] # Exceptions!NoException => exception'[x] # Exceptions!NoException,
           \A r \in Days, k \in Exceptions!Kinds : pending'[r][k] <= pending[r][k]
    PROVE  ExceptionInv'
<1>1. ASSUME NEW u \in Tasks, task[u].pc = "save"
      PROVE  exception'[task[u].ref] # Exceptions!NoException
  <2>1. task[u] \in ExceptionCalls  BY DEF ExceptionInv
  <2>2. task[u].ref \in ExceptionIds  BY <1>1, <2>1 DEF ExceptionCalls, Exceptions!Idle
  <2>3. exception[task[u].ref] # Exceptions!NoException  BY <1>1 DEF ExceptionInv
  <2> QED  BY <2>2, <2>3
<1>2. ASSUME NEW r \in Days, NEW k \in Exceptions!Kinds
      PROVE  pending'[r][k] + Cardinality(ArmedTasks(r, k)') <= Cardinality(Tasks)
  <2>1. ArmedTasks(r, k)' = ArmedTasks(r, k)  BY DEF ArmedTasks, Armed
  <2>2. /\ ArmedTasks(r, k) \in SUBSET Tasks
        /\ pending[r][k] + Cardinality(ArmedTasks(r, k)) <= Cardinality(Tasks)
    BY DEF ArmedTasks, ExceptionInv, ResultsCounted
  <2>3. pending[r][k] \in Nat /\ pending'[r][k] \in Nat
    BY DEF ExceptionInv, Exceptions!TypeOK
  <2>4. pending'[r][k] <= pending[r][k]  OBVIOUS
  <2>5. pending'[r][k] + Cardinality(ArmedTasks(r, k)) <= Cardinality(Tasks)
    BY <2>2, <2>3, <2>4, CountStep, DesksAssumption
  <2> QED  BY <2>1, <2>5
<1> QED  BY <1>1, <1>2 DEF ExceptionInv, ResultsCounted

LEMMA ExceptionCall ==
    ASSUME ExceptionInv, NEW t \in Tasks, Exceptions!Call(t)
    PROVE  ExceptionInv'
<1>t. Exceptions!TypeOK  BY DEF ExceptionInv
<1>n. \A r \in Days, k \in Exceptions!Kinds : pending[r][k] \in Nat
  BY <1>t DEF Exceptions!TypeOK
<1>1. ASSUME NEW x \in ExceptionIds, NEW m \in Reviewers, NEW r \in Days \cup {Nothing},
             Exceptions!createTimeException(t, x, r, m)
      PROVE  ExceptionInv'
  <2> DEFINE doc == [status |-> Exceptions!OPEN, attendanceRecordId |-> r, assignedTo |-> m]
  <2>1. doc \in ExceptionDoc  BY DEF ExceptionDoc
  <2> HIDE DEF doc
  <2>2. exception' = [exception EXCEPT ![x] = doc] /\ UNCHANGED <<pending, task>>
    BY <1>1 DEF Exceptions!createTimeException, doc
  <2>3. Exceptions!TypeOK'  BY <1>t, <2>1, <2>2 DEF Exceptions!TypeOK, ExceptionDoc
  <2>4. \A y \in ExceptionIds :
            exception[y] # Exceptions!NoException => exception'[y] # Exceptions!NoException
    BY <1>t, <2>1, <2>2, ExceptionDocs
  <2> QED  BY <1>n, <2>2, <2>3, <2>4, ExceptionFiled
<1>2. ASSUME NEW x \in ExceptionIds, NEW m \in Reviewers,
             NEW s \in {Exceptions!APPROVED, Exceptions!REJECTED, Exceptions!ESCALATED},
             Exceptions!Deciding(t, x, s, m), Exceptions!Ready(t)
      PROVE  ExceptionInv'
  <2> DEFINE h == [pc |-> "save", ref |-> x, read |-> exception[x],
                   doc |-> [exception[x] EXCEPT !.status = s, !.assignedTo = m]]
  <2>1. Exceptions!Continue(t, h) /\ UNCHANGED <<exception, pending>>
        /\ exception[x] # Exceptions!NoException
    BY <1>2 DEF Exceptions!Deciding, Exceptions!Open, Exceptions!NoException, Exceptions!OPEN,
                Exceptions!ESCALATED
  <2>2. exception[x] \in ExceptionDoc  BY <1>t, <2>1, ExceptionDocs
  <2>3. h \in ExceptionCalls  BY <2>2 DEF ExceptionCalls, ExceptionDoc
  <2>4. /\ h.pc = "save" => exception[h.ref] # Exceptions!NoException
        /\ \A r, k : ~Armed(h, r, k)
    BY <2>1 DEF Armed
  <2> HIDE DEF h
  <2>5. Exceptions!TypeOK'  BY <1>t, <2>1 DEF Exceptions!TypeOK
  <2>6. \A r \in Days, k \in Exceptions!Kinds : pending'[r][k] <= pending[r][k]
    BY <1>n, <2>1
  <2> QED  BY <2>1, <2>3, <2>4, <2>5, <2>6, ExceptionMoves
<1>3. ASSUME NEW r \in Days, Exceptions!recalculatePolicyResults(t, r)  PROVE ExceptionInv'
  <2> DEFINE h == Exceptions!Recalculating(r)
  <2>1. Exceptions!Continue(t, h) /\ UNCHANGED <<exception, pending>>
    BY <1>3 DEF Exceptions!recalculatePolicyResults
  <2>2. h \in ExceptionCalls /\ h.pc # "save" /\ \A q, k : ~Armed(h, q, k)
    BY DEF ExceptionCalls, Exceptions!Recalculating, Armed
  <2> HIDE DEF h
  <2>3. Exceptions!TypeOK'  BY <1>t, <2>1 DEF Exceptions!TypeOK
  <2>4. \A q \in Days, k \in Exceptions!Kinds : pending'[q][k] <= pending[q][k]
    BY <1>n, <2>1
  <2> QED  BY <2>1, <2>2, <2>3, <2>4, ExceptionMoves
<1> QED  BY <1>1, <1>2, <1>3
         DEF Exceptions!Call, Exceptions!approveException, Exceptions!rejectException,
             Exceptions!escalateException

LEMMA ExceptionStep ==
    ASSUME ExceptionInv, NEW t \in Tasks, Exceptions!Step(t)
    PROVE  ExceptionInv'
<1>t. Exceptions!TypeOK  BY DEF ExceptionInv
<1>n. /\ \A r \in Days, k \in Exceptions!Kinds : pending[r][k] \in Nat
      /\ pending \in [Days -> [Exceptions!Kinds -> Nat]]
  BY <1>t DEF Exceptions!TypeOK
<1>f. task[t] \in ExceptionCalls  BY DEF ExceptionInv
<1>1. ASSUME Exceptions!saveException(t)  PROVE ExceptionInv'
  <2> DEFINE f == task[t]
             doc == Exceptions!Saved(exception[f.ref], f.read, f.doc)
             r == f.doc.attendanceRecordId
             h == IF f.doc.status = Exceptions!APPROVED /\ r \in Days
                  THEN Exceptions!Recalculating(r) ELSE Exceptions!Idle
  <2>1. /\ f.pc = "save" /\ f.ref \in ExceptionIds /\ f.read \in ExceptionDoc
        /\ f.doc \in ExceptionDoc /\ exception[f.ref] # Exceptions!NoException
    BY <1>1, <1>f DEF Exceptions!saveException, ExceptionCalls, Exceptions!Idle, ExceptionInv
  <2>2. /\ exception' = [exception EXCEPT ![f.ref] = doc] /\ pending' = pending
        /\ Exceptions!Continue(t, h)
    BY <1>1 DEF Exceptions!saveException, Exceptions!Return
  <2>3. exception[f.ref] \in ExceptionDoc  BY <1>t, <2>1, ExceptionDocs
  <2>4. doc \in ExceptionDoc  BY <2>1, <2>3 DEF ExceptionDoc, Exceptions!Saved
  <2>5. h \in ExceptionCalls /\ h.pc # "save" /\ \A q, k : ~Armed(h, q, k)
    BY ExceptionIdle DEF ExceptionCalls, Exceptions!Recalculating, Armed
  <2> HIDE DEF doc, h, f
  <2>6. Exceptions!TypeOK'
    BY <1>t, <2>1, <2>2, <2>4 DEF Exceptions!TypeOK, ExceptionDoc
  <2>7. \A y \in ExceptionIds :
            exception[y] # Exceptions!NoException => exception'[y] # Exceptions!NoException
    BY <1>t, <2>1, <2>2, <2>4, ExceptionDocs
  <2>8. \A q \in Days, k \in Exceptions!Kinds : pending'[q][k] <= pending[q][k]
    BY <1>n, <2>2
  <2> QED  BY <2>2, <2>5, <2>6, <2>7, <2>8, ExceptionMoves
<1>2. ASSUME Exceptions!deletePenalties(t)  PROVE ExceptionInv'
  <2> DEFINE f == task[t]
             h == [task[t] EXCEPT !.pc = "deleteOvertime"]
  <2>1. f.pc = "deletePenalties" /\ f.rec \in Days
    BY <1>2, <1>f DEF Exceptions!deletePenalties, ExceptionCalls, Exceptions!Idle
  <2>2. /\ pending' = [pending EXCEPT ![f.rec] =
                [k \in Exceptions!Kinds |-> IF k \in Penalties THEN 0 ELSE pending[f.rec][k]]]
        /\ Exceptions!Continue(t, h) /\ exception' = exception
    BY <1>2 DEF Exceptions!deletePenalties
  <2>3. h \in ExceptionCalls /\ h.pc = "deleteOvertime" /\ h.rec = f.rec
    BY <1>f, <2>1 DEF ExceptionCalls, Exceptions!Idle
  <2>4. Exceptions!TypeOK'  BY <1>t, <1>n, <2>1, <2>2 DEF Exceptions!TypeOK
  <2>5. \A r \in Days, k \in Exceptions!Kinds :
            pending'[r][k] = IF r = f.rec /\ k \in Penalties THEN 0 ELSE pending[r][k]
    BY <1>n, <2>1, <2>2
  <2> HIDE DEF h
  <2>6. \A r \in Days, k \in Exceptions!Kinds :
           \/ pending'[r][k] <= pending[r][k] /\ (Armed(h, r, k) => Armed(task[t], r, k))
           \/ pending'[r][k] = 0
    BY <1>n, <2>3, <2>5 DEF Armed
  <2> QED  BY <2>2, <2>3, <2>4, <2>6, ExceptionMoves
<1>3. ASSUME Exceptions!deleteOvertime(t)  PROVE ExceptionInv'
  <2> DEFINE f == task[t]
             h == [task[t] EXCEPT !.pc = "compute"]
  <2>1. f.pc = "deleteOvertime" /\ f.rec \in Days
    BY <1>3, <1>f DEF Exceptions!deleteOvertime, ExceptionCalls, Exceptions!Idle
  <2>2. /\ pending' = [pending EXCEPT ![f.rec]["OVERTIME"] = 0]
        /\ Exceptions!Continue(t, h) /\ exception' = exception
    BY <1>3 DEF Exceptions!deleteOvertime
  <2>3. h \in ExceptionCalls /\ h.pc = "compute" /\ h.rec = f.rec
    BY <1>f, <2>1 DEF ExceptionCalls, Exceptions!Idle
  <2>4. Exceptions!TypeOK'  BY <1>t, <1>n, <2>1, <2>2 DEF Exceptions!TypeOK
  <2>5. \A r \in Days, k \in Exceptions!Kinds :
            /\ pending'[r][k] = IF r = f.rec /\ k = "OVERTIME" THEN 0 ELSE pending[r][k]
            /\ k \in Penalties \/ k = "OVERTIME"
    BY <1>n, <2>1, <2>2 DEF Exceptions!Kinds
  <2> HIDE DEF h
  <2>6. \A r \in Days, k \in Exceptions!Kinds :
           \/ pending'[r][k] <= pending[r][k] /\ (Armed(h, r, k) => Armed(task[t], r, k))
           \/ pending'[r][k] = 0
    BY <1>n, <2>1, <2>3, <2>5 DEF Armed
  <2> QED  BY <2>2, <2>3, <2>4, <2>6, ExceptionMoves
<1>4. ASSUME NEW ks \in SUBSET Exceptions!Kinds, Exceptions!computePolicyResults(t, ks)
      PROVE  ExceptionInv'
  <2> DEFINE f == task[t]
             h == IF ks = {} THEN Exceptions!Idle
                  ELSE [pc |-> "insert", rec |-> task[t].rec, todo |-> ks]
  <2>1. f.pc = "compute" /\ f.rec \in Days
    BY <1>4, <1>f DEF Exceptions!computePolicyResults, ExceptionCalls, Exceptions!Idle
  <2>2. Exceptions!Continue(t, h) /\ UNCHANGED <<exception, pending>>
    BY <1>4 DEF Exceptions!computePolicyResults, Exceptions!Return
  <2>3. /\ h \in ExceptionCalls /\ h.pc # "save"
        /\ \A r, k : Armed(h, r, k) => Armed(task[t], r, k)
    BY <2>1, ExceptionIdle DEF ExceptionCalls, Armed
  <2> HIDE DEF h
  <2>4. Exceptions!TypeOK'  BY <1>t, <2>2 DEF Exceptions!TypeOK
  <2>5. \A q \in Days, k \in Exceptions!Kinds : pending'[q][k] <= pending[q][k]
    BY <1>n, <2>2
  <2> QED  BY <2>2, <2>3, <2>4, <2>5, ExceptionMoves
<1>5. ASSUME NEW k \in Exceptions!Kinds, Exceptions!insertResult(t, k)  PROVE ExceptionInv'
  <2> DEFINE f == task[t]
             h == IF f.todo = {k} THEN Exceptions!Idle ELSE [f EXCEPT !.todo = @ \ {k}]
  <2>1. f.pc = "insert" /\ f.rec \in Days /\ f.todo \in SUBSET Exceptions!Kinds /\ k \in f.todo
    BY <1>5, <1>f DEF Exceptions!insertResult, ExceptionCalls, Exceptions!Idle
  <2>2. /\ pending' = [pending EXCEPT ![f.rec][k] = @ + 1]
        /\ Exceptions!Continue(t, h) /\ exception' = exception
    BY <1>5 DEF Exceptions!insertResult, Exceptions!Return
  <2>3. /\ h \in ExceptionCalls /\ h.pc # "save" /\ ~Armed(h, f.rec, k)
        /\ \A r, j : Armed(h, r, j) => Armed(f, r, j)
    <3>1. CASE f.todo = {k}  BY <3>1, ExceptionIdle
    <3>2. CASE f.todo # {k}
      <4> DEFINE g == [f EXCEPT !.todo = @ \ {k}]
      <4>1. g \in ExceptionCalls /\ g.pc = "insert" /\ g.rec = f.rec /\ g.todo = f.todo \ {k}
        BY <1>f, <2>1 DEF ExceptionCalls, Exceptions!Idle
      <4> HIDE DEF g
      <4>2. h = g  BY <3>2 DEF g
      <4> HIDE DEF h, f
      <4> QED  BY <2>1, <4>1, <4>2 DEF Armed
    <3> QED  BY <3>1, <3>2
  <2>4. Armed(f, f.rec, k)  BY <2>1 DEF Armed
  <2> HIDE DEF h
  <2>5. Exceptions!TypeOK'  BY <1>t, <1>n, <2>1, <2>2 DEF Exceptions!TypeOK
  <2>6. \A r \in Days, j \in Exceptions!Kinds :
            pending'[r][j] = IF r = f.rec /\ j = k THEN pending[r][j] + 1 ELSE pending[r][j]
    BY <1>n, <2>1, <2>2
  <2>7. \A r \in Days, j \in Exceptions!Kinds :
           \/ pending'[r][j] <= pending[r][j] /\ (Armed(h, r, j) => Armed(f, r, j))
           \/ /\ pending'[r][j] = pending[r][j] + 1
              /\ Armed(f, r, j) /\ ~Armed(h, r, j)
    BY <1>n, <2>3, <2>4, <2>6
  <2> QED  BY <2>2, <2>3, <2>5, <2>7, ExceptionMoves
<1> QED  BY <1>1, <1>2, <1>3, <1>4, <1>5 DEF Exceptions!Step

LEMMA ExceptionKept ==
    ExceptionInv /\ (Exceptions!Next \/ UNCHANGED <<exception, pending, task>>) => ExceptionInv'
<1> SUFFICES ASSUME ExceptionInv, Exceptions!Next \/ UNCHANGED <<exception, pending, task>>
             PROVE  ExceptionInv'
  OBVIOUS
<1>n. /\ \A r \in Days, k \in Exceptions!Kinds : pending[r][k] \in Nat
      /\ pending \in [Days -> [Exceptions!Kinds -> Nat]]
      /\ Exceptions!TypeOK
  BY DEF ExceptionInv, Exceptions!TypeOK
<1>1. CASE UNCHANGED <<exception, pending, task>>
  <2>1. Exceptions!TypeOK'  BY <1>1, <1>n DEF Exceptions!TypeOK
  <2>2. \A r \in Days, k \in Exceptions!Kinds : pending'[r][k] <= pending[r][k]
    BY <1>1, <1>n
  <2> QED  BY <1>1, <2>1, <2>2, ExceptionFiled
<1>2. ASSUME NEW r \in Days, NEW k \in Exceptions!Kinds, Exceptions!decideResult(r, k)
      PROVE  ExceptionInv'
  <2>1. /\ pending[r][k] > 0 /\ pending' = [pending EXCEPT ![r][k] = @ - 1]
        /\ UNCHANGED <<exception, task>>
    BY <1>2 DEF Exceptions!decideResult
  <2>2. \A q \in Days, j \in Exceptions!Kinds :
            pending'[q][j] = IF q = r /\ j = k THEN pending[q][j] - 1 ELSE pending[q][j]
    BY <1>n, <2>1
  <2>3. \A q \in Days, j \in Exceptions!Kinds :
            pending'[q][j] <= pending[q][j] /\ pending'[q][j] \in Nat
    BY <1>n, <2>1, <2>2
  <2>4. Exceptions!TypeOK'
    <3>1. pending' \in [Days -> [Exceptions!Kinds -> Nat]]
      BY <1>n, <2>1
    <3> QED  BY <1>n, <2>1, <3>1 DEF Exceptions!TypeOK
  <2> QED  BY <2>1, <2>3, <2>4, ExceptionFiled
<1>3. CASE Exceptions!restart
  <2>1. task' = [t \in Tasks |-> Exceptions!Idle] /\ UNCHANGED <<exception, pending>>
    BY <1>3 DEF Exceptions!restart
  <2>2. task' \in [Tasks -> ExceptionCalls] /\ \A t \in Tasks : task'[t] = Exceptions!Idle
    BY <2>1, ExceptionIdle
  <2>3. ASSUME NEW r \in Days, NEW k \in Exceptions!Kinds
        PROVE  pending'[r][k] + Cardinality(ArmedTasks(r, k)') <= Cardinality(Tasks)
    <3>1. ArmedTasks(r, k)' = {}  BY <2>2, ExceptionIdle DEF ArmedTasks, Armed
    <3>2. /\ ArmedTasks(r, k) \in SUBSET Tasks
          /\ pending[r][k] + Cardinality(ArmedTasks(r, k)) <= Cardinality(Tasks)
      BY DEF ArmedTasks, ExceptionInv, ResultsCounted
    <3>3. pending[r][k] + Cardinality({}) <= Cardinality(Tasks)
      BY <1>n, <3>2, CountStep, DesksAssumption
    <3> QED  BY <2>1, <3>1, <3>3
  <2>4. Exceptions!TypeOK'  BY <1>n, <2>1 DEF Exceptions!TypeOK
  <2> QED  BY <2>2, <2>3, <2>4, ExceptionIdle DEF ExceptionInv, ResultsCounted
<1> QED  BY <1>1, <1>2, <1>3, ExceptionCall, ExceptionStep DEF Exceptions!Next

LEMMA ExceptionStarts == Exceptions!Init => ExceptionInv
<1> SUFFICES ASSUME Exceptions!Init  PROVE ExceptionInv
  OBVIOUS
<1>1. /\ exception = [x \in ExceptionIds |-> Exceptions!NoException]
      /\ pending = [r \in Days |-> [k \in Exceptions!Kinds |-> 0]]
      /\ task = [t \in Tasks |-> Exceptions!Idle]
  BY DEF Exceptions!Init
<1>2. Exceptions!TypeOK  BY <1>1 DEF Exceptions!TypeOK
<1>3. task \in [Tasks -> ExceptionCalls] /\ \A t \in Tasks : task[t] = Exceptions!Idle
  BY <1>1, ExceptionIdle
<1>4. ASSUME NEW r \in Days, NEW k \in Exceptions!Kinds
      PROVE  pending[r][k] + Cardinality(ArmedTasks(r, k)) <= Cardinality(Tasks)
  <2>1. ArmedTasks(r, k) \in SUBSET Tasks  BY DEF ArmedTasks
  <2>2. pending[r][k] = 0  BY <1>1
  <2> QED  BY <2>1, <2>2, SubsetCount, DesksAssumption
<1> QED  BY <1>2, <1>3, <1>4, ExceptionIdle DEF ExceptionInv, ResultsCounted

\* With one call at a time, what is about to be saved has not been decided.
Undecided == \A t \in Tasks : task[t].pc = "save" => Exceptions!Open(task[t].ref)

DecidedKept ==
    \A x \in ExceptionIds :
        exception[x].status \in {Exceptions!APPROVED, Exceptions!REJECTED} =>
            exception'[x] = exception[x]

LEMMA VerdictsStay ==
    ASSUME NEW t, Tasks = {t}, ExceptionInv, Undecided,
           Exceptions!Next \/ UNCHANGED <<exception, pending, task>>
    PROVE  Undecided' /\ DecidedKept
<1>1. t \in Tasks /\ task \in [Tasks -> ExceptionCalls]  BY DEF ExceptionInv
<1>2. \A x \in ExceptionIds : Exceptions!Open(x) =>
          exception[x].status \notin {Exceptions!APPROVED, Exceptions!REJECTED}
  BY DEF Exceptions!Open, Exceptions!OPEN, Exceptions!APPROVED, Exceptions!REJECTED,
         Exceptions!ESCALATED
\* Nothing is written.
<1>3. ASSUME exception' = exception,
             task'[t].pc = "save" => task'[t] = task[t] \/ Exceptions!Open(task'[t].ref)
      PROVE  Undecided' /\ DecidedKept
  BY <1>3 DEF Undecided, DecidedKept, Exceptions!Open
<1>4. ASSUME exception' = exception, NEW h, Exceptions!Continue(t, h),
             h.pc = "save" => Exceptions!Open(h.ref)
      PROVE  Undecided' /\ DecidedKept
  <2>1. task'[t] = h  BY <1>1, <1>4 DEF Exceptions!Continue
  <2> QED  BY <1>3, <1>4, <2>1
<1>r. ASSUME exception' = exception, Exceptions!Return(t)  PROVE Undecided' /\ DecidedKept
  BY <1>4, <1>r DEF Exceptions!Return, Exceptions!Idle
\* One is written that has not been decided.
<1>5. ASSUME NEW x, exception[x].status \notin {Exceptions!APPROVED, Exceptions!REJECTED},
             NEW doc, exception' = [exception EXCEPT ![x] = doc], task'[t].pc # "save"
      PROVE  Undecided' /\ DecidedKept
  <2>1. \A y \in ExceptionIds \ {x} : exception'[y] = exception[y]
    BY <1>5 DEF ExceptionInv, Exceptions!TypeOK
  <2> QED  BY <1>5, <2>1 DEF Undecided, DecidedKept
<1>6. CASE UNCHANGED <<exception, pending, task>>  BY <1>3, <1>6
<1>7. CASE Exceptions!restart
  <2>1. exception' = exception /\ task'[t].pc # "save"
    BY <1>1, <1>7 DEF Exceptions!restart, Exceptions!Idle
  <2> QED  BY <1>3, <2>1
<1>8. ASSUME NEW r \in Days, NEW k \in Exceptions!Kinds, Exceptions!decideResult(r, k)
      PROVE  Undecided' /\ DecidedKept
  BY <1>3, <1>8 DEF Exceptions!decideResult
<1>9. CASE Exceptions!Call(t)
  <2>1. ASSUME NEW x \in ExceptionIds, NEW m \in Reviewers, NEW r \in Days \cup {Nothing},
               Exceptions!createTimeException(t, x, r, m)
        PROVE  Undecided' /\ DecidedKept
    <3>1. exception[x].status \notin {Exceptions!APPROVED, Exceptions!REJECTED}
      BY <2>1 DEF Exceptions!createTimeException, Exceptions!NoException,
                  Exceptions!APPROVED, Exceptions!REJECTED
    <3>2. task'[t].pc # "save"
      BY <2>1 DEF Exceptions!createTimeException, Exceptions!Ready
    <3> QED  BY <1>5, <2>1, <3>1, <3>2 DEF Exceptions!createTimeException
  <2>2. ASSUME NEW x \in ExceptionIds, NEW m \in Reviewers, NEW s, Exceptions!Deciding(t, x, s, m)
        PROVE  Undecided' /\ DecidedKept
    BY <1>4, <2>2 DEF Exceptions!Deciding
  <2>3. ASSUME NEW r \in Days, Exceptions!recalculatePolicyResults(t, r)
        PROVE  Undecided' /\ DecidedKept
    BY <1>4, <2>3 DEF Exceptions!recalculatePolicyResults, Exceptions!Recalculating
  <2> QED
    BY <1>9, <2>1, <2>2, <2>3
       DEF Exceptions!Call, Exceptions!approveException, Exceptions!rejectException,
           Exceptions!escalateException
<1>10. CASE Exceptions!saveException(t)
  <2>1. task[t].pc = "save" /\ Exceptions!Open(task[t].ref)
    BY <1>1, <1>10 DEF Exceptions!saveException, Undecided
  <2>2. exception[task[t].ref].status \notin {Exceptions!APPROVED, Exceptions!REJECTED}
    BY <2>1 DEF Exceptions!Open, Exceptions!OPEN, Exceptions!APPROVED, Exceptions!REJECTED,
                Exceptions!ESCALATED
  <2>3. task'[t].pc # "save"
    BY <1>1, <1>10 DEF Exceptions!saveException, Exceptions!Return, Exceptions!Continue,
                       Exceptions!Recalculating, Exceptions!Idle
  <2> QED  BY <1>5, <1>10, <2>2, <2>3 DEF Exceptions!saveException
<1>11. CASE Exceptions!deletePenalties(t) \/ Exceptions!deleteOvertime(t)
  <2>1. PICK pc \in {"deleteOvertime", "compute"} :
          exception' = exception /\ Exceptions!Continue(t, [task[t] EXCEPT !.pc = pc])
               /\ task[t].pc \in {"deletePenalties", "deleteOvertime"}
    BY <1>11 DEF Exceptions!deletePenalties, Exceptions!deleteOvertime
  <2>2. [task[t] EXCEPT !.pc = pc].pc # "save"
    BY <1>1, <2>1 DEF ExceptionCalls, Exceptions!Idle
  <2> QED  BY <1>4, <2>1, <2>2
<1>12. ASSUME NEW ks \in SUBSET Exceptions!Kinds, Exceptions!computePolicyResults(t, ks)
       PROVE  Undecided' /\ DecidedKept
  BY <1>4, <1>12, <1>r DEF Exceptions!computePolicyResults
<1>13. ASSUME NEW k \in Exceptions!Kinds, Exceptions!insertResult(t, k)
       PROVE  Undecided' /\ DecidedKept
  <2> DEFINE h == [task[t] EXCEPT !.todo = @ \ {k}]
  <2>1. /\ exception' = exception /\ task[t].pc = "insert"
        /\ Exceptions!Return(t) \/ Exceptions!Continue(t, h)
    BY <1>13 DEF Exceptions!insertResult
  <2>2. h.pc = "insert"  BY <1>1, <2>1 DEF ExceptionCalls, Exceptions!Idle
  <2> HIDE DEF h
  <2> QED  BY <1>4, <1>r, <2>1, <2>2
<1> QED
  BY <1>6, <1>7, <1>8, <1>9, <1>10, <1>11, <1>12, <1>13 DEF Exceptions!Next, Exceptions!Step

-----------------------------------------------------------------------------
(* The desks together.  The calls are at the desk in focus, whose invariant  *)
(* they keep; what another desk has on file stays as it was.                *)

TrackingDesk ==
    /\ Tracking!TypeOK /\ Tracking!RefundHasGround
    /\ focus = "tracking" => TrackingInv

SigningDesk ==
    /\ Signing!TypeOK /\ Signing!ApprovedIsListed
    /\ focus = "bonuses" => SigningInv

PerformanceDesk ==
    /\ Performance!TypeOK /\ Performance!AdjustedIsResolved
    /\ focus = "performance" => AppraisalInv

SyncDesk ==
    /\ Sync!TypeOK /\ Sync!CompletedIsDated
    /\ focus = "sync" => SyncInv

ExceptionsDesk ==
    /\ Exceptions!TypeOK /\ Exceptions!PendingBounded
    /\ focus = "exceptions" => ExceptionInv

CalendarDesk ==
    /\ Calendar!TypeOK
    /\ focus = "calendar" => CalendarInv

LEMMA TrackingStands == DesksSpec => []TrackingDesk
<1>1. DesksInit => TrackingDesk  BY TrackingStarts DEF DesksInit, TrackingDesk, TrackingInv
<1>2. TrackingDesk /\ [DesksNext]_DesksVars => TrackingDesk'
  <2> SUFFICES ASSUME TrackingDesk, [DesksNext]_DesksVars  PROVE TrackingDesk'
    OBVIOUS
  <2>1. CASE focus = "tracking"
    <3>1. focus' = focus /\ (Tracking!Next \/ UNCHANGED <<claim, claimDispute, refund, task>>)
      BY <2>1 DEF DesksNext, DesksVars, TrackingFiles
    <3> QED  BY <2>1, <3>1, TrackingKept DEF TrackingDesk, TrackingInv
  <2>2. CASE focus # "tracking"
    <3>1. focus' = focus /\ UNCHANGED <<claim, claimDispute, refund>>
      BY <2>2 DEF DesksNext, DesksVars, TrackingFiles
    <3> QED  BY <2>2, <3>1 DEF TrackingDesk, Tracking!TypeOK, Tracking!RefundHasGround
  <2> QED  BY <2>1, <2>2
<1> QED  BY <1>1, <1>2, PTL DEF DesksSpec

LEMMA SigningStands == DesksSpec => []SigningDesk
<1>1. DesksInit => SigningDesk  BY SigningStarts DEF DesksInit, SigningDesk, SigningInv
<1>2. SigningDesk /\ [DesksNext]_DesksVars => SigningDesk'
  <2> SUFFICES ASSUME SigningDesk, [DesksNext]_DesksVars  PROVE SigningDesk'
    OBVIOUS
  <2>1. CASE focus = "bonuses"
    <3>1. focus' = focus /\ (Signing!Next \/ UNCHANGED <<bonus, task>>)
      BY <2>1 DEF DesksNext, DesksVars
    <3> QED  BY <2>1, <3>1, SigningKept DEF SigningDesk, SigningInv
  <2>2. CASE focus # "bonuses"
    <3>1. focus' = focus /\ bonus' = bonus  BY <2>2 DEF DesksNext, DesksVars
    <3> QED  BY <2>2, <3>1
             DEF SigningDesk, Signing!TypeOK, Signing!ApprovedIsListed, Signing!Processed
  <2> QED  BY <2>1, <2>2
<1> QED  BY <1>1, <1>2, PTL DEF DesksSpec

LEMMA PerformanceStands == DesksSpec => []PerformanceDesk
<1>1. DesksInit => PerformanceDesk
  BY AppraisalStarts DEF DesksInit, PerformanceDesk, AppraisalInv
<1>2. PerformanceDesk /\ [DesksNext]_DesksVars => PerformanceDesk'
  <2> SUFFICES ASSUME PerformanceDesk, [DesksNext]_DesksVars  PROVE PerformanceDesk'
    OBVIOUS
  <2>1. CASE focus = "performance"
    <3>1. /\ focus' = focus
          /\ Performance!Next \/ UNCHANGED <<appraisalTemplate, cycle, record, appraisalDispute, task>>
      BY <2>1 DEF DesksNext, DesksVars, PerformanceFiles
    <3> QED  BY <2>1, <3>1, AppraisalKept DEF PerformanceDesk, AppraisalInv, PerformanceFiles
  <2>2. CASE focus # "performance"
    <3>1. focus' = focus /\ UNCHANGED <<appraisalTemplate, cycle, record, appraisalDispute>>
      BY <2>2 DEF DesksNext, DesksVars, PerformanceFiles
    <3> QED  BY <2>2, <3>1 DEF PerformanceDesk, Performance!TypeOK, Performance!AdjustedIsResolved
  <2> QED  BY <2>1, <2>2
<1> QED  BY <1>1, <1>2, PTL DEF DesksSpec

LEMMA SyncStands == DesksSpec => []SyncDesk
<1>1. DesksInit => SyncDesk  BY SyncStarts DEF DesksInit, SyncDesk, SyncInv, Sync!TypeOK, LogDoc
<1>2. SyncDesk /\ [DesksNext]_DesksVars => SyncDesk'
  <2> SUFFICES ASSUME SyncDesk, [DesksNext]_DesksVars  PROVE SyncDesk'
    OBVIOUS
  <2>1. CASE focus = "sync"
    <3>1. focus' = focus /\ (Sync!Next \/ UNCHANGED <<log, task>>)
      BY <2>1 DEF DesksNext, DesksVars
    <3> QED  BY <2>1, <3>1, SyncKept DEF SyncDesk, SyncInv, Sync!TypeOK, LogDoc
  <2>2. CASE focus # "sync"
    <3>1. focus' = focus /\ log' = log  BY <2>2 DEF DesksNext, DesksVars
    <3> QED  BY <2>2, <3>1 DEF SyncDesk, Sync!TypeOK, Sync!CompletedIsDated
  <2> QED  BY <2>1, <2>2
<1> QED  BY <1>1, <1>2, PTL DEF DesksSpec

LEMMA SameCount == Exceptions!Cardinality(Tasks) = Cardinality(Tasks)
  BY DEF Exceptions!Cardinality, Cardinality

LEMMA CountsBoundResults == ExceptionInv => Exceptions!TypeOK /\ Exceptions!PendingBounded
<1>t. ExceptionInv => Exceptions!TypeOK  BY DEF ExceptionInv
<1> SUFFICES ASSUME ExceptionInv, NEW r \in Days, NEW k \in Exceptions!Kinds
             PROVE  pending[r][k] <= Cardinality(Tasks)
  BY <1>t, SameCount DEF Exceptions!PendingBounded
<1>1. ArmedTasks(r, k) \in SUBSET Tasks  BY DEF ArmedTasks
<1>2. /\ Cardinality(ArmedTasks(r, k)) \in Nat /\ Cardinality(Tasks) \in Nat
      /\ pending[r][k] \in Nat
      /\ pending[r][k] + Cardinality(ArmedTasks(r, k)) <= Cardinality(Tasks)
  BY <1>1, SubsetCount, DesksAssumption DEF ExceptionInv, ResultsCounted, Exceptions!TypeOK
<1> QED  BY <1>2

LEMMA ExceptionsStand == DesksSpec => []ExceptionsDesk
<1>1. DesksInit => ExceptionsDesk
  BY ExceptionStarts, CountsBoundResults DEF DesksInit, ExceptionsDesk
<1>2. ExceptionsDesk /\ [DesksNext]_DesksVars => ExceptionsDesk'
  <2> SUFFICES ASSUME ExceptionsDesk, [DesksNext]_DesksVars  PROVE ExceptionsDesk'
    OBVIOUS
  <2>1. CASE focus = "exceptions"
    <3>1. focus' = focus /\ (Exceptions!Next \/ UNCHANGED <<exception, pending, task>>)
      BY <2>1 DEF DesksNext, DesksVars, ExceptionFiles
    <3>2. ExceptionInv'  BY <2>1, <3>1, ExceptionKept DEF ExceptionsDesk
    <3>3. Exceptions!TypeOK' /\ Exceptions!PendingBounded'
      BY <3>2, CountsBoundResults, PTL
    <3> QED  BY <3>2, <3>3 DEF ExceptionsDesk
  <2>2. CASE focus # "exceptions"
    <3>1. focus' = focus /\ UNCHANGED <<exception, pending>>
      BY <2>2 DEF DesksNext, DesksVars, ExceptionFiles
    <3> QED  BY <2>2, <3>1 DEF ExceptionsDesk, Exceptions!TypeOK, Exceptions!PendingBounded
  <2> QED  BY <2>1, <2>2
<1> QED  BY <1>1, <1>2, PTL DEF DesksSpec

LEMMA CalendarStands == DesksSpec => []CalendarDesk
<1>t. CalendarInv => Calendar!TypeOK  BY DEF CalendarInv, CalendarDoc, Calendar!TypeOK
<1>1. DesksInit => CalendarDesk  BY <1>t, CalendarStarts DEF DesksInit, CalendarDesk
<1>2. CalendarDesk /\ [DesksNext]_DesksVars => CalendarDesk'
  <2> SUFFICES ASSUME CalendarDesk, [DesksNext]_DesksVars  PROVE CalendarDesk'
    OBVIOUS
  <2>1. CASE focus = "calendar"
    <3>1. focus' = focus /\ (Calendar!Next \/ UNCHANGED <<calendar, task>>)
      BY <2>1 DEF DesksNext, DesksVars
    <3>2. CalendarInv'  BY <2>1, <3>1, CalendarKept DEF CalendarDesk
    <3>3. Calendar!TypeOK'  BY <3>2 DEF CalendarInv, CalendarDoc, Calendar!TypeOK
    <3> QED  BY <3>2, <3>3 DEF CalendarDesk
  <2>2. CASE focus # "calendar"
    <3>1. focus' = focus /\ calendar' = calendar  BY <2>2 DEF DesksNext, DesksVars
    <3> QED  BY <2>2, <3>1 DEF CalendarDesk, Calendar!TypeOK
  <2> QED  BY <2>1, <2>2
<1> QED  BY <1>1, <1>2, PTL DEF DesksSpec

\* However many calls overlap and are cut short, a refund names claims and
\* disputes on file, an approved bonus has its date and an eligible employee, an
\* adjusted dispute of an appraisal who resolved it, and a completed
\* synchronisation its date.
THEOREM DecisionsGrounded == DesksSpec => []DecisionsHaveGrounds
<1>1. TrackingDesk /\ SigningDesk /\ PerformanceDesk /\ SyncDesk => DecisionsHaveGrounds
  BY DEF TrackingDesk, SigningDesk, PerformanceDesk, SyncDesk, DecisionsHaveGrounds
<1> QED  BY <1>1, TrackingStands, SigningStands, PerformanceStands, SyncStands, PTL

\* However many recalculations overlap, a record has at most as many pending
\* results of a kind as there are calls (recalculatePolicyResults).
THEOREM ResultsBounded == DesksSpec => []PendingBounded
<1>1. ExceptionsDesk => PendingBounded  BY DEF ExceptionsDesk, PendingBounded
<1> QED  BY <1>1, ExceptionsStand, PTL

\* Bodies of updates leaving the periods alone, additions and removals that
\* overlap lose no blocked period (addBlockedPeriod, removeBlockedPeriod).
THEOREM PeriodsKept ==
    ASSUME Replacements = {}
    PROVE  DesksSpec => NoPeriodLost
<1>1. CalendarDesk /\ [DesksNext]_DesksVars => [ListsOneByOne]_Calendar!vars
  <2> SUFFICES ASSUME CalendarDesk, [DesksNext]_DesksVars
               PROVE  ListsOneByOne
    BY DEF Calendar!vars
  <2>1. CASE focus = "calendar"
    <3>1. Calendar!Next \/ UNCHANGED <<calendar, task>>
      BY <2>1 DEF DesksNext, DesksVars
    <3> QED  BY <2>1, <3>1, CalendarKept DEF CalendarDesk
  <2>2. CASE focus # "calendar"
    <3>1. calendar' = calendar  BY <2>2 DEF DesksNext, DesksVars
    <3> QED  BY <3>1 DEF ListsOneByOne, OneByOne
  <2> QED  BY <2>1, <2>2
<1> QED
  BY <1>1, CalendarStands, PTL
     DEF DesksSpec, NoPeriodLost, Calendar!NoPeriodLost, ListsOneByOne, OneByOne

-----------------------------------------------------------------------------
(* The desks together, while calls do not overlap.                          *)

ConfigurationDesk ==
    /\ OneSettings
    /\ focus = "configuration" => SettingsInv

RequestsDesk ==
    /\ Requests!TypeOK /\ Requests!NationalIdsDiffer
    /\ focus = "requests" => RequestsInv

StructureDesk ==
    /\ Structure!TypeOK
    /\ focus = "structure" => StructureInv

HiringDesk ==
    /\ Hiring!TypeOK
    /\ focus = "hiring" => HiringInv

CalendarOfYear ==
    /\ Calendar!OneCalendar
    /\ focus = "calendar" => CalendarInv /\ OneYear

PoliciesDesk ==
    /\ Policies!TypeOK /\ Policies!CodesDiffer
    /\ focus = "policies" => PoliciesInv

SyncAlone == focus = "sync" => SyncInv /\ Incomplete

ExceptionsAlone == focus = "exceptions" => ExceptionInv /\ Undecided

LEMMA ConfigurationStands ==
    ASSUME NEW CONSTANT solo, Tasks = {solo}
    PROVE  DesksSpec => []ConfigurationDesk
<1>1. DesksInit => ConfigurationDesk
  BY SettingsStart DEF DesksInit, ConfigurationDesk, SettingsInv
<1>2. ConfigurationDesk /\ [DesksNext]_DesksVars => ConfigurationDesk'
  <2> SUFFICES ASSUME ConfigurationDesk, [DesksNext]_DesksVars  PROVE ConfigurationDesk'
    OBVIOUS
  <2>1. CASE focus = "configuration"
    <3>1. focus' = focus /\ [Next]_vars  BY <2>1 DEF DesksNext, DesksVars, vars
    <3>2. SettingsInv'  BY <2>1, <3>1, SettingsKept DEF ConfigurationDesk
    <3> QED  BY <3>2 DEF ConfigurationDesk, SettingsInv
  <2>2. CASE focus # "configuration"
    <3>1. focus' = focus /\ config' = config  BY <2>2 DEF DesksNext, DesksVars
    <3> QED  BY <2>2, <3>1 DEF ConfigurationDesk, OneSettings, Settings, Kept
  <2> QED  BY <2>1, <2>2
<1> QED  BY <1>1, <1>2, PTL DEF DesksSpec

LEMMA RequestsStand == DesksSpec => []RequestsDesk
<1>1. DesksInit => RequestsDesk
  BY RequestsStart, RequestsHold DEF DesksInit, RequestsDesk
<1>2. RequestsDesk /\ [DesksNext]_DesksVars => RequestsDesk'
  <2> SUFFICES ASSUME RequestsDesk, [DesksNext]_DesksVars  PROVE RequestsDesk'
    OBVIOUS
  <2>1. CASE focus = "requests"
    <3>1. focus' = focus /\ (Requests!Next \/ UNCHANGED <<profile, request, task>>)
      BY <2>1 DEF DesksNext, DesksVars, RequestFiles
    <3>2. RequestsInv'  BY <2>1, <3>1, RequestsKept DEF RequestsDesk
    <3>3. Requests!TypeOK' /\ Requests!NationalIdsDiffer'  BY <3>2, RequestsHold, PTL
    <3> QED  BY <3>2, <3>3 DEF RequestsDesk
  <2>2. CASE focus # "requests"
    <3>1. focus' = focus /\ UNCHANGED <<profile, request>>
      BY <2>2 DEF DesksNext, DesksVars, RequestFiles
    <3> QED  BY <2>2, <3>1
             DEF RequestsDesk, Requests!TypeOK, Requests!NationalIdsDiffer, Requests!Holders
  <2> QED  BY <2>1, <2>2
<1> QED  BY <1>1, <1>2, PTL DEF DesksSpec

LEMMA StructureStands == DesksSpec => []StructureDesk
<1>1. DesksInit => StructureDesk
  BY StructureStarts DEF DesksInit, StructureDesk, StructureInv
<1>2. StructureDesk /\ [DesksNext]_DesksVars => StructureDesk'
  <2> SUFFICES ASSUME StructureDesk, [DesksNext]_DesksVars  PROVE StructureDesk'
    OBVIOUS
  <2>1. CASE focus = "structure"
    <3>1. focus' = focus /\ (Structure!Next \/ UNCHANGED <<department, position, task>>)
      BY <2>1 DEF DesksNext, DesksVars, StructureFiles
    <3>2. StructureInv'  BY <2>1, <3>1, StructureKept DEF StructureDesk
    <3> QED  BY <3>2 DEF StructureDesk, StructureInv
  <2>2. CASE focus # "structure"
    <3>1. focus' = focus /\ UNCHANGED <<department, position>>
      BY <2>2 DEF DesksNext, DesksVars, StructureFiles
    <3> QED  BY <2>2, <3>1 DEF StructureDesk, Structure!TypeOK
  <2> QED  BY <2>1, <2>2
<1> QED  BY <1>1, <1>2, PTL DEF DesksSpec

LEMMA HiringStands == DesksSpec => []HiringDesk
<1>1. DesksInit => HiringDesk  BY HiringStarts DEF DesksInit, HiringDesk, HiringInv
<1>2. HiringDesk /\ [DesksNext]_DesksVars => HiringDesk'
  <2> SUFFICES ASSUME HiringDesk, [DesksNext]_DesksVars  PROVE HiringDesk'
    OBVIOUS
  <2>1. CASE focus = "hiring"
    <3>1. /\ focus' = focus
          /\ Hiring!Next \/ UNCHANGED <<jobTemplate, requisition, referral, task>>
      BY <2>1 DEF DesksNext, DesksVars, HiringFiles
    <3>2. HiringInv'  BY <2>1, <3>1, HiringKept DEF HiringDesk
    <3> QED  BY <3>2 DEF HiringDesk, HiringInv
  <2>2. CASE focus # "hiring"
    <3>1. focus' = focus /\ UNCHANGED <<jobTemplate, requisition, referral>>
      BY <2>2 DEF DesksNext, DesksVars, HiringFiles
    <3> QED  BY <2>2, <3>1 DEF HiringDesk, Hiring!TypeOK
  <2> QED  BY <2>1, <2>2
<1> QED  BY <1>1, <1>2, PTL DEF DesksSpec

LEMMA CalendarOfYearStands ==
    ASSUME NEW CONSTANT solo, Tasks = {solo}
    PROVE  DesksSpec => []CalendarOfYear
<1>1. DesksInit => CalendarOfYear
  BY CalendarStarts, OneYearStarts DEF DesksInit, CalendarOfYear, OneYear
<1>2. CalendarOfYear /\ [DesksNext]_DesksVars => CalendarOfYear'
  <2> SUFFICES ASSUME CalendarOfYear, [DesksNext]_DesksVars  PROVE CalendarOfYear'
    OBVIOUS
  <2>1. CASE focus = "calendar"
    <3>1. focus' = focus /\ (Calendar!Next \/ UNCHANGED <<calendar, task>>)
      BY <2>1 DEF DesksNext, DesksVars
    <3>2. CalendarInv' /\ OneYear'
      BY <2>1, <3>1, CalendarKept, OneYearKept DEF CalendarOfYear
    <3> QED  BY <3>2 DEF CalendarOfYear, OneYear
  <2>2. CASE focus # "calendar"
    <3>1. focus' = focus /\ calendar' = calendar  BY <2>2 DEF DesksNext, DesksVars
    <3> QED  BY <2>2, <3>1 DEF CalendarOfYear, Calendar!OneCalendar, Calendar!Kept
  <2> QED  BY <2>1, <2>2
<1> QED  BY <1>1, <1>2, PTL DEF DesksSpec

LEMMA PoliciesStand == DesksSpec => []PoliciesDesk
<1>1. DesksInit => PoliciesDesk
  BY PoliciesStart DEF DesksInit, PoliciesDesk, PoliciesInv
<1>2. PoliciesDesk /\ [DesksNext]_DesksVars => PoliciesDesk'
  <2> SUFFICES ASSUME PoliciesDesk, [DesksNext]_DesksVars  PROVE PoliciesDesk'
    OBVIOUS
  <2>1. CASE focus = "policies"
    <3>1. focus' = focus /\ (Policies!Next \/ UNCHANGED <<now, code, policy, task>>)
      BY <2>1 DEF DesksNext, DesksVars, PolicyFiles
    <3>2. PoliciesInv'  BY <2>1, <3>1, PoliciesKept DEF PoliciesDesk
    <3> QED  BY <3>2 DEF PoliciesDesk, PoliciesInv
  <2>2. CASE focus # "policies"
    <3>1. focus' = focus /\ UNCHANGED <<now, code, policy>>
      BY <2>2 DEF DesksNext, DesksVars, PolicyFiles
    <3> QED  BY <2>2, <3>1
             DEF PoliciesDesk, Policies!TypeOK, Policies!CodesDiffer, Policies!Taken
  <2> QED  BY <2>1, <2>2
<1> QED  BY <1>1, <1>2, PTL DEF DesksSpec

LEMMA SyncAloneStands ==
    ASSUME NEW CONSTANT solo, Tasks = {solo}
    PROVE  DesksSpec => []SyncAlone
<1>1. DesksInit => SyncAlone
  BY SyncStarts DEF DesksInit, SyncAlone, Incomplete, Sync!Init, Sync!Idle
<1>2. SyncAlone /\ [DesksNext]_DesksVars => SyncAlone'
  <2> SUFFICES ASSUME SyncAlone, [DesksNext]_DesksVars, focus' = "sync"
               PROVE  SyncInv' /\ Incomplete'
    BY DEF SyncAlone
  <2>1. SyncInv /\ Incomplete /\ (Sync!Next \/ UNCHANGED <<log, task>>)
    BY DEF SyncAlone, DesksNext, DesksVars
  <2> QED  BY <2>1, SyncKept, CompletedStay
<1> QED  BY <1>1, <1>2, PTL DEF DesksSpec

LEMMA ExceptionsAloneStand ==
    ASSUME NEW CONSTANT solo, Tasks = {solo}
    PROVE  DesksSpec => []ExceptionsAlone
<1>1. DesksInit => ExceptionsAlone
  BY ExceptionStarts DEF DesksInit, ExceptionsAlone, Undecided, Exceptions!Init, Exceptions!Idle
<1>2. ExceptionsAlone /\ [DesksNext]_DesksVars => ExceptionsAlone'
  <2> SUFFICES ASSUME ExceptionsAlone, [DesksNext]_DesksVars, focus' = "exceptions"
               PROVE  ExceptionInv' /\ Undecided'
    BY DEF ExceptionsAlone
  <2>1. /\ ExceptionInv /\ Undecided
        /\ Exceptions!Next \/ UNCHANGED <<exception, pending, task>>
    BY DEF ExceptionsAlone, DesksNext, DesksVars, ExceptionFiles
  <2> QED  BY <2>1, ExceptionKept, VerdictsStay
<1> QED  BY <1>1, <1>2, PTL DEF DesksSpec

\* While calls do not overlap, whenever the server restarts, the documents of
\* every desk have their types, and there is one document of settings and one
\* calendar of a year, for the look before each insertion
\* (createCompanyWideSettings, LeavesService create), and no national id or
\* code is held twice, for the look before each change of one.
THEOREM SerialDocumentsConsistent ==
    ASSUME NEW CONSTANT solo, Tasks = {solo}
    PROVE  DesksSpec => []DocumentsConsistent
<1>1. /\ ConfigurationDesk /\ TrackingDesk /\ RequestsDesk /\ StructureDesk /\ PerformanceDesk
      /\ SigningDesk /\ HiringDesk /\ CalendarDesk /\ CalendarOfYear /\ PoliciesDesk /\ SyncDesk
      /\ ExceptionsDesk
      => DocumentsConsistent
  BY DEF ConfigurationDesk, TrackingDesk, RequestsDesk, StructureDesk, PerformanceDesk, SigningDesk,
         HiringDesk, CalendarDesk, CalendarOfYear, PoliciesDesk, SyncDesk, ExceptionsDesk,
         SettingsInv, SerialInv, DocumentsConsistent
<1> QED
  BY <1>1, ConfigurationStands, TrackingStands, RequestsStand, StructureStands, PerformanceStands,
     SigningStands, HiringStands, CalendarStands, CalendarOfYearStands, PoliciesStand, SyncStands,
     ExceptionsStand, PTL

\* Only a validation answers, and only a check of policies takes out of force.
OwnCalls ==
    \A t \in Tasks :
        /\ task[t].pc = "answer" => focus = "structure"
        /\ task[t].pc = "expire" => focus = "policies"

AtDesk == focus \in Desks

LEMMA DeskChosen == DesksSpec => []AtDesk
<1>1. DesksInit => AtDesk  BY DEF DesksInit, AtDesk
<1>2. AtDesk /\ [DesksNext]_DesksVars => AtDesk'  BY DEF AtDesk, DesksNext, DesksVars
<1> QED  BY <1>1, <1>2, PTL DEF DesksSpec

LEMMA CallsOwned ==
    ASSUME NEW CONSTANT solo, Tasks = {solo}
    PROVE  DesksSpec => []OwnCalls
<1> DEFINE Own(h) == h.pc # "answer" /\ h.pc # "expire"
<1>1. /\ \A h \in CallState : Own(h)
      /\ \A h \in TrackingCalls : Own(h)
      /\ \A h \in RequestCalls : Own(h)
      /\ \A h \in AppraisalCalls : Own(h)
  BY DEF CallState, Idle, TrackingCalls, Tracking!Idle, RequestCalls, Requests!Idle, Approving,
         AppraisalCalls, Performance!Idle
<1>2. /\ \A h \in SigningCalls : Own(h)
      /\ \A h \in HiringCalls : Own(h)
      /\ \A h \in CalendarCalls : Own(h)
      /\ \A h \in SyncCalls : Own(h)
      /\ \A h \in ExceptionCalls : Own(h)
  BY DEF SigningCalls, Signing!Idle, HiringCalls, Hiring!Idle, CalendarCalls, Calendar!Idle,
         SyncCalls, Sync!Idle, ExceptionCalls, Exceptions!Idle
<1>3. /\ \A h \in StructureCalls : h.pc # "expire"
      /\ \A h \in PolicyCalls : h.pc # "answer"
  BY DEF StructureCalls, Structure!Idle, PolicyCalls, Policies!Idle
<1>4. /\ AtDesk /\ ConfigurationDesk /\ TrackingDesk /\ RequestsDesk /\ StructureDesk
      /\ PerformanceDesk /\ SigningDesk /\ HiringDesk /\ CalendarDesk /\ PoliciesDesk /\ SyncDesk
      /\ ExceptionsDesk
      => OwnCalls
  <2> SUFFICES ASSUME AtDesk, ConfigurationDesk, TrackingDesk, RequestsDesk, StructureDesk,
                      PerformanceDesk, SigningDesk, HiringDesk, CalendarDesk, PoliciesDesk, SyncDesk,
                      ExceptionsDesk, NEW t \in Tasks
               PROVE  /\ task[t].pc = "answer" => focus = "structure"
                      /\ task[t].pc = "expire" => focus = "policies"
    BY DEF OwnCalls
  <2>1. CASE focus \in {"configuration", "tracking", "requests", "performance"}
    <3>1. \/ task[t] \in CallState \/ task[t] \in TrackingCalls
          \/ task[t] \in RequestCalls \/ task[t] \in AppraisalCalls
      BY <2>1 DEF ConfigurationDesk, SettingsInv, SerialInv, TypeOK, TrackingDesk, TrackingInv,
                  RequestsDesk, RequestsInv, PerformanceDesk, AppraisalInv
    <3> QED  BY <1>1, <3>1
  <2>2. CASE focus \in {"bonuses", "hiring", "calendar", "sync", "exceptions"}
    <3>1. \/ task[t] \in SigningCalls \/ task[t] \in HiringCalls \/ task[t] \in CalendarCalls
          \/ task[t] \in SyncCalls \/ task[t] \in ExceptionCalls
      BY <2>2 DEF SigningDesk, SigningInv, HiringDesk, HiringInv, CalendarDesk, CalendarInv,
                  SyncDesk, SyncInv, ExceptionsDesk, ExceptionInv
    <3> QED  BY <1>2, <3>1
  <2>3. CASE focus = "structure"
    BY <1>3, <2>3 DEF StructureDesk, StructureInv
  <2>4. CASE focus = "policies"
    BY <1>3, <2>4 DEF PoliciesDesk, PoliciesInv
  <2> QED  BY <2>1, <2>2, <2>3, <2>4, DesksAssumption DEF AtDesk
<1> QED
  BY <1>4, DeskChosen, ConfigurationStands, TrackingStands, RequestsStand, StructureStands,
     PerformanceStands, SigningStands, HiringStands, CalendarStands, PoliciesStand, SyncStands,
     ExceptionsStand, PTL

\* While calls do not overlap, the validation of a reporting line accepts it
\* only when the target does not report to the source, and speaks of a loop only
\* when it does, on lines of any length and with loops elsewhere
\* (validateReportingLine).
THEOREM SerialVerdictIsRight ==
    ASSUME NEW CONSTANT solo, Tasks = {solo}
    PROVE  DesksSpec => []VerdictIsRight
<1>1. ASSUME StructureDesk, OwnCalls  PROVE VerdictIsRight
  <2>1. CASE focus = "structure"
    BY <1>1, <2>1, VerdictsHold DEF StructureDesk, VerdictIsRight
  <2>2. CASE focus # "structure"
    BY <1>1, <2>2 DEF OwnCalls, VerdictIsRight, Structure!VerdictIsRight
  <2> QED  BY <2>1, <2>2
<1> QED  BY <1>1, StructureStands, CallsOwned, PTL

\* While calls do not overlap, a change request is approved only when the
\* profile holds what it asks for (approveChangeRequest).
THEOREM SerialApprovedIsApplied ==
    ASSUME NEW CONSTANT solo, Tasks = {solo}
    PROVE  DesksSpec => ApprovedIsApplied
<1> DEFINE Applied ==
             \A r \in ProfileRequests, t \in Tasks :
                 (/\ request'[r] # request[r]
                  /\ task[t].pc = "approve" /\ task[t].ref = r) =>
                     LET p == profile[request[r].of]
                     IN  request[r].newValue = IF request[r].field = "nationalId"
                                               THEN p.nationalId ELSE p.contractType
<1>1. RequestsDesk /\ [DesksNext]_DesksVars => [Applied]_Requests!vars
  <2> SUFFICES ASSUME RequestsDesk, [DesksNext]_DesksVars  PROVE Applied
    BY DEF Requests!vars
  <2>1. CASE focus = "requests"  BY <2>1, RequestsHold DEF RequestsDesk
  <2>2. CASE focus # "requests"
    <3>1. request' = request  BY <2>2 DEF DesksNext, DesksVars, RequestFiles
    <3> QED  BY <3>1
  <2> QED  BY <2>1, <2>2
<1> QED
  BY <1>1, RequestsStand, PTL DEF DesksSpec, ApprovedIsApplied, Requests!ApprovedIsApplied

\* While calls do not overlap, the check of leave policies takes out of force
\* what had expired when it began and nothing else, with the date it expired at
\* (checkExpiryRules).
THEOREM SerialCheckIsExact ==
    ASSUME NEW CONSTANT solo, Tasks = {solo}
    PROVE  DesksSpec => CheckIsExact
<1> DEFINE Exact == \A t \in Tasks, p \in PolicyIds : ExactFor(t, p)
<1>1. PoliciesDesk /\ OwnCalls /\ [DesksNext]_DesksVars => [Exact]_Policies!vars
  <2> SUFFICES ASSUME PoliciesDesk, OwnCalls, [DesksNext]_DesksVars  PROVE Exact
    BY DEF Policies!vars
  <2>1. CASE focus = "policies"
    <3>1. Policies!Next \/ UNCHANGED <<now, code, policy, task>>
      BY <2>1 DEF DesksNext, DesksVars, PolicyFiles
    <3> QED  BY <2>1, <3>1, PoliciesKept DEF PoliciesDesk, ChecksExact
  <2>2. CASE focus # "policies"  BY <2>2 DEF OwnCalls, ExactFor
  <2> QED  BY <2>1, <2>2
<1> QED
  BY <1>1, PoliciesStand, CallsOwned, PTL
     DEF DesksSpec, CheckIsExact, Policies!CheckIsExact, ExactFor

\* While calls do not overlap, an approved or rejected exception and a completed
\* synchronisation stay so (approveException, rejectException,
\* escalateException, retryPayrollSync).
THEOREM SerialDecisionsStand ==
    ASSUME NEW CONSTANT solo, Tasks = {solo}
    PROVE  DesksSpec => DecisionsStand
<1>1. ExceptionsAlone /\ [DesksNext]_DesksVars => [DecidedKept]_Exceptions!vars
  <2> SUFFICES ASSUME ExceptionsAlone, [DesksNext]_DesksVars  PROVE DecidedKept
    BY DEF Exceptions!vars
  <2>1. CASE focus = "exceptions"
    <3>1. Exceptions!Next \/ UNCHANGED <<exception, pending, task>>
      BY <2>1 DEF DesksNext, DesksVars, ExceptionFiles
    <3> QED  BY <2>1, <3>1, VerdictsStay DEF ExceptionsAlone
  <2>2. CASE focus # "exceptions"
    <3>1. exception' = exception  BY <2>2 DEF DesksNext, DesksVars, ExceptionFiles
    <3> QED  BY <3>1 DEF DecidedKept
  <2> QED  BY <2>1, <2>2
<1>2. SyncAlone /\ [DesksNext]_DesksVars => [LogsStay]_Sync!vars
  <2> SUFFICES ASSUME SyncAlone, [DesksNext]_DesksVars  PROVE LogsStay
    BY DEF Sync!vars
  <2>1. CASE focus = "sync"
    <3>1. Sync!Next \/ UNCHANGED <<log, task>>  BY <2>1 DEF DesksNext, DesksVars
    <3> QED  BY <2>1, <3>1, CompletedStay DEF SyncAlone
  <2>2. CASE focus # "sync"
    <3>1. log' = log  BY <2>2 DEF DesksNext, DesksVars
    <3> QED  BY <3>1 DEF LogsStay
  <2> QED  BY <2>1, <2>2
<1> QED
  BY <1>1, <1>2, ExceptionsAloneStand, SyncAloneStands, PTL
     DEF DesksSpec, DecisionsStand, Exceptions!DecidedStays, DecidedKept, Sync!CompletedStays,
         LogsStay

\* The same of the configurations, at their desk: an approved one keeps its
\* content, and an approved insurance bracket is not deleted.
THEOREM SerialConfigurationIsFrozen ==
    ASSUME NEW CONSTANT solo, Tasks = {solo}
    PROVE  DesksSpec => ApprovedIsFrozen
<1>1. ConfigurationDesk /\ [DesksNext]_DesksVars =>
         [\A c \in Configs :
            config[c].status = APPROVED =>
                /\ config'[c].content = config[c].content
                /\ Bracket(c) => config'[c].status # "deleted"]_vars
  <2> SUFFICES ASSUME ConfigurationDesk, [DesksNext]_DesksVars
               PROVE  \A c \in Configs : Frozen(c)
    BY DEF Frozen
  <2>1. CASE focus = "configuration"
    <3>1. [Next]_vars  BY <2>1 DEF DesksNext, DesksVars, vars
    <3> QED  BY <2>1, <3>1, SerialKept DEF ConfigurationDesk, SettingsInv
  <2>2. CASE focus # "configuration"
    <3>1. config' = config  BY <2>2 DEF DesksNext, DesksVars
    <3> QED  BY <3>1 DEF Frozen, Bracket, Kept
  <2> QED  BY <2>1, <2>2
<1> QED  BY <1>1, ConfigurationStands, PTL DEF DesksSpec, ApprovedIsFrozen
=============================================================================
