--------------------------- MODULE ChangeRequests ----------------------------
(***************************************************************************)
(* EmployeeProfileService: profiles, and the requests by which employees   *)
(* have fields of theirs changed.  A handler is one action per database    *)
(* round trip.  Of a profile the model keeps the status, the national id,  *)
(* which is unique, and one field that is not (contractType stands for the *)
(* others a request may name).  Passwords, contact data and the views of   *)
(* a team guard nothing and are left out.                                  *)
(***************************************************************************)
EXTENDS Integers, FiniteSets

CONSTANTS
    Tasks,      \* calls that can be in progress at the same time
    Employees,
    Requests,   \* ids of change request documents
    Ids,        \* national ids
    Types,      \* contract types
    None

PENDING == "PENDING"
APPROVED == "APPROVED"
REJECTED == "REJECTED"

VARIABLES
    profile,    \* profile[e]: the document of e
    request,    \* request[r]: the document of r
    task        \* task[t]: what the call t remembers between two awaits

vars == <<profile, request, task>>

NoProfile == [status |-> "absent", nationalId |-> None, contractType |-> None]

NoRequest == [status |-> "absent", of |-> None, field |-> None, newValue |-> None]

Idle == [pc |-> "idle"]

Init ==
    /\ profile = [e \in Employees |-> NoProfile]
    /\ request = [r \in Requests |-> NoRequest]
    /\ task = [t \in Tasks |-> Idle]

\* The fields a request may name, with the values it may ask for.
Wishes == [field : {"nationalId"}, newValue : Ids] \cup [field : {"contractType"}, newValue : Types]

-----------------------------------------------------------------------------
Ready(t) == task[t].pc = "idle"

Continue(t, h) == task' = [task EXCEPT ![t] = h]

\* A handler returns or throws.
Return(t) == Continue(t, Idle)

Employed(e) == profile[e] # NoProfile

\* The employees that have the national id i.
Holders(i) == {e \in Employees : profile[e].nationalId = i}

\* findByIdAndUpdate of one field; the unique index refuses a national id of
\* another employee, and the call then throws.
Refused(e, w) == w.field = "nationalId" /\ Holders(w.newValue) \ {e} # {}

Updated(e, w) ==
    IF w.field = "nationalId" THEN [profile EXCEPT ![e].nationalId = w.newValue]
                              ELSE [profile EXCEPT ![e].contractType = w.newValue]

-----------------------------------------------------------------------------
(* Profiles.                                                                *)

create(t, e, i, c) ==
    /\ Ready(t)
    /\ ~Employed(e)
    /\ Holders(i) = {}
    /\ profile' = [profile EXCEPT ![e] =
                      [status |-> "ACTIVE", nationalId |-> i, contractType |-> c]]
    /\ UNCHANGED <<request, task>>

\* AuthService: the employee number is looked for, the password hashed, the
\* profile inserted.  It names no contract.
register(t, e, i) ==
    /\ Ready(t)
    /\ ~Employed(e)
    /\ Continue(t, [pc |-> "register", ref |-> e, nationalId |-> i])
    /\ UNCHANGED <<profile, request>>

\* The unique indexes refuse a number or a national id taken meanwhile.
insertProfile(t) ==
    LET h == task[t] IN
    /\ h.pc = "register"
    /\ profile' = IF Employed(h.ref) \/ Holders(h.nationalId) # {} THEN profile
                  ELSE [profile EXCEPT ![h.ref] =
                           [NoProfile EXCEPT !.status = "ACTIVE", !.nationalId = h.nationalId]]
    /\ Return(t)
    /\ UNCHANGED request

update(t, e, w) ==
    /\ Ready(t)
    /\ Employed(e)
    /\ ~Refused(e, w)
    /\ profile' = Updated(e, w)
    /\ UNCHANGED <<request, task>>

deactivate(t, e) ==
    /\ Ready(t)
    /\ Employed(e)
    /\ Continue(t, [pc |-> "deactivate", ref |-> e])
    /\ UNCHANGED <<profile, request>>

setInactive(t) ==
    /\ task[t].pc = "deactivate"
    /\ profile' = [profile EXCEPT ![task[t].ref].status = "INACTIVE"]
    /\ Return(t)
    /\ UNCHANGED request

-----------------------------------------------------------------------------
(* Change requests and disputes of them, which are documents of one kind.   *)

\* The employee who asks must exist; the profile the request names is taken
\* from the body and is not looked up.
createChangeRequest(t, e, f, w) ==
    /\ Ready(t)
    /\ Employed(e)
    /\ Continue(t, [pc |-> "insert",
                    doc |-> [status |-> PENDING, of |-> f, field |-> w.field,
                             newValue |-> w.newValue]])
    /\ UNCHANGED <<profile, request>>

insertRequest(t, r) ==
    /\ task[t].pc = "insert"
    /\ request[r] = NoRequest
    /\ request' = [request EXCEPT ![r] = task[t].doc]
    /\ Return(t)
    /\ UNCHANGED profile

\* A dispute names a request in its description and asks for no field.
submitDispute(t, r, f) ==
    /\ Ready(t)
    /\ request[r] = NoRequest
    /\ request' = [request EXCEPT ![r] = [NoRequest EXCEPT !.status = PENDING, !.of = f]]
    /\ UNCHANGED <<profile, task>>

\* Whatever the status is; a document without a field is refused.
approveChangeRequest(t, r) ==
    /\ Ready(t)
    /\ request[r].status # "absent"
    /\ request[r].field # None
    /\ Continue(t, [pc |-> "employee", ref |-> r, of |-> request[r].of,
                    wish |-> [field |-> request[r].field, newValue |-> request[r].newValue]])
    /\ UNCHANGED <<profile, request>>

\* A national id that the employee has already needs no change, any other is
\* looked for among all employees first.
findEmployee(t) ==
    LET h == task[t] IN
    /\ h.pc = "employee"
    /\ \/ /\ ~Employed(h.of)
          /\ Return(t)
       \/ /\ Employed(h.of)
          /\ Continue(t, [h EXCEPT !.pc =
                 IF h.wish.field # "nationalId" THEN "apply"
                 ELSE IF profile[h.of].nationalId = h.wish.newValue THEN "approve" ELSE "duplicate"])
    /\ UNCHANGED <<profile, request>>

findDuplicate(t) ==
    /\ task[t].pc = "duplicate"
    /\ IF Holders(task[t].wish.newValue) = {}
       THEN Continue(t, [task[t] EXCEPT !.pc = "apply"])
       ELSE Return(t)
    /\ UNCHANGED <<profile, request>>

\* Mutant: a failed update does not end the handler.
applyChange_Swallowed(t) ==
    /\ task[t].pc = "apply"
    /\ profile' = IF task[t].wish.field = "nationalId" THEN profile
                  ELSE Updated(task[t].of, task[t].wish)
    /\ Continue(t, [task[t] EXCEPT !.pc = "approve"])
    /\ UNCHANGED request

applyChange(t) ==
    LET h == task[t] IN
    /\ h.pc = "apply"
    /\ \/ /\ Refused(h.of, h.wish)
          /\ Return(t)
          /\ UNCHANGED profile
       \/ /\ ~Refused(h.of, h.wish)
          /\ profile' = Updated(h.of, h.wish)
          /\ Continue(t, [h EXCEPT !.pc = "approve"])
    /\ UNCHANGED request

approveRequest(t) ==
    /\ task[t].pc = "approve"
    /\ request' = [request EXCEPT ![task[t].ref].status = APPROVED]
    /\ Return(t)
    /\ UNCHANGED profile

\* find, set the status, save: nothing is written when it is set already.
Decide(t, r, s) ==
    /\ Ready(t)
    /\ request[r].status # "absent"
    /\ IF request[r].status = s THEN UNCHANGED task
       ELSE Continue(t, [pc |-> "save", ref |-> r, status |-> s])
    /\ UNCHANGED <<profile, request>>

rejectChangeRequest(t, r) == Decide(t, r, REJECTED)

withdrawChangeRequest(t, r) == request[r].status = PENDING /\ Decide(t, r, REJECTED)

resolveDispute(t, r) == Decide(t, r, REJECTED)

approveDispute(t, r) == Decide(t, r, APPROVED)

saveRequest(t) ==
    /\ task[t].pc = "save"
    /\ request' = [request EXCEPT ![task[t].ref].status = task[t].status]
    /\ Return(t)
    /\ UNCHANGED profile

-----------------------------------------------------------------------------
\* A crash or redeploy loses the calls in progress.
restart ==
    /\ \E t \in Tasks : ~Ready(t)
    /\ task' = [t \in Tasks |-> Idle]
    /\ UNCHANGED <<profile, request>>

CallProfile(t) ==
    \E e \in Employees : deactivate(t, e) \/ \E w \in Wishes : update(t, e, w)

CallRequest(t) ==
    \/ \E e, f \in Employees, w \in Wishes : createChangeRequest(t, e, f, w)
    \/ \E r \in Requests :
          approveChangeRequest(t, r) \/ rejectChangeRequest(t, r) \/ withdrawChangeRequest(t, r)

CallDispute(t) ==
    \E r \in Requests :
        \/ \E f \in Employees : submitDispute(t, r, f)
        \/ resolveDispute(t, r) \/ approveDispute(t, r)

Call(t) ==
    \/ \E e \in Employees, i \in Ids :
          register(t, e, i) \/ \E c \in Types : create(t, e, i, c)
    \/ CallProfile(t) \/ CallRequest(t) \/ CallDispute(t)

Step(t) ==
    \/ insertProfile(t) \/ setInactive(t) \/ findEmployee(t) \/ findDuplicate(t) \/ applyChange(t)
    \/ approveRequest(t) \/ saveRequest(t)
    \/ \E r \in Requests : insertRequest(t, r)

Next == restart \/ \E t \in Tasks : Call(t) \/ Step(t)

Spec == Init /\ [][Next]_vars

-----------------------------------------------------------------------------
(* Properties.                                                              *)

Profile == [status : {"ACTIVE", "INACTIVE"}, nationalId : Ids, contractType : Types \cup {None}]

Request == [status : {PENDING, APPROVED, REJECTED}, of : Employees,
            field : {"nationalId", "contractType", None}, newValue : Ids \cup Types \cup {None}]

\* The stored documents have their types.
TypeOK ==
    /\ profile \in [Employees -> Profile \cup {NoProfile}]
    /\ request \in [Requests -> Request \cup {NoRequest}]

\* While calls do not overlap, a change request is marked approved by
\* approveChangeRequest only when the profile holds what it asks for, also when
\* an earlier approval of it was cut short by a restart or refused.
ApprovedIsApplied ==
    [][\A r \in Requests, t \in Tasks :
          (/\ request'[r] # request[r]
           /\ task[t].pc = "approve" /\ task[t].ref = r) =>
              LET p == profile[request[r].of]
              IN  request[r].newValue = IF request[r].field = "nationalId"
                                        THEN p.nationalId ELSE p.contractType]_vars

\* No two employees have one national id.
NationalIdsDiffer == \A i \in Ids : Cardinality(Holders(i)) <= 1
=============================================================================
