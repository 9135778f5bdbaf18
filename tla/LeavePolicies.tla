---------------------------- MODULE LeavePolicies ----------------------------
(***************************************************************************)
(* LeavesService: categories and types of leave, whose names and codes are *)
(* unique, and leave policies, which HR's check takes out of force when    *)
(* they expire.  A handler is one action per database round trip.  Time is *)
(* counted in months; what else a document says is left out.               *)
(***************************************************************************)
EXTENDS Integers, MongooseDoc

CONSTANTS
    Tasks,      \* calls that can be in progress at the same time
    Types,      \* ids of categories and leave types
    Codes,      \* their names and codes
    Policies,   \* ids of policy documents
    Dates,      \* the dates the bodies of requests name
    Months,     \* what expiryAfterMonths may be
    LastTime,   \* bound: the last moment
    None

VARIABLES
    now,        \* the clock of the server
    code,       \* code[y]: the code on the document of y, None when not kept
    policy,     \* policy[p]: the document of p
    task        \* task[t]: what the call t remembers between two awaits

vars == <<now, code, policy, task>>

NoPolicy == [status |-> "absent", isActive |-> FALSE, createdAt |-> None, effectiveFrom |-> None,
             effectiveTo |-> None, expiryAfterMonths |-> None]

Idle == [pc |-> "idle"]

Init ==
    /\ now = 0
    /\ code = [y \in Types |-> None]
    /\ policy = [p \in Policies |-> NoPolicy]
    /\ task = [t \in Tasks |-> Idle]

-----------------------------------------------------------------------------
Ready(t) == task[t].pc = "idle"

Continue(t, h) == task' = [task EXCEPT ![t] = h]

\* A handler returns or throws.
Return(t) == Continue(t, Idle)

timePasses ==
    /\ now < LastTime
    /\ now' = now + 1
    /\ UNCHANGED <<code, policy, task>>

-----------------------------------------------------------------------------
(* Categories and types.                                                    *)

Taken(y, c) == \E z \in Types \ {y} : code[z] = c

\* leaveType.create and update look for the code first, categories do not; a
\* unique index refuses the write of either.
setCode(t, y, c) ==
    /\ Ready(t)
    /\ ~Taken(y, c)
    /\ code' = [code EXCEPT ![y] = c]
    /\ UNCHANGED <<now, policy, task>>

\* Policies and requests that name the type are not looked for.
removeType(t, y) ==
    /\ Ready(t)
    /\ code[y] # None
    /\ code' = [code EXCEPT ![y] = None]
    /\ UNCHANGED <<now, policy, task>>

-----------------------------------------------------------------------------
(* Policies.                                                                *)

Kept(p) == policy[p].status = "kept"

\* The whitelist of the route drops expiryAfterMonths; a document written to
\* the collection by hand may have it.
createPolicy(t, p, from, to, months) ==
    /\ Ready(t)
    /\ policy[p] = NoPolicy
    /\ policy' = [policy EXCEPT ![p] = [status |-> "kept", isActive |-> TRUE, createdAt |-> now,
                      effectiveFrom |-> from, effectiveTo |-> to, expiryAfterMonths |-> months]]
    /\ UNCHANGED <<now, code, task>>

\* The fields the body has; isActive is not among those the route lets through.
updatePolicy(t, p, from, to) ==
    /\ Ready(t)
    /\ Kept(p)
    /\ policy' = [policy EXCEPT ![p].effectiveFrom = IF from = None THEN @ ELSE from,
                                ![p].effectiveTo = IF to = None THEN @ ELSE to]
    /\ UNCHANGED <<now, code, task>>

removePolicy(t, p) ==
    /\ Ready(t)
    /\ Kept(p)
    /\ policy' = [policy EXCEPT ![p].status = "deleted"]
    /\ UNCHANGED <<now, code, task>>

\* Mutant: the expiry counts from the creation also of a policy that takes
\* effect later.
ExpiryDate_FromCreation(doc) == doc.createdAt + doc.expiryAfterMonths

\* Counted from the date the policy takes effect, or else from its creation.
ExpiryDate(doc) ==
    (IF doc.effectiveFrom = None THEN doc.createdAt ELSE doc.effectiveFrom) + doc.expiryAfterMonths

\* Policies without a positive number of months never expire.
Expired(doc, time) ==
    /\ doc.status = "kept" /\ doc.isActive
    /\ doc.expiryAfterMonths # None /\ doc.expiryAfterMonths > 0
    /\ ExpiryDate(doc) <= time

\* The candidates are read at once, the clock too.
checkExpiryRules(t) ==
    /\ Ready(t)
    /\ Continue(t, [pc |-> "expire", now |-> now,
                    due |-> {p \in Policies : Expired(policy[p], now)}, read |-> policy])
    /\ UNCHANGED <<now, code, policy>>

\* One round of the loop: the save throws, and ends the check, when the policy
\* was removed meanwhile.
expirePolicy(t, p) ==
    LET h == task[t] IN
    /\ h.pc = "expire"
    /\ p \in h.due
    /\ IF Kept(p)
       THEN /\ policy' = [policy EXCEPT ![p] = Saved(@, h.read[p],
                              [h.read[p] EXCEPT !.isActive = FALSE,
                                                !.effectiveTo = ExpiryDate(h.read[p])])]
            /\ Continue(t, [h EXCEPT !.due = @ \ {p}])
       ELSE /\ Return(t)
            /\ UNCHANGED policy
    /\ UNCHANGED <<now, code>>

endCheck(t) ==
    /\ task[t].pc = "expire"
    /\ task[t].due = {}
    /\ Return(t)
    /\ UNCHANGED <<now, code, policy>>

\* leavePolicy.findActive.
Active(p) ==
    LET doc == policy[p] IN
    /\ doc.status = "kept" /\ doc.isActive
    /\ \/ /\ doc.effectiveFrom # None /\ doc.effectiveFrom <= now
          /\ doc.effectiveTo # None => doc.effectiveTo >= now
       \/ doc.effectiveFrom = None /\ doc.effectiveTo = None

-----------------------------------------------------------------------------
\* A crash or redeploy loses the calls in progress.
restart ==
    /\ \E t \in Tasks : ~Ready(t)
    /\ task' = [t \in Tasks |-> Idle]
    /\ UNCHANGED <<now, code, policy>>

Call(t) ==
    \/ \E y \in Types : removeType(t, y) \/ \E c \in Codes : setCode(t, y, c)
    \/ \E p \in Policies :
          \/ \E from \in Dates \cup {None}, to \in Dates \cup {None} :
                \/ updatePolicy(t, p, from, to)
                \/ \E m \in Months \cup {None} : createPolicy(t, p, from, to, m)
          \/ removePolicy(t, p)
    \/ checkExpiryRules(t)

Step(t) == endCheck(t) \/ \E p \in Policies : expirePolicy(t, p)

Next == timePasses \/ restart \/ \E t \in Tasks : Call(t) \/ Step(t)

Spec == Init /\ [][Next]_vars

-----------------------------------------------------------------------------
(* Properties.                                                              *)

Policy == [status : {"kept", "deleted"}, isActive : BOOLEAN, createdAt : 0 .. LastTime,
           effectiveFrom : Dates \cup {None}, effectiveTo : Int \cup {None},
           expiryAfterMonths : Months \cup {None}]

\* The stored documents have their types.
TypeOK == code \in [Types -> Codes \cup {None}] /\ policy \in [Policies -> Policy \cup {NoPolicy}]

\* While calls do not overlap, a check that ends has taken every policy out of
\* force that had expired when it began, and no other, with the date it expired
\* at (checkExpiryRules).
CheckIsExact ==
    [][\A t \in Tasks, p \in Policies :
          task[t].pc = "expire" =>
              /\ (task[t].due = {} /\ ~task'[t].pc = "expire") => ~Expired(policy[p], task[t].now)
              /\ (policy[p].isActive /\ ~policy'[p].isActive) =>
                    LET doc == task[t].read[p]
                        base == IF doc.effectiveFrom = None THEN doc.createdAt ELSE doc.effectiveFrom
                    IN  /\ base + doc.expiryAfterMonths <= now
                        /\ policy'[p].effectiveTo \in base .. now]_vars

\* No two documents have one code.
CodesDiffer == \A y \in Types : code[y] # None => ~Taken(y, code[y])
=============================================================================
