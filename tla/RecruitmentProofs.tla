-------------------------- MODULE RecruitmentProofs --------------------------
(***************************************************************************)
(* Theorems about Recruitment for every set of calls, applications, offers *)
(* and interviews, under every interleaving and any number of restarts.    *)
(***************************************************************************)
EXTENDS Recruitment, SumProofs, TLAPS

-----------------------------------------------------------------------------
(* What one offer holds, and what a call that is about to save it means to  *)
(* change of it.                                                            *)

\* What is on file for an offer has grounds.
Sound(d) ==
    /\ d.response = ACCEPTED => d.signed
    /\ d.final = APPROVED => d.yes >= 2 \/ d.signed

\* upd is read with an approval or an answer added: what it adds has grounds.
Extends(read, upd) ==
    /\ upd.app = read.app
    /\ upd.yes >= read.yes /\ upd.no >= read.no
    /\ read.signed => upd.signed
    /\ upd.response # read.response /\ upd.response = ACCEPTED => upd.signed
    /\ upd.final # read.final /\ upd.final = APPROVED => upd.yes >= 2 \/ upd.signed

\* What was read of an offer is still there: approvals and signatures stay.
OnFile(read, stored) ==
    /\ stored.app = read.app
    /\ stored.yes >= read.yes /\ stored.no >= read.no
    /\ read.signed => stored.signed

LEMMA NoOfferType == NoOffer \in OfferDoc
  BY DEF NoOffer, OfferDoc, OfferResponseStatus, OfferFinalStatus, PENDING

LEMMA IdleType == Idle \in Frame
  BY NoOfferType DEF Idle, Frame

\* An approval adds an entry, and is final only with two that approve.
LEMMA JudgedExtends ==
    ASSUME NEW d \in OfferDoc, NEW vote \in {"yes", "no"}
    PROVE  /\ Judged(d, vote) \in OfferDoc
           /\ Extends(d, Judged(d, vote))
           /\ Judged(d, vote).signed = d.signed
<1> DEFINE p == [d EXCEPT ![vote] = @ + 1]
<1>1. /\ d.yes \in Nat /\ d.no \in Nat /\ d.yes + 1 \in Nat /\ d.no + 1 \in Nat
  BY DEF OfferDoc
<1>2. p \in OfferDoc
  BY <1>1 DEF OfferDoc
<1>3. /\ p.app = d.app /\ p.response = d.response /\ p.final = d.final /\ p.signed = d.signed
      /\ p.yes >= d.yes /\ p.no >= d.no
  BY <1>1 DEF OfferDoc
<1> HIDE DEF p
<1>4. CASE AllApproved(p)
  <2> DEFINE q == [p EXCEPT !.final = APPROVED]
  <2>1. Judged(d, vote) = q  BY <1>4 DEF Judged, p
  <2>2. q \in OfferDoc  BY <1>2 DEF OfferDoc, OfferFinalStatus
  <2>3. /\ q.app = p.app /\ q.response = p.response /\ q.signed = p.signed
        /\ q.yes = p.yes /\ q.no = p.no
    BY <1>2 DEF OfferDoc
  <2>4. q.yes >= 2  BY <1>4, <2>3 DEF AllApproved
  <2> HIDE DEF q
  <2> QED  BY <1>3, <2>1, <2>2, <2>3, <2>4 DEF Extends
<1>5. CASE ~AllApproved(p)
  <2>1. Judged(d, vote) = p  BY <1>5 DEF Judged, p
  <2> QED  BY <1>2, <1>3, <2>1 DEF Extends
<1> QED  BY <1>4, <1>5

\* An answer changes the response, and a yes signs the offer.
LEMMA AnsweredExtends ==
    ASSUME NEW d \in OfferDoc, NEW answer \in OfferResponseStatus
    PROVE  /\ Answered(d, answer) \in OfferDoc
           /\ Extends(d, Answered(d, answer))
           /\ answer # ACCEPTED => Answered(d, answer).signed = d.signed
<1> DEFINE u == Answered(d, answer)
<1>0. d.yes \in Nat /\ d.no \in Nat  BY DEF OfferDoc
<1>1. ACCEPTED # REJECTED /\ ACCEPTED # PENDING /\ REJECTED # PENDING
      /\ APPROVED # REJECTED
  BY DEF ACCEPTED, REJECTED, PENDING, APPROVED
<1>2. CASE answer = ACCEPTED
  <2>1. u = [d EXCEPT !.response = ACCEPTED, !.signed = TRUE, !.final = APPROVED]
    BY <1>1, <1>2, Zenon DEF Answered
  <2>2. u \in OfferDoc
    BY <2>1 DEF OfferDoc, OfferResponseStatus, OfferFinalStatus
  <2>3. u.app = d.app /\ u.yes = d.yes /\ u.no = d.no /\ u.signed = TRUE
    BY <2>1 DEF OfferDoc
  <2> QED  BY <1>0, <1>2, <2>2, <2>3 DEF Extends
<1>3. CASE answer = REJECTED
  <2>1. u = [d EXCEPT !.response = REJECTED, !.final = REJECTED]
    BY <1>1, <1>3, Zenon DEF Answered
  <2>2. u \in OfferDoc
    BY <2>1 DEF OfferDoc, OfferResponseStatus, OfferFinalStatus
  <2>3. /\ u.app = d.app /\ u.yes = d.yes /\ u.no = d.no /\ u.signed = d.signed
        /\ u.response = REJECTED /\ u.final = REJECTED
    BY <2>1 DEF OfferDoc
  <2> QED  BY <1>0, <1>1, <1>3, <2>2, <2>3 DEF Extends
<1>4. CASE answer = PENDING
  <2>1. u = [d EXCEPT !.response = PENDING]
    BY <1>1, <1>4, Zenon DEF Answered
  <2>2. u \in OfferDoc
    BY <2>1 DEF OfferDoc, OfferResponseStatus
  <2>3. /\ u.app = d.app /\ u.yes = d.yes /\ u.no = d.no /\ u.signed = d.signed
        /\ u.response = PENDING /\ u.final = d.final
    BY <2>1 DEF OfferDoc
  <2> QED  BY <1>0, <1>1, <1>4, <2>2, <2>3 DEF Extends
<1> QED  BY <1>2, <1>3, <1>4 DEF OfferResponseStatus

\* Saving what other calls have overtaken keeps their approvals and their
\* signatures, and what is then on file has grounds.
LEMMA SavedOffer ==
    ASSUME NEW d \in OfferDoc, NEW read \in OfferDoc, NEW upd \in OfferDoc,
           Sound(d), Extends(read, upd), OnFile(read, d)
    PROVE  LET s == PushedOffer(d, read, upd)
           IN  /\ s \in OfferDoc
               /\ Sound(s)
               /\ OnFile(d, s)
               /\ s.signed => d.signed \/ upd.signed
<1> DEFINE F == {"app", "response", "final", "signed", "yes", "no"}
           val(f) == IF upd[f] # read[f] THEN upd[f] ELSE d[f]
           yes == d.yes + (upd.yes - read.yes)
           no == d.no + (upd.no - read.no)
           s == PushedOffer(d, read, upd)
<1>1. DOMAIN d = F  BY DEF OfferDoc
<1>2. Saved(d, read, upd) = [f \in F |-> val(f)]  BY <1>1 DEF Saved
<1>3. /\ d.yes \in Nat /\ d.no \in Nat /\ upd.yes \in Nat /\ upd.no \in Nat
      /\ read.yes \in Nat /\ read.no \in Nat
      /\ d.signed \in BOOLEAN /\ upd.signed \in BOOLEAN /\ read.signed \in BOOLEAN
  BY DEF OfferDoc
<1>4. /\ yes \in Nat /\ no \in Nat
      /\ yes >= d.yes /\ no >= d.no /\ yes >= upd.yes
  BY <1>3 DEF Extends, OnFile
<1>5. s = [f \in F |-> IF f = "yes" THEN yes ELSE IF f = "no" THEN no ELSE val(f)]
  BY <1>2 DEF PushedOffer
<1>6. s = [app |-> val("app"), response |-> val("response"), final |-> val("final"),
           signed |-> val("signed"), yes |-> yes, no |-> no]
  BY <1>5
<1>7. /\ val("app") = d.app
      /\ val("response") \in OfferResponseStatus
      /\ val("final") \in OfferFinalStatus
      /\ val("signed") \in BOOLEAN
  BY DEF OfferDoc, Extends
<1>8. /\ (d.signed => val("signed")) /\ (upd.signed => val("signed"))
      /\ (val("signed") => d.signed \/ upd.signed)
  BY <1>3 DEF Extends, OnFile
<1>9. val("response") = ACCEPTED => val("signed")
  BY <1>8 DEF Extends, Sound
<1>10. val("final") = APPROVED => yes >= 2 \/ val("signed")
  BY <1>3, <1>4, <1>8 DEF Extends, Sound
<1>11. d.app \in Applications \cup {NoDocument}  BY DEF OfferDoc
<1> HIDE DEF val, yes, no, s
<1>12. s \in OfferDoc  BY <1>4, <1>6, <1>7, <1>11 DEF OfferDoc
<1>13. Sound(s)  BY <1>6, <1>9, <1>10 DEF Sound
<1>14. OnFile(d, s)  BY <1>4, <1>6, <1>7, <1>8 DEF OnFile
<1>15. s.signed => d.signed \/ upd.signed  BY <1>6, <1>8
<1> QED  BY <1>12, <1>13, <1>14, <1>15 DEF s

-----------------------------------------------------------------------------
(* The inductive invariant: every offer on file has grounds, and so will it *)
(* when the calls in progress save what they hold.                         *)

\* The call holds an offer it is going to save.
Owns(h) == h.pc \in {"saveOffer", "onboard", "hire"} \/ (h.pc = "record" /\ h.oid # NoDocument)

Formed(h) ==
    /\ h.pc \in {"record", "insertOffer"} => h.aid \in Applications
    /\ h.pc = "record" => h.status \in ApplicationStatus
    /\ h.pc \in {"countFeedback", "complete"} => h.iid \in Interviews
    /\ Owns(h) => /\ h.oid \in Offers
                  /\ h.aid \in Applications
                  /\ Extends(h.seen, h.upd)
                  /\ h.pc = "record" => h.status = HIRED

\* Of the steps an acceptance takes, those before h.pc have been taken.
Underway(h, docs, handed, recorded) ==
    Owns(h) =>
        /\ docs[h.oid].app = h.aid
        /\ OnFile(h.seen, docs[h.oid])
        /\ h.pc \in {"hire", "record"} => h.oid \in handed
        /\ h.pc = "saveOffer" /\ h.upd.signed => h.oid \in handed /\ HIRED \in recorded[h.aid]

Filed(docs, handed, recorded) ==
    \A o \in Offers :
        /\ Sound(docs[o])
        /\ docs[o].signed => /\ o \in handed
                             /\ docs[o].app \in Applications
                             /\ HIRED \in recorded[docs[o].app]

TypeInv == TypeOK /\ \A t \in Tasks : Formed(task[t])

OfferInv ==
    /\ TypeInv
    /\ Filed(offer, onboarding, history)
    /\ \A t \in Tasks : Underway(task[t], offer, onboarding, history)

LEMMA IdleFormed == Formed(Idle) /\ ~Owns(Idle)
  BY DEF Idle, Formed, Owns

\* No step takes back an approval, a signature, a hand-over or a status.
Grows ==
    /\ \A o \in Offers : Offered(o) => OnFile(offer[o], offer'[o])
    /\ onboarding \subseteq onboarding'
    /\ \A a \in Applications : history[a] \subseteq history'[a]

LEMMA OnFileTransitive ==
    ASSUME NEW a \in OfferDoc, NEW b \in OfferDoc, NEW c \in OfferDoc,
           OnFile(a, b), OnFile(b, c)
    PROVE  OnFile(a, c)
<1>1. /\ a.yes \in Nat /\ b.yes \in Nat /\ c.yes \in Nat
      /\ a.no \in Nat /\ b.no \in Nat /\ c.no \in Nat
  BY DEF OfferDoc
<1> QED  BY <1>1 DEF OnFile

LEMMA OnFileReflexive == ASSUME NEW a \in OfferDoc  PROVE OnFile(a, a)
<1>1. a.yes \in Nat /\ a.no \in Nat  BY DEF OfferDoc
<1> QED  BY <1>1 DEF OnFile

\* What a call that is not scheduled remembers stays true.
LEMMA StillUnderway ==
    ASSUME OfferInv, TypeOK', Grows, NEW u \in Tasks
    PROVE  Underway(task[u], offer', onboarding', history')
<1> DEFINE h == task[u]
<1>0. h \in Frame /\ Formed(h) /\ Underway(h, offer, onboarding, history)
  BY DEF OfferInv, TypeInv, TypeOK
<1> HIDE DEF h
<1> SUFFICES ASSUME Owns(h)  PROVE Underway(h, offer', onboarding', history')
  BY DEF Underway, h
<1>1. h.oid \in Offers /\ h.aid \in Applications  BY <1>0 DEF Formed
<1>2. h.aid # NoDocument  BY <1>1, RecruitmentAssumption
<1>3. OnFile(offer[h.oid], offer'[h.oid])
  BY <1>0, <1>1, <1>2 DEF Underway, Grows, Offered
<1>4. offer[h.oid] \in OfferDoc /\ offer'[h.oid] \in OfferDoc /\ h.seen \in OfferDoc
  BY <1>0, <1>1 DEF OfferInv, TypeInv, TypeOK, Frame
<1>5. OnFile(h.seen, offer'[h.oid])
  BY <1>0, <1>3, <1>4, OnFileTransitive DEF Underway
<1>6. offer'[h.oid].app = h.aid  BY <1>0, <1>3 DEF Underway, OnFile
<1> QED  BY <1>0, <1>1, <1>5, <1>6 DEF Underway, Grows

LEMMA Advances ==
    ASSUME OfferInv, TypeOK', Grows, Filed(offer', onboarding', history'),
           NEW t \in Tasks, NEW h, Continue(t, h),
           Formed(h), Underway(h, offer', onboarding', history')
    PROVE  OfferInv'
<1>1. ASSUME NEW u \in Tasks
      PROVE  Formed(task'[u]) /\ Underway(task'[u], offer', onboarding', history')
  <2>1. CASE u = t
    <3>1. task'[u] = h  BY <2>1 DEF Continue, OfferInv, TypeInv, TypeOK
    <3> QED  BY <3>1
  <2>2. CASE u # t
    <3>1. task'[u] = task[u]  BY <2>2 DEF Continue, OfferInv, TypeInv, TypeOK
    <3> QED  BY <3>1, StillUnderway DEF OfferInv, TypeInv
  <2> QED  BY <2>1, <2>2
<1> QED  BY <1>1 DEF OfferInv, TypeInv

LEMMA Unchanged == OfferInv /\ UNCHANGED <<offer, onboarding, history>> =>
                        Grows /\ Filed(offer', onboarding', history')
<1> SUFFICES ASSUME OfferInv, UNCHANGED <<offer, onboarding, history>>
             PROVE  Grows /\ Filed(offer', onboarding', history')
  OBVIOUS
<1>1. \A o \in Offers : offer[o] \in OfferDoc  BY DEF OfferInv, TypeInv, TypeOK
<1>2. Grows  BY <1>1, OnFileReflexive DEF Grows
<1> QED  BY <1>2 DEF OfferInv

\* A step that leaves what is on file and moves one call.
LEMMA Moves ==
    ASSUME OfferInv, TypeOK', UNCHANGED <<offer, onboarding, history>>,
           NEW t \in Tasks, NEW h, Continue(t, h),
           Formed(h), Underway(h, offer, onboarding, history)
    PROVE  OfferInv'
  BY Unchanged, Advances

LEMMA MovesFree ==
    ASSUME OfferInv, TypeOK', UNCHANGED <<offer, onboarding, history>>,
           NEW t \in Tasks, NEW h, Continue(t, h), Formed(h), ~Owns(h)
    PROVE  OfferInv'
  BY Moves DEF Underway

-----------------------------------------------------------------------------
(* The steps on applications.                                              *)

LEMMA ContinueTyped ==
    ASSUME TypeOK, NEW t \in Tasks, NEW h \in Frame, Continue(t, h)
    PROVE  task' \in [Tasks -> Frame]
  BY DEF TypeOK, Continue

LEMMA ReturnTyped ==
    ASSUME TypeOK, NEW t \in Tasks, Return(t)
    PROVE  task' \in [Tasks -> Frame]
  BY IdleType, ContinueTyped DEF Return

LEMMA StatusTyped ==
    /\ {SUBMITTED, OFFER, HIRED, REJECTED} \subseteq ApplicationStatus
    /\ "absent" \notin ApplicationStatus
  BY DEF ApplicationStatus, SUBMITTED, OFFER, HIRED, REJECTED

\* A status is saved and goes on to be recorded.
LEMMA StatusSaved ==
    ASSUME OfferInv, NEW t \in Tasks, NEW a \in Applications, NEW s \in ApplicationStatus,
           SetStatus(a, s),
           Continue(t, [Idle EXCEPT !.pc = "record", !.aid = a, !.status = s]),
           UNCHANGED <<history, offer, onboarding, interview, feedback>>
    PROVE  OfferInv'
<1> DEFINE h == [Idle EXCEPT !.pc = "record", !.aid = a, !.status = s]
<1>1. h \in Frame /\ h.pc = "record" /\ h.aid = a /\ h.status = s /\ h.oid = NoDocument
  BY IdleType DEF Idle, Frame
<1> HIDE DEF h
<1>2. Continue(t, h)  BY DEF h
<1>3. Formed(h) /\ ~Owns(h)  BY <1>1 DEF Formed, Owns
<1>4. application' \in [Applications -> ApplicationStatus \cup {"absent"}]
  BY DEF SetStatus, OfferInv, TypeInv, TypeOK
<1>5. TypeOK'
  BY <1>1, <1>2, <1>4, ContinueTyped DEF OfferInv, TypeInv, TypeOK
<1> QED  BY <1>2, <1>3, <1>5, MovesFree

LEMMA StepApplication ==
    ASSUME OfferInv, NEW t \in Tasks, updateToHired(t) \/ createApplicationHistory(t)
    PROVE  OfferInv'
<1> DEFINE f == task[t]
<1>0. f \in Frame /\ Formed(f) /\ Underway(f, offer, onboarding, history)
  BY DEF OfferInv, TypeInv, TypeOK
<1> HIDE DEF f
<1>1. CASE updateToHired(t)
  <2> DEFINE h == [f EXCEPT !.pc = "record", !.status = HIRED]
  <2>1. /\ f.pc = "hire" /\ SetStatus(f.aid, HIRED) /\ Continue(t, h)
        /\ UNCHANGED <<history, offer, onboarding, interview, feedback>>
    BY <1>1 DEF updateToHired, f
  <2>2. Owns(f) /\ f.aid \in Applications  BY <1>0, <2>1 DEF Owns, Formed
  <2>3. /\ h \in Frame
        /\ h.pc = "record" /\ h.status = HIRED /\ h.aid = f.aid /\ h.oid = f.oid
        /\ h.seen = f.seen /\ h.upd = f.upd
    BY <1>0, StatusTyped DEF Frame
  <2> HIDE DEF h
  <2>4. Formed(h)  BY <1>0, <2>2, <2>3, StatusTyped DEF Formed
  <2>5. Underway(h, offer, onboarding, history)
    BY <1>0, <2>1, <2>2, <2>3 DEF Underway
  <2>6. application' \in [Applications -> ApplicationStatus \cup {"absent"}]
    BY <2>1, StatusTyped DEF SetStatus, OfferInv, TypeInv, TypeOK
  <2>7. TypeOK'
    BY <2>1, <2>3, <2>6, ContinueTyped DEF OfferInv, TypeInv, TypeOK
  <2> QED  BY <2>1, <2>4, <2>5, <2>7, Moves
<1>2. CASE createApplicationHistory(t)
  <2>1. /\ f.pc = "record"
        /\ history' = [history EXCEPT ![f.aid] = @ \cup {f.status}]
        /\ UNCHANGED <<application, offer, onboarding, interview, feedback>>
    BY <1>2 DEF createApplicationHistory, f
  <2>2. f.aid \in Applications /\ f.status \in ApplicationStatus
    BY <1>0, <2>1 DEF Formed
  <2>3. history' \in [Applications -> SUBSET ApplicationStatus]
    BY <2>1, <2>2 DEF OfferInv, TypeInv, TypeOK
  <2>4. /\ \A a \in Applications : history[a] \subseteq history'[a]
        /\ f.status \in history'[f.aid]
    BY <2>1, <2>2 DEF OfferInv, TypeInv, TypeOK
  <2>5. Grows
    BY <2>1, <2>4, OnFileReflexive DEF Grows, OfferInv, TypeInv, TypeOK
  <2>6. Filed(offer', onboarding', history')
    <3>1. ASSUME NEW o \in Offers, offer[o].signed  PROVE HIRED \in history'[offer[o].app]
      BY <2>4, <3>1 DEF OfferInv, Filed
    <3> QED  BY <2>1, <3>1 DEF OfferInv, Filed
  <2>7. CASE f.oid = NoDocument
    <3>1. Continue(t, Idle)
      BY <1>2, <2>7 DEF createApplicationHistory, Return, f
    <3>2. TypeOK'
      BY <2>1, <2>3, <3>1, IdleType, ContinueTyped DEF OfferInv, TypeInv, TypeOK
    <3> QED  BY <2>5, <2>6, <3>1, <3>2, IdleFormed, Advances DEF Underway
  <2>8. CASE f.oid # NoDocument
    <3> DEFINE h == [f EXCEPT !.pc = "saveOffer"]
    <3>1. Continue(t, h)  BY <1>2, <2>8 DEF createApplicationHistory, f
    <3>2. Owns(f)  BY <2>1, <2>8 DEF Owns
    <3>3. /\ h \in Frame
          /\ h.pc = "saveOffer" /\ h.aid = f.aid /\ h.oid = f.oid
          /\ h.seen = f.seen /\ h.upd = f.upd
      BY <1>0 DEF Frame
    <3> HIDE DEF h
    <3>4. Formed(h)  BY <1>0, <3>2, <3>3 DEF Formed
    <3>5. f.status = HIRED  BY <1>0, <2>1, <3>2 DEF Formed
    <3>6. Underway(h, offer', onboarding', history')
      BY <1>0, <2>1, <2>4, <3>2, <3>3, <3>5 DEF Underway
    <3>7. TypeOK'
      BY <2>1, <2>3, <3>1, <3>3, ContinueTyped DEF OfferInv, TypeInv, TypeOK
    <3> QED  BY <2>5, <2>6, <3>1, <3>4, <3>6, <3>7, Advances
  <2> QED  BY <2>7, <2>8
<1> QED  BY <1>1, <1>2

-----------------------------------------------------------------------------
(* The steps on offers.                                                    *)

\* A call reads an offer and has decided what to save of it.
LEMMA Decides ==
    ASSUME OfferInv, NEW t \in Tasks, NEW o \in Offers, Offered(o),
           NEW pc \in {"onboard", "saveOffer"}, NEW upd \in OfferDoc,
           Extends(offer[o], upd), pc = "saveOffer" => upd.signed = offer[o].signed,
           Decide(t, o, pc, upd)
    PROVE  OfferInv'
<1> DEFINE h == [Idle EXCEPT !.pc = pc, !.oid = o, !.aid = offer[o].app,
                             !.seen = offer[o], !.upd = upd]
<1>1. /\ Continue(t, h)
      /\ UNCHANGED <<application, history, offer, onboarding, interview, feedback>>
  BY DEF Decide, Stored
<1>2. offer[o] \in OfferDoc  BY DEF OfferInv, TypeInv, TypeOK
<1>3. offer[o].app \in Applications  BY <1>2 DEF OfferDoc, Offered
<1>4. /\ h \in Frame
      /\ h.pc = pc /\ h.oid = o /\ h.aid = offer[o].app /\ h.seen = offer[o] /\ h.upd = upd
  BY <1>2, <1>3, IdleType DEF Frame
<1> HIDE DEF h
<1>5. Formed(h)  BY <1>3, <1>4 DEF Formed
<1>6. OnFile(h.seen, offer[o])  BY <1>2, <1>4, OnFileReflexive
<1>7. Underway(h, offer, onboarding, history)
  BY <1>4, <1>6 DEF Underway, OfferInv, Filed
<1>8. TypeOK'
  BY <1>1, <1>4, ContinueTyped DEF OfferInv, TypeInv, TypeOK
<1> QED  BY <1>1, <1>5, <1>7, <1>8, Moves

LEMMA CallOffer ==
    ASSUME OfferInv, NEW t \in Tasks,
           \/ \E a \in Applications : createOffer(t, a)
           \/ \E o \in Offers, vote \in {"yes", "no"} : approveOffer(t, o, vote)
           \/ \E o \in Offers, answer \in OfferResponseStatus : respondToOffer(t, o, answer)
    PROVE  OfferInv'
<1>d. \A o \in Offers : offer[o] \in OfferDoc  BY DEF OfferInv, TypeInv, TypeOK
<1>1. ASSUME NEW a \in Applications, createOffer(t, a)  PROVE OfferInv'
  <2> DEFINE h == [Idle EXCEPT !.pc = "insertOffer", !.aid = a]
  <2>1. /\ Continue(t, h)
        /\ UNCHANGED <<application, history, offer, onboarding, interview, feedback>>
    BY <1>1 DEF createOffer, Stored
  <2>2. h \in Frame /\ h.pc = "insertOffer" /\ h.aid = a
    BY IdleType DEF Frame
  <2> HIDE DEF h
  <2>3. Formed(h) /\ ~Owns(h)  BY <2>2 DEF Formed, Owns
  <2>4. TypeOK'
    BY <2>1, <2>2, ContinueTyped DEF OfferInv, TypeInv, TypeOK
  <2> QED  BY <2>1, <2>3, <2>4, MovesFree
<1>2. ASSUME NEW o \in Offers, NEW vote \in {"yes", "no"}, approveOffer(t, o, vote)
      PROVE  OfferInv'
  <2> DEFINE upd == Judged(offer[o], vote)
  <2>1. Offered(o) /\ Decide(t, o, "saveOffer", upd)  BY <1>2 DEF approveOffer
  <2>2. upd \in OfferDoc /\ Extends(offer[o], upd) /\ upd.signed = offer[o].signed
    BY <1>d, JudgedExtends
  <2> HIDE DEF upd
  <2> QED  BY <2>1, <2>2, Decides
<1>3. ASSUME NEW o \in Offers, NEW answer \in OfferResponseStatus, respondToOffer(t, o, answer)
      PROVE  OfferInv'
  <2> DEFINE upd == Answered(offer[o], answer)
             pc == IF answer = ACCEPTED THEN "onboard" ELSE "saveOffer"
  <2>1. Offered(o) /\ Decide(t, o, pc, upd)  BY <1>3 DEF respondToOffer
  <2>2. /\ upd \in OfferDoc /\ Extends(offer[o], upd)
        /\ pc = "saveOffer" => upd.signed = offer[o].signed
    BY <1>d, AnsweredExtends
  <2>3. pc \in {"onboard", "saveOffer"}  OBVIOUS
  <2> HIDE DEF upd, pc
  <2> QED  BY <2>1, <2>2, <2>3, Decides
<1> QED  BY <1>1, <1>2, <1>3

LEMMA StepOffer ==
    ASSUME OfferInv, NEW t \in Tasks,
           (\E o \in Offers : insertOffer(t, o)) \/ triggerOnboarding(t) \/ saveOffer(t)
    PROVE  OfferInv'
<1> DEFINE f == task[t]
<1>0. f \in Frame /\ Formed(f) /\ Underway(f, offer, onboarding, history)
  BY DEF OfferInv, TypeInv, TypeOK
<1>d. \A o \in Offers : offer[o] \in OfferDoc  BY DEF OfferInv, TypeInv, TypeOK
<1> HIDE DEF f
<1>1. ASSUME NEW o \in Offers, insertOffer(t, o)  PROVE OfferInv'
  <2> DEFINE doc == [NoOffer EXCEPT !.app = f.aid]
  <2>1. /\ f.pc = "insertOffer" /\ ~Offered(o)
        /\ offer' = [offer EXCEPT ![o] = doc] /\ Continue(t, Idle)
        /\ UNCHANGED <<application, history, onboarding, interview, feedback>>
    BY <1>1 DEF insertOffer, Return, f
  <2>2. f.aid \in Applications  BY <1>0, <2>1 DEF Formed
  <2>3. doc \in OfferDoc  BY <2>2, NoOfferType DEF OfferDoc
  <2>4. doc.response # ACCEPTED /\ doc.final # APPROVED /\ ~doc.signed
    BY DEF NoOffer, PENDING, ACCEPTED, APPROVED
  <2> HIDE DEF doc
  <2>5. offer'[o] = doc /\ \A p \in Offers : p # o => offer'[p] = offer[p]
    BY <2>1 DEF OfferInv, TypeInv, TypeOK
  <2>6. TypeOK'
    BY <2>1, <2>3, IdleType, ContinueTyped DEF OfferInv, TypeInv, TypeOK
  <2>7. Grows  BY <1>d, <2>1, <2>5, OnFileReflexive DEF Grows
  <2>8. Filed(offer', onboarding', history')
    BY <2>1, <2>4, <2>5 DEF OfferInv, Filed, Sound
  <2> QED  BY <2>1, <2>6, <2>7, <2>8, IdleFormed, Advances DEF Underway
<1>2. CASE triggerOnboarding(t)
  <2> DEFINE h == [f EXCEPT !.pc = "hire"]
  <2>1. /\ f.pc = "onboard" /\ onboarding' = onboarding \cup {f.oid} /\ Continue(t, h)
        /\ UNCHANGED <<application, history, offer, interview, feedback>>
    BY <1>2 DEF triggerOnboarding, f
  <2>2. Owns(f)  BY <2>1 DEF Owns
  <2>3. /\ h \in Frame
        /\ h.pc = "hire" /\ h.aid = f.aid /\ h.oid = f.oid /\ h.seen = f.seen /\ h.upd = f.upd
    BY <1>0 DEF Frame
  <2> HIDE DEF h
  <2>4. f.oid \in Offers  BY <1>0, <2>2 DEF Formed
  <2>5. Formed(h)  BY <1>0, <2>2, <2>3 DEF Formed
  <2>6. Underway(h, offer', onboarding', history')
    BY <1>0, <2>1, <2>2, <2>3 DEF Underway
  <2>7. TypeOK'
    BY <2>1, <2>3, <2>4, ContinueTyped DEF OfferInv, TypeInv, TypeOK
  <2>8. Grows  BY <1>d, <2>1, OnFileReflexive DEF Grows
  <2>9. Filed(offer', onboarding', history')  BY <2>1 DEF OfferInv, Filed
  <2> QED  BY <2>1, <2>5, <2>6, <2>7, <2>8, <2>9, Advances
<1>3. CASE saveOffer(t)
  <2> DEFINE o == f.oid
             doc == PushedOffer(offer[o], f.seen, f.upd)
  <2>1. /\ f.pc = "saveOffer" /\ offer' = [offer EXCEPT ![o] = doc] /\ Continue(t, Idle)
        /\ UNCHANGED <<application, history, onboarding, interview, feedback>>
    BY <1>3 DEF saveOffer, Return, f
  <2>2. Owns(f)  BY <2>1 DEF Owns
  <2>3. o \in Offers /\ f.aid \in Applications /\ Extends(f.seen, f.upd)
    BY <1>0, <2>2 DEF Formed
  <2>4. OnFile(f.seen, offer[o]) /\ offer[o].app = f.aid
    BY <1>0, <2>2 DEF Underway
  <2>5. f.seen \in OfferDoc /\ f.upd \in OfferDoc  BY <1>0 DEF Frame
  <2>6. Sound(offer[o])  BY <2>3 DEF OfferInv, Filed
  <2>7. /\ doc \in OfferDoc /\ Sound(doc) /\ OnFile(offer[o], doc)
        /\ doc.signed => offer[o].signed \/ f.upd.signed
    BY <1>d, <2>3, <2>4, <2>5, <2>6, SavedOffer
  <2>8. f.upd.signed => o \in onboarding /\ HIRED \in history[f.aid]
    BY <1>0, <2>1, <2>2 DEF Underway
  <2> HIDE DEF doc, o
  <2>9. offer'[o] = doc /\ \A p \in Offers : p # o => offer'[p] = offer[p]
    BY <2>1, <2>3 DEF OfferInv, TypeInv, TypeOK
  <2>10. TypeOK'
    BY <2>1, <2>3, <2>7, IdleType, ContinueTyped DEF OfferInv, TypeInv, TypeOK
  <2>11. Grows  BY <1>d, <2>1, <2>7, <2>9, OnFileReflexive DEF Grows
  <2>12. Filed(offer', onboarding', history')
    <3>1. doc.app = f.aid  BY <2>4, <2>7 DEF OnFile
    <3>2. doc.signed => o \in onboarding /\ HIRED \in history[doc.app]
      BY <2>3, <2>4, <2>7, <2>8, <3>1 DEF OfferInv, Filed
    <3> QED  BY <2>1, <2>3, <2>7, <2>9, <3>1, <3>2 DEF OfferInv, Filed
  <2> QED  BY <2>1, <2>10, <2>11, <2>12, IdleFormed, Advances DEF Underway
<1> QED  BY <1>1, <1>2, <1>3

-----------------------------------------------------------------------------
(* The steps on interviews.                                                *)

LEMMA CallInterview ==
    ASSUME OfferInv, NEW t \in Tasks,
           \/ \E i \in Interviews, panel \in SUBSET Interviewers : scheduleInterview(t, i, panel)
           \/ \E i \in Interviews, m \in Interviewers : submitInterviewFeedback(t, i, m)
    PROVE  OfferInv'
<1>1. ASSUME NEW i \in Interviews, NEW panel \in SUBSET Interviewers,
             scheduleInterview(t, i, panel)
      PROVE  OfferInv'
  <2>1. /\ interview' = [interview EXCEPT ![i] = [status |-> SCHEDULED, panel |-> panel]]
        /\ UNCHANGED <<application, history, offer, onboarding, feedback, task>>
    BY <1>1 DEF scheduleInterview
  <2>2. TypeOK'  BY <2>1 DEF OfferInv, TypeInv, TypeOK, InterviewDoc
  <2> QED  BY <2>1, <2>2 DEF OfferInv, TypeInv
<1>2. ASSUME NEW i \in Interviews, NEW m \in Interviewers, submitInterviewFeedback(t, i, m)
      PROVE  OfferInv'
  <2> DEFINE h == [Idle EXCEPT !.pc = "countFeedback", !.iid = i]
  <2>1. /\ feedback' = [feedback EXCEPT ![i][m] = @ + 1] /\ Continue(t, h)
        /\ UNCHANGED <<application, history, offer, onboarding, interview>>
    BY <1>2 DEF submitInterviewFeedback
  <2>2. h \in Frame /\ h.pc = "countFeedback" /\ h.iid = i  BY IdleType DEF Frame
  <2> HIDE DEF h
  <2>3. Formed(h) /\ ~Owns(h)  BY <2>2 DEF Formed, Owns
  <2>4. feedback' \in [Interviews -> [Interviewers -> Nat]]
    <3>1. feedback[i][m] + 1 \in Nat  BY DEF OfferInv, TypeInv, TypeOK
    <3> QED  BY <2>1, <3>1 DEF OfferInv, TypeInv, TypeOK
  <2>5. TypeOK'
    BY <2>1, <2>2, <2>4, ContinueTyped DEF OfferInv, TypeInv, TypeOK
  <2> QED  BY <2>1, <2>3, <2>5, MovesFree
<1> QED  BY <1>1, <1>2

LEMMA StepInterview ==
    ASSUME OfferInv, NEW t \in Tasks, countFeedback(t) \/ completeInterview(t)
    PROVE  OfferInv'
<1> DEFINE f == task[t]
<1>0. f \in Frame /\ Formed(f)  BY DEF OfferInv, TypeInv, TypeOK
<1> HIDE DEF f
<1>1. ASSUME Continue(t, Idle), interview' \in [Interviews -> InterviewDoc],
             UNCHANGED <<application, history, offer, onboarding, feedback>>
      PROVE  OfferInv'
  <2>1. TypeOK'
    BY <1>1, IdleType, ContinueTyped DEF OfferInv, TypeInv, TypeOK
  <2> QED  BY <1>1, <2>1, IdleFormed, MovesFree
<1>2. CASE countFeedback(t)
  <2> DEFINE h == [f EXCEPT !.pc = "complete"]
  <2>1. /\ f.pc = "countFeedback"
        /\ Continue(t, h) \/ Continue(t, Idle)
        /\ UNCHANGED <<application, history, offer, onboarding, interview, feedback>>
    BY <1>2 DEF countFeedback, Return, Stored, f
  <2>2. CASE Continue(t, Idle)
    BY <1>1, <2>1, <2>2 DEF OfferInv, TypeInv, TypeOK
  <2>3. CASE Continue(t, h)
    <3>1. h \in Frame /\ h.pc = "complete" /\ h.iid = f.iid  BY <1>0 DEF Frame
    <3> HIDE DEF h
    <3>2. Formed(h) /\ ~Owns(h)  BY <1>0, <2>1, <3>1 DEF Formed, Owns
    <3>3. TypeOK'
      BY <2>1, <2>3, <3>1, ContinueTyped DEF OfferInv, TypeInv, TypeOK
    <3> QED  BY <2>1, <2>3, <3>2, <3>3, MovesFree
  <2> QED  BY <2>1, <2>2, <2>3
<1>3. CASE completeInterview(t)
  <2>1. /\ f.pc = "complete" /\ Continue(t, Idle)
        /\ interview' = [interview EXCEPT ![f.iid].status = COMPLETED]
        /\ UNCHANGED <<application, history, offer, onboarding, feedback>>
    BY <1>3 DEF completeInterview, Return, f
  <2>2. f.iid \in Interviews  BY <1>0, <2>1 DEF Formed
  <2>3. interview[f.iid] \in InterviewDoc  BY <2>2 DEF OfferInv, TypeInv, TypeOK
  <2>4. [interview[f.iid] EXCEPT !.status = COMPLETED] \in InterviewDoc
    BY <2>3 DEF InterviewDoc
  <2>5. interview' \in [Interviews -> InterviewDoc]
    BY <2>1, <2>2, <2>4 DEF OfferInv, TypeInv, TypeOK
  <2> QED  BY <1>1, <2>1, <2>5
<1> QED  BY <1>2, <1>3

-----------------------------------------------------------------------------
(* The theorems.                                                           *)

LEMMA InitOffer == Init => OfferInv
<1> SUFFICES ASSUME Init  PROVE OfferInv
  OBVIOUS
<1>1. /\ \A t \in Tasks : task[t] = Idle
      /\ \A o \in Offers : offer[o] = NoOffer
  BY DEF Init
<1>2. TypeOK  BY IdleType, NoOfferType DEF Init, TypeOK, InterviewDoc, NoInterview
<1>3. Filed(offer, onboarding, history)
  BY <1>1 DEF Filed, Sound, NoOffer, PENDING, ACCEPTED, APPROVED
<1> QED  BY <1>1, <1>2, <1>3, IdleFormed DEF OfferInv, TypeInv, Underway

LEMMA CallApplication ==
    ASSUME OfferInv, NEW t \in Tasks, NEW a \in Applications, NEW s,
           \/ s \in Statuses \cup {SUBMITTED} /\ createApplication(t, a, s)
           \/ s \in Statuses \cup {application[a]} /\ updateApplicationStatus(t, a, s)
    PROVE  OfferInv'
<1>1. CASE s \in Statuses \cup {SUBMITTED} /\ createApplication(t, a, s)
  <2>1. s \in ApplicationStatus  BY <1>1, StatusTyped, RecruitmentAssumption
  <2> QED  BY <1>1, <2>1, StatusSaved DEF createApplication, SetStatus
<1>2. CASE s \in Statuses \cup {application[a]} /\ updateApplicationStatus(t, a, s)
  <2>1. application[a] \in ApplicationStatus
    BY <1>2 DEF updateApplicationStatus, Applied, OfferInv, TypeInv, TypeOK
  <2>2. s \in ApplicationStatus  BY <1>2, <2>1, RecruitmentAssumption
  <2> QED  BY <1>2, <2>2, StatusSaved DEF updateApplicationStatus
<1> QED  BY <1>1, <1>2

LEMMA NextOffer == OfferInv /\ [Next]_vars => OfferInv'
<1> SUFFICES ASSUME OfferInv, [Next]_vars  PROVE OfferInv'
  OBVIOUS
<1>1. CASE UNCHANGED vars
  BY <1>1 DEF vars, OfferInv, TypeInv, TypeOK
<1>2. ASSUME NEW t \in Tasks, Call(t)  PROVE OfferInv'
  BY <1>2, CallApplication, CallOffer, CallInterview DEF Call
<1>3. ASSUME NEW t \in Tasks, Step(t)  PROVE OfferInv'
  BY <1>3, StepApplication, StepOffer, StepInterview DEF Step
<1>4. CASE restart
  <2>1. /\ task' = [t \in Tasks |-> Idle]
        /\ UNCHANGED <<application, history, offer, onboarding, interview, feedback>>
    BY <1>4 DEF restart, Stored
  <2>2. TypeOK'  BY <2>1, IdleType DEF OfferInv, TypeInv, TypeOK
  <2>3. \A t \in Tasks : task'[t] = Idle  BY <2>1
  <2> QED  BY <2>1, <2>2, <2>3, IdleFormed DEF OfferInv, TypeInv, Underway
<1> QED  BY <1>1, <1>2, <1>3, <1>4 DEF Next

LEMMA OfferInvariant == Spec => []OfferInv
  BY InitOffer, NextOffer, PTL DEF Spec

\* Every variable of Recruitment, and everything a call remembers between two
\* round trips, has its type.
THEOREM TypeCorrect == Spec => []TypeOK
<1>1. OfferInv => TypeOK  BY DEF OfferInv, TypeInv
<1> QED  BY OfferInvariant, <1>1, PTL

\* However many approvals and answers overlap on one offer, and whichever of
\* them is overwritten, an offer is finally approved only with two approving
\* entries or the candidate's signature (approveOffer, respondToOffer).
THEOREM ApprovalGrounded == Spec => []ApprovedWithGrounds
<1>1. OfferInv => ApprovedWithGrounds  BY DEF OfferInv, Filed, Sound, ApprovedWithGrounds
<1> QED  BY OfferInvariant, <1>1, PTL

\* A signature or an accepted answer is on file only after onboarding was
\* triggered and the hire recorded, wherever the process died and whatever
\* else was saved in between (respondToOffer, updateApplicationStatus).
THEOREM AcceptancesOrdered == Spec => []AcceptanceInOrder
<1>1. OfferInv => AcceptanceInOrder  BY DEF OfferInv, Filed, Sound, AcceptanceInOrder
<1> QED  BY OfferInvariant, <1>1, PTL
-----------------------------------------------------------------------------
(* The feedback on an interview and its panel.                             *)

Enough(i) == AllFeedback(i) >= Cardinality(interview[i].panel)

Counting(h) == h.pc \in {"countFeedback", "complete"}

\* A call counts the feedback of an interview that is held, and has counted
\* enough when it goes on to complete it.
Counted(h) ==
    /\ Counting(h) => Held(h.iid)
    /\ h.pc = "complete" => Enough(h.iid)

PanelInv == TypeInv /\ CompletedHasFeedback /\ \A t \in Tasks : Counted(task[t])

\* No step changes the panel of an interview that is held, or takes feedback
\* back.
KeepsPanels ==
    \A i \in Interviews :
        Held(i) => /\ Held(i)' /\ interview'[i].panel = interview[i].panel
                   /\ Enough(i) => Enough(i)'

\* A step that completes nothing too early, after which the calls that count
\* are those that did, or have reason to.
LEMMA PanelKept ==
    ASSUME PanelInv, TypeInv', KeepsPanels,
           \A i \in Interviews : interview'[i].status = COMPLETED =>
               \/ interview[i].status = COMPLETED
               \/ Held(i) /\ Enough(i),
           \A u \in Tasks : task'[u] = task[u] \/ Counted(task[u])'
    PROVE  PanelInv'
<1>1. ASSUME NEW u \in Tasks, task'[u] = task[u]  PROVE Counted(task[u])'
  <2>1. Counted(task[u]) /\ Formed(task[u])  BY DEF PanelInv, TypeInv
  <2>2. Counting(task[u]) => task[u].iid \in Interviews  BY <2>1 DEF Counting, Formed
  <2> DEFINE Kept(i) == Held(i)' /\ (Enough(i) => Enough(i)')
  <2>3. \A i \in Interviews : Held(i) => Kept(i)  BY DEF KeepsPanels
  <2>4. PICK h : h = task[u]  OBVIOUS
  <2>5. /\ Counting(h) => Held(h.iid)'
        /\ h.pc = "complete" => Enough(h.iid)'
    BY <2>1, <2>2, <2>3, <2>4 DEF Counted, Counting
  <2> HIDE DEF Kept
  <2>6. task'[u] = h  BY <1>1, <2>4
  <2> QED  BY <2>5, <2>6 DEF Counted, Counting, Held, Enough, AllFeedback
<1>2. ASSUME NEW i \in Interviews, interview'[i].status = COMPLETED  PROVE Enough(i)'
  <2>1. Held(i) /\ Enough(i)
    BY <1>2 DEF PanelInv, CompletedHasFeedback, Enough, Held, COMPLETED
  <2> QED  BY <2>1 DEF KeepsPanels
<1>3. CompletedHasFeedback'  BY <1>2 DEF CompletedHasFeedback, Enough
<1> QED  BY <1>1, <1>3 DEF PanelInv

\* A step that touches neither interviews nor feedback, of a call that then
\* counts no feedback.
LEMMA PanelAway ==
    ASSUME PanelInv, TypeInv', interview' = interview, feedback' = feedback,
           \A u \in Tasks : task'[u] = task[u] \/ ~Counting(task'[u])
    PROVE  PanelInv'
<1>1. KeepsPanels  BY DEF KeepsPanels, Held, Enough, AllFeedback
<1>2. \A i \in Interviews : interview'[i].status = COMPLETED => interview[i].status = COMPLETED
  OBVIOUS
<1>3. \A u \in Tasks : task'[u] = task[u] \/ Counted(task[u])'
  BY DEF Counting, Counted
<1> QED  BY <1>1, <1>2, <1>3, PanelKept

LEMMA Moved ==
    ASSUME TypeInv, NEW t \in Tasks, NEW h, Continue(t, h)
    PROVE  task'[t] = h /\ \A u \in Tasks : u # t => task'[u] = task[u]
  BY DEF TypeInv, TypeOK, Continue

\* Calls about applications and offers.
LEMMA PanelElsewhere ==
    ASSUME PanelInv, TypeInv', NEW t \in Tasks,
           \/ \E a \in Applications, s \in ApplicationStatus : createApplication(t, a, s)
           \/ \E a \in Applications, s \in ApplicationStatus : updateApplicationStatus(t, a, s)
           \/ \E a \in Applications : createOffer(t, a)
           \/ \E o \in Offers, vote \in {"yes", "no"} : approveOffer(t, o, vote)
           \/ \E o \in Offers, answer \in OfferResponseStatus : respondToOffer(t, o, answer)
           \/ updateToHired(t) \/ createApplicationHistory(t)
           \/ \E o \in Offers : insertOffer(t, o)
           \/ triggerOnboarding(t) \/ saveOffer(t)
    PROVE  PanelInv'
<1>0. TypeInv /\ task[t] \in Frame /\ ~Counting(Idle)
  BY DEF PanelInv, TypeInv, TypeOK, Counting, Idle
<1>m. ASSUME NEW h, Continue(t, h), ~Counting(h), interview' = interview, feedback' = feedback
      PROVE  PanelInv'
  BY <1>0, <1>m, Moved, PanelAway
<1>1. ASSUME NEW a \in Applications, NEW s \in ApplicationStatus,
             createApplication(t, a, s) \/ updateApplicationStatus(t, a, s)
      PROVE  PanelInv'
  <2> DEFINE h == [Idle EXCEPT !.pc = "record", !.aid = a, !.status = s]
  <2>1. ~Counting(h)  BY DEF Counting, Idle
  <2> QED  BY <1>1, <1>m, <2>1 DEF createApplication, updateApplicationStatus
<1>2. ASSUME NEW a \in Applications, createOffer(t, a)  PROVE PanelInv'
  <2> DEFINE h == [Idle EXCEPT !.pc = "insertOffer", !.aid = a]
  <2>1. ~Counting(h)  BY DEF Counting, Idle
  <2> QED  BY <1>2, <1>m, <2>1 DEF createOffer, Stored
<1>3. ASSUME NEW o \in Offers, NEW pc \in {"onboard", "saveOffer"}, NEW upd,
             Decide(t, o, pc, upd)
      PROVE  PanelInv'
  <2> DEFINE h == [Idle EXCEPT !.pc = pc, !.oid = o, !.aid = offer[o].app,
                               !.seen = offer[o], !.upd = upd]
  <2>1. ~Counting(h)  BY DEF Counting, Idle
  <2> QED  BY <1>3, <1>m, <2>1 DEF Decide, Stored
<1>4. ASSUME NEW o \in Offers, NEW vote \in {"yes", "no"}, approveOffer(t, o, vote)
      PROVE  PanelInv'
  BY <1>3, <1>4 DEF approveOffer
<1>5. ASSUME NEW o \in Offers, NEW answer \in OfferResponseStatus, respondToOffer(t, o, answer)
      PROVE  PanelInv'
  BY <1>3, <1>5 DEF respondToOffer
<1>6. CASE updateToHired(t)
  <2> DEFINE h == [task[t] EXCEPT !.pc = "record", !.status = HIRED]
  <2>1. ~Counting(h)  BY <1>0 DEF Counting, Frame
  <2> QED  BY <1>6, <1>m, <2>1 DEF updateToHired
<1>7. CASE createApplicationHistory(t)
  <2> DEFINE h == [task[t] EXCEPT !.pc = "saveOffer"]
  <2>1. ~Counting(h)  BY <1>0 DEF Counting, Frame
  <2> QED  BY <1>0, <1>7, <1>m, <2>1 DEF createApplicationHistory, Return
<1>8. ASSUME NEW o \in Offers, insertOffer(t, o)  PROVE PanelInv'
  BY <1>0, <1>8, <1>m DEF insertOffer, Return
<1>9. CASE triggerOnboarding(t)
  <2> DEFINE h == [task[t] EXCEPT !.pc = "hire"]
  <2>1. ~Counting(h)  BY <1>0 DEF Counting, Frame
  <2> QED  BY <1>9, <1>m, <2>1 DEF triggerOnboarding
<1>10. CASE saveOffer(t)
  BY <1>0, <1>10, <1>m DEF saveOffer, Return
<1> QED  BY <1>1, <1>2, <1>4, <1>5, <1>6, <1>7, <1>8, <1>9, <1>10

\* Calls about interviews.  Feedback is only added, and a panel is named
\* before there can be any.
LEMMA PanelInterview ==
    ASSUME PanelInv, TypeInv', NEW t \in Tasks,
           \/ \E i \in Interviews, panel \in SUBSET Interviewers : scheduleInterview(t, i, panel)
           \/ \E i \in Interviews, m \in Interviewers : submitInterviewFeedback(t, i, m)
           \/ countFeedback(t) \/ completeInterview(t)
    PROVE  PanelInv'
<1>0. TypeInv /\ task[t] \in Frame /\ Formed(task[t]) /\ Counted(task[t]) /\ ~Counting(Idle)
  BY DEF PanelInv, TypeInv, TypeOK, Counting, Idle
<1>t. /\ interview \in [Interviews -> InterviewDoc]
      /\ feedback \in [Interviews -> [Interviewers -> Nat]]
      /\ feedback' \in [Interviews -> [Interviewers -> Nat]]
  BY DEF PanelInv, TypeInv, TypeOK
<1>s. \A i \in Interviews : AllFeedback(i) \in Int
  BY <1>t, SumInt, RecruitmentAssumption DEF AllFeedback
<1>c. \A i \in Interviews : Cardinality(interview[i].panel) \in Nat
  BY <1>t, FS_Subset, FS_CardinalityType, RecruitmentAssumption DEF InterviewDoc
<1>1. ASSUME NEW i \in Interviews, NEW panel \in SUBSET Interviewers,
             scheduleInterview(t, i, panel)
      PROVE  PanelInv'
  <2>1. /\ ~Held(i) /\ UNCHANGED <<feedback, task>>
        /\ interview' = [interview EXCEPT ![i] = [status |-> SCHEDULED, panel |-> panel]]
    BY <1>1 DEF scheduleInterview
  <2>2. /\ interview'[i].status = SCHEDULED
        /\ \A j \in Interviews : j # i => interview'[j] = interview[j]
    BY <1>t, <2>1
  <2>3. KeepsPanels  BY <2>1, <2>2 DEF KeepsPanels, Held, Enough, AllFeedback
  <2>4. \A j \in Interviews : interview'[j].status = COMPLETED => interview[j].status = COMPLETED
    BY <2>2 DEF SCHEDULED, COMPLETED
  <2> QED  BY <2>1, <2>3, <2>4, PanelKept
<1>2. ASSUME NEW i \in Interviews, NEW m \in Interviewers, submitInterviewFeedback(t, i, m)
      PROVE  PanelInv'
  <2> DEFINE h == [Idle EXCEPT !.pc = "countFeedback", !.iid = i]
  <2>1. /\ Held(i) /\ Continue(t, h) /\ interview' = interview
        /\ feedback' = [feedback EXCEPT ![i][m] = @ + 1]
    BY <1>2 DEF submitInterviewFeedback
  <2>2. h.pc = "countFeedback" /\ h.iid = i  BY DEF Idle
  <2> HIDE DEF h
  <2>3. ASSUME NEW j \in Interviews  PROVE AllFeedback(j)' >= AllFeedback(j)
    <3>1. \A n \in Interviewers :
            /\ feedback[j][n] \in Int /\ feedback'[j][n] \in Int
            /\ feedback[j][n] <= feedback'[j][n]
      BY <1>t, <2>1
    <3> DEFINE f == feedback[j]
               g == feedback'[j]
    <3> HIDE DEF f, g
    <3>2. SumFunctionOnSet(f, Interviewers) <= SumFunctionOnSet(g, Interviewers)
      <4>1. \A n \in Interviewers : f[n] \in Int /\ g[n] \in Int /\ f[n] <= g[n]
        BY <3>1 DEF f, g
      <4> QED  BY <4>1, SumMonotonic, RecruitmentAssumption
    <3>3. SumFunctionOnSet(g, Interviewers) \in Int
      BY <3>1, SumInt, RecruitmentAssumption DEF g
    <3> QED  BY <1>s, <3>2, <3>3 DEF AllFeedback, f, g
  <2>4. \A j \in Interviews : AllFeedback(j)' \in Int
    BY <1>t, SumInt, RecruitmentAssumption DEF AllFeedback
  <2>5. KeepsPanels
    <3>1. \A j \in Interviews : Enough(j) => Enough(j)'
      BY <1>s, <1>c, <2>1, <2>3, <2>4 DEF Enough
    <3> QED  BY <2>1, <3>1 DEF KeepsPanels, Held
  <2>6. task'[t] = h /\ \A u \in Tasks : u # t => task'[u] = task[u]
    BY <1>0, <2>1, Moved
  <2>7. Counted(task[t])'  BY <2>1, <2>2, <2>6 DEF Counted, Counting, Held
  <2> QED  BY <2>1, <2>5, <2>6, <2>7, PanelKept
<1>3. CASE countFeedback(t)
  <2> DEFINE h == [task[t] EXCEPT !.pc = "complete"]
  <2>0. PICK i : i = task[t].iid  OBVIOUS
  <2>1. /\ task[t].pc = "countFeedback" /\ interview' = interview /\ feedback' = feedback
        /\ (AllReceived(i) /\ Continue(t, h)) \/ Continue(t, Idle)
    BY <1>3, <2>0 DEF countFeedback, Return, Stored
  <2>2. h.iid = i  BY <1>0, <2>0 DEF Frame
  <2>3. i \in Interviews /\ Held(i)  BY <1>0, <2>0, <2>1 DEF Formed, Counted, Counting
  <2> HIDE DEF h
  <2>4. KeepsPanels  BY <2>1 DEF KeepsPanels, Held, Enough, AllFeedback
  <2>5. CASE Continue(t, Idle)
    BY <1>0, <2>1, <2>5, Moved, PanelAway
  <2>6. CASE AllReceived(i) /\ Continue(t, h)
    <3>1. task'[t] = h /\ \A u \in Tasks : u # t => task'[u] = task[u]
      BY <1>0, <2>6, Moved
    <3>2. Enough(i)  BY <1>s, <1>c, <2>3, <2>6 DEF Enough, AllReceived
    <3>3. Held(i)' /\ Enough(i)'
      BY <2>3, <2>4, <3>2 DEF KeepsPanels
    <3>4. Counted(task[t])'  BY <2>2, <3>1, <3>3 DEF Counted
    <3> QED  BY <2>1, <2>4, <3>1, <3>4, PanelKept
  <2> QED  BY <2>1, <2>5, <2>6
<1>4. CASE completeInterview(t)
  <2> DEFINE i == task[t].iid
  <2>1. /\ task[t].pc = "complete" /\ Continue(t, Idle) /\ feedback' = feedback
        /\ interview' = [interview EXCEPT ![i].status = COMPLETED]
    BY <1>4 DEF completeInterview, Return
  <2>2. i \in Interviews /\ Held(i) /\ Enough(i)
    BY <1>0, <2>1 DEF Formed, Counted, Counting
  <2> HIDE DEF i
  <2>3. /\ interview'[i].status = COMPLETED /\ interview'[i].panel = interview[i].panel
        /\ \A j \in Interviews : j # i => interview'[j] = interview[j]
    BY <1>t, <2>1, <2>2 DEF InterviewDoc
  <2>4. KeepsPanels
    BY <2>1, <2>3 DEF KeepsPanels, Held, Enough, AllFeedback, COMPLETED
  <2>5. task'[t] = Idle /\ \A u \in Tasks : u # t => task'[u] = task[u]
    BY <1>0, <2>1, Moved
  <2>6. Counted(task[t])'  BY <1>0, <2>5 DEF Counted, Counting
  <2> QED  BY <2>2, <2>3, <2>4, <2>5, <2>6, PanelKept
<1> QED  BY <1>1, <1>2, <1>3, <1>4

\* However feedback and its counts overlap, a completed interview has as much
\* feedback as its panel has members: feedback is never taken back between
\* the count and the save (submitInterviewFeedback).
THEOREM CompletedInterviews == Spec => []CompletedHasFeedback
<1>1. Init /\ OfferInv => PanelInv
  <2> SUFFICES ASSUME Init, OfferInv  PROVE PanelInv
    OBVIOUS
  <2>1. /\ \A t \in Tasks : ~Counting(task[t])
        /\ \A i \in Interviews : interview[i].status # COMPLETED
    BY DEF Init, Idle, Counting, NoInterview, COMPLETED
  <2> QED  BY <2>1 DEF PanelInv, OfferInv, Counted, Counting, CompletedHasFeedback
<1>2. PanelInv /\ OfferInv /\ OfferInv' /\ [Next]_vars => PanelInv'
  <2> SUFFICES ASSUME PanelInv, TypeInv', [Next]_vars  PROVE PanelInv'
    BY DEF OfferInv
  <2>1. CASE UNCHANGED vars
    BY <2>1, PanelAway DEF vars
  <2>2. ASSUME NEW t \in Tasks, Call(t)  PROVE PanelInv'
    <3>1. \A a \in Applications : Applied(a) => application[a] \in ApplicationStatus
      BY DEF Applied, PanelInv, TypeInv, TypeOK
    <3>2. Statuses \cup {SUBMITTED} \subseteq ApplicationStatus
      BY StatusTyped, RecruitmentAssumption
    <3>3. ASSUME NEW a \in Applications, NEW s \in Statuses \cup {application[a]},
                 updateApplicationStatus(t, a, s)
          PROVE  PanelInv'
      <4>1. s \in ApplicationStatus  BY <3>1, <3>2, <3>3 DEF updateApplicationStatus
      <4> QED  BY <3>3, <4>1, PanelElsewhere
    <3>4. ASSUME NEW a \in Applications, NEW s \in Statuses \cup {SUBMITTED},
                 createApplication(t, a, s)
          PROVE  PanelInv'
      BY <3>2, <3>4, PanelElsewhere
    <3> QED  BY <2>2, <3>3, <3>4, PanelElsewhere, PanelInterview DEF Call
  <2>3. ASSUME NEW t \in Tasks, Step(t)  PROVE PanelInv'
    BY <2>3, PanelElsewhere, PanelInterview DEF Step
  <2>4. CASE restart
    <3>1. \A t \in Tasks : ~Counting(task'[t])  BY <2>4 DEF restart, Counting, Idle
    <3> QED  BY <2>4, <3>1, PanelAway DEF restart, Stored
  <2> QED  BY <2>1, <2>2, <2>3, <2>4 DEF Next
<1>3. PanelInv => CompletedHasFeedback  BY DEF PanelInv
<1> QED  BY <1>1, <1>2, <1>3, OfferInvariant, PTL DEF Spec
=============================================================================
