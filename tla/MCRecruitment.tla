---------------------------- MODULE MCRecruitment ----------------------------
(***************************************************************************)
(* Finite instances of Recruitment.                                        *)
(***************************************************************************)
EXTENDS Recruitment, TLC

MCSymmetry == Permutations(Tasks) \cup Permutations(Interviewers)

\* Enough to reach the offer stage; a hire leaves it again.
MCStatuses == {OFFER}

\* Interviews and offers have nothing in common but the application: a state
\* with both is checked, and not followed further.
MCOneSide == (\A o \in Offers : ~Offered(o)) \/ (\A i \in Interviews : ~Held(i))
=============================================================================
