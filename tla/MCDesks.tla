------------------------------- MODULE MCDesks --------------------------------
(* Desks on small sets; the .cfg files name them.                           *)
EXTENDS Desks, TLC

\* An ordinary edit, and one whose body publishes the record by itself.
MCForm(status) ==
    [status |-> status, templateId |-> "at1", manager |-> "e1", employee |-> "e1",
     content |-> "good", submitted |-> FALSE, publishedBy |-> Nothing, acknowledged |-> FALSE]

MCForms == {MCForm("DRAFT"), MCForm("HR_PUBLISHED")}

\* The versions of a calendar grow without bound.
MCBound == calendar["k1"].version + calendar["k2"].version <= 4

\* Nothing tells the departments, or the positions, apart.
MCSymmetry == Permutations(Departments) \cup Permutations(Positions)
===============================================================================
