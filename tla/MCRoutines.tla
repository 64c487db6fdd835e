------------------------------ MODULE MCRoutines ------------------------------
(* Routines for TLC: three runs on two days, two cloud loops, one pair to notify about. *)
EXTENDS Routines

CONSTANTS c1, c2, q

ThreeRuns == 1 .. 3
TwoDays == <<1, 1, 2>>
TwoLoops == <<"review", "docs">>
Fires == <<{1, 3}, {2}>>
Two == {c1, c2}

\* The Fairness of Index, Cloud and Notify.  Only one part moves in a behaviour, so fairness to
\* a disjunction of actions of different parts is fairness to the one that is of this part.
Delivered(e) == Notify(\E s \in {c1, c2} : N!Deliver(s, e))
Fairness ==
    /\ WF_vars(Runs(R!Ingest(c1)) \/ Cloud(C!GoesOn) \/ Notify(\E s \in {c1, c2} : N!Begin(s)))
    /\ WF_vars(Runs(R!Ingest(c2)) \/ Cloud(C!TimePasses) \/ Notify(\E s \in {c1, c2} : N!Finish(s)))
    /\ SF_vars(Runs(R!Look(c1)) \/ Cloud(C!DueCloud(C!Loop)) \/ Delivered(<<q, 1>>))
    /\ SF_vars(Runs(R!Look(c2)) \/ Delivered(<<q, 2>>))
    /\ SF_vars(Runs(R!Record(c1)) \/ Delivered(<<N!Approval, 1>>))
    /\ SF_vars(Runs(R!Record(c2)))

FairSpec == Spec /\ Fairness
==============================================================================
