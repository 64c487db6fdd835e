------------------------------ MODULE MCDelivery ------------------------------
(* What hooks and collectors bring about by being started again and again: part says whether   *)
(* this behaviour is about the decision queue or about the escalations.  The two share no      *)
(* state.                                                                                      *)
EXTENDS MCDecisionQueue

CONSTANTS docs, c1, NoIssue, NoPair, Nobody

VARIABLES part, clock, receipt, table, writer, open, titled, work, blind

escalations == <<clock, receipt, table, writer, open, titled, work, blind>>

\* One collector, no operator; gh answers and nobody dies, while receipts arrive at any time.
E == INSTANCE Escalations WITH
    Pair <- {docs}, Tracked <- {docs}, StaleAfter <- [p \in {docs} |-> -1],
    AgesAfter <- [p \in {docs} |-> 0], Collector <- {c1}, Operator <- {}, Issue <- 1 .. 3,
    Flaky <- FALSE, Drops <- FALSE, CrashProne <- {}, MaxTime <- 2, job <- work

DeliveryInit == part \in {"queue", "escalations"} /\ Init /\ E!Init

Queue(A) == part = "queue" /\ A /\ UNCHANGED <<part, escalations>>
Escalations(A) == part = "escalations" /\ A /\ UNCHANGED <<part, vars>>

DeliveryNext == Queue(Next) \/ Escalations(E!Next)
all == <<part, vars, escalations>>

\* The Fairness of DecisionQueue and of Escalations.  Only one part moves in a behaviour, so
\* fairness to a disjunction of actions of both is fairness to the one that is of this part.
DeliveryFairness ==
    /\ \A a \in Session : /\ WF_all(Queue(Progress(a)) \/ Escalations(E!Progress(c1)))
                          /\ WF_all(Queue(StartSession(a)) \/ Escalations(E!StartReconcile(c1)))
    /\ \A a \in Actor \ Session : WF_all(Queue(Progress(a)))
    /\ \A a \in Supervisor : WF_all(Queue(StartSupervisor(a)))

DeliverySpec == DeliveryInit /\ [][DeliveryNext]_all /\ DeliveryFairness

RedIsRaised == E!RedIsRaised
GreenIsCleared == E!GreenIsCleared
==============================================================================
