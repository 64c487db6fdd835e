---------------------------- MODULE MCEscalations ----------------------------
(* Instances of Escalations for TLC. *)
EXTENDS Escalations

\* A pair whose schedule nobody knows, so that it is never stale; amber for ever.
NoLimits == [p \in Pair |-> NoLimit]
\* Stale a day after its last receipt; red after a day of amber.
OneDay   == [p \in Pair |-> 1]
Zero     == [p \in Pair |-> 0]
=============================================================================
