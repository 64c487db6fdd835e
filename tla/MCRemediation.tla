------------------------------ MODULE MCRemediation ------------------------------
(* One project that opts one of its loops in by a list; the default is off. *)
EXTENDS Remediation

MCMeta == [review |-> [enabled |-> TRUE, max_attempts |-> 2]]

MCProjects == <<[auto |-> [set |-> TRUE, all |-> FALSE, only |-> {"review"}],
                 cadences |-> <<"review">>]>>

MCDefaultAuto == [set |-> FALSE, all |-> FALSE, only |-> {}]
==============================================================================
