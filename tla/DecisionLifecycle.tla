-------------------------- MODULE DecisionLifecycle --------------------------
(***************************************************************************)
(* What docs/SPEC.md section 18 promises about a decision, without files   *)
(* and processes: it is enqueued once, takes effect at most once, reaches  *)
(* one terminal status, and stays there until gc prunes it.                *)
(***************************************************************************)
EXTENDS Integers

CONSTANTS Decision, KindOf, Direct, Delivered, Terminal

VARIABLES state, done

vars == <<state, done>>

Init ==
    /\ state = [d \in Decision |-> "absent"]
    /\ done  = [d \in Decision |-> 0]

\* Queued by the operator.
Enqueue(d) ==
    /\ state[d] = "absent"
    /\ state' = [state EXCEPT ![d] = "pending"]
    /\ UNCHANGED done

\* A setting, pin, push or run happens while the decision is pending.
Perform(d) ==
    /\ KindOf[d] \in Direct \cup {"dispatch_cadence"}
    /\ state[d] = "pending"
    /\ done[d] = 0
    /\ done' = [done EXCEPT ![d] = 1]
    /\ UNCHANGED state

\* One SessionStart surfaces the messages it has claimed.
Surface(D) ==
    /\ \A d \in D : KindOf[d] \in Delivered /\ state[d] = "applied" /\ done[d] = 0
    /\ done' = [d \in Decision |-> IF d \in D THEN 1 ELSE done[d]]
    /\ UNCHANGED state

\* The one terminal write.  Expiry and a failure of a setting or pin promise that
\* nothing happened.
Settle(d, s) ==
    /\ state[d] = "pending"
    /\ s = "applied" /\ KindOf[d] \in Direct => done[d] = 1
    /\ s = "applied" /\ KindOf[d] \in Delivered => done[d] = 0
    /\ s = "failed" => KindOf[d] \in Direct
    /\ s = "failed" /\ KindOf[d] # "approve_push" => done[d] = 0
    /\ s = "expired" => done[d] = 0
    /\ s = "superseded" => KindOf[d] = "dispatch_cadence" \/ done[d] = 0
    /\ state' = [state EXCEPT ![d] = s]
    /\ UNCHANGED done

\* Pruned by gc: the identifier is never used again.
Prune(d) ==
    /\ state[d] \in Terminal
    /\ state' = [state EXCEPT ![d] = "pruned"]
    /\ UNCHANGED done

Next ==
    \/ \E d \in Decision : Enqueue(d) \/ Perform(d) \/ Prune(d)
    \/ \E d \in Decision, s \in Terminal : Settle(d, s)
    \/ \E D \in SUBSET Decision : Surface(D)

Spec == Init /\ [][Next]_vars
=============================================================================
