--------------------------------- MODULE Cloud ---------------------------------
(***************************************************************************)
(* The cloud routine (collectors/cloud.py, .github/workflows/              *)
(* cloud-routine.yml): an hourly job checks the repository out, works out  *)
(* from the receipts it finds there which cloud loops are due, runs them   *)
(* one after the other and pushes their receipts at the end.  The workflow's *)
(* concurrency group lets one job work at a time; others push meanwhile.   *)
(***************************************************************************)
EXTENDS Integers, FiniteSetsExt, Functions

CONSTANTS
    Loops,       \* the pairs of tier cloud, in the registry's order
    Occurrences, \* Occurrences[i]: when the schedule of Loops[i] fires
    MaxTime,     \* bound: the clock
    MaxOthers,   \* bound: pushes of others
    MaxFaults    \* bound: jobs that are killed, pushes that fail, runs without a receipt

VARIABLES
    now,
    origin,  \* origin[l]: when the newest receipt in the repository ended, or Never
    job,     \* the job in flight
    behind,  \* somebody has pushed since the job's checkout
    others, faults,
    fired,   \* fired[l][o]: how often occurrence o was fired (history)
    lost     \* lost[l]: runs whose receipt did not reach the repository (history)

vars == <<now, origin, job, behind, others, faults, fired, lost>>

Loop == DOMAIN Loops
Never == -1
Idle == [at |-> "idle", seen |-> <<>>, due |-> <<>>, new |-> <<>>, ran |-> {}]
Earliest(l) == Min(Occurrences[l])

TypeOK ==
    /\ now \in 0 .. MaxTime
    /\ origin \in [Loop -> Never .. MaxTime]
    /\ job.at \in {"idle", "checked-out", "between", "in-a-run"}
    /\ DOMAIN job.due \subseteq Loop /\ \A l \in DOMAIN job.due : job.due[l] \in Occurrences[l]
    /\ job.ran \subseteq Loop /\ DOMAIN job.new \subseteq job.ran
    /\ behind \in BOOLEAN /\ others \in 0 .. MaxOthers /\ faults \in 0 .. MaxFaults
    /\ \A l \in Loop : fired[l] \in [Occurrences[l] -> Nat] /\ lost[l] \in Nat

Init ==
    /\ now = 0
    /\ origin = [l \in Loop |-> Never]
    /\ job = Idle
    /\ behind = FALSE
    /\ others = 0 /\ faults = 0
    /\ fired = [l \in Loop |-> [o \in Occurrences[l] |-> 0]]
    /\ lost = [l \in Loop |-> 0]

-----------------------------------------------------------------------------
(* A job *)

Checkout ==
    /\ job.at = "idle"
    /\ job' = [Idle EXCEPT !.at = "checked-out", !.seen = origin]
    /\ behind' = FALSE
    /\ UNCHANGED <<now, origin, others, faults, fired, lost>>

\* The most recent occurrence, up to now.
previous_fire(l) == Max({o \in Occurrences[l] : o <= now})

\* (mutant: a receipt that ended in the minute of the occurrence does not capture it)
DueAtReceipt(l) == Earliest(l) <= now /\ job.seen[l] <= previous_fire(l)

\* No receipt of the checkout ended at the occurrence or later.
IsDue(l) == Earliest(l) <= now /\ job.seen[l] < previous_fire(l)

\* `only` is the scope of a manual run; the hourly job has none.
DueCloud(only) ==
    /\ job.at = "checked-out"
    /\ job' = [job EXCEPT !.at = "between",
                          !.due = [l \in {k \in only : IsDue(k)} |-> previous_fire(l)]]
    /\ UNCHANGED <<now, origin, behind, others, faults, fired, lost>>

\* The pair whose turn it is, in the registry's order.
Turn(l) == l \in DOMAIN job.due /\ \A k \in DOMAIN job.due : l <= k

RunStarts(l) ==
    /\ job.at = "between" /\ Turn(l)
    /\ fired' = [fired EXCEPT ![l][job.due[l]] = @ + 1]
    /\ job' = [job EXCEPT !.at = "in-a-run", !.ran = @ \cup {l}]
    /\ UNCHANGED <<now, origin, behind, others, faults, lost>>

\* The clone failed or the agent ran: there is a receipt either way, ended now.
RunEnds(l) ==
    /\ job.at = "in-a-run" /\ Turn(l)
    /\ job' = [job EXCEPT !.at = "between", !.due = Restrict(@, DOMAIN @ \ {l}),
                          !.new = [k \in DOMAIN @ \cup {l} |-> IF k = l THEN now ELSE @[k]]]
    /\ UNCHANGED <<now, origin, behind, others, faults, fired, lost>>

\* run_one raised (no prompt file) or the receipt could not be built; the next one runs.
RunRaises(l) ==
    /\ job.at = "in-a-run" /\ Turn(l) /\ faults < MaxFaults
    /\ faults' = faults + 1
    /\ job' = [job EXCEPT !.at = "between", !.due = Restrict(@, DOMAIN @ \ {l})]
    /\ UNCHANGED <<now, origin, behind, others, fired, lost>>

Losing(loops) == lost' = [l \in Loop |-> lost[l] + IF l \in loops THEN 1 ELSE 0]

\* "Commit receipts": what the runs left is committed and pushed, if anything.
Push ==
    /\ job.at = "between" /\ DOMAIN job.due = {}
    /\ ~behind \/ DOMAIN job.new = {}
    /\ origin' = [l \in Loop |-> IF l \in DOMAIN job.new THEN job.new[l] ELSE origin[l]]
    /\ Losing(job.ran \ DOMAIN job.new)
    /\ job' = Idle
    /\ UNCHANGED <<now, behind, others, faults, fired>>

\* The push is not a fast-forward; nobody tries again.
PushRejected ==
    /\ job.at = "between" /\ DOMAIN job.due = {}
    /\ behind /\ DOMAIN job.new # {}
    /\ Losing(job.ran)
    /\ job' = Idle
    /\ UNCHANGED <<now, origin, behind, others, faults, fired>>

\* The job reaches its ninety minutes, or the runner goes away.
Killed ==
    /\ job.at # "idle" /\ faults < MaxFaults
    /\ faults' = faults + 1
    /\ Losing(job.ran)
    /\ job' = Idle
    /\ UNCHANGED <<now, origin, behind, others, fired>>

\* A host pushes: other work, or the receipt of a run of a pair started by hand.
OtherPush ==
    /\ others < MaxOthers
    /\ others' = others + 1
    /\ behind' = TRUE
    /\ origin' \in {origin} \cup {[origin EXCEPT ![l] = now] : l \in Loop}
    /\ UNCHANGED <<now, job, faults, fired, lost>>

TimePasses ==
    /\ now < MaxTime
    /\ now' = now + 1
    /\ UNCHANGED <<origin, job, behind, others, faults, fired, lost>>

JobStep == \/ Checkout \/ Push \/ PushRejected \/ Killed
           \/ \E l \in Loop : RunStarts(l) \/ RunEnds(l) \/ RunRaises(l)
           \/ \E only \in SUBSET Loop : DueCloud(only)

Next == JobStep \/ OtherPush \/ TimePasses

GoesOn == Checkout \/ Push \/ PushRejected \/ \E l \in Loop : RunStarts(l) \/ RunEnds(l)

\* The job comes every hour and goes on; not every one is a manual, scoped one.
Fairness == WF_vars(GoesOn) /\ SF_vars(DueCloud(Loop)) /\ WF_vars(TimePasses)

-----------------------------------------------------------------------------
(* Properties *)

\* "Naturally idempotent + catch-up-safe": an occurrence is fired once, and once more at most
\* for each run whose receipt never reached the repository, whatever others push meanwhile
\* and however long a job takes.
FiredAgainOnlyAfterLoss ==
    \A l \in Loop : \A o \in Occurrences[l] : fired[l][o] <= 1 + lost[l]

\* Every occurrence is answered by a receipt in the repository, whatever the hourly job
\* missed, killed jobs and rejected pushes included.
OccurrencesReported ==
    \A l \in Loop : \A o \in Occurrences[l] : (now >= o) ~> (origin[l] >= o)

==============================================================================
