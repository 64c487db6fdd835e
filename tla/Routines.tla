------------------------------- MODULE Routines -------------------------------
(* What comes back every hour: the index's run table, the cloud routine and the notifications. *)
(* The three share no state; part says which of them a behaviour is about.                     *)
EXTENDS Integers, FiniteSets

CONSTANTS
    Run, DayOf, Collector, MaxDrops,                             \* Index
    Loops, Occurrences, MaxTime, MaxOthers, MaxFaults,           \* Cloud
    Pair, Scanner, KeepDays, MaxRuns, MaxDay, MaxSpoiled         \* Notify

\* Runs are numbered from 1; a cloud loop fires some time within the bound; no pair is called
\* like the approval.
ASSUME Instance ==
    /\ Run \subseteq Nat \ {0} /\ MaxDrops \in Nat
    /\ DOMAIN Loops \subseteq Nat /\ MaxTime \in Nat /\ MaxOthers \in Nat /\ MaxFaults \in Nat
    /\ \A l \in DOMAIN Loops : Occurrences[l] \subseteq 0 .. MaxTime /\ Occurrences[l] # {}
    /\ IsFiniteSet(Pair) /\ IsFiniteSet(Scanner) /\ "approve_push" \notin Pair
    /\ MaxRuns \in Nat /\ MaxDay \in Nat

VARIABLES part,
    fate, rows, crashes, pass, drops,
    now, origin, job, behind, others, faults, fired, lost,
    tip, approval, day, watermark, scan, sent, spoiled

runs == <<fate, rows, crashes, pass, drops>>
cloud == <<now, origin, job, behind, others, faults, fired, lost>>
notify == <<tip, approval, day, watermark, scan, sent, spoiled>>
vars == <<part, runs, cloud, notify>>

R == INSTANCE Index
C == INSTANCE Cloud
N == INSTANCE Notify WITH now <- day

Init == part \in {"runs", "cloud", "notify"} /\ R!Init /\ C!Init /\ N!Init

Runs(A) == part = "runs" /\ A /\ UNCHANGED <<part, cloud, notify>>
Cloud(A) == part = "cloud" /\ A /\ UNCHANGED <<part, runs, notify>>
Notify(A) == part = "notify" /\ A /\ UNCHANGED <<part, runs, cloud>>

Next == Runs(R!Next) \/ Cloud(C!Next) \/ Notify(N!Next)

Spec == Init /\ [][Next]_vars

\* The run table never shows a crash for a run whose receipt was there to read, nor two crashes
\* of a pair and a day.
CrashesTrue == R!TypeOK /\ R!CrashMeansNoReceipt /\ R!OneCrashPerDay

\* An occurrence of a cloud loop is run again only after the receipt of its run was lost.
CloudRunsOnce == C!TypeOK /\ C!FiredAgainOnlyAfterLoss

\* The watermark says sent only of what was, and an event is sent again only after a write of
\* the watermark was lost or spoiled.
NotifiedOnce == N!TypeOK /\ N!WatermarkHonest /\ N!ResentOnlyAfterSpoil

\* While collectors and cloud ticks keep coming: a run that died shows as a crash, an occurrence
\* of a cloud loop gets a receipt, and what is on the board reaches the operator.
EverythingReported == /\ part = "runs" => R!DeathsShow
                      /\ part = "cloud" => C!OccurrencesReported
                      /\ part = "notify" => N!EventsReachOperator
==============================================================================
