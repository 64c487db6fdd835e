------------------------------ MODULE Remediation ------------------------------
(***************************************************************************)
(* Bounded auto-remediation (collectors/remediate.py).  A scan plans once, *)
(* from the receipts and the decision queue it finds, and then carries the *)
(* plan out one decision at a time; nothing locks the queue, so collectors *)
(* and "foreman remediate scan" may overlap, and the world moves on        *)
(* between a plan and its execution.                                       *)
(***************************************************************************)
EXTENDS Integers, Sequences, FiniteSetsExt, Functions

CONSTANTS
    Projects,       \* registry.yaml's projects, in order: [slug, auto, cadences]
    DefaultAuto,    \* registry.yaml's defaults.auto_remediate
    Meta,           \* each cadence's remediation block: [enabled, max_attempts]
    Scanner,        \* the processes that may be scanning at once
    RetentionDays,  \* gc's retention window, in ticks of the clock
    MaxRuns,        \* bound: runs of one pair
    MaxTime,        \* bound: the clock
    MaxDismissed    \* bound: decisions the operator dismisses or lets expire

ASSUME ScannerAssumption == Scanner # {} /\ IsFiniteSet(Scanner)

\* A loop stands once in a project's list (listed twice, one scan would plan two fixes for it).
ASSUME ListedOnce ==
    \A i \in DOMAIN Projects : \A j, k \in DOMAIN Projects[i].cadences :
        Projects[i].cadences[j] = Projects[i].cadences[k] => j = k

\* auto_remediate is true, a list of loops, false, or absent.
AutoValue == [set : BOOLEAN, all : BOOLEAN, only : SUBSET DOMAIN Meta]

resolve_auto_remediate(project) == IF project.auto.set THEN project.auto ELSE DefaultAuto

OptedIn(auto, cadence) == auto.all \/ cadence \in auto.only

\* A pair is a loop's place in a project's list.
Pair == UNION {{i} \X DOMAIN Projects[i].cadences : i \in DOMAIN Projects}
Cadence(q) == Projects[q[1]].cadences[q[2]]
MaxAttempts(q) == Meta[Cadence(q)].max_attempts

\* The pairs plan's two loops reach, and the order they reach them in.
Candidates == {q \in Pair : /\ OptedIn(resolve_auto_remediate(Projects[q[1]]), Cadence(q))
                            /\ Meta[Cadence(q)].enabled}
Before(p, q) == p[1] < q[1] \/ (p[1] = q[1] /\ p[2] < q[2])

VARIABLES
    now,    \* the clock the receipts and the decisions are stamped with
    runs,   \* runs[q]: the receipts of the pair, oldest first
    decs,   \* the queue: the fix dispatches and cap notes gc has not pruned
    todo,   \* todo[s]: what is left of the scanner's plan, by pair
    tried   \* fixes dispatched for the pair so far, counted up to max_attempts (history)

vars == <<now, runs, decs, todo, tried>>

Verdicts == {"green", "amber", "red"}   \* "red" also stands for failed and timeout

Decision == [copy : Nat, kind : {"fix", "note"}, pair : Pair, run : 0 .. MaxRuns,
             status : {"pending", "applied", "superseded"}, created : 0 .. MaxTime]

Step == [run : 0 .. MaxRuns, action : {"dispatch", "capped", "skip-pending", "file-note"}]

TypeOK ==
    /\ now \in 0 .. MaxTime
    /\ \A q \in Pair : runs[q] \in Seq([verdict : Verdicts, ended : 0 .. MaxTime])
    /\ decs \subseteq Decision /\ IsFiniteSet(decs)
    /\ \A d \in decs : d.created <= now
    /\ tried \in [Pair -> Nat]
    /\ \A s \in Scanner : /\ DOMAIN todo[s] \subseteq Pair
                          /\ \A q \in DOMAIN todo[s] : todo[s][q] \in Step

Init ==
    /\ now = 0
    /\ runs = [q \in Pair |-> <<>>]
    /\ decs = {}
    /\ todo = [s \in Scanner |-> <<>>]
    /\ tried = [q \in Pair |-> 0]

-----------------------------------------------------------------------------
(* Reading the state branch *)

IsRed(q) == runs[q] # <<>> /\ runs[q][Len(runs[q])].verdict = "red"

\* When the last green run ended; -1 (before everything) if there was none.
LastGreenEnded(q) ==
    LET greens == {i \in DOMAIN runs[q] : runs[q][i].verdict = "green"}
    IN  IF greens = {} THEN -1 ELSE runs[q][Max(greens)].ended

FixDecisions(q) == {d \in decs : d.kind = "fix" /\ d.pair = q}

\* (mutant: only what is still queued counts as an attempt)
AttemptsPendingOnly(q) == {d \in FixDecisions(q) : d.status = "pending"}

\* The fix decisions of the current streak that were not dismissed and did not expire.
AttemptsSince(q) == {d \in FixDecisions(q) : /\ d.status \in {"pending", "applied"}
                                              /\ d.created >= LastGreenEnded(q)}

PlanFor(q) ==
    [run |-> Len(runs[q]),
     action |-> IF \E d \in AttemptsSince(q) : d.status = "pending" THEN "skip-pending"
                ELSE IF Cardinality(AttemptsSince(q)) >= MaxAttempts(q) THEN "capped"
                ELSE "dispatch"]

PlanNow == [q \in {c \in Candidates : IsRed(c)} |-> PlanFor(q)]

CappedNoteExists(q, run) ==
    \E d \in decs : d.kind = "note" /\ d.pair = q /\ d.run = run

-----------------------------------------------------------------------------
(* A scan: one plan, then one step per decision; it may die between two *)

Plan(s) ==
    /\ DOMAIN todo[s] = {}
    /\ DOMAIN PlanNow # {}
    /\ todo' = [todo EXCEPT ![s] = PlanNow]
    /\ UNCHANGED <<now, runs, decs, tried>>

\* Decisions have ids of their own; copy numbers those that agree in everything else.
Alike(d, D) == {x \in D : [x EXCEPT !.copy = d.copy] = d}
Added(d, D) == D \cup {[d EXCEPT !.copy = Cardinality(Alike(d, D)) + 1]}

\* Which of them moves makes no difference: Chosen takes the last.
Chosen == {d \in decs : [d EXCEPT !.copy = @ + 1] \notin decs}

\* Nobody reads a fix's source_run again, so it is left at 0.
Enqueue(kind, q, run) ==
    decs' = Added([copy |-> 0, kind |-> kind, pair |-> q, run |-> run,
                   status |-> "pending", created |-> now], decs)

Drop(s, q) == todo' = [todo EXCEPT ![s] = Restrict(@, DOMAIN @ \ {q})]

Doing(s, q, action) ==
    /\ q \in DOMAIN todo[s] /\ \A p \in DOMAIN todo[s] : ~Before(p, q)
    /\ todo[s][q].action = action

Dispatch(s, q) ==
    /\ Doing(s, q, "dispatch")
    /\ Enqueue("fix", q, 0)
    /\ Drop(s, q)
    /\ tried' = [tried EXCEPT ![q] = IF @ < MaxAttempts(q) THEN @ + 1 ELSE @]
    /\ UNCHANGED <<now, runs>>

\* (mutant: a cap is not handed over to the operator at all)
CheckNoteNever(s, q) ==
    /\ Doing(s, q, "capped")
    /\ Drop(s, q)
    /\ UNCHANGED <<now, runs, decs, tried>>

\* The note's existence is checked in one step, the note is written in the next.
CheckNote(s, q) ==
    /\ Doing(s, q, "capped")
    /\ IF CappedNoteExists(q, todo[s][q].run)
         THEN Drop(s, q)
         ELSE todo' = [todo EXCEPT ![s][q].action = "file-note"]
    /\ UNCHANGED <<now, runs, decs, tried>>

FileNote(s, q) ==
    /\ Doing(s, q, "file-note")
    /\ Enqueue("note", q, todo[s][q].run)
    /\ Drop(s, q)
    /\ UNCHANGED <<now, runs, tried>>

SkipPending(s, q) ==
    /\ Doing(s, q, "skip-pending")
    /\ Drop(s, q)
    /\ UNCHANGED <<now, runs, decs, tried>>

Die(s) ==
    /\ DOMAIN todo[s] # {}
    /\ todo' = [todo EXCEPT ![s] = <<>>]
    /\ UNCHANGED <<now, runs, decs, tried>>

-----------------------------------------------------------------------------
(* What the rest of the system does meanwhile *)

\* A run of the loop ends, in the same second as what happened last or later.
RunEnds(q, v) ==
    /\ Len(runs[q]) < MaxRuns
    /\ \E t \in {now, now + 1} :
         /\ t <= MaxTime
         /\ now' = t
         /\ runs' = [runs EXCEPT ![q] = Append(@, [verdict |-> v, ended |-> t])]
    /\ UNCHANGED <<decs, todo, tried>>

Tick ==
    /\ now < MaxTime
    /\ now' = now + 1
    /\ UNCHANGED <<runs, decs, todo, tried>>

Settle(d, status) ==
    /\ d.status = "pending"
    /\ decs' = Added([d EXCEPT !.status = status], decs \ {d})
    /\ UNCHANGED <<now, runs, todo, tried>>

\* A drain launches the fix loop, or SessionStart delivers the note.
Apply(d) == Settle(d, "applied")

\* The operator dismisses the decision, or gc expires it.
Dismiss(d) ==
    /\ Cardinality({x \in decs : x.status = "superseded"}) < MaxDismissed
    /\ Settle(d, "superseded")

\* gc removes what was settled long ago.
Prune(d) ==
    /\ d.status # "pending"
    /\ now - d.created >= RetentionDays
    /\ decs' = decs \ {d}
    /\ UNCHANGED <<now, runs, todo, tried>>

ScanStep == \E s \in Scanner :
    \/ Plan(s) \/ Die(s)
    \/ \E q \in Pair : Dispatch(s, q) \/ CheckNote(s, q) \/ FileNote(s, q) \/ SkipPending(s, q)

WorldStep ==
    \/ Tick
    \/ \E q \in Pair, v \in Verdicts : RunEnds(q, v)
    \/ \E d \in Chosen : Apply(d) \/ Dismiss(d) \/ Prune(d)

Next == ScanStep \/ WorldStep

\* Scans keep coming and not every one dies; what is pending is drained or delivered.
Fairness ==
    /\ \A s \in Scanner : WF_vars(Plan(s) \/ \E q \in Pair : SkipPending(s, q))
    /\ SF_vars(\E s \in Scanner, q \in Pair : Dispatch(s, q))
    /\ SF_vars(\E s \in Scanner, q \in Pair : CheckNote(s, q))
    /\ SF_vars(\E s \in Scanner, q \in Pair : FileNote(s, q))
    /\ WF_vars(\E d \in Chosen : Apply(d))

Spec == Init /\ [][Next]_vars /\ Fairness

-----------------------------------------------------------------------------
(* Properties *)

\* "At most max_attempts fix loops per red streak" holds up to the scans that overlap: each
\* other scanner may carry one dispatch it planned before the rest were enqueued.
AttemptsBounded ==
    \A q \in Pair :
        Cardinality({d \in decs : /\ d.kind = "fix" /\ d.pair = q
                                  /\ d.status \in {"pending", "applied"}
                                  /\ d.created >= LastGreenEnded(q)})
            < MaxAttempts(q) + Cardinality(Scanner)

Notes(q, run) == {d \in decs : d.kind = "note" /\ d.pair = q /\ d.run = run}

\* The operator is told once that remediation of a red run has stopped, up to the scans that
\* overlap, however often the collector comes back and whatever became of the note.
NotesBounded ==
    \A q \in Pair, run \in 1 .. MaxRuns : Cardinality(Notes(q, run)) <= Cardinality(Scanner)

\* "Stopped after max_attempts attempts" is never said early: that many fixes were dispatched
\* before the note, even when the scan that counted them is not the one that dispatched them.
NoteEarned ==
    \A q \in Pair, run \in 1 .. MaxRuns : Notes(q, run) # {} => tried[q] = MaxAttempts(q)

\* However scans overlap and whatever the operator dismisses: the attempts of a streak and the
\* notes about a run exceed their bound only by the scans beside the first, and no note says
\* the attempts are spent while they are not.
RemediationBounded == TypeOK /\ AttemptsBounded /\ NotesBounded /\ NoteEarned

\* A red that stays is handed to the operator: the pair runs again, or a note about this run
\* is filed, once the attempts are spent and whatever scans die on the way.
StuckRedHandedOver ==
    \A q \in Candidates, run \in 1 .. MaxRuns :
        (Len(runs[q]) = run /\ IsRed(q)) ~> (Len(runs[q]) # run \/ Notes(q, run) # {})
==============================================================================
