---------------------------- MODULE DecisionQueue ----------------------------
(***************************************************************************)
(* The operator decision queue of collectors/decisions.py: one JSON file   *)
(* per decision under state/queue/<project>/, no lock, and several kinds   *)
(* of process that read and rewrite the files:                             *)
(*                                                                         *)
(*   Session     hooks/session_start.sh running drain_session              *)
(*   Supervisor  the CLI running drain_supervisor                          *)
(*   Operator    a dashboard request (web.apply_action): apply_decision,   *)
(*               dismiss, dispatch-run                                     *)
(*   Collector   retention running gc                                      *)
(*   Producer    anything that calls enqueue                               *)
(*                                                                         *)
(* A process that will settle a decision first reads the queue, then acts, *)
(* then rewrites the file from the copy it read; _write truncates before   *)
(* it writes.  The four are separate steps here, so processes interleave   *)
(* between them and may die there.                                         *)
(***************************************************************************)
EXTENDS Integers, FiniteSets

CONSTANTS
    Decision,        \* decision ids (ULIDs), ordered as numbers
    Project,         \* registered project slugs
    KindOf,          \* the kind each decision is enqueued with
    ProjectOf,       \* the project whose queue directory holds it
    ExpiresOf,       \* the day its "expires" names, or NoDay
    Session, Supervisor, Operator, Collector, Producer,
    SessionProject,  \* the project a session's working directory resolves to
    CrashProne,      \* the processes that may die between two steps
    MaxActive,       \* how many processes run at the same time
    RetentionDays,   \* gc's retention window
    MaxDay,          \* bound of the calendar
    NoDecision       \* "no decision in hand"

AppSide        == {"dispatch_cadence", "answer_question", "apply_setting", "note"}
SupervisorSide == {"close_escalation", "set_pin", "pause_cadence",
                   "resume_cadence", "approve_push"}
Kind           == AppSide \cup SupervisorSide
ManualOnly     == {"approve_push"}
HeadlessApply  == {"apply_setting", "set_pin", "close_escalation",
                   "pause_cadence", "resume_cadence", "approve_push"}

\* How a kind takes effect: surfaced in the session's context when the drain
\* ends, done while the decision is applied, or nothing but the record of it.
Delivered == {"dispatch_cadence", "answer_question", "note"}
Direct    == {"apply_setting", "set_pin", "approve_push"}

Terminal  == {"applied", "failed", "expired", "superseded"}
Status    == {"pending"} \cup Terminal
FileState == {"absent", "torn"} \cup Status
NoDay     == -1
Day       == 0 .. MaxDay
Actor     == Session \cup Supervisor \cup Operator \cup Collector \cup Producer

ASSUME QueueConstants ==
    /\ Decision \subseteq Nat
    /\ NoDecision \notin Decision
    /\ KindOf \in [Decision -> Kind]
    /\ ProjectOf \in [Decision -> Project]
    /\ ExpiresOf \in [Decision -> Day \cup {NoDay}]
    /\ SessionProject \in [Session -> Project]
    /\ CrashProne \subseteq Actor
    /\ MaxActive \in Nat \ {0}
    /\ RetentionDays \in Nat \ {0}
    /\ MaxDay \in Nat

ASSUME RolesDisjoint ==
    /\ Operator \cap (Session \cup Supervisor \cup Collector \cup Producer) = {}
    /\ Producer \cap (Session \cup Supervisor \cup Collector) = {}
    /\ Collector \cap (Session \cup Supervisor) = {}
    /\ Session \cap Supervisor = {}

VARIABLES
    file,     \* what a reader of the decision's file finds
    stamp,    \* its applied.at
    created,  \* the day of its enqueue
    today,
    job,      \* what each process is doing, and the copies it holds
    done,     \* how often the decision took effect: 0, 1, 2 (twice or more)
    doers     \* the processes that made it take effect

vars == <<file, stamp, created, today, job, done, doers>>

Step == {"idle", "drain", "apply", "launch", "retire", "inspect", "unlink",
         "write", "flush"}

Job == [pc    : Step,
        todo  : SUBSET Decision,           \* snapshot still to be worked through
        cur   : Decision \cup {NoDecision}, \* decision in hand
        out   : Status,                    \* status about to be written
        lines : SUBSET Decision,           \* context not printed yet
        asOf  : Day \cup {NoDay}]          \* the "now" gc started with

IdleJob == [pc |-> "idle", todo |-> {}, cur |-> NoDecision, out |-> "pending",
            lines |-> {}, asOf |-> NoDay]

Init ==
    /\ file    = [d \in Decision |-> "absent"]
    /\ stamp   = [d \in Decision |-> NoDay]
    /\ created = [d \in Decision |-> NoDay]
    /\ today   = 0
    /\ job     = [a \in Actor |-> IdleJob]
    /\ done    = [d \in Decision |-> 0]
    /\ doers   = [d \in Decision |-> {}]

-----------------------------------------------------------------------------
(* What a process sees and holds. *)

Active  == {a \in Actor : job[a].pc # "idle"}
MayStart(a) == a \notin Active /\ Cardinality(Active) < MaxActive

\* (mutant: load_pending without its status test)
PendingInAnyStatus(P) ==
    {d \in Decision : file[d] \in Status /\ ProjectOf[d] \in P}

PendingIn(P) == {d \in Decision : file[d] = "pending" /\ ProjectOf[d] \in P}

\* load_pending parses every file of the directories it scans, and a file cut
\* short by an interrupted _write raises out of it.
Readable(P) == \A d \in Decision : ProjectOf[d] \in P => file[d] # "torn"

Become(a, j)  == job' = [job EXCEPT ![a] = j]
Settle(a, d, s) == Become(a, [job[a] EXCEPT !.pc = "write", !.cur = d, !.out = s])

TakesEffect(a, D) ==
    /\ done'  = [d \in Decision |-> IF d \in D /\ done[d] < 2 THEN done[d] + 1
                                                              ELSE done[d]]
    /\ doers' = [d \in Decision |-> IF d \in D THEN doers[d] \cup {a} ELSE doers[d]]

EarliestOf(d, D) == \A e \in D : d <= e

-----------------------------------------------------------------------------
(* enqueue *)

Enqueue(a, d) ==
    /\ a \in Producer
    /\ MayStart(a)
    /\ created[d] = NoDay
    /\ created' = [created EXCEPT ![d] = today]
    /\ Settle(a, d, "pending")
    /\ UNCHANGED <<file, stamp, today, done, doers>>

(* drain_session and drain_supervisor *)

StartSession(a) ==
    /\ a \in Session
    /\ MayStart(a)
    /\ Readable({SessionProject[a]})
    /\ Become(a, [IdleJob EXCEPT !.pc = "drain",
                  !.todo = {d \in PendingIn({SessionProject[a]}) : KindOf[d] \in AppSide}])
    /\ UNCHANGED <<file, stamp, created, today, done, doers>>

\* (mutant: the supervisor drain forgets MANUAL_ONLY)
StartSupervisorPushes(a) ==
    /\ a \in Supervisor
    /\ MayStart(a)
    /\ Readable(Project)
    /\ Become(a, [IdleJob EXCEPT !.pc = "drain",
                  !.todo = {d \in PendingIn(Project) : KindOf[d] \in SupervisorSide}])
    /\ UNCHANGED <<file, stamp, created, today, done, doers>>

\* (mutant: the supervisor drain skips the pins as well)
StartSupervisorSkipsPins(a) ==
    /\ a \in Supervisor
    /\ MayStart(a)
    /\ Readable(Project)
    /\ Become(a, [IdleJob EXCEPT !.pc = "drain",
                  !.todo = {d \in PendingIn(Project) :
                               KindOf[d] \in SupervisorSide \ (ManualOnly \cup {"set_pin"})}])
    /\ UNCHANGED <<file, stamp, created, today, done, doers>>

StartSupervisor(a) ==
    /\ a \in Supervisor
    /\ MayStart(a)
    /\ Readable(Project)
    /\ Become(a, [IdleJob EXCEPT !.pc = "drain",
                  !.todo = {d \in PendingIn(Project) :
                               KindOf[d] \in SupervisorSide \ ManualOnly}])
    /\ UNCHANGED <<file, stamp, created, today, done, doers>>

\* (mutant: an exception is swallowed and the decision marked applied)
ApplySwallows(a, d) ==
    \/ /\ TakesEffect(a, {d} \cap {e \in Decision : KindOf[e] \in Direct})
       /\ Settle(a, d, "applied")
    \/ /\ KindOf[d] \in Direct
       /\ Settle(a, d, "applied")
       /\ UNCHANGED <<done, doers>>

\* (mutant: an exception puts the decision back for a retry)
ApplyRetries(a, d) ==
    \/ /\ TakesEffect(a, {d} \cap {e \in Decision : KindOf[e] \in Direct})
       /\ Settle(a, d, "applied")
    \/ /\ KindOf[d] \in Direct
       /\ Settle(a, d, "pending")
       /\ UNCHANGED <<done, doers>>

\* apply_app_side / apply_supervisor_side on the copy in hand.  Editing a file
\* or pushing a branch may raise; a push may go through and the PR then fail.
Apply(a, d) ==
    \/ /\ TakesEffect(a, {d} \cap {e \in Decision : KindOf[e] \in Direct})
       /\ Settle(a, d, "applied")
    \/ /\ KindOf[d] \in Direct
       /\ Settle(a, d, "failed")
       /\ UNCHANGED <<done, doers>>
    \/ /\ KindOf[d] = "approve_push"
       /\ TakesEffect(a, {d})
       /\ Settle(a, d, "failed")

DrainNext(a) ==
    /\ job[a].pc = "drain"
    /\ \E d \in job[a].todo : EarliestOf(d, job[a].todo) /\ Apply(a, d)
    /\ UNCHANGED <<file, stamp, created, today>>

\* (mutant: the collected lines are never printed)
DrainEndSilent(a) ==
    /\ job[a].pc = "drain"
    /\ job[a].todo = {}
    /\ Become(a, IdleJob)
    /\ UNCHANGED <<file, stamp, created, today, done, doers>>

\* The loop is over: a session drain hands the collected lines to the hook's
\* caller in one print.
DrainEnd(a) ==
    /\ job[a].pc = "drain"
    /\ job[a].todo = {}
    /\ TakesEffect(a, job[a].lines)
    /\ Become(a, IdleJob)
    /\ UNCHANGED <<file, stamp, created, today>>

(* apply_decision, dismiss and the dashboard's dispatch-run *)

OperatorFinds(a, d) ==
    /\ a \in Operator
    /\ MayStart(a)
    /\ Readable(Project)
    /\ file[d] = "pending"
    /\ UNCHANGED <<file, stamp, created, today, done, doers>>

\* (mutant: "Apply" is offered for messages too)
OperatorApplyAnything(a, d) ==
    /\ OperatorFinds(a, d)
    /\ Become(a, [IdleJob EXCEPT !.pc = "apply", !.cur = d])

OperatorApply(a, d) ==
    /\ OperatorFinds(a, d)
    /\ KindOf[d] \in HeadlessApply
    /\ Become(a, [IdleJob EXCEPT !.pc = "apply", !.cur = d])

\* (mutant: a status the schema does not know)
OperatorDismissUnknown(a, d) ==
    /\ OperatorFinds(a, d)
    /\ Settle(a, d, "dismissed")

OperatorDismiss(a, d) ==
    /\ OperatorFinds(a, d)
    /\ Settle(a, d, "superseded")

OperatorDispatch(a, d) ==
    /\ OperatorFinds(a, d)
    /\ KindOf[d] = "dispatch_cadence"
    /\ Become(a, [IdleJob EXCEPT !.pc = "launch", !.cur = d])

ApplyFound(a) ==
    /\ job[a].pc = "apply"
    /\ Apply(a, job[a].cur)
    /\ UNCHANGED <<file, stamp, created, today>>

\* _launch_run starts the run, or skips (no worktree, locked) and the request
\* fails with the decision left pending.
Launch(a) ==
    /\ job[a].pc = "launch"
    /\ \/ /\ TakesEffect(a, {job[a].cur})
          /\ Become(a, [job[a] EXCEPT !.pc = "retire"])
       \/ /\ Become(a, IdleJob)
          /\ UNCHANGED <<done, doers>>
    /\ UNCHANGED <<file, stamp, created, today>>

\* dismiss after the launch: it looks the decision up again.
Retire(a) ==
    /\ job[a].pc = "retire"
    /\ IF Readable(Project) /\ file[job[a].cur] = "pending"
       THEN Settle(a, job[a].cur, "superseded")
       ELSE Become(a, IdleJob)
    /\ UNCHANGED <<file, stamp, created, today, done, doers>>

(* gc *)

StartGc(a) ==
    /\ a \in Collector
    /\ MayStart(a)
    /\ Become(a, [IdleJob EXCEPT !.pc = "inspect", !.asOf = today,
                  !.todo = {d \in Decision : file[d] # "absent"}])
    /\ UNCHANGED <<file, stamp, created, today, done, doers>>

\* (mutant: expiry looks at the date only)
OverdueAnyStatus(a, d) ==
    /\ file[d] \in Status
    /\ ExpiresOf[d] # NoDay
    /\ job[a].asOf >= ExpiresOf[d]

Overdue(a, d) ==
    /\ file[d] = "pending"
    /\ ExpiresOf[d] # NoDay
    /\ job[a].asOf >= ExpiresOf[d]

\* (mutant: pruning looks at the age only)
AgedAnyStatus(a, d) ==
    /\ file[d] \in Status
    /\ job[a].asOf - (IF stamp[d] # NoDay THEN stamp[d] ELSE created[d]) >= RetentionDays

\* The age gc measures: from applied.at, or from created where there is none.
Aged(a, d) ==
    /\ file[d] \in Terminal
    /\ job[a].asOf - (IF stamp[d] # NoDay THEN stamp[d] ELSE created[d]) >= RetentionDays

\* A file that is torn, or gone since the directory was listed, raises out of gc.
GcInspect(a, d) ==
    /\ job[a].pc = "inspect"
    /\ d \in job[a].todo
    /\ \/ file[d] \in {"torn", "absent"} /\ Become(a, IdleJob)
       \/ Overdue(a, d) /\ Settle(a, d, "expired")
       \/ Aged(a, d) /\ Become(a, [job[a] EXCEPT !.pc = "unlink", !.cur = d])
       \/ /\ file[d] \in Status
          /\ ~Overdue(a, d)
          /\ ~Aged(a, d)
          /\ Become(a, [job[a] EXCEPT !.todo = @ \ {d}])
    /\ UNCHANGED <<file, stamp, created, today, done, doers>>

GcUnlink(a) ==
    /\ job[a].pc = "unlink"
    /\ file'  = [file EXCEPT ![job[a].cur] = "absent"]
    /\ stamp' = [stamp EXCEPT ![job[a].cur] = NoDay]
    /\ Become(a, IF file[job[a].cur] = "absent" THEN IdleJob
                 ELSE [job[a] EXCEPT !.pc = "inspect", !.cur = NoDecision,
                                     !.todo = @ \ {job[a].cur}])
    /\ UNCHANGED <<created, today, done, doers>>

GcEnd(a) ==
    /\ job[a].pc = "inspect"
    /\ job[a].todo = {}
    /\ Become(a, IdleJob)
    /\ UNCHANGED <<file, stamp, created, today, done, doers>>

-----------------------------------------------------------------------------
(* _write, in its two halves: open for writing truncates, then the text of   *)
(* the copy in hand goes out.                                               *)

Truncate(a) ==
    /\ job[a].pc = "write"
    /\ file'  = [file EXCEPT ![job[a].cur] = "torn"]
    /\ stamp' = [stamp EXCEPT ![job[a].cur] = NoDay]
    /\ Become(a, [job[a] EXCEPT !.pc = "flush"])
    /\ UNCHANGED <<created, today, done, doers>>

\* What the caller of _write goes on with.
Written(a) ==
    LET j == job[a] IN
    CASE a \in Session \cup Supervisor ->
           [j EXCEPT !.pc = "drain", !.cur = NoDecision, !.todo = @ \ {j.cur},
                     !.lines = IF j.out = "applied" /\ KindOf[j.cur] \in Delivered
                               THEN @ \cup {j.cur} ELSE @]
      [] a \in Collector ->
           [j EXCEPT !.pc = "inspect", !.cur = NoDecision, !.todo = @ \ {j.cur}]
      [] OTHER -> IdleJob

Flush(a) ==
    /\ job[a].pc = "flush"
    /\ file'  = [file EXCEPT ![job[a].cur] = job[a].out]
    /\ stamp' = [stamp EXCEPT ![job[a].cur] =
                    IF job[a].out \in {"applied", "failed"} THEN today ELSE NoDay]
    /\ Become(a, Written(a))
    /\ UNCHANGED <<created, today, done, doers>>

(* The environment: a process dies, a day passes. *)

Crash(a) ==
    /\ a \in CrashProne
    /\ job[a].pc # "idle"
    /\ Become(a, IdleJob)
    /\ UNCHANGED <<file, stamp, created, today, done, doers>>

NextDay ==
    /\ today < MaxDay
    /\ today' = today + 1
    /\ UNCHANGED <<file, stamp, created, job, done, doers>>

-----------------------------------------------------------------------------

Progress(a) ==
    \/ DrainNext(a) \/ DrainEnd(a) \/ ApplyFound(a) \/ Launch(a) \/ Retire(a)
    \/ \E d \in Decision : GcInspect(a, d)
    \/ GcUnlink(a) \/ GcEnd(a) \/ Truncate(a) \/ Flush(a)

Start(a) ==
    \/ StartSession(a) \/ StartSupervisor(a) \/ StartGc(a)
    \/ \E d \in Decision : \/ Enqueue(a, d) \/ OperatorApply(a, d)
                           \/ OperatorDismiss(a, d) \/ OperatorDispatch(a, d)

Next == NextDay \/ \E a \in Actor : Start(a) \/ Progress(a) \/ Crash(a)

Spec == Init /\ [][Next]_vars

\* Every process that has started runs on, and sessions and supervisor drains
\* keep being started.  The operator and the collector owe nobody a start.
Fairness ==
    /\ \A a \in Actor : WF_vars(Progress(a))
    /\ \A a \in Session : WF_vars(StartSession(a))
    /\ \A a \in Supervisor : WF_vars(StartSupervisor(a))

FairSpec == Spec /\ Fairness

-----------------------------------------------------------------------------
(* Properties *)

TypeOK ==
    /\ file    \in [Decision -> FileState]
    /\ stamp   \in [Decision -> Day \cup {NoDay}]
    /\ created \in [Decision -> Day \cup {NoDay}]
    /\ today   \in Day
    /\ job     \in [Actor -> Job]
    /\ done    \in [Decision -> 0 .. 2]
    /\ doers   \in [Decision -> SUBSET Actor]

\* The approval gate (MANUAL_ONLY): a branch is pushed only from an operator's
\* request, whatever drains run beside it and whatever order they crash in.
ManualNeedsOperator ==
    \A d \in Decision : KindOf[d] \in ManualOnly => doers[d] \subseteq Operator

\* "Writing the terminal status is the claim": a file that says applied is about
\* a setting, a pin or a push that really was made, though the effect comes first
\* and the process may die, or be overtaken by another writer, in between.
AppliedTookEffect ==
    \A d \in Decision :
        file[d] = "applied" /\ KindOf[d] \in Direct => done[d] >= 1

\* A message marked applied has been printed into a session, or the drain that
\* marked it still holds it and will print it.
DeliveredOrHeld ==
    \A d \in Decision :
        file[d] = "applied" /\ KindOf[d] \in Delivered
            => done[d] >= 1 \/ \E a \in Session : d \in job[a].lines

\* A decision takes effect at most once (SPEC 18 rule 1; web.py dispatch-run
\* clears the decision "so it isn't also delivered to a session").
EffectAtMostOnce == \A d \in Decision : done[d] <= 1

\* gc and its concurrent writers never make a pending decision vanish.
PendingNeverDeleted ==
    [][\A d \in Decision : file[d] = "pending" => file'[d] # "absent"]_vars

\* A decision is offered once: a file becomes pending only before any drain or
\* operator has taken it, so no stale copy puts a settled decision back.
NeverReoffered ==
    [][\A d \in Decision :
          file[d] # "pending" /\ file'[d] = "pending"
            => /\ done[d] = 0
               /\ \A a \in Session \cup Supervisor \cup Operator :
                     d # job[a].cur /\ d \notin job[a].todo \cup job[a].lines]_vars

\* Everything that drains by itself leaves the pending state.
QueueDrains ==
    \A d \in Decision : KindOf[d] \notin ManualOnly =>
        (file[d] = "pending" ~> file[d] # "pending")

\* A queued message reaches a session, unless it expires or is dismissed.
MessagesArrive ==
    \A d \in Decision : KindOf[d] \in Delivered =>
        (file[d] = "pending" ~>
            (done[d] >= 1 \/ file[d] \in {"expired", "superseded", "absent"}))

(* The lifecycle a decision is meant to have, which the queue implements as    *)
(* long as its processes run one at a time and none of them dies.              *)

\* Until its first write is through, a decision does not exist; a file cut short
\* later on stands for the pending decision its writer opened.
LifecycleState(d) ==
    IF created[d] = NoDay \/ \E a \in Producer : job[a].cur = d THEN "absent"
    ELSE CASE file[d] = "torn"   -> "pending"
           [] file[d] = "absent" -> "pruned"
           [] OTHER              -> file[d]

Lifecycle == INSTANCE DecisionLifecycle WITH
    state <- [d \in Decision |-> LifecycleState(d)]

ImplementsLifecycle == Lifecycle!Spec
=============================================================================
