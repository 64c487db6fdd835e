------------------------- MODULE DecisionQueueProofs -------------------------
(***************************************************************************)
(* Proofs about DecisionQueue, for every set of decisions and processes,   *)
(* every assignment of kinds, projects and expiry days, any number of      *)
(* processes running at once and any of them dying anywhere; and, in the   *)
(* last part, for processes that run one at a time.                        *)
(***************************************************************************)
EXTENDS DecisionQueue, FiniteSetTheorems, TLAPS

\* A process past its choice of a decision has one in hand.
HandFull ==
    \A a \in Actor :
        job[a].pc \in {"apply", "launch", "retire", "unlink", "write", "flush"}
            => job[a].cur \in Decision

\* Types, with the hand: the queue's type invariant is not inductive without it.
Typed == TypeOK /\ HandFull

-----------------------------------------------------------------------------
(* Facts about the ways a process' record changes. *)

\* Replacing one process' record keeps the family of records well typed.
LEMMA BecomeType ==
    ASSUME job \in [Actor -> Job], NEW a \in Actor, NEW j \in Job, Become(a, j)
    PROVE  /\ job' \in [Actor -> Job]
           /\ job'[a] = j
           /\ \A b \in Actor \ {a} : job'[b] = job[b]
  BY DEF Become

\* The idle record is a record, and it is not past a choice.
LEMMA IdleType == IdleJob \in Job /\ IdleJob.pc = "idle"
  BY QueueConstants DEF IdleJob, Job, Step, Status, NoDay

\* Taking a decision in hand for its terminal (or first) write.
LEMMA SettleType ==
    ASSUME job \in [Actor -> Job], NEW a \in Actor, NEW d \in Decision,
           NEW s \in Status, Settle(a, d, s)
    PROVE  /\ job' \in [Actor -> Job]
           /\ job'[a] = [job[a] EXCEPT !.pc = "write", !.cur = d, !.out = s]
           /\ job'[a].pc = "write" /\ job'[a].cur = d /\ job'[a].out = s
           /\ \A b \in Actor \ {a} : job'[b] = job[b]
  <1>1. [job[a] EXCEPT !.pc = "write", !.cur = d, !.out = s] \in Job
    BY DEF Job, Step
  <1>2. QED
    BY <1>1, BecomeType DEF Settle, Job

\* Counting an effect keeps the counters and their authors well typed.
LEMMA EffectType ==
    ASSUME done \in [Decision -> 0 .. 2], doers \in [Decision -> SUBSET Actor],
           NEW a \in Actor, NEW D, TakesEffect(a, D)
    PROVE  /\ done' \in [Decision -> 0 .. 2]
           /\ doers' \in [Decision -> SUBSET Actor]
  BY DEF TakesEffect

-----------------------------------------------------------------------------
(* Types *)

\* Applying a decision keeps the state well typed, and moves on to its write.
LEMMA ApplyType ==
    ASSUME Typed, NEW a \in Actor, NEW d \in Decision, Apply(a, d),
           UNCHANGED <<file, stamp, created, today>>
    PROVE  Typed'
  <1> USE DEF Typed, TypeOK, HandFull
  <1>1. PICK s \in {"applied", "failed"} : Settle(a, d, s)
    BY DEF Apply
  <1>2. /\ job' \in [Actor -> Job]
        /\ job'[a].pc = "write" /\ job'[a].cur = d
        /\ \A b \in Actor \ {a} : job'[b] = job[b]
    BY <1>1, SettleType DEF Status, Terminal
  <1>3. done' \in [Decision -> 0 .. 2] /\ doers' \in [Decision -> SUBSET Actor]
    BY EffectType DEF Apply
  <1>4. QED
    BY <1>2, <1>3

\* A process whose new record is not past a choice, or has a decision in hand,
\* keeps the hand full.
LEMMA HandKept ==
    ASSUME Typed, NEW a \in Actor, NEW j \in Job, Become(a, j),
           j.pc \in {"idle", "drain", "inspect"} \/ j.cur \in Decision
    PROVE  job' \in [Actor -> Job] /\ HandFull'
  <1>1. /\ job' \in [Actor -> Job]
        /\ job'[a] = j
        /\ \A b \in Actor \ {a} : job'[b] = job[b]
    BY BecomeType DEF Typed, TypeOK
  <1>2. QED
    BY <1>1 DEF Typed, HandFull

\* So does one that settles a decision.
LEMMA HandKeptBySettle ==
    ASSUME Typed, NEW a \in Actor, NEW d \in Decision, NEW s \in Status,
           Settle(a, d, s)
    PROVE  job' \in [Actor -> Job] /\ HandFull'
  <1>1. [job[a] EXCEPT !.pc = "write", !.cur = d, !.out = s] \in Job
    <2>1. job[a] \in Job
      BY DEF Typed, TypeOK
    <2>2. QED
      BY <2>1 DEF Job, Step
  <1>2. [job[a] EXCEPT !.pc = "write", !.cur = d, !.out = s].cur = d
    BY DEF Typed, TypeOK, Job
  <1>3. QED
    BY <1>1, <1>2, HandKept DEF Settle

\* A process that starts, or gives up, writes nothing and counts nothing.
LEMMA IdleOrStartType ==
    ASSUME Typed, NEW a \in Actor, NEW j \in Job, Become(a, j),
           j.pc \in {"idle", "drain", "inspect"} \/ j.cur \in Decision,
           UNCHANGED <<file, stamp, created, today, done, doers>>
    PROVE  Typed'
  <1>1. job' \in [Actor -> Job] /\ HandFull'
    BY HandKept
  <1>2. QED
    BY <1>1 DEF Typed, TypeOK

\* Every step of the queue keeps the types.
THEOREM TypedInductive ==
    ASSUME Typed, [Next]_vars
    PROVE  Typed'
  <1> USE DEF Typed, TypeOK, HandFull
  <1>1. CASE UNCHANGED vars
    BY <1>1 DEF vars
  <1>2. CASE NextDay
    BY <1>2, QueueConstants DEF NextDay, Day
  <1>3. ASSUME NEW a \in Actor, StartSession(a)
        PROVE  Typed'
    <2>1. [IdleJob EXCEPT !.pc = "drain",
             !.todo = {d \in PendingIn({SessionProject[a]}) : KindOf[d] \in AppSide}]
            \in Job
      BY IdleType DEF Job, Step, PendingIn
    <2>2. QED
      BY <1>3, <2>1, IdleType, IdleOrStartType DEF StartSession, Job
  <1>4. ASSUME NEW a \in Actor, StartSupervisor(a)
        PROVE  Typed'
    <2>1. [IdleJob EXCEPT !.pc = "drain",
             !.todo = {d \in PendingIn(Project) :
                         KindOf[d] \in SupervisorSide \ ManualOnly}] \in Job
      BY IdleType DEF Job, Step, PendingIn
    <2>2. QED
      BY <1>4, <2>1, IdleType, IdleOrStartType DEF StartSupervisor, Job
  <1>5. ASSUME NEW a \in Actor, StartGc(a)
        PROVE  Typed'
    <2>1. [IdleJob EXCEPT !.pc = "inspect", !.asOf = today,
             !.todo = {d \in Decision : file[d] # "absent"}] \in Job
      BY IdleType DEF Job, Step
    <2>2. QED
      BY <1>5, <2>1, IdleType, IdleOrStartType DEF StartGc, Job
  <1>6. ASSUME NEW a \in Actor, NEW d \in Decision, Enqueue(a, d)
        PROVE  Typed'
    BY <1>6, HandKeptBySettle DEF Enqueue, Status
  <1>7. ASSUME NEW a \in Actor, NEW d \in Decision, OperatorApply(a, d)
        PROVE  Typed'
    <2>1. [IdleJob EXCEPT !.pc = "apply", !.cur = d] \in Job
      BY IdleType DEF Job, Step
    <2>2. QED
      BY <1>7, <2>1, IdleType, IdleOrStartType DEF OperatorApply, OperatorFinds, Job
  <1>8. ASSUME NEW a \in Actor, NEW d \in Decision, OperatorDismiss(a, d)
        PROVE  Typed'
    BY <1>8, HandKeptBySettle DEF OperatorDismiss, OperatorFinds, Status, Terminal
  <1>9. ASSUME NEW a \in Actor, NEW d \in Decision, OperatorDispatch(a, d)
        PROVE  Typed'
    <2>1. [IdleJob EXCEPT !.pc = "launch", !.cur = d] \in Job
      BY IdleType DEF Job, Step
    <2>2. QED
      BY <1>9, <2>1, IdleType, IdleOrStartType DEF OperatorDispatch, OperatorFinds, Job
  <1>10. ASSUME NEW a \in Actor, DrainNext(a)
         PROVE  Typed'
    <2>1. job[a].todo \subseteq Decision
      BY DEF Job
    <2>2. QED
      BY <1>10, <2>1, ApplyType DEF DrainNext
  <1>11. ASSUME NEW a \in Actor, DrainEnd(a)
         PROVE  Typed'
    BY <1>11, IdleType, BecomeType, EffectType DEF DrainEnd
  <1>12. ASSUME NEW a \in Actor, ApplyFound(a)
         PROVE  Typed'
    BY <1>12, ApplyType DEF ApplyFound
  <1>13. ASSUME NEW a \in Actor, Launch(a)
         PROVE  Typed'
    <2>1. CASE TakesEffect(a, {job[a].cur}) /\ Become(a, [job[a] EXCEPT !.pc = "retire"])
      <3>1. /\ [job[a] EXCEPT !.pc = "retire"] \in Job
            /\ [job[a] EXCEPT !.pc = "retire"].cur = job[a].cur
        BY DEF Job, Step
      <3>2. QED
        BY <1>13, <2>1, <3>1, BecomeType, EffectType DEF Launch
    <2>2. CASE Become(a, IdleJob) /\ UNCHANGED <<done, doers>>
      BY <1>13, <2>2, IdleType, IdleOrStartType DEF Launch
    <2>3. QED
      BY <1>13, <2>1, <2>2 DEF Launch
  <1>14. ASSUME NEW a \in Actor, Retire(a)
         PROVE  Typed'
    <2>1. CASE Settle(a, job[a].cur, "superseded")
      BY <1>14, <2>1, SettleType DEF Retire, Status, Terminal
    <2>2. CASE Become(a, IdleJob)
      BY <1>14, <2>2, IdleType, IdleOrStartType DEF Retire
    <2>3. QED
      BY <1>14, <2>1, <2>2 DEF Retire
  <1>15. ASSUME NEW a \in Actor, NEW d \in Decision, GcInspect(a, d)
         PROVE  Typed'
    <2>1. CASE Become(a, IdleJob)
      BY <1>15, <2>1, IdleType, IdleOrStartType DEF GcInspect
    <2>2. CASE Settle(a, d, "expired")
      BY <1>15, <2>2, HandKeptBySettle DEF GcInspect, Status, Terminal
    <2>3. CASE Become(a, [job[a] EXCEPT !.pc = "unlink", !.cur = d])
      <3>1. /\ [job[a] EXCEPT !.pc = "unlink", !.cur = d] \in Job
            /\ [job[a] EXCEPT !.pc = "unlink", !.cur = d].cur = d
        BY DEF Job, Step
      <3>2. QED
        BY <1>15, <2>3, <3>1, IdleOrStartType DEF GcInspect
    <2>4. CASE Become(a, [job[a] EXCEPT !.todo = @ \ {d}])
      <3>1. /\ [job[a] EXCEPT !.todo = @ \ {d}] \in Job
            /\ [job[a] EXCEPT !.todo = @ \ {d}].pc = "inspect"
        BY <1>15 DEF Job, Step, GcInspect
      <3>2. QED
        BY <1>15, <2>4, <3>1, IdleOrStartType DEF GcInspect
    <2>5. QED
      BY <1>15, <2>1, <2>2, <2>3, <2>4 DEF GcInspect
  <1>16. ASSUME NEW a \in Actor, GcUnlink(a)
         PROVE  Typed'
    <2> DEFINE next == [job[a] EXCEPT !.pc = "inspect", !.cur = NoDecision,
                                      !.todo = @ \ {job[a].cur}]
    <2>1. next \in Job /\ next.pc = "inspect"
      BY DEF Job, Step
    <2>2. PICK j \in {IdleJob, next} : Become(a, j)
      BY <1>16 DEF GcUnlink
    <2>3. j \in Job /\ j.pc \in {"idle", "inspect"}
      BY <2>1, <2>2, IdleType
    <2>4. file' \in [Decision -> FileState] /\ stamp' \in [Decision -> Day \cup {NoDay}]
      BY <1>16 DEF GcUnlink, FileState
    <2>5. QED
      BY <1>16, <2>2, <2>3, <2>4, BecomeType DEF GcUnlink
  <1>17. ASSUME NEW a \in Actor, GcEnd(a)
         PROVE  Typed'
    BY <1>17, IdleType, IdleOrStartType DEF GcEnd
  <1>18. ASSUME NEW a \in Actor, Truncate(a)
         PROVE  Typed'
    <2>1. /\ [job[a] EXCEPT !.pc = "flush"] \in Job
          /\ [job[a] EXCEPT !.pc = "flush"].cur = job[a].cur
      BY DEF Job, Step
    <2>2. file' \in [Decision -> FileState] /\ stamp' \in [Decision -> Day \cup {NoDay}]
      BY <1>18 DEF Truncate, FileState
    <2>3. job' \in [Actor -> Job] /\ HandFull'
      BY <1>18, <2>1, HandKept DEF Truncate
    <2>4. QED
      BY <1>18, <2>2, <2>3 DEF Truncate
  <1>19. ASSUME NEW a \in Actor, Flush(a)
         PROVE  Typed'
    <2>1. Written(a) \in Job /\ Written(a).pc \in {"drain", "inspect", "idle"}
      <3> DEFINE j == job[a]
      <3>0. j \in Job /\ j.cur \in Decision
        BY <1>19 DEF Flush
      <3>1. CASE a \in Session \cup Supervisor
        <4> DEFINE l == IF j.out = "applied" /\ KindOf[j.cur] \in Delivered
                        THEN j.lines \cup {j.cur} ELSE j.lines
        <4>1. l \subseteq Decision
          BY <3>0 DEF Job
        <4>2. Written(a) = [j EXCEPT !.pc = "drain", !.cur = NoDecision,
                                     !.todo = j.todo \ {j.cur}, !.lines = l]
          BY <3>0, <3>1, RolesDisjoint DEF Written
        <4>3. QED
          BY <3>0, <4>1, <4>2 DEF Job, Step
      <3>2. CASE a \in Collector
        <4>1. Written(a) = [j EXCEPT !.pc = "inspect", !.cur = NoDecision,
                                     !.todo = j.todo \ {j.cur}]
          BY <3>2, RolesDisjoint DEF Written
        <4>2. QED
          BY <3>0, <4>1 DEF Job, Step
      <3>3. CASE a \in Operator \cup Producer
        BY <3>3, RolesDisjoint, IdleType DEF Written
      <3>4. QED
        BY <3>1, <3>2, <3>3 DEF Actor
    <2>2. file' \in [Decision -> FileState]
      BY <1>19 DEF Flush, FileState, Job
    <2>3. stamp' \in [Decision -> Day \cup {NoDay}]
      BY <1>19 DEF Flush
    <2>4. QED
      BY <1>19, <2>1, <2>2, <2>3, BecomeType DEF Flush
  <1>20. ASSUME NEW a \in Actor, Crash(a)
         PROVE  Typed'
    BY <1>20, IdleType, IdleOrStartType DEF Crash
  <1>21. QED
    BY <1>1, <1>2, <1>3, <1>4, <1>5, <1>6, <1>7, <1>8, <1>9, <1>10, <1>11, <1>12,
       <1>13, <1>14, <1>15, <1>16, <1>17, <1>18, <1>19, <1>20
    DEF Next, Start, Progress

\* TypeOK holds in every reachable state, for all values of the constants.
THEOREM TypeCorrect == Spec => []TypeOK
  <1>1. Init => Typed
    BY QueueConstants, IdleType
    DEF Init, Typed, TypeOK, HandFull, FileState, Day, NoDay
  <1>2. Typed /\ [Next]_vars => Typed'
    BY TypedInductive
  <1>3. Typed => TypeOK
    BY DEF Typed
  <1>4. QED
    BY <1>1, <1>2, <1>3, PTL DEF Spec

-----------------------------------------------------------------------------
(* The inductive invariant *)

Writing(a) == job[a].pc \in {"write", "flush"}

\* Which process can be at which step.
Roles ==
    \A a \in Actor :
        /\ job[a].pc = "drain" => a \in Session \cup Supervisor
        /\ job[a].pc \in {"apply", "launch", "retire"} => a \in Operator
        /\ job[a].pc \in {"inspect", "unlink"} => a \in Collector

\* What reaches a drain, a session's context or a launch.
Routed ==
    \A a \in Actor :
        /\ a \in Session \cup Supervisor
               => \A d \in job[a].todo : KindOf[d] \notin ManualOnly
        /\ \A d \in job[a].lines : KindOf[d] \in Delivered
        /\ job[a].pc = "launch" => KindOf[job[a].cur] \in Delivered

\* Nobody is about to write that a setting, a pin or a push was made if it was not.
Claimed ==
    \A a \in Actor :
        Writing(a) /\ job[a].out = "applied" /\ KindOf[job[a].cur] \in Direct
            => done[job[a].cur] >= 1

Carries(b, d) ==
    job[b].cur = d \/ d \in job[b].lines \/ (b \notin Collector /\ d \in job[b].todo)

\* A decision nobody has enqueued is nowhere.
Fresh ==
    \A d \in Decision : created[d] = NoDay =>
        /\ file[d] = "absent"
        /\ done[d] = 0
        /\ \A b \in Actor : ~Carries(b, d) /\ d \notin job[b].todo

\* "pending" is written by enqueue alone, to a file that is not there yet, about a
\* decision nobody else carries.
Opening ==
    \A a \in Actor : Writing(a) /\ job[a].out = "pending" =>
        /\ a \in Producer
        /\ created[job[a].cur] # NoDay
        /\ file[job[a].cur] \in {"absent", "torn"}
        /\ done[job[a].cur] = 0
        /\ \A b \in Actor \ {a} : ~Carries(b, job[a].cur)

\* gc has seen that what it is about to unlink is settled, and it stays settled.
UnlinksSettled ==
    \A a \in Actor : job[a].pc = "unlink" => file[job[a].cur] # "pending"

Inv ==
    /\ Typed /\ Roles /\ Routed /\ Claimed /\ Fresh /\ Opening /\ UnlinksSettled
    /\ ManualNeedsOperator /\ AppliedTookEffect

-----------------------------------------------------------------------------
(* Steps that leave the files alone *)

\* What process a must see to it that its new record says.
Admissible(a, j) ==
    /\ j.pc = "drain" => a \in Session \cup Supervisor
    /\ j.pc \in {"apply", "launch", "retire"} => a \in Operator
    /\ j.pc \in {"inspect", "unlink"} => a \in Collector
    /\ a \in Session \cup Supervisor => \A d \in j.todo : KindOf[d] \notin ManualOnly
    /\ \A d \in j.lines : KindOf[d] \in Delivered
    /\ j.pc = "launch" => KindOf[j.cur] \in Delivered
    /\ j.pc \in {"write", "flush"} => j.out # "pending"
    /\ j.pc \in {"write", "flush"} /\ j.out = "applied" /\ KindOf[j.cur] \in Direct
           => done'[j.cur] >= 1
    /\ j.pc = "unlink" => file[j.cur] # "pending"
    /\ \A d \in Decision :
           j.cur = d \/ d \in j.lines \/ (a \notin Collector /\ d \in j.todo)
               => Carries(a, d) \/ file[d] \in Status
    /\ \A d \in j.todo : d \in job[a].todo \/ file[d] # "absent"

\* A process that takes effect on decisions it carries, and goes on with an
\* admissible record, keeps the invariant.
LEMMA QuietStep ==
    ASSUME Inv, Typed', NEW a \in Actor, NEW j \in Job, Become(a, j),
           UNCHANGED <<file, created>>,
           NEW D \in SUBSET Decision, TakesEffect(a, D),
           \A d \in D : Carries(a, d) /\ (KindOf[d] \in ManualOnly => a \in Operator),
           a \in Producer => D = {},
           Admissible(a, j)
    PROVE  Inv'
  <1> USE DEF Typed, TypeOK
  <1>1. job'[a] = j /\ \A b \in Actor \ {a} : job'[b] = job[b]
    BY BecomeType DEF Inv
  <1>2. \A d \in Decision :
            /\ done'[d] >= done[d]
            /\ d \notin D => done'[d] = done[d] /\ doers'[d] = doers[d]
            /\ d \in D => doers'[d] = doers[d] \cup {a}
    BY DEF TakesEffect, Inv
  <1>3. Roles' /\ Routed'
    BY <1>1 DEF Inv, Roles, Routed, Admissible
  <1>4. Claimed'
    <2> SUFFICES ASSUME NEW b \in Actor, Writing(b)', job'[b].out = "applied",
                        KindOf[job'[b].cur] \in Direct
                 PROVE  done'[job'[b].cur] >= 1
      BY DEF Claimed
    <2>1. CASE b = a
      BY <1>1, <2>1 DEF Admissible, Writing
    <2>2. CASE b # a
      <3>1. job'[b] = job[b] /\ job[b].cur \in Decision /\ done[job[b].cur] >= 1
        BY <1>1, <2>2 DEF Inv, Claimed, Writing, HandFull
      <3>2. QED
        BY <1>2, <3>1 DEF Inv
    <2>3. QED
      BY <2>1, <2>2
  <1>5. Fresh'
    <2> SUFFICES ASSUME NEW d \in Decision, created[d] = NoDay
                 PROVE  /\ file[d] = "absent" /\ done'[d] = 0
                        /\ \A b \in Actor : ~Carries(b, d)' /\ d \notin job'[b].todo
      BY DEF Fresh
    <2>1. /\ file[d] = "absent" /\ done[d] = 0
          /\ \A b \in Actor : ~Carries(b, d) /\ d \notin job[b].todo
      BY DEF Inv, Fresh
    <2>2. done'[d] = 0
      BY <1>2, <2>1
    <2>3. ~Carries(a, d)' /\ d \notin job'[a].todo
      BY <1>1, <2>1 DEF Admissible, Carries, Status, Terminal
    <2>4. QED
      BY <1>1, <2>1, <2>2, <2>3 DEF Carries
  <1>6. Opening'
    <2> SUFFICES ASSUME NEW b \in Actor, Writing(b)', job'[b].out = "pending"
                 PROVE  /\ b \in Producer
                        /\ created[job'[b].cur] # NoDay
                        /\ file[job'[b].cur] \in {"absent", "torn"}
                        /\ done'[job'[b].cur] = 0
                        /\ \A c \in Actor \ {b} : ~Carries(c, job[b].cur)'
      BY DEF Opening
    <2>1. b # a
      BY <1>1 DEF Admissible, Writing
    <2>2. job'[b] = job[b] /\ Writing(b)
      BY <1>1, <2>1 DEF Writing
    <2> DEFINE d == job[b].cur
    <2>3. /\ b \in Producer /\ created[d] # NoDay /\ file[d] \in {"absent", "torn"}
          /\ done[d] = 0 /\ d \in Decision
          /\ \A c \in Actor \ {b} : ~Carries(c, d)
      BY <2>2 DEF Inv, Opening, HandFull, Writing
    <2>4. done'[d] = 0
      BY <1>2, <2>1, <2>3
    <2>5. ~Carries(a, d)'
      BY <1>1, <2>1, <2>3 DEF Admissible, Carries, Status, Terminal
    <2>6. \A c \in Actor \ {b} : ~Carries(c, d)'
      BY <1>1, <2>3, <2>5 DEF Carries
    <2>7. QED
      BY <2>2, <2>3, <2>4, <2>6 DEF Carries
  <1>7. UnlinksSettled'
    BY <1>1 DEF Inv, UnlinksSettled, Admissible
  <1>8. ManualNeedsOperator'
    BY <1>2 DEF Inv, ManualNeedsOperator
  <1>9. AppliedTookEffect'
    BY <1>2 DEF Inv, AppliedTookEffect
  <1>10. QED
    BY <1>3, <1>4, <1>5, <1>6, <1>7, <1>8, <1>9 DEF Inv

\* Most quiet steps take no effect at all.
LEMMA IdleStep ==
    ASSUME Inv, Typed', NEW a \in Actor, NEW j \in Job, Become(a, j),
           UNCHANGED <<file, created, done, doers>>, Admissible(a, j)
    PROVE  Inv'
  <1>1. TakesEffect(a, {})
    BY DEF TakesEffect, Inv, Typed, TypeOK
  <1>2. QED
    BY <1>1, QuietStep

\* Giving up is always admissible.
LEMMA GiveUp ==
    ASSUME Inv, Typed', NEW a \in Actor, Become(a, IdleJob),
           UNCHANGED <<file, created, done, doers>>
    PROVE  Inv'
  <1>1. /\ IdleJob.pc = "idle" /\ IdleJob.cur \notin Decision
        /\ IdleJob.lines = {} /\ IdleJob.todo = {}
    BY QueueConstants DEF IdleJob
  <1>2. Admissible(a, IdleJob)
    BY <1>1 DEF Admissible
  <1>3. QED
    BY <1>2, IdleType, IdleStep

\* Settling a decision that is carried, or whose file the process has just read, with
\* a terminal status other than an unfounded "applied".
LEMMA SettleStep ==
    ASSUME Inv, Typed', NEW a \in Actor, NEW d \in Decision, NEW s \in Terminal,
           Settle(a, d, s), UNCHANGED <<file, created>>,
           NEW D \in SUBSET {d}, TakesEffect(a, D),
           D # {} => Carries(a, d) /\ a \notin Producer,
           KindOf[d] \in ManualOnly => D = {} \/ a \in Operator,
           Carries(a, d) \/ file[d] \in Status,
           s = "applied" /\ KindOf[d] \in Direct => D = {d}
    PROVE  Inv'
  <1> DEFINE j == [job[a] EXCEPT !.pc = "write", !.cur = d, !.out = s]
  <1>1. job[a] \in Job
    BY DEF Inv, Typed, TypeOK
  <1>2. /\ j \in Job /\ j.pc = "write" /\ j.cur = d /\ j.out = s
        /\ j.todo = job[a].todo /\ j.lines = job[a].lines
    BY <1>1 DEF Job, Step, Status
  <1>3. D = {d} => done'[d] >= 1
    BY DEF Inv, Typed, TypeOK, TakesEffect
  <1>4. Admissible(a, j)
    <2>1. \A e \in Decision :
             j.cur = e \/ e \in j.lines \/ (a \notin Collector /\ e \in j.todo)
               => Carries(a, e) \/ file[e] \in Status
      BY <1>2 DEF Carries
    <2>2. j.out # "pending"
      BY <1>2 DEF Terminal
    <2>3. QED
      BY <1>2, <1>3, <2>1, <2>2 DEF Admissible, Inv, Routed
  <1>5. D \in SUBSET Decision
    OBVIOUS
  <1>6. QED
    BY <1>2, <1>4, <1>5, QuietStep DEF Settle

\* Applying a decision the process carries.
LEMMA ApplyStep ==
    ASSUME Inv, Typed', NEW a \in Actor, NEW d \in Decision, Apply(a, d),
           UNCHANGED <<file, created>>, Carries(a, d), a \notin Producer,
           KindOf[d] \in ManualOnly => a \in Operator
    PROVE  Inv'
  <1> DEFINE D == {d} \cap {e \in Decision : KindOf[e] \in Direct}
  <1>1. CASE TakesEffect(a, D) /\ Settle(a, d, "applied")
    <2>1. D \in SUBSET {d} /\ (KindOf[d] \in Direct => D = {d})
      OBVIOUS
    <2> HIDE DEF D
    <2>2. QED
      BY <1>1, <2>1, SettleStep DEF Terminal
  <1>2. CASE Settle(a, d, "failed") /\ UNCHANGED <<done, doers>>
    <2>1. TakesEffect(a, {})
      BY <1>2 DEF TakesEffect, Inv, Typed, TypeOK
    <2>2. QED
      BY <1>2, <2>1, SettleStep DEF Terminal
  <1>3. CASE TakesEffect(a, {d}) /\ Settle(a, d, "failed")
    BY <1>3, SettleStep DEF Terminal
  <1>4. QED
    BY <1>1, <1>2, <1>3 DEF Apply

-----------------------------------------------------------------------------
(* Steps that change the files *)

\* Opening a decision for its first write.
LEMMA EnqueueStep ==
    ASSUME Inv, Typed', NEW a \in Actor, NEW d \in Decision, Enqueue(a, d)
    PROVE  Inv'
  <1>1. /\ job'[a].pc = "write" /\ job'[a].cur = d /\ job'[a].out = "pending"
        /\ job'[a].todo = job[a].todo /\ job'[a].lines = job[a].lines
        /\ \A b \in Actor \ {a} : job'[b] = job[b]
    <2>1. job[a] \in Job /\ job \in [Actor -> Job]
      BY DEF Inv, Typed, TypeOK
    <2>2. QED
      BY <2>1 DEF Enqueue, Settle, Become, Job
  <1>2. /\ created[d] = NoDay /\ created'[d] # NoDay
        /\ \A e \in Decision \ {d} : created'[e] = created[e]
        /\ a \in Producer /\ UNCHANGED <<file, done, doers>>
    BY DEF Enqueue, Inv, Typed, TypeOK, Day, NoDay
  <1>3. /\ file[d] = "absent" /\ done[d] = 0
        /\ \A b \in Actor : ~Carries(b, d) /\ d \notin job[b].todo
    BY <1>2 DEF Inv, Fresh
  <1>4. Roles' /\ Routed' /\ Claimed' /\ UnlinksSettled'
    BY <1>1, <1>2, RolesDisjoint
    DEF Inv, Roles, Routed, Claimed, UnlinksSettled, Writing
  <1>5. Fresh'
    BY <1>1, <1>2 DEF Inv, Fresh, Carries
  <1>6. Opening'
    <2> SUFFICES ASSUME NEW b \in Actor, (Writing(b) /\ job[b].out = "pending")'
                 PROVE  (/\ b \in Producer
                         /\ created[job[b].cur] # NoDay
                         /\ file[job[b].cur] \in {"absent", "torn"}
                         /\ done[job[b].cur] = 0
                         /\ \A c \in Actor \ {b} : ~Carries(c, job[b].cur))'
      BY DEF Opening
    <2>1. CASE b = a
      BY <1>1, <1>2, <1>3, <2>1 DEF Carries
    <2>2. CASE b # a
      <3> DEFINE e == job[b].cur
      <3>1. job'[b] = job[b] /\ Writing(b) /\ job[b].out = "pending"
        BY <1>1, <2>2 DEF Writing
      <3>2. /\ b \in Producer /\ created[e] # NoDay /\ file[e] \in {"absent", "torn"}
            /\ done[e] = 0 /\ e \in Decision
            /\ \A c \in Actor \ {b} : ~Carries(c, e)
        BY <3>1 DEF Inv, Opening, Typed, HandFull, Writing
      <3>3. e # d
        BY <1>2, <3>2
      <3>4. \A c \in Actor \ {b} : ~Carries(c, e)'
        BY <1>1, <3>1, <3>2, <3>3 DEF Carries
      <3>5. QED
        BY <1>2, <3>1, <3>2, <3>3, <3>4 DEF Carries
    <2>3. QED
      BY <2>1, <2>2
  <1>7. ManualNeedsOperator' /\ AppliedTookEffect'
    BY <1>2 DEF Inv, ManualNeedsOperator, AppliedTookEffect
  <1>8. QED
    BY <1>4, <1>5, <1>6, <1>7 DEF Inv

\* A process changes the file of the decision in hand.  "pending" is written by an
\* opening only, "applied" only of what was done, and it carries nothing new.
LEMMA WriteStep ==
    ASSUME Inv, Typed', NEW a \in Actor, NEW j \in Job, Become(a, j),
           NEW d \in Decision, job[a].cur = d, NEW v \in FileState,
           file' = [file EXCEPT ![d] = v], UNCHANGED <<created, done, doers>>,
           v = "pending" => Writing(a) /\ job[a].out = "pending",
           v = "applied" /\ KindOf[d] \in Direct => done[d] >= 1,
           j.pc = "drain" => a \in Session \cup Supervisor,
           j.pc = "inspect" => a \in Collector,
           j.pc \in {"idle", "drain", "inspect"} \/
               (/\ j.pc = "flush" /\ Writing(a) /\ v = "torn"
                /\ j.cur = d /\ j.out = job[a].out),
           j.todo \subseteq job[a].todo,
           \A e \in j.lines : KindOf[e] \in Delivered,
           \A e \in Decision : j.cur = e \/ e \in j.lines => Carries(a, e)
    PROVE  Inv'
  <1>1. job'[a] = j /\ \A b \in Actor \ {a} : job'[b] = job[b]
    BY BecomeType DEF Inv, Typed, TypeOK
  <1>2. file'[d] = v /\ \A e \in Decision \ {d} : file'[e] = file[e]
    BY DEF Inv, Typed, TypeOK
  <1>3. Carries(a, d)
    BY DEF Carries
  <1>4. \A b \in Actor, e \in Decision : Carries(b, e)' => Carries(b, e)
    BY <1>1 DEF Carries
  <1>5. Roles' /\ Routed' /\ Claimed'
    BY <1>1 DEF Inv, Roles, Routed, Claimed, Writing
  <1>6. Fresh'
    <2> SUFFICES ASSUME NEW e \in Decision, created[e] = NoDay
                 PROVE  /\ file'[e] = "absent" /\ done[e] = 0
                        /\ \A b \in Actor : ~Carries(b, e)' /\ e \notin job'[b].todo
      BY DEF Fresh
    <2>1. /\ file[e] = "absent" /\ done[e] = 0
          /\ \A b \in Actor : ~Carries(b, e) /\ e \notin job[b].todo
      BY DEF Inv, Fresh
    <2>2. e # d
      BY <1>3, <2>1
    <2>3. \A b \in Actor : e \notin job'[b].todo
      BY <1>1, <2>1
    <2>4. QED
      BY <1>2, <1>4, <2>1, <2>2, <2>3
  <1>7. Opening'
    <2> SUFFICES ASSUME NEW b \in Actor, (Writing(b) /\ job[b].out = "pending")'
                 PROVE  (/\ b \in Producer
                         /\ created[job[b].cur] # NoDay
                         /\ file[job[b].cur] \in {"absent", "torn"}
                         /\ done[job[b].cur] = 0
                         /\ \A c \in Actor \ {b} : ~Carries(c, job[b].cur))'
      BY DEF Opening
    <2> DEFINE e == job[b].cur
    <2>1. /\ Writing(b) /\ job[b].out = "pending" /\ job'[b].cur = e
          /\ b = a => v = "torn" /\ e = d
      BY <1>1 DEF Writing
    <2>2. /\ b \in Producer /\ created[e] # NoDay /\ file[e] \in {"absent", "torn"}
          /\ done[e] = 0 /\ e \in Decision
          /\ \A c \in Actor \ {b} : ~Carries(c, e)
      BY <2>1 DEF Inv, Opening, Typed, HandFull, Writing
    <2>3. b # a => e # d
      BY <1>3, <2>2
    <2>4. file'[e] \in {"absent", "torn"}
      BY <1>2, <2>1, <2>2, <2>3
    <2>5. \A c \in Actor \ {b} : ~Carries(c, e)'
      BY <1>4, <2>2, <2>1 DEF Carries
    <2>6. QED
      BY <2>1, <2>2, <2>4, <2>5 DEF Carries
  <1>8. UnlinksSettled'
    <2> SUFFICES ASSUME NEW b \in Actor, job'[b].pc = "unlink"
                 PROVE  file'[job'[b].cur] # "pending"
      BY DEF UnlinksSettled
    <2>1. b # a /\ job'[b] = job[b]
      BY <1>1
    <2>2. job[b].cur \in Decision /\ file[job[b].cur] # "pending"
      BY <2>1 DEF Inv, Typed, HandFull, UnlinksSettled
    <2>3. CASE job[b].cur = d /\ v = "pending"
      <3>1. ~Carries(b, d)
        BY <2>1, <2>3 DEF Inv, Opening
      <3>2. QED
        BY <2>3, <3>1 DEF Carries
    <2>4. QED
      BY <1>2, <2>1, <2>2, <2>3
  <1>9. ManualNeedsOperator' /\ AppliedTookEffect'
    BY <1>2 DEF Inv, ManualNeedsOperator, AppliedTookEffect
  <1>10. QED
    BY <1>5, <1>6, <1>7, <1>8, <1>9 DEF Inv

\* What a process is left with after its write: it has let go of the decision, and a
\* session drain remembers to print a message it marked applied.
LEMMA WrittenShape ==
    ASSUME Inv, NEW a \in Actor, job[a].pc = "flush"
    PROVE  /\ Written(a) \in Job
           /\ Written(a).pc \in {"idle", "drain", "inspect"}
           /\ Written(a).pc = "drain" => a \in Session \cup Supervisor
           /\ Written(a).pc = "inspect" => a \in Collector
           /\ Written(a).cur = NoDecision
           /\ Written(a).todo \subseteq job[a].todo
           /\ \A e \in Written(a).lines :
                  KindOf[e] \in Delivered /\ (e = job[a].cur \/ e \in job[a].lines)
  <1> DEFINE r == job[a]
  <1>1. r \in Job /\ r.cur \in Decision
    BY DEF Inv, Typed, TypeOK, HandFull
  <1>2. CASE a \in Session \cup Supervisor
    <2> DEFINE l == IF r.out = "applied" /\ KindOf[r.cur] \in Delivered
                    THEN r.lines \cup {r.cur} ELSE r.lines
    <2>1. /\ l \subseteq Decision
          /\ \A e \in l : KindOf[e] \in Delivered /\ (e = r.cur \/ e \in r.lines)
      BY <1>1 DEF Job, Inv, Routed
    <2>2. Written(a) = [r EXCEPT !.pc = "drain", !.cur = NoDecision,
                                 !.todo = r.todo \ {r.cur}, !.lines = l]
      BY <1>1, <1>2, RolesDisjoint DEF Written
    <2> HIDE DEF l
    <2>3. /\ Written(a) \in Job /\ Written(a).pc = "drain"
          /\ Written(a).cur = NoDecision /\ Written(a).lines = l
          /\ Written(a).todo = r.todo \ {r.cur}
      <3> HIDE DEF r
      <3>1. QED
        BY <1>1, <2>1, <2>2 DEF Job, Step
    <2>4. QED
      BY <1>2, <2>1, <2>3
  <1>3. CASE a \in Collector
    <2>1. Written(a) = [r EXCEPT !.pc = "inspect", !.cur = NoDecision,
                                 !.todo = r.todo \ {r.cur}]
      BY <1>3, RolesDisjoint DEF Written
    <2>2. QED
      BY <1>1, <1>3, <2>1 DEF Job, Step, Inv, Routed
  <1>4. CASE a \in Operator \cup Producer
    <2>1. Written(a) = IdleJob
      BY <1>4, RolesDisjoint DEF Written
    <2>2. IdleJob.cur = NoDecision /\ IdleJob.todo = {} /\ IdleJob.lines = {}
      BY DEF IdleJob
    <2>3. QED
      BY <2>1, <2>2, IdleType
  <1>5. QED
    BY <1>2, <1>3, <1>4 DEF Actor

-----------------------------------------------------------------------------
(* The invariant, and what follows from it *)

\* Every step of the queue keeps its invariant.
THEOREM Inductive ==
    ASSUME Inv, [Next]_vars
    PROVE  Inv'
  <1>0. Typed'
    BY TypedInductive DEF Inv
  <1> USE DEF Typed, TypeOK
  <1>1. CASE UNCHANGED vars
    BY <1>0, <1>1
    DEF vars, Inv, Roles, Routed, Claimed, Fresh, Opening, Carries, Writing,
        UnlinksSettled, ManualNeedsOperator, AppliedTookEffect
  <1>2. CASE NextDay
    BY <1>0, <1>2
    DEF NextDay, Inv, Roles, Routed, Claimed, Fresh, Opening, Carries, Writing,
        UnlinksSettled, ManualNeedsOperator, AppliedTookEffect
  <1>3. ASSUME NEW a \in Actor, StartSession(a)
        PROVE  Inv'
    <2> DEFINE j == [IdleJob EXCEPT !.pc = "drain",
                       !.todo = {d \in PendingIn({SessionProject[a]}) : KindOf[d] \in AppSide}]
    <2>1. /\ j \in Job /\ j.pc = "drain" /\ j.cur \notin Decision /\ j.lines = {}
          /\ \A d \in j.todo : d \in Decision /\ file[d] = "pending" /\ KindOf[d] \notin ManualOnly
      BY IdleType, QueueConstants
      DEF Job, Step, PendingIn, IdleJob, AppSide, ManualOnly
    <2>2. Admissible(a, j)
      BY <1>3, <2>1 DEF Admissible, StartSession, Status
    <2>3. QED
      BY <1>0, <1>3, <2>1, <2>2, IdleStep DEF StartSession
  <1>4. ASSUME NEW a \in Actor, StartSupervisor(a)
        PROVE  Inv'
    <2> DEFINE j == [IdleJob EXCEPT !.pc = "drain",
                       !.todo = {d \in PendingIn(Project) :
                                   KindOf[d] \in SupervisorSide \ ManualOnly}]
    <2>1. /\ j \in Job /\ j.pc = "drain" /\ j.cur \notin Decision /\ j.lines = {}
          /\ \A d \in j.todo : d \in Decision /\ file[d] = "pending" /\ KindOf[d] \notin ManualOnly
      BY IdleType, QueueConstants DEF Job, Step, PendingIn, IdleJob
    <2>2. Admissible(a, j)
      BY <1>4, <2>1 DEF Admissible, StartSupervisor, Status
    <2>3. QED
      BY <1>0, <1>4, <2>1, <2>2, IdleStep DEF StartSupervisor
  <1>5. ASSUME NEW a \in Actor, StartGc(a)
        PROVE  Inv'
    <2> DEFINE j == [IdleJob EXCEPT !.pc = "inspect", !.asOf = today,
                       !.todo = {d \in Decision : file[d] # "absent"}]
    <2>1. /\ j \in Job /\ j.pc = "inspect" /\ j.cur \notin Decision /\ j.lines = {}
          /\ \A d \in j.todo : file[d] # "absent"
      BY IdleType, QueueConstants DEF Inv, Job, Step, IdleJob
    <2>2. Admissible(a, j)
      BY <1>5, <2>1, RolesDisjoint DEF Admissible, StartGc
    <2>3. QED
      BY <1>0, <1>5, <2>1, <2>2, IdleStep DEF StartGc
  <1>6. ASSUME NEW a \in Actor, NEW d \in Decision, Enqueue(a, d)
        PROVE  Inv'
    BY <1>0, <1>6, EnqueueStep
  <1>7. ASSUME NEW a \in Actor, NEW d \in Decision, OperatorApply(a, d)
        PROVE  Inv'
    <2> DEFINE j == [IdleJob EXCEPT !.pc = "apply", !.cur = d]
    <2>1. /\ j \in Job /\ j.pc = "apply" /\ j.cur = d /\ j.lines = {} /\ j.todo = {}
      BY IdleType DEF Job, Step, IdleJob
    <2>2. Admissible(a, j)
      BY <1>7, <2>1 DEF Admissible, OperatorApply, OperatorFinds, Status
    <2>3. QED
      BY <1>0, <1>7, <2>1, <2>2, IdleStep DEF OperatorApply, OperatorFinds
  <1>8. ASSUME NEW a \in Actor, NEW d \in Decision, OperatorDismiss(a, d)
        PROVE  Inv'
    <2>1. TakesEffect(a, {})
      BY <1>8 DEF OperatorDismiss, OperatorFinds, TakesEffect, Inv
    <2>2. QED
      BY <1>0, <1>8, <2>1, SettleStep
      DEF OperatorDismiss, OperatorFinds, Status, Terminal
  <1>9. ASSUME NEW a \in Actor, NEW d \in Decision, OperatorDispatch(a, d)
        PROVE  Inv'
    <2> DEFINE j == [IdleJob EXCEPT !.pc = "launch", !.cur = d]
    <2>1. /\ j \in Job /\ j.pc = "launch" /\ j.cur = d /\ j.lines = {} /\ j.todo = {}
      BY IdleType DEF Job, Step, IdleJob
    <2>2. Admissible(a, j)
      BY <1>9, <2>1 DEF Admissible, OperatorDispatch, OperatorFinds, Status, Delivered
    <2>3. QED
      BY <1>0, <1>9, <2>1, <2>2, IdleStep DEF OperatorDispatch, OperatorFinds
  <1>10. ASSUME NEW a \in Actor, DrainNext(a)
         PROVE  Inv'
    <2>1. a \in Session \cup Supervisor /\ job[a].todo \subseteq Decision
      BY <1>10 DEF DrainNext, Inv, Roles, Job
    <2>2. PICK d \in job[a].todo : Apply(a, d)
      BY <1>10 DEF DrainNext
    <2>3. Carries(a, d) /\ a \notin Producer /\ KindOf[d] \notin ManualOnly
      BY <2>1, <2>2, RolesDisjoint DEF Carries, Inv, Routed
    <2>4. QED
      BY <1>0, <1>10, <2>1, <2>2, <2>3, ApplyStep DEF DrainNext
  <1>11. ASSUME NEW a \in Actor, DrainEnd(a)
         PROVE  Inv'
    <2>1. a \in Session \cup Supervisor /\ job[a].lines \in SUBSET Decision
      BY <1>11 DEF DrainEnd, Inv, Roles, Job
    <2>2. \A d \in job[a].lines : Carries(a, d) /\ KindOf[d] \notin ManualOnly
      BY DEF Carries, Inv, Routed, Delivered, ManualOnly
    <2>3. /\ IdleJob.pc = "idle" /\ IdleJob.cur \notin Decision
          /\ IdleJob.lines = {} /\ IdleJob.todo = {}
      BY QueueConstants DEF IdleJob
    <2>4. Admissible(a, IdleJob)
      BY <2>3 DEF Admissible
    <2>5. QED
      BY <1>0, <1>11, <2>1, <2>2, <2>4, IdleType, RolesDisjoint, QuietStep DEF DrainEnd
  <1>12. ASSUME NEW a \in Actor, ApplyFound(a)
         PROVE  Inv'
    <2>1. a \in Operator /\ job[a].cur \in Decision /\ Carries(a, job[a].cur)
      BY <1>12 DEF ApplyFound, Inv, Roles, HandFull, Carries
    <2>2. QED
      BY <1>0, <1>12, <2>1, RolesDisjoint, ApplyStep DEF ApplyFound
  <1>13. ASSUME NEW a \in Actor, Launch(a)
         PROVE  Inv'
    <2>1. /\ a \in Operator /\ job[a].cur \in Decision /\ Carries(a, job[a].cur)
          /\ KindOf[job[a].cur] \in Delivered /\ job[a] \in Job
      BY <1>13 DEF Launch, Inv, Roles, Routed, HandFull, Carries
    <2>2. CASE TakesEffect(a, {job[a].cur}) /\ Become(a, [job[a] EXCEPT !.pc = "retire"])
      <3> DEFINE j == [job[a] EXCEPT !.pc = "retire"]
      <3>1. /\ j \in Job /\ j.pc = "retire" /\ j.cur = job[a].cur
            /\ j.lines = job[a].lines /\ j.todo = job[a].todo
        BY <2>1 DEF Job, Step
      <3>2. Admissible(a, j)
        BY <2>1, <3>1, RolesDisjoint DEF Admissible, Carries, Inv, Routed
      <3>3. {job[a].cur} \in SUBSET Decision
        BY <2>1
      <3>4. QED
        BY <1>0, <1>13, <2>1, <2>2, <3>1, <3>2, <3>3, RolesDisjoint, QuietStep
        DEF Launch, Delivered, ManualOnly
    <2>3. CASE Become(a, IdleJob) /\ UNCHANGED <<done, doers>>
      BY <1>0, <1>13, <2>3, GiveUp DEF Launch
    <2>4. QED
      BY <1>13, <2>2, <2>3 DEF Launch
  <1>14. ASSUME NEW a \in Actor, Retire(a)
         PROVE  Inv'
    <2>1. job[a].cur \in Decision /\ Carries(a, job[a].cur)
      BY <1>14 DEF Retire, Inv, HandFull, Carries
    <2>2. TakesEffect(a, {})
      BY <1>14 DEF Retire, TakesEffect, Inv
    <2>3. CASE Settle(a, job[a].cur, "superseded")
      BY <1>0, <1>14, <2>1, <2>2, <2>3, SettleStep DEF Retire, Terminal
    <2>4. CASE Become(a, IdleJob)
      BY <1>0, <1>14, <2>4, GiveUp DEF Retire
    <2>5. QED
      BY <1>14, <2>3, <2>4 DEF Retire
  <1>15. ASSUME NEW a \in Actor, NEW d \in Decision, GcInspect(a, d)
         PROVE  Inv'
    <2>1. a \in Collector /\ job[a] \in Job
      BY <1>15 DEF GcInspect, Inv, Roles
    <2>2. CASE Become(a, IdleJob)
      BY <1>0, <1>15, <2>2, GiveUp DEF GcInspect
    <2>3. CASE Overdue(a, d) /\ Settle(a, d, "expired")
      <3>1. TakesEffect(a, {})
        BY <1>15 DEF GcInspect, TakesEffect, Inv
      <3>2. QED
        BY <1>0, <1>15, <2>3, <3>1, SettleStep
        DEF GcInspect, Overdue, Status, Terminal
    <2>4. CASE Aged(a, d) /\ Become(a, [job[a] EXCEPT !.pc = "unlink", !.cur = d])
      <3> DEFINE j == [job[a] EXCEPT !.pc = "unlink", !.cur = d]
      <3>1. /\ j \in Job /\ j.pc = "unlink" /\ j.cur = d
            /\ j.lines = job[a].lines /\ j.todo = job[a].todo
        BY <2>1 DEF Job, Step
      <3>2. file[d] \in Status /\ file[d] # "pending"
        BY <2>4 DEF Aged, Status, Terminal
      <3>3. Admissible(a, j)
        BY <2>1, <3>1, <3>2, RolesDisjoint DEF Admissible, Carries, Inv, Routed
      <3>4. QED
        BY <1>0, <1>15, <2>4, <3>1, <3>3, IdleStep DEF GcInspect
    <2>5. CASE Become(a, [job[a] EXCEPT !.todo = @ \ {d}])
      <3> DEFINE j == [job[a] EXCEPT !.todo = @ \ {d}]
      <3>1. /\ j \in Job /\ j.pc = "inspect" /\ j.cur = job[a].cur
            /\ j.lines = job[a].lines /\ j.todo \subseteq job[a].todo
        BY <1>15, <2>1 DEF GcInspect, Job, Step
      <3>2. Admissible(a, j)
        BY <2>1, <3>1, RolesDisjoint DEF Admissible, Carries, Inv, Routed
      <3>3. QED
        BY <1>0, <1>15, <2>5, <3>1, <3>2, IdleStep DEF GcInspect
    <2>6. QED
      BY <1>15, <2>2, <2>3, <2>4, <2>5 DEF GcInspect
  <1>16. ASSUME NEW a \in Actor, GcUnlink(a)
         PROVE  Inv'
    <2> DEFINE d == job[a].cur
               next == [job[a] EXCEPT !.pc = "inspect", !.cur = NoDecision,
                                      !.todo = @ \ {d}]
    <2>1. a \in Collector /\ d \in Decision /\ job[a] \in Job
      BY <1>16 DEF GcUnlink, Inv, Roles, HandFull
    <2>2. /\ next \in Job /\ next.pc = "inspect" /\ next.cur \notin Decision
          /\ next.lines = job[a].lines /\ next.todo \subseteq job[a].todo
      BY <2>1, QueueConstants DEF Job, Step
    <2>3. /\ IdleJob \in Job /\ IdleJob.pc = "idle" /\ IdleJob.cur \notin Decision
          /\ IdleJob.lines = {} /\ IdleJob.todo = {}
      BY QueueConstants, IdleType DEF IdleJob
    <2>4. PICK j \in {IdleJob, next} : Become(a, j)
      BY <1>16 DEF GcUnlink
    <2>5. /\ j \in Job /\ j.pc \in {"idle", "inspect"} /\ j.cur \notin Decision
          /\ j.lines \subseteq job[a].lines /\ j.todo \subseteq job[a].todo
      BY <2>2, <2>3, <2>4
    <2>6. file' = [file EXCEPT ![d] = "absent"] /\ "absent" \in FileState
      BY <1>16 DEF GcUnlink, FileState
    <2>7. \A e \in j.lines : KindOf[e] \in Delivered /\ Carries(a, e)
      BY <2>5 DEF Inv, Routed, Carries
    <2>8. UNCHANGED <<created, done, doers>>
      BY <1>16 DEF GcUnlink
    <2> HIDE DEF next
    <2>9. QED
      BY <1>0, <2>1, <2>4, <2>5, <2>6, <2>7, <2>8, WriteStep
  <1>17. ASSUME NEW a \in Actor, GcEnd(a)
         PROVE  Inv'
    BY <1>0, <1>17, GiveUp DEF GcEnd
  <1>18. ASSUME NEW a \in Actor, Truncate(a)
         PROVE  Inv'
    <2> DEFINE d == job[a].cur
               j == [job[a] EXCEPT !.pc = "flush"]
    <2>1. d \in Decision /\ job[a] \in Job /\ Writing(a)
      BY <1>18 DEF Truncate, Inv, HandFull, Writing
    <2>2. /\ j \in Job /\ j.pc = "flush" /\ j.cur = d /\ j.out = job[a].out
          /\ j.lines = job[a].lines /\ j.todo = job[a].todo
      BY <2>1 DEF Job, Step
    <2>3. file' = [file EXCEPT ![d] = "torn"] /\ "torn" \in FileState
      BY <1>18 DEF Truncate, FileState
    <2>4. /\ \A e \in j.lines : KindOf[e] \in Delivered
          /\ \A e \in Decision : j.cur = e \/ e \in j.lines => Carries(a, e)
      BY <2>2 DEF Inv, Routed, Carries
    <2>5. Become(a, j) /\ UNCHANGED <<created, done, doers>>
      BY <1>18 DEF Truncate
    <2> HIDE DEF j
    <2>6. QED
      BY <1>0, <2>1, <2>2, <2>3, <2>4, <2>5, WriteStep
  <1>19. ASSUME NEW a \in Actor, Flush(a)
         PROVE  Inv'
    <2> DEFINE d == job[a].cur
               j == Written(a)
    <2>1. d \in Decision /\ job[a] \in Job /\ Writing(a) /\ job[a].out \in FileState
      BY <1>19 DEF Flush, Inv, HandFull, Writing, Job, FileState
    <2>2. /\ j \in Job /\ j.pc \in {"idle", "drain", "inspect"}
          /\ j.pc = "drain" => a \in Session \cup Supervisor
          /\ j.pc = "inspect" => a \in Collector
          /\ j.cur = NoDecision /\ j.todo \subseteq job[a].todo
          /\ \A e \in j.lines :
                 KindOf[e] \in Delivered /\ (e = job[a].cur \/ e \in job[a].lines)
      BY <1>19, WrittenShape DEF Flush
    <2> HIDE DEF j
    <2>3. \A e \in Decision : j.cur = e \/ e \in j.lines => Carries(a, e)
      BY <2>2, QueueConstants DEF Carries
    <2>4. job[a].out = "applied" /\ KindOf[d] \in Direct => done[d] >= 1
      BY <2>1 DEF Inv, Claimed
    <2>5. file' = [file EXCEPT ![d] = job[a].out]
      BY <1>19 DEF Flush
    <2>6. Become(a, j) /\ UNCHANGED <<created, done, doers>>
      BY <1>19 DEF Flush, j
    <2>7. QED
      BY <1>0, <2>1, <2>2, <2>3, <2>4, <2>5, <2>6, WriteStep
  <1>20. ASSUME NEW a \in Actor, Crash(a)
         PROVE  Inv'
    BY <1>0, <1>20, GiveUp DEF Crash
  <1>21. QED
    BY <1>1, <1>2, <1>3, <1>4, <1>5, <1>6, <1>7, <1>8, <1>9, <1>10, <1>11, <1>12,
       <1>13, <1>14, <1>15, <1>16, <1>17, <1>18, <1>19, <1>20
    DEF Next, Start, Progress

\* The inductive invariant holds in every reachable state.
THEOREM Invariant == Spec => []Inv
  <1>1. Init => Inv
    <2> SUFFICES ASSUME Init PROVE Inv
      OBVIOUS
    <2>1. Typed
      BY QueueConstants, IdleType
      DEF Init, Typed, TypeOK, HandFull, FileState, Day, NoDay
    <2>2. \A a \in Actor : /\ job[a].pc = "idle" /\ job[a].cur \notin Decision
                           /\ job[a].lines = {} /\ job[a].todo = {}
      BY QueueConstants DEF Init, IdleJob
    <2>3. \A d \in Decision : file[d] = "absent" /\ done[d] = 0 /\ doers[d] = {}
      BY DEF Init
    <2>4. QED
      BY <2>1, <2>2, <2>3
      DEF Inv, Roles, Routed, Claimed, Fresh, Opening, Carries, Writing,
          UnlinksSettled, ManualNeedsOperator, AppliedTookEffect
  <1>2. Inv /\ [Next]_vars => Inv'
    BY Inductive
  <1>3. QED
    BY <1>1, <1>2, PTL DEF Spec

\* The approval gate, for any number of drains, operators and crashes: a kind that is
\* MANUAL_ONLY takes effect only in an operator's request.
THEOREM ApprovalGate == Spec => []ManualNeedsOperator
  <1>1. Inv => ManualNeedsOperator
    BY DEF Inv
  <1>2. QED
    BY <1>1, Invariant, PTL

\* A file that says applied is about something that was done, whatever was
\* interrupted or overtaken.
THEOREM AppliedIsTrue == Spec => []AppliedTookEffect
  <1>1. Inv => AppliedTookEffect
    BY DEF Inv
  <1>2. QED
    BY <1>1, Invariant, PTL

\* The files change in three places only: gc's unlink and the two halves of _write.
LEMMA FileSteps ==
    ASSUME [Next]_vars
    PROVE  UNCHANGED file \/ \E a \in Actor : GcUnlink(a) \/ Truncate(a) \/ Flush(a)
  BY DEF Next, vars, Start, Progress, NextDay, Crash, StartSession, StartSupervisor,
         StartGc, Enqueue, OperatorApply, OperatorDismiss, OperatorDispatch,
         OperatorFinds, DrainNext, DrainEnd, ApplyFound, Launch, Retire, GcInspect, GcEnd

\* gc never deletes a decision that is pending, although it unlinks a file it read
\* some steps before.
THEOREM PendingKept == Spec => PendingNeverDeleted
  <1>1. Inv /\ [Next]_vars
          => [\A d \in Decision : file[d] = "pending" => file'[d] # "absent"]_vars
    <2> SUFFICES ASSUME Inv, [Next]_vars, NEW d \in Decision, file[d] = "pending"
                 PROVE  file'[d] # "absent"
      OBVIOUS
    <2>1. CASE UNCHANGED file
      BY <2>1
    <2>2. ASSUME NEW a \in Actor, GcUnlink(a)
          PROVE  file'[d] # "absent"
      <3>1. job[a].cur # d
        BY <2>2 DEF GcUnlink, Inv, UnlinksSettled
      <3>2. QED
        BY <2>2, <3>1 DEF GcUnlink, Inv, Typed, TypeOK
    <2>3. ASSUME NEW a \in Actor, Truncate(a)
          PROVE  file'[d] # "absent"
      BY <2>3 DEF Truncate, Inv, Typed, TypeOK
    <2>4. ASSUME NEW a \in Actor, Flush(a)
          PROVE  file'[d] # "absent"
      <3>1. job[a].out # "absent"
        BY DEF Inv, Typed, TypeOK, Job, Status, Terminal
      <3>2. QED
        BY <2>4, <3>1 DEF Flush, Inv, Typed, TypeOK
    <2>5. QED
      BY <2>1, <2>2, <2>3, <2>4, FileSteps
  <1>2. QED
    BY <1>1, Invariant, PTL DEF Spec, PendingNeverDeleted

\* A decision is offered at most once: nobody ever writes a stale pending copy back
\* over a decision that a drain or an operator holds, or that took effect.
THEOREM OfferedOnce == Spec => NeverReoffered
  <1> DEFINE Once == \A d \in Decision :
                 file[d] # "pending" /\ file'[d] = "pending"
                   => /\ done[d] = 0
                      /\ \A a \in Session \cup Supervisor \cup Operator :
                            d # job[a].cur /\ d \notin job[a].todo \cup job[a].lines
  <1>1. Inv /\ [Next]_vars => [Once]_vars
    <2> SUFFICES ASSUME Inv, [Next]_vars, NEW d \in Decision,
                        file[d] # "pending", file'[d] = "pending"
                 PROVE  /\ done[d] = 0
                        /\ \A a \in Session \cup Supervisor \cup Operator :
                              d # job[a].cur /\ d \notin job[a].todo \cup job[a].lines
      OBVIOUS
    <2>1. PICK a \in Actor : GcUnlink(a) \/ Truncate(a) \/ Flush(a)
      BY FileSteps
    <2>2. Flush(a) /\ job[a].cur = d /\ job[a].out = "pending"
      BY <2>1 DEF GcUnlink, Truncate, Flush, Inv, Typed, TypeOK
    <2>3. /\ a \in Producer /\ done[d] = 0
          /\ \A b \in Actor \ {a} : ~Carries(b, d)
      BY <2>2 DEF Flush, Inv, Opening, Writing
    <2>4. QED
      BY <2>3, RolesDisjoint DEF Carries, Actor
  <1>2. QED
    BY <1>1, Invariant, PTL DEF Spec, NeverReoffered

-----------------------------------------------------------------------------
(* Messages: DeliveredOrHeld, for sessions that do not die.  A session killed between *)
(* the write of "applied" and the print loses its messages, so the hypothesis cannot  *)
(* go; every other process may die anywhere.                                          *)

\* Only a session drain collects lines, and it keeps them until its loop is over.
LinesInSession ==
    \A a \in Actor : job[a].lines # {} =>
        a \in Session /\ job[a].pc \in {"drain", "write", "flush"}

\* Messages are applied by sessions alone: the supervisor drain and the dashboard's
\* Apply take other kinds.
MessagesBySessions ==
    \A a \in Actor :
        /\ a \in Supervisor => \A d \in job[a].todo : KindOf[d] \notin Delivered
        /\ job[a].pc = "apply" => KindOf[job[a].cur] \notin Delivered
        /\ Writing(a) /\ job[a].out = "applied" /\ KindOf[job[a].cur] \in Delivered
               => a \in Session

HeldInv == Inv /\ LinesInSession /\ MessagesBySessions /\ DeliveredOrHeld

\* A step of one process that lets no unprinted line go, and writes "applied" over a
\* message only as it takes the line up, keeps the messages.
LEMMA HeldStep ==
    ASSUME HeldInv, Inv', NEW a \in Actor, NEW j \in Job, Become(a, j),
           \A e \in Decision : done'[e] >= done[e],
           \A e \in job[a].lines : e \in j.lines \/ done'[e] >= 1,
           \A e \in Decision : file'[e] = "applied" /\ KindOf[e] \in Delivered
               => file[e] = "applied" \/ (a \in Session /\ e \in j.lines),
           j.lines # {} => a \in Session /\ j.pc \in {"drain", "write", "flush"},
           a \in Supervisor => \A d \in j.todo : KindOf[d] \notin Delivered,
           j.pc = "apply" => KindOf[j.cur] \notin Delivered,
           j.pc \in {"write", "flush"} /\ j.out = "applied" /\ KindOf[j.cur] \in Delivered
               => a \in Session
    PROVE  HeldInv'
  <1>1. job'[a] = j /\ \A b \in Actor \ {a} : job'[b] = job[b]
    BY BecomeType DEF HeldInv, Inv, Typed, TypeOK
  <1>2. LinesInSession' /\ MessagesBySessions'
    BY <1>1 DEF HeldInv, LinesInSession, MessagesBySessions, Writing
  <1>3. DeliveredOrHeld'
    <2> SUFFICES ASSUME NEW d \in Decision, file'[d] = "applied", KindOf[d] \in Delivered
                 PROVE  done'[d] >= 1 \/ \E b \in Session : d \in job'[b].lines
      BY DEF DeliveredOrHeld
    <2>1. done[d] \in 0 .. 2 /\ done'[d] \in 0 .. 2 /\ done'[d] >= done[d]
      BY DEF HeldInv, Inv, Typed, TypeOK
    <2>2. CASE a \in Session /\ d \in j.lines
      BY <1>1, <2>2
    <2>3. CASE file[d] = "applied" /\ done[d] >= 1
      BY <2>1, <2>3
    <2>4. ASSUME NEW b \in Session, d \in job[b].lines
          PROVE  done'[d] >= 1 \/ d \in job'[b].lines
      BY <1>1, <2>4 DEF Actor
    <2>5. QED
      BY <2>2, <2>3, <2>4 DEF HeldInv, DeliveredOrHeld
  <1>4. QED
    BY <1>2, <1>3 DEF HeldInv

\* A process with no line in hand that changes no file and takes no effect.
LEMMA HeldQuiet ==
    ASSUME HeldInv, Inv', NEW a \in Actor, NEW j \in Job, Become(a, j),
           UNCHANGED <<file, done>>, job[a].lines = {}, j.lines = {},
           a \in Supervisor => \A d \in j.todo : KindOf[d] \notin Delivered,
           j.pc = "apply" => KindOf[j.cur] \notin Delivered,
           j.pc \notin {"write", "flush"} \/ j.out # "applied"
    PROVE  HeldInv'
  <1>1. \A e \in Decision : done'[e] >= done[e]
    BY DEF HeldInv, Inv, Typed, TypeOK
  <1>2. QED
    BY <1>1, HeldStep

\* A process that was not draining may give up at any point.
LEMMA HeldGiveUp ==
    ASSUME HeldInv, Inv', NEW a \in Actor, Become(a, IdleJob),
           UNCHANGED <<file, done>>, job[a].lines = {}
    PROVE  HeldInv'
  <1>1. IdleJob.lines = {} /\ IdleJob.todo = {} /\ IdleJob.pc = "idle" /\ IdleJob \in Job
    BY IdleType DEF IdleJob
  <1>2. QED
    BY <1>1, HeldQuiet

\* Taking a decision in hand for a write: a message is marked applied by a session.
LEMMA HeldSettle ==
    ASSUME HeldInv, Inv', NEW a \in Actor, NEW d \in Decision, NEW s \in Status,
           Settle(a, d, s), UNCHANGED file,
           \A e \in Decision : done'[e] >= done[e],
           s = "applied" /\ KindOf[d] \in Delivered => a \in Session
    PROVE  HeldInv'
  <1> DEFINE j == [job[a] EXCEPT !.pc = "write", !.cur = d, !.out = s]
  <1>1. job[a] \in Job
    BY DEF HeldInv, Inv, Typed, TypeOK
  <1>2. /\ j \in Job /\ j.pc = "write" /\ j.cur = d /\ j.out = s
        /\ j.todo = job[a].todo /\ j.lines = job[a].lines
    BY <1>1 DEF Job, Step
  <1>3. Become(a, j)
    BY DEF Settle
  <1> HIDE DEF j
  <1>4. QED
    BY <1>2, <1>3, HeldStep DEF HeldInv, LinesInSession, MessagesBySessions

\* Applying a decision: the kinds a supervisor or an operator applies are no messages.
LEMMA HeldApply ==
    ASSUME HeldInv, Inv', NEW a \in Actor, NEW d \in Decision, Apply(a, d),
           UNCHANGED file, KindOf[d] \in Delivered => a \in Session
    PROVE  HeldInv'
  <1>1. \A e \in Decision : done'[e] >= done[e]
    BY DEF Apply, TakesEffect, HeldInv, Inv, Typed, TypeOK
  <1>2. PICK s \in {"applied", "failed"} : Settle(a, d, s)
    BY DEF Apply
  <1>3. s \in Status
    BY DEF Status, Terminal
  <1>4. QED
    BY <1>1, <1>2, <1>3, HeldSettle

\* Where no session dies, every step keeps what is held of the messages under way.
THEOREM HeldInductive ==
    ASSUME HeldInv, [Next]_vars, CrashProne \cap Session = {}
    PROVE  HeldInv'
  <1>0. Inv' /\ Inv
    BY Inductive DEF HeldInv
  <1>t. \A a \in Actor : job[a] \in Job
    BY DEF HeldInv, Inv, Typed, TypeOK
  <1>g. \A a \in Actor : job[a].pc \notin {"drain", "write", "flush"} => job[a].lines = {}
    BY DEF HeldInv, LinesInSession
  <1>i. IdleJob.lines = {} /\ IdleJob.todo = {} /\ IdleJob.pc = "idle" /\ IdleJob \in Job
    BY IdleType DEF IdleJob
  <1>1. CASE UNCHANGED vars
    BY <1>0, <1>1
    DEF vars, HeldInv, LinesInSession, MessagesBySessions, DeliveredOrHeld, Writing
  <1>2. CASE NextDay
    BY <1>0, <1>2
    DEF NextDay, HeldInv, LinesInSession, MessagesBySessions, DeliveredOrHeld, Writing
  <1>3. ASSUME NEW a \in Actor, StartSession(a)
        PROVE  HeldInv'
    <2> DEFINE j == [IdleJob EXCEPT !.pc = "drain",
                       !.todo = {d \in PendingIn({SessionProject[a]}) : KindOf[d] \in AppSide}]
    <2>1. j \in Job /\ j.pc = "drain" /\ j.lines = {}
      BY <1>i DEF Job, Step, PendingIn
    <2>2. Become(a, j) /\ UNCHANGED <<file, done>> /\ job[a].lines = {} /\ a \notin Supervisor
      BY <1>3, <1>g, RolesDisjoint DEF StartSession, MayStart, Active
    <2>3. QED
      BY <1>0, <2>1, <2>2, HeldQuiet
  <1>4. ASSUME NEW a \in Actor, StartSupervisor(a)
        PROVE  HeldInv'
    <2> DEFINE j == [IdleJob EXCEPT !.pc = "drain",
                       !.todo = {d \in PendingIn(Project) :
                                   KindOf[d] \in SupervisorSide \ ManualOnly}]
    <2>1. /\ j \in Job /\ j.pc = "drain" /\ j.lines = {}
          /\ \A d \in j.todo : KindOf[d] \notin Delivered
      BY <1>i DEF Job, Step, PendingIn, SupervisorSide, Delivered
    <2>2. Become(a, j) /\ UNCHANGED <<file, done>> /\ job[a].lines = {}
      BY <1>4, <1>g DEF StartSupervisor, MayStart, Active
    <2>3. QED
      BY <1>0, <2>1, <2>2, HeldQuiet
  <1>5. ASSUME NEW a \in Actor, StartGc(a)
        PROVE  HeldInv'
    <2> DEFINE j == [IdleJob EXCEPT !.pc = "inspect", !.asOf = today,
                       !.todo = {d \in Decision : file[d] # "absent"}]
    <2>1. j \in Job /\ j.pc = "inspect" /\ j.lines = {}
      BY <1>i, <1>0 DEF Job, Step, Inv, Typed, TypeOK
    <2>2. Become(a, j) /\ UNCHANGED <<file, done>> /\ job[a].lines = {} /\ a \notin Supervisor
      BY <1>5, <1>g, RolesDisjoint DEF StartGc, MayStart, Active
    <2>3. QED
      BY <1>0, <2>1, <2>2, HeldQuiet
  <1>6. ASSUME NEW a \in Actor, NEW d \in Decision, Enqueue(a, d)
        PROVE  HeldInv'
    <2>1. \A e \in Decision : done'[e] >= done[e]
      BY <1>6 DEF Enqueue, HeldInv, Inv, Typed, TypeOK
    <2>2. QED
      BY <1>0, <1>6, <2>1, HeldSettle DEF Enqueue, Status
  <1>7. ASSUME NEW a \in Actor, NEW d \in Decision, OperatorApply(a, d)
        PROVE  HeldInv'
    <2> DEFINE j == [IdleJob EXCEPT !.pc = "apply", !.cur = d]
    <2>1. /\ j \in Job /\ j.pc = "apply" /\ j.cur = d /\ j.lines = {}
          /\ KindOf[d] \notin Delivered
      BY <1>i, <1>7 DEF Job, Step, OperatorApply, HeadlessApply, Delivered
    <2>2. /\ Become(a, j) /\ UNCHANGED <<file, done>> /\ job[a].lines = {}
          /\ a \notin Supervisor
      BY <1>7, <1>g, RolesDisjoint DEF OperatorApply, OperatorFinds, MayStart, Active
    <2>3. QED
      BY <1>0, <2>1, <2>2, HeldQuiet
  <1>8. ASSUME NEW a \in Actor, NEW d \in Decision, OperatorDismiss(a, d)
        PROVE  HeldInv'
    <2>1. \A e \in Decision : done'[e] >= done[e]
      BY <1>8 DEF OperatorDismiss, OperatorFinds, HeldInv, Inv, Typed, TypeOK
    <2>2. QED
      BY <1>0, <1>8, <2>1, HeldSettle DEF OperatorDismiss, OperatorFinds, Status, Terminal
  <1>9. ASSUME NEW a \in Actor, NEW d \in Decision, OperatorDispatch(a, d)
        PROVE  HeldInv'
    <2> DEFINE j == [IdleJob EXCEPT !.pc = "launch", !.cur = d]
    <2>1. j \in Job /\ j.pc = "launch" /\ j.lines = {}
      BY <1>i DEF Job, Step
    <2>2. /\ Become(a, j) /\ UNCHANGED <<file, done>> /\ job[a].lines = {}
          /\ a \notin Supervisor
      BY <1>9, <1>g, RolesDisjoint DEF OperatorDispatch, OperatorFinds, MayStart, Active
    <2>3. QED
      BY <1>0, <2>1, <2>2, HeldQuiet
  <1>10. ASSUME NEW a \in Actor, DrainNext(a)
         PROVE  HeldInv'
    <2>1. a \in Session \cup Supervisor /\ job[a].todo \subseteq Decision
      BY <1>0, <1>t, <1>10 DEF DrainNext, Inv, Roles, Job
    <2>2. PICK d \in job[a].todo : Apply(a, d)
      BY <1>10 DEF DrainNext
    <2>3. KindOf[d] \in Delivered => a \in Session
      BY <2>1, <2>2 DEF HeldInv, MessagesBySessions
    <2>4. QED
      BY <1>0, <1>10, <2>1, <2>2, <2>3, HeldApply DEF DrainNext
  <1>11. ASSUME NEW a \in Actor, DrainEnd(a)
         PROVE  HeldInv'
    <2>1. Become(a, IdleJob) /\ UNCHANGED file /\ TakesEffect(a, job[a].lines)
      BY <1>11 DEF DrainEnd
    <2>2. job[a].lines \subseteq Decision
      BY <1>t DEF Job
    <2>3. /\ \A e \in Decision : done'[e] >= done[e]
          /\ \A e \in job[a].lines : done'[e] >= 1
      BY <1>0, <2>1, <2>2 DEF TakesEffect, Inv, Typed, TypeOK
    <2>4. QED
      BY <1>0, <1>i, <2>1, <2>3, HeldStep
  <1>12. ASSUME NEW a \in Actor, ApplyFound(a)
         PROVE  HeldInv'
    <2>1. job[a].cur \in Decision /\ KindOf[job[a].cur] \notin Delivered
      BY <1>0, <1>12 DEF ApplyFound, HeldInv, MessagesBySessions, Inv, Typed, HandFull
    <2>2. QED
      BY <1>0, <1>12, <2>1, HeldApply DEF ApplyFound
  <1>13. ASSUME NEW a \in Actor, Launch(a)
         PROVE  HeldInv'
    <2>1. job[a].lines = {} /\ UNCHANGED file /\ a \notin Supervisor
      BY <1>0, <1>13, <1>g, RolesDisjoint DEF Launch, Inv, Roles
    <2>2. CASE TakesEffect(a, {job[a].cur}) /\ Become(a, [job[a] EXCEPT !.pc = "retire"])
      <3> DEFINE j == [job[a] EXCEPT !.pc = "retire"]
      <3>1. j \in Job /\ j.pc = "retire" /\ j.lines = {}
        BY <1>t, <2>1 DEF Job, Step
      <3>2. \A e \in Decision : done'[e] >= done[e]
        BY <1>0, <2>2 DEF TakesEffect, Inv, Typed, TypeOK
      <3>3. QED
        BY <1>0, <2>1, <2>2, <3>1, <3>2, HeldStep
    <2>3. CASE Become(a, IdleJob) /\ UNCHANGED <<done, doers>>
      BY <1>0, <2>1, <2>3, HeldGiveUp
    <2>4. QED
      BY <1>13, <2>2, <2>3 DEF Launch
  <1>14. ASSUME NEW a \in Actor, Retire(a)
         PROVE  HeldInv'
    <2>1. /\ job[a].lines = {} /\ UNCHANGED <<file, done>> /\ job[a].cur \in Decision
          /\ \A e \in Decision : done'[e] >= done[e]
      BY <1>0, <1>14, <1>g DEF Retire, Inv, Typed, TypeOK, HandFull
    <2>2. CASE Settle(a, job[a].cur, "superseded")
      BY <1>0, <2>1, <2>2, HeldSettle DEF Status, Terminal
    <2>3. CASE Become(a, IdleJob)
      BY <1>0, <2>1, <2>3, HeldGiveUp
    <2>4. QED
      BY <1>14, <2>2, <2>3 DEF Retire
  <1>15. ASSUME NEW a \in Actor, NEW d \in Decision, GcInspect(a, d)
         PROVE  HeldInv'
    <2>1. /\ job[a].lines = {} /\ UNCHANGED <<file, done>> /\ a \notin Supervisor
          /\ \A e \in Decision : done'[e] >= done[e]
      BY <1>0, <1>15, <1>g, RolesDisjoint DEF GcInspect, Inv, Typed, TypeOK, Roles
    <2>2. CASE Become(a, IdleJob)
      BY <1>0, <2>1, <2>2, HeldGiveUp
    <2>3. CASE Settle(a, d, "expired")
      BY <1>0, <2>1, <2>3, HeldSettle DEF Status, Terminal
    <2>4. CASE Become(a, [job[a] EXCEPT !.pc = "unlink", !.cur = d])
      <3> DEFINE j == [job[a] EXCEPT !.pc = "unlink", !.cur = d]
      <3>1. j \in Job /\ j.pc = "unlink" /\ j.lines = {}
        BY <1>t, <2>1 DEF Job, Step
      <3>2. QED
        BY <1>0, <2>1, <2>4, <3>1, HeldQuiet
    <2>5. CASE Become(a, [job[a] EXCEPT !.todo = @ \ {d}])
      <3> DEFINE j == [job[a] EXCEPT !.todo = @ \ {d}]
      <3>1. j \in Job /\ j.pc = "inspect" /\ j.lines = {}
        BY <1>15, <1>t, <2>1 DEF GcInspect, Job, Step
      <3>2. QED
        BY <1>0, <2>1, <2>5, <3>1, HeldQuiet
    <2>6. QED
      BY <1>15, <2>2, <2>3, <2>4, <2>5 DEF GcInspect
  <1>16. ASSUME NEW a \in Actor, GcUnlink(a)
         PROVE  HeldInv'
    <2> DEFINE next == [job[a] EXCEPT !.pc = "inspect", !.cur = NoDecision,
                                      !.todo = @ \ {job[a].cur}]
    <2>1. /\ job[a].lines = {} /\ a \notin Supervisor /\ UNCHANGED done
          /\ file' = [file EXCEPT ![job[a].cur] = "absent"]
      BY <1>0, <1>16, <1>g, RolesDisjoint DEF GcUnlink, Inv, Roles
    <2>2. next \in Job /\ next.pc = "inspect" /\ next.lines = {}
      BY <1>t, <2>1 DEF Job, Step
    <2>3. PICK j \in {IdleJob, next} : Become(a, j)
      BY <1>16 DEF GcUnlink
    <2>4. j \in Job /\ j.pc \in {"idle", "inspect"} /\ j.lines = {}
      BY <1>i, <2>2, <2>3
    <2>5. /\ \A e \in Decision : done'[e] >= done[e]
          /\ \A e \in Decision : file'[e] = "applied" => file[e] = "applied"
      BY <1>0, <2>1 DEF Inv, Typed, TypeOK
    <2> HIDE DEF next
    <2>6. QED
      BY <1>0, <2>1, <2>3, <2>4, <2>5, HeldStep
  <1>17. ASSUME NEW a \in Actor, GcEnd(a)
         PROVE  HeldInv'
    BY <1>0, <1>17, <1>g, HeldGiveUp DEF GcEnd
  <1>18. ASSUME NEW a \in Actor, Truncate(a)
         PROVE  HeldInv'
    <2> DEFINE j == [job[a] EXCEPT !.pc = "flush"]
    <2>1. /\ Become(a, j) /\ UNCHANGED done /\ Writing(a)
          /\ file' = [file EXCEPT ![job[a].cur] = "torn"]
      BY <1>18 DEF Truncate, Writing
    <2>2. /\ j \in Job /\ j.pc = "flush" /\ j.lines = job[a].lines
          /\ j.todo = job[a].todo /\ j.out = job[a].out /\ j.cur = job[a].cur
      BY <1>t DEF Job, Step
    <2>3. /\ \A e \in Decision : done'[e] >= done[e]
          /\ \A e \in Decision : file'[e] = "applied" => file[e] = "applied"
      BY <1>0, <2>1 DEF Inv, Typed, TypeOK
    <2> HIDE DEF j
    <2>4. QED
      BY <1>0, <2>1, <2>2, <2>3, HeldStep DEF HeldInv, LinesInSession, MessagesBySessions
  <1>19. ASSUME NEW a \in Actor, Flush(a)
         PROVE  HeldInv'
    <2> DEFINE d == job[a].cur
               j == Written(a)
    <2>1. /\ d \in Decision /\ Writing(a) /\ Become(a, j) /\ UNCHANGED done
          /\ file' = [file EXCEPT ![d] = job[a].out]
      BY <1>0, <1>19 DEF Flush, Inv, Typed, HandFull, Writing
    <2>2. /\ j \in Job /\ j.pc \in {"idle", "drain", "inspect"}
          /\ j.todo \subseteq job[a].todo
      BY <1>0, <1>19, WrittenShape DEF Flush
    <2>3. CASE a \in Session \cup Supervisor
      <3> DEFINE l == IF job[a].out = "applied" /\ KindOf[d] \in Delivered
                      THEN job[a].lines \cup {d} ELSE job[a].lines
      <3>1. j = [job[a] EXCEPT !.pc = "drain", !.cur = NoDecision,
                               !.todo = job[a].todo \ {d}, !.lines = l]
        BY <2>3, <1>t, RolesDisjoint DEF Written
      <3>2. j.lines = l /\ j.pc = "drain"
        BY <3>1, <1>t DEF Job
      <3>3. \A e \in Decision : file'[e] = "applied" /\ KindOf[e] \in Delivered
               => file[e] = "applied" \/ (a \in Session /\ e \in l)
        BY <1>0, <2>1 DEF Inv, Typed, TypeOK, HeldInv, MessagesBySessions
      <3>4. l # {} => a \in Session
        BY <2>1 DEF HeldInv, MessagesBySessions, LinesInSession
      <3>5. \A e \in job[a].lines : e \in l
        OBVIOUS
      <3>6. \A e \in Decision : done'[e] >= done[e]
        BY <1>0, <2>1 DEF Inv, Typed, TypeOK
      <3> HIDE DEF l, j
      <3>7. a \in Supervisor => \A e \in j.todo : KindOf[e] \notin Delivered
        BY <2>2 DEF HeldInv, MessagesBySessions
      <3>8. QED
        BY <1>0, <2>1, <2>2, <3>2, <3>3, <3>4, <3>5, <3>6, <3>7, HeldStep
    <2>4. CASE a \notin Session \cup Supervisor
      <3>1. job[a].lines = {} /\ j.lines = {}
        <4>1. job[a].lines = {}
          BY <2>4 DEF HeldInv, LinesInSession
        <4>2. CASE a \in Collector
          <5>1. j = [job[a] EXCEPT !.pc = "inspect", !.cur = NoDecision,
                                   !.todo = job[a].todo \ {d}]
            BY <4>2, RolesDisjoint DEF Written
          <5>2. QED
            BY <1>t, <4>1, <5>1 DEF Job
        <4>3. CASE a \notin Collector
          BY <1>i, <2>4, <4>1, <4>3 DEF Written
        <4>4. QED
          BY <4>2, <4>3, <4>1
      <3>2. \A e \in Decision : file'[e] = "applied" /\ KindOf[e] \in Delivered
               => file[e] = "applied"
        BY <1>0, <2>1, <2>4 DEF Inv, Typed, TypeOK, HeldInv, MessagesBySessions
      <3>3. \A e \in Decision : done'[e] >= done[e]
        BY <1>0, <2>1 DEF Inv, Typed, TypeOK
      <3> HIDE DEF j
      <3>4. QED
        BY <1>0, <2>1, <2>2, <2>4, <3>1, <3>2, <3>3, HeldStep
    <2>5. QED
      BY <2>3, <2>4
  <1>20. ASSUME NEW a \in Actor, Crash(a)
         PROVE  HeldInv'
    BY <1>0, <1>20, HeldGiveUp DEF Crash, HeldInv, LinesInSession
  <1>21. QED
    BY <1>1, <1>2, <1>3, <1>4, <1>5, <1>6, <1>7, <1>8, <1>9, <1>10, <1>11, <1>12,
       <1>13, <1>14, <1>15, <1>16, <1>17, <1>18, <1>19, <1>20
    DEF Next, Start, Progress

\* A message marked applied was printed into a session, or the session that marked it
\* still holds its line, whatever other drains, operators and collectors run beside it
\* and wherever they die.
THEOREM MessagesKept ==
    ASSUME CrashProne \cap Session = {}
    PROVE  Spec => []DeliveredOrHeld
  <1>1. Init => LinesInSession /\ MessagesBySessions /\ DeliveredOrHeld
    BY DEF Init, IdleJob, LinesInSession, MessagesBySessions, DeliveredOrHeld, Writing
  <1>2. HeldInv /\ [Next]_vars => HeldInv'
    BY HeldInductive
  <1>3. HeldInv => DeliveredOrHeld
    BY DEF HeldInv
  <1>4. Inv /\ LinesInSession /\ MessagesBySessions /\ DeliveredOrHeld => HeldInv
    BY DEF HeldInv
  <1>5. QED
    BY <1>1, <1>2, <1>3, <1>4, Invariant, PTL DEF Spec

-----------------------------------------------------------------------------
(* One process at a time, none of which dies (MaxActive = 1, CrashProne = {}): no decision    *)
(* takes effect twice, and the queue implements DecisionLifecycle.  Both hypotheses are       *)
(* needed: the run queue_double_run is the counterexample without them.                       *)

\* What a drain or an operator takes in hand.
Untouched(d) == file[d] = "pending" /\ done[d] = 0

\* What a terminal status says about the effects of the decision.
Earned(d, s) ==
    /\ s = "applied" /\ KindOf[d] \in Direct => done[d] = 1
    /\ s = "applied" /\ KindOf[d] \in Delivered => done[d] = 0
    /\ s = "failed" => KindOf[d] \in Direct /\ (KindOf[d] # "approve_push" => done[d] = 0)
    /\ s = "expired" => done[d] = 0
    /\ s = "superseded" => KindOf[d] = "dispatch_cadence" \/ done[d] = 0

\* The decision in hand is as the step that took it saw it.
InHand(a, d) ==
    /\ job[a].pc \in {"apply", "launch"} => Untouched(d)
    /\ job[a].pc \in {"launch", "retire"} => KindOf[d] = "dispatch_cadence"
    /\ job[a].pc = "retire" => file[d] = "pending"
    /\ job[a].pc = "unlink" => file[d] \in Terminal
    /\ job[a].pc = "flush" => file[d] = "torn"
    /\ job[a].pc = "write" => file[d] = IF a \in Producer THEN "absent" ELSE "pending"
    /\ Writing(a) /\ a \in Producer => job[a].out = "pending" /\ done[d] = 0
    /\ Writing(a) /\ a \notin Producer => job[a].out \in Terminal /\ Earned(d, job[a].out)

\* So is the rest of its snapshot, and what it has still to print.
JobFits(a) ==
    /\ job[a].pc = "idle" => job[a] = IdleJob
    /\ job[a].pc \in {"drain", "inspect"} => job[a].cur = NoDecision
    /\ \A d \in job[a].lines : file[d] = "applied" /\ done[d] = 0
    /\ \A d \in job[a].todo \ {job[a].cur} :
          IF a \in Collector THEN file[d] \in Status ELSE Untouched(d)
    /\ job[a].cur # NoDecision => InHand(a, job[a].cur)

FileFits(d) ==
    /\ done[d] <= 1
    /\ file[d] = "torn" => \E a \in Actor : job[a].pc = "flush" /\ job[a].cur = d
    /\ file[d] = "pending" /\ (\A a \in Actor : job[a].cur # d) => done[d] = 0

OthersIdle(a) == \A b \in Actor \ {a} : job[b] = IdleJob

Serial ==
    /\ \A a, b \in Actor : job[a].pc # "idle" /\ job[b].pc # "idle" => a = b
    /\ \A a \in Actor : JobFits(a)
    /\ \A d \in Decision : FileFits(d)

\* The invariants of DecisionQueueProofs that the induction leans on.
Base == Inv /\ LinesInSession

-----------------------------------------------------------------------------
(* One process at a time *)

\* A process that is not idle is alone.
LEMMA BusyAlone ==
    ASSUME Serial, NEW a \in Actor, job[a].pc # "idle"
    PROVE  OthersIdle(a)
  BY DEF Serial, JobFits, OthersIdle

\* With MaxActive = 1, a process starts when every process is idle.
LEMMA StartAlone ==
    ASSUME Serial, MaxActive = 1, NEW a \in Actor, MayStart(a)
    PROVE  /\ job[a] = IdleJob
           /\ OthersIdle(a)
           /\ \A b \in Actor : job[b].cur = NoDecision
  <1>1. Active = {}
    <2> SUFFICES ASSUME NEW b \in Active PROVE FALSE
      OBVIOUS
    <2>1. Active = {b}
      BY DEF Active, Serial
    <2>2. Cardinality({b}) = 1
      BY FS_Singleton
    <2>3. QED
      BY <2>1, <2>2 DEF MayStart
  <1>2. \A b \in Actor : job[b] = IdleJob
    BY <1>1 DEF Active, Serial, JobFits
  <1>3. QED
    BY <1>2 DEF OthersIdle, IdleJob

\* Nobody writes, so no file is torn and a pending decision is untouched.
LEMMA Settled ==
    ASSUME Base, Serial, NEW a \in Actor, OthersIdle(a), job[a].cur = NoDecision
    PROVE  \A d \in Decision : /\ file[d] # "torn"
                               /\ file[d] = "pending" => Untouched(d)
  <1>1. \A b \in Actor, d \in Decision : job[b].cur # d
    BY QueueConstants DEF OthersIdle, IdleJob
  <1>2. QED
    BY <1>1 DEF Serial, FileFits, Untouched

\* It is enough to look at the process that steps, and at the files.
LEMMA SerialStep ==
    ASSUME Base, NEW a \in Actor, NEW j \in Job, Become(a, j), OthersIdle(a),
           JobFits(a)', \A d \in Decision : FileFits(d)'
    PROVE  Serial'
  <1>1. job'[a] = j /\ \A b \in Actor \ {a} : job'[b] = IdleJob
    BY BecomeType DEF Base, Inv, Typed, TypeOK, OthersIdle
  <1>2. \A b \in Actor \ {a} : JobFits(b)'
    BY <1>1 DEF JobFits, IdleJob
  <1>3. QED
    BY <1>1, <1>2 DEF Serial, IdleJob

\* A step that changes no file and no effect keeps the files fitting, unless it lets
\* go of a pending decision that took effect.
LEMMA FilesKept ==
    ASSUME Base, Serial, NEW a \in Actor, NEW j \in Job, Become(a, j), OthersIdle(a),
           UNCHANGED <<file, done>>, job[a].pc # "flush",
           \A d \in Decision : job[a].cur = d /\ file[d] = "pending"
               => done[d] = 0 \/ j.cur = d
    PROVE  \A d \in Decision : FileFits(d)'
  <1>1. job'[a] = j /\ \A b \in Actor \ {a} : job'[b] = job[b] /\ job[b] = IdleJob
    BY BecomeType DEF Base, Inv, Typed, TypeOK, OthersIdle
  <1> SUFFICES ASSUME NEW d \in Decision PROVE FileFits(d)'
    OBVIOUS
  <1>2. FileFits(d)
    BY DEF Serial
  <1>3. file[d] # "torn"
    BY <1>1, <1>2 DEF FileFits, IdleJob
  <1>4. ASSUME file[d] = "pending", \A b \in Actor : job'[b].cur # d
        PROVE  done[d] = 0
    <2>1. CASE job[a].cur = d
      BY <1>1, <1>4, <2>1
    <2>2. CASE job[a].cur # d
      BY <1>1, <1>2, <1>4, <2>2 DEF FileFits, IdleJob
    <2>3. QED
      BY <2>1, <2>2
  <1>5. QED
    BY <1>2, <1>3, <1>4 DEF FileFits

\* A process that starts from rest, or gives up.
LEMMA SerialIdle ==
    ASSUME Base, Serial, NEW a \in Actor, Become(a, IdleJob), OthersIdle(a),
           UNCHANGED <<file, done>>, job[a].pc # "flush",
           \A d \in Decision : job[a].cur = d /\ file[d] = "pending" => done[d] = 0
    PROVE  Serial'
  <1>1. job'[a] = IdleJob
    BY IdleType, BecomeType DEF Base, Inv, Typed, TypeOK
  <1>2. JobFits(a)'
    BY <1>1 DEF JobFits, IdleJob
  <1>3. QED
    BY <1>2, IdleType, FilesKept, SerialStep

\* Taking a decision in hand for a terminal write.
LEMMA SerialSettle ==
    ASSUME Base, Serial, NEW a \in Actor \ Producer, NEW d \in Decision,
           NEW s \in Terminal, Settle(a, d, s), OthersIdle(a),
           job[a].pc \notin {"write", "flush"}, job[a].cur \in {d, NoDecision},
           UNCHANGED file, file[d] = "pending",
           done' \in [Decision -> 0 .. 2],
           \A e \in Decision \ {d} : done'[e] = done[e],
           done'[d] <= 1, Earned(d, s)'
    PROVE  Serial'
  <1> DEFINE j == [job[a] EXCEPT !.pc = "write", !.cur = d, !.out = s]
  <1>1. job[a] \in Job
    BY DEF Base, Inv, Typed, TypeOK
  <1>2. /\ j \in Job /\ j.pc = "write" /\ j.cur = d /\ j.out = s
        /\ j.todo = job[a].todo /\ j.lines = job[a].lines
    BY <1>1 DEF Job, Step, Status
  <1>3. Become(a, j)
    BY DEF Settle
  <1> HIDE DEF j
  <1>4. job'[a] = j /\ \A b \in Actor \ {a} : job'[b] = job[b] /\ job[b] = IdleJob
    BY <1>2, <1>3, BecomeType DEF Base, Inv, Typed, TypeOK, OthersIdle
  <1>5. JobFits(a)'
    <2>1. JobFits(a)
      BY DEF Serial
    <2>2. \A e \in j.lines : file[e] = "applied" /\ done'[e] = 0
      <3>1. j.lines \subseteq Decision
        BY <1>2 DEF Job
      <3>2. QED
        BY <1>2, <2>1, <3>1 DEF JobFits
    <2>3. \A e \in j.todo \ {d} :
             IF a \in Collector THEN file[e] \in Status ELSE file[e] = "pending" /\ done'[e] = 0
      <3>1. j.todo \subseteq Decision
        BY <1>2 DEF Job
      <3>2. j.todo \ {d} \subseteq job[a].todo \ {job[a].cur}
        BY <1>2, <3>1, QueueConstants
      <3>3. QED
        BY <2>1, <3>1, <3>2 DEF JobFits, Untouched
    <2>4. InHand(a, d)'
      BY <1>2, <1>4 DEF InHand, Writing
    <2>5. QED
      BY <1>2, <1>4, <2>2, <2>3, <2>4 DEF JobFits, Untouched
  <1>6. \A e \in Decision : FileFits(e)'
    <2> SUFFICES ASSUME NEW e \in Decision PROVE FileFits(e)'
      OBVIOUS
    <2>1. CASE e = d
      BY <1>2, <1>4, <2>1 DEF FileFits
    <2>2. CASE e # d
      <3>1. job[a].cur # e
        BY <2>2, QueueConstants
      <3>2. QED
        BY <1>2, <1>4, <2>2, <3>1 DEF Serial, FileFits, IdleJob
    <2>3. QED
      BY <2>1, <2>2
  <1>7. QED
    BY <1>2, <1>3, <1>5, <1>6, SerialStep

-----------------------------------------------------------------------------
(* The steps *)

\* Applying a decision nobody has touched.
LEMMA SerialApply ==
    ASSUME Base, Serial, NEW a \in Actor \ Producer, NEW d \in Decision, Apply(a, d),
           OthersIdle(a), job[a].pc \notin {"write", "flush"},
           job[a].cur \in {d, NoDecision}, UNCHANGED file, Untouched(d)
    PROVE  Serial'
  <1>1. done \in [Decision -> 0 .. 2] /\ done' \in [Decision -> 0 .. 2]
    BY DEF Apply, TakesEffect, Base, Inv, Typed, TypeOK
  <1>2. Delivered \cap Direct = {} /\ "approve_push" \in Direct
    BY DEF Delivered, Direct
  <1>3. CASE /\ TakesEffect(a, {d} \cap {e \in Decision : KindOf[e] \in Direct})
             /\ Settle(a, d, "applied")
    <2>1. /\ \A e \in Decision \ {d} : done'[e] = done[e]
          /\ done'[d] = IF KindOf[d] \in Direct THEN 1 ELSE 0
      BY <1>1, <1>3 DEF TakesEffect, Untouched
    <2>2. Earned(d, "applied")'
      BY <1>2, <2>1 DEF Earned
    <2>3. QED
      BY <1>1, <1>3, <2>1, <2>2, SerialSettle DEF Terminal, Untouched
  <1>4. CASE KindOf[d] \in Direct /\ Settle(a, d, "failed") /\ UNCHANGED <<done, doers>>
    <2>1. Earned(d, "failed")'
      BY <1>4 DEF Earned, Untouched
    <2>2. QED
      BY <1>1, <1>4, <2>1, SerialSettle DEF Terminal, Untouched
  <1>5. CASE KindOf[d] = "approve_push" /\ TakesEffect(a, {d}) /\ Settle(a, d, "failed")
    <2>1. /\ \A e \in Decision \ {d} : done'[e] = done[e]
          /\ done'[d] = 1
      BY <1>1, <1>5 DEF TakesEffect, Untouched
    <2>2. Earned(d, "failed")'
      BY <1>2, <1>5, <2>1 DEF Earned
    <2>3. QED
      BY <1>1, <1>5, <2>1, <2>2, SerialSettle DEF Terminal, Untouched
  <1>6. QED
    BY <1>3, <1>4, <1>5 DEF Apply

\* A process that starts with a snapshot, or with one decision, it has just read.
LEMMA SerialStart ==
    ASSUME Base, Serial, MaxActive = 1, NEW a \in Actor, MayStart(a),
           NEW j \in Job, Become(a, j), UNCHANGED <<file, done>>, j.lines = {},
           \/ /\ j.pc \in {"drain", "inspect"} /\ j.cur = NoDecision
              /\ \A d \in j.todo : IF a \in Collector THEN file[d] \in Status
                                                      ELSE file[d] = "pending"
           \/ /\ j.pc \in {"apply", "launch"} /\ j.cur \in Decision /\ j.todo = {}
              /\ file[j.cur] = "pending"
              /\ j.pc = "launch" => KindOf[j.cur] = "dispatch_cadence"
    PROVE  Serial'
  <1>1. job[a] = IdleJob /\ OthersIdle(a) /\ job[a].cur = NoDecision
    BY StartAlone
  <1>2. job'[a] = j
    BY BecomeType DEF Base, Inv, Typed, TypeOK
  <1>3. \A d \in Decision : file[d] # "torn" /\ (file[d] = "pending" => Untouched(d))
    BY <1>1, Settled
  <1>4. JobFits(a)'
    <2>1. j.todo \subseteq Decision
      BY DEF Job
    <2>2. \A d \in j.todo : IF a \in Collector THEN file[d] \in Status ELSE Untouched(d)
      BY <1>3, <2>1
    <2>3. j.cur # NoDecision => InHand(a, j.cur)'
      BY <1>2, <1>3 DEF InHand, Writing, Untouched
    <2>4. QED
      BY <1>2, <2>2, <2>3 DEF JobFits, Untouched
  <1>5. \A d \in Decision : FileFits(d)'
    <2>1. \A d \in Decision : job[a].cur # d
      BY <1>1, QueueConstants
    <2>2. job[a].pc # "flush"
      BY <1>1 DEF IdleJob
    <2>3. QED
      BY <1>1, <2>1, <2>2, FilesKept
  <1>6. QED
    BY <1>1, <1>4, <1>5, SerialStep

\* A write: the file of the decision in hand goes from v to w, its effects stay.
LEMMA SerialWrite ==
    ASSUME Base, Serial, NEW a \in Actor, NEW j \in Job, Become(a, j), OthersIdle(a),
           NEW d \in Decision, job[a].cur = d, NEW v \in FileState,
           file' = [file EXCEPT ![d] = v], UNCHANGED done,
           d \notin job[a].lines,
           j.todo \subseteq job[a].todo,
           j.lines \subseteq job[a].lines \cup {d},
           d \in j.lines => v = "applied" /\ done[d] = 0,
           v = "pending" => done[d] = 0,
           \/ j = IdleJob /\ v # "torn"
           \/ /\ j.pc \in {"drain", "inspect"} /\ j.cur = NoDecision
              /\ d \notin j.todo /\ v # "torn"
           \/ /\ j.pc = "flush" /\ j.cur = d /\ v = "torn" /\ job[a].pc = "write"
              /\ j.out = job[a].out
    PROVE  Serial'
  <1>1. job'[a] = j /\ \A b \in Actor \ {a} : job'[b] = job[b] /\ job[b] = IdleJob
    BY BecomeType DEF Base, Inv, Typed, TypeOK, OthersIdle
  <1>2. file'[d] = v /\ \A e \in Decision \ {d} : file'[e] = file[e]
    BY DEF Base, Inv, Typed, TypeOK
  <1>3. JobFits(a) /\ job[a].lines \subseteq Decision /\ job[a].todo \subseteq Decision
    BY DEF Serial, Base, Inv, Typed, TypeOK, Job
  <1>4. \A e \in j.lines : file'[e] = "applied" /\ done[e] = 0
    BY <1>2, <1>3 DEF JobFits
  <1>5. \A e \in j.todo \ {d} :
           IF a \in Collector THEN file'[e] \in Status ELSE file'[e] = "pending" /\ done[e] = 0
    BY <1>2, <1>3 DEF JobFits, Untouched
  <1>6. ASSUME j.pc = "flush"
        PROVE  InHand(a, d)'
    <2>1. InHand(a, d)
      BY <1>3, QueueConstants DEF JobFits
    <2>2. j.pc = "flush" /\ j.out = job[a].out /\ v = "torn" /\ job[a].pc = "write"
      BY <1>6 DEF IdleJob
    <2>3. QED
      BY <1>1, <1>2, <2>1, <2>2 DEF InHand, Writing, Earned
  <1>7. JobFits(a)'
    <2>1. CASE j = IdleJob
      BY <1>1, <2>1 DEF JobFits, IdleJob
    <2>2. CASE j.pc \in {"drain", "inspect"} /\ j.cur = NoDecision /\ d \notin j.todo
      BY <1>1, <1>4, <1>5, <2>2 DEF JobFits, Untouched
    <2>3. CASE j.pc = "flush" /\ j.cur = d
      BY <1>1, <1>4, <1>5, <1>6, <2>3 DEF JobFits, Untouched
    <2>4. QED
      BY <2>1, <2>2, <2>3
  <1>8. \A e \in Decision : FileFits(e)'
    <2> SUFFICES ASSUME NEW e \in Decision PROVE FileFits(e)'
      OBVIOUS
    <2>0. FileFits(e)
      BY DEF Serial
    <2>1. CASE e = d
      BY <1>1, <1>2, <2>0, <2>1 DEF FileFits
    <2>2. CASE e # d
      BY <1>1, <1>2, <2>0, <2>2 DEF FileFits, IdleJob
    <2>3. QED
      BY <2>1, <2>2
  <1>9. QED
    BY <1>7, <1>8, SerialStep

\* Serial is inductive, given Base.
THEOREM SerialInductive ==
    ASSUME Base, Serial, [Next]_vars, MaxActive = 1, CrashProne = {}
    PROVE  Serial'
  <1>t. /\ job \in [Actor -> Job] /\ \A a \in Actor : job[a] \in Job
        /\ file \in [Decision -> FileState] /\ done \in [Decision -> 0 .. 2]
    BY DEF Base, Inv, Typed, TypeOK
  <1>i. /\ IdleJob.lines = {} /\ IdleJob.todo = {} /\ IdleJob.pc = "idle" /\ IdleJob \in Job
        /\ IdleJob.cur = NoDecision
    BY IdleType DEF IdleJob
  <1>f. \A a \in Actor : JobFits(a)
    BY DEF Serial
  <1>1. CASE UNCHANGED vars
    BY <1>1 DEF vars, Serial, JobFits, FileFits, InHand, Untouched, Earned, Writing
  <1>2. CASE NextDay
    BY <1>2 DEF NextDay, Serial, JobFits, FileFits, InHand, Untouched, Earned, Writing
  <1>3. ASSUME NEW a \in Actor, StartSession(a)
        PROVE  Serial'
    <2> DEFINE j == [IdleJob EXCEPT !.pc = "drain",
                       !.todo = {d \in PendingIn({SessionProject[a]}) : KindOf[d] \in AppSide}]
    <2>1. /\ j \in Job /\ j.pc = "drain" /\ j.lines = {} /\ j.cur = NoDecision
          /\ \A d \in j.todo : file[d] = "pending"
      BY <1>i DEF Job, Step, PendingIn
    <2>2. Become(a, j) /\ UNCHANGED <<file, done>> /\ MayStart(a) /\ a \notin Collector
      BY <1>3, RolesDisjoint DEF StartSession
    <2>3. QED
      BY <2>1, <2>2, SerialStart
  <1>4. ASSUME NEW a \in Actor, StartSupervisor(a)
        PROVE  Serial'
    <2> DEFINE j == [IdleJob EXCEPT !.pc = "drain",
                       !.todo = {d \in PendingIn(Project) :
                                   KindOf[d] \in SupervisorSide \ ManualOnly}]
    <2>1. /\ j \in Job /\ j.pc = "drain" /\ j.lines = {} /\ j.cur = NoDecision
          /\ \A d \in j.todo : file[d] = "pending"
      BY <1>i DEF Job, Step, PendingIn
    <2>2. Become(a, j) /\ UNCHANGED <<file, done>> /\ MayStart(a) /\ a \notin Collector
      BY <1>4, RolesDisjoint DEF StartSupervisor
    <2>3. QED
      BY <2>1, <2>2, SerialStart
  <1>5. ASSUME NEW a \in Actor, StartGc(a)
        PROVE  Serial'
    <2> DEFINE j == [IdleJob EXCEPT !.pc = "inspect", !.asOf = today,
                       !.todo = {d \in Decision : file[d] # "absent"}]
    <2>0. OthersIdle(a) /\ job[a].cur = NoDecision
      BY <1>5, StartAlone DEF StartGc
    <2>1. /\ j \in Job /\ j.pc = "inspect" /\ j.lines = {} /\ j.cur = NoDecision
      BY <1>i DEF Job, Step, Base, Inv, Typed, TypeOK
    <2>2. \A d \in j.todo : file[d] \in Status
      BY <1>t, <2>0, Settled DEF FileState
    <2>3. Become(a, j) /\ UNCHANGED <<file, done>> /\ MayStart(a) /\ a \in Collector
      BY <1>5, RolesDisjoint DEF StartGc
    <2>4. QED
      BY <2>1, <2>2, <2>3, SerialStart
  <1>6. ASSUME NEW a \in Actor, NEW d \in Decision, Enqueue(a, d)
        PROVE  Serial'
    <2> DEFINE j == [job[a] EXCEPT !.pc = "write", !.cur = d, !.out = "pending"]
    <2>1. OthersIdle(a) /\ job[a] = IdleJob
      BY <1>6, StartAlone DEF Enqueue
    <2>2. /\ j \in Job /\ j.pc = "write" /\ j.cur = d /\ j.out = "pending"
          /\ j.todo = {} /\ j.lines = {}
      BY <1>t, <1>i, <2>1 DEF Job, Step, Status
    <2>3. Become(a, j) /\ a \in Producer /\ UNCHANGED <<file, done>> /\ created[d] = NoDay
      BY <1>6 DEF Enqueue, Settle
    <2> HIDE DEF j
    <2>4. file[d] = "absent" /\ done[d] = 0
      BY <2>3 DEF Base, Inv, Fresh
    <2>5. job'[a] = j
      BY <2>2, <2>3, BecomeType, <1>t
    <2>6. JobFits(a)'
      BY <2>2, <2>3, <2>4, <2>5 DEF JobFits, InHand, Writing
    <2>7. \A e \in Decision : job[a].cur # e
      BY <1>i, <2>1, QueueConstants
    <2>8. \A e \in Decision : FileFits(e)'
      BY <1>i, <2>1, <2>2, <2>3, <2>7, FilesKept
    <2>9. QED
      BY <2>1, <2>2, <2>3, <2>6, <2>8, SerialStep
  <1>7. ASSUME NEW a \in Actor, NEW d \in Decision, OperatorApply(a, d)
        PROVE  Serial'
    <2> DEFINE j == [IdleJob EXCEPT !.pc = "apply", !.cur = d]
    <2>1. j \in Job /\ j.pc = "apply" /\ j.cur = d /\ j.lines = {} /\ j.todo = {}
      BY <1>i DEF Job, Step
    <2>2. /\ Become(a, j) /\ UNCHANGED <<file, done>> /\ MayStart(a) /\ file[d] = "pending"
      BY <1>7 DEF OperatorApply, OperatorFinds
    <2>3. QED
      BY <2>1, <2>2, SerialStart
  <1>8. ASSUME NEW a \in Actor, NEW d \in Decision, OperatorDismiss(a, d)
        PROVE  Serial'
    <2>1. OthersIdle(a) /\ job[a] = IdleJob /\ job[a].cur = NoDecision
      BY <1>8, StartAlone DEF OperatorDismiss, OperatorFinds
    <2>2. /\ Settle(a, d, "superseded") /\ UNCHANGED <<file, done>> /\ file[d] = "pending"
          /\ a \notin Producer
      BY <1>8, RolesDisjoint DEF OperatorDismiss, OperatorFinds
    <2>3. Untouched(d)
      BY <2>1, <2>2, Settled
    <2>4. Earned(d, "superseded")' /\ done'[d] <= 1
      BY <2>2, <2>3 DEF Earned, Untouched
    <2>5. QED
      BY <1>t, <1>i, <2>1, <2>2, <2>4, SerialSettle DEF Terminal
  <1>9. ASSUME NEW a \in Actor, NEW d \in Decision, OperatorDispatch(a, d)
        PROVE  Serial'
    <2> DEFINE j == [IdleJob EXCEPT !.pc = "launch", !.cur = d]
    <2>1. j \in Job /\ j.pc = "launch" /\ j.cur = d /\ j.lines = {} /\ j.todo = {}
      BY <1>i DEF Job, Step
    <2>2. /\ Become(a, j) /\ UNCHANGED <<file, done>> /\ MayStart(a) /\ file[d] = "pending"
          /\ KindOf[d] = "dispatch_cadence"
      BY <1>9 DEF OperatorDispatch, OperatorFinds
    <2>3. QED
      BY <2>1, <2>2, SerialStart
  <1>10. ASSUME NEW a \in Actor, DrainNext(a)
         PROVE  Serial'
    <2>1. /\ a \in Session \cup Supervisor /\ job[a].todo \subseteq Decision
          /\ job[a].cur = NoDecision /\ OthersIdle(a) /\ job[a].pc = "drain"
          /\ a \notin Producer /\ a \notin Collector
      BY <1>t, <1>f, <1>10, BusyAlone, RolesDisjoint
      DEF DrainNext, Base, Inv, Roles, Job, JobFits
    <2>2. PICK d \in job[a].todo : Apply(a, d)
      BY <1>10 DEF DrainNext
    <2>3. Untouched(d) /\ d \in Decision
      BY <1>f, <2>1, <2>2, QueueConstants DEF JobFits
    <2>4. QED
      BY <1>10, <2>1, <2>2, <2>3, SerialApply DEF DrainNext
  <1>11. ASSUME NEW a \in Actor, DrainEnd(a)
         PROVE  Serial'
    <2>1. /\ job[a].cur = NoDecision /\ OthersIdle(a) /\ job[a].pc = "drain"
          /\ job[a].lines \subseteq Decision
          /\ \A d \in job[a].lines : file[d] = "applied" /\ done[d] = 0
      BY <1>t, <1>f, <1>11, BusyAlone DEF DrainEnd, JobFits, Job
    <2>2. /\ Become(a, IdleJob) /\ UNCHANGED file /\ TakesEffect(a, job[a].lines)
      BY <1>11 DEF DrainEnd
    <2>3. job'[a] = IdleJob /\ \A b \in Actor \ {a} : job'[b] = job[b]
      BY <1>i, <1>t, <2>2, BecomeType
    <2>4. JobFits(a)'
      BY <2>3 DEF JobFits, IdleJob
    <2>5. \A d \in Decision : FileFits(d)'
      <3> SUFFICES ASSUME NEW d \in Decision PROVE FileFits(d)'
        OBVIOUS
      <3>1. file[d] # "torn" /\ (file[d] = "pending" => done[d] = 0)
        BY <2>1, Settled DEF Untouched
      <3>2. done'[d] <= 1 /\ (d \notin job[a].lines => done'[d] = done[d])
        BY <1>t, <2>1, <2>2 DEF TakesEffect, Serial, FileFits
      <3>3. d \in job[a].lines => file[d] # "pending"
        BY <2>1
      <3>4. QED
        BY <2>2, <3>1, <3>2, <3>3 DEF FileFits
    <2>6. QED
      BY <1>i, <2>1, <2>2, <2>4, <2>5, SerialStep
  <1>12. ASSUME NEW a \in Actor, ApplyFound(a)
         PROVE  Serial'
    <2>1. /\ a \in Operator /\ job[a].cur \in Decision /\ job[a].pc = "apply"
          /\ OthersIdle(a) /\ a \notin Producer
      BY <1>12, BusyAlone, RolesDisjoint
      DEF ApplyFound, Base, Inv, Typed, HandFull, Roles
    <2>2. Untouched(job[a].cur)
      BY <1>f, <2>1, QueueConstants DEF JobFits, InHand
    <2>3. QED
      BY <1>12, <2>1, <2>2, SerialApply DEF ApplyFound
  <1>13. ASSUME NEW a \in Actor, Launch(a)
         PROVE  Serial'
    <2> DEFINE d == job[a].cur
    <2>1. /\ d \in Decision /\ job[a].pc = "launch" /\ OthersIdle(a) /\ UNCHANGED file
      BY <1>13, BusyAlone DEF Launch, Base, Inv, Typed, HandFull
    <2>2. Untouched(d) /\ KindOf[d] = "dispatch_cadence"
      BY <1>f, <2>1, QueueConstants DEF JobFits, InHand
    <2>3. CASE TakesEffect(a, {d}) /\ Become(a, [job[a] EXCEPT !.pc = "retire"])
      <3> DEFINE j == [job[a] EXCEPT !.pc = "retire"]
      <3>1. /\ j \in Job /\ j.pc = "retire" /\ j.cur = d
            /\ j.todo = job[a].todo /\ j.lines = job[a].lines
        BY <1>t DEF Job, Step
      <3>2. Become(a, j)
        BY <2>3
      <3> HIDE DEF j
      <3>3. job'[a] = j /\ \A b \in Actor \ {a} : job'[b] = job[b] /\ job[b] = IdleJob
        BY <1>t, <2>1, <3>1, <3>2, BecomeType DEF OthersIdle
      <3>4. done'[d] = 1 /\ \A e \in Decision \ {d} : done'[e] = done[e]
        BY <1>t, <2>1, <2>2, <2>3 DEF TakesEffect, Untouched
      <3>5. JobFits(a)'
        <4>1. j.lines \subseteq Decision /\ j.todo \subseteq Decision
          BY <3>1 DEF Job
        <4>2. \A e \in j.lines : file[e] = "applied" /\ done'[e] = 0
          BY <1>f, <2>1, <2>2, <3>1, <3>4, <4>1 DEF JobFits, Untouched
        <4>3. \A e \in j.todo \ {d} : IF a \in Collector THEN file[e] \in Status
                                      ELSE file[e] = "pending" /\ done'[e] = 0
          BY <1>f, <3>1, <3>4, <4>1 DEF JobFits, Untouched
        <4>4. InHand(a, d)'
          BY <2>1, <2>2, <3>1, <3>3 DEF InHand, Writing, Untouched
        <4>5. QED
          BY <2>1, <3>1, <3>3, <4>2, <4>3, <4>4 DEF JobFits, Untouched
      <3>6. \A e \in Decision : FileFits(e)'
        <4> SUFFICES ASSUME NEW e \in Decision PROVE FileFits(e)'
          OBVIOUS
        <4>1. CASE e = d
          BY <2>1, <2>2, <3>1, <3>3, <3>4, <4>1 DEF FileFits, Untouched
        <4>2. CASE e # d
          BY <2>1, <3>1, <3>3, <3>4, <4>2 DEF Serial, FileFits, IdleJob
        <4>3. QED
          BY <4>1, <4>2
      <3>7. QED
        BY <2>1, <3>1, <3>2, <3>5, <3>6, SerialStep
    <2>4. CASE Become(a, IdleJob) /\ UNCHANGED <<done, doers>>
      BY <2>1, <2>2, <2>4, SerialIdle DEF Untouched
    <2>5. QED
      BY <1>13, <2>3, <2>4 DEF Launch
  <1>14. ASSUME NEW a \in Actor, Retire(a)
         PROVE  Serial'
    <2>0. PICK d \in Decision : job[a].cur = d
      BY <1>14 DEF Retire, Base, Inv, Typed, HandFull
    <2>1. /\ job[a].pc = "retire" /\ OthersIdle(a)
          /\ UNCHANGED <<file, done>> /\ a \notin Producer
      BY <1>14, BusyAlone, RolesDisjoint DEF Retire, Base, Inv, Roles
    <2>2. file[d] = "pending" /\ KindOf[d] = "dispatch_cadence"
      BY <1>f, <2>0, <2>1, QueueConstants DEF JobFits, InHand
    <2>3. \A e \in Decision : file[e] # "torn"
      BY <2>1 DEF Serial, FileFits, OthersIdle, IdleJob
    <2>4. Settle(a, d, "superseded")
      BY <1>14, <2>0, <2>2, <2>3 DEF Retire, Readable
    <2>5. Earned(d, "superseded")' /\ done'[d] <= 1
      BY <2>1, <2>2 DEF Earned, Serial, FileFits
    <2>6. QED
      BY <1>t, <2>0, <2>1, <2>2, <2>4, <2>5, SerialSettle DEF Terminal
  <1>15. ASSUME NEW a \in Actor, NEW d \in Decision, GcInspect(a, d)
         PROVE  Serial'
    <2>1. /\ job[a].pc = "inspect" /\ d \in job[a].todo /\ OthersIdle(a)
          /\ job[a].cur = NoDecision /\ UNCHANGED <<file, done>>
          /\ a \in Collector /\ a \notin Producer
          /\ \A e \in Decision : job[a].cur # e
      BY <1>f, <1>15, BusyAlone, RolesDisjoint, QueueConstants
      DEF GcInspect, Base, Inv, Roles, JobFits
    <2>2. CASE Become(a, IdleJob)
      BY <2>1, <2>2, SerialIdle
    <2>3. CASE Overdue(a, d) /\ Settle(a, d, "expired")
      <3>1. Untouched(d)
        BY <2>1, <2>3, Settled DEF Overdue
      <3>2. Earned(d, "expired")' /\ done'[d] <= 1
        BY <2>1, <3>1 DEF Earned, Untouched
      <3>3. QED
        BY <1>t, <2>1, <2>3, <3>1, <3>2, SerialSettle DEF Terminal, Untouched
    <2>4. CASE Aged(a, d) /\ Become(a, [job[a] EXCEPT !.pc = "unlink", !.cur = d])
      <3> DEFINE j == [job[a] EXCEPT !.pc = "unlink", !.cur = d]
      <3>1. /\ j \in Job /\ j.pc = "unlink" /\ j.cur = d
            /\ j.todo = job[a].todo /\ j.lines = job[a].lines
        BY <1>t DEF Job, Step
      <3>2. Become(a, j) /\ file[d] \in Terminal
        BY <2>4 DEF Aged
      <3> HIDE DEF j
      <3>3. job'[a] = j
        BY <1>t, <3>1, <3>2, BecomeType
      <3>4. JobFits(a)'
        <4>1. job[a].todo \subseteq Decision
          BY <1>t DEF Job
        <4>2. \A e \in j.todo : file[e] \in Status
          BY <1>f, <2>1, <3>1, <4>1, QueueConstants DEF JobFits
        <4>3. \A e \in j.lines : file[e] = "applied" /\ done[e] = 0
          BY <1>f, <3>1 DEF JobFits
        <4>4. InHand(a, d)'
          BY <2>1, <3>1, <3>2, <3>3 DEF InHand, Writing
        <4>5. QED
          BY <2>1, <3>1, <3>3, <4>2, <4>3, <4>4 DEF JobFits, Untouched
      <3>5. \A e \in Decision : FileFits(e)'
        BY <2>1, <3>1, <3>2, FilesKept
      <3>6. QED
        BY <2>1, <3>1, <3>2, <3>4, <3>5, SerialStep
    <2>5. CASE Become(a, [job[a] EXCEPT !.todo = @ \ {d}])
      <3> DEFINE j == [job[a] EXCEPT !.todo = @ \ {d}]
      <3>1. /\ j \in Job /\ j.pc = "inspect" /\ j.cur = NoDecision
            /\ j.todo \subseteq job[a].todo /\ j.lines = job[a].lines
        BY <1>t, <2>1 DEF Job, Step
      <3>2. Become(a, j)
        BY <2>5
      <3> HIDE DEF j
      <3>3. job'[a] = j
        BY <1>t, <3>1, <3>2, BecomeType
      <3>4. JobFits(a)'
        <4>1. job[a].todo \subseteq Decision
          BY <1>t DEF Job
        <4>2. \A e \in j.todo : file[e] \in Status
          BY <1>f, <2>1, <3>1, <4>1, QueueConstants DEF JobFits
        <4>3. \A e \in j.lines : file[e] = "applied" /\ done[e] = 0
          BY <1>f, <3>1 DEF JobFits
        <4>4. QED
          BY <2>1, <3>1, <3>3, <4>2, <4>3 DEF JobFits, Untouched
      <3>5. \A e \in Decision : FileFits(e)'
        BY <2>1, <3>1, <3>2, FilesKept
      <3>6. QED
        BY <2>1, <3>1, <3>2, <3>4, <3>5, SerialStep
    <2>6. QED
      BY <1>15, <2>2, <2>3, <2>4, <2>5 DEF GcInspect
  <1>16. ASSUME NEW a \in Actor, GcUnlink(a)
         PROVE  Serial'
    <2> DEFINE d == job[a].cur
               next == [job[a] EXCEPT !.pc = "inspect", !.cur = NoDecision,
                                      !.todo = @ \ {d}]
    <2>1. /\ d \in Decision /\ OthersIdle(a) /\ job[a].lines = {} /\ UNCHANGED done
          /\ file' = [file EXCEPT ![d] = "absent"] /\ "absent" \in FileState
      BY <1>16, BusyAlone
      DEF GcUnlink, Base, Inv, Typed, HandFull, LinesInSession, FileState
    <2>2. /\ next \in Job /\ next.pc = "inspect" /\ next.cur = NoDecision
          /\ next.lines = {} /\ next.todo \subseteq job[a].todo /\ d \notin next.todo
      BY <1>t, <2>1 DEF Job, Step
    <2>3. PICK j \in {IdleJob, next} : Become(a, j)
      BY <1>16 DEF GcUnlink
    <2> HIDE DEF next
    <2>4. /\ j \in Job /\ j.lines = {} /\ j.todo \subseteq job[a].todo
          /\ \/ j = IdleJob
             \/ j.pc = "inspect" /\ j.cur = NoDecision /\ d \notin j.todo
      BY <1>i, <2>2, <2>3
    <2>5. QED
      BY <2>1, <2>3, <2>4, SerialWrite
  <1>17. ASSUME NEW a \in Actor, GcEnd(a)
         PROVE  Serial'
    <2>1. /\ Become(a, IdleJob) /\ UNCHANGED <<file, done>> /\ job[a].pc = "inspect"
          /\ OthersIdle(a) /\ \A d \in Decision : job[a].cur # d
      BY <1>f, <1>17, BusyAlone, QueueConstants DEF GcEnd, JobFits
    <2>2. QED
      BY <2>1, SerialIdle
  <1>18. ASSUME NEW a \in Actor, Truncate(a)
         PROVE  Serial'
    <2> DEFINE d == job[a].cur
               j == [job[a] EXCEPT !.pc = "flush"]
    <2>1. /\ d \in Decision /\ OthersIdle(a) /\ job[a].pc = "write" /\ UNCHANGED done
          /\ file' = [file EXCEPT ![d] = "torn"] /\ "torn" \in FileState /\ Become(a, j)
      BY <1>18, BusyAlone DEF Truncate, Base, Inv, Typed, HandFull, FileState
    <2>2. /\ j \in Job /\ j.pc = "flush" /\ j.cur = d /\ j.out = job[a].out
          /\ j.lines = job[a].lines /\ j.todo = job[a].todo
      BY <1>t DEF Job, Step
    <2>3. d \notin job[a].lines
      BY <1>f, <2>1, QueueConstants DEF JobFits, InHand
    <2> HIDE DEF j
    <2>4. QED
      BY <2>1, <2>2, <2>3, SerialWrite
  <1>19. ASSUME NEW a \in Actor, Flush(a)
         PROVE  Serial'
    <2> DEFINE d == job[a].cur
               j == Written(a)
    <2>1. /\ d \in Decision /\ OthersIdle(a) /\ job[a].pc = "flush" /\ UNCHANGED done
          /\ file' = [file EXCEPT ![d] = job[a].out] /\ Become(a, j) /\ Writing(a)
      BY <1>19, BusyAlone DEF Flush, Base, Inv, Typed, HandFull, Writing
    <2>2. InHand(a, d) /\ d \notin job[a].lines
      BY <1>f, <2>1, QueueConstants DEF JobFits, InHand
    <2>3. /\ j \in Job /\ j.todo \subseteq job[a].todo /\ job[a].out \in FileState
          /\ job[a].out # "torn"
      BY <1>t, <2>1, WrittenShape DEF Base, Job, FileState, Status, Terminal
    <2>4. job[a].out = "pending" => done[d] = 0
      BY <2>1, <2>2 DEF InHand, Terminal
    <2>5. CASE a \in Session \cup Supervisor
      <3> DEFINE l == IF job[a].out = "applied" /\ KindOf[d] \in Delivered
                      THEN job[a].lines \cup {d} ELSE job[a].lines
      <3>1. j = [job[a] EXCEPT !.pc = "drain", !.cur = NoDecision,
                               !.todo = job[a].todo \ {d}, !.lines = l]
        BY <2>5, <1>t, RolesDisjoint DEF Written
      <3>2. j.lines = l /\ j.pc = "drain" /\ j.cur = NoDecision /\ d \notin j.todo
        BY <3>1, <1>t DEF Job
      <3>3. a \notin Producer
        BY <2>5, RolesDisjoint
      <3>4. /\ l \subseteq job[a].lines \cup {d}
            /\ d \in l => job[a].out = "applied" /\ done[d] = 0
        BY <2>1, <2>2, <3>3 DEF InHand, Earned
      <3>5. /\ j.lines \subseteq job[a].lines \cup {d}
            /\ d \in j.lines => job[a].out = "applied" /\ done[d] = 0
        BY <3>2, <3>4
      <3> HIDE DEF l, j
      <3>6. QED
        BY <2>1, <2>2, <2>3, <2>4, <3>2, <3>5, SerialWrite
    <2>6. CASE a \in Collector
      <3>1. j = [job[a] EXCEPT !.pc = "inspect", !.cur = NoDecision,
                               !.todo = job[a].todo \ {d}]
        BY <2>6, RolesDisjoint DEF Written
      <3>2. /\ j.lines = job[a].lines /\ j.pc = "inspect" /\ j.cur = NoDecision
            /\ d \notin j.todo
        BY <3>1, <1>t DEF Job
      <3> HIDE DEF j
      <3>3. QED
        BY <2>1, <2>2, <2>3, <2>4, <3>2, SerialWrite
    <2>7. CASE a \in Operator \cup Producer
      <3>1. j = IdleJob
        BY <2>7, RolesDisjoint DEF Written
      <3> HIDE DEF j
      <3>2. QED
        BY <1>i, <2>1, <2>2, <2>3, <2>4, <3>1, SerialWrite
    <2>8. QED
      BY <2>5, <2>6, <2>7 DEF Actor
  <1>20. ASSUME NEW a \in Actor, Crash(a)
         PROVE  Serial'
    BY <1>20 DEF Crash
  <1>21. QED
    BY <1>1, <1>2, <1>3, <1>4, <1>5, <1>6, <1>7, <1>8, <1>9, <1>10, <1>11, <1>12,
       <1>13, <1>14, <1>15, <1>16, <1>17, <1>18, <1>19, <1>20
    DEF Next, Start, Progress

\* The two invariants together, in every reachable state.
THEOREM SerialInvariant ==
    ASSUME MaxActive = 1, CrashProne = {}
    PROVE  Spec => [](Base /\ Serial)
  <1>1. Init => LinesInSession /\ Serial /\ MessagesBySessions /\ DeliveredOrHeld
    BY DEF Init, IdleJob, LinesInSession, MessagesBySessions, DeliveredOrHeld, Serial,
           JobFits, FileFits, Writing
  <1>2. HeldInv /\ [Next]_vars => HeldInv'
    BY HeldInductive
  <1>3. Base /\ Serial /\ [Next]_vars => Serial'
    BY SerialInductive
  <1>4. HeldInv => Base
    BY DEF HeldInv, Base
  <1>5. Inv /\ LinesInSession /\ MessagesBySessions /\ DeliveredOrHeld => HeldInv
    BY DEF HeldInv
  <1>6. QED
    BY <1>1, <1>2, <1>3, <1>4, <1>5, Invariant, PTL DEF Spec

\* With one process at a time and none dying, a decision takes effect at most once.
THEOREM EffectOnce ==
    ASSUME MaxActive = 1, CrashProne = {}
    PROVE  Spec => []EffectAtMostOnce
  <1>1. Base /\ Serial => EffectAtMostOnce
    BY DEF Serial, FileFits, EffectAtMostOnce
  <1>2. QED
    BY <1>1, SerialInvariant, PTL

-----------------------------------------------------------------------------
(* The refinement: what each step is, seen as a step of DecisionLifecycle. *)

Shown == [d \in Decision |-> LifecycleState(d)]

\* A step that a reader of the lifecycle does not see.
LEMMA Unseen ==
    ASSUME Shown' = Shown, UNCHANGED done
    PROVE  [Lifecycle!Next]_(Lifecycle!vars)
  BY DEF Shown, Lifecycle!vars

\* No file changes and no producer moves: the lifecycle states stay.
LEMMA ShownKept ==
    ASSUME UNCHANGED <<file, created>>, \A b \in Producer : job'[b].cur = job[b].cur
    PROVE  Shown' = Shown
  BY DEF Shown, LifecycleState

\* So do they when a process that is no producer moves.
LEMMA ShownKeptBy ==
    ASSUME Base, NEW a \in Actor \ Producer, NEW j, Become(a, j),
           UNCHANGED <<file, created>>
    PROVE  Shown' = Shown
  <1>1. \A b \in Producer : job'[b] = job[b]
    BY DEF Become, Base, Inv, Typed, TypeOK, Actor
  <1>2. QED
    BY <1>1, ShownKept

\* A decision that is in no producer's hand is shown as its file says.
LEMMA ShownAs ==
    ASSUME Base, NEW d \in Decision, \A b \in Producer : job[b].cur # d
    PROVE  /\ file[d] \in Status => Shown[d] = file[d] /\ created[d] # NoDay
           /\ file[d] = "torn" => Shown[d] = "pending" /\ created[d] # NoDay
  <1>1. file[d] # "absent" => created[d] # NoDay
    BY DEF Base, Inv, Fresh
  <1>2. QED
    BY <1>1 DEF Shown, LifecycleState, Status, Terminal

\* An effect of a pending decision is a Perform.
LEMMA EffectSeen ==
    ASSUME NEW d \in Decision, Shown[d] = "pending", done[d] = 0,
           KindOf[d] \in Direct \cup {"dispatch_cadence"},
           done' = [done EXCEPT ![d] = 1], Shown' = Shown
    PROVE  Lifecycle!Next
  <1>1. Lifecycle!Perform(d)
    BY DEF Shown, Lifecycle!Perform
  <1>2. QED
    BY <1>1 DEF Lifecycle!Next

\* One effect of a decision that had none.
LEMMA Once ==
    ASSUME Base, NEW a, NEW d \in Decision, done[d] = 0, TakesEffect(a, {d})
    PROVE  done' = [done EXCEPT ![d] = 1]
  <1>1. done \in [Decision -> 0 .. 2]
    BY DEF Base, Inv, Typed, TypeOK
  <1>2. \A e \in Decision : (IF e \in {d} /\ done[e] < 2 THEN done[e] + 1 ELSE done[e])
                            = [done EXCEPT ![d] = 1][e]
    BY <1>1
  <1>3. [done EXCEPT ![d] = 1] = [e \in Decision |-> [done EXCEPT ![d] = 1][e]]
    BY <1>1
  <1>4. QED
    BY <1>2, <1>3 DEF TakesEffect

\* An application is a Perform, or nothing a reader sees.
LEMMA ApplySeen ==
    ASSUME Base, Serial, NEW a \in Actor \ Producer, NEW d \in Decision, Apply(a, d),
           OthersIdle(a), UNCHANGED <<file, created>>, Untouched(d)
    PROVE  [Lifecycle!Next]_(Lifecycle!vars)
  <1>1. done \in [Decision -> 0 .. 2]
    BY DEF Base, Inv, Typed, TypeOK
  <1>2. Shown' = Shown
    BY ShownKeptBy DEF Apply, Settle
  <1>3. Shown[d] = "pending" /\ done[d] = 0
    <2>1. \A b \in Producer : job[b].cur # d
      BY QueueConstants DEF OthersIdle, IdleJob, Actor
    <2>2. QED
      BY <2>1, ShownAs DEF Untouched, Status
  <1>4. ASSUME NEW D \in {{}, {d}}, TakesEffect(a, D), KindOf[d] \in Direct \/ D = {}
        PROVE  [Lifecycle!Next]_(Lifecycle!vars)
    <2>1. CASE D = {}
      <3>1. done' = done
        BY <1>1, <1>4, <2>1 DEF TakesEffect
      <3>2. QED
        BY <1>2, <3>1, Unseen
    <2>2. CASE D = {d} /\ KindOf[d] \in Direct
      <3>1. done' = [done EXCEPT ![d] = 1]
        BY <1>3, <1>4, <2>2, Once
      <3>2. QED
        BY <1>2, <1>3, <2>2, <3>1, EffectSeen
    <2>3. QED
      BY <1>4, <2>1, <2>2
  <1>5. CASE TakesEffect(a, {d} \cap {e \in Decision : KindOf[e] \in Direct})
    <2> DEFINE D == {d} \cap {e \in Decision : KindOf[e] \in Direct}
    <2>1. D \in {{}, {d}} /\ (KindOf[d] \in Direct \/ D = {})
      OBVIOUS
    <2> HIDE DEF D
    <2>2. QED
      BY <1>4, <1>5, <2>1 DEF D
  <1>6. CASE UNCHANGED <<done, doers>>
    BY <1>2, <1>6, Unseen
  <1>7. CASE KindOf[d] = "approve_push" /\ TakesEffect(a, {d})
    BY <1>4, <1>7 DEF Direct
  <1>8. QED
    BY <1>5, <1>6, <1>7 DEF Apply

\* The file of the decision in hand changes, and nothing else does: only that
\* decision's lifecycle state moves.
LEMMA ShownWrite ==
    ASSUME Base, NEW a \in Actor, NEW j \in Job, Become(a, j), OthersIdle(a),
           NEW d \in Decision, job[a].cur = d, UNCHANGED created,
           \A e \in Decision \ {d} : file'[e] = file[e],
           j.cur \in {d, NoDecision}
    PROVE  /\ \A e \in Decision \ {d} : Shown'[e] = Shown[e]
           /\ a \notin Producer \/ j.cur # d => \A b \in Producer : job'[b].cur # d
           /\ a \in Producer /\ j.cur = d => \E b \in Producer : job'[b].cur = d
  <1>1. job'[a] = j /\ \A b \in Actor \ {a} : job'[b] = job[b] /\ job[b] = IdleJob
    BY BecomeType DEF Base, Inv, Typed, TypeOK, OthersIdle
  <1>3. \A b \in Actor \ {a} : job'[b].cur # d /\ job'[b].cur = job[b].cur
    BY <1>1, QueueConstants DEF IdleJob
  <1>4. ASSUME NEW e \in Decision \ {d}
        PROVE  LifecycleState(e)' = LifecycleState(e)
    <2>1. \A b \in Actor : (job'[b].cur = e) <=> (job[b].cur = e)
      BY <1>1, <1>3, QueueConstants
    <2>2. (\E b \in Producer : job'[b].cur = e) <=> (\E b \in Producer : job[b].cur = e)
      BY <2>1 DEF Actor
    <2>3. QED
      BY <2>2 DEF LifecycleState
  <1>5. QED
    BY <1>1, <1>3, <1>4 DEF Actor, Shown

\* Every step of the queue is a step of the lifecycle, or stutters.
THEOREM StepSeen ==
    ASSUME Base, Serial, [Next]_vars, MaxActive = 1, CrashProne = {}
    PROVE  [Lifecycle!Next]_(Lifecycle!vars)
  <1>t. /\ job \in [Actor -> Job] /\ \A a \in Actor : job[a] \in Job
        /\ file \in [Decision -> FileState] /\ done \in [Decision -> 0 .. 2]
        /\ created \in [Decision -> Day \cup {NoDay}] /\ today \in Day
    BY DEF Base, Inv, Typed, TypeOK
  <1>f. \A a \in Actor : JobFits(a)
    BY DEF Serial
  <1>q. ASSUME NEW a \in Actor \ Producer, NEW j, Become(a, j),
               UNCHANGED <<file, created, done>>
        PROVE  [Lifecycle!Next]_(Lifecycle!vars)
    BY <1>q, ShownKeptBy, Unseen
  <1>1. CASE UNCHANGED vars \/ NextDay
    <2>1. UNCHANGED <<file, created, job, done>>
      BY <1>1 DEF vars, NextDay
    <2>2. QED
      BY <2>1, ShownKept, Unseen
  <1>2. ASSUME NEW a \in Actor, StartSession(a) \/ StartSupervisor(a) \/ StartGc(a)
        PROVE  [Lifecycle!Next]_(Lifecycle!vars)
    BY <1>2, <1>q, RolesDisjoint DEF StartSession, StartSupervisor, StartGc
  <1>3. ASSUME NEW a \in Actor, NEW d \in Decision,
               OperatorApply(a, d) \/ OperatorDismiss(a, d) \/ OperatorDispatch(a, d)
        PROVE  [Lifecycle!Next]_(Lifecycle!vars)
    <2>1. a \notin Producer /\ UNCHANGED <<file, created, done>>
      BY <1>3, RolesDisjoint
      DEF OperatorApply, OperatorDismiss, OperatorDispatch, OperatorFinds
    <2>2. PICK j : Become(a, j)
      BY <1>3 DEF OperatorApply, OperatorDismiss, OperatorDispatch, Settle
    <2>3. QED
      BY <1>q, <2>1, <2>2
  <1>4. ASSUME NEW a \in Actor, NEW d \in Decision, Enqueue(a, d)
        PROVE  [Lifecycle!Next]_(Lifecycle!vars)
    <2>1. /\ a \in Producer /\ UNCHANGED <<file, done>> /\ created[d] = NoDay
          /\ \A e \in Decision \ {d} : created'[e] = created[e]
          /\ job' = [job EXCEPT ![a] =
                       [job[a] EXCEPT !.pc = "write", !.cur = d, !.out = "pending"]]
      BY <1>4, <1>t DEF Enqueue, Settle, Become
    <2>2. \A b \in Actor : job[b].cur = NoDecision
      BY <1>4, StartAlone DEF Enqueue
    <2>3. job'[a].cur = d /\ \A b \in Actor \ {a} : job'[b].cur = NoDecision
      BY <1>t, <2>1, <2>2 DEF Job
    <2>4. ASSUME NEW e \in Decision PROVE LifecycleState(e)' = LifecycleState(e)
      <3>1. CASE e = d
        BY <2>1, <2>3, <3>1 DEF LifecycleState
      <3>2. CASE e # d
        <4>1. \A b \in Producer : job'[b].cur # e /\ job[b].cur # e
          BY <2>2, <2>3, <3>2, QueueConstants DEF Actor
        <4>2. QED
          BY <2>1, <3>2, <4>1 DEF LifecycleState
      <3>3. QED
        BY <3>1, <3>2
    <2>5. Shown' = Shown
      BY <2>4 DEF Shown
    <2>6. QED
      BY <2>1, <2>5, Unseen
  <1>5. ASSUME NEW a \in Actor, DrainNext(a)
        PROVE  [Lifecycle!Next]_(Lifecycle!vars)
    <2>1. /\ job[a].todo \subseteq Decision /\ job[a].cur = NoDecision /\ OthersIdle(a)
          /\ a \notin Producer /\ a \notin Collector
      BY <1>t, <1>f, <1>5, BusyAlone, RolesDisjoint
      DEF DrainNext, Base, Inv, Roles, Job, JobFits
    <2>2. PICK d \in job[a].todo : Apply(a, d)
      BY <1>5 DEF DrainNext
    <2>3. Untouched(d) /\ d \in Decision
      BY <1>f, <2>1, <2>2, QueueConstants DEF JobFits
    <2>4. QED
      BY <1>5, <2>1, <2>2, <2>3, ApplySeen DEF DrainNext
  <1>6. ASSUME NEW a \in Actor, ApplyFound(a)
        PROVE  [Lifecycle!Next]_(Lifecycle!vars)
    <2>1. /\ job[a].cur \in Decision /\ job[a].pc = "apply"
          /\ OthersIdle(a) /\ a \notin Producer
      BY <1>6, BusyAlone, RolesDisjoint
      DEF ApplyFound, Base, Inv, Typed, HandFull, Roles
    <2>2. Untouched(job[a].cur)
      BY <1>f, <2>1, QueueConstants DEF JobFits, InHand
    <2>3. QED
      BY <1>6, <2>1, <2>2, ApplySeen DEF ApplyFound
  <1>7. ASSUME NEW a \in Actor, DrainEnd(a)
        PROVE  [Lifecycle!Next]_(Lifecycle!vars)
    <2>1. /\ a \notin Producer /\ UNCHANGED <<file, created>> /\ Become(a, IdleJob)
          /\ TakesEffect(a, job[a].lines) /\ job[a].lines \in SUBSET Decision
          /\ OthersIdle(a) /\ job[a].cur = NoDecision
      BY <1>t, <1>f, <1>7, BusyAlone, RolesDisjoint
      DEF DrainEnd, Base, Inv, Roles, Job, JobFits
    <2>2. Shown' = Shown
      BY <2>1, ShownKeptBy
    <2>3. \A d \in job[a].lines :
             KindOf[d] \in Delivered /\ file[d] = "applied" /\ done[d] = 0
      BY <1>f DEF JobFits, Base, Inv, Routed
    <2>4. \A b \in Producer, d \in Decision : job[b].cur # d
      BY <2>1, QueueConstants DEF OthersIdle, IdleJob, Actor
    <2>5. \A d \in job[a].lines : Shown[d] = "applied"
      BY <2>1, <2>3, <2>4, ShownAs DEF Status, Terminal
    <2>6. done' = [d \in Decision |-> IF d \in job[a].lines THEN 1 ELSE done[d]]
      BY <1>t, <2>1, <2>3 DEF TakesEffect
    <2>7. Lifecycle!Surface(job[a].lines)
      BY <2>2, <2>3, <2>5, <2>6 DEF Shown, Lifecycle!Surface
    <2>8. QED
      BY <2>1, <2>7 DEF Lifecycle!Next
  <1>8. ASSUME NEW a \in Actor, Launch(a)
        PROVE  [Lifecycle!Next]_(Lifecycle!vars)
    <2> DEFINE d == job[a].cur
    <2>1. /\ d \in Decision /\ job[a].pc = "launch" /\ OthersIdle(a)
          /\ a \notin Producer /\ UNCHANGED <<file, created>>
      BY <1>8, BusyAlone, RolesDisjoint DEF Launch, Base, Inv, Typed, HandFull, Roles
    <2>2. Untouched(d) /\ KindOf[d] = "dispatch_cadence"
      BY <1>f, <2>1, QueueConstants DEF JobFits, InHand
    <2>3. Shown' = Shown
      BY <1>8, <2>1, ShownKeptBy DEF Launch
    <2>4. Shown[d] = "pending"
      <3>1. \A b \in Producer : job[b].cur # d
        BY <2>1, QueueConstants DEF OthersIdle, IdleJob, Actor
      <3>2. QED
        BY <2>1, <2>2, <3>1, ShownAs DEF Untouched, Status
    <2>5. CASE TakesEffect(a, {d})
      <3>1. done' = [done EXCEPT ![d] = 1]
        BY <2>1, <2>2, <2>5, Once DEF Untouched
      <3>2. QED
        BY <2>1, <2>2, <2>3, <2>4, <3>1, EffectSeen DEF Untouched
    <2>6. CASE UNCHANGED <<done, doers>>
      BY <2>3, <2>6, Unseen
    <2>7. QED
      BY <1>8, <2>5, <2>6 DEF Launch
  <1>9. ASSUME NEW a \in Actor, Retire(a)
        PROVE  [Lifecycle!Next]_(Lifecycle!vars)
    <2>1. a \notin Producer /\ UNCHANGED <<file, created, done>>
      BY <1>9, RolesDisjoint DEF Retire, Base, Inv, Roles
    <2>2. PICK j : Become(a, j)
      BY <1>9 DEF Retire, Settle
    <2>3. QED
      BY <1>q, <2>1, <2>2
  <1>10. ASSUME NEW a \in Actor, NEW d \in Decision, GcInspect(a, d)
         PROVE  [Lifecycle!Next]_(Lifecycle!vars)
    <2>1. a \notin Producer /\ UNCHANGED <<file, created, done>>
      BY <1>10, RolesDisjoint DEF GcInspect, Base, Inv, Roles
    <2>2. PICK j : Become(a, j)
      BY <1>10 DEF GcInspect, Settle
    <2>3. QED
      BY <1>q, <2>1, <2>2
  <1>11. ASSUME NEW a \in Actor, GcEnd(a)
         PROVE  [Lifecycle!Next]_(Lifecycle!vars)
    BY <1>11, <1>q, RolesDisjoint DEF GcEnd, Base, Inv, Roles
  <1>12. ASSUME NEW a \in Actor, GcUnlink(a)
         PROVE  [Lifecycle!Next]_(Lifecycle!vars)
    <2>0. PICK d \in Decision : job[a].cur = d
      BY <1>12 DEF GcUnlink, Base, Inv, Typed, HandFull
    <2> DEFINE next == [job[a] EXCEPT !.pc = "inspect", !.cur = NoDecision,
                                      !.todo = @ \ {job[a].cur}]
    <2>1. /\ job[a].pc = "unlink" /\ OthersIdle(a) /\ UNCHANGED <<created, done>>
          /\ file' = [file EXCEPT ![d] = "absent"] /\ "absent" \in FileState
          /\ a \notin Producer
      BY <1>12, <2>0, BusyAlone, RolesDisjoint
      DEF GcUnlink, FileState, Base, Inv, Roles
    <2>2. next \in Job /\ next.cur = NoDecision
      BY <1>t DEF Job, Step
    <2>3. PICK j \in {IdleJob, next} : Become(a, j)
      BY <1>12 DEF GcUnlink
    <2>4. j \in Job /\ j.cur = NoDecision
      <3>1. IdleJob.cur = NoDecision
        BY DEF IdleJob
      <3> HIDE DEF next
      <3>2. QED
        BY <2>2, <2>3, <3>1, IdleType
    <2>5. file[d] \in Terminal
      BY <1>f, <2>0, <2>1, QueueConstants DEF JobFits, InHand
    <2>6. \A b \in Producer : job[b].cur # d
      BY <2>1, QueueConstants DEF OthersIdle, IdleJob, Actor
    <2>7. Shown[d] \in Terminal /\ created[d] # NoDay
      BY <2>5, <2>6, ShownAs DEF Status
    <2>8. /\ \A e \in Decision \ {d} : Shown'[e] = Shown[e]
          /\ \A b \in Producer : job'[b].cur # d
      BY <1>t, <2>0, <2>1, <2>3, <2>4, ShownWrite
    <2>9. LifecycleState(d)' = "pruned"
      BY <1>t, <2>1, <2>7, <2>8 DEF LifecycleState
    <2>10. Shown' = [Shown EXCEPT ![d] = "pruned"]
      BY <2>8, <2>9 DEF Shown
    <2>11. Lifecycle!Prune(d)
      BY <2>1, <2>7, <2>10 DEF Shown, Lifecycle!Prune
    <2>12. QED
      BY <2>11 DEF Lifecycle!Next
  <1>13. ASSUME NEW a \in Actor, Truncate(a)
         PROVE  [Lifecycle!Next]_(Lifecycle!vars)
    <2>0. PICK d \in Decision : job[a].cur = d
      BY <1>13 DEF Truncate, Base, Inv, Typed, HandFull
    <2> DEFINE j == [job[a] EXCEPT !.pc = "flush"]
    <2>1. /\ job[a].pc = "write" /\ OthersIdle(a) /\ UNCHANGED <<created, done>>
          /\ file' = [file EXCEPT ![d] = "torn"] /\ "torn" \in FileState
          /\ Become(a, j)
      BY <1>13, <2>0, BusyAlone DEF Truncate, FileState
    <2>2. j \in Job /\ j.cur = d
      BY <1>t, <2>0 DEF Job, Step
    <2> HIDE DEF j
    <2>3. /\ \A e \in Decision \ {d} : Shown'[e] = Shown[e]
          /\ a \notin Producer => \A b \in Producer : job'[b].cur # d
          /\ a \in Producer => \E b \in Producer : job'[b].cur = d
      BY <1>t, <2>0, <2>1, <2>2, ShownWrite
    <2>4. LifecycleState(d)' = LifecycleState(d)
      <3>1. CASE a \in Producer
        BY <2>0, <2>3, <3>1 DEF LifecycleState
      <3>2. CASE a \notin Producer
        <4>1. file[d] = "pending" /\ file'[d] = "torn"
          BY <1>t, <1>f, <2>0, <2>1, <3>2, QueueConstants DEF JobFits, InHand
        <4>2. \A b \in Producer : job[b].cur # d
          BY <2>1, <3>2, QueueConstants DEF OthersIdle, IdleJob, Actor
        <4>3. QED
          BY <2>1, <2>3, <3>2, <4>1, <4>2 DEF LifecycleState
      <3>3. QED
        BY <3>1, <3>2
    <2>5. Shown' = Shown
      BY <2>3, <2>4 DEF Shown
    <2>6. QED
      BY <2>1, <2>5, Unseen
  <1>14. ASSUME NEW a \in Actor, Flush(a)
         PROVE  [Lifecycle!Next]_(Lifecycle!vars)
    <2>0. PICK d \in Decision, v \in FileState : job[a].cur = d /\ job[a].out = v
      BY <1>14, <1>t DEF Flush, Base, Inv, Typed, HandFull, Job, FileState
    <2> DEFINE j == Written(a)
    <2>1. /\ job[a].pc = "flush" /\ OthersIdle(a) /\ UNCHANGED <<created, done>>
          /\ file' = [file EXCEPT ![d] = v] /\ Become(a, j) /\ Writing(a)
      BY <1>14, <2>0, BusyAlone DEF Flush, Writing
    <2>2. j \in Job /\ j.cur = NoDecision
      BY <2>1, WrittenShape DEF Base
    <2> HIDE DEF j
    <2>3. /\ \A e \in Decision \ {d} : Shown'[e] = Shown[e]
          /\ \A b \in Producer : job'[b].cur # d
      BY <1>t, <2>0, <2>1, <2>2, QueueConstants, ShownWrite
    <2>4. InHand(a, d) /\ file[d] = "torn" /\ file'[d] = v
      BY <1>t, <1>f, <2>0, <2>1, QueueConstants DEF JobFits, InHand
    <2>5. created[d] # NoDay
      BY <2>4 DEF Base, Inv, Fresh
    <2>6. v \in Status => LifecycleState(d)' = v
      BY <2>1, <2>3, <2>4, <2>5 DEF LifecycleState, Status, Terminal
    <2>7. v \in Status => Shown' = [Shown EXCEPT ![d] = v]
      BY <2>3, <2>6 DEF Shown
    <2>8. CASE a \in Producer
      <3>1. v = "pending"
        BY <2>0, <2>1, <2>4, <2>8 DEF InHand
      <3>2. Shown[d] = "absent"
        BY <2>0, <2>8 DEF Shown, LifecycleState
      <3>3. Lifecycle!Enqueue(d)
        BY <2>1, <2>7, <3>1, <3>2 DEF Shown, Lifecycle!Enqueue, Status
      <3>4. QED
        BY <3>3 DEF Lifecycle!Next
    <2>9. CASE a \notin Producer
      <3>1. v \in Terminal /\ Earned(d, v)
        BY <2>0, <2>1, <2>4, <2>9 DEF InHand
      <3>2. \A b \in Producer : job[b].cur # d
        BY <2>1, <2>9, QueueConstants DEF OthersIdle, IdleJob, Actor
      <3>3. Shown[d] = "pending"
        BY <2>4, <3>2, ShownAs
      <3>4. Shown' = [Shown EXCEPT ![d] = v]
        BY <2>7, <3>1 DEF Status
      <3>5. Lifecycle!Settle(d, v)
        BY <2>1, <3>1, <3>3, <3>4 DEF Shown, Lifecycle!Settle, Earned
      <3>6. QED
        BY <3>1, <3>5 DEF Lifecycle!Next
    <2>10. QED
      BY <2>8, <2>9
  <1>15. ASSUME NEW a \in Actor, Crash(a)
         PROVE  [Lifecycle!Next]_(Lifecycle!vars)
    BY <1>15 DEF Crash
  <1>16. QED
    BY <1>1, <1>2, <1>3, <1>4, <1>5, <1>6, <1>7, <1>8, <1>9, <1>10, <1>11, <1>12,
       <1>13, <1>14, <1>15
    DEF Next, Start, Progress

\* The queue implements the lifecycle SPEC 18 promises, for every set of decisions and
\* processes, as long as these run one at a time and none of them dies.
THEOREM LifecycleImplemented ==
    ASSUME MaxActive = 1, CrashProne = {}
    PROVE  Spec => ImplementsLifecycle
  <1>1. Init => Lifecycle!Init
    BY DEF Init, Lifecycle!Init, LifecycleState
  <1>2. Base /\ Serial /\ [Next]_vars => [Lifecycle!Next]_(Lifecycle!vars)
    BY StepSeen
  <1>3. QED
    BY <1>1, <1>2, SerialInvariant, PTL DEF Spec, ImplementsLifecycle, Lifecycle!Spec
=============================================================================
