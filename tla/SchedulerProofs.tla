---------------------------- MODULE SchedulerProofs ----------------------------
(***************************************************************************)
(* Proofs about Scheduler, for any loops, schedules, timeouts and budgets, *)
(* any number of ticks and dashboard processes launching at once, and any  *)
(* of them dying anywhere.  They rest on the two timing assumptions that   *)
(* TimePasses states: the alarm and TicksAreShort.                         *)
(***************************************************************************)
EXTENDS Scheduler, TLAPS

\* What holds of a launcher's record j, given the runs rn, the lock table lk and the
\* time now.
JobFit(p, j, rn, lk, now) ==
    /\ j.pc # "idle" => j.now \in Time /\ j.now <= now /\ now <= j.now + Grace
    /\ j.pc \in {"check", "stamp", "free"} =>
          /\ j.cur \in Run
          /\ rn[j.cur].shell \in {"zombie", "gone", "killed"}
          /\ rn[j.cur].loop \in Loop
          /\ j.now - rn[j.cur].started >= Budget[rn[j.cur].loop]
    /\ j.pc \in {"lock", "spawn", "note", "append"} => j.loop \in Loop
    /\ j.pc \in {"spawn", "note", "append"} => j.cur \in Run
    /\ j.pc = "spawn" =>
          /\ rn[j.cur].loop = j.loop /\ rn[j.cur].by = p
          /\ rn[j.cur].shell = "none"
          /\ lk[KeyOf[j.loop]].run = j.cur
          /\ lk[KeyOf[j.loop]].expires = j.now + Timeout[j.loop] + Grace

\* What holds of the state x of run r.
RunFit(r, x, lk, now) ==
    /\ x.shell # "none" => x.loop \in Loop /\ x.started \in Time /\ x.born \in Time
    /\ x.shell = "none" => x.agent = "none" /\ x.hookAt = NoTime /\ x.shellAt = NoTime
    /\ x.shellAt # NoTime => x.agent = "done"
    /\ x.agent = "working" =>
          x.shell \in {"alive", "killed"} /\ now <= x.born + Timeout[x.loop]
    /\ x.agent = "working" /\ x.shell = "alive" =>
          /\ lk[KeyOf[x.loop]].run = r
          /\ x.born + Timeout[x.loop] <= lk[KeyOf[x.loop]].expires
          /\ x.tree # "removed"

Jobs == \A p \in Launcher : JobFit(p, job[p], run, lock, clock)
Runs == \A r \in Run : RunFit(r, run[r], lock, clock)
Blank == \A r \in Run : run[r].shell = "none" => receipts[r] = {}

Inv == TypeOK /\ Jobs /\ Runs /\ Blank /\ StoppedIsOver

\* While an agent works and its bash lives, its run holds its lock: so two of them
\* have different keys.
LEMMA HoldersDiffer == Inv => SharedOnlyAfterStop
  <1> SUFFICES ASSUME Inv, NEW r \in Run, NEW s \in Run, Working(r), Working(s),
                      KeyOfRun(r) = KeyOfRun(s),
                      run[r].shell # "killed", run[s].shell # "killed"
               PROVE  r = s
    BY DEF SharedOnlyAfterStop
  <1>1. lock[KeyOfRun(r)].run = r /\ lock[KeyOfRun(s)].run = s
    BY DEF Inv, Runs, RunFit, Working, KeyOfRun
  <1>2. QED
    BY <1>1

\* The invariant says that a worktree goes under an agent only after a budget stop.
LEMMA TreesKept == Inv => TreeRemovedOnlyAfterStop
  BY DEF Inv, Runs, RunFit, TreeRemovedOnlyAfterStop, Working

-----------------------------------------------------------------------------
(* Types *)

\* Replacing one launcher's record.
LEMMA BecomeType ==
    ASSUME job \in [Launcher -> Job], NEW p \in Launcher, NEW j \in Job, Become(p, j)
    PROVE  /\ job' \in [Launcher -> Job] /\ job'[p] = j
           /\ \A q \in Launcher \ {p} : job'[q] = job[q]
  BY DEF Become

\* An idle launcher has a job of the right type.
LEMMA IdleType == IdleJob \in Job /\ IdleJob.pc = "idle"
  BY DEF IdleJob, Job

\* The record _launch_run leaves behind.
LEMMA ReturnType ==
    ASSUME NEW p \in Launcher, NEW j \in Job, job \in [Launcher -> Job], Return(p, j)
    PROVE  /\ job' \in [Launcher -> Job]
           /\ \A q \in Launcher \ {p} : job'[q] = job[q]
           /\ job'[p].pc = "idle" \/ (job'[p].pc = "fire" /\ job'[p].now = j.now)
  <1> DEFINE k == [j EXCEPT !.pc = "fire", !.due = @ \ {j.loop}, !.keep = {},
                            !.loop = NoLoop, !.cur = NoRun]
  <1>1. k \in Job /\ k.pc = "fire" /\ k.now = j.now
    BY DEF Job
  <1>2. CASE p \in Ticker
    BY <1>1, <1>2, BecomeType DEF Return
  <1>3. CASE p \notin Ticker
    BY <1>3, IdleType, BecomeType DEF Return
  <1>4. QED
    BY <1>2, <1>3

\* A receipt is added, and only to its run.
LEMMA WrittenType ==
    ASSUME receipts \in [Run -> SUBSET Receipt], NEW r \in Run, NEW e \in Time,
           NEW s \in {"built", "stopped"}, Written(r, e, s)
    PROVE  /\ receipts' \in [Run -> SUBSET Receipt]
           /\ \A q \in Run \ {r} : receipts'[q] = receipts[q]
           /\ \A c \in receipts'[r] : c \in receipts[r] \/ c = [ended |-> e, status |-> s]
  <1>1. [ended |-> e, status |-> s] \in Receipt
    BY DEF Receipt
  <1>2. QED
    BY <1>1 DEF Written

\* Firings stay counted up to two.
LEMMA FiresType ==
    ASSUME fired \in [Loop -> [Time -> 0 .. 2]], NEW l \in Loop, NEW now, Fires(l, now)
    PROVE  fired' \in [Loop -> [Time -> 0 .. 2]]
  <1>1. [t \in Time |-> IF IsLatest(l, t, now) /\ fired[l][t] < 2
                        THEN fired[l][t] + 1 ELSE fired[l][t]] \in [Time -> 0 .. 2]
    OBVIOUS
  <1>2. QED
    BY <1>1 DEF Fires

-----------------------------------------------------------------------------
(* Steps that take no lock and let no time pass *)

Ended == {"zombie", "gone", "killed"}

\* What a run keeps while it ages.
Kept(r) ==
    /\ run'[r].loop = run[r].loop /\ run'[r].by = run[r].by
    /\ run'[r].started = run[r].started
    /\ run'[r].shell = "none" <=> run[r].shell = "none"
    /\ run[r].shell \in Ended => run'[r].shell \in Ended

\* What is filed about it meanwhile.
Filed(r) ==
    \/ receipts'[r] = receipts[r]
    \/ /\ run[r].shell # "none"
       /\ \A c \in receipts'[r] :
             c \in receipts[r] \/
             (c.status = "stopped" => c.ended - run[r].started >= Budget[run[r].loop])

\* A step at the same time that keeps every job and run as the invariant wants them keeps it.
LEMMA AgingStep ==
    ASSUME Inv, TypeOK', UNCHANGED <<clock, lock>>,
           \A q \in Launcher : job'[q] = job[q] \/ JobFit(q, job'[q], run', lock, clock),
           \A r \in Run : Kept(r) /\ Filed(r) /\ RunFit(r, run'[r], lock, clock)
    PROVE  Inv'
  <1>1. Jobs'
    <2> SUFFICES ASSUME NEW q \in Launcher
                 PROVE  JobFit(q, job'[q], run', lock, clock)
      BY DEF Jobs
    <2>1. CASE job'[q] = job[q]
      <3>1. JobFit(q, job[q], run, lock, clock)
        BY DEF Inv, Jobs
      <3>2. QED
        BY <2>1, <3>1 DEF JobFit, Kept, Ended
    <2>2. QED
      BY <2>1
  <1>2. Runs'
    BY DEF Runs
  <1>3. Blank'
    BY DEF Inv, Blank, Kept, Filed
  <1>4. StoppedIsOver'
    BY DEF Inv, StoppedIsOver, Kept, Filed
  <1>5. QED
    BY <1>1, <1>2, <1>3, <1>4 DEF Inv

\* A launcher moves on, alone.
LEMMA LauncherStep ==
    ASSUME Inv, TypeOK', UNCHANGED <<clock, lock, run, receipts>>, NEW p \in Launcher,
           \A q \in Launcher \ {p} : job'[q] = job[q],
           JobFit(p, job'[p], run, lock, clock)
    PROVE  Inv'
  <1>1. \A q \in Launcher : job'[q] = job[q] \/ JobFit(q, job'[q], run', lock, clock)
    OBVIOUS
  <1>2. \A r \in Run : Kept(r) /\ Filed(r) /\ RunFit(r, run'[r], lock, clock)
    BY DEF Inv, Runs, Kept, Filed, Ended
  <1>3. QED
    BY <1>1, <1>2, AgingStep

\* One run ages, alone.
LEMMA RunAges ==
    ASSUME Inv, TypeOK', UNCHANGED <<clock, lock, job>>, NEW r \in Run,
           \A s \in Run \ {r} : run'[s] = run[s] /\ receipts'[s] = receipts[s],
           Kept(r), Filed(r), RunFit(r, run'[r], lock, clock)
    PROVE  Inv'
  <1>1. \A s \in Run : Kept(s) /\ Filed(s) /\ RunFit(s, run'[s], lock, clock)
    BY DEF Inv, Runs, Kept, Filed, Ended
  <1>2. QED
    BY <1>1, AgingStep

\* A launcher that has nothing in hand is fit.
LEMMA IdleFits ==
    ASSUME NEW p \in Launcher, NEW j, NEW rn, NEW lk, NEW now, j.pc = "idle"
    PROVE  JobFit(p, j, rn, lk, now)
  BY DEF JobFit

\* So is one that has only its time.
LEMMA TimedFits ==
    ASSUME NEW p \in Launcher, NEW j, NEW rn, NEW lk, NEW now,
           j.pc \in {"reap", "fire"} \/ (j.pc = "lock" /\ j.loop \in Loop),
           j.now \in Time /\ j.now <= now /\ now <= j.now + Grace
    PROVE  JobFit(p, j, rn, lk, now)
  BY DEF JobFit

-----------------------------------------------------------------------------
(* Types, step by step *)

\* The steps of a tick keep the types.
LEMMA TickTypes ==
    ASSUME Inv, NEW p \in Launcher,
           \/ TickStart(p)
           \/ \E r \in Run : ReapKeep(p, r)
           \/ ReapCheck(p) \/ ReapSave(p) \/ TickEnd(p) \/ Crash(p) \/ RecordRead(p)
           \/ \E l \in Loop : FireLaunch(p, l) \/ RequestLaunch(p, l)
    PROVE  TypeOK'
  <1> USE DEF TypeOK
  <1>0. job \in [Launcher -> Job] /\ job[p] \in Job
    BY DEF Inv
  <1>1. CASE TickStart(p)
    <2>1. clock - 1 \in Time \cup {NoTime}
      BY SchedulerConstants DEF Inv, Time, NoTime
    <2>2. [IdleJob EXCEPT !.pc = "reap", !.now = clock, !.todo = registry,
             !.since = IF watermark = NoTime THEN clock - 1 ELSE watermark] \in Job
      BY <2>1, IdleType DEF Job, Inv
    <2>3. QED
      BY <1>0, <1>1, <2>2, BecomeType DEF TickStart, Inv
  <1>2. ASSUME NEW r \in Run, ReapKeep(p, r) PROVE TypeOK'
    <2>1. [job[p] EXCEPT !.todo = @ \ {r}, !.keep = @ \cup {r}] \in Job
      BY <1>0 DEF Job
    <2>2. QED
      BY <1>0, <1>2, <2>1, BecomeType DEF ReapKeep, Inv
  <1>3. CASE ReapCheck(p)
    <2>1. \A s \in {"stamp", "free"} : [job[p] EXCEPT !.pc = s] \in Job
      BY <1>0 DEF Job
    <2>2. QED
      BY <1>0, <1>3, <2>1, BecomeType DEF ReapCheck, Inv
  <1>4. CASE ReapSave(p)
    <2>1. Due(job[p].since, job[p].now) \subseteq Loop
      BY DEF Due
    <2>2. [job[p] EXCEPT !.pc = "fire", !.keep = {},
             !.due = Due(job[p].since, job[p].now)] \in Job /\ job[p].keep \subseteq Run
      BY <1>0, <2>1 DEF Job
    <2>3. QED
      BY <1>0, <1>4, <2>2, BecomeType DEF ReapSave, Inv
  <1>5. CASE TickEnd(p)
    BY <1>0, <1>5, IdleType, BecomeType DEF TickEnd, Inv, Job
  <1>6. CASE Crash(p)
    <2>1. run' \in [Run -> RunState]
      <3>1. \A x \in RunState : [x EXCEPT !.shell = "gone"] \in RunState
        BY DEF RunState
      <3>2. \A r \in Run : run[r] \in RunState
        BY DEF Inv
      <3>3. QED
        BY <1>6, <3>1, <3>2 DEF Crash
    <2>2. registry' \in SUBSET Run /\ watermark' \in Time \cup {NoTime}
      BY <1>6 DEF Crash, Inv
    <2>3. QED
      BY <1>0, <1>6, <2>1, <2>2, IdleType, BecomeType DEF Crash, Inv
  <1>7. CASE RecordRead(p)
    <2>1. [job[p] EXCEPT !.pc = "append", !.keep = registry] \in Job
      BY <1>0 DEF Job, Inv
    <2>2. QED
      BY <1>0, <1>7, <2>1, BecomeType DEF RecordRead, Inv
  <1>8. ASSUME NEW l \in Loop, FireLaunch(p, l) PROVE TypeOK'
    <2>1. [job[p] EXCEPT !.pc = "lock", !.loop = l] \in Job
      BY <1>0 DEF Job
    <2>2. QED
      BY <1>0, <1>8, <2>1, BecomeType DEF FireLaunch, Inv
  <1>9. ASSUME NEW l \in Loop, RequestLaunch(p, l) PROVE TypeOK'
    <2>1. [IdleJob EXCEPT !.pc = "lock", !.now = clock, !.loop = l] \in Job
      BY IdleType DEF Job, Inv
    <2>2. QED
      BY <1>0, <1>9, <2>1, BecomeType DEF RequestLaunch, Inv
  <1>10. QED
    BY <1>1, <1>2, <1>3, <1>4, <1>5, <1>6, <1>7, <1>8, <1>9

\* The steps of a launch keep the types.
LEMMA LaunchTypes ==
    ASSUME Inv, NEW p \in Launcher,
           \/ \E l \in Loop : FireQueued(p, l)
           \/ LaunchSkips(p) \/ LaunchRaises(p) \/ Spawn(p) \/ RecordWrite(p)
           \/ \E r \in Run : LaunchLocks(p, r)
    PROVE  TypeOK'
  <1> USE DEF TypeOK
  <1>0. job \in [Launcher -> Job] /\ job[p] \in Job
    BY DEF Inv
  <1>1. ASSUME NEW l \in Loop, FireQueued(p, l) PROVE TypeOK'
    <2>1. [job[p] EXCEPT !.due = @ \ {l}] \in Job
      BY <1>0 DEF Job
    <2>2. fired' \in [Loop -> [Time -> 0 .. 2]]
      BY <1>1, FiresType DEF FireQueued, Inv
    <2>3. QED
      BY <1>0, <1>1, <2>1, <2>2, BecomeType DEF FireQueued, Inv
  <1>2. CASE LaunchSkips(p)
    BY <1>0, <1>2, ReturnType DEF LaunchSkips, Inv
  <1>3. CASE LaunchRaises(p)
    <2>1. \A x \in RunState, t \in {"none", "there"} : [x EXCEPT !.tree = t] \in RunState
      BY DEF RunState
    <2>2. PICK t \in {"none", "there"} : run' = [run EXCEPT ![job[p].cur].tree = t]
      BY <1>3 DEF LaunchRaises, TreeMade
    <2>4. run' \in [Run -> RunState]
      BY <2>1, <2>2 DEF Inv
    <2>3. QED
      BY <1>0, <1>3, <2>4, IdleType, BecomeType DEF LaunchRaises, Inv
  <1>4. CASE Spawn(p)
    <2>1. PICK t \in TreeMade(job[p].loop) :
             /\ run' = [run EXCEPT ![job[p].cur].started = job[p].now,
                                   ![job[p].cur].born = clock,
                                   ![job[p].cur].shell = "alive",
                                   ![job[p].cur].agent = "working",
                                   ![job[p].cur].tree = t]
             /\ Become(p, [job[p] EXCEPT !.pc = "note"]) \/ Return(p, job[p])
      BY <1>4 DEF Spawn
    <2>2. job[p].cur \in Run /\ job[p].loop \in Loop /\ job[p].now \in Time
      BY <1>4 DEF Spawn, Inv, Jobs, JobFit
    <2>3. t \in {"none", "there"}
      BY DEF TreeMade
    <2>4. \A x \in RunState :
             [x EXCEPT !.started = job[p].now, !.born = clock, !.shell = "alive",
                       !.agent = "working", !.tree = t] \in RunState
      BY <2>2, <2>3 DEF RunState, Inv
    <2>5. run' \in [Run -> RunState]
      BY <2>1, <2>2, <2>4 DEF Inv
    <2>6. [job[p] EXCEPT !.pc = "note"] \in Job
      BY <1>0 DEF Job
    <2>7. job' \in [Launcher -> Job]
      BY <1>0, <2>1, <2>6, BecomeType, ReturnType
    <2>8. fired' \in [Loop -> [Time -> 0 .. 2]]
      BY <1>4, <2>2, FiresType DEF Spawn, Inv
    <2>9. QED
      BY <1>4, <2>5, <2>7, <2>8 DEF Spawn, Inv
  <1>5. CASE RecordWrite(p)
    <2>1. registry' \in SUBSET Run
      BY <1>0, <1>5 DEF RecordWrite, Inv, Job, Jobs, JobFit
    <2>2. QED
      BY <1>0, <1>5, <2>1, ReturnType DEF RecordWrite, Inv
  <1>6. ASSUME NEW r \in Run, LaunchLocks(p, r) PROVE TypeOK'
    <2>1. job[p].loop \in Loop /\ job[p].now \in Time
      BY <1>6 DEF LaunchLocks, Inv, Jobs, JobFit
    <2>2. job[p].now + Timeout[job[p].loop] + Grace \in Nat
      BY <2>1, SchedulerConstants DEF Time
    <2>3. lock' \in [Key -> [run : Run \cup {NoRun}, expires : Nat \cup {NoTime}]]
      BY <1>6, <2>2 DEF LaunchLocks, Inv
    <2>4. \A x \in RunState : [x EXCEPT !.loop = job[p].loop, !.by = p] \in RunState
      BY <2>1 DEF RunState
    <2>5. run' \in [Run -> RunState]
      BY <1>6, <2>4 DEF LaunchLocks, Inv
    <2>6. [job[p] EXCEPT !.pc = "spawn", !.cur = r] \in Job
      BY <1>0 DEF Job
    <2>7. QED
      BY <1>0, <1>6, <2>3, <2>5, <2>6, BecomeType DEF LaunchLocks, Inv
  <1>7. QED
    BY <1>1, <1>2, <1>3, <1>4, <1>5, <1>6

\* The steps of a reap keep the types.
LEMMA ReapTypes ==
    ASSUME Inv, NEW p \in Launcher,
           \/ \E r \in Run : ReapFinished(p, r) \/ ReapTerminate(p, r)
           \/ ReapStamp(p) \/ ReapFree(p)
    PROVE  TypeOK'
  <1> USE DEF TypeOK
  <1>0. job \in [Launcher -> Job] /\ job[p] \in Job
    BY DEF Inv
  <1>1. \A x \in RunState : /\ [x EXCEPT !.tree = "removed"] \in RunState
                             /\ [x EXCEPT !.tree = x.tree] \in RunState
                             /\ [x EXCEPT !.shell = "killed"] \in RunState
                             /\ [x EXCEPT !.shell = x.shell] \in RunState
    BY DEF RunState
  <1>2. ASSUME NEW r \in Run, ReapFinished(p, r) PROVE TypeOK'
    <2>1. run' \in [Run -> RunState]
      BY <1>1, <1>2 DEF ReapFinished, Inv
    <2>2. requests' \in [Run -> 0 .. 2]
      BY <1>2 DEF ReapFinished, Inv
    <2>3. [job[p] EXCEPT !.todo = @ \ {r}] \in Job
      BY <1>0 DEF Job
    <2>4. QED
      BY <1>0, <1>2, <2>1, <2>2, <2>3, BecomeType DEF ReapFinished, Inv
  <1>3. ASSUME NEW r \in Run, ReapTerminate(p, r) PROVE TypeOK'
    <2>1. run' \in [Run -> RunState]
      BY <1>1, <1>3 DEF ReapTerminate, Inv
    <2>2. [job[p] EXCEPT !.pc = "check", !.cur = r] \in Job
      BY <1>0 DEF Job
    <2>3. QED
      BY <1>0, <1>3, <2>1, <2>2, BecomeType DEF ReapTerminate, Inv
  <1>4. CASE ReapStamp(p)
    <2>1. job[p].cur \in Run /\ job[p].now \in Time
      BY <1>4 DEF ReapStamp, Inv, Jobs, JobFit
    <2>2. receipts' \in [Run -> SUBSET Receipt]
      BY <1>4, <2>1, WrittenType DEF ReapStamp, Inv
    <2>3. [job[p] EXCEPT !.pc = "free"] \in Job
      BY <1>0 DEF Job
    <2>4. QED
      BY <1>0, <1>4, <2>2, <2>3, BecomeType DEF ReapStamp, Inv
  <1>5. CASE ReapFree(p)
    <2>1. job[p].cur \in Run
      BY <1>5 DEF ReapFree, Inv, Jobs, JobFit
    <2>2. run' \in [Run -> RunState]
      BY <1>1, <1>5, <2>1 DEF ReapFree, Inv
    <2>3. lock' \in [Key -> [run : Run \cup {NoRun}, expires : Nat \cup {NoTime}]]
      BY <1>5 DEF ReapFree, Inv, Free
    <2>4. [job[p] EXCEPT !.pc = "reap", !.cur = NoRun, !.todo = @ \ {job[p].cur}] \in Job
      BY <1>0 DEF Job
    <2>5. QED
      BY <1>0, <1>5, <2>2, <2>3, <2>4, BecomeType DEF ReapFree, Inv
  <1>6. QED
    BY <1>2, <1>3, <1>4, <1>5

\* The steps of a run keep the types.
LEMMA RunTypes ==
    ASSUME Inv, NEW r \in Run, RunStep(r) \/ AgentCommits(r)
    PROVE  TypeOK'
  <1> USE DEF TypeOK
  <1>1. run[r] \in RunState
    BY DEF Inv
  <1>2. CASE HookLooks(r)
    <2>1. [run[r] EXCEPT !.hookAt = clock] \in RunState
      BY <1>1 DEF RunState, Inv
    <2>2. QED
      BY <1>2, <2>1 DEF HookLooks, Inv
  <1>3. CASE HookWrites(r)
    <2>1. run[r].hookAt \in Time
      BY <1>1, <1>3 DEF HookWrites, RunState
    <2>2. receipts' \in [Run -> SUBSET Receipt]
      BY <1>3, <2>1, WrittenType DEF HookWrites, Inv
    <2>3. [run[r] EXCEPT !.hookAt = NoTime] \in RunState
      BY <1>1 DEF RunState
    <2>4. QED
      BY <1>3, <2>2, <2>3 DEF HookWrites, Inv
  <1>4. CASE AgentEnds(r)
    <2>1. [run[r] EXCEPT !.agent = "done"] \in RunState
      BY <1>1 DEF RunState
    <2>2. QED
      BY <1>4, <2>1 DEF AgentEnds, Inv
  <1>5. CASE ShellLooks(r)
    <2>1. /\ [run[r] EXCEPT !.shell = Exited(r)] \in RunState
          /\ [run[r] EXCEPT !.shellAt = clock] \in RunState
      BY <1>1 DEF RunState, Exited, Inv
    <2>2. QED
      BY <1>5, <2>1 DEF ShellLooks, Inv
  <1>6. CASE ShellWrites(r)
    <2>1. run[r].shellAt \in Time
      BY <1>1, <1>6 DEF ShellWrites, RunState
    <2>2. receipts' \in [Run -> SUBSET Receipt]
      BY <1>6, <2>1, WrittenType DEF ShellWrites, Inv
    <2>3. \A s \in {run[r].shell, Exited(r)} :
             [run[r] EXCEPT !.shellAt = NoTime, !.shell = s] \in RunState
      BY <1>1 DEF RunState, Exited
    <2>4. run' \in [Run -> RunState]
      BY <1>6, <2>3 DEF ShellWrites, Inv
    <2>5. QED
      BY <1>6, <2>2, <2>4 DEF ShellWrites, Inv
  <1>7. CASE AgentCommits(r)
    <2>1. run[r].loop \in Loop
      BY <1>7, SchedulerConstants DEF AgentCommits
    <2>2. QED
      BY <1>7, <2>1 DEF AgentCommits, Inv
  <1>8. QED
    BY <1>2, <1>3, <1>4, <1>5, <1>6, <1>7 DEF RunStep

-----------------------------------------------------------------------------
(* The invariant, step by step: steps of a launcher that touch no run *)

\* The steps of a tick that touch no run keep the invariant.
LEMMA TickInv ==
    ASSUME Inv, NEW p \in Launcher,
           \/ TickStart(p)
           \/ \E r \in Run : ReapKeep(p, r)
           \/ ReapCheck(p) \/ ReapSave(p) \/ TickEnd(p) \/ RecordRead(p)
           \/ \E l \in Loop : FireLaunch(p, l) \/ RequestLaunch(p, l)
    PROVE  Inv'
  <1>0. /\ TypeOK' /\ job \in [Launcher -> Job] /\ job[p] \in Job
        /\ clock \in Time /\ Grace \in Nat
    BY TickTypes, SchedulerConstants DEF Inv, TypeOK
  <1>f. JobFit(p, job[p], run, lock, clock)
    BY DEF Inv, Jobs
  <1>n. clock <= clock /\ clock <= clock + Grace
    BY <1>0 DEF Time
  <1>1. CASE TickStart(p)
    <2>1. /\ job'[p].pc = "reap" /\ job'[p].now = clock
          /\ \A q \in Launcher \ {p} : job'[q] = job[q]
      BY <1>0, <1>1 DEF TickStart, Become, IdleJob
    <2>2. JobFit(p, job'[p], run, lock, clock)
      BY <1>0, <1>n, <2>1, TimedFits
    <2>3. QED
      BY <1>0, <1>1, <2>1, <2>2, LauncherStep DEF TickStart
  <1>2. ASSUME NEW r \in Run, ReapKeep(p, r) PROVE Inv'
    <2>1. /\ job'[p].pc = "reap" /\ job'[p].now = job[p].now
          /\ \A q \in Launcher \ {p} : job'[q] = job[q]
      BY <1>0, <1>2 DEF ReapKeep, Become, Job
    <2>2. JobFit(p, job'[p], run, lock, clock)
      BY <1>2, <1>f, <2>1, TimedFits DEF ReapKeep, JobFit
    <2>3. QED
      BY <1>0, <1>2, <2>1, <2>2, LauncherStep DEF ReapKeep
  <1>3. CASE ReapCheck(p)
    <2>1. /\ job'[p].pc \in {"stamp", "free"}
          /\ job'[p].now = job[p].now /\ job'[p].cur = job[p].cur
          /\ \A q \in Launcher \ {p} : job'[q] = job[q]
      BY <1>0, <1>3 DEF ReapCheck, Become, Job
    <2>2. JobFit(p, job'[p], run, lock, clock)
      BY <1>3, <1>f, <2>1 DEF ReapCheck, JobFit
    <2>3. QED
      BY <1>0, <1>3, <2>1, <2>2, LauncherStep DEF ReapCheck
  <1>4. CASE ReapSave(p)
    <2>1. /\ job'[p].pc = "fire" /\ job'[p].now = job[p].now
          /\ \A q \in Launcher \ {p} : job'[q] = job[q]
      BY <1>0, <1>4 DEF ReapSave, Become, Job
    <2>2. JobFit(p, job'[p], run, lock, clock)
      BY <1>4, <1>f, <2>1, TimedFits DEF ReapSave, JobFit
    <2>3. QED
      BY <1>0, <1>4, <2>1, <2>2, LauncherStep DEF ReapSave
  <1>5. CASE TickEnd(p)
    <2>1. /\ job'[p].pc = "idle"
          /\ \A q \in Launcher \ {p} : job'[q] = job[q]
      BY <1>0, <1>5, IdleType DEF TickEnd, Become
    <2>2. QED
      BY <1>0, <1>5, <2>1, IdleFits, LauncherStep DEF TickEnd
  <1>6. CASE RecordRead(p)
    <2>1. /\ job'[p].pc = "append" /\ job'[p].now = job[p].now
          /\ job'[p].cur = job[p].cur /\ job'[p].loop = job[p].loop
          /\ \A q \in Launcher \ {p} : job'[q] = job[q]
      BY <1>0, <1>6 DEF RecordRead, Become, Job
    <2>2. JobFit(p, job'[p], run, lock, clock)
      BY <1>6, <1>f, <2>1 DEF RecordRead, JobFit
    <2>3. QED
      BY <1>0, <1>6, <2>1, <2>2, LauncherStep DEF RecordRead
  <1>7. ASSUME NEW l \in Loop, FireLaunch(p, l) PROVE Inv'
    <2>1. /\ job'[p].pc = "lock" /\ job'[p].now = job[p].now /\ job'[p].loop = l
          /\ \A q \in Launcher \ {p} : job'[q] = job[q]
      BY <1>0, <1>7 DEF FireLaunch, Become, Job
    <2>2. JobFit(p, job'[p], run, lock, clock)
      BY <1>7, <1>f, <2>1, TimedFits DEF FireLaunch, FiresNext, JobFit
    <2>3. QED
      BY <1>0, <1>7, <2>1, <2>2, LauncherStep DEF FireLaunch
  <1>8. ASSUME NEW l \in Loop, RequestLaunch(p, l) PROVE Inv'
    <2>1. /\ job'[p].pc = "lock" /\ job'[p].now = clock /\ job'[p].loop = l
          /\ \A q \in Launcher \ {p} : job'[q] = job[q]
      BY <1>0, <1>8 DEF RequestLaunch, Become, IdleJob
    <2>2. JobFit(p, job'[p], run, lock, clock)
      BY <1>0, <1>n, <2>1, TimedFits
    <2>3. QED
      BY <1>0, <1>8, <2>1, <2>2, LauncherStep DEF RequestLaunch
  <1>9. QED
    BY <1>1, <1>2, <1>3, <1>4, <1>5, <1>6, <1>7, <1>8

\* The steps of a launch that touch no lock keep it.
LEMMA QuietInv ==
    ASSUME Inv, NEW p \in Launcher,
           (\E l \in Loop : FireQueued(p, l)) \/ LaunchSkips(p) \/ RecordWrite(p)
    PROVE  Inv'
  <1>0. TypeOK' /\ job \in [Launcher -> Job] /\ job[p] \in Job
    BY LaunchTypes DEF Inv, TypeOK
  <1>f. JobFit(p, job[p], run, lock, clock)
    BY DEF Inv, Jobs
  <1>1. ASSUME NEW l \in Loop, FireQueued(p, l) PROVE Inv'
    <2>1. /\ job'[p].pc = "fire" /\ job'[p].now = job[p].now
          /\ \A q \in Launcher \ {p} : job'[q] = job[q]
      BY <1>0, <1>1 DEF FireQueued, FiresNext, Become, Job
    <2>2. JobFit(p, job'[p], run, lock, clock)
      BY <1>1, <1>f, <2>1, TimedFits DEF FireQueued, FiresNext, JobFit
    <2>3. QED
      BY <1>0, <1>1, <2>1, <2>2, LauncherStep DEF FireQueued
  <1>2. CASE LaunchSkips(p)
    <2>1. /\ \A q \in Launcher \ {p} : job'[q] = job[q]
          /\ job'[p].pc = "idle" \/ (job'[p].pc = "fire" /\ job'[p].now = job[p].now)
      BY <1>0, <1>2, ReturnType DEF LaunchSkips
    <2>2. JobFit(p, job'[p], run, lock, clock)
      BY <1>2, <1>f, <2>1, IdleFits, TimedFits DEF LaunchSkips, JobFit
    <2>3. QED
      BY <1>0, <1>2, <2>1, <2>2, LauncherStep DEF LaunchSkips
  <1>3. CASE RecordWrite(p)
    <2>1. /\ \A q \in Launcher \ {p} : job'[q] = job[q]
          /\ job'[p].pc = "idle" \/ (job'[p].pc = "fire" /\ job'[p].now = job[p].now)
      BY <1>0, <1>3, ReturnType DEF RecordWrite
    <2>2. JobFit(p, job'[p], run, lock, clock)
      BY <1>3, <1>f, <2>1, IdleFits, TimedFits DEF RecordWrite, JobFit
    <2>3. QED
      BY <1>0, <1>3, <2>1, <2>2, LauncherStep DEF RecordWrite
  <1>4. QED
    BY <1>1, <1>2, <1>3

-----------------------------------------------------------------------------
(* Steps that age a run *)

\* A reap that finds a run gone, signals it or stamps its receipt keeps it.
LEMMA ReapInv ==
    ASSUME Inv, NEW p \in Launcher,
           (\E r \in Run : ReapFinished(p, r) \/ ReapTerminate(p, r)) \/ ReapStamp(p)
    PROVE  Inv'
  <1>0. /\ TypeOK' /\ job \in [Launcher -> Job] /\ job[p] \in Job
        /\ run \in [Run -> RunState] /\ \A s \in Run : run[s] \in RunState
    BY ReapTypes DEF Inv, TypeOK
  <1>f. JobFit(p, job[p], run, lock, clock)
    BY DEF Inv, Jobs
  <1>g. \A s \in Run : RunFit(s, run[s], lock, clock)
    BY DEF Inv, Runs
  <1>1. ASSUME NEW r \in Run, ReapFinished(p, r) PROVE Inv'
    <2>1. /\ job'[p].pc = "reap" /\ job'[p].now = job[p].now
          /\ \A q \in Launcher \ {p} : job'[q] = job[q]
      BY <1>0, <1>1 DEF ReapFinished, Become, Job
    <2>2. JobFit(p, job'[p], run', lock, clock)
      BY <1>1, <1>f, <2>1, TimedFits DEF ReapFinished, JobFit
    <2>3. /\ \A s \in Run \ {r} : run'[s] = run[s]
          /\ run'[r] = [run[r] EXCEPT !.tree = IF @ = "there" THEN "removed" ELSE @]
      BY <1>0, <1>1 DEF ReapFinished
    <2>4. run[r] \in RunState /\ run[r].shell # "alive"
      BY <1>0, <1>1 DEF ReapFinished, Alive
    <2>5. /\ run'[r].loop = run[r].loop /\ run'[r].by = run[r].by
          /\ run'[r].started = run[r].started /\ run'[r].born = run[r].born
          /\ run'[r].shell = run[r].shell /\ run'[r].agent = run[r].agent
          /\ run'[r].hookAt = run[r].hookAt /\ run'[r].shellAt = run[r].shellAt
      BY <2>3, <2>4 DEF RunState
    <2>6. \A s \in Run : Kept(s) /\ Filed(s)
      BY <1>1, <2>3, <2>5 DEF Kept, Filed, Ended, ReapFinished
    <2>7. RunFit(r, run'[r], lock, clock)
      BY <1>g, <2>4, <2>5 DEF RunFit
    <2>8. \A s \in Run : RunFit(s, run'[s], lock, clock)
      BY <1>g, <2>3, <2>7
    <2>9. QED
      BY <1>0, <1>1, <2>1, <2>2, <2>6, <2>8, AgingStep DEF ReapFinished
  <1>2. ASSUME NEW r \in Run, ReapTerminate(p, r) PROVE Inv'
    <2>1. /\ job'[p].pc = "check" /\ job'[p].now = job[p].now /\ job'[p].cur = r
          /\ \A q \in Launcher \ {p} : job'[q] = job[q]
      BY <1>0, <1>2 DEF ReapTerminate, Become, Job
    <2>2. /\ \A s \in Run \ {r} : run'[s] = run[s]
          /\ run'[r] = [run[r] EXCEPT !.shell = IF @ = "alive" THEN "killed" ELSE @]
      BY <1>0, <1>2 DEF ReapTerminate
    <2>3. run[r] \in RunState /\ run[r].shell \in {"alive", "zombie"}
      BY <1>0, <1>2 DEF ReapTerminate, Alive
    <2>4. /\ run'[r].loop = run[r].loop /\ run'[r].by = run[r].by
          /\ run'[r].started = run[r].started /\ run'[r].born = run[r].born
          /\ run'[r].shell \in {"killed", "zombie"} /\ run'[r].agent = run[r].agent
          /\ run'[r].shellAt = run[r].shellAt
          /\ run[r].shell = "zombie" => run'[r].shell = "zombie"
          /\ run[r].shell = "alive" => run'[r].shell = "killed"
      BY <2>2, <2>3 DEF RunState
    <2>5. \A s \in Run : Kept(s) /\ Filed(s)
      BY <1>2, <2>2, <2>3, <2>4 DEF Kept, Filed, Ended, ReapTerminate
    <2>6. RunFit(r, run'[r], lock, clock)
      BY <1>g, <2>3, <2>4 DEF RunFit
    <2>7. \A s \in Run : RunFit(s, run'[s], lock, clock)
      BY <1>g, <2>2, <2>6
    <2>8. run[r].loop \in Loop /\ job[p].now - run[r].started >= Budget[run[r].loop]
      BY <1>2, <1>g, <2>3 DEF ReapTerminate, OverBudget, RunFit
    <2>9. JobFit(p, job'[p], run', lock, clock)
      BY <1>2, <1>f, <2>1, <2>4, <2>8 DEF ReapTerminate, JobFit
    <2>10. QED
      BY <1>0, <1>2, <2>1, <2>5, <2>7, <2>9, AgingStep DEF ReapTerminate
  <1>3. CASE ReapStamp(p)
    <2>1. /\ job'[p].pc = "free" /\ job'[p].now = job[p].now /\ job'[p].cur = job[p].cur
          /\ \A q \in Launcher \ {p} : job'[q] = job[q]
      BY <1>0, <1>3 DEF ReapStamp, Become, Job
    <2>2. JobFit(p, job'[p], run, lock, clock)
      BY <1>3, <1>f, <2>1 DEF ReapStamp, JobFit
    <2>3. /\ job[p].cur \in Run /\ job[p].now \in Time
          /\ run[job[p].cur].shell # "none"
          /\ job[p].now - run[job[p].cur].started >= Budget[run[job[p].cur].loop]
      BY <1>3, <1>f DEF ReapStamp, JobFit
    <2>4. /\ \A q \in Run \ {job[p].cur} : receipts'[q] = receipts[q]
          /\ \A c \in receipts'[job[p].cur] :
                c \in receipts[job[p].cur] \/ c = [ended |-> job[p].now, status |-> "stopped"]
      BY <1>3, <2>3, WrittenType DEF ReapStamp, Inv, TypeOK
    <2>5. Filed(job[p].cur)
      BY <2>3, <2>4 DEF Filed
    <2>6. \A s \in Run : Kept(s) /\ Filed(s)
      BY <1>3, <2>4, <2>5 DEF Kept, Filed, Ended, ReapStamp
    <2>7. QED
      BY <1>0, <1>3, <1>g, <2>1, <2>2, <2>6, AgingStep DEF ReapStamp
  <1>4. QED
    BY <1>1, <1>2, <1>3

\* Zombies collected: of some launcher's, and no other process changes.
LEMMA Collected ==
    ASSUME Inv, TypeOK', UNCHANGED <<clock, lock, receipts>>,
           \A q \in Launcher : job'[q] = job[q] \/ job'[q].pc = "idle",
           \A s \in Run : run'[s] = run[s] \/
               (run[s].shell = "zombie" /\ run'[s] = [run[s] EXCEPT !.shell = "gone"])
    PROVE  Inv'
  <1>1. \A s \in Run : RunFit(s, run[s], lock, clock) /\ run[s] \in RunState
    BY DEF Inv, Runs, TypeOK
  <1>2. ASSUME NEW s \in Run PROVE Kept(s) /\ Filed(s) /\ RunFit(s, run'[s], lock, clock)
    <2>1. CASE run'[s] = run[s]
      BY <1>1, <2>1 DEF Kept, Filed, Ended
    <2>2. CASE run[s].shell = "zombie" /\ run'[s] = [run[s] EXCEPT !.shell = "gone"]
      <3>1. /\ run'[s].loop = run[s].loop /\ run'[s].by = run[s].by
            /\ run'[s].started = run[s].started /\ run'[s].born = run[s].born
            /\ run'[s].shell = "gone" /\ run'[s].agent = run[s].agent
            /\ run'[s].shellAt = run[s].shellAt
        BY <1>1, <2>2 DEF RunState
      <3>2. QED
        BY <1>1, <2>2, <3>1 DEF Kept, Filed, Ended, RunFit
    <2>3. QED
      BY <2>1, <2>2
  <1>3. \A q \in Launcher : job'[q] = job[q] \/ JobFit(q, job'[q], run', lock, clock)
    BY IdleFits
  <1>4. QED
    BY <1>2, <1>3, AgingStep

\* A launcher that dies, raises or collects its zombies keeps it.
LEMMA EndingInv ==
    ASSUME Inv, NEW p \in Launcher, Crash(p) \/ WebCollects(p) \/ LaunchRaises(p)
    PROVE  Inv'
  <1>0. /\ job \in [Launcher -> Job] /\ run \in [Run -> RunState]
        /\ \A s \in Run : run[s] \in RunState
    BY DEF Inv, TypeOK
  <1>1. CASE Crash(p)
    <2>1. \A q \in Launcher : job'[q] = job[q] \/ job'[q].pc = "idle"
      BY <1>0, <1>1, IdleType DEF Crash, Become
    <2>2. \A s \in Run : run'[s] = run[s] \/
               (run[s].shell = "zombie" /\ run'[s] = [run[s] EXCEPT !.shell = "gone"])
      BY <1>1 DEF Crash
    <2>3. UNCHANGED <<clock, lock, receipts>>
      BY <1>1 DEF Crash
    <2>4. TypeOK'
      BY <1>1, TickTypes
    <2>5. QED
      BY <2>1, <2>2, <2>3, <2>4, Collected
  <1>2. CASE WebCollects(p)
    <2>1. \A s \in Run : run'[s] = run[s] \/
               (run[s].shell = "zombie" /\ run'[s] = [run[s] EXCEPT !.shell = "gone"])
      BY <1>2 DEF WebCollects
    <2>2. UNCHANGED <<clock, lock, registry, watermark, job, ahead, receipts, requests, fired>>
      BY <1>2 DEF WebCollects
    <2>3. \A x \in RunState : [x EXCEPT !.shell = "gone"] \in RunState
      BY DEF RunState
    <2>4. run' \in [Run -> RunState]
      BY <1>0, <1>2, <2>3 DEF WebCollects
    <2>5. TypeOK'
      BY <2>2, <2>4 DEF Inv, TypeOK
    <2>6. QED
      BY <2>1, <2>2, <2>5, Collected
  <1>3. CASE LaunchRaises(p)
    <2>r. PICK r \in Run : r = job[p].cur
      BY <1>3 DEF LaunchRaises, Inv, Jobs, JobFit
    <2>1. run[r].shell = "none"
      BY <1>3, <2>r DEF LaunchRaises, Inv, Jobs, JobFit
    <2>2. PICK t \in TreeMade(job[p].loop) : run' = [run EXCEPT ![r].tree = t]
      BY <1>3, <2>r DEF LaunchRaises
    <2>3. /\ \A s \in Run \ {r} : run'[s] = run[s]
          /\ run'[r] = [run[r] EXCEPT !.tree = t]
      BY <1>0, <2>2
    <2>4. /\ run'[r].loop = run[r].loop /\ run'[r].by = run[r].by
          /\ run'[r].started = run[r].started /\ run'[r].born = run[r].born
          /\ run'[r].shell = run[r].shell /\ run'[r].agent = run[r].agent
          /\ run'[r].hookAt = run[r].hookAt /\ run'[r].shellAt = run[r].shellAt
      BY <1>0, <2>3 DEF RunState
    <2>5. \A s \in Run : Kept(s) /\ Filed(s)
      BY <1>3, <2>3, <2>4 DEF Kept, Filed, Ended, LaunchRaises
    <2>6. \A s \in Run : RunFit(s, run[s], lock, clock)
      BY DEF Inv, Runs
    <2>7. RunFit(r, run'[r], lock, clock)
      BY <2>1, <2>4, <2>6 DEF RunFit
    <2>8. \A q \in Launcher : job'[q] = job[q] \/ JobFit(q, job'[q], run', lock, clock)
      BY <1>0, <1>3, IdleType, IdleFits DEF LaunchRaises, Become
    <2>9. TypeOK'
      BY <1>3, LaunchTypes
    <2>10. \A s \in Run : RunFit(s, run'[s], lock, clock)
      BY <2>3, <2>6, <2>7
    <2>11. QED
      BY <1>3, <2>5, <2>8, <2>9, <2>10, AgingStep DEF LaunchRaises
  <1>4. QED
    BY <1>1, <1>2, <1>3

\* The steps of bash, the agent and its hooks.
LEMMA RunInv ==
    ASSUME Inv, NEW r \in Run, RunStep(r) \/ AgentCommits(r)
    PROVE  Inv'
  <1>0. /\ run \in [Run -> RunState] /\ run[r] \in RunState /\ TypeOK'
        /\ RunFit(r, run[r], lock, clock)
    BY RunTypes DEF Inv, TypeOK, Runs
  <1>u. UNCHANGED <<clock, lock, job>>
    BY DEF RunStep, AgentCommits, HookLooks, HookWrites, AgentEnds, ShellLooks, ShellWrites
  <1>1. CASE HookLooks(r)
    <2>1. /\ \A s \in Run \ {r} : run'[s] = run[s]
          /\ run'[r] = [run[r] EXCEPT !.hookAt = clock]
      BY <1>0, <1>1 DEF HookLooks
    <2>2. Kept(r) /\ Filed(r)
      BY <1>0, <1>1, <2>1 DEF Kept, Filed, Ended, HookLooks, RunState
    <2>3. RunFit(r, run'[r], lock, clock)
      BY <1>0, <1>1, <2>1 DEF RunFit, HookLooks, RunState
    <2>4. QED
      BY <1>0, <1>1, <1>u, <2>1, <2>2, <2>3, RunAges DEF HookLooks
  <1>2. CASE HookWrites(r)
    <2>1. /\ \A s \in Run \ {r} : run'[s] = run[s]
          /\ run'[r] = [run[r] EXCEPT !.hookAt = NoTime]
      BY <1>0, <1>2 DEF HookWrites
    <2>2. run[r].hookAt \in Time /\ run[r].shell # "none"
      BY <1>0, <1>2 DEF HookWrites, RunState, RunFit
    <2>3. /\ \A q \in Run \ {r} : receipts'[q] = receipts[q]
          /\ \A c \in receipts'[r] :
                c \in receipts[r] \/ c = [ended |-> run[r].hookAt, status |-> "built"]
      BY <1>2, <2>2, WrittenType DEF HookWrites, Inv, TypeOK
    <2>4. Kept(r) /\ Filed(r)
      BY <1>0, <2>1, <2>2, <2>3 DEF Kept, Filed, Ended, RunState
    <2>5. RunFit(r, run'[r], lock, clock)
      BY <1>0, <2>1, <2>2 DEF RunFit, RunState
    <2>6. QED
      BY <1>0, <1>u, <2>1, <2>3, <2>4, <2>5, RunAges
  <1>3. CASE AgentEnds(r)
    <2>1. /\ \A s \in Run \ {r} : run'[s] = run[s]
          /\ run'[r] = [run[r] EXCEPT !.agent = "done"]
      BY <1>0, <1>3 DEF AgentEnds
    <2>2. Kept(r) /\ Filed(r)
      BY <1>0, <1>3, <2>1 DEF Kept, Filed, Ended, AgentEnds, RunState
    <2>3. RunFit(r, run'[r], lock, clock)
      BY <1>0, <1>3, <2>1 DEF RunFit, AgentEnds, RunState
    <2>4. QED
      BY <1>0, <1>3, <1>u, <2>1, <2>2, <2>3, RunAges DEF AgentEnds
  <1>4. CASE ShellLooks(r)
    <2>1. /\ \A s \in Run \ {r} : run'[s] = run[s]
          /\ \/ run'[r] = [run[r] EXCEPT !.shell = Exited(r)]
             \/ run'[r] = [run[r] EXCEPT !.shellAt = clock]
      BY <1>0, <1>4 DEF ShellLooks
    <2>2. /\ run[r].shell = "alive" /\ run[r].agent = "done" /\ UNCHANGED receipts
          /\ Exited(r) \in {"zombie", "gone"}
      BY <1>4 DEF ShellLooks, Exited
    <2>3. /\ run'[r].loop = run[r].loop /\ run'[r].by = run[r].by
          /\ run'[r].started = run[r].started /\ run'[r].born = run[r].born
          /\ run'[r].agent = "done" /\ run'[r].shell \in {"alive", "zombie", "gone"}
      BY <1>0, <2>1, <2>2 DEF RunState
    <2>4. Kept(r) /\ Filed(r)
      BY <2>2, <2>3 DEF Kept, Filed, Ended
    <2>5. RunFit(r, run'[r], lock, clock)
      BY <1>0, <2>2, <2>3 DEF RunFit
    <2>6. QED
      BY <1>0, <1>u, <2>1, <2>2, <2>4, <2>5, RunAges
  <1>5. CASE ShellWrites(r)
    <2>1. /\ \A s \in Run \ {r} : run'[s] = run[s]
          /\ run'[r] = [run[r] EXCEPT !.shellAt = NoTime,
                                      !.shell = IF @ = "alive" THEN Exited(r) ELSE @]
      BY <1>0, <1>5 DEF ShellWrites
    <2>2. /\ run[r].shellAt \in Time /\ run[r].shell # "none"
          /\ Exited(r) \in {"zombie", "gone"}
      BY <1>0, <1>5 DEF ShellWrites, RunState, RunFit, Exited
    <2>3. /\ run'[r].loop = run[r].loop /\ run'[r].by = run[r].by
          /\ run'[r].started = run[r].started /\ run'[r].born = run[r].born
          /\ run'[r].agent = run[r].agent /\ run'[r].shellAt = NoTime
          /\ run[r].shell = "alive" => run'[r].shell \in {"zombie", "gone"}
          /\ run[r].shell # "alive" => run'[r].shell = run[r].shell
      BY <1>0, <2>1, <2>2 DEF RunState
    <2>4. /\ \A q \in Run \ {r} : receipts'[q] = receipts[q]
          /\ \A c \in receipts'[r] :
                c \in receipts[r] \/ c = [ended |-> run[r].shellAt, status |-> "built"]
      BY <1>5, <2>2, WrittenType DEF ShellWrites, Inv, TypeOK
    <2>5. Kept(r) /\ Filed(r)
      BY <1>0, <2>2, <2>3, <2>4 DEF Kept, Filed, Ended, RunState
    <2>6. RunFit(r, run'[r], lock, clock)
      BY <1>0, <2>2, <2>3 DEF RunFit, RunState, NoTime, Time
    <2>7. QED
      BY <1>0, <1>u, <2>1, <2>4, <2>5, <2>6, RunAges
  <1>6. CASE AgentCommits(r)
    <2>1. UNCHANGED <<run, receipts>>
      BY <1>6 DEF AgentCommits
    <2>2. QED
      BY <1>0, <1>u, <2>1, RunAges DEF Kept, Filed, Ended
  <1>7. QED
    BY <1>1, <1>2, <1>3, <1>4, <1>5, <1>6 DEF RunStep

-----------------------------------------------------------------------------
(* Steps that move a lock, start a run or let time pass *)

\* A run that was working before a budget stop's release still holds its own lock:
\* the release frees the key only where the stopped run still has it.
LEMMA FreeInv ==
    ASSUME Inv, NEW p \in Launcher, ReapFree(p)
    PROVE  Inv'
  <1>0. /\ TypeOK' /\ job \in [Launcher -> Job] /\ job[p] \in Job
        /\ run \in [Run -> RunState] /\ \A s \in Run : run[s] \in RunState
    BY ReapTypes DEF Inv, TypeOK
  <1>r. PICK r \in Run : r = job[p].cur
    BY DEF ReapFree, Inv, Jobs, JobFit
  <1>1. /\ job'[p].pc = "reap" /\ job'[p].now = job[p].now
        /\ \A q \in Launcher \ {p} : job'[q] = job[q]
    BY <1>0 DEF ReapFree, Become, Job
  <1>2. run[r].shell \in Ended /\ run[r].loop \in Loop
    BY <1>r DEF ReapFree, Inv, Jobs, JobFit, Ended
  <1>3. /\ \A s \in Run \ {r} : run'[s] = run[s]
        /\ run'[r] = [run[r] EXCEPT !.tree = IF @ = "there" THEN "removed" ELSE @]
        /\ UNCHANGED <<clock, receipts>>
    BY <1>0, <1>r DEF ReapFree
  <1>4. /\ run'[r].loop = run[r].loop /\ run'[r].by = run[r].by
        /\ run'[r].started = run[r].started /\ run'[r].born = run[r].born
        /\ run'[r].shell = run[r].shell /\ run'[r].agent = run[r].agent
        /\ run'[r].hookAt = run[r].hookAt /\ run'[r].shellAt = run[r].shellAt
    BY <1>0, <1>3 DEF RunState
  <1>5. \A k \in Key : lock[k].run # r => lock'[k] = lock[k]
    BY <1>r DEF ReapFree, Inv, TypeOK
  <1>6. Jobs'
    <2> SUFFICES ASSUME NEW q \in Launcher PROVE JobFit(q, job'[q], run', lock', clock)
      BY <1>3 DEF Jobs
    <2>1. JobFit(q, job[q], run, lock, clock)
      BY DEF Inv, Jobs
    <2>2. CASE q = p
      <3>1. job[p].now \in Time /\ job[p].now <= clock /\ clock <= job[p].now + Grace
        BY <2>1, <2>2 DEF ReapFree, JobFit
      <3>2. QED
        BY <1>1, <2>2, <3>1, TimedFits
    <2>3. CASE q # p
      <3>1. job'[q] = job[q]
        BY <1>1, <2>3
      <3>2. ASSUME job[q].pc \in {"check", "stamp", "free"}
            PROVE  /\ job[q].cur \in Run
                   /\ run'[job[q].cur].shell \in {"zombie", "gone", "killed"}
                   /\ run'[job[q].cur].loop \in Loop
                   /\ job[q].now - run'[job[q].cur].started >= Budget[run'[job[q].cur].loop]
        BY <1>3, <1>4, <2>1, <3>2 DEF JobFit
      <3>3. ASSUME job[q].pc = "spawn"
            PROVE  /\ run'[job[q].cur].loop = job[q].loop /\ run'[job[q].cur].by = q
                   /\ run'[job[q].cur].shell = "none"
                   /\ lock'[KeyOf[job[q].loop]] = lock[KeyOf[job[q].loop]]
        BY <1>2, <1>3, <1>4, <1>5, <2>1, <3>3 DEF JobFit, Ended, Key
      <3>4. QED
        BY <2>1, <3>1, <3>2, <3>3 DEF JobFit
    <2>4. QED
      BY <2>2, <2>3
  <1>7. Runs'
    <2> SUFFICES ASSUME NEW s \in Run PROVE RunFit(s, run'[s], lock', clock)
      BY <1>3 DEF Runs
    <2>1. RunFit(s, run[s], lock, clock)
      BY DEF Inv, Runs
    <2>2. CASE s = r
      BY <1>2, <1>4, <2>1, <2>2 DEF RunFit, Ended
    <2>3. CASE s # r
      <3>1. run'[s] = run[s]
        BY <1>3, <2>3
      <3>2. run[s].agent = "working" /\ run[s].shell = "alive"
               => lock'[KeyOf[run[s].loop]] = lock[KeyOf[run[s].loop]]
        BY <1>5, <2>1, <2>3 DEF RunFit, Key
      <3>3. QED
        BY <2>1, <3>1, <3>2 DEF RunFit
    <2>4. QED
      BY <2>2, <2>3
  <1>8. \A s \in Run : /\ run'[s].loop = run[s].loop /\ run'[s].started = run[s].started
                       /\ run'[s].shell = run[s].shell /\ receipts'[s] = receipts[s]
    BY <1>3, <1>4
  <1>9. Blank' /\ StoppedIsOver'
    BY <1>8 DEF Inv, Blank, StoppedIsOver
  <1>10. QED
    BY <1>0, <1>6, <1>7, <1>9 DEF Inv

\* A lock that can be taken is no working run's and no pending launch's.
LEMMA NotHeld ==
    ASSUME Inv, NEW k \in Key, NEW now \in Time, now <= clock, Stealable(k, now)
    PROVE  /\ \A s \in Run : run[s].agent = "working" /\ run[s].shell = "alive"
                                => KeyOf[run[s].loop] # k
           /\ \A q \in Launcher : job[q].pc = "spawn" => KeyOf[job[q].loop] # k
  <1>0. /\ clock \in Nat /\ now \in Nat /\ Grace \in Nat \ {0}
        /\ \A l \in Loop : Timeout[l] \in Nat \ {0}
    BY SchedulerConstants DEF Inv, TypeOK, Time
  <1>1. ASSUME NEW s \in Run, run[s].agent = "working", run[s].shell = "alive",
               KeyOf[run[s].loop] = k
        PROVE  FALSE
    <2>1. /\ lock[k].run = s /\ clock <= run[s].born + Timeout[run[s].loop]
          /\ run[s].born + Timeout[run[s].loop] <= lock[k].expires
          /\ run[s].born \in Nat /\ Timeout[run[s].loop] \in Nat
      BY <1>0, <1>1 DEF Inv, Runs, RunFit, Time
    <2>2. lock[k].expires \in Nat \cup {NoTime}
      BY DEF Inv, TypeOK
    <2>3. lock[k] # Free
      BY <2>1, SchedulerConstants DEF Free
    <2>4. QED
      BY <1>0, <2>1, <2>2, <2>3 DEF Stealable, NoTime
  <1>2. ASSUME NEW q \in Launcher, job[q].pc = "spawn", KeyOf[job[q].loop] = k
        PROVE  FALSE
    <2>1. /\ lock[k].run \in Run
          /\ lock[k].expires = job[q].now + Timeout[job[q].loop] + Grace
          /\ job[q].now \in Nat /\ clock <= job[q].now + Grace
          /\ Timeout[job[q].loop] \in Nat
      BY <1>0, <1>2 DEF Inv, Jobs, JobFit, Time
    <2>2. lock[k] # Free
      BY <2>1, SchedulerConstants DEF Free
    <2>3. QED
      BY <1>0, <2>1, <2>2 DEF Stealable
  <1>3. QED
    BY <1>1, <1>2

\* A launch takes a lock that is free, or expired.
LEMMA LockInv ==
    ASSUME Inv, NEW p \in Launcher, NEW r \in Run, LaunchLocks(p, r)
    PROVE  Inv'
  <1>0. /\ TypeOK' /\ job \in [Launcher -> Job] /\ job[p] \in Job
        /\ run \in [Run -> RunState] /\ run[r] \in RunState
    BY LaunchTypes DEF Inv, TypeOK
  <1> DEFINE l == job[p].loop
  <1>1. /\ l \in Loop /\ KeyOf[l] \in Key
        /\ job[p].now \in Time /\ job[p].now <= clock /\ clock <= job[p].now + Grace
    BY DEF LaunchLocks, Inv, Jobs, JobFit, Key
  <1>2. /\ job'[p].pc = "spawn" /\ job'[p].now = job[p].now
        /\ job'[p].cur = r /\ job'[p].loop = l
        /\ \A q \in Launcher \ {p} : job'[q] = job[q]
    BY <1>0 DEF LaunchLocks, Become, Job
  <1>3. run[r].loop = NoLoop /\ run[r].shell = "none" /\ receipts[r] = {}
    BY <1>0, SchedulerConstants DEF LaunchLocks, NextRun, Inv, Runs, RunFit, Blank
  <1>4. /\ \A s \in Run \ {r} : run'[s] = run[s]
        /\ run'[r] = [run[r] EXCEPT !.loop = l, !.by = p]
        /\ UNCHANGED <<clock, receipts>>
    BY <1>0 DEF LaunchLocks
  <1>5. /\ run'[r].loop = l /\ run'[r].by = p
        /\ run'[r].shell = "none" /\ run'[r].agent = run[r].agent
        /\ run'[r].hookAt = run[r].hookAt /\ run'[r].shellAt = run[r].shellAt
    BY <1>0, <1>3, <1>4 DEF RunState
  <1>6. /\ lock'[KeyOf[l]] = [run |-> r, expires |-> job[p].now + Timeout[l] + Grace]
        /\ \A k \in Key \ {KeyOf[l]} : lock'[k] = lock[k]
    BY <1>1 DEF LaunchLocks, Inv, TypeOK
  <1>7. /\ \A s \in Run : run[s].agent = "working" /\ run[s].shell = "alive"
                             => KeyOf[run[s].loop] # KeyOf[l]
        /\ \A q \in Launcher : job[q].pc = "spawn" => KeyOf[job[q].loop] # KeyOf[l]
    BY <1>1, NotHeld DEF LaunchLocks
  <1> HIDE DEF l
  <1>8. Jobs'
    <2> SUFFICES ASSUME NEW q \in Launcher PROVE JobFit(q, job'[q], run', lock', clock)
      BY <1>4 DEF Jobs
    <2>1. JobFit(q, job[q], run, lock, clock)
      BY DEF Inv, Jobs
    <2>2. CASE q = p
      BY <1>1, <1>2, <1>5, <1>6, <2>2 DEF JobFit
    <2>3. CASE q # p
      <3>1. job'[q] = job[q]
        BY <1>2, <2>3
      <3>2. job[q].pc \in {"check", "stamp", "free"} => run'[job[q].cur] = run[job[q].cur]
        BY <1>3, <1>4, <2>1 DEF JobFit
      <3>3. job[q].pc = "spawn" =>
               /\ run'[job[q].cur] = run[job[q].cur]
               /\ lock'[KeyOf[job[q].loop]] = lock[KeyOf[job[q].loop]]
        BY <1>3, <1>4, <1>6, <1>7, <2>1, SchedulerConstants DEF JobFit, Key
      <3>4. QED
        BY <2>1, <3>1, <3>2, <3>3 DEF JobFit
    <2>4. QED
      BY <2>2, <2>3
  <1>9. Runs'
    <2> SUFFICES ASSUME NEW s \in Run PROVE RunFit(s, run'[s], lock', clock)
      BY <1>4 DEF Runs
    <2>1. RunFit(s, run[s], lock, clock)
      BY DEF Inv, Runs
    <2>2. CASE s = r
      BY <1>3, <1>5, <2>1, <2>2 DEF RunFit
    <2>3. CASE s # r
      <3>1. run'[s] = run[s]
        BY <1>4, <2>3
      <3>2. run[s].agent = "working" /\ run[s].shell = "alive"
               => lock'[KeyOf[run[s].loop]] = lock[KeyOf[run[s].loop]]
        BY <1>6, <1>7, <2>1 DEF RunFit, Key
      <3>3. QED
        BY <2>1, <3>1, <3>2 DEF RunFit
    <2>4. QED
      BY <2>2, <2>3
  <1>10. Blank' /\ StoppedIsOver'
    BY <1>3, <1>4, <1>5 DEF Inv, Blank, StoppedIsOver
  <1>11. QED
    BY <1>0, <1>8, <1>9, <1>10 DEF Inv

\* The agent starts within the lock its launch holds.
LEMMA SpawnInv ==
    ASSUME Inv, NEW p \in Launcher, Spawn(p)
    PROVE  Inv'
  <1>0. /\ TypeOK' /\ job \in [Launcher -> Job] /\ job[p] \in Job
        /\ run \in [Run -> RunState] /\ \A s \in Run : run[s] \in RunState
        /\ clock \in Time /\ NoRun \notin Run
    BY LaunchTypes, SchedulerConstants DEF Inv, TypeOK
  <1>r. PICK r \in Run : r = job[p].cur
    BY DEF Spawn, Inv, Jobs, JobFit
  <1> DEFINE l == job[p].loop
  <1>1. /\ l \in Loop /\ Timeout[l] \in Nat /\ Grace \in Nat
        /\ job[p].now \in Time /\ job[p].now <= clock /\ clock <= job[p].now + Grace
    BY SchedulerConstants DEF Spawn, Inv, Jobs, JobFit
  <1>2. /\ run[r].loop = l /\ run[r].by = p /\ run[r].shell = "none"
        /\ lock[KeyOf[l]].run = r
        /\ lock[KeyOf[l]].expires = job[p].now + Timeout[l] + Grace
    BY <1>r DEF Spawn, Inv, Jobs, JobFit
  <1>3. receipts[r] = {} /\ run[r].hookAt = NoTime /\ run[r].shellAt = NoTime
    BY <1>2 DEF Inv, Blank, Runs, RunFit
  <1>4. PICK t \in {"none", "there"} :
          /\ run' = [run EXCEPT ![r].started = job[p].now, ![r].born = clock,
                                ![r].shell = "alive", ![r].agent = "working", ![r].tree = t]
          /\ Become(p, [job[p] EXCEPT !.pc = "note"]) \/ Return(p, job[p])
    BY <1>r DEF Spawn, TreeMade
  <1>5. /\ \A s \in Run \ {r} : run'[s] = run[s]
        /\ run'[r] = [run[r] EXCEPT !.started = job[p].now, !.born = clock,
                                    !.shell = "alive", !.agent = "working", !.tree = t]
    BY <1>0, <1>4
  <1>6. /\ run'[r].loop = l /\ run'[r].by = p
        /\ run'[r].started = job[p].now /\ run'[r].born = clock
        /\ run'[r].shell = "alive" /\ run'[r].agent = "working" /\ run'[r].tree = t
        /\ run'[r].hookAt = NoTime /\ run'[r].shellAt = NoTime
    <2>1. run[r] \in RunState
      BY <1>0
    <2>2. QED
      BY <1>2, <1>3, <1>5, <2>1 DEF RunState
  <1>7. UNCHANGED <<clock, lock, receipts>>
    BY DEF Spawn
  <1>8. /\ \A q \in Launcher \ {p} : job'[q] = job[q]
        /\ \/ /\ job'[p].pc = "note" /\ job'[p].now = job[p].now
              /\ job'[p].cur = r /\ job'[p].loop = l
           \/ job'[p].pc = "idle"
           \/ job'[p].pc = "fire" /\ job'[p].now = job[p].now
    <2>1. CASE Become(p, [job[p] EXCEPT !.pc = "note"])
      BY <1>0, <1>r, <2>1 DEF Become, Job
    <2>2. CASE Return(p, job[p])
      BY <1>0, <2>2, ReturnType
    <2>3. QED
      BY <1>4, <2>1, <2>2
  <1> HIDE DEF l
  <1>9. Jobs'
    <2> SUFFICES ASSUME NEW q \in Launcher PROVE JobFit(q, job'[q], run', lock, clock)
      BY <1>7 DEF Jobs
    <2>1. JobFit(q, job[q], run, lock, clock)
      BY DEF Inv, Jobs
    <2>2. CASE q = p
      <3>1. CASE job'[p].pc = "note"
        BY <1>1, <1>8, <2>2, <3>1 DEF JobFit
      <3>2. CASE job'[p].pc # "note"
        BY <1>1, <1>8, <2>2, <3>2, IdleFits, TimedFits
      <3>3. QED
        BY <3>1, <3>2
    <2>3. CASE q # p
      <3>1. job'[q] = job[q]
        BY <1>8, <2>3
      <3>2. job[q].pc \in {"check", "stamp", "free", "spawn"}
               => run'[job[q].cur] = run[job[q].cur]
        BY <1>2, <1>5, <2>1, <2>3 DEF JobFit
      <3>3. QED
        BY <2>1, <3>1, <3>2 DEF JobFit
    <2>4. QED
      BY <2>2, <2>3
  <1>10. Runs'
    <2> SUFFICES ASSUME NEW s \in Run PROVE RunFit(s, run'[s], lock, clock)
      BY <1>7 DEF Runs
    <2>1. CASE s = r
      <3>1. clock <= clock + Timeout[l]
            /\ clock + Timeout[l] <= job[p].now + Timeout[l] + Grace
        BY <1>0, <1>1 DEF Time
      <3>2. QED
        BY <1>0, <1>1, <1>2, <1>4, <1>6, <2>1, <3>1 DEF RunFit
    <2>2. CASE s # r
      BY <1>5, <2>2 DEF Inv, Runs
    <2>3. QED
      BY <2>1, <2>2
  <1>11. Blank' /\ StoppedIsOver'
    <2>1. \A s \in Run : receipts'[s] # {} => run'[s] = run[s] /\ receipts'[s] = receipts[s]
      BY <1>3, <1>5, <1>7
    <2>2. QED
      BY <1>7, <2>1 DEF Inv, Blank, StoppedIsOver
  <1>12. QED
    BY <1>0, <1>9, <1>10, <1>11 DEF Inv

\* Time passes: it does not pass the timeout of an agent.
LEMMA TimeInv == Inv /\ TimePasses => Inv'
  <1> SUFFICES ASSUME Inv, TimePasses PROVE Inv'
    OBVIOUS
  <1>0. clock \in Nat /\ clock' = clock + 1 /\ clock' \in Time /\ Grace \in Nat
    BY SchedulerConstants DEF TimePasses, Inv, TypeOK, Time
  <1>1. TypeOK'
    BY <1>0 DEF TimePasses, Inv, TypeOK
  <1>2. Jobs'
    <2> SUFFICES ASSUME NEW q \in Launcher PROVE JobFit(q, job[q], run, lock, clock')
      BY DEF TimePasses, Jobs
    <2>1. JobFit(q, job[q], run, lock, clock)
      BY DEF Inv, Jobs
    <2>2. job[q].pc # "idle" =>
             job[q].now \in Time /\ job[q].now <= clock' /\ clock' <= job[q].now + Grace
      BY <1>0, <2>1 DEF TimePasses, JobFit, Time
    <2>3. QED
      BY <2>1, <2>2 DEF JobFit
  <1>3. Runs'
    <2> SUFFICES ASSUME NEW s \in Run PROVE RunFit(s, run[s], lock, clock')
      BY DEF TimePasses, Runs
    <2>1. RunFit(s, run[s], lock, clock)
      BY DEF Inv, Runs
    <2>2. run[s].agent = "working" =>
             run[s].born \in Nat /\ Timeout[run[s].loop] \in Nat
      <3>1. run[s].agent = "working" => run[s].loop \in Loop /\ run[s].born \in Time
        BY <2>1 DEF RunFit
      <3>2. (\A l \in Loop : Timeout[l] \in Nat) /\ Time \subseteq Nat
        BY SchedulerConstants DEF Time
      <3>3. QED
        BY <3>1, <3>2
    <2>3. run[s].agent = "working" => clock < run[s].born + Timeout[run[s].loop]
      BY DEF TimePasses
    <2>4. run[s].agent = "working" => clock' <= run[s].born + Timeout[run[s].loop]
      BY <1>0, <2>2, <2>3
    <2>5. QED
      BY <2>1, <2>4 DEF RunFit
  <1>4. QED
    BY <1>1, <1>2, <1>3 DEF TimePasses, Inv, Blank, StoppedIsOver

\* The invariant holds at first.
LEMMA InitInv == Init => Inv
  <1> SUFFICES ASSUME Init PROVE Inv
    OBVIOUS
  <1>1. Unborn \in RunState
    BY DEF Unborn, RunState
  <1>2. TypeOK
    BY <1>1, IdleType, SchedulerConstants DEF Init, TypeOK, Time, Free
  <1>3. Jobs
    BY IdleType, IdleFits DEF Init, Jobs
  <1>4. Runs
    BY DEF Init, Runs, RunFit, Unborn
  <1>5. QED
    BY <1>2, <1>3, <1>4 DEF Init, Inv, Blank, StoppedIsOver

-----------------------------------------------------------------------------
(* Theorems *)

\* Every step of the ticks, the dashboard, the runs and the clock keeps the invariant.
THEOREM Inductive == Inv /\ [Next]_vars => Inv'
  <1> SUFFICES ASSUME Inv, [Next]_vars PROVE Inv'
    OBVIOUS
  <1>1. ASSUME NEW p \in Launcher, Progress(p) PROVE Inv'
    BY <1>1, TickInv, QuietInv, ReapInv, EndingInv, FreeInv, LockInv, SpawnInv DEF Progress
  <1>2. ASSUME NEW p \in Launcher,
               \/ TickStart(p) \/ Crash(p) \/ WebCollects(p)
               \/ \E l \in Loop : RequestLaunch(p, l)
        PROVE  Inv'
    BY <1>2, TickInv, EndingInv
  <1>3. ASSUME NEW r \in Run, RunStep(r) \/ AgentCommits(r) PROVE Inv'
    BY <1>3, RunInv
  <1>4. CASE UNCHANGED vars
    BY <1>4 DEF vars, Inv, TypeOK, Jobs, Runs, Blank, StoppedIsOver, JobFit, RunFit
  <1>5. QED
    BY <1>1, <1>2, <1>3, <1>4, TimeInv DEF Next

\* The invariant of the scheduler holds in every state.
THEOREM Invariant == Spec => []Inv
  BY InitInv, Inductive, PTL DEF Spec

\* Every variable keeps its type.
THEOREM TypeCorrect == Spec => []TypeOK
  <1>1. Inv => TypeOK
    BY DEF Inv
  <1>2. QED
    BY <1>1, Invariant, PTL

\* The lock (lock.acquire, lock.release) keeps two agents off one branch, however many
\* ticks and dashboards launch and wherever they die, except after a budget stop.
THEOREM LockKeepsAgentsApart == Spec => []SharedOnlyAfterStop
  BY Invariant, HoldersDiffer, PTL

\* Neither reap branch removes the worktree of an agent at work, except after a budget
\* stop (budget._cleanup_worktree).
THEOREM TreesStay == Spec => []TreeRemovedOnlyAfterStop
  BY Invariant, TreesKept, PTL

\* A receipt that says "stopped" is of a run that was over its budget when the reaper
\* measured it (budget.exceeded, write_stopped_receipt).
THEOREM StopIsEarned == Spec => []StoppedIsOver
  <1>1. Inv => StoppedIsOver
    BY DEF Inv
  <1>2. QED
    BY <1>1, Invariant, PTL

-----------------------------------------------------------------------------
(* FiredOnce, for one ticker that does not die and any dashboards, dying or not: two     *)
(* ticks at once read the same watermark, and a tick that dies leaves it behind.  So     *)
(* does a tick that _launch_run raises out of, hence BrokenFirst: what it fired before   *)
(* is due again.                                                                         *)

Raising == Broken \cap Autorun
BrokenFirst == \A b \in Raising, l \in Loop \ Raising : b < l

Firing  == {"fire", "lock", "spawn", "note", "append"}
Reaping == {"reap", "check", "stamp", "free"}

\* The loops a tick with record j has still to fire.
ToFire(j) == IF j.pc \in {"note", "append"} THEN j.due \ {j.loop} ELSE j.due

\* An occurrence that was fired lies behind the watermark, or the tick under way fired
\* it and will put the watermark past it.
Behind(l, t, j) ==
    t <= watermark \/ (j.pc \in Firing /\ t <= j.now /\ l \notin ToFire(j))

TickFit(j) ==
    /\ j.pc # "idle" => watermark <= j.now /\ watermark <= j.since
    /\ j.pc \in Firing => \A l \in j.due, t \in Time : IsLatest(l, t, j.now) => t > j.since
    /\ j.pc \in Firing \ {"fire"} =>
          j.loop \in j.due /\ j.loop \in Autorun /\ \A m \in j.due : j.loop <= m
    /\ \A l \in Loop, t \in Time : fired[l][t] >= 1 => Behind(l, t, j)
    /\ j.pc \in Firing /\ j.due \cap Raising # {} =>
          \A l \in Loop, t \in Time : fired[l][t] >= 1 => t <= watermark

FireInv ==
    /\ Inv
    /\ watermark <= clock
    /\ \A p \in Web : job[p].pc \in Firing \cup {"idle"} /\ job[p].pc # "fire"
    /\ \A p \in Ticker : TickFit(job[p])
    /\ Ticker = {} => \A l \in Loop, t \in Time : fired[l][t] = 0
    /\ FiredOnce

\* The scheduling the property needs.
OneTicker == (\A p, q \in Ticker : p = q) /\ CrashProne \cap Ticker = {}

\* A step of a tick that fires nothing and leaves the watermark.
LEMMA TickOnlyStep ==
    ASSUME FireInv, Inv', OneTicker, NEW p \in Ticker, UNCHANGED <<clock, fired, watermark>>,
           \A q \in Launcher \ {p} : job'[q] = job[q], TickFit(job'[p])
    PROVE  FireInv'
  <1>1. \A q \in Ticker : q = p
    BY DEF OneTicker
  <1>2. \A q \in Web : job'[q] = job[q]
    BY SchedulerConstants DEF Launcher
  <1>3. (\A q \in Ticker : TickFit(job[q]))'
    BY <1>1 DEF TickFit, Behind
  <1>4. QED
    BY <1>2, <1>3 DEF FireInv, FiredOnce

\* A step that no ticker takes.
LEMMA OtherStep ==
    ASSUME FireInv, Inv', UNCHANGED <<fired, watermark>>, clock' >= clock,
           \A q \in Ticker : job'[q] = job[q],
           \A q \in Web : job'[q].pc \in Firing \cup {"idle"} /\ job'[q].pc # "fire"
    PROVE  FireInv'
  <1>1. clock \in Int /\ clock' \in Int /\ watermark \in Int
    BY SchedulerConstants DEF FireInv, Inv, TypeOK, Time, NoTime
  <1>2. (\A q \in Ticker : TickFit(job[q]))'
    BY DEF FireInv, TickFit, Behind
  <1>3. watermark' <= clock'
    BY <1>1 DEF FireInv
  <1>4. QED
    BY <1>2, <1>3 DEF FireInv, FiredOnce

\* _launch_run returns: to the tick, with one loop less, or to the request.
LEMMA Returned ==
    ASSUME FireInv, NEW p \in Launcher, Return(p, job[p])
    PROVE  /\ \A q \in Launcher \ {p} : job'[q] = job[q]
           /\ p \in Web => job'[p].pc = "idle"
           /\ p \in Ticker =>
                 /\ job'[p].pc = "fire" /\ job'[p].now = job[p].now
                 /\ job'[p].since = job[p].since
                 /\ job'[p].due = job[p].due \ {job[p].loop}
  <1>0. job[p] \in Job /\ job \in [Launcher -> Job]
    BY DEF FireInv, Inv, TypeOK
  <1> DEFINE k == [job[p] EXCEPT !.pc = "fire", !.due = @ \ {job[p].loop}, !.keep = {},
                                 !.loop = NoLoop, !.cur = NoRun]
  <1>1. /\ k \in Job /\ k.pc = "fire" /\ k.now = job[p].now /\ k.since = job[p].since
        /\ k.due = job[p].due \ {job[p].loop}
    BY <1>0 DEF Job
  <1>2. CASE p \in Ticker
    <2>1. Become(p, k)
      BY <1>2 DEF Return
    <2> HIDE DEF k
    <2>2. QED
      BY <1>0, <1>1, <1>2, <2>1, BecomeType, SchedulerConstants
  <1>3. CASE p \notin Ticker
    BY <1>0, <1>3, IdleType, BecomeType DEF Return
  <1>4. QED
    BY <1>2, <1>3

\* Firing the latest occurrence of a loop that is due, for the first time.
LEMMA FirstFire ==
    ASSUME FireInv, OneTicker, NEW p \in Ticker, NEW l \in Loop, Fires(l, job[p].now),
           job[p].pc \in {"fire", "spawn"}, l \in job[p].due
    PROVE  /\ FiredOnce'
           /\ \A m \in Loop, t \in Time : fired'[m][t] >= 1 =>
                 fired[m][t] >= 1 \/ (m = l /\ t <= job[p].now)
  <1>0. p \in Launcher
    BY DEF Launcher
  <1>1. fired \in [Loop -> [Time -> 0 .. 2]]
    BY DEF FireInv, Inv, TypeOK
  <1>2. TickFit(job[p])
    BY DEF FireInv
  <1>3. \A t \in Time : IsLatest(l, t, job[p].now) => fired[l][t] = 0
    <2> SUFFICES ASSUME NEW t \in Time, IsLatest(l, t, job[p].now)
                 PROVE  ~(fired[l][t] >= 1)
      BY <1>1
    <2>1. t > job[p].since
      BY <1>2 DEF TickFit, Firing
    <2>2. ~Behind(l, t, job[p])
      <3>1. watermark \in Int /\ job[p].since \in Int /\ t \in Int
        BY <1>0, SchedulerConstants DEF FireInv, Inv, TypeOK, Job, Time, NoTime
      <3>2. watermark <= job[p].since
        BY <1>2 DEF TickFit
      <3>3. ~(t <= watermark)
        BY <2>1, <3>1, <3>2
      <3>4. l \in ToFire(job[p])
        BY DEF ToFire
      <3>5. QED
        BY <3>3, <3>4 DEF Behind
    <2>3. QED
      BY <1>2, <2>2 DEF TickFit
  <1>4. ASSUME NEW t \in Time
        PROVE  fired'[l][t] = IF IsLatest(l, t, job[p].now) /\ fired[l][t] < 2
                              THEN fired[l][t] + 1 ELSE fired[l][t]
    BY <1>1 DEF Fires
  <1>5. \A m \in Loop \ {l} : fired'[m] = fired[m]
    BY <1>1 DEF Fires
  <1>6. FiredOnce'
    <2> SUFFICES ASSUME NEW m \in Loop, NEW t \in Time PROVE fired'[m][t] <= 1
      BY DEF FiredOnce
    <2>1. fired[m][t] <= 1 /\ fired[m][t] \in 0 .. 2
      BY <1>1 DEF FireInv, FiredOnce
    <2>2. CASE m = l
      BY <1>3, <1>4, <2>1, <2>2
    <2>3. QED
      BY <1>5, <2>1, <2>2
  <1>7. ASSUME NEW m \in Loop, NEW t \in Time, fired'[m][t] >= 1
        PROVE  fired[m][t] >= 1 \/ (m = l /\ t <= job[p].now)
    BY <1>4, <1>5, <1>7 DEF IsLatest
  <1>8. QED
    BY <1>6, <1>7

\* The tick goes on, with l fired.
LEMMA FireStep ==
    ASSUME FireInv, Inv', OneTicker, NEW p \in Ticker, NEW l \in Loop,
           UNCHANGED <<clock, watermark>>,
           Fires(l, job[p].now), job[p].pc \in {"fire", "spawn"},
           l \in job[p].due, \A m \in job[p].due : l <= m, l \notin Raising, BrokenFirst,
           \A q \in Launcher \ {p} : job'[q] = job[q],
           job'[p].now = job[p].now, job'[p].since = job[p].since,
           \/ job'[p].pc = "fire" /\ job'[p].due = job[p].due \ {l}
           \/ /\ job'[p].pc = "note" /\ job'[p].due = job[p].due
              /\ job'[p].loop = l /\ l \in Autorun
    PROVE  FireInv'
  <1>0. p \in Launcher /\ job[p] \in Job /\ TickFit(job[p])
    BY DEF FireInv, Inv, TypeOK, Launcher
  <1>1. /\ FiredOnce'
        /\ \A m \in Loop, t \in Time : fired'[m][t] >= 1 =>
              fired[m][t] >= 1 \/ (m = l /\ t <= job[p].now)
    BY FirstFire
  <1>2. job[p].due \cap Raising = {}
    <2> SUFFICES ASSUME NEW b \in job[p].due, b \in Raising PROVE FALSE
      OBVIOUS
    <2>1. b < l /\ l <= b /\ b \in Int /\ l \in Int
      BY <1>0, SchedulerConstants DEF BrokenFirst, Raising, Job
    <2>2. QED
      BY <2>1
  <1>3. ToFire(job'[p]) = ToFire(job[p]) \ {l}
    BY DEF ToFire
  <1>5. TickFit(job[p])'
    <2>1. job'[p].pc \in Firing /\ job[p].pc \in Firing
      BY DEF Firing
    <2>2. ASSUME NEW m \in Loop, NEW t \in Time, fired'[m][t] >= 1
          PROVE  Behind(m, t, job[p])'
      <3>1. CASE fired[m][t] >= 1
        BY <1>0, <1>3, <2>1, <3>1 DEF TickFit, Behind
      <3>2. CASE m = l /\ t <= job[p].now
        BY <1>3, <2>1, <3>2 DEF Behind
      <3>3. QED
        BY <1>1, <2>2, <3>1, <3>2
    <2>3. job'[p].due \subseteq job[p].due
      OBVIOUS
    <2>4. job'[p].due \cap Raising = {}
      BY <1>2, <2>3
    <2>5. \A m \in job'[p].due, t \in Time : IsLatest(m, t, job'[p].now) => t > job'[p].since
      BY <1>0, <2>1, <2>3 DEF TickFit
    <2>6. job[p].pc # "idle" /\ job'[p].pc # "idle"
      BY <2>1 DEF Firing
    <2>7. QED
      BY <1>0, <2>1, <2>2, <2>4, <2>5, <2>6 DEF TickFit
  <1>6. \A q \in Ticker : q = p
    BY DEF OneTicker
  <1>7. \A q \in Web : job'[q] = job[q]
    BY SchedulerConstants DEF Launcher
  <1>8. QED
    BY <1>1, <1>5, <1>6, <1>7 DEF FireInv

\* The tick goes on without firing.
LEMMA FiringGoesOn ==
    ASSUME FireInv, Inv', OneTicker, NEW p \in Ticker, UNCHANGED <<clock, fired, watermark>>,
           \A q \in Launcher \ {p} : job'[q] = job[q],
           job[p].pc \in Firing, job'[p].pc \in Firing,
           job'[p].now = job[p].now, job'[p].since = job[p].since,
           job'[p].due \subseteq job[p].due, ToFire(job'[p]) \subseteq ToFire(job[p]),
           job'[p].pc # "fire" =>
              /\ job'[p].loop \in job'[p].due /\ job'[p].loop \in Autorun
              /\ \A m \in job'[p].due : job'[p].loop <= m
    PROVE  FireInv'
  <1>1. TickFit(job[p]) /\ p \in Launcher
    BY DEF FireInv, Launcher
  <1>2. job[p].pc # "idle" /\ job'[p].pc # "idle"
    BY DEF Firing
  <1>3. job'[p].due \cap Raising # {} => job[p].due \cap Raising # {}
    OBVIOUS
  <1>4. \A l \in Loop, t \in Time : fired[l][t] >= 1 => Behind(l, t, job'[p])
    BY <1>1 DEF TickFit, Behind
  <1>5. TickFit(job'[p])
    <2>1. watermark <= job'[p].now /\ watermark <= job'[p].since
      BY <1>1, <1>2 DEF TickFit
    <2>2. \A l \in job'[p].due, t \in Time : IsLatest(l, t, job'[p].now) => t > job'[p].since
      BY <1>1 DEF TickFit
    <2>3. job'[p].due \cap Raising # {} =>
             \A l \in Loop, t \in Time : fired[l][t] >= 1 => t <= watermark
      BY <1>1, <1>3 DEF TickFit
    <2>4. QED
      BY <1>4, <2>1, <2>2, <2>3 DEF TickFit
  <1>6. QED
    BY <1>5, TickOnlyStep

\* So does the reaping that comes first.
LEMMA ReapingGoesOn ==
    ASSUME FireInv, Inv', OneTicker, NEW p \in Ticker, UNCHANGED <<clock, fired, watermark>>,
           \A q \in Launcher \ {p} : job'[q] = job[q],
           job[p].pc \in Reaping, job'[p].pc \in Reaping,
           job'[p].now = job[p].now, job'[p].since = job[p].since
    PROVE  FireInv'
  <1>1. TickFit(job[p])
    BY DEF FireInv
  <1>2. job[p].pc # "idle" /\ job[p].pc \notin Firing /\ job'[p].pc # "idle" /\ job'[p].pc \notin Firing
    BY DEF Reaping, Firing
  <1>3. TickFit(job'[p])
    BY <1>1, <1>2 DEF TickFit, Behind
  <1>4. QED
    BY <1>3, TickOnlyStep

\* Only a tick reaps.
LEMMA Reapers ==
    ASSUME FireInv, NEW p \in Launcher, job[p].pc \in Reaping \cup {"fire"}
    PROVE  p \in Ticker
  BY DEF FireInv, Launcher, Reaping, Firing

\* A reap fires nothing.
LEMMA FireReap ==
    ASSUME FireInv, Inv', OneTicker, NEW p \in Launcher,
           \/ \E r \in Run : ReapFinished(p, r) \/ ReapKeep(p, r) \/ ReapTerminate(p, r)
           \/ ReapCheck(p) \/ ReapStamp(p) \/ ReapFree(p)
    PROVE  FireInv'
  <1>0. job \in [Launcher -> Job] /\ job[p] \in Job
    BY DEF FireInv, Inv, TypeOK
  <1> DEFINE Goes == /\ job'[p].pc \in Reaping
                     /\ job'[p].now = job[p].now /\ job'[p].since = job[p].since
                     /\ \A q \in Launcher \ {p} : job'[q] = job[q]
                     /\ job[p].pc \in Reaping
                     /\ UNCHANGED <<clock, fired, watermark>>
  <1>1. ASSUME NEW r \in Run, ReapFinished(p, r) \/ ReapKeep(p, r) PROVE Goes
    <2>1. ASSUME NEW td, NEW kp, Become(p, [job[p] EXCEPT !.todo = td, !.keep = kp]),
                 job[p].pc = "reap"
          PROVE  /\ job'[p].pc = "reap"
                 /\ job'[p].now = job[p].now /\ job'[p].since = job[p].since
                 /\ \A q \in Launcher \ {p} : job'[q] = job[q]
      BY <1>0, <2>1 DEF Become, Job
    <2>2. CASE ReapFinished(p, r)
      BY <1>0, <2>2 DEF ReapFinished, Become, Job, Reaping
    <2>3. CASE ReapKeep(p, r)
      BY <1>0, <2>1, <2>3 DEF ReapKeep, Reaping
    <2>4. QED
      BY <1>1, <2>2, <2>3
  <1>2. ASSUME NEW r \in Run, ReapTerminate(p, r) PROVE Goes
    BY <1>0, <1>2 DEF ReapTerminate, Become, Job, Reaping
  <1>3. ASSUME ReapCheck(p) PROVE Goes
    BY <1>0, <1>3 DEF ReapCheck, Become, Job, Reaping
  <1>4. ASSUME ReapStamp(p) PROVE Goes
    BY <1>0, <1>4 DEF ReapStamp, Become, Job, Reaping
  <1>5. ASSUME ReapFree(p) PROVE Goes
    BY <1>0, <1>5 DEF ReapFree, Become, Job, Reaping
  <1>6. Goes
    BY <1>1, <1>2, <1>3, <1>4, <1>5
  <1>7. p \in Ticker
    BY <1>6, Reapers
  <1>8. QED
    BY <1>6, <1>7, ReapingGoesOn

\* What a tick does between its reaping and its end, but for the firing itself.
LEMMA FireQuiet ==
    ASSUME FireInv, Inv', OneTicker, NEW p \in Ticker,
           \/ \E l \in Loop : FireLaunch(p, l) \/ (FireQueued(p, l) /\ UNCHANGED fired)
           \/ LaunchSkips(p) \/ RecordRead(p) \/ RecordWrite(p)
           \/ \E r \in Run : LaunchLocks(p, r)
    PROVE  FireInv'
  <1>0. job \in [Launcher -> Job] /\ job[p] \in Job /\ p \in Launcher /\ TickFit(job[p])
    BY DEF FireInv, Inv, TypeOK, Launcher
  <1> DEFINE Goes == /\ \A q \in Launcher \ {p} : job'[q] = job[q]
                     /\ job[p].pc \in Firing /\ job'[p].pc \in Firing
                     /\ job'[p].now = job[p].now /\ job'[p].since = job[p].since
                     /\ job'[p].due \subseteq job[p].due
                     /\ ToFire(job'[p]) \subseteq ToFire(job[p])
                     /\ job'[p].pc # "fire" =>
                           /\ job'[p].loop \in job'[p].due /\ job'[p].loop \in Autorun
                           /\ \A m \in job'[p].due : job'[p].loop <= m
                     /\ UNCHANGED <<clock, fired, watermark>>
  <1>1. ASSUME NEW l \in Loop, FireLaunch(p, l) PROVE Goes
    <2>1. /\ job'[p].pc = "lock" /\ job'[p].loop = l /\ job'[p].due = job[p].due
          /\ job'[p].now = job[p].now /\ job'[p].since = job[p].since
          /\ \A q \in Launcher \ {p} : job'[q] = job[q]
      BY <1>0, <1>1 DEF FireLaunch, Become, Job
    <2>2. job[p].pc = "fire" /\ l \in job[p].due /\ l \in Autorun /\ \A m \in job[p].due : l <= m
      BY <1>1 DEF FireLaunch, FiresNext
    <2>3. QED
      BY <1>1, <2>1, <2>2 DEF FireLaunch, Firing, ToFire
  <1>2. ASSUME NEW l \in Loop, FireQueued(p, l), UNCHANGED fired PROVE Goes
    <2>1. /\ job[p].pc = "fire" /\ job'[p].pc = "fire" /\ job'[p].due = job[p].due \ {l}
          /\ job'[p].now = job[p].now /\ job'[p].since = job[p].since
          /\ \A q \in Launcher \ {p} : job'[q] = job[q]
      BY <1>0, <1>2 DEF FireQueued, FiresNext, Become, Job
    <2>2. QED
      BY <1>2, <2>1 DEF FireQueued, Firing, ToFire
  <1>3. ASSUME LaunchSkips(p) \/ RecordWrite(p) PROVE Goes
    <2>1. Return(p, job[p]) /\ job[p].pc \in {"lock", "append"} /\ UNCHANGED <<clock, fired, watermark>>
      BY <1>3 DEF LaunchSkips, RecordWrite
    <2>2. /\ job'[p].pc = "fire" /\ job'[p].due = job[p].due \ {job[p].loop}
          /\ job'[p].now = job[p].now /\ job'[p].since = job[p].since
          /\ \A q \in Launcher \ {p} : job'[q] = job[q]
      BY <1>0, <2>1, Returned
    <2>3. QED
      BY <2>1, <2>2 DEF Firing, ToFire
  <1>4. ASSUME RecordRead(p) PROVE Goes
    <2>1. /\ job[p].pc = "note" /\ job'[p].pc = "append"
          /\ job'[p].loop = job[p].loop /\ job'[p].due = job[p].due
          /\ job'[p].now = job[p].now /\ job'[p].since = job[p].since
          /\ \A q \in Launcher \ {p} : job'[q] = job[q]
      BY <1>0, <1>4 DEF RecordRead, Become, Job
    <2>2. QED
      BY <1>0, <1>4, <2>1 DEF RecordRead, Firing, ToFire, TickFit
  <1>5. ASSUME NEW r \in Run, LaunchLocks(p, r) PROVE Goes
    <2>1. /\ job[p].pc = "lock" /\ job'[p].pc = "spawn"
          /\ job'[p].loop = job[p].loop /\ job'[p].due = job[p].due
          /\ job'[p].now = job[p].now /\ job'[p].since = job[p].since
          /\ \A q \in Launcher \ {p} : job'[q] = job[q]
      BY <1>0, <1>5 DEF LaunchLocks, Become, Job
    <2>2. QED
      BY <1>0, <1>5, <2>1 DEF LaunchLocks, Firing, ToFire, TickFit
  <1>6. Goes
    BY <1>1, <1>2, <1>3, <1>4, <1>5
  <1>7. QED
    BY <1>6, FiringGoesOn

\* The firing.
LEMMA FireFires ==
    ASSUME FireInv, Inv', OneTicker, BrokenFirst, NEW p \in Ticker,
           \/ \E l \in Loop : FireQueued(p, l) /\ Fires(l, job[p].now)
           \/ Spawn(p)
    PROVE  FireInv'
  <1>0. job \in [Launcher -> Job] /\ job[p] \in Job /\ p \in Launcher /\ TickFit(job[p])
    BY DEF FireInv, Inv, TypeOK, Launcher
  <1>1. ASSUME NEW l \in Loop, FireQueued(p, l), Fires(l, job[p].now) PROVE FireInv'
    <2>1. /\ job'[p].pc = "fire" /\ job'[p].due = job[p].due \ {l}
          /\ job'[p].now = job[p].now /\ job'[p].since = job[p].since
          /\ \A q \in Launcher \ {p} : job'[q] = job[q]
      BY <1>0, <1>1 DEF FireQueued, FiresNext, Become, Job
    <2>2. /\ job[p].pc = "fire" /\ l \in job[p].due /\ \A m \in job[p].due : l <= m
          /\ l \notin Raising /\ UNCHANGED <<clock, watermark>>
      BY <1>1 DEF FireQueued, FiresNext, Raising
    <2>3. QED
      BY <1>1, <2>1, <2>2, FireStep
  <1>2. CASE Spawn(p)
    <2>1. PICK l \in Loop : l = job[p].loop
      BY <1>0, <1>2 DEF Spawn, TickFit, Firing, Job
    <2>2. /\ job[p].pc = "spawn" /\ l \in job[p].due /\ \A m \in job[p].due : l <= m
          /\ l \in Autorun /\ l \notin Raising /\ UNCHANGED <<clock, watermark>>
          /\ Fires(l, job[p].now)
      BY <1>0, <1>2, <2>1 DEF Spawn, TickFit, Firing, Raising
    <2>3. /\ \A q \in Launcher \ {p} : job'[q] = job[q]
          /\ job'[p].now = job[p].now /\ job'[p].since = job[p].since
          /\ \/ job'[p].pc = "fire" /\ job'[p].due = job[p].due \ {l}
             \/ job'[p].pc = "note" /\ job'[p].due = job[p].due /\ job'[p].loop = l
      <3>1. CASE Return(p, job[p])
        BY <1>0, <2>1, <3>1, Returned
      <3>2. CASE Become(p, [job[p] EXCEPT !.pc = "note"])
        BY <1>0, <2>1, <3>2 DEF Become, Job
      <3>3. QED
        BY <1>2, <3>1, <3>2 DEF Spawn
    <2>4. QED
      BY <2>2, <2>3, FireStep
  <1>3. QED
    BY <1>1, <1>2

\* A tick starts, turns from reaping to firing, ends, or is ended by an exception.
LEMMA FireTurns ==
    ASSUME FireInv, Inv', OneTicker, NEW p \in Ticker,
           TickStart(p) \/ ReapSave(p) \/ TickEnd(p) \/ LaunchRaises(p)
    PROVE  FireInv'
  <1>0. /\ job \in [Launcher -> Job] /\ job[p] \in Job /\ p \in Launcher /\ TickFit(job[p])
        /\ JobFit(p, job[p], run, lock, clock)
    BY DEF FireInv, Inv, TypeOK, Jobs, Launcher
  <1>n. clock \in Nat /\ watermark \in Int /\ watermark <= clock
    BY SchedulerConstants DEF FireInv, Inv, TypeOK, Time, NoTime
  <1>1. CASE TickStart(p)
    <2>1. /\ job[p].pc = "idle" /\ job'[p].pc = "reap" /\ job'[p].now = clock
          /\ job'[p].since = IF watermark = NoTime THEN clock - 1 ELSE watermark
          /\ \A q \in Launcher \ {p} : job'[q] = job[q]
      BY <1>0, <1>1 DEF TickStart, Become, IdleJob
    <2>2. watermark <= job'[p].since /\ watermark <= job'[p].now
      BY <1>n, <2>1 DEF NoTime
    <2>3. TickFit(job'[p])
      BY <1>0, <2>1, <2>2 DEF TickFit, Behind, Firing
    <2>4. QED
      BY <1>1, <2>1, <2>3, TickOnlyStep DEF TickStart
  <1>2. CASE ReapSave(p)
    <2>1. /\ job[p].pc = "reap" /\ job'[p].pc = "fire" /\ job'[p].now = job[p].now
          /\ job'[p].since = job[p].since /\ job'[p].due = Due(job[p].since, job[p].now)
          /\ \A q \in Launcher \ {p} : job'[q] = job[q]
      BY <1>0, <1>2 DEF ReapSave, Become, Job
    <2>2. ASSUME NEW l \in job'[p].due, NEW t \in Time, IsLatest(l, t, job'[p].now)
          PROVE  t > job'[p].since
      <3>1. PICK u \in FiresAt[l] : IsLatest(l, u, job[p].now) /\ u > job[p].since
        BY <2>1 DEF Due
      <3>2. t \in Int /\ u \in Int
        BY <2>1, SchedulerConstants DEF Time, Due
      <3>3. t = u
        BY <2>1, <2>2, <3>1, <3>2 DEF IsLatest
      <3>4. QED
        BY <2>1, <3>1, <3>3
    <2>3. TickFit(job'[p])
      <3>1. \A l \in Loop, t \in Time : fired[l][t] >= 1 => t <= watermark
        BY <1>0, <2>1 DEF TickFit, Behind, Firing
      <3>2. watermark <= job'[p].now /\ watermark <= job'[p].since
        BY <1>0, <2>1 DEF TickFit
      <3>3. QED
        BY <2>1, <2>2, <3>1, <3>2 DEF TickFit, Behind, Firing
    <2>4. QED
      BY <1>2, <2>1, <2>3, TickOnlyStep DEF ReapSave
  <1>3. CASE TickEnd(p)
    <2>1. /\ job[p].pc = "fire" /\ job'[p].pc = "idle" /\ watermark' = job[p].now
          /\ \A q \in Launcher \ {p} : job'[q] = job[q]
          /\ UNCHANGED <<clock, fired>>
      BY <1>0, <1>3 DEF TickEnd, Become, IdleJob
    <2>2. job[p].now \in Int /\ job[p].now <= clock /\ watermark <= job[p].now
      BY <1>0, <2>1 DEF JobFit, TickFit, Time
    <2>3. \A l \in Loop, t \in Time : fired[l][t] >= 1 => t <= job[p].now
      BY <1>0, <1>n, <2>1, <2>2, SchedulerConstants DEF TickFit, Behind, Time
    <2>4. TickFit(job[p])'
      BY <2>1, <2>3 DEF TickFit, Behind, Firing
    <2>5. \A q \in Ticker : q = p
      BY DEF OneTicker
    <2>6. \A q \in Web : job'[q] = job[q]
      BY <2>1, SchedulerConstants DEF Launcher
    <2>7. QED
      BY <2>1, <2>2, <2>4, <2>5, <2>6 DEF FireInv, FiredOnce
  <1>4. CASE LaunchRaises(p)
    <2>1. /\ job[p].pc = "spawn" /\ job'[p].pc = "idle" /\ job[p].loop \in Broken
          /\ \A q \in Launcher \ {p} : job'[q] = job[q]
          /\ UNCHANGED <<clock, fired, watermark>>
      BY <1>0, <1>4 DEF LaunchRaises, Become, IdleJob
    <2>2. job[p].loop \in job[p].due \cap Raising
      BY <1>0, <2>1 DEF TickFit, Firing, Raising
    <2>3. \A l \in Loop, t \in Time : fired[l][t] >= 1 => t <= watermark
      BY <1>0, <2>1, <2>2 DEF TickFit, Firing
    <2>4. TickFit(job'[p])
      BY <2>1, <2>3 DEF TickFit, Behind, Firing
    <2>5. QED
      BY <2>1, <2>4, TickOnlyStep
  <1>5. QED
    BY <1>1, <1>2, <1>3, <1>4

\* The dashboard launches too, and may die at it: it fires no occurrence.
LEMMA FireWeb ==
    ASSUME FireInv, Inv', NEW p \in Web,
           \/ \E l \in Loop : RequestLaunch(p, l)
           \/ LaunchSkips(p) \/ LaunchRaises(p) \/ Spawn(p) \/ RecordRead(p) \/ RecordWrite(p)
           \/ \E r \in Run : LaunchLocks(p, r)
           \/ Crash(p) \/ WebCollects(p)
    PROVE  FireInv'
  <1>0. /\ job \in [Launcher -> Job] /\ p \in Launcher /\ job[p] \in Job /\ p \notin Ticker
        /\ job[p].pc \in Firing \cup {"idle"} /\ job[p].pc # "fire" /\ clock \in Int
    BY SchedulerConstants DEF FireInv, Inv, TypeOK, Launcher, Time
  <1> DEFINE Goes == /\ \A q \in Launcher \ {p} : job'[q] = job[q]
                     /\ job'[p].pc \in Firing \cup {"idle"} /\ job'[p].pc # "fire"
                     /\ UNCHANGED <<clock, fired, watermark>>
  <1>1. ASSUME NEW l \in Loop, RequestLaunch(p, l) PROVE Goes
    BY <1>0, <1>1 DEF RequestLaunch, Become, IdleJob, Firing
  <1>2. ASSUME Return(p, job[p]), UNCHANGED <<clock, fired, watermark>> PROVE Goes
    BY <1>0, <1>2, Returned
  <1>3. ASSUME LaunchSkips(p) \/ RecordWrite(p) PROVE Goes
    BY <1>2, <1>3 DEF LaunchSkips, RecordWrite
  <1>4. ASSUME LaunchRaises(p) PROVE Goes
    BY <1>0, <1>4 DEF LaunchRaises, Become, IdleJob
  <1>5. ASSUME Spawn(p) PROVE Goes
    <2>1. UNCHANGED <<clock, fired, watermark>>
      BY <1>0, <1>5 DEF Spawn
    <2>2. CASE Become(p, [job[p] EXCEPT !.pc = "note"])
      BY <1>0, <2>1, <2>2 DEF Become, Job, Firing
    <2>3. QED
      BY <1>2, <1>5, <2>1, <2>2 DEF Spawn
  <1>6. ASSUME RecordRead(p) PROVE Goes
    BY <1>0, <1>6 DEF RecordRead, Become, Job, Firing
  <1>7. ASSUME NEW r \in Run, LaunchLocks(p, r) PROVE Goes
    BY <1>0, <1>7 DEF LaunchLocks, Become, Job, Firing
  <1>8. ASSUME Crash(p) PROVE Goes
    BY <1>0, <1>8 DEF Crash, Become, IdleJob
  <1>9. ASSUME WebCollects(p) PROVE Goes
    BY <1>0, <1>9 DEF WebCollects
  <1>10. Goes
    BY <1>1, <1>3, <1>4, <1>5, <1>6, <1>7, <1>8, <1>9
  <1>11. \A q \in Ticker : job'[q] = job[q]
    BY <1>0, <1>10 DEF Launcher
  <1>12. \A q \in Web : job'[q].pc \in Firing \cup {"idle"} /\ job'[q].pc # "fire"
    BY <1>10 DEF FireInv, Launcher
  <1>13. QED
    BY <1>0, <1>10, <1>11, <1>12, OtherStep

\* Every step keeps what is held of the firings.
LEMMA FireInductive ==
    ASSUME OneTicker, BrokenFirst, FireInv, [Next]_vars
    PROVE  FireInv'
  <1>0. Inv'
    BY Inductive DEF FireInv
  <1>1. ASSUME NEW p \in Launcher, Progress(p) PROVE FireInv'
    <2>1. CASE \/ \E r \in Run : ReapFinished(p, r) \/ ReapKeep(p, r) \/ ReapTerminate(p, r)
               \/ ReapCheck(p) \/ ReapStamp(p) \/ ReapFree(p)
      BY <1>0, <2>1, FireReap
    <2>2. CASE ReapSave(p) \/ TickEnd(p)
      <3>1. p \in Ticker
        BY <2>2, Reapers DEF ReapSave, TickEnd, Reaping
      <3>2. QED
        BY <1>0, <2>2, <3>1, FireTurns
    <2>3. ASSUME NEW l \in Loop, FireQueued(p, l) \/ FireLaunch(p, l) PROVE FireInv'
      <3>1. p \in Ticker
        BY <2>3, Reapers DEF FireQueued, FireLaunch, FiresNext
      <3>2. CASE FireQueued(p, l)
        BY <1>0, <3>1, <3>2, FireFires, FireQuiet DEF FireQueued
      <3>3. CASE FireLaunch(p, l)
        BY <1>0, <3>1, <3>3, FireQuiet
      <3>4. QED
        BY <2>3, <3>2, <3>3
    <2>4. CASE \/ LaunchSkips(p) \/ LaunchRaises(p) \/ Spawn(p)
               \/ \E r \in Run : LaunchLocks(p, r)
               \/ RecordRead(p) \/ RecordWrite(p)
      <3>1. CASE p \in Ticker
        BY <1>0, <2>4, <3>1, FireQuiet, FireFires, FireTurns
      <3>2. CASE p \in Web
        BY <1>0, <2>4, <3>2, FireWeb
      <3>3. QED
        BY <3>1, <3>2 DEF Launcher
    <2>5. QED
      BY <1>1, <2>1, <2>2, <2>3, <2>4 DEF Progress
  <1>2. ASSUME NEW p \in Launcher, TickStart(p) PROVE FireInv'
    BY <1>0, <1>2, FireTurns DEF TickStart
  <1>3. ASSUME NEW p \in Launcher,
               \/ Crash(p) \/ WebCollects(p) \/ \E l \in Loop : RequestLaunch(p, l)
        PROVE  FireInv'
    <2>1. p \in Web
      BY <1>3 DEF Crash, WebCollects, RequestLaunch, OneTicker, Launcher
    <2>2. QED
      BY <1>0, <1>3, <2>1, FireWeb
  <1>4. ASSUME UNCHANGED <<job, fired, watermark>>, clock' >= clock PROVE FireInv'
    BY <1>0, <1>4, OtherStep DEF FireInv
  <1>5. clock \in Int
    BY DEF FireInv, Inv, TypeOK, Time
  <1>6. CASE TimePasses
    BY <1>4, <1>5, <1>6 DEF TimePasses
  <1>7. ASSUME NEW r \in Run, RunStep(r) \/ AgentCommits(r) PROVE FireInv'
    BY <1>4, <1>5, <1>7
       DEF RunStep, AgentCommits, HookLooks, HookWrites, AgentEnds, ShellLooks, ShellWrites
  <1>8. CASE UNCHANGED vars
    BY <1>4, <1>5, <1>8 DEF vars
  <1>9. QED
    BY <1>1, <1>2, <1>3, <1>6, <1>7, <1>8 DEF Next

\* It holds at first.
LEMMA FireInitially == Init => FireInv
  <1> SUFFICES ASSUME Init PROVE FireInv
    OBVIOUS
  <1>1. Inv
    BY InitInv
  <1>2. \A p \in Launcher : job[p].pc = "idle"
    BY IdleType DEF Init
  <1>3. \A l \in Loop, t \in Time : fired[l][t] = 0
    BY DEF Init
  <1>4. watermark <= clock
    BY DEF Init, NoTime
  <1>5. QED
    BY <1>1, <1>2, <1>3, <1>4 DEF FireInv, TickFit, FiredOnce, Firing, Launcher

\* No occurrence of a schedule is fired twice (scheduler.tick, _save_tick), if only one
\* tick runs at a time and lives, and a loop whose prompt is missing comes before those
\* that launch: an exception out of _launch_run skips the watermark of what was fired.
THEOREM FiresOnce ==
    ASSUME OneTicker, BrokenFirst
    PROVE  Spec => []FiredOnce
  <1>1. Init => FireInv
    BY FireInitially
  <1>2. FireInv /\ [Next]_vars => FireInv'
    BY FireInductive
  <1>3. FireInv => FiredOnce
    BY DEF FireInv
  <1>4. QED
    BY <1>1, <1>2, <1>3, PTL DEF Spec

-----------------------------------------------------------------------------
(* RunsWatched and ApprovalOnce, for one launcher that does not die: two of them write   *)
(* launches.json over each other, one that dies leaves a run out of it or asks again.    *)

\* The run a launcher is about to record.
Noted(j) == IF j.pc \in {"note", "append"} THEN {j.cur} ELSE {}

WatchFit(j) ==
    /\ j.pc \in Reaping =>
          /\ \A r \in registry : run[r].shell = "alive" => r \in j.todo \cup j.keep
          /\ j.todo \cap j.keep = {}
    /\ j.pc = "append" => j.keep = registry
    /\ \A r \in registry \cup j.todo \cup j.keep \cup Noted(j) : run[r].shell # "none"
    /\ \A r \in Run : requests[r] >= 1 =>
          /\ run[r].shell # "none"
          /\ r \notin j.todo \cup j.keep \cup Noted(j)
          /\ j.pc \in Reaping \/ r \notin registry

WatchInv ==
    /\ Inv
    /\ RunsWatched
    /\ ApprovalOnce
    /\ \A p \in Launcher : WatchFit(job[p])

\* The scheduling the two properties need.
OneLauncher == (\A p, q \in Launcher : p = q) /\ CrashProne = {}

\* A run that is not started and does not come under supervision.
Ages(r) ==
    /\ run'[r].shell = "alive" /\ Supervised(r)' => run[r].shell = "alive" /\ Supervised(r)
    /\ run'[r].shell = "alive" => run[r].shell = "alive"
    /\ run[r].shell # "none" => run'[r].shell # "none"

\* A step of the launcher that starts nothing, records nothing and asks for nothing.
LEMMA WatchStep ==
    ASSUME WatchInv, Inv', OneLauncher, NEW p \in Launcher, UNCHANGED <<registry, requests>>,
           \A r \in Run : Ages(r),
           Noted(job[p]) \subseteq Noted(job'[p]), WatchFit(job[p])'
    PROVE  WatchInv'
  <1>1. \A q \in Launcher : q = p
    BY DEF OneLauncher
  <1>2. RunsWatched'
    <2> SUFFICES ASSUME NEW r \in Run, run'[r].shell = "alive", Supervised(r)', r \notin registry
                 PROVE  job'[p].cur = r /\ job'[p].pc \in {"note", "append"}
      BY DEF RunsWatched
    <2>1. run[r].shell = "alive" /\ Supervised(r)
      BY DEF Ages
    <2>2. r \in Noted(job[p])
      BY <1>1, <2>1 DEF WatchInv, RunsWatched, Noted
    <2>3. QED
      BY <2>2 DEF Noted
  <1>3. QED
    BY <1>1, <1>2 DEF WatchInv, ApprovalOnce

\* A step of a run, or of the clock.
LEMMA WatchRun ==
    ASSUME WatchInv, Inv', UNCHANGED <<job, registry, requests>>, \A r \in Run : Ages(r)
    PROVE  WatchInv'
  <1>1. ASSUME NEW p \in Launcher PROVE WatchFit(job[p])'
    <2>1. WatchFit(job[p]) /\ job[p] \in Job /\ registry \subseteq Run
      BY DEF WatchInv, Inv, TypeOK
    <2>2. job[p].todo \subseteq Run /\ job[p].keep \subseteq Run /\ Noted(job[p]) \cap Run = Noted(job[p])
      BY <2>1 DEF Job, Noted, WatchInv, Inv, Jobs, JobFit
    <2>3. QED
      BY <2>1, <2>2 DEF WatchFit, Ages
  <1>2. RunsWatched'
    BY DEF WatchInv, RunsWatched, Ages
  <1>3. QED
    BY <1>1, <1>2 DEF WatchInv, ApprovalOnce

\* A tick or a request starts.
LEMMA WatchStarts ==
    ASSUME WatchInv, Inv', OneLauncher, NEW p \in Launcher,
           TickStart(p) \/ \E l \in Loop : RequestLaunch(p, l)
    PROVE  WatchInv'
  <1>0. job \in [Launcher -> Job] /\ WatchFit(job[p])
    BY DEF WatchInv, Inv, TypeOK
  <1>1. /\ job[p].pc = "idle" /\ job'[p].keep = {} /\ job'[p].pc \in {"reap", "lock"}
        /\ job'[p].todo = IF job'[p].pc = "reap" THEN registry ELSE {}
        /\ UNCHANGED <<run, registry, requests>>
    <2>1. CASE TickStart(p)
      BY <1>0, <2>1 DEF TickStart, Become, IdleJob
    <2>2. ASSUME NEW l \in Loop, RequestLaunch(p, l)
          PROVE  /\ job[p].pc = "idle" /\ job'[p].pc = "lock"
                 /\ job'[p].keep = {} /\ job'[p].todo = {}
                 /\ UNCHANGED <<run, registry, requests>>
      BY <1>0, <2>2 DEF RequestLaunch, Become, IdleJob
    <2>3. QED
      BY <2>1, <2>2
  <1>2. Noted(job[p]) = {} /\ Noted(job'[p]) = {}
    BY <1>1 DEF Noted
  <1>3. \A r \in Run : requests[r] >= 1 => run[r].shell # "none" /\ r \notin registry
    BY <1>0, <1>1 DEF WatchFit, Reaping
  <1>4. WatchFit(job[p])'
    <2>1. job'[p].todo \subseteq registry
      BY <1>1
    <2>2. job'[p].pc \in Reaping => job'[p].todo = registry
      BY <1>1 DEF Reaping
    <2>3. \A r \in registry : run[r].shell # "none"
      BY <1>0 DEF WatchFit
    <2>4. QED
      BY <1>1, <1>2, <1>3, <2>1, <2>2, <2>3 DEF WatchFit
  <1>5. \A r \in Run : Ages(r)
    BY <1>1 DEF Ages, Supervised
  <1>6. QED
    BY <1>1, <1>2, <1>4, <1>5, WatchStep

\* The reaper goes through the launches.
LEMMA WatchReap ==
    ASSUME WatchInv, Inv', OneLauncher, NEW p \in Launcher,
           \/ \E r \in Run : ReapKeep(p, r) \/ ReapTerminate(p, r)
           \/ ReapCheck(p) \/ ReapStamp(p) \/ ReapFree(p)
    PROVE  WatchInv'
  <1>0. /\ job \in [Launcher -> Job] /\ job[p] \in Job /\ WatchFit(job[p])
        /\ JobFit(p, job[p], run, lock, clock)
        /\ run \in [Run -> RunState] /\ \A r \in Run : run[r] \in RunState
        /\ registry \subseteq Run
    BY DEF WatchInv, Inv, TypeOK, Jobs
  <1> DEFINE Goes == /\ job[p].pc \in Reaping /\ job'[p].pc \in Reaping
                     /\ UNCHANGED <<registry, requests>>
                     /\ \A r \in Run : Ages(r)
                     /\ \/ job'[p].todo = job[p].todo /\ job'[p].keep = job[p].keep
                        \/ \E r \in job[p].todo : /\ job'[p].todo = job[p].todo \ {r}
                                                  /\ job'[p].keep = job[p].keep \cup {r}
                        \/ \E r \in Run : /\ job'[p].todo = job[p].todo \ {r}
                                          /\ job'[p].keep = job[p].keep
                                          /\ run'[r].shell # "alive"
  <1>1. ASSUME NEW r \in Run, ReapKeep(p, r) PROVE Goes
    <2>1. /\ job[p].pc = "reap" /\ job'[p].pc = "reap" /\ r \in job[p].todo
          /\ job'[p].todo = job[p].todo \ {r} /\ job'[p].keep = job[p].keep \cup {r}
          /\ UNCHANGED <<run, registry, requests>>
      BY <1>0, <1>1 DEF ReapKeep, Become, Job
    <2>2. QED
      BY <2>1 DEF Ages, Supervised, Reaping
  <1>2. ASSUME NEW r \in Run, ReapTerminate(p, r) PROVE Goes
    <2>1. /\ job[p].pc = "reap" /\ job'[p].pc = "check"
          /\ job'[p].todo = job[p].todo /\ job'[p].keep = job[p].keep
          /\ UNCHANGED <<registry, requests>>
      BY <1>0, <1>2 DEF ReapTerminate, Become, Job
    <2>2. \A s \in Run : Ages(s)
      BY <1>0, <1>2 DEF ReapTerminate, Ages, Supervised, RunState
    <2>3. QED
      BY <2>1, <2>2 DEF Reaping
  <1>3. ASSUME ReapCheck(p) \/ ReapStamp(p) PROVE Goes
    <2>1. /\ job[p].pc \in {"check", "stamp"} /\ job'[p].pc \in {"stamp", "free"}
          /\ job'[p].todo = job[p].todo /\ job'[p].keep = job[p].keep
          /\ UNCHANGED <<run, registry, requests>>
      BY <1>0, <1>3 DEF ReapCheck, ReapStamp, Become, Job
    <2>2. QED
      BY <2>1 DEF Ages, Supervised, Reaping
  <1>4. ASSUME ReapFree(p) PROVE Goes
    <2>1. PICK r \in Run : r = job[p].cur
      BY <1>0, <1>4 DEF ReapFree, JobFit
    <2>2. /\ job[p].pc = "free" /\ job'[p].pc = "reap"
          /\ job'[p].todo = job[p].todo \ {r} /\ job'[p].keep = job[p].keep
          /\ UNCHANGED <<registry, requests>>
      BY <1>0, <1>4, <2>1 DEF ReapFree, Become, Job
    <2>3. /\ \A s \in Run \ {r} : run'[s] = run[s]
          /\ run'[r] = [run[r] EXCEPT !.tree = IF @ = "there" THEN "removed" ELSE @]
      BY <1>0, <1>4, <2>1 DEF ReapFree
    <2>4. /\ run'[r].shell = run[r].shell /\ run'[r].loop = run[r].loop
          /\ run'[r].tree = IF run[r].tree = "there" THEN "removed" ELSE run[r].tree
      BY <1>0, <2>3 DEF RunState
    <2>5. run[r].shell # "alive"
      BY <1>0, <2>1, <2>2 DEF JobFit
    <2>6. \A s \in Run : Ages(s)
      BY <2>3, <2>4 DEF Ages, Supervised
    <2>7. QED
      BY <2>2, <2>4, <2>5, <2>6 DEF Reaping
  <1>5. Goes
    BY <1>1, <1>2, <1>3, <1>4
  <1>6. Noted(job[p]) = {} /\ Noted(job'[p]) = {}
    BY <1>5 DEF Noted, Reaping
  <1>7. job[p].todo \subseteq Run /\ job[p].keep \subseteq Run
    BY <1>0 DEF Job
  <1> HIDE DEF Goes
  <1>8. WatchFit(job[p])'
    <2> DEFINE td == job[p].todo
               kp == job[p].keep
    <2>0. /\ UNCHANGED <<registry, requests>> /\ \A r \in Run : Ages(r)
          /\ job[p].pc \in Reaping /\ job'[p].pc \in Reaping
      BY <1>5 DEF Goes
    <2>1. /\ job'[p].todo \subseteq td /\ job'[p].keep \subseteq td \cup kp
          /\ job'[p].todo \cap job'[p].keep = {}
          /\ \A r \in td \cup kp : run'[r].shell = "alive" => r \in job'[p].todo \cup job'[p].keep
      BY <1>0, <1>5, <1>7 DEF Goes, WatchFit
    <2>2. \A r \in registry : run'[r].shell = "alive" => r \in td \cup kp
      BY <1>0, <2>0 DEF WatchFit, Ages
    <2>3. job'[p].pc # "append"
      BY <2>0 DEF Reaping
    <2>4. \A r \in registry \cup td \cup kp : run'[r].shell # "none"
      BY <1>0, <1>7, <2>0 DEF WatchFit, Ages
    <2>5. \A r \in Run : requests[r] >= 1 => run'[r].shell # "none" /\ r \notin td \cup kp
      BY <1>0, <2>0 DEF WatchFit, Ages
    <2>6. QED
      BY <1>6, <2>0, <2>1, <2>2, <2>3, <2>4, <2>5 DEF WatchFit
  <1>9. QED
    BY <1>5, <1>6, <1>8, WatchStep DEF Goes

\* A run whose process is gone leaves the list, and its approval is asked for: once, as
\* what was asked for is on no list any more.
LEMMA WatchFinished ==
    ASSUME WatchInv, Inv', OneLauncher, NEW p \in Launcher, NEW r \in Run, ReapFinished(p, r)
    PROVE  WatchInv'
  <1>0. /\ job \in [Launcher -> Job] /\ job[p] \in Job /\ WatchFit(job[p])
        /\ run \in [Run -> RunState] /\ run[r] \in RunState
        /\ requests \in [Run -> 0 .. 2] /\ registry \subseteq Run
    BY DEF WatchInv, Inv, TypeOK
  <1>1. /\ job[p].pc = "reap" /\ job'[p].pc = "reap" /\ r \in job[p].todo
        /\ job'[p].todo = job[p].todo \ {r} /\ job'[p].keep = job[p].keep
        /\ UNCHANGED registry /\ ~Alive(r)
    BY <1>0 DEF ReapFinished, Become, Job
  <1>2. /\ \A s \in Run \ {r} : run'[s] = run[s] /\ requests'[s] = requests[s]
        /\ run'[r] = [run[r] EXCEPT !.tree = IF @ = "there" THEN "removed" ELSE @]
        /\ requests'[r] \in {requests[r], requests[r] + 1}
    BY <1>0 DEF ReapFinished
  <1>3. /\ run'[r].shell = run[r].shell /\ run'[r].loop = run[r].loop
        /\ run'[r].tree = IF run[r].tree = "there" THEN "removed" ELSE run[r].tree
    BY <1>0, <1>2 DEF RunState
  <1>4. \A s \in Run : run'[s].shell = run[s].shell /\ (Supervised(s)' <=> Supervised(s))
    BY <1>2, <1>3 DEF Supervised
  <1>5. requests[r] = 0 /\ run[r].shell # "none" /\ run[r].shell # "alive" /\ r \notin job[p].keep
    BY <1>0, <1>1 DEF WatchFit, Alive, Reaping
  <1>6. ApprovalOnce'
    BY <1>2, <1>5 DEF WatchInv, ApprovalOnce
  <1>7. Noted(job[p]) = {} /\ Noted(job'[p]) = {}
    BY <1>1 DEF Noted
  <1>8. \A q \in Launcher : q = p
    BY DEF OneLauncher
  <1>9. RunsWatched'
    BY <1>1, <1>4, <1>8 DEF WatchInv, RunsWatched
  <1>10. WatchFit(job[p])'
    <2>1. job[p].todo \subseteq Run /\ job[p].keep \subseteq Run
      BY <1>0 DEF Job
    <2>2. \A s \in registry : run'[s].shell = "alive" => s \in job'[p].todo \cup job'[p].keep
      BY <1>0, <1>1, <1>4, <1>5 DEF WatchFit, Reaping
    <2>3. \A s \in registry \cup job'[p].todo \cup job'[p].keep : run'[s].shell # "none"
      BY <1>0, <1>1, <1>4, <2>1 DEF WatchFit
    <2>4. ASSUME NEW s \in Run, requests'[s] >= 1
          PROVE  run'[s].shell # "none" /\ s \notin job'[p].todo \cup job'[p].keep
      <3>1. CASE s = r
        BY <1>1, <1>4, <1>5, <3>1
      <3>2. CASE s # r
        BY <1>0, <1>1, <1>2, <1>4, <2>4, <3>2 DEF WatchFit
      <3>3. QED
        BY <3>1, <3>2
    <2>5. job'[p].todo \cap job'[p].keep = {}
      BY <1>0, <1>1 DEF WatchFit, Reaping
    <2>6. QED
      BY <1>1, <1>7, <2>2, <2>3, <2>4, <2>5 DEF WatchFit, Reaping
  <1>11. QED
    BY <1>6, <1>8, <1>9, <1>10 DEF WatchInv

\* The survivors are written back.
LEMMA WatchSave ==
    ASSUME WatchInv, Inv', OneLauncher, NEW p \in Launcher, ReapSave(p)
    PROVE  WatchInv'
  <1>0. /\ job \in [Launcher -> Job] /\ job[p] \in Job /\ WatchFit(job[p])
        /\ registry \subseteq Run
    BY DEF WatchInv, Inv, TypeOK
  <1>1. /\ job[p].pc = "reap" /\ job[p].todo = {} /\ job'[p].pc = "fire"
        /\ job'[p].todo = {} /\ job'[p].keep = {} /\ registry' = job[p].keep
        /\ UNCHANGED <<run, requests>>
    BY <1>0 DEF ReapSave, Become, Job
  <1>2. Noted(job[p]) = {} /\ Noted(job'[p]) = {}
    BY <1>1 DEF Noted
  <1>3. \A q \in Launcher : q = p
    BY DEF OneLauncher
  <1>4. RunsWatched'
    <2>1. \A r \in Run : run[r].shell = "alive" /\ Supervised(r) => r \in registry
      BY <1>1, <1>3 DEF WatchInv, RunsWatched
    <2>2. \A r \in registry : run[r].shell = "alive" => r \in registry'
      BY <1>0, <1>1 DEF WatchFit, Reaping
    <2>3. QED
      BY <1>1, <2>1, <2>2 DEF RunsWatched, Supervised
  <1>5. WatchFit(job[p])'
    BY <1>0, <1>1, <1>2 DEF WatchFit, Reaping
  <1>6. ApprovalOnce'
    BY <1>1 DEF WatchInv, ApprovalOnce
  <1>7. QED
    BY <1>3, <1>4, <1>5, <1>6 DEF WatchInv

\* A launcher that records nothing moves on, outside the reaping.
LEMMA WatchQuiet ==
    ASSUME WatchInv, Inv', OneLauncher, NEW p \in Launcher,
           UNCHANGED <<registry, requests>>, \A r \in Run : Ages(r),
           job[p].pc \in {"fire", "lock", "spawn"},
           job'[p].pc \in {"fire", "lock", "spawn", "idle"},
           job'[p].todo \subseteq job[p].todo, job'[p].keep \subseteq job[p].keep
    PROVE  WatchInv'
  <1>0. job \in [Launcher -> Job] /\ job[p] \in Job /\ WatchFit(job[p]) /\ registry \subseteq Run
    BY DEF WatchInv, Inv, TypeOK
  <1>1. Noted(job[p]) = {} /\ Noted(job'[p]) = {}
    BY DEF Noted
  <1>2. job[p].todo \subseteq Run /\ job[p].keep \subseteq Run
    BY <1>0 DEF Job
  <1>3. WatchFit(job[p])'
    <2>1. \A r \in registry \cup job'[p].todo \cup job'[p].keep : run'[r].shell # "none"
      BY <1>0, <1>2 DEF WatchFit, Ages
    <2>2. \A r \in Run : requests[r] >= 1 =>
             run'[r].shell # "none" /\ r \notin job'[p].todo \cup job'[p].keep /\ r \notin registry
      BY <1>0 DEF WatchFit, Ages, Reaping
    <2>3. job'[p].pc \notin Reaping /\ job'[p].pc # "append"
      BY DEF Reaping
    <2>4. QED
      BY <1>1, <2>1, <2>2, <2>3 DEF WatchFit
  <1>4. QED
    BY <1>1, <1>3, WatchStep

\* What _launch_run leaves of the lists when it returns.
LEMMA ReturnLists ==
    ASSUME job \in [Launcher -> Job], NEW p \in Launcher, Return(p, job[p])
    PROVE  /\ job'[p].pc \in {"fire", "idle"} /\ job'[p].keep = {}
           /\ job'[p].todo \subseteq job[p].todo
  <1>0. job[p] \in Job
    OBVIOUS
  <1> DEFINE k == [job[p] EXCEPT !.pc = "fire", !.due = @ \ {job[p].loop}, !.keep = {},
                                 !.loop = NoLoop, !.cur = NoRun]
  <1>1. k \in Job /\ k.pc = "fire" /\ k.keep = {} /\ k.todo = job[p].todo
    BY <1>0 DEF Job
  <1>2. CASE p \in Ticker
    <2>1. Become(p, k)
      BY <1>2 DEF Return
    <2> HIDE DEF k
    <2>2. QED
      BY <1>1, <2>1, BecomeType
  <1>3. CASE p \notin Ticker
    BY <1>3, BecomeType, IdleType DEF Return, IdleJob
  <1>4. QED
    BY <1>2, <1>3

\* The steps before a run is recorded keep the watch.
LEMMA WatchLaunches ==
    ASSUME WatchInv, Inv', OneLauncher, NEW p \in Launcher,
           \/ \E l \in Loop : FireQueued(p, l) \/ FireLaunch(p, l)
           \/ TickEnd(p) \/ LaunchSkips(p) \/ LaunchRaises(p)
           \/ \E r \in Run : LaunchLocks(p, r)
    PROVE  WatchInv'
  <1>0. /\ job \in [Launcher -> Job] /\ job[p] \in Job
        /\ JobFit(p, job[p], run, lock, clock)
        /\ run \in [Run -> RunState] /\ \A r \in Run : run[r] \in RunState
    BY DEF WatchInv, Inv, TypeOK, Jobs
  <1> DEFINE Goes == /\ UNCHANGED <<registry, requests>>
                     /\ \A r \in Run : Ages(r)
                     /\ job[p].pc \in {"fire", "lock", "spawn"}
                     /\ job'[p].pc \in {"fire", "lock", "spawn", "idle"}
                     /\ job'[p].todo \subseteq job[p].todo
                     /\ job'[p].keep \subseteq job[p].keep
  <1>1. UNCHANGED run => \A r \in Run : Ages(r)
    BY DEF Ages, Supervised
  <1>2. ASSUME NEW l \in Loop, FireQueued(p, l) \/ FireLaunch(p, l) PROVE Goes
    <2>1. CASE FireQueued(p, l)
      BY <1>0, <1>1, <2>1 DEF FireQueued, FiresNext, Become, Job
    <2>2. ASSUME FireLaunch(p, l)
          PROVE  /\ job[p].pc = "fire" /\ job'[p].pc = "lock"
                 /\ job'[p].todo = job[p].todo /\ job'[p].keep = job[p].keep
                 /\ UNCHANGED <<run, registry, requests>>
      BY <1>0, <2>2 DEF FireLaunch, FiresNext, Become, Job
    <2>3. QED
      BY <1>1, <1>2, <2>1, <2>2
  <1>3. ASSUME TickEnd(p) PROVE Goes
    BY <1>0, <1>1, <1>3 DEF TickEnd, Become, IdleJob
  <1>4. ASSUME LaunchSkips(p) PROVE Goes
    BY <1>0, <1>1, <1>4, ReturnLists DEF LaunchSkips
  <1>5. ASSUME LaunchRaises(p) PROVE Goes
    <2>1. PICK r \in Run : r = job[p].cur /\ run[r].shell = "none"
      BY <1>0, <1>5 DEF LaunchRaises, JobFit
    <2>2. PICK t : run' = [run EXCEPT ![r].tree = t]
      BY <1>5, <2>1 DEF LaunchRaises
    <2>3. /\ \A s \in Run \ {r} : run'[s] = run[s]
          /\ run'[r].shell = run[r].shell
      BY <1>0, <2>2 DEF RunState
    <2>4. \A s \in Run : Ages(s)
      BY <2>1, <2>3 DEF Ages, Supervised
    <2>5. QED
      BY <1>0, <1>5, <2>4 DEF LaunchRaises, Become, IdleJob
  <1>6. ASSUME NEW r \in Run, LaunchLocks(p, r) PROVE Goes
    <2>1. run[r].shell = "none"
      BY <1>0, <1>6, SchedulerConstants DEF LaunchLocks, NextRun, WatchInv, Inv, Runs, RunFit
    <2>2. /\ \A s \in Run \ {r} : run'[s] = run[s]
          /\ run'[r].shell = run[r].shell
      BY <1>0, <1>6 DEF LaunchLocks, RunState
    <2>3. \A s \in Run : Ages(s)
      BY <2>1, <2>2 DEF Ages, Supervised
    <2>4. QED
      BY <1>0, <1>6, <2>3 DEF LaunchLocks, Become, Job
  <1>7. Goes
    BY <1>2, <1>3, <1>4, <1>5, <1>6
  <1>8. QED
    BY <1>7, WatchQuiet

\* A run is started: with a budget or a worktree, it is about to be recorded.
LEMMA WatchSpawn ==
    ASSUME WatchInv, Inv', OneLauncher, NEW p \in Launcher, Spawn(p)
    PROVE  WatchInv'
  <1>0. /\ job \in [Launcher -> Job] /\ job[p] \in Job /\ WatchFit(job[p])
        /\ JobFit(p, job[p], run, lock, clock) /\ registry \subseteq Run
        /\ run \in [Run -> RunState] /\ \A r \in Run : run[r] \in RunState
        /\ requests \in [Run -> 0 .. 2]
    BY DEF WatchInv, Inv, TypeOK, Jobs
  <1>1. PICK r \in Run : r = job[p].cur /\ run[r].loop = job[p].loop /\ run[r].shell = "none"
    BY <1>0 DEF Spawn, JobFit
  <1>2. PICK t \in {"none", "there"} :
          /\ run' = [run EXCEPT ![r].started = job[p].now, ![r].born = clock,
                                ![r].shell = "alive", ![r].agent = "working", ![r].tree = t]
          /\ IF Budget[job[p].loop] # NoLimit \/ t = "there"
             THEN Become(p, [job[p] EXCEPT !.pc = "note"])
             ELSE Return(p, job[p])
    BY <1>1 DEF Spawn, TreeMade
  <1>3. /\ \A s \in Run \ {r} : run'[s] = run[s]
        /\ run'[r].shell = "alive" /\ run'[r].loop = job[p].loop /\ run'[r].tree = t
    BY <1>0, <1>1, <1>2 DEF RunState
  <1>4. UNCHANGED <<registry, requests>> /\ job[p].pc = "spawn"
    BY DEF Spawn
  <1>5. /\ job'[p].todo \subseteq job[p].todo /\ job'[p].keep \subseteq job[p].keep
        /\ IF Budget[job[p].loop] # NoLimit \/ t = "there"
           THEN job'[p].pc = "note" /\ job'[p].cur = r
           ELSE job'[p].pc \in {"fire", "idle"}
    <2>1. CASE Budget[job[p].loop] # NoLimit \/ t = "there"
      BY <1>0, <1>1, <1>2, <2>1 DEF Become, Job
    <2>2. CASE ~(Budget[job[p].loop] # NoLimit \/ t = "there")
      BY <1>0, <1>2, <2>2, ReturnLists
    <2>3. QED
      BY <2>1, <2>2
  <1>6. \A q \in Launcher : q = p
    BY DEF OneLauncher
  <1>7. RunsWatched'
    <2> SUFFICES ASSUME NEW s \in Run, run'[s].shell = "alive", Supervised(s)', s \notin registry
                 PROVE  job'[p].cur = s /\ job'[p].pc \in {"note", "append"}
      BY <1>4 DEF RunsWatched
    <2>1. CASE s = r
      BY <1>3, <1>5, <2>1 DEF Supervised
    <2>2. CASE s # r
      <3>1. run[s].shell = "alive" /\ Supervised(s)
        BY <1>3, <2>2 DEF Supervised
      <3>2. QED
        BY <1>4, <1>6, <3>1 DEF WatchInv, RunsWatched
    <2>3. QED
      BY <2>1, <2>2
  <1>8. requests[r] = 0 /\ r \notin registry \cup job[p].todo \cup job[p].keep
    BY <1>0, <1>1 DEF WatchFit
  <1>9. WatchFit(job[p])'
    <2>1. Noted(job'[p]) \subseteq {r}
      BY <1>5 DEF Noted
    <2>2. job[p].todo \subseteq Run /\ job[p].keep \subseteq Run
      BY <1>0 DEF Job
    <2>3. \A s \in registry \cup job'[p].todo \cup job'[p].keep \cup {r} : run'[s].shell # "none"
      BY <1>0, <1>3, <1>5, <1>8, <2>2 DEF WatchFit
    <2>4. \A s \in Run : requests[s] >= 1 =>
             /\ s # r /\ run[s].shell # "none"
             /\ s \notin registry \cup job[p].todo \cup job[p].keep
      BY <1>0, <1>4, <1>8 DEF WatchFit, Reaping
    <2>5. \A s \in Run : requests[s] >= 1 =>
             /\ run'[s].shell # "none" /\ s \notin registry
             /\ s \notin job'[p].todo \cup job'[p].keep \cup {r}
      BY <1>3, <1>5, <2>4
    <2>6. job'[p].pc \notin Reaping /\ job'[p].pc # "append"
      BY <1>5 DEF Reaping
    <2>7. QED
      BY <1>4, <2>1, <2>3, <2>5, <2>6 DEF WatchFit
  <1>10. QED
    BY <1>4, <1>6, <1>7, <1>9 DEF WatchInv, ApprovalOnce

\* record_launch reads the list ...
LEMMA WatchReads ==
    ASSUME WatchInv, Inv', OneLauncher, NEW p \in Launcher, RecordRead(p)
    PROVE  WatchInv'
  <1>0. /\ job \in [Launcher -> Job] /\ job[p] \in Job /\ WatchFit(job[p])
    BY DEF WatchInv, Inv, TypeOK
  <1>1. /\ job[p].pc = "note" /\ job'[p].pc = "append" /\ job'[p].cur = job[p].cur
        /\ job'[p].todo = job[p].todo /\ job'[p].keep = registry
        /\ UNCHANGED <<run, registry, requests>>
    BY <1>0 DEF RecordRead, Become, Job
  <1>2. Noted(job'[p]) = Noted(job[p])
    BY <1>1 DEF Noted
  <1>3. WatchFit(job[p])'
    BY <1>0, <1>1, <1>2 DEF WatchFit, Reaping
  <1>4. \A r \in Run : Ages(r)
    BY <1>1 DEF Ages, Supervised
  <1>5. QED
    BY <1>1, <1>2, <1>3, <1>4, WatchStep

\* ... and writes it with the new run.
LEMMA WatchWrites ==
    ASSUME WatchInv, Inv', OneLauncher, NEW p \in Launcher, RecordWrite(p)
    PROVE  WatchInv'
  <1>0. /\ job \in [Launcher -> Job] /\ WatchFit(job[p])
    BY DEF WatchInv, Inv, TypeOK
  <1>1. /\ job[p].pc = "append" /\ job[p].keep = registry
        /\ registry' = registry \cup {job[p].cur}
        /\ job'[p].pc \in {"fire", "idle"} /\ job'[p].keep = {}
        /\ job'[p].todo \subseteq job[p].todo
        /\ UNCHANGED <<run, requests>>
    BY <1>0, ReturnLists DEF RecordWrite, WatchFit
  <1>2. Noted(job[p]) = {job[p].cur} /\ Noted(job'[p]) = {}
    BY <1>1 DEF Noted
  <1>3. \A q \in Launcher : q = p
    BY DEF OneLauncher
  <1>4. RunsWatched'
    BY <1>1, <1>3 DEF WatchInv, RunsWatched, Supervised
  <1>5. WatchFit(job[p])'
    <2>1. \A r \in registry' : run[r].shell # "none"
      BY <1>0, <1>1, <1>2 DEF WatchFit
    <2>2. \A r \in Run : requests[r] >= 1 =>
             run[r].shell # "none" /\ r \notin registry' /\ r \notin job[p].todo
      BY <1>0, <1>1, <1>2 DEF WatchFit, Reaping
    <2>3. \A r \in job'[p].todo : run[r].shell # "none"
      BY <1>0, <1>1 DEF WatchFit
    <2>4. QED
      BY <1>1, <1>2, <2>1, <2>2, <2>3 DEF WatchFit, Reaping
  <1>6. QED
    BY <1>1, <1>3, <1>4, <1>5 DEF WatchInv, ApprovalOnce

\* bash and the agent end and are collected; no run starts by itself.
LEMMA WatchAges ==
    ASSUME WatchInv, Inv',
           \/ TimePasses \/ UNCHANGED vars
           \/ \E p \in Launcher : WebCollects(p)
           \/ \E r \in Run : RunStep(r) \/ AgentCommits(r)
    PROVE  WatchInv'
  <1>0. run \in [Run -> RunState] /\ \A r \in Run : run[r] \in RunState
    BY DEF WatchInv, Inv, TypeOK
  <1>1. ASSUME UNCHANGED <<job, registry, requests>>, NEW r \in Run,
               \A s \in Run \ {r} : run'[s] = run[s],
               run'[r].loop = run[r].loop, run'[r].tree = run[r].tree,
               run'[r].shell = "alive" => run[r].shell = "alive",
               run[r].shell # "none" => run'[r].shell # "none"
        PROVE  WatchInv'
    <2>1. \A s \in Run : Ages(s)
      BY <1>1 DEF Ages, Supervised
    <2>2. QED
      BY <1>1, <2>1, WatchRun
  <1>2. ASSUME UNCHANGED <<job, registry, requests, run>> PROVE WatchInv'
    BY <1>2, WatchRun DEF Ages, Supervised
  <1>3. CASE TimePasses \/ UNCHANGED vars
    BY <1>2, <1>3 DEF TimePasses, vars
  <1>4. ASSUME NEW p \in Launcher, WebCollects(p) PROVE WatchInv'
    <2>1. ASSUME NEW r \in Run
          PROVE  /\ run'[r].loop = run[r].loop /\ run'[r].tree = run[r].tree
                 /\ run'[r].shell = run[r].shell
                       \/ (run[r].shell = "zombie" /\ run'[r].shell = "gone")
      <3>1. run'[r] \in {run[r], [run[r] EXCEPT !.shell = "gone"]}
            /\ (run'[r] # run[r] => run[r].shell = "zombie")
        BY <1>4 DEF WebCollects
      <3>2. QED
        BY <1>0, <3>1 DEF RunState
    <2>2. \A r \in Run : Ages(r)
      BY <2>1 DEF Ages, Supervised
    <2>3. QED
      BY <1>4, <2>2, WatchRun DEF WebCollects
  <1>5. ASSUME NEW r \in Run, RunStep(r) \/ AgentCommits(r) PROVE WatchInv'
    <2>1. CASE AgentCommits(r)
      BY <1>2, <2>1 DEF AgentCommits
    <2>2. CASE HookLooks(r)
      BY <1>0, <1>1, <2>2 DEF HookLooks, RunState
    <2>3. CASE HookWrites(r)
      BY <1>0, <1>1, <2>3 DEF HookWrites, RunState
    <2>4. CASE AgentEnds(r)
      BY <1>0, <1>1, <2>4 DEF AgentEnds, RunState
    <2>5. CASE ShellLooks(r)
      BY <1>0, <1>1, <2>5 DEF ShellLooks, RunState, Exited
    <2>6. CASE ShellWrites(r)
      BY <1>0, <1>1, <2>6 DEF ShellWrites, RunState, Exited
    <2>7. QED
      BY <1>5, <2>1, <2>2, <2>3, <2>4, <2>5, <2>6 DEF RunStep
  <1>6. QED
    BY <1>3, <1>4, <1>5

\* Every step keeps the watch.
LEMMA WatchInductive ==
    ASSUME OneLauncher, WatchInv, [Next]_vars
    PROVE  WatchInv'
  <1>0. Inv'
    BY Inductive DEF WatchInv
  <1>1. ASSUME NEW p \in Launcher, Progress(p) PROVE WatchInv'
    <2>1. CASE \E r \in Run : ReapFinished(p, r)
      BY <1>0, <2>1, WatchFinished
    <2>2. CASE \/ \E r \in Run : ReapKeep(p, r) \/ ReapTerminate(p, r)
               \/ ReapCheck(p) \/ ReapStamp(p) \/ ReapFree(p)
      BY <1>0, <2>2, WatchReap
    <2>3. CASE \/ \E l \in Loop : FireQueued(p, l) \/ FireLaunch(p, l)
               \/ TickEnd(p) \/ LaunchSkips(p) \/ LaunchRaises(p)
               \/ \E r \in Run : LaunchLocks(p, r)
      BY <1>0, <2>3, WatchLaunches
    <2>4. CASE ReapSave(p) \/ Spawn(p) \/ RecordRead(p) \/ RecordWrite(p)
      BY <1>0, <2>4, WatchSave, WatchSpawn, WatchReads, WatchWrites
    <2>5. QED
      BY <1>1, <2>1, <2>2, <2>3, <2>4 DEF Progress
  <1>2. ASSUME NEW p \in Launcher, TickStart(p) \/ \E l \in Loop : RequestLaunch(p, l)
        PROVE  WatchInv'
    BY <1>0, <1>2, WatchStarts
  <1>3. ASSUME NEW p \in Launcher, Crash(p) PROVE FALSE
    BY <1>3 DEF Crash, OneLauncher
  <1>4. CASE \/ TimePasses \/ UNCHANGED vars
             \/ \E p \in Launcher : WebCollects(p)
             \/ \E r \in Run : RunStep(r) \/ AgentCommits(r)
    BY <1>0, <1>4, WatchAges
  <1>5. QED
    BY <1>1, <1>2, <1>3, <1>4 DEF Next

\* It holds at first.
LEMMA WatchInitially == Init => WatchInv
  <1> SUFFICES ASSUME Init PROVE WatchInv
    OBVIOUS
  <1>1. /\ \A r \in Run : run[r].shell = "none" /\ requests[r] = 0
        /\ \A p \in Launcher : job[p] = IdleJob
        /\ registry = {}
    BY DEF Init, Unborn
  <1>2. \A p \in Launcher : WatchFit(job[p])
    BY <1>1 DEF WatchFit, IdleJob, Reaping, Noted
  <1>3. QED
    BY <1>1, <1>2, InitInv DEF WatchInv, RunsWatched, ApprovalOnce

\* launches.json holds every run the reaper has to stop or clean up after
\* (budget.record_launch, budget.reap), as long as one launcher at a time writes it and
\* none dies between starting a run and recording it.
THEOREM RunsStayWatched ==
    ASSUME OneLauncher
    PROVE  Spec => []RunsWatched
  <1>1. Init => WatchInv
    BY WatchInitially
  <1>2. WatchInv /\ [Next]_vars => WatchInv'
    BY WatchInductive
  <1>3. WatchInv => RunsWatched
    BY DEF WatchInv
  <1>4. QED
    BY <1>1, <1>2, <1>3, PTL DEF Spec

\* The approval gate asks once per run (budget._maybe_request_approval), on the same terms:
\* a reaper that dies before save_launches finds the run in the list again.
THEOREM AskedOnce ==
    ASSUME OneLauncher
    PROVE  Spec => []ApprovalOnce
  <1>1. Init => WatchInv
    BY WatchInitially
  <1>2. WatchInv /\ [Next]_vars => WatchInv'
    BY WatchInductive
  <1>3. WatchInv => ApprovalOnce
    BY DEF WatchInv
  <1>4. QED
    BY <1>1, <1>2, <1>3, PTL DEF Spec
=============================================================================
