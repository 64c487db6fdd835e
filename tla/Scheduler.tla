------------------------------- MODULE Scheduler -------------------------------
(***************************************************************************)
(* Unattended runs on one host: scheduler.tick and the launches it makes,  *)
(* the lock a launch takes (lock.py), the supervision of what it started   *)
(* (budget.reap over launches.json) and the receipts the run, its hooks    *)
(* and the reaper write (build_receipt.write_receipt).                     *)
(*                                                                         *)
(*   Ticker   a "foreman tick": launchd's, or one typed by the operator    *)
(*   Web      the dashboard process, whose dispatch-run calls _launch_run  *)
(*                                                                         *)
(* A launched run is bash waiting for a claude agent and then building the *)
(* receipt.  The agent can outlive bash, and the run outlives its launcher.*)
(***************************************************************************)
EXTENDS Integers, FiniteSets

CONSTANTS
    Loop,       \* (project, cadence) pairs this host fires, in registry order
    KeyOf,      \* the lock key of each
    FiresAt,    \* the times its schedule names
    Timeout,    \* timeout_minutes
    Budget,     \* budget.wall_clock_minutes, or NoLimit
    Writes,     \* loops with a "writes" block: they run in a throwaway worktree
    OpensPr,    \* those with writes.open_pr
    Autorun,    \* loops of the projects that launch; the others are dispatched
    Hooked,     \* loops whose agent fires Foreman's Stop and SessionEnd hooks
    Absent,     \* loops whose project has no checkout on this host
    Broken,     \* loops whose prompt file is missing
    Ticker, Web,
    Run,        \* run ids, in ULID order
    Grace,      \* the lock outlives the timeout by this much
    CrashProne, \* launchers that may die between two steps
    MaxTime,    \* bound of the clock
    MaxRequests, \* bound on the launches asked for in the dashboard
    NoLoop, NoRun

Time     == 0 .. MaxTime
NoTime   == -1
NoLimit  == -1
Key      == {KeyOf[l] : l \in Loop}
Launcher == Ticker \cup Web

ASSUME SchedulerConstants ==
    /\ Loop \subseteq Nat /\ NoLoop \notin Loop
    /\ Run \subseteq Nat /\ NoRun \notin Run
    /\ FiresAt \in [Loop -> SUBSET Time]
    /\ Timeout \in [Loop -> Nat \ {0}]
    /\ Budget \in [Loop -> Nat \cup {NoLimit}]
    /\ OpensPr \subseteq Writes /\ Writes \subseteq Loop
    /\ Autorun \subseteq Loop /\ Hooked \subseteq Loop /\ Absent \subseteq Loop /\ Broken \subseteq Loop
    /\ Ticker \cap Web = {} /\ CrashProne \subseteq Launcher
    /\ Grace \in Nat \ {0} /\ MaxTime \in Nat /\ MaxRequests \in Nat

VARIABLES
    clock,
    lock,      \* the index's lock table
    registry,  \* launches.json: the runs the reaper watches
    watermark, \* scheduler.state.json: last_tick
    job,       \* what each launcher is doing
    run,       \* the processes and the worktree of each run
    ahead,     \* loops whose branch has commits its base has not
    receipts,  \* the receipt files of each run
    requests,  \* approve_push decisions enqueued for each run: 0, 1, 2 (or more)
    fired      \* how often a tick fired an occurrence: 0, 1, 2 (or more)

vars == <<clock, lock, registry, watermark, job, run, ahead, receipts, requests, fired>>

Free == [run |-> NoRun, expires |-> NoTime]

Job == [pc    : {"idle", "reap", "check", "stamp", "free", "fire",
                 "lock", "spawn", "note", "append"},
        now   : Time \cup {NoTime},
        since : Time \cup {NoTime},
        todo  : SUBSET Run,    \* launches the reaper has not looked at
        keep  : SUBSET Run,    \* launches it will write back
        due   : SUBSET Loop,   \* loops the tick has still to fire
        loop  : Loop \cup {NoLoop},
        cur   : Run \cup {NoRun}]

IdleJob == [pc |-> "idle", now |-> NoTime, since |-> NoTime, todo |-> {}, keep |-> {},
            due |-> {}, loop |-> NoLoop, cur |-> NoRun]

RunState == [loop    : Loop \cup {NoLoop},
             by      : Launcher \cup {NoRun},
             started : Time \cup {NoTime},
             born    : Time \cup {NoTime},
             shell   : {"none", "alive", "zombie", "gone", "killed"},
             agent   : {"none", "working", "done"},
             tree    : {"none", "there", "removed"},
             hookAt  : Time \cup {NoTime},   \* a hook is about to write, stamped then
             shellAt : Time \cup {NoTime}]   \* so is the run's own build_receipt

Unborn == [loop |-> NoLoop, by |-> NoRun, started |-> NoTime, born |-> NoTime,
           shell |-> "none", agent |-> "none", tree |-> "none",
           hookAt |-> NoTime, shellAt |-> NoTime]

Receipt == [ended : Time, status : {"built", "stopped"}]

Init ==
    /\ clock     = 0
    /\ lock      = [k \in Key |-> Free]
    /\ registry  = {}
    /\ watermark = NoTime
    /\ job       = [p \in Launcher |-> IdleJob]
    /\ run       = [r \in Run |-> Unborn]
    /\ ahead     = {}
    /\ receipts  = [r \in Run |-> {}]
    /\ requests  = [r \in Run |-> 0]
    /\ fired     = [l \in Loop |-> [t \in Time |-> 0]]

-----------------------------------------------------------------------------

Become(p, j) == job' = [job EXCEPT ![p] = j]
KeyOfRun(r)  == KeyOf[run[r].loop]
Alive(r)     == run[r].shell \in {"alive", "zombie"}
Supervised(r) == Budget[run[r].loop] # NoLimit \/ run[r].tree # "none"

\* The most recent occurrence of a loop's schedule (previous_fire).
IsLatest(l, t, now) ==
    /\ t \in FiresAt[l] /\ t <= now
    /\ \A u \in FiresAt[l] : u <= now => u <= t

\* (mutant: an occurrence at the watermark itself counts as missed)
DueInclusive(since, now) ==
    {l \in Loop : \E t \in FiresAt[l] : IsLatest(l, t, now) /\ t >= since}

\* (mutant: the minute after the watermark is skipped)
DueLater(since, now) ==
    {l \in Loop : \E t \in FiresAt[l] : IsLatest(l, t, now) /\ t > since + 1}

Due(since, now) == {l \in Loop : \E t \in FiresAt[l] : IsLatest(l, t, now) /\ t > since}

Fires(l, now) ==
    fired' = [fired EXCEPT ![l] =
                [t \in Time |-> IF IsLatest(l, t, now) /\ @[t] < 2 THEN @[t] + 1 ELSE @[t]]]

\* One file per (ended, run_id): a second write with the same stamp overwrites it.
Written(r, e, s) ==
    receipts' = [receipts EXCEPT ![r] =
                    {c \in @ : c.ended # e} \cup {[ended |-> e, status |-> s]}]

-----------------------------------------------------------------------------
(* tick: first budget.reap ... *)

\* (mutant: a first tick looks back two minutes)
TickStartWide(p) ==
    /\ p \in Ticker
    /\ job[p].pc = "idle"
    /\ Become(p, [IdleJob EXCEPT
                    !.pc = "reap", !.now = clock, !.todo = registry,
                    !.since = IF watermark = NoTime THEN clock - 2 ELSE watermark])
    /\ UNCHANGED <<clock, lock, registry, watermark, run, ahead, receipts, requests, fired>>

TickStart(p) ==
    /\ p \in Ticker
    /\ job[p].pc = "idle"
    /\ Become(p, [IdleJob EXCEPT
                    !.pc = "reap", !.now = clock, !.todo = registry,
                    !.since = IF watermark = NoTime THEN clock - 1 ELSE watermark])
    /\ UNCHANGED <<clock, lock, registry, watermark, run, ahead, receipts, requests, fired>>

\* (mutant: stopped one minute early)
OverBudgetEarly(p, r) ==
    /\ Budget[run[r].loop] # NoLimit
    /\ job[p].now - run[r].started + 1 >= Budget[run[r].loop]

OverBudget(p, r) ==
    /\ Budget[run[r].loop] # NoLimit
    /\ job[p].now - run[r].started >= Budget[run[r].loop]

\* (mutant: a finished launch is written back)
ReapFinishedKeeps(p, r) ==
    /\ job[p].pc = "reap" /\ r \in job[p].todo
    /\ ~Alive(r)
    /\ requests' = [requests EXCEPT ![r] =
            IF run[r].loop \in OpensPr \cap ahead /\ @ < 2 THEN @ + 1 ELSE @]
    /\ run' = [run EXCEPT ![r].tree = IF @ = "there" THEN "removed" ELSE @]
    /\ Become(p, [job[p] EXCEPT !.todo = @ \ {r}, !.keep = @ \cup {r}])
    /\ UNCHANGED <<clock, lock, registry, watermark, ahead, receipts, fired>>

\* (mutant: the worktree is left behind)
ReapFinishedLeaves(p, r) ==
    /\ job[p].pc = "reap" /\ r \in job[p].todo
    /\ ~Alive(r)
    /\ requests' = [requests EXCEPT ![r] =
            IF run[r].loop \in OpensPr \cap ahead /\ @ < 2 THEN @ + 1 ELSE @]
    /\ Become(p, [job[p] EXCEPT !.todo = @ \ {r}])
    /\ UNCHANGED <<clock, lock, registry, watermark, run, ahead, receipts, fired>>

\* (mutant: the process is not asked for)
ReapFinishedUnasked(p, r) ==
    /\ job[p].pc = "reap" /\ r \in job[p].todo
    /\ requests' = [requests EXCEPT ![r] =
            IF run[r].loop \in OpensPr \cap ahead /\ @ < 2 THEN @ + 1 ELSE @]
    /\ run' = [run EXCEPT ![r].tree = IF @ = "there" THEN "removed" ELSE @]
    /\ Become(p, [job[p] EXCEPT !.todo = @ \ {r}])
    /\ UNCHANGED <<clock, lock, registry, watermark, ahead, receipts, fired>>

\* The process is gone: ask for approval of what it left on its branch, remove its
\* worktree and forget it.
ReapFinished(p, r) ==
    /\ job[p].pc = "reap" /\ r \in job[p].todo
    /\ ~Alive(r)
    /\ requests' = [requests EXCEPT ![r] =
            IF run[r].loop \in OpensPr \cap ahead /\ @ < 2 THEN @ + 1 ELSE @]
    /\ run' = [run EXCEPT ![r].tree = IF @ = "there" THEN "removed" ELSE @]
    /\ Become(p, [job[p] EXCEPT !.todo = @ \ {r}])
    /\ UNCHANGED <<clock, lock, registry, watermark, ahead, receipts, fired>>

ReapKeep(p, r) ==
    /\ job[p].pc = "reap" /\ r \in job[p].todo
    /\ Alive(r)
    /\ ~OverBudget(p, r)
    /\ Become(p, [job[p] EXCEPT !.todo = @ \ {r}, !.keep = @ \cup {r}])
    /\ UNCHANGED <<clock, lock, registry, watermark, run, ahead, receipts, requests, fired>>

\* Over budget: SIGTERM to bash (the agent is not signalled) ...
ReapTerminate(p, r) ==
    /\ job[p].pc = "reap" /\ r \in job[p].todo
    /\ Alive(r)
    /\ OverBudget(p, r)
    /\ run' = [run EXCEPT ![r].shell = IF @ = "alive" THEN "killed" ELSE @]
    /\ Become(p, [job[p] EXCEPT !.pc = "check", !.cur = r])
    /\ UNCHANGED <<clock, lock, registry, watermark, ahead, receipts, requests, fired>>

\* ... write_stopped_receipt looks for a receipt ...
ReapCheck(p) ==
    /\ job[p].pc = "check"
    /\ Become(p, [job[p] EXCEPT !.pc = IF receipts[job[p].cur] = {} THEN "stamp" ELSE "free"])
    /\ UNCHANGED <<clock, lock, registry, watermark, run, ahead, receipts, requests, fired>>

\* ... and writes one, stamped with the tick's time ...
ReapStamp(p) ==
    /\ job[p].pc = "stamp"
    /\ Written(job[p].cur, job[p].now, "stopped")
    /\ Become(p, [job[p] EXCEPT !.pc = "free"])
    /\ UNCHANGED <<clock, lock, registry, watermark, run, ahead, requests, fired>>

\* ... lock.release and the worktree's removal.
ReapFree(p) ==
    LET r == job[p].cur IN
    /\ job[p].pc = "free"
    /\ lock' = [lock EXCEPT ![KeyOfRun(r)] = IF @.run = r THEN Free ELSE @]
    /\ run' = [run EXCEPT ![r].tree = IF @ = "there" THEN "removed" ELSE @]
    /\ Become(p, [job[p] EXCEPT !.pc = "reap", !.cur = NoRun, !.todo = @ \ {r}])
    /\ UNCHANGED <<clock, registry, watermark, ahead, receipts, requests, fired>>

\* save_launches writes the survivors back; then due() is evaluated.
ReapSave(p) ==
    /\ job[p].pc = "reap" /\ job[p].todo = {}
    /\ registry' = job[p].keep
    /\ Become(p, [job[p] EXCEPT !.pc = "fire", !.keep = {},
                                !.due = Due(job[p].since, job[p].now)])
    /\ UNCHANGED <<clock, lock, watermark, run, ahead, receipts, requests, fired>>

(* ... then the loops that are due, in registry order ... *)

FiresNext(p, l) ==
    /\ job[p].pc = "fire"
    /\ l \in job[p].due
    /\ \A m \in job[p].due : l <= m

\* dispatch.dispatch enqueues a decision; the quota guard may defer it and an
\* exception is caught, and then nothing is queued.
FireQueued(p, l) ==
    /\ FiresNext(p, l)
    /\ l \notin Autorun
    /\ Fires(l, job[p].now) \/ UNCHANGED fired
    /\ Become(p, [job[p] EXCEPT !.due = @ \ {l}])
    /\ UNCHANGED <<clock, lock, registry, watermark, run, ahead, receipts, requests>>

FireLaunch(p, l) ==
    /\ FiresNext(p, l)
    /\ l \in Autorun
    /\ Become(p, [job[p] EXCEPT !.pc = "lock", !.loop = l])
    /\ UNCHANGED <<clock, lock, registry, watermark, run, ahead, receipts, requests, fired>>

(* ... and the new watermark. *)

TickEnd(p) ==
    /\ job[p].pc = "fire" /\ job[p].due = {}
    /\ watermark' = job[p].now
    /\ Become(p, IdleJob)
    /\ UNCHANGED <<clock, lock, registry, run, ahead, receipts, requests, fired>>

-----------------------------------------------------------------------------
(* _launch_run *)

\* web.apply_action: dispatch-run calls _launch_run in the dashboard's process.
RequestLaunch(p, l) ==
    /\ p \in Web
    /\ job[p].pc = "idle"
    /\ Cardinality({r \in Run : run[r].by = p}) < MaxRequests
    /\ Become(p, [IdleJob EXCEPT !.pc = "lock", !.now = clock, !.loop = l])
    /\ UNCHANGED <<clock, lock, registry, watermark, run, ahead, receipts, requests, fired>>

\* _launch_run returns to the tick, or to the request.
Return(p, j) ==
    Become(p, IF p \in Ticker
              THEN [j EXCEPT !.pc = "fire", !.due = @ \ {j.loop}, !.keep = {},
                             !.loop = NoLoop, !.cur = NoRun]
              ELSE IdleJob)

\* (mutant: a lock can be stolen at its expiry)
StealableAtExpiry(k, now) == lock[k] = Free \/ lock[k].expires <= now

\* lock.acquire inserts the row, or steals it once it has expired.
Stealable(k, now) == lock[k] = Free \/ lock[k].expires < now

LaunchSkips(p) ==
    /\ job[p].pc = "lock"
    /\ job[p].loop \in Absent \/ ~Stealable(KeyOf[job[p].loop], job[p].now)
    /\ Return(p, job[p])
    /\ UNCHANGED <<clock, lock, registry, watermark, run, ahead, receipts, requests, fired>>

NextRun(r) == run[r].loop = NoLoop /\ \A s \in Run : run[s].loop = NoLoop => r <= s

LaunchLocks(p, r) ==
    LET l == job[p].loop IN
    /\ job[p].pc = "lock"
    /\ l \notin Absent
    /\ Stealable(KeyOf[l], job[p].now)
    /\ NextRun(r)
    /\ lock' = [lock EXCEPT ![KeyOf[l]] =
                   [run |-> r, expires |-> job[p].now + Timeout[l] + Grace]]
    /\ run' = [run EXCEPT ![r].loop = l, ![r].by = p]
    /\ Become(p, [job[p] EXCEPT !.pc = "spawn", !.cur = r])
    /\ UNCHANGED <<clock, registry, watermark, ahead, receipts, requests, fired>>

\* _add_worktree succeeds or falls back to the project's own checkout.
TreeMade(l) == IF l \in Writes THEN {"none", "there"} ELSE {"none"}

\* No prompt file: the exception leaves _launch_run, and the tick with it.
LaunchRaises(p) ==
    /\ job[p].pc = "spawn"
    /\ job[p].loop \in Broken
    /\ \E t \in TreeMade(job[p].loop) : run' = [run EXCEPT ![job[p].cur].tree = t]
    /\ Become(p, IdleJob)
    /\ UNCHANGED <<clock, lock, registry, watermark, ahead, receipts, requests, fired>>

\* (mutant: only budgeted runs are recorded)
SpawnBudgetedOnly(p) ==
    LET r == job[p].cur
        l == job[p].loop IN
    /\ job[p].pc = "spawn"
    /\ l \notin Broken
    /\ \E t \in TreeMade(l) :
          run' = [run EXCEPT ![r].started = job[p].now, ![r].born = clock,
                             ![r].shell = "alive", ![r].agent = "working", ![r].tree = t]
    /\ IF Budget[l] # NoLimit THEN Become(p, [job[p] EXCEPT !.pc = "note"])
                              ELSE Return(p, job[p])
    /\ IF p \in Ticker THEN Fires(l, job[p].now) ELSE UNCHANGED fired
    /\ UNCHANGED <<clock, lock, registry, watermark, ahead, receipts, requests>>

Spawn(p) ==
    LET r == job[p].cur
        l == job[p].loop IN
    /\ job[p].pc = "spawn"
    /\ l \notin Broken
    /\ \E t \in TreeMade(l) :
          /\ run' = [run EXCEPT ![r].started = job[p].now, ![r].born = clock,
                                ![r].shell = "alive", ![r].agent = "working",
                                ![r].tree = t]
          /\ IF Budget[l] # NoLimit \/ t = "there"
             THEN Become(p, [job[p] EXCEPT !.pc = "note"])
             ELSE Return(p, job[p])
    /\ IF p \in Ticker THEN Fires(l, job[p].now) ELSE UNCHANGED fired
    /\ UNCHANGED <<clock, lock, registry, watermark, ahead, receipts, requests>>

\* record_launch reads launches.json and writes it back with one launch more.
RecordRead(p) ==
    /\ job[p].pc = "note"
    /\ Become(p, [job[p] EXCEPT !.pc = "append", !.keep = registry])
    /\ UNCHANGED <<clock, lock, registry, watermark, run, ahead, receipts, requests, fired>>

RecordWrite(p) ==
    /\ job[p].pc = "append"
    /\ registry' = job[p].keep \cup {job[p].cur}
    /\ Return(p, job[p])
    /\ UNCHANGED <<clock, lock, watermark, run, ahead, receipts, requests, fired>>

\* A launcher dies.  launches.json or the state file may be cut short by it and then
\* reads as empty; the dashboard's zombies are collected by init.
Crash(p) ==
    /\ p \in CrashProne
    /\ job[p].pc # "idle"
    /\ Become(p, IdleJob)
    /\ \/ UNCHANGED <<registry, watermark>>
       \/ /\ job[p].pc = "append" \/ (job[p].pc = "reap" /\ job[p].todo = {})
          /\ registry' = {}
          /\ UNCHANGED watermark
       \/ /\ job[p].pc = "fire" /\ job[p].due = {}
          /\ watermark' = NoTime
          /\ UNCHANGED registry
    /\ run' = [r \in Run |-> IF p \in Web /\ run[r].by = p /\ run[r].shell = "zombie"
                             THEN [run[r] EXCEPT !.shell = "gone"] ELSE run[r]]
    /\ UNCHANGED <<clock, lock, ahead, receipts, requests, fired>>

-----------------------------------------------------------------------------
(* A run: bash, the agent it waits for, the agent's hooks. *)

AgentCommits(r) ==
    /\ run[r].agent = "working"
    /\ run[r].loop \in OpensPr
    /\ ahead' = ahead \cup {run[r].loop}
    /\ UNCHANGED <<clock, lock, registry, watermark, job, run, receipts, requests, fired>>

\* A Stop or SessionEnd hook stamps the end time and finds no receipt yet ...
HookLooks(r) ==
    /\ run[r].agent = "working" /\ run[r].hookAt = NoTime
    /\ run[r].loop \in Hooked
    /\ receipts[r] = {}
    /\ run' = [run EXCEPT ![r].hookAt = clock]
    /\ UNCHANGED <<clock, lock, registry, watermark, job, ahead, receipts, requests, fired>>

\* ... and writes it.
HookWrites(r) ==
    /\ run[r].hookAt # NoTime
    /\ Written(r, run[r].hookAt, "built")
    /\ run' = [run EXCEPT ![r].hookAt = NoTime]
    /\ UNCHANGED <<clock, lock, registry, watermark, job, ahead, requests, fired>>

\* The agent ends after its hooks, or the alarm ends it wherever it is.
AgentEnds(r) ==
    /\ run[r].agent = "working"
    /\ run[r].hookAt = NoTime \/ clock >= run[r].born + Timeout[run[r].loop]
    /\ run' = [run EXCEPT ![r].agent = "done"]
    /\ UNCHANGED <<clock, lock, registry, watermark, job, ahead, receipts, requests, fired>>

\* An exited child of the long-lived dashboard stays a zombie for a while.
Exited(r) == IF run[r].by \in Web THEN "zombie" ELSE "gone"

\* (mutant: bash exits without building the receipt)
ShellLooksNot(r) ==
    /\ run[r].shell = "alive" /\ run[r].agent = "done"
    /\ run' = [run EXCEPT ![r].shell = Exited(r)]
    /\ UNCHANGED <<clock, lock, registry, watermark, job, ahead, receipts, requests, fired>>

\* bash goes on to build_receipt, which returns a receipt that is already there ...
ShellLooks(r) ==
    /\ run[r].shell = "alive" /\ run[r].agent = "done" /\ run[r].shellAt = NoTime
    /\ run' = IF receipts[r] # {}
              THEN [run EXCEPT ![r].shell = Exited(r)]
              ELSE [run EXCEPT ![r].shellAt = clock]
    /\ UNCHANGED <<clock, lock, registry, watermark, job, ahead, receipts, requests, fired>>

\* ... or writes one; it does so even when bash has been terminated meanwhile.
ShellWrites(r) ==
    /\ run[r].shellAt # NoTime
    /\ Written(r, run[r].shellAt, "built")
    /\ run' = [run EXCEPT ![r].shellAt = NoTime,
                          ![r].shell = IF @ = "alive" THEN Exited(r) ELSE @]
    /\ UNCHANGED <<clock, lock, registry, watermark, job, ahead, requests, fired>>

\* The dashboard's next subprocess collects the children that have exited.
WebCollects(p) ==
    /\ \E r \in Run : run[r].by = p /\ run[r].shell = "zombie"
    /\ p \in Web
    /\ run' = [r \in Run |-> IF run[r].by = p /\ run[r].shell = "zombie"
                             THEN [run[r] EXCEPT !.shell = "gone"] ELSE run[r]]
    /\ UNCHANGED <<clock, lock, registry, watermark, job, ahead, receipts, requests, fired>>

\* Time passes.  The alarm does not let an agent work past its timeout, and a tick is
\* assumed to be over before the lock's grace is (assumption TicksAreShort).
TimePasses ==
    /\ clock < MaxTime
    /\ \A r \in Run : run[r].agent = "working" => clock < run[r].born + Timeout[run[r].loop]
    /\ \A p \in Launcher : job[p].pc # "idle" => clock < job[p].now + Grace
    /\ clock' = clock + 1
    /\ UNCHANGED <<lock, registry, watermark, job, run, ahead, receipts, requests, fired>>

-----------------------------------------------------------------------------

Progress(p) ==
    \/ \E r \in Run : ReapFinished(p, r) \/ ReapKeep(p, r) \/ ReapTerminate(p, r)
    \/ ReapCheck(p) \/ ReapStamp(p) \/ ReapFree(p) \/ ReapSave(p)
    \/ \E l \in Loop : FireQueued(p, l) \/ FireLaunch(p, l)
    \/ TickEnd(p) \/ LaunchSkips(p) \/ LaunchRaises(p) \/ Spawn(p)
    \/ \E r \in Run : LaunchLocks(p, r)
    \/ RecordRead(p) \/ RecordWrite(p)

RunStep(r) ==
    HookLooks(r) \/ HookWrites(r) \/ AgentEnds(r) \/ ShellLooks(r) \/ ShellWrites(r)

Next ==
    \/ TimePasses
    \/ \E p \in Launcher : \/ TickStart(p) \/ Progress(p) \/ Crash(p) \/ WebCollects(p)
                           \/ \E l \in Loop : RequestLaunch(p, l)
    \/ \E r \in Run : RunStep(r) \/ AgentCommits(r)

Spec == Init /\ [][Next]_vars

\* launchd keeps starting ticks and a started one runs on; bash and the hooks run on,
\* and the alarm ends every agent.  Nobody owes the dashboard a request.
Fairness ==
    /\ WF_vars(TimePasses)
    /\ \A p \in Launcher : WF_vars(Progress(p))
    /\ \A p \in Ticker : WF_vars(TickStart(p))
    /\ \A r \in Run : WF_vars(RunStep(r))

FairSpec == Spec /\ Fairness

-----------------------------------------------------------------------------
(* Properties *)

TypeOK ==
    /\ clock     \in Time
    /\ lock      \in [Key -> [run : Run \cup {NoRun}, expires : Nat \cup {NoTime}]]
    /\ registry  \in SUBSET Run
    /\ watermark \in Time \cup {NoTime}
    /\ job       \in [Launcher -> Job]
    /\ run       \in [Run -> RunState]
    /\ ahead     \in SUBSET Loop
    /\ receipts  \in [Run -> SUBSET Receipt]
    /\ requests  \in [Run -> 0 .. 2]
    /\ fired     \in [Loop -> [Time -> 0 .. 2]]

Working(r) == run[r].agent = "working"

\* "The lock keeps two agents from pushing the same branch" (lock.py): two agents at
\* work never hold the same lock key.
OneAgentPerLock ==
    \A r, s \in Run : Working(r) /\ Working(s) /\ KeyOfRun(r) = KeyOfRun(s) => r = s

\* What the lock does guarantee, whoever launches and however a launcher dies: two
\* agents share a key only where a budget stop has released the lock of one of them.
SharedOnlyAfterStop ==
    \A r, s \in Run :
        Working(r) /\ Working(s) /\ KeyOfRun(r) = KeyOfRun(s) /\ r # s
            => run[r].shell = "killed" \/ run[s].shell = "killed"

\* A receipt that says stopped is about a run that had used up its budget: the reaper
\* stamps it with the start of its tick, never with a time before the budget's end.
StoppedIsOver ==
    \A r \in Run : \A c \in receipts[r] :
        c.status = "stopped" => c.ended - run[r].started >= Budget[run[r].loop]

\* No occurrence of a schedule is fired twice.
FiredOnce == \A l \in Loop, t \in Time : fired[l][t] <= 1

\* launches.json "holds exactly the runs the reaper needs to watch": a run with a
\* budget or a worktree stays in it until bash is gone, or a launcher is about to
\* put it there.
RunsWatched ==
    \A r \in Run :
        run[r].shell = "alive" /\ Supervised(r)
            => \/ r \in registry
               \/ \E p \in Launcher : job[p].cur = r /\ job[p].pc \in {"note", "append"}

\* "the working copy is reaped when the run ends" (scheduler.py): a worktree is removed
\* under an agent that still works in it only if a budget stop has orphaned that agent.
TreeRemovedOnlyAfterStop ==
    \A r \in Run : run[r].tree = "removed" /\ Working(r) => run[r].shell = "killed"

\* The approval gate asks once per run.
ApprovalOnce == \A r \in Run : requests[r] <= 1

\* After the first tick, what a schedule names is fired, or a later occurrence is,
\* unless a run so recent that its lock has not expired stands in the way.
OccurrencesServed ==
    \A l \in Autorun \ (Absent \cup Broken) : \A t \in FiresAt[l] :
        (watermark # NoTime /\ watermark < t)
            ~> (\/ \E u \in FiresAt[l] : u >= t /\ fired[l][u] >= 1
                \/ \E r \in Run : /\ run[r].started # NoTime /\ KeyOfRun(r) = KeyOf[l]
                                  /\ run[r].started + Timeout[run[r].loop] + Grace >= t)

\* Every run that was started leaves a receipt.
RunsReport == \A r \in Run : Working(r) ~> receipts[r] # {}

\* A run that is over is cleaned up: its throwaway worktree is removed in the end, and commits
\* of one that finished on its own are offered for approval.
FinishedIsReaped ==
    \A r \in Run :
        /\ run[r].tree = "there" ~> run[r].tree = "removed"
        /\ (/\ run[r].shell = "gone" /\ run[r].tree = "there"
            /\ run[r].loop \in OpensPr \cap ahead)
               ~> requests[r] >= 1
=============================================================================
