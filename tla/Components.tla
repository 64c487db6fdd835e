------------------------------ MODULE Components ------------------------------
(***************************************************************************)
(* What is kept safe by each component on its own: the files of the fleet, *)
(* the plugin, the transcripts' offsets, the totals, the .env files and    *)
(* what the pure modules compute.  They share no state; part names the one *)
(* that a behaviour is about, "pure" being one input of one topic.         *)
(***************************************************************************)
EXTENDS Integers, Sequences, FiniteSets

CONSTANTS
    None, Topics, Inputs(_),                                   \* the pure modules
    Repo, Loop, Catalog, Starter, Founders, Tuned, MaxDeaths,        \* Registry, its projects
    Skill, MaxVersion, MaxLosses,                                    \* Promotion
    Session, Collector, ReadCap, MaxRecords, MaxOverlaps,            \* Transcripts
    Dates, MonthOf, KeepDaily, MaxPoints,                            \* Telemetry, its days
    Key, Host, Projects, MaxRotations, MaxFaults                     \* Secrets

VARIABLES part, topic, input,
    reg, applies, cadence, prompt, library, steps, editing, deaths, torn, halfMade,
    home, shipped, version, promoting, lost,
    file, partial, offset, oversized, extracted, walk, overlaps,
    today, spool, received, daily, monthly, draining,
    store, env, pushes, faults, stale

pure == <<topic, input>>
registry == <<reg, applies, cadence, prompt, library, steps, editing, deaths, torn, halfMade>>
promotion == <<home, shipped, version, promoting, lost>>
sessions == <<file, partial, offset, oversized, extracted, walk, overlaps>>
telemetry == <<today, spool, received, daily, monthly, draining>>
secrets == <<store, env, pushes, faults, stale>>
vars == <<part, pure, registry, promotion, sessions, telemetry, secrets>>

Cron == INSTANCE Schedule
H == INSTANCE Health
R == INSTANCE Retention
G == INSTANCE Registry WITH Project <- Repo, todo <- steps
P == INSTANCE Promotion WITH MaxDeaths <- MaxLosses, deaths <- lost
W == INSTANCE Transcripts WITH rows <- extracted, pass <- walk
L == INSTANCE Telemetry WITH Day <- Dates
E == INSTANCE Secrets WITH todo <- pushes

\* Bounds are numbers, processes and keys are finitely many, 0 is no host and no project.
ASSUME Wired == Founders \subseteq Repo /\ Starter \in Loop
ASSUME Bounds == {MaxVersion, MaxLosses, MaxRecords, MaxOverlaps, MaxPoints, MaxRotations, MaxFaults}
                     \subseteq Nat
ASSUME Calendar == Dates \subseteq Nat /\ Dates # {} /\ IsFiniteSet(Dates)
ASSUME Fixed == Len(Session) \in Nat /\ IsFiniteSet(Collector)
ASSUME Places ==
    /\ IsFiniteSet(Key) /\ IsFiniteSet(Host) /\ 0 \notin Host
    /\ Len(Projects) \in Nat /\ DOMAIN Projects = 1 .. Len(Projects)
    /\ \A p \in DOMAIN Projects : Projects[p].keys \subseteq Key /\ Projects[p].hosts \subseteq Host
\* What a repository's rows hold is counted, and None is no row.
ASSUME Measured ==
    /\ \A x \in Inputs("advice"), col \in H!GitCols \cup H!HubCols : H!Count(x[1], x[2], col) \in Nat
    /\ \A x \in Inputs("repository") :
         /\ x[2].scanning \in Nat
         /\ \A f \in {{}, x[3]} : None \notin {H!collect(x[1], f), H!compute(H!gather(x[2], f))}
\* Rows are numbered in the order they were taken, and a later pass runs later.
ASSUME Numbered ==
    \A x \in Inputs("snapshots") \cup Inputs("states") :
        /\ DOMAIN x[1] \subseteq Nat /\ IsFiniteSet(DOMAIN x[1])
        /\ \A i \in DOMAIN x[1] : x[1][i].taken \in Int
        /\ x[2][1] \in Int /\ x[2][2] \in Int /\ x[2][1] <= x[2][2]

\* A cron field has parts, each * or a range, with a step.
CronPart == [star : BOOLEAN, a : Nat, b : Nat, step : Nat]
Expression(f) == \A k \in {"minute", "hour", "dom", "month", "dow"} : f[k] # {} /\ f[k] \subseteq CronPart
AnyDate(f) == f.dom = {Cron!Star(1)} /\ f.month = {Cron!Star(1)}
\* What the operator may have set of a window.
Setting == [start_hour : {None} \cup Int, span_hours : Int, start_minute : {None} \cup Int]

\* Presets with slots, hashes with settings, weekly crons that parse, crons of any month; None is
\* neither a preset nor a moment.
ASSUME Planned ==
    /\ None \notin Int
    /\ \A x \in Inputs("preset") :
         /\ x[1] # None
         /\ \/ x[1] \in [name : {"daily", "weekdays", "weekly", "monthly"}, days : Int]
            \/ x[1] \in [name : {"every"}, days : Nat \ {0}]
         /\ x[2] \in [minute : 0 .. 59, hour : 0 .. 23, dow : 1 .. 5, dom : 1 .. 28] /\ x[3] \in Int
    /\ \A x \in Inputs("slot") :
         /\ x[1] \in [minute : 0 .. 59, hour : Nat, dow : Nat, dom : Nat]
         /\ {x[2], x[3]} \subseteq {None} \cup Setting
    /\ \A x \in Inputs("stale") :
         Expression(x[1]) /\ AnyDate(x[1]) /\ Cron!parse(x[1]) # None /\ x[2] \in Int
    /\ \A x \in Inputs("floor") :
         /\ x[1] \in {"cloud", "local", "session"} /\ x[3] \in Int
         /\ Expression(x[2]) /\ x[2].month = {Cron!Star(1)}

Init ==
    /\ part \in {"pure", "registry", "promotion", "sessions", "telemetry", "secrets"}
    /\ topic \in (IF part = "pure" THEN Topics ELSE {None}) /\ input = None
    /\ G!Init /\ P!Init /\ W!Init /\ L!Init /\ E!Init

\* The first step of a pure part picks the input.
Compute == input = None /\ input' \in Inputs(topic) /\ UNCHANGED topic

Pure(A) == part = "pure" /\ A /\ UNCHANGED <<part, registry, promotion, sessions, telemetry, secrets>>
Registry(A) == part = "registry" /\ A /\ UNCHANGED <<part, pure, promotion, sessions, telemetry, secrets>>
Promotion(A) == part = "promotion" /\ A /\ UNCHANGED <<part, pure, registry, sessions, telemetry, secrets>>
Sessions(A) == part = "sessions" /\ A /\ UNCHANGED <<part, pure, registry, promotion, telemetry, secrets>>
Telemetry(A) == part = "telemetry" /\ A /\ UNCHANGED <<part, pure, registry, promotion, sessions, secrets>>
Secrets(A) == part = "secrets" /\ A /\ UNCHANGED <<part, pure, registry, promotion, sessions, telemetry>>

Next == Pure(Compute) \/ Registry(G!Next) \/ Promotion(P!Next) \/ Sessions(W!Next)
          \/ Telemetry(L!Next) \/ Secrets(E!Next)

Spec == Init /\ [][Next]_vars

-----------------------------------------------------------------------------
(* Properties *)

On(t) == topic = t /\ input # None

\* Schedules: an occurrence is never lost to a preset's arithmetic, an automatic slot lies in its
\* window, a loop on time is not called stale, and validate's floor bounds every gap.
SchedulesSound == /\ On("preset") => Cron!PresetNeverLost(input[1], input[2], input[3])
                  /\ On("slot") => Cron!SlotInWindow(input[1], input[2], input[3])
                  /\ On("stale") => Cron!OnTimeNeverStale(input[1], input[2])
                  /\ On("floor") => Cron!FloorHolds(input[1], input[2], input[3])

\* Repositories: the advice loses nothing a chip warns of, and a failing command alarms nobody.
AdviceSound == /\ On("advice") => H!AdviceComplete(input[1], input[2])
               /\ On("repository") => H!FailureNeverAlarms(input[1], input[2], input[3])

\* Retention: what is pruned is a repetition, or a later row of its week or day stands for it,
\* and pruning again prunes nothing.
RetentionSound ==
    /\ On("snapshots") => R!ChangesKept(input[1], input[2][1]) /\ R!WeeklyKept(input[1], input[2][2])
    /\ On("snapshots") \/ On("states") => R!PruneConverges(input[1], input[2][1], input[2][2])
    /\ On("states") => R!DayEndKept(input[1], input[2][1], input[2][2])

\* Registry: between the edits the files agree, and a wired loop can be run at every moment, also
\* in the middle of an edit.  A promotion that dies loses no skill and pins no version that is
\* not there.
RegistrySound ==
    /\ part = "registry" => G!TypeOK /\ G!ValidBetweenEdits /\ G!WiredIsRunnable /\ G!AppliesAgree
    /\ part = "promotion" => P!TypeOK /\ P!PinNeverAhead /\ P!SkillNeverLost

\* Transcripts: whatever two collectors do, the rows are those of the lines behind the offset,
\* once each, and the offset never passes a line nobody could read.
TranscriptsSound == part = "sessions" => /\ W!TypeOK /\ W!NothingSkipped /\ W!ExtractedOnce
                                         /\ W!NeverPastABadLine

\* Telemetry: no day or month shows more than was received.
TotalsEarned == part = "telemetry" => L!TypeOK /\ L!NeverOvercounted

\* Secrets: a worktree's .env holds what the store says, except where a push failed or is due.
EnvsCurrent == part = "secrets" => E!TypeOK /\ E!EnvCurrent
==============================================================================
