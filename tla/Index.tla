------------------------------- MODULE Index -------------------------------
(***************************************************************************)
(* The run table of the index (collectors/ingest.py, runstate.py, db.py,   *)
(* and collect.run_all, which orders them): receipts are ingested by run   *)
(* id, and then the runs the scheduler surfaces remember on a day that has *)
(* no row at all are recorded as crashes.  One project and cadence; any    *)
(* number of collections at once; the index may be dropped at any time.    *)
(***************************************************************************)
EXTENDS Integers, FiniteSets, FiniteSetsExt

CONSTANTS
    Run,         \* runs, numbered in the order they start
    DayOf,       \* the day each starts on
    Collector,
    MaxDrops     \* bound: times the index is dropped

VARIABLES
    fate,     \* fate[r]: not started, running, died without a receipt, or its receipt arrived
    rows,     \* run rows made from receipts
    crashes,  \* run rows made from the scheduler's history ("rt-..."): run -> the receipts
              \* the collection that made it had ingested (history)
    pass,     \* pass[c]: how far a collection is, the receipts it read, the row it will write
    drops

vars == <<fate, rows, crashes, pass, drops>>

Day == {DayOf[r] : r \in Run}
Receipts == {r \in Run : fate[r] = "reported"}
Nobody == 0
Idle == [at |-> "idle", read |-> {}, first |-> Nobody]

\* The day already has a run: from a receipt, or recorded here before.
HasRun(day) == \E r \in rows \cup DOMAIN crashes : DayOf[r] = day

TypeOK ==
    /\ fate \in [Run -> {"waiting", "running", "died", "reported"}]
    /\ rows \subseteq Receipts
    /\ DOMAIN crashes \subseteq {r \in Run : fate[r] # "waiting"}
    /\ \A c \in Collector : /\ pass[c].at \in {"idle", "ingested", "looked"}
                            /\ pass[c].read \subseteq Receipts
                            /\ (pass[c].first # Nobody) <=> (pass[c].at = "looked")
    /\ drops \in 0 .. MaxDrops

Init ==
    /\ fate = [r \in Run |-> "waiting"]
    /\ rows = {}
    /\ crashes = <<>>
    /\ pass = [c \in Collector |-> Idle]
    /\ drops = 0

-----------------------------------------------------------------------------
(* The runs, outside the index *)

StartRun(r) ==
    /\ fate[r] = "waiting" /\ \A q \in Run : q < r => fate[q] # "waiting"
    /\ fate' = [fate EXCEPT ![r] = "running"]
    /\ UNCHANGED <<rows, crashes, pass, drops>>

EndRun(r) ==
    /\ fate[r] = "running"
    /\ \E f \in {"died", "reported"} : fate' = [fate EXCEPT ![r] = f]
    /\ UNCHANGED <<rows, crashes, pass, drops>>

-----------------------------------------------------------------------------
(* A collection *)

\* seed_dimensions opens the transaction that ingest_receipts commits: one step to others.
Ingest(c) ==
    /\ pass[c].at = "idle"
    /\ rows' = rows \cup Receipts
    /\ pass' = [pass EXCEPT ![c] = [at |-> "ingested", read |-> Receipts, first |-> Nobody]]
    /\ UNCHANGED <<fate, crashes, drops>>

\* The scheduler surfaces' history: every run that started, oldest first.
Missing == {r \in Run : fate[r] # "waiting" /\ ~HasRun(DayOf[r])}

\* (mutant: the day is not looked up)
LookAnyway(c) ==
    /\ pass[c].at = "ingested"
    /\ LET missing == {r \in Run : fate[r] # "waiting" /\ r \notin rows \cup DOMAIN crashes} IN
       pass' = [pass EXCEPT ![c] = IF missing = {} THEN Idle
                                   ELSE [@ EXCEPT !.at = "looked", !.first = Max(missing)]]
    /\ UNCHANGED <<fate, rows, crashes, drops>>

\* The first record without a row is found by a SELECT outside any transaction.
Look(c) ==
    /\ pass[c].at = "ingested"
    /\ pass' = [pass EXCEPT ![c] = IF Missing = {} THEN Idle
                                   ELSE [@ EXCEPT !.at = "looked", !.first = Min(Missing)]]
    /\ UNCHANGED <<fate, rows, crashes, drops>>

\* Its INSERT opens the transaction in which the later records are looked up and written.
Record(c) ==
    /\ pass[c].at = "looked"
    /\ LET first == pass[c].first
           later == {r \in Missing : DayOf[r] # DayOf[first]
                                     /\ \A q \in Missing : DayOf[q] = DayOf[r] => r <= q}
       IN  crashes' = [r \in DOMAIN crashes \cup {first} \cup later |->
                         IF r \in DOMAIN crashes THEN crashes[r] ELSE pass[c].read]
    /\ pass' = [pass EXCEPT ![c] = Idle]
    /\ UNCHANGED <<fate, rows, drops>>

\* A collector that raised or was killed in between (escalations call GitHub there).
Abort(c) ==
    /\ pass[c].at # "idle"
    /\ pass' = [pass EXCEPT ![c] = Idle]
    /\ UNCHANGED <<fate, rows, crashes, drops>>

\* The operator deletes index.db; what still has it open writes to nothing.
DropIndex ==
    /\ drops < MaxDrops
    /\ drops' = drops + 1
    /\ rows' = {} /\ crashes' = <<>>
    /\ pass' = [c \in Collector |-> Idle]
    /\ UNCHANGED fate

Next == \/ \E r \in Run : StartRun(r) \/ EndRun(r)
        \/ \E c \in Collector : Ingest(c) \/ Look(c) \/ Record(c) \/ Abort(c)
        \/ DropIndex

\* The hourly collection runs again and again, and does not always fail.
Fairness == \A c \in Collector : WF_vars(Ingest(c)) /\ SF_vars(Look(c)) /\ SF_vars(Record(c))

-----------------------------------------------------------------------------
(* Properties *)

\* A run recorded as a crash although its day has a receipt is always one whose receipt came
\* after the collection had read the receipts: nothing on disk by then is contradicted.
CrashMeansNoReceipt ==
    \A r \in DOMAIN crashes : \A q \in crashes[r] : DayOf[q] # DayOf[r]

\* However collections overlap, a day has at most one crash row.
OneCrashPerDay == \A r, q \in DOMAIN crashes : DayOf[r] = DayOf[q] => r = q

\* "So the crash is visible in the index": a day on which every run died gets a row, after
\* every drop of the index too.
DeathsShow ==
    \A d \in Day :
        (\A r \in Run : DayOf[r] = d => fate[r] = "died") ~> HasRun(d)

==============================================================================
