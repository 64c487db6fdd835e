---------------------------- MODULE RoutinesProofs ----------------------------
(***************************************************************************)
(* Proofs about Routines.  Here are those of the run table (Index: any     *)
(* runs on any days, collections that overlap and fail, an index that is   *)
(* dropped any number of times) and of the cloud routine (Cloud: any loops *)
(* and schedules, jobs that are killed, pushes that are rejected, receipts *)
(* that others push meanwhile); what NotifyProofs proves of Notify is      *)
(* carried over.  The composition moves one of the three at a time.        *)
(***************************************************************************)
EXTENDS Routines, WellFoundedInduction, TLAPS

NP == INSTANCE NotifyProofs WITH now <- day

-----------------------------------------------------------------------------
(* Numbers *)

\* A set of numbers that is not empty has a least member.
LEMMA Least ==
    ASSUME NEW S \in SUBSET Nat, S # {}
    PROVE  \E x \in S : \A y \in S : x <= y
  <1>1. PICK x \in S : \A y \in S : <<y, x>> \notin OpToRel(<, Nat)
    BY WFMin, NatLessThanWellFounded, Zenon
  <1>2. \A y \in S : ~(y < x)
    BY <1>1, Zenon DEF OpToRel
  <1>3. \A y \in S : x <= y
    BY <1>2
  <1>4. QED
    BY <1>3

\* A set of numbers that is not empty and bounded has a greatest member.
LEMMA Latest ==
    ASSUME NEW S, NEW n \in Nat, S \subseteq 0 .. n, S # {}
    PROVE  C!Max(S) \in S
  <1> DEFINE T == {n - x : x \in S}
  <1>1. T \in SUBSET Nat /\ T # {}
    <2>1. \A x \in S : n - x \in Nat
      OBVIOUS
    <2>2. QED
      BY <2>1
  <1>2. PICK m \in T : \A y \in T : m <= y
    BY <1>1, Least
  <1>3. PICK x \in S : m = n - x
    OBVIOUS
  <1>4. \A y \in S : n - x <= n - y
    BY <1>2, <1>3
  <1>5. \A y \in S : x >= y
    BY <1>4
  <1>6. QED
    BY <1>5 DEF C!Max

-----------------------------------------------------------------------------
(* The run table *)

\* Runs are numbered from 1: 0 stands for nobody.
RunsNumbered == Run \subseteq Nat \ {R!Nobody}

\* A set of runs that is not empty has a least one.
LEMMA LeastRun ==
    ASSUME NEW S \in SUBSET Nat, S # {}
    PROVE  R!Min(S) \in S /\ \A x \in S : R!Min(S) <= x
  BY Least DEF R!Min

-----------------------------------------------------------------------------
(* The invariant.  What keeps a day from two crash rows is that every collection picks   *)
(* the same run for it: runs are started in order, so the first one of a day is known    *)
(* before any other of that day.                                                         *)

Started(r) == fate[r] # "waiting"
FirstOfDay(r) == \A q \in Run : DayOf[q] = DayOf[r] => r <= q

\* A run that may be recorded as a crash by a collection that had read these receipts.
Recordable(r, receipts) ==
    /\ r \in Run /\ Started(r) /\ FirstOfDay(r)
    /\ \A q \in receipts : DayOf[q] # DayOf[r]

PassFit(p) ==
    /\ p.at # "idle" => p.read \subseteq rows
    /\ p.at = "looked" => Recordable(p.first, p.read)

RunsTyped ==
    /\ R!TypeOK
    /\ pass \in [Collector -> [at : {"idle", "ingested", "looked"}, read : SUBSET Run,
                               first : Run \cup {R!Nobody}]]

StartsInOrder == \A r, q \in Run : q < r /\ Started(r) => Started(q)

RunsInv ==
    /\ RunsTyped
    /\ StartsInOrder
    /\ \A c \in Collector : PassFit(pass[c])
    /\ \A r \in DOMAIN crashes : Recordable(r, crashes[r])

\* The invariant gives the two properties.
LEMMA OnePerDay ==
    ASSUME RunsNumbered, RunsInv
    PROVE  R!CrashMeansNoReceipt /\ R!OneCrashPerDay
  <1>1. R!CrashMeansNoReceipt
    BY DEF RunsInv, Recordable, R!CrashMeansNoReceipt
  <1>2. R!OneCrashPerDay
    <2> SUFFICES ASSUME NEW r \in DOMAIN crashes, NEW q \in DOMAIN crashes, DayOf[r] = DayOf[q]
                 PROVE  r = q
      BY DEF R!OneCrashPerDay
    <2>1. r \in Nat /\ q \in Nat /\ r <= q /\ q <= r
      BY DEF RunsInv, Recordable, FirstOfDay, RunsNumbered
    <2>2. QED
      BY <2>1
  <1>3. QED
    BY <1>1, <1>2

\* The first run without a row is the first of its day.
LEMMA MissingFirst ==
    ASSUME RunsNumbered, RunsInv, NEW r \in R!Missing,
           \A q \in R!Missing : DayOf[q] = DayOf[r] => r <= q
    PROVE  Recordable(r, rows)
  <1>1. r \in Run /\ Started(r) /\ ~R!HasRun(DayOf[r])
    BY DEF R!Missing, Started
  <1>2. ASSUME NEW q \in Run, DayOf[q] = DayOf[r] PROVE r <= q
    <2>1. q \in Nat /\ r \in Nat
      BY <1>1 DEF RunsNumbered
    <2>2. CASE q < r
      <3>1. q \in R!Missing
        BY <1>1, <1>2, <2>2 DEF RunsInv, StartsInOrder, R!Missing, Started
      <3>2. QED
        BY <1>2, <3>1
    <2>3. QED
      BY <2>1, <2>2
  <1>3. \A q \in rows : DayOf[q] # DayOf[r]
    BY <1>1 DEF R!HasRun
  <1>4. QED
    BY <1>1, <1>2, <1>3 DEF Recordable, FirstOfDay

\* A step of the runs, or of one collection, that writes no crash.
LEMMA CrashesKept ==
    ASSUME RunsInv, RunsTyped', UNCHANGED crashes, StartsInOrder', rows \subseteq rows',
           \A r \in Run : Started(r) => Started(r)',
           \A c \in Collector : pass'[c] = pass[c] \/ PassFit(pass[c])'
    PROVE  RunsInv'
  <1>1. ASSUME NEW c \in Collector PROVE PassFit(pass[c])'
    BY DEF RunsInv, PassFit, Recordable, FirstOfDay
  <1>2. \A r \in DOMAIN crashes' : Recordable(r, crashes[r])'
    BY DEF RunsInv, Recordable, FirstOfDay
  <1>3. QED
    BY <1>1, <1>2 DEF RunsInv

-----------------------------------------------------------------------------
(* The run table, step by step *)

\* A run that starts or ends keeps the invariant.
LEMMA RunInv ==
    ASSUME RunsInv, NEW r \in Run, R!StartRun(r) \/ R!EndRun(r), RunsNumbered
    PROVE  RunsInv'
  <1>1. fate \in [Run -> {"waiting", "running", "died", "reported"}]
    BY DEF RunsInv, RunsTyped, R!TypeOK
  <1>2. PICK f \in {"running", "died", "reported"} :
           /\ fate' = [fate EXCEPT ![r] = f]
           /\ fate[r] \in {"waiting", "running"}
           /\ fate[r] = "waiting" => \A q \in Run : q < r => Started(q)
           /\ UNCHANGED <<rows, crashes, pass, drops>>
    BY DEF R!StartRun, R!EndRun, Started
  <1>3. \A q \in Run : Started(q)' <=> Started(q) \/ q = r
    BY <1>1, <1>2 DEF Started
  <1>4. R!Receipts \subseteq R!Receipts'
    BY <1>1, <1>2 DEF R!Receipts
  <1>5. RunsTyped'
    BY <1>1, <1>2, <1>3, <1>4 DEF RunsInv, RunsTyped, R!TypeOK, Started
  <1>6. StartsInOrder'
    <2>1. \A p, q \in Run : q < p /\ (Started(p) \/ p = r) => Started(q)
      BY <1>1, <1>2 DEF RunsInv, StartsInOrder, Started
    <2>2. QED
      BY <1>3, <2>1 DEF StartsInOrder
  <1>7. QED
    BY <1>2, <1>3, <1>5, <1>6, CrashesKept

\* A collection that ingests, looks or stops half way keeps the invariant.
LEMMA PassInv ==
    ASSUME RunsInv, NEW c \in Collector, R!Ingest(c) \/ R!Look(c) \/ R!Abort(c), RunsNumbered
    PROVE  RunsInv'
  <1>0. /\ rows \subseteq R!Receipts /\ R!Receipts \subseteq Run
        /\ pass \in [Collector -> [at : {"idle", "ingested", "looked"}, read : SUBSET Run,
                                   first : Run \cup {R!Nobody}]]
        /\ PassFit(pass[c])
    BY DEF RunsInv, RunsTyped, R!TypeOK, R!Receipts
  <1> DEFINE Goes == /\ UNCHANGED <<fate, crashes, drops>>
                     /\ rows \subseteq rows' /\ rows' \subseteq R!Receipts
                     /\ \E p \in [at : {"idle", "ingested", "looked"}, read : SUBSET Run,
                                  first : Run \cup {R!Nobody}] :
                           /\ pass' = [pass EXCEPT ![c] = p]
                           /\ p.read \subseteq R!Receipts
                           /\ (p.first # R!Nobody) <=> (p.at = "looked")
                           /\ p.at # "idle" => p.read \subseteq rows'
                           /\ p.at = "looked" => Recordable(p.first, p.read)
  <1>1. R!Idle.at = "idle" /\ R!Idle.read = {} /\ R!Idle.first = R!Nobody
    BY DEF R!Idle
  <1>i. R!Idle \in [at : {"idle", "ingested", "looked"}, read : SUBSET Run,
                  first : Run \cup {R!Nobody}]
    BY DEF R!Idle
  <1>2. ASSUME R!Ingest(c) PROVE Goes
    <2> DEFINE p == [at |-> "ingested", read |-> R!Receipts, first |-> R!Nobody]
    <2>1. /\ p \in [at : {"idle", "ingested", "looked"}, read : SUBSET Run,
                    first : Run \cup {R!Nobody}]
          /\ p.at = "ingested" /\ p.read = R!Receipts /\ p.first = R!Nobody
      BY <1>0
    <2>2. pass' = [pass EXCEPT ![c] = p] /\ rows' = rows \cup R!Receipts
          /\ UNCHANGED <<fate, crashes, drops>>
      BY <1>2 DEF R!Ingest
    <2> HIDE DEF p
    <2>3. QED
      BY <1>0, <2>1, <2>2
  <1>3. ASSUME R!Look(c), R!Missing = {} PROVE Goes
    BY <1>0, <1>1, <1>i, <1>3 DEF R!Look
  <1>4. ASSUME R!Look(c), R!Missing # {} PROVE Goes
    <2> DEFINE p == [pass[c] EXCEPT !.at = "looked", !.first = R!Min(R!Missing)]
    <2>1. R!Missing \subseteq Run /\ R!Missing \subseteq Nat
      BY DEF R!Missing, RunsNumbered
    <2>2. R!Min(R!Missing) \in R!Missing /\ \A x \in R!Missing : R!Min(R!Missing) <= x
      BY <1>4, <2>1, LeastRun
    <2>3. Recordable(R!Min(R!Missing), rows)
      BY <2>2, MissingFirst
    <2>4. pass[c].read \subseteq rows
      BY <1>0, <1>4 DEF R!Look, PassFit
    <2>5. /\ p \in [at : {"idle", "ingested", "looked"}, read : SUBSET Run,
                    first : Run \cup {R!Nobody}]
          /\ p.at = "looked" /\ p.read = pass[c].read /\ p.first = R!Min(R!Missing)
      BY <1>0, <2>1, <2>2
    <2>6. R!Min(R!Missing) # R!Nobody
      BY <2>1, <2>2 DEF RunsNumbered
    <2>7. pass' = [pass EXCEPT ![c] = p] /\ UNCHANGED <<fate, rows, crashes, drops>>
      BY <1>4 DEF R!Look
    <2> HIDE DEF p
    <2>8. Recordable(p.first, p.read)
      BY <2>3, <2>4, <2>5 DEF Recordable
    <2>9. QED
      BY <1>0, <2>4, <2>5, <2>6, <2>7, <2>8
  <1>5. ASSUME R!Abort(c) PROVE Goes
    BY <1>0, <1>1, <1>i, <1>5 DEF R!Abort
  <1>6. Goes
    BY <1>2, <1>3, <1>4, <1>5
  <1>7. UNCHANGED fate /\ R!Receipts' = R!Receipts /\ StartsInOrder'
    BY <1>6 DEF R!Receipts, RunsInv, StartsInOrder, Started
  <1>8. PICK p \in [at : {"idle", "ingested", "looked"}, read : SUBSET Run,
                    first : Run \cup {R!Nobody}] :
           /\ pass' = [pass EXCEPT ![c] = p]
           /\ p.read \subseteq R!Receipts
           /\ (p.first # R!Nobody) <=> (p.at = "looked")
           /\ p.at # "idle" => p.read \subseteq rows'
           /\ p.at = "looked" => Recordable(p.first, p.read)
    BY <1>6
  <1>9. \A d \in Collector : pass'[d] = IF d = c THEN p ELSE pass[d]
    BY <1>0, <1>8
  <1>10. RunsTyped'
    BY <1>0, <1>6, <1>7, <1>8, <1>9 DEF RunsInv, RunsTyped, R!TypeOK
  <1>11. PassFit(pass[c])'
    BY <1>7, <1>8, <1>9 DEF PassFit, Recordable, FirstOfDay, Started
  <1>12. \A r \in Run : Started(r) => Started(r)'
    BY <1>7 DEF Started
  <1>13. QED
    BY <1>6, <1>7, <1>9, <1>10, <1>11, <1>12, CrashesKept

\* The crashes a collection writes are recordable: the first by its look, the later ones by the
\* look of the same transaction.
LEMMA RecordInv ==
    ASSUME RunsInv, NEW c \in Collector, R!Record(c), RunsNumbered
    PROVE  RunsInv'
  <1>0. /\ rows \subseteq R!Receipts /\ R!Receipts \subseteq Run
        /\ pass \in [Collector -> [at : {"idle", "ingested", "looked"}, read : SUBSET Run,
                                   first : Run \cup {R!Nobody}]]
        /\ PassFit(pass[c])
    BY DEF RunsInv, RunsTyped, R!TypeOK, R!Receipts
  <1> DEFINE first == pass[c].first
             later == {r \in R!Missing : DayOf[r] # DayOf[first]
                                       /\ \A q \in R!Missing : DayOf[q] = DayOf[r] => r <= q}
  <1>1. pass[c].at = "looked" /\ pass[c].read \subseteq rows
    BY <1>0 DEF R!Record, PassFit
  <1>2. Recordable(first, pass[c].read)
    BY <1>0, <1>1 DEF PassFit
  <1>3. \A r \in later : Recordable(r, pass[c].read)
    <2> SUFFICES ASSUME NEW r \in later PROVE Recordable(r, pass[c].read)
      OBVIOUS
    <2>1. Recordable(r, rows)
      BY MissingFirst
    <2>2. QED
      BY <1>1, <2>1 DEF Recordable
  <1>4. /\ DOMAIN crashes' = DOMAIN crashes \cup {first} \cup later
        /\ \A r \in DOMAIN crashes' :
              crashes'[r] = IF r \in DOMAIN crashes THEN crashes[r] ELSE pass[c].read
        /\ pass' = [pass EXCEPT ![c] = R!Idle]
        /\ UNCHANGED <<fate, rows, drops>>
    BY DEF R!Record
  <1> HIDE DEF first, later
  <1>5. \A r \in DOMAIN crashes' : Recordable(r, crashes'[r])
    <2> SUFFICES ASSUME NEW r \in DOMAIN crashes' PROVE Recordable(r, crashes'[r])
      OBVIOUS
    <2>1. CASE r \in DOMAIN crashes
      BY <1>4, <2>1 DEF RunsInv
    <2>2. CASE r \notin DOMAIN crashes
      BY <1>2, <1>3, <1>4, <2>2
    <2>3. QED
      BY <2>1, <2>2
  <1>6. \A r \in DOMAIN crashes' : r \in Run /\ fate[r] # "waiting"
    BY <1>5 DEF Recordable, Started
  <1>7. /\ R!Idle \in [at : {"idle", "ingested", "looked"}, read : SUBSET Run,
                     first : Run \cup {R!Nobody}]
        /\ R!Idle.at = "idle" /\ R!Idle.read = {} /\ R!Idle.first = R!Nobody
    BY DEF R!Idle
  <1>8. \A d \in Collector : pass'[d] = IF d = c THEN R!Idle ELSE pass[d]
    BY <1>0, <1>4
  <1>9. RunsTyped'
    <2>1. R!Receipts' = R!Receipts
      BY <1>4 DEF R!Receipts
    <2>2. pass' \in [Collector -> [at : {"idle", "ingested", "looked"}, read : SUBSET Run,
                                   first : Run \cup {R!Nobody}]]
      BY <1>0, <1>4, <1>7
    <2>3. \A d \in Collector : /\ pass'[d].at \in {"idle", "ingested", "looked"}
                               /\ pass'[d].read \subseteq R!Receipts
                               /\ (pass'[d].first # R!Nobody) <=> (pass'[d].at = "looked")
      BY <1>7, <1>8 DEF RunsInv, RunsTyped, R!TypeOK
    <2>4. QED
      BY <1>4, <1>6, <2>1, <2>2, <2>3 DEF RunsInv, RunsTyped, R!TypeOK
  <1>10. \A d \in Collector : PassFit(pass[d])'
    BY <1>4, <1>7, <1>8 DEF RunsInv, PassFit, Recordable, FirstOfDay, Started
  <1>11. StartsInOrder' /\ \A r \in DOMAIN crashes' : Recordable(r, crashes[r])'
    BY <1>4, <1>5 DEF RunsInv, StartsInOrder, Recordable, FirstOfDay, Started
  <1>12. QED
    BY <1>9, <1>10, <1>11 DEF RunsInv

\* A dropped index keeps the invariant.
LEMMA DropInv ==
    ASSUME RunsInv, R!DropIndex, MaxDrops \in Nat
    PROVE  RunsInv'
  <1>1. /\ R!Idle \in [at : {"idle", "ingested", "looked"}, read : SUBSET Run,
                     first : Run \cup {R!Nobody}]
        /\ R!Idle.at = "idle" /\ R!Idle.read = {} /\ R!Idle.first = R!Nobody
    BY DEF R!Idle
  <1>2. \A c \in Collector : pass'[c] = R!Idle
    BY DEF R!DropIndex
  <1>3. /\ rows' = {} /\ DOMAIN crashes' = {} /\ fate' = fate
        /\ drops' \in 0 .. MaxDrops
    BY DEF R!DropIndex, RunsInv, RunsTyped, R!TypeOK
  <1>4. pass' \in [Collector -> [at : {"idle", "ingested", "looked"}, read : SUBSET Run,
                                 first : Run \cup {R!Nobody}]]
    BY <1>1 DEF R!DropIndex
  <1>5. RunsTyped'
    BY <1>1, <1>2, <1>3, <1>4 DEF RunsInv, RunsTyped, R!TypeOK
  <1>6. QED
    BY <1>1, <1>2, <1>3, <1>5 DEF RunsInv, PassFit, StartsInOrder, Started

\* The three facts of the inductive invariant, in the form a composition cites.
LEMMA RunsInductive ==
    ASSUME RunsNumbered, MaxDrops \in Nat
    PROVE  /\ R!Init => RunsInv
           /\ RunsInv /\ [R!Next]_runs => RunsInv'
           /\ RunsInv => R!TypeOK /\ R!CrashMeansNoReceipt /\ R!OneCrashPerDay
  <1>1. ASSUME R!Init PROVE RunsInv
    <2>1. \A c \in Collector : pass[c].at = "idle" /\ pass[c].read = {} /\ pass[c].first = R!Nobody
      BY <1>1 DEF R!Init, R!Idle
    <2>2. pass \in [Collector -> [at : {"idle", "ingested", "looked"}, read : SUBSET Run,
                                  first : Run \cup {R!Nobody}]]
      BY <1>1 DEF R!Init, R!Idle
    <2>3. rows = {} /\ DOMAIN crashes = {} /\ drops = 0
          /\ fate = [r \in Run |-> "waiting"]
      BY <1>1 DEF R!Init
    <2>4. RunsTyped
      BY <2>1, <2>2, <2>3 DEF RunsTyped, R!TypeOK
    <2>5. QED
      BY <2>1, <2>3, <2>4 DEF RunsInv, StartsInOrder, Started, PassFit
  <1>2. ASSUME RunsInv, [R!Next]_runs PROVE RunsInv'
    <2>1. CASE UNCHANGED runs
      BY <1>2, <2>1 DEF runs, RunsInv, RunsTyped, R!TypeOK, R!Receipts, StartsInOrder, Started,
                        PassFit, Recordable,
                        FirstOfDay
    <2>2. CASE R!Next
      BY <1>2, <2>2, RunInv, PassInv, RecordInv, DropInv DEF R!Next
    <2>3. QED
      BY <1>2, <2>1, <2>2
  <1>3. RunsInv => R!TypeOK /\ R!CrashMeansNoReceipt /\ R!OneCrashPerDay
    BY OnePerDay DEF RunsInv, RunsTyped
  <1>4. QED
    BY <1>1, <1>2, <1>3

-----------------------------------------------------------------------------
(* The occurrences of the cloud loops up to now *)

\* What is asked of the constants: loops have an order, and each fires within the bound.
Scheduled ==
    /\ C!Loop \subseteq Nat
    /\ MaxTime \in Nat /\ MaxOthers \in Nat /\ MaxFaults \in Nat
    /\ \A l \in C!Loop : Occurrences[l] \subseteq 0 .. MaxTime /\ Occurrences[l] # {}

\* The occurrence that a due loop is run for is one of its schedule, and is not to come.
LEMMA PreviousFire ==
    ASSUME Scheduled, now \in 0 .. MaxTime, NEW l \in C!Loop, C!Earliest(l) <= now
    PROVE  C!previous_fire(l) \in Occurrences[l] /\ C!previous_fire(l) <= now
  <1>1. Occurrences[l] \in SUBSET Nat /\ Occurrences[l] # {} /\ now \in Nat
    BY DEF Scheduled
  <1>2. C!Min(Occurrences[l]) \in Occurrences[l]
    BY <1>1, Least DEF C!Min
  <1> DEFINE S == {o \in Occurrences[l] : o <= now}
  <1>3. S \subseteq 0 .. now /\ S # {}
    BY <1>1, <1>2 DEF C!Earliest
  <1> HIDE DEF S
  <1>4. C!Max(S) \in S
    BY <1>1, <1>3, Latest
  <1>5. QED
    BY <1>4 DEF S, C!previous_fire

-----------------------------------------------------------------------------
(* The invariant.  A run of a loop is answered by the newest receipt the job knows of, and  *)
(* by the clock while the loop is being run; every occurrence up to that was fired once     *)
(* more than receipts were lost, every other not even that.                                 *)

Partial == UNION {[D -> 0 .. MaxTime] : D \in SUBSET C!Loop}
Fires   == UNION {[D -> Nat] : D \in SUBSET (0 .. MaxTime)}

Job == [at : {"idle", "checked-out", "between", "in-a-run"},
        seen : {<<>>} \cup [C!Loop -> C!Never .. MaxTime],
        due : Partial, new : Partial, ran : SUBSET C!Loop]

JobTyped ==
       /\ C!TypeOK
       /\ job \in Job /\ fired \in [C!Loop -> Fires] /\ lost \in [C!Loop -> Nat]

InTime ==
    /\ \A l \in C!Loop : origin[l] <= now
    /\ job.at # "idle" => /\ job.seen \in [C!Loop -> C!Never .. MaxTime]
                          /\ \A l \in C!Loop : job.seen[l] <= origin[l]
    /\ \A l \in DOMAIN job.new : job.new[l] <= now

Answered(l) ==
    IF job.at = "idle" THEN origin[l]
    ELSE IF l \in DOMAIN job.new THEN job.new[l]
    ELSE IF l \in job.ran THEN now
    ELSE job.seen[l]

Balanced ==
    \A l \in C!Loop : \A o \in Occurrences[l] :
        /\ fired[l][o] <= 1 + lost[l]
        /\ o > Answered(l) => fired[l][o] <= lost[l]

\* What is due and has not been run was not fired without a loss.
Awaited ==
    /\ job.at \in {"idle", "checked-out"} => DOMAIN job.due = {} /\ DOMAIN job.new = {} /\ job.ran = {}
    /\ \A l \in DOMAIN job.due :
          /\ job.due[l] <= now
          /\ IF job.at = "in-a-run" /\ C!Turn(l)
               THEN l \in job.ran /\ l \notin DOMAIN job.new
               ELSE l \notin job.ran /\ fired[l][job.due[l]] <= lost[l]

CloudInv == JobTyped /\ InTime /\ Balanced /\ Awaited

\* What a job keeps by loop is a function on some of the loops.
LEMMA PartialFunction ==
    ASSUME NEW w \in Partial
    PROVE  DOMAIN w \subseteq C!Loop /\ w \in [DOMAIN w -> 0 .. MaxTime]
  BY DEF Partial

\* The empty function is one.
LEMMA EmptyPartial == <<>> \in Partial /\ DOMAIN <<>> = {}
  BY DEF Partial

\* Fires are counted for every occurrence of every loop.
LEMMA FiresFunction ==
    ASSUME JobTyped, NEW l \in C!Loop
    PROVE  fired[l] \in [Occurrences[l] -> Nat] /\ lost[l] \in Nat
  BY DEF JobTyped, C!TypeOK

\* No job is a job that has done nothing.
LEMMA IdleJob ==
    C!Idle \in Job /\ C!Idle.at = "idle" /\ DOMAIN C!Idle.due = {} /\ DOMAIN C!Idle.new = {} /\ C!Idle.ran = {}
  BY EmptyPartial DEF C!Idle, Job

\* Taking a loop off leaves the rest as it was.
LEMMA RestrictPartial ==
    ASSUME NEW w \in Partial, NEW l
    PROVE  /\ C!Restrict(w, DOMAIN w \ {l}) \in Partial
           /\ DOMAIN C!Restrict(w, DOMAIN w \ {l}) = DOMAIN w \ {l}
           /\ \A k \in DOMAIN w \ {l} : C!Restrict(w, DOMAIN w \ {l})[k] = w[k]
  <1>1. DOMAIN w \ {l} \in SUBSET C!Loop
    BY PartialFunction
  <1>2. C!Restrict(w, DOMAIN w \ {l}) \in [DOMAIN w \ {l} -> 0 .. MaxTime]
    BY PartialFunction DEF C!Restrict
  <1>3. QED
    BY <1>1, <1>2 DEF Partial, C!Restrict

-----------------------------------------------------------------------------
(* A job of the cloud routine *)

\* A job begins with the receipts of the repository.
LEMMA CheckoutInv ==
    ASSUME Scheduled, CloudInv, C!Checkout
    PROVE  CloudInv'
  <1>0. /\ origin \in [C!Loop -> C!Never .. MaxTime] /\ job \in Job
        /\ UNCHANGED <<now, origin, others, faults, fired, lost>> /\ behind' = FALSE
        /\ job.at = "idle"
    BY DEF CloudInv, JobTyped, C!TypeOK, C!Checkout
  <1>1. /\ job' \in Job /\ job'.at = "checked-out" /\ job'.seen = origin
        /\ DOMAIN job'.due = {} /\ DOMAIN job'.new = {} /\ job'.ran = {}
    BY <1>0, EmptyPartial DEF C!Checkout, C!Idle, Job
  <1>2. JobTyped'
    BY <1>0, <1>1 DEF CloudInv, JobTyped, C!TypeOK
  <1>3. \A l \in C!Loop : origin[l] \in Int /\ origin[l] <= now
    BY <1>0 DEF CloudInv, InTime, C!Never
  <1>4. InTime'
    BY <1>0, <1>1, <1>3 DEF InTime
  <1>5. \A l \in C!Loop : Answered(l)' = Answered(l)
    BY <1>0, <1>1 DEF Answered
  <1>6. Balanced'
    BY <1>0, <1>5 DEF CloudInv, Balanced
  <1>7. Awaited'
    BY <1>1 DEF Awaited
  <1>8. QED
    BY <1>2, <1>4, <1>6, <1>7 DEF CloudInv

\* What a job finds due, no receipt it knows answers.
LEMMA DueCloudInv ==
    ASSUME Scheduled, CloudInv, NEW only \in SUBSET C!Loop, C!DueCloud(only)
    PROVE  CloudInv'
  <1> DEFINE D == {k \in only : C!IsDue(k)}
             due == [l \in D |-> C!previous_fire(l)]
  <1>0. /\ job \in Job /\ job.at = "checked-out" /\ now \in 0 .. MaxTime
        /\ UNCHANGED <<now, origin, behind, others, faults, fired, lost>>
        /\ job' = [job EXCEPT !.at = "between", !.due = due]
    BY DEF CloudInv, JobTyped, C!TypeOK, C!DueCloud
  <1>1. \A l \in D : l \in C!Loop /\ due[l] \in Occurrences[l] /\ due[l] <= now /\ job.seen[l] < due[l]
    BY <1>0, PreviousFire DEF C!IsDue
  <1>2. due \in [D -> 0 .. MaxTime] /\ D \in SUBSET C!Loop /\ DOMAIN due = D
    BY <1>1 DEF Scheduled
  <1> HIDE DEF D, due
  <1>3. due \in Partial
    BY <1>2 DEF Partial
  <1>4. /\ job' \in Job /\ job'.at = "between" /\ job'.due = due
        /\ job'.seen = job.seen /\ job'.new = job.new /\ job'.ran = job.ran
    BY <1>0, <1>3 DEF Job
  <1>5. DOMAIN job.new = {} /\ job.ran = {}
    BY <1>0 DEF CloudInv, Awaited
  <1>6. JobTyped'
    BY <1>0, <1>1, <1>2, <1>4 DEF CloudInv, JobTyped, C!TypeOK
  <1>7. InTime'
    BY <1>0, <1>4 DEF CloudInv, InTime
  <1>8. \A l \in C!Loop : Answered(l)' = Answered(l) /\ Answered(l) = job.seen[l]
    BY <1>0, <1>4, <1>5 DEF Answered
  <1>9. Balanced'
    BY <1>0, <1>8 DEF CloudInv, Balanced
  <1>10. \A l \in D : fired[l][due[l]] <= lost[l]
    <2>1. ASSUME NEW l \in D PROVE fired[l][due[l]] <= lost[l]
      <3>1. due[l] \in Int /\ job.seen[l] \in Int
        BY <1>0, <1>1, <1>2 DEF CloudInv, InTime, C!Never
      <3>2. due[l] > Answered(l) /\ l \in C!Loop /\ due[l] \in Occurrences[l]
        BY <1>1, <1>8, <3>1
      <3>3. QED
        BY <3>2 DEF CloudInv, Balanced
    <2>2. QED
      BY <2>1
  <1>11. Awaited'
    BY <1>0, <1>1, <1>2, <1>4, <1>5, <1>10 DEF Awaited
  <1>12. QED
    BY <1>6, <1>7, <1>9, <1>11 DEF CloudInv

\* An occurrence is fired.
LEMMA RunStartsInv ==
    ASSUME Scheduled, CloudInv, NEW l \in C!Loop, C!RunStarts(l)
    PROVE  CloudInv'
  <1> DEFINE d == job.due[l]
             f == [fired[l] EXCEPT ![d] = @ + 1]
  <1>0. /\ job \in Job /\ job.at = "between" /\ now \in 0 .. MaxTime
        /\ UNCHANGED <<now, origin, behind, others, faults, lost>>
        /\ job' = [job EXCEPT !.at = "in-a-run", !.ran = @ \cup {l}]
        /\ fired' = [fired EXCEPT ![l] = f]
        /\ l \in DOMAIN job.due /\ \A k \in DOMAIN job.due : l <= k
        /\ fired \in [C!Loop -> Fires]
    BY DEF CloudInv, JobTyped, C!TypeOK, C!RunStarts, C!Turn
  <1>1. /\ d \in Occurrences[l] /\ d <= now /\ l \notin job.ran /\ l \notin DOMAIN job.new
        /\ fired[l][d] <= lost[l]
    BY <1>0 DEF CloudInv, JobTyped, C!TypeOK, Awaited
  <1>2. fired[l] \in [Occurrences[l] -> Nat] /\ lost[l] \in Nat
        /\ Occurrences[l] \subseteq 0 .. MaxTime
    BY FiresFunction DEF CloudInv, Scheduled
  <1>3. f \in [Occurrences[l] -> Nat] /\ f[d] = fired[l][d] + 1
        /\ \A o \in Occurrences[l] \ {d} : f[o] = fired[l][o]
    BY <1>1, <1>2
  <1>4. f \in Fires
    BY <1>2, <1>3 DEF Fires
  <1> HIDE DEF f
  <1>5. /\ fired' \in [C!Loop -> Fires] /\ fired'[l] = f
        /\ \A k \in C!Loop \ {l} : fired'[k] = fired[k]
    BY <1>0, <1>4
  <1>6. /\ job' \in Job /\ job'.at = "in-a-run" /\ job'.due = job.due
        /\ job'.seen = job.seen /\ job'.new = job.new /\ job'.ran = job.ran \cup {l}
    BY <1>0 DEF Job
  <1>7. JobTyped'
    BY <1>0, <1>3, <1>5, <1>6 DEF CloudInv, JobTyped, C!TypeOK
  <1>8. InTime'
    BY <1>0, <1>6 DEF CloudInv, InTime
  <1>9. Balanced'
    <2>1. \A k \in C!Loop \ {l} : Answered(k)' = Answered(k)
      BY <1>0, <1>6 DEF Answered
    <2>2. Answered(l) = job.seen[l] /\ Answered(l)' = now
      BY <1>0, <1>1, <1>6 DEF Answered
    <2>3. job.seen[l] \in Int /\ origin[l] \in Int /\ now \in Int /\ d \in Int
          /\ job.seen[l] <= now
      BY <1>0, <1>1, <1>2 DEF CloudInv, InTime, C!Never, JobTyped, C!TypeOK
    <2>4. ASSUME NEW o \in Occurrences[l]
          PROVE  fired'[l][o] <= 1 + lost[l] /\ (o > now => fired'[l][o] <= lost[l])
      <3>1. CASE o = d
        BY <1>1, <1>2, <1>3, <1>5, <2>3, <3>1
      <3>2. CASE o # d
        BY <1>2, <1>3, <1>5, <2>2, <2>3, <3>2 DEF CloudInv, Balanced
      <3>3. QED
        BY <3>1, <3>2
    <2>5. \A k \in C!Loop \ {l} : \A o \in Occurrences[k] :
             fired'[k][o] <= 1 + lost[k] /\ (o > Answered(k)' => fired'[k][o] <= lost[k])
      BY <1>5, <2>1 DEF CloudInv, Balanced
    <2>6. QED
      BY <1>0, <2>2, <2>4, <2>5 DEF Balanced
  <1>10. Awaited'
    <2>1. ASSUME NEW k \in DOMAIN job.due, k # l
          PROVE  ~C!Turn(k)' /\ k \notin job'.ran /\ fired'[k][job.due[k]] <= lost[k] /\ job.due[k] <= now
      <3>1. k \in C!Loop /\ k \in Nat /\ l \in Nat
        BY DEF CloudInv, JobTyped, C!TypeOK, Scheduled
      <3>2. ~C!Turn(k)'
        BY <1>0, <1>6, <2>1, <3>1 DEF C!Turn
      <3>3. k \notin job.ran /\ fired[k][job.due[k]] <= lost[k] /\ job.due[k] <= now
        BY <1>0 DEF CloudInv, Awaited
      <3>4. QED
        BY <1>5, <1>6, <2>1, <3>1, <3>2, <3>3
    <2>2. C!Turn(l)' /\ l \in job'.ran /\ l \notin DOMAIN job'.new
      BY <1>0, <1>1, <1>6 DEF C!Turn
    <2>3. QED
      BY <1>0, <1>1, <1>6, <2>1, <2>2 DEF Awaited
  <1>11. QED
    BY <1>7, <1>8, <1>9, <1>10 DEF CloudInv

\* What C!RunEnds and C!RunRaises have in common: the loop's turn is over.
LEMMA TurnOver ==
    ASSUME Scheduled, CloudInv, NEW l \in C!Loop, C!Turn(l), job.at = "in-a-run",
           job' \in Job, job'.at = "between",
           job'.due = C!Restrict(job.due, DOMAIN job.due \ {l}), job'.ran = job.ran,
           UNCHANGED <<now, fired, lost>>
    PROVE  /\ Awaited' /\ l \in job.ran /\ l \notin DOMAIN job.new
           /\ DOMAIN job'.due \subseteq C!Loop /\ \A k \in DOMAIN job'.due : job'.due[k] \in Occurrences[k]
  <1>1. job'.due = [k \in DOMAIN job.due \ {l} |-> job.due[k]]
    BY Zenon DEF C!Restrict
  <1>2. DOMAIN job'.due = DOMAIN job.due \ {l} /\ \A k \in DOMAIN job'.due : job'.due[k] = job.due[k]
    BY <1>1
  <1>3. ASSUME NEW k \in DOMAIN job'.due
        PROVE  k \notin job.ran /\ fired[k][job.due[k]] <= lost[k] /\ job.due[k] <= now
    <2>1. k \in DOMAIN job.due /\ k # l /\ l \in DOMAIN job.due
      BY <1>2 DEF C!Turn
    <2>2. k \in Nat /\ l \in Nat
      BY <2>1 DEF CloudInv, JobTyped, C!TypeOK, Scheduled
    <2>3. ~C!Turn(k)
      BY <2>1, <2>2 DEF C!Turn
    <2>4. QED
      BY <2>1, <2>3 DEF CloudInv, Awaited
  <1>4. Awaited'
    BY <1>2, <1>3 DEF Awaited
  <1>5. l \in job.ran /\ l \notin DOMAIN job.new
    BY DEF CloudInv, Awaited, C!Turn
  <1>6. /\ DOMAIN job.due \subseteq C!Loop
        /\ \A k \in DOMAIN job.due : job.due[k] \in Occurrences[k]
    BY DEF CloudInv, JobTyped, C!TypeOK
  <1>7. QED
    BY <1>2, <1>4, <1>5, <1>6

\* A run wrote its receipt.
LEMMA RunEndsInv ==
    ASSUME Scheduled, CloudInv, NEW l \in C!Loop, C!RunEnds(l)
    PROVE  CloudInv'
  <1> DEFINE due == C!Restrict(job.due, DOMAIN job.due \ {l})
             new == [k \in DOMAIN job.new \cup {l} |-> IF k = l THEN now ELSE job.new[k]]
  <1>0. /\ job \in Job /\ job.at = "in-a-run" /\ now \in 0 .. MaxTime /\ C!Turn(l)
        /\ UNCHANGED <<now, origin, behind, others, faults, fired, lost>>
        /\ job' = [job EXCEPT !.at = "between", !.due = due, !.new = new]
        /\ job.due \in Partial /\ job.new \in Partial
    BY DEF CloudInv, JobTyped, C!TypeOK, C!RunEnds, Job
  <1>1. due \in Partial
    BY <1>0, RestrictPartial
  <1>2. DOMAIN new = DOMAIN job.new \cup {l} /\ new[l] = now
        /\ \A k \in DOMAIN job.new \ {l} : new[k] = job.new[k]
    OBVIOUS
  <1>3. new \in Partial
    <2>1. DOMAIN job.new \cup {l} \in SUBSET C!Loop
      BY <1>0, PartialFunction
    <2>2. new \in [DOMAIN job.new \cup {l} -> 0 .. MaxTime]
      BY <1>0, PartialFunction
    <2>3. QED
      BY <2>1, <2>2 DEF Partial
  <1> HIDE DEF new, due
  <1>4. /\ job' \in Job /\ job'.at = "between" /\ job'.due = due
        /\ job'.seen = job.seen /\ job'.new = new /\ job'.ran = job.ran
    BY <1>0, <1>1, <1>3 DEF Job
  <1>5. /\ Awaited' /\ l \in job.ran /\ l \notin DOMAIN job.new
        /\ DOMAIN job'.due \subseteq C!Loop /\ \A k \in DOMAIN job'.due : job'.due[k] \in Occurrences[k]
    BY <1>0, <1>4, TurnOver DEF due
  <1>6. JobTyped'
    BY <1>0, <1>2, <1>4, <1>5 DEF CloudInv, JobTyped, C!TypeOK
  <1>7. InTime'
    BY <1>0, <1>2, <1>4 DEF CloudInv, InTime
  <1>8. \A k \in C!Loop : Answered(k)' = Answered(k)
    BY <1>0, <1>2, <1>4, <1>5 DEF Answered
  <1>9. Balanced'
    BY <1>0, <1>8 DEF CloudInv, Balanced
  <1>10. QED
    BY <1>5, <1>6, <1>7, <1>9 DEF CloudInv

\* A run raised: the loop has no receipt from this job.
LEMMA RunRaisesInv ==
    ASSUME Scheduled, CloudInv, NEW l \in C!Loop, C!RunRaises(l)
    PROVE  CloudInv'
  <1> DEFINE due == C!Restrict(job.due, DOMAIN job.due \ {l})
  <1>0. /\ job \in Job /\ job.at = "in-a-run" /\ now \in 0 .. MaxTime /\ C!Turn(l)
        /\ UNCHANGED <<now, origin, behind, others, fired, lost>>
        /\ job' = [job EXCEPT !.at = "between", !.due = due]
        /\ job.due \in Partial
        /\ faults \in 0 .. MaxFaults /\ faults < MaxFaults /\ faults' = faults + 1
    BY DEF CloudInv, JobTyped, C!TypeOK, C!RunRaises, Job
  <1>1. due \in Partial
    BY <1>0, RestrictPartial
  <1> HIDE DEF due
  <1>2. /\ job' \in Job /\ job'.at = "between" /\ job'.due = due
        /\ job'.seen = job.seen /\ job'.new = job.new /\ job'.ran = job.ran
    BY <1>0, <1>1 DEF Job
  <1>3. /\ Awaited'
        /\ DOMAIN job'.due \subseteq C!Loop /\ \A k \in DOMAIN job'.due : job'.due[k] \in Occurrences[k]
    BY <1>0, <1>2, TurnOver DEF due
  <1>4. faults' \in 0 .. MaxFaults
    BY <1>0 DEF Scheduled
  <1>5. JobTyped'
    BY <1>0, <1>2, <1>3, <1>4 DEF CloudInv, JobTyped, C!TypeOK
  <1>6. InTime'
    BY <1>0, <1>2 DEF CloudInv, InTime
  <1>7. \A k \in C!Loop : Answered(k)' = Answered(k)
    BY <1>0, <1>2 DEF Answered
  <1>8. Balanced'
    BY <1>0, <1>7 DEF CloudInv, Balanced
  <1>9. QED
    BY <1>3, <1>5, <1>6, <1>8 DEF CloudInv

\* A job is over: what it did not get into the repository is lost.
LEMMA OverInv ==
    ASSUME Scheduled, CloudInv, job.at # "idle", job' = C!Idle,
           UNCHANGED <<now, behind, others, fired>>, faults' \in 0 .. MaxFaults,
           origin' \in [C!Loop -> C!Never .. MaxTime],
           lost' \in [C!Loop -> Nat],
           \A l \in C!Loop : /\ origin'[l] <= now /\ lost'[l] >= lost[l]
                             /\ l \in DOMAIN job.new => lost'[l] > lost[l] \/ origin'[l] = job.new[l]
                             /\ l \in job.ran \ DOMAIN job.new => lost'[l] > lost[l]
                             /\ l \notin DOMAIN job.new => origin'[l] = origin[l]
    PROVE  CloudInv'
  <1>1. job' \in Job /\ job'.at = "idle" /\ DOMAIN job'.due = {} /\ DOMAIN job'.new = {} /\ job'.ran = {}
    BY IdleJob
  <1>2. JobTyped'
    BY <1>1 DEF CloudInv, JobTyped, C!TypeOK
  <1>3. InTime' /\ Awaited'
    BY <1>1 DEF InTime, Awaited
  <1>4. ASSUME NEW l \in C!Loop, NEW o \in Occurrences[l]
        PROVE  fired[l][o] <= 1 + lost'[l] /\ (o > Answered(l)' => fired[l][o] <= lost'[l])
    <2>0. /\ fired[l][o] \in Nat /\ lost[l] \in Nat /\ lost'[l] \in Nat /\ lost'[l] >= lost[l]
          /\ o \in Int /\ origin[l] \in Int /\ origin'[l] \in Int
          /\ Answered(l)' = origin'[l]
      BY <1>1, FiresFunction DEF CloudInv, JobTyped, C!TypeOK, Scheduled, C!Never, Answered
    <2>1. fired[l][o] <= 1 + lost[l] /\ (o > Answered(l) => fired[l][o] <= lost[l])
      BY DEF CloudInv, Balanced
    <2>2. CASE lost'[l] > lost[l]
      BY <2>0, <2>1, <2>2
    <2>3. CASE l \in DOMAIN job.new /\ origin'[l] = job.new[l]
      <3>1. Answered(l) = job.new[l]
        BY <2>3 DEF Answered
      <3>2. QED
        BY <2>0, <2>1, <2>3, <3>1
    <2>4. CASE l \notin DOMAIN job.new /\ l \notin job.ran
      <3>1. /\ Answered(l) = job.seen[l] /\ origin'[l] = origin[l]
            /\ job.seen[l] <= origin[l] /\ job.seen[l] \in Int
        BY <2>4 DEF Answered, CloudInv, InTime, C!Never
      <3>2. QED
        BY <2>0, <2>1, <3>1
    <2>5. QED
      BY <2>2, <2>3, <2>4
  <1>5. Balanced'
    BY <1>4 DEF Balanced
  <1>6. QED
    BY <1>2, <1>3, <1>5 DEF CloudInv

\* The lost receipts are counted.
LEMMA Loses ==
    ASSUME CloudInv, NEW L, C!Losing(L)
    PROVE  /\ lost' \in [C!Loop -> Nat] /\ \A l \in C!Loop : lost'[l] >= lost[l]
           /\ \A l \in C!Loop : l \in L => lost'[l] > lost[l]
  <1>1. lost \in [C!Loop -> Nat]
    BY DEF CloudInv, JobTyped
  <1>2. QED
    BY <1>1 DEF C!Losing

\* A job got its receipts into the repository.
LEMMA PushInv ==
    ASSUME Scheduled, CloudInv, C!Push
    PROVE  CloudInv'
  <1>0. /\ job \in Job /\ job.new \in Partial /\ now \in 0 .. MaxTime
        /\ origin \in [C!Loop -> C!Never .. MaxTime]
        /\ UNCHANGED <<now, behind, others, fired>> /\ faults' \in 0 .. MaxFaults
        /\ job' = C!Idle /\ job.at # "idle"
        /\ origin' = [l \in C!Loop |-> IF l \in DOMAIN job.new THEN job.new[l] ELSE origin[l]]
        /\ C!Losing(job.ran \ DOMAIN job.new)
    BY DEF CloudInv, JobTyped, C!TypeOK, C!Push, Job
  <1>1. \A l \in DOMAIN job.new : job.new[l] \in C!Never .. MaxTime
    BY <1>0, PartialFunction DEF C!Never, Scheduled
  <1>2. origin' \in [C!Loop -> C!Never .. MaxTime]
    BY <1>0, <1>1
  <1>3. \A l \in C!Loop : /\ origin'[l] <= now
                          /\ l \in DOMAIN job.new => origin'[l] = job.new[l]
                          /\ l \notin DOMAIN job.new => origin'[l] = origin[l]
    BY <1>0 DEF CloudInv, InTime
  <1>4. QED
    BY <1>0, <1>2, <1>3, Loses, OverInv

\* A job was rejected or killed: its receipts are lost.
LEMMA PushRejectedInv ==
    ASSUME Scheduled, CloudInv, C!PushRejected \/ C!Killed
    PROVE  CloudInv'
  <1>0. /\ origin \in [C!Loop -> C!Never .. MaxTime] /\ faults \in 0 .. MaxFaults
        /\ UNCHANGED <<now, origin, behind, others, fired>>
        /\ job' = C!Idle /\ job.at # "idle" /\ C!Losing(job.ran)
    BY DEF CloudInv, JobTyped, C!TypeOK, C!PushRejected, C!Killed
  <1>1. faults' \in 0 .. MaxFaults
    BY <1>0 DEF C!PushRejected, C!Killed, Scheduled
  <1>2. \A l \in C!Loop : origin'[l] <= now /\ origin'[l] = origin[l]
    BY <1>0 DEF CloudInv, InTime
  <1>3. DOMAIN job.new \subseteq job.ran
    BY DEF CloudInv, JobTyped, C!TypeOK
  <1>4. QED
    BY <1>0, <1>1, <1>2, <1>3, Loses, OverInv

-----------------------------------------------------------------------------
(* What happens meanwhile *)

\* Receipts that others push only raise what is answered.
LEMMA OtherPushInv ==
    ASSUME Scheduled, CloudInv, C!OtherPush
    PROVE  CloudInv'
  <1>0. /\ job \in Job /\ now \in 0 .. MaxTime /\ origin \in [C!Loop -> C!Never .. MaxTime]
        /\ UNCHANGED <<now, job, faults, fired, lost>>
        /\ others \in 0 .. MaxOthers /\ others < MaxOthers /\ others' = others + 1
        /\ behind' = TRUE /\ MaxTime \in Nat /\ MaxOthers \in Nat
        /\ \A l \in C!Loop : origin[l] <= now
    BY DEF CloudInv, JobTyped, C!TypeOK, InTime, C!OtherPush, Scheduled
  <1>1. origin' = origin \/ \E l \in C!Loop : origin' = [origin EXCEPT ![l] = now]
    BY DEF C!OtherPush
  <1>2. /\ origin' \in [C!Loop -> C!Never .. MaxTime]
        /\ \A l \in C!Loop : origin'[l] \in Int /\ origin[l] \in Int
                             /\ origin[l] <= origin'[l] /\ origin'[l] <= now
    BY <1>0, <1>1 DEF C!Never
  <1>3. others' \in 0 .. MaxOthers
    BY <1>0
  <1>4. JobTyped'
    BY <1>0, <1>2, <1>3 DEF CloudInv, JobTyped, C!TypeOK
  <1>5. InTime'
    <2>1. ASSUME job.at # "idle", NEW l \in C!Loop PROVE job.seen[l] <= origin'[l]
      <3>1. job.seen[l] \in Int /\ job.seen[l] <= origin[l]
        BY <2>1 DEF CloudInv, InTime, C!Never
      <3>2. QED
        BY <1>2, <3>1
    <2>2. QED
      BY <1>0, <1>2, <2>1 DEF CloudInv, InTime
  <1>6. ASSUME NEW l \in C!Loop, NEW o \in Occurrences[l]
        PROVE  o > Answered(l)' => o > Answered(l)
    <2>1. o \in Int
      BY DEF Scheduled
    <2>2. QED
      BY <1>0, <1>2, <2>1 DEF Answered
  <1>7. Balanced'
    BY <1>0, <1>6 DEF CloudInv, Balanced
  <1>8. Awaited'
    BY <1>0 DEF CloudInv, Awaited, C!Turn
  <1>9. QED
    BY <1>4, <1>5, <1>7, <1>8 DEF CloudInv

\* Time only raises what is answered.
LEMMA TimePassesInv ==
    ASSUME Scheduled, CloudInv, C!TimePasses
    PROVE  CloudInv'
  <1>0. /\ job \in Job /\ now \in 0 .. MaxTime /\ now < MaxTime /\ now' = now + 1
        /\ UNCHANGED <<origin, job, behind, others, faults, fired, lost>>
        /\ MaxTime \in Nat /\ job.due \in Partial /\ job.new \in Partial
        /\ origin \in [C!Loop -> C!Never .. MaxTime]
    BY DEF CloudInv, JobTyped, C!TypeOK, C!TimePasses, Scheduled, Job
  <1>1. now' \in 0 .. MaxTime
    BY <1>0
  <1>2. JobTyped'
    BY <1>0, <1>1 DEF CloudInv, JobTyped, C!TypeOK
  <1>3. /\ \A l \in C!Loop : origin[l] \in Int
        /\ \A l \in DOMAIN job.new : job.new[l] \in Int
        /\ \A l \in DOMAIN job.due : job.due[l] \in Int
    BY <1>0, PartialFunction DEF C!Never
  <1>4. InTime'
    BY <1>0, <1>3 DEF CloudInv, InTime
  <1>5. ASSUME NEW l \in C!Loop, NEW o \in Occurrences[l]
        PROVE  o > Answered(l)' => o > Answered(l)
    <2>1. o \in Int
      BY DEF Scheduled
    <2>2. QED
      BY <1>0, <2>1 DEF Answered
  <1>6. Balanced'
    BY <1>0, <1>5 DEF CloudInv, Balanced
  <1>7. Awaited'
    BY <1>0, <1>3 DEF CloudInv, Awaited, C!Turn
  <1>8. QED
    BY <1>2, <1>4, <1>6, <1>7 DEF CloudInv

-----------------------------------------------------------------------------
(* The cloud routine by itself *)

\* It holds at first.
LEMMA CloudInit ==
    ASSUME Scheduled, C!Init
    PROVE  CloudInv
  <1>0. /\ now = 0 /\ job = C!Idle /\ behind = FALSE /\ others = 0 /\ faults = 0
        /\ origin = [l \in C!Loop |-> C!Never]
        /\ fired = [l \in C!Loop |-> [o \in Occurrences[l] |-> 0]]
        /\ lost = [l \in C!Loop |-> 0]
        /\ MaxTime \in Nat /\ MaxOthers \in Nat /\ MaxFaults \in Nat
    BY DEF C!Init, Scheduled
  <1>1. \A l \in C!Loop : [o \in Occurrences[l] |-> 0] \in Fires
    <2>1. ASSUME NEW l \in C!Loop PROVE [o \in Occurrences[l] |-> 0] \in Fires
      <3>1. Occurrences[l] \in SUBSET (0 .. MaxTime)
        BY DEF Scheduled
      <3>2. [o \in Occurrences[l] |-> 0] \in [Occurrences[l] -> Nat]
        OBVIOUS
      <3>3. QED
        BY <3>1, <3>2 DEF Fires
    <2>2. QED
      BY <2>1
  <1>2. /\ fired \in [C!Loop -> Fires] /\ lost \in [C!Loop -> Nat]
        /\ origin \in [C!Loop -> C!Never .. MaxTime]
    BY <1>0, <1>1 DEF C!Never
  <1>3. \A l \in C!Loop : /\ fired[l] \in [Occurrences[l] -> Nat] /\ lost[l] = 0
                          /\ \A o \in Occurrences[l] : fired[l][o] = 0
    BY <1>0
  <1>4. JobTyped
    <2>1. /\ job \in Job /\ job.at = "idle" /\ job.ran = {}
          /\ DOMAIN job.due = {} /\ DOMAIN job.new = {}
      BY <1>0, IdleJob
    <2>2. now \in 0 .. MaxTime /\ others \in 0 .. MaxOthers /\ faults \in 0 .. MaxFaults
      BY <1>0
    <2>3. behind \in BOOLEAN
      BY <1>0, Zenon
    <2>4. \A l \in C!Loop : fired[l] \in [Occurrences[l] -> Nat] /\ lost[l] \in Nat
      BY <1>2, <1>3
    <2>5. C!TypeOK
      BY <1>2, <2>1, <2>2, <2>3, <2>4 DEF C!TypeOK
    <2>6. QED
      BY <1>2, <2>1, <2>5 DEF JobTyped
  <1>5. InTime /\ Awaited
    BY <1>0, IdleJob DEF InTime, Awaited, C!Never
  <1>6. Balanced
    BY <1>3 DEF Balanced
  <1>7. QED
    BY <1>4, <1>5, <1>6 DEF CloudInv

\* Every step keeps it.
LEMMA CloudStep ==
    ASSUME Scheduled, CloudInv, [C!Next]_cloud
    PROVE  CloudInv'
  <1>1. CASE C!JobStep
    <2>1. ASSUME NEW l \in C!Loop, C!RunStarts(l) \/ C!RunEnds(l) \/ C!RunRaises(l) PROVE CloudInv'
      BY <2>1, RunStartsInv, RunEndsInv, RunRaisesInv
    <2>2. ASSUME NEW only \in SUBSET C!Loop, C!DueCloud(only) PROVE CloudInv'
      BY <2>2, DueCloudInv
    <2>3. QED
      BY <1>1, <2>1, <2>2, CheckoutInv, PushInv, PushRejectedInv DEF C!JobStep
  <1>2. CASE UNCHANGED cloud
    <2>1. UNCHANGED <<now, origin, job, behind, others, faults, fired, lost>>
      BY <1>2 DEF cloud
    <2>2. JobTyped' /\ InTime'
      BY <2>1 DEF CloudInv, JobTyped, C!TypeOK, InTime
    <2>3. Balanced'
      BY <2>1 DEF CloudInv, Balanced, Answered
    <2>4. Awaited'
      BY <2>1 DEF CloudInv, Awaited, C!Turn
    <2>5. QED
      BY <2>2, <2>3, <2>4 DEF CloudInv
  <1>3. QED
    BY <1>1, <1>2, OtherPushInv, TimePassesInv DEF C!Next

\* The invariant says what the runs check.
LEMMA CloudSays == CloudInv => C!TypeOK /\ C!FiredAgainOnlyAfterLoss
  BY DEF CloudInv, JobTyped, Balanced, C!FiredAgainOnlyAfterLoss

\* The three facts of the inductive invariant, in the form a composition cites.
LEMMA CloudInductive ==
    ASSUME Scheduled
    PROVE  /\ C!Init => CloudInv
           /\ CloudInv /\ [C!Next]_cloud => CloudInv'
           /\ CloudInv => C!TypeOK /\ C!FiredAgainOnlyAfterLoss
  BY CloudInit, CloudStep, CloudSays

-----------------------------------------------------------------------------
(* The instances of Notify and of its proofs are the same state machine *)

\* Of the notifications and their proofs.
LEMMA SameNotify ==
    /\ N!Init <=> NP!Init
    /\ [N!Next]_notify <=> [NP!Next]_NP!vars
    /\ NP!TypeOK /\ NP!WatermarkHonest /\ NP!ResentOnlyAfterSpoil => NotifiedOnce
  <1>1. N!Init <=> NP!Init
    BY DEF N!Init, NP!Init, N!Idle, NP!Idle, N!Event, NP!Event, N!Approval, NP!Approval
  <1>2. N!board = NP!board /\ (N!BoardStep <=> NP!BoardStep)
    BY DEF N!BoardStep, NP!BoardStep, N!RunEnds, NP!RunEnds, N!GrowsOverdue, NP!GrowsOverdue,
           N!ApprovalChanges, NP!ApprovalChanges, N!NextDay, NP!NextDay,
           N!board, NP!board, N!Approval, NP!Approval
  <1>3. ASSUME NEW s \in Scanner PROVE N!Begin(s) <=> NP!Begin(s)
    BY <1>2 DEF N!Begin, NP!Begin, N!Overlaps, NP!Overlaps, N!board_vars, NP!board_vars
  <1>4. ASSUME NEW s \in Scanner, NEW e PROVE N!Deliver(s, e) <=> NP!Deliver(s, e)
    BY DEF N!Deliver, NP!Deliver, N!Stamp, NP!Stamp, N!board_vars, NP!board_vars
  <1>5. ASSUME NEW s \in Scanner, NEW e PROVE N!Fail(s, e) <=> NP!Fail(s, e)
    BY DEF N!Fail, NP!Fail, N!board_vars, NP!board_vars
  <1>6. ASSUME NEW s \in Scanner PROVE N!Finish(s) <=> NP!Finish(s)
    BY <1>2 DEF N!Finish, NP!Finish, N!Prune, NP!Prune, N!Restrict, NP!Restrict,
           N!Cardinality, NP!Cardinality, N!Idle, NP!Idle, N!board_vars, NP!board_vars
  <1>7. ASSUME NEW s \in Scanner PROVE N!Die(s) <=> NP!Die(s)
    BY DEF N!Die, NP!Die, N!Idle, NP!Idle, N!board_vars, NP!board_vars
  <1>8. N!Event = NP!Event
    BY DEF N!Event, NP!Event, N!Approval, NP!Approval
  <1>9. N!Next <=> NP!Next
    BY <1>2, <1>3, <1>4, <1>5, <1>6, <1>7, <1>8 DEF N!Next, NP!Next, N!ScanStep, NP!ScanStep
  <1>10. [N!Next]_notify <=> [NP!Next]_NP!vars
    BY <1>9 DEF notify, NP!vars
  <1>11. NP!TypeOK /\ NP!WatermarkHonest /\ NP!ResentOnlyAfterSpoil => NotifiedOnce
    BY DEF NotifiedOnce, N!TypeOK, NP!TypeOK, N!WatermarkHonest, NP!WatermarkHonest,
           N!ResentOnlyAfterSpoil, NP!ResentOnlyAfterSpoil,
           N!Event, NP!Event, N!Approval, NP!Approval
  <1>12. QED
    BY <1>1, <1>10, <1>11

-----------------------------------------------------------------------------
(* The theorems *)

\* One part moves and the others stand still.
LEMMA OnePart ==
    ASSUME [Next]_vars
    PROVE  [R!Next]_runs /\ [C!Next]_cloud /\ [N!Next]_notify
  BY DEF Next, vars, runs, cloud, notify, Runs, Cloud, Notify

\* The constants of this module are as those of the proofs ask.
LEMMA Fit == RunsNumbered /\ MaxDrops \in Nat /\ Scheduled /\ NP!Countable
  BY Instance DEF RunsNumbered, R!Nobody, Scheduled, C!Loop, NP!Countable, NP!Approval,
                  NP!IsFiniteSet, IsFiniteSet

\* A run is never shown as a crash when its receipt was there to be ingested, and a day never
\* has two crash rows, whatever collections overlap, fail or find the index dropped
\* (runstate.reconcile_runs after ingest.ingest_receipts).
THEOREM CrashesShownAreTrue == Spec => []CrashesTrue
  <1>1. Init => RunsInv
    BY Fit, RunsInductive DEF Init
  <1>2. RunsInv /\ [Next]_vars => RunsInv'
    BY Fit, RunsInductive, OnePart
  <1>3. RunsInv => CrashesTrue
    BY Fit, RunsInductive DEF CrashesTrue
  <1>4. QED
    BY <1>1, <1>2, <1>3, PTL DEF Spec

\* An occurrence of a cloud loop is fired once, and once more at most for each run whose
\* receipt did not reach the repository, whatever jobs are killed, pushes rejected and
\* receipts pushed by others meanwhile (cloud.due_cloud, cloud.tick).
THEOREM CloudFiresOnce == Spec => []CloudRunsOnce
  <1>1. Init => CloudInv
    BY Fit, CloudInductive DEF Init
  <1>2. CloudInv /\ [Next]_vars => CloudInv'
    BY Fit, CloudInductive, OnePart
  <1>3. CloudInv => CloudRunsOnce
    BY Fit, CloudInductive DEF CloudRunsOnce
  <1>4. QED
    BY <1>1, <1>2, <1>3, PTL DEF Spec

\* The watermark names only events the operator received, and an event is received again at
\* most once for every scan that overlapped another or died and every entry pruned while on
\* the board (notify.scan_and_notify).
THEOREM OperatorNotifiedOnce == Spec => []NotifiedOnce
  <1>1. /\ NP!Init => NP!Inv
        /\ NP!Inv /\ [NP!Next]_NP!vars => (NP!Inv)'
        /\ NP!Inv => NP!TypeOK /\ NP!WatermarkHonest /\ NP!ResentOnlyAfterSpoil
    BY Fit, NP!Inductive
  <1>2. Init => NP!Inv
    BY <1>1, SameNotify DEF Init
  <1>3. NP!Inv /\ [Next]_vars => (NP!Inv)'
    BY <1>1, SameNotify, OnePart
  <1>4. NP!Inv => NotifiedOnce
    BY <1>1, SameNotify
  <1>5. QED
    BY <1>2, <1>3, <1>4, PTL DEF Spec
==============================================================================
