-------------------------- MODULE EscalationsProofs --------------------------
(* Theorems about Escalations: types, and one open issue per pair. *)
EXTENDS Escalations, TLAPS

-----------------------------------------------------------------------------
(* The inductive invariant *)

\* Which process can be where, and what it has in hand there.
Station(a, j) ==
    /\ j.pc \in {"clear", "raise", "find", "create"} => a \in Collector
    /\ j.pc \in {"close", "shut"} => a \in Operator
    /\ j.pc \in {"find", "create"} => j.cur \in Pair /\ j.first[j.cur] \in Time
    /\ j.pc \in {"clear", "raise", "find", "create"} =>
          \A p \in j.left : j.first[p] \in Time
    /\ j.pc = "close" => j.cur \in Pair /\ j.seen \in Time

Stations == \A a \in Process : Station(a, job[a])

\* Whoever is inside a reconcile holds the write lock, so there is one at most.
WriterWorks == \A c \in Collector : job[c].pc # "idle" => writer = c

\* A reconcile about to open an issue knows that there is none, unless a search failed.
Fresh(j) == j.pc = "create" /\ j.cur \notin blind => IssuesOf(j.cur) = {}

CreateFresh == \A c \in Collector : Fresh(job[c])

Inv == TypeOK /\ Stations /\ WriterWorks /\ CreateFresh /\ OneIssuePerPair

-----------------------------------------------------------------------------
(* Types *)

\* Replacing one process' record keeps the family of records well typed.
LEMMA BecomeType ==
    ASSUME job \in [Process -> Job], NEW a \in Process, NEW j \in Job, Become(a, j)
    PROVE  /\ job' \in [Process -> Job]
           /\ job'[a] = j
           /\ \A b \in Process \ {a} : job'[b] = job[b]
  BY DEF Become

\* An idle process' record is well typed.
LEMMA IdleType == IdleJob \in Job /\ IdleJob.pc = "idle"
  <1>1. NoRow \in Row
    BY DEF NoRow, Row
  <1>2. Empty \in Table
    BY <1>1 DEF Empty, Table
  <1>3. QED
    BY <1>2 DEF IdleJob, Job

\* Changing one row of a table gives a table.
LEMMA RowType ==
    ASSUME NEW rows \in Table, NEW p \in Pair, NEW t \in Time, NEW r \in Row
    PROVE  [rows EXCEPT ![p][t] = r] \in Table
  BY DEF Table

\* Resolving one row of a table gives a table.
LEMMA ResolveType ==
    ASSUME NEW rows \in Table, NEW p \in Pair, NEW t \in Time,
           NEW s \in {"absent", "no", "green", "close"}
    PROVE  [rows EXCEPT ![p][t].resolved = s] \in Table
  <1>1. rows[p][t] \in Row
    BY DEF Table
  <1>2. [rows[p][t] EXCEPT !.resolved = s] \in Row
    BY <1>1 DEF Row
  <1>3. QED
    BY <1>2, RowType DEF Table

\* Naming an issue in one row of a table gives a table.
LEMMA NameType ==
    ASSUME NEW rows \in Table, NEW p \in Pair, NEW t \in Time,
           NEW n \in Issue \cup {NoIssue}
    PROVE  [rows EXCEPT ![p][t].issue = n] \in Table
  <1>1. rows[p][t] \in Row
    BY DEF Table
  <1>2. [rows[p][t] EXCEPT !.issue = n] \in Row
    BY <1>1 DEF Row
  <1>3. QED
    BY <1>2, RowType DEF Table

\* Naming an issue in the row of the red pair in hand gives a table.
LEMMA WithIssueType ==
    ASSUME NEW j \in Job, j.cur \in Pair, j.first[j.cur] \in Time,
           NEW n \in Issue \cup {NoIssue}
    PROVE  WithIssue(j, n) \in Table
  <1>1. j.rows \in Table
    BY DEF Job
  <1>2. QED
    BY <1>1, NameType DEF WithIssue

\* Writing the row of a red pair gives a table.
LEMMA UpsertType ==
    ASSUME NEW c, job[c] \in Job, NEW p \in Pair, job[c].first[p] \in Time,
           NEW n \in Issue \cup {NoIssue}
    PROVE  UpsertRow(c, p, n) \in Table
  <1>1. job[c].rows \in Table /\ job[c].last[p] \in Time \cup {NoTime}
    BY DEF Job
  <1>2. [run |-> job[c].last[p], issue |-> n, resolved |-> "no"] \in Row
    BY <1>1 DEF Row
  <1>3. QED
    BY <1>1, <1>2, RowType DEF UpsertRow

-----------------------------------------------------------------------------
(* The shape of a step *)

\* A step of one process that opens no issue keeps the invariant, if the process' new
\* record fits where it is, it takes or frees the write lock rightly, and before an
\* issue is made it has looked for one.
LEMMA Move ==
    ASSUME Inv, NEW a \in Process, NEW j \in Job, Become(a, j), Station(a, j),
           UNCHANGED <<clock, receipt, titled>>,
           table' \in Table, open' \subseteq open,
           blind \subseteq blind', blind' \subseteq Pair,
           writer' \in {writer, a, Nobody}, writer' = writer \/ writer \in {a, Nobody},
           a \in Collector /\ j.pc # "idle" => writer' = a,
           a \in Collector /\ j.pc = "create" /\ j.cur \notin blind'
              => IssuesOf(j.cur) = {}
    PROVE  Inv'
  <1>1. /\ job' \in [Process -> Job] /\ job'[a] = j
        /\ \A b \in Process \ {a} : job'[b] = job[b]
    BY BecomeType DEF Inv, TypeOK
  <1>2. TypeOK'
    BY <1>1 DEF Inv, TypeOK
  <1>3. Stations'
    BY <1>1 DEF Inv, Stations, Station
  <1>4. WriterWorks'
    <2> SUFFICES ASSUME NEW c \in Collector, job'[c].pc # "idle" PROVE writer' = c
      BY DEF WriterWorks
    <2>1. CASE c = a
      BY <2>1, <1>1
    <2>2. CASE c # a
      <3>1. c \in Process /\ c # Nobody
        BY EscalationConstants DEF Process
      <3>2. writer = c
        BY <2>2, <3>1, <1>1 DEF Inv, WriterWorks
      <3>3. QED
        BY <2>2, <3>1, <3>2
    <2>3. QED
      BY <2>1, <2>2
  <1>5. CreateFresh'
    <2> SUFFICES ASSUME NEW c \in Collector, job'[c].pc = "create",
                        job'[c].cur \notin blind'
                 PROVE  \A n \in open' : titled'[n] # job'[c].cur
      BY DEF CreateFresh, Fresh, IssuesOf
    <2>1. \A n \in open : titled[n] # job'[c].cur
      <3>1. CASE c = a
        BY <3>1, <1>1 DEF IssuesOf
      <3>2. CASE c # a
        BY <3>2, <1>1 DEF Inv, CreateFresh, Fresh, IssuesOf, Process
      <3>3. QED
        BY <3>1, <3>2
    <2>2. QED
      BY <2>1
  <1>6. OneIssuePerPair'
    BY DEF Inv, OneIssuePerPair
  <1>7. QED
    BY <1>2, <1>3, <1>4, <1>5, <1>6 DEF Inv

\* A step of no process keeps the invariant if it leaves the issues and the lock alone.
LEMMA Outside ==
    ASSUME Inv, TypeOK', UNCHANGED <<writer, open, titled, job, blind>>
    PROVE  Inv'
  BY DEF Inv, Stations, Station, WriterWorks, CreateFresh, Fresh, IssuesOf, OneIssuePerPair

-----------------------------------------------------------------------------
(* reconcile *)

\* A collector that starts reads the index and finds where each red streak starts.
LEMMA StartReconcileInv == ASSUME Inv, NEW c \in Process, StartReconcile(c) PROVE Inv'
  <1>1. PICK last, first \in [Pair -> Time \cup {NoTime}] :
           /\ \A p \in Pair : Red(p) => first[p] # NoTime
           /\ Become(c, [IdleJob EXCEPT !.pc = "clear", !.rows = table, !.last = last,
                                        !.first = first, !.left = {p \in Pair : Red(p)}])
    BY DEF StartReconcile
  <1> DEFINE j == [IdleJob EXCEPT !.pc = "clear", !.rows = table, !.last = last,
                                  !.first = first, !.left = {p \in Pair : Red(p)}]
  <1>2. table \in Table /\ c \in Collector /\ writer = Nobody
    BY DEF StartReconcile, Inv, TypeOK
  <1>3. j \in Job /\ j.pc = "clear" /\ j.first = first /\ j.left = {p \in Pair : Red(p)}
    BY IdleType, <1>2 DEF Job
  <1>4. Station(c, j)
    BY <1>1, <1>2, <1>3 DEF Station
  <1> HIDE DEF j
  <1>5. QED
    BY <1>1, <1>2, <1>3, <1>4, Move DEF StartReconcile, j, Inv, TypeOK

\* Resolving the row of a pair that is not red, and closing its issue.
LEMMA ClearRowInv == ASSUME Inv, NEW c \in Process, ClearRow(c) PROVE Inv'
  <1>1. PICK p \in Pair, t \in Time :
           Become(c, [job[c] EXCEPT !.rows[p][t].resolved = "green"])
    BY DEF ClearRow
  <1> DEFINE j == [job[c] EXCEPT !.rows[p][t].resolved = "green"]
  <1>2. job[c] \in Job /\ job[c].pc = "clear" /\ Station(c, job[c])
    BY DEF ClearRow, Inv, TypeOK, Stations
  <1>3. [job[c].rows EXCEPT ![p][t].resolved = "green"] \in Table
    BY <1>2, ResolveType DEF Job
  <1>4. /\ j \in Job /\ j.pc = "clear" /\ j.first = job[c].first /\ j.left = job[c].left
    BY <1>2, <1>3 DEF Job
  <1>5. Station(c, j) /\ c \in Collector
    BY <1>2, <1>4 DEF Station
  <1>6. open' \subseteq open
    BY DEF ClearRow, GhClose
  <1>7. writer = c
    BY <1>2, <1>5 DEF Inv, WriterWorks
  <1> HIDE DEF j
  <1>8. QED
    BY <1>1, <1>4, <1>5, <1>6, <1>7, Move DEF ClearRow, j, Inv, TypeOK

\* A collector that turns from clearing to raising.
LEMMA ClearEndInv == ASSUME Inv, NEW c \in Process, ClearEnd(c) PROVE Inv'
  <1> DEFINE j == [job[c] EXCEPT !.pc = "raise"]
  <1>1. job[c] \in Job /\ job[c].pc = "clear" /\ Station(c, job[c])
    BY DEF ClearEnd, Inv, TypeOK, Stations
  <1>2. j \in Job /\ j.pc = "raise" /\ j.first = job[c].first /\ j.left = job[c].left
    BY <1>1 DEF Job
  <1>3. Station(c, j) /\ c \in Collector
    BY <1>1, <1>2 DEF Station
  <1>4. writer = c
    BY <1>1, <1>3 DEF Inv, WriterWorks
  <1> HIDE DEF j
  <1>5. QED
    BY <1>2, <1>3, <1>4, Move DEF ClearEnd, j, Inv, TypeOK

\* Writing a red pair's row, and going on to look for its issue if it has none.
LEMMA RaiseRowInv ==
    ASSUME Inv, NEW c \in Process, NEW p \in Pair, RaiseRow(c, p) PROVE Inv'
  <1>1. PICK n \in Issue \cup {NoIssue} :
           Become(c, [job[c] EXCEPT
               !.rows = UpsertRow(c, p, n), !.left = @ \ {p}, !.cur = p,
               !.pc   = IF p \in Tracked /\ n = NoIssue THEN "find" ELSE "raise"])
    BY DEF RaiseRow
  <1> DEFINE j == [job[c] EXCEPT
               !.rows = UpsertRow(c, p, n), !.left = @ \ {p}, !.cur = p,
               !.pc   = IF p \in Tracked /\ n = NoIssue THEN "find" ELSE "raise"]
  <1>2. job[c] \in Job /\ job[c].pc = "raise" /\ Station(c, job[c]) /\ p \in job[c].left
    BY DEF RaiseRow, Inv, TypeOK, Stations
  <1>3. job[c].first[p] \in Time /\ c \in Collector
    BY <1>2 DEF Station
  <1>4. UpsertRow(c, p, n) \in Table
    BY <1>2, <1>3, UpsertType
  <1>5. /\ j \in Job /\ j.pc \in {"find", "raise"} /\ j.first = job[c].first
        /\ j.left = job[c].left \ {p} /\ j.cur = p
    BY <1>2, <1>4 DEF Job
  <1>6. Station(c, j)
    BY <1>2, <1>3, <1>5 DEF Station
  <1>7. writer = c
    BY <1>2, <1>3 DEF Inv, WriterWorks
  <1> HIDE DEF j
  <1>8. QED
    BY <1>1, <1>3, <1>5, <1>6, <1>7, Move DEF RaiseRow, j, Inv, TypeOK

\* What a collector that looks for an issue, or makes one, has in hand.
LEMMA InHand ==
    ASSUME Inv, NEW c \in Process, job[c].pc \in {"find", "create"}
    PROVE  /\ job[c] \in Job /\ c \in Collector /\ writer = c
           /\ job[c].cur \in Pair /\ job[c].first[job[c].cur] \in Time
           /\ \A p \in job[c].left : job[c].first[p] \in Time
  BY DEF Inv, TypeOK, Stations, Station, WriterWorks

\* After looking for an issue or making one, a collector goes on with the next pair,
\* with the issue's number in the row or without.
LEMMA GoOn ==
    ASSUME Inv, NEW c \in Process, job[c].pc \in {"find", "create"}
    PROVE  /\ \A n \in Issue :
                 LET j == [job[c] EXCEPT !.pc = "raise", !.rows = WithIssue(job[c], n)]
                 IN  j \in Job /\ j.pc = "raise" /\ Station(c, j)
           /\ LET j == [job[c] EXCEPT !.pc = "raise"]
              IN  j \in Job /\ j.pc = "raise" /\ Station(c, j)
  <1>1. /\ job[c] \in Job /\ c \in Collector
        /\ job[c].cur \in Pair /\ job[c].first[job[c].cur] \in Time
        /\ \A p \in job[c].left : job[c].first[p] \in Time
    BY InHand
  <1>2. ASSUME NEW n \in Issue
        PROVE  LET j == [job[c] EXCEPT !.pc = "raise", !.rows = WithIssue(job[c], n)]
               IN  j \in Job /\ j.pc = "raise" /\ Station(c, j)
    <2>1. WithIssue(job[c], n) \in Table
      BY <1>1, WithIssueType
    <2>2. QED
      BY <1>1, <2>1 DEF Job, Station
  <1>3. LET j == [job[c] EXCEPT !.pc = "raise"]
        IN  j \in Job /\ j.pc = "raise" /\ Station(c, j)
    BY <1>1 DEF Job, Station
  <1>4. QED
    BY <1>2, <1>3

\* Looking for the pair's issue: found, missing, or the call failed.
LEMMA FindIssueInv == ASSUME Inv, NEW c \in Process, FindIssue(c) PROVE Inv'
  <1>1. job[c].pc = "find"
    BY DEF FindIssue
  <1>2. /\ job[c] \in Job /\ c \in Collector /\ writer = c
        /\ job[c].cur \in Pair /\ job[c].first[job[c].cur] \in Time
        /\ \A p \in job[c].left : job[c].first[p] \in Time
    BY <1>1, InHand
  <1> DEFINE found(n) == [job[c] EXCEPT !.pc = "raise", !.rows = WithIssue(job[c], n)]
             none     == [job[c] EXCEPT !.pc = "create"]
  <1>3. none \in Job /\ none.pc = "create" /\ none.cur = job[c].cur /\ Station(c, none)
    BY <1>2 DEF Job, Station
  <1>4. UNCHANGED <<clock, receipt, table, writer, open, titled>> /\ table \in Table
        /\ blind \subseteq Pair
    BY DEF FindIssue, Inv, TypeOK
  <1>5. ASSUME NEW n \in IssuesOf(job[c].cur), Become(c, found(n)), UNCHANGED blind
        PROVE  Inv'
    <2>1. n \in Issue
      BY DEF IssuesOf, Inv, TypeOK
    <2>2. found(n) \in Job /\ found(n).pc = "raise" /\ Station(c, found(n))
      BY <1>1, <2>1, GoOn
    <2> HIDE DEF found
    <2>3. QED
      BY <1>2, <1>4, <1>5, <2>2, Move
  <1> HIDE DEF none
  <1>6. ASSUME IssuesOf(job[c].cur) = {}, Become(c, none), UNCHANGED blind
        PROVE  Inv'
    BY <1>2, <1>3, <1>4, <1>6, Move
  <1>7. ASSUME Become(c, none), blind' = blind \cup {job[c].cur}
        PROVE  Inv'
    BY <1>2, <1>3, <1>4, <1>7, Move
  <1>8. QED
    BY <1>5, <1>6, <1>7 DEF FindIssue, none

\* Making an issue: the only step that opens one.
LEMMA CreateIssueInv == ASSUME Inv, NEW c \in Process, CreateIssue(c) PROVE Inv'
  <1>1. job[c].pc = "create"
    BY DEF CreateIssue
  <1>2. /\ job[c] \in Job /\ c \in Collector /\ writer = c /\ job[c].cur \in Pair
    BY <1>1, InHand
  <1> DEFINE made(n) == [job[c] EXCEPT !.pc = "raise", !.rows = WithIssue(job[c], n)]
             bare    == [job[c] EXCEPT !.pc = "raise"]
  <1>3. bare \in Job /\ bare.pc = "raise" /\ Station(c, bare)
    BY <1>1, GoOn
  <1>4. UNCHANGED <<clock, receipt, table, writer, blind>>
    BY DEF CreateIssue
  <1>5. table \in Table /\ blind \subseteq Pair
    BY DEF Inv, TypeOK
  <1>6. ASSUME NEW n \in Issue, titled[n] = NoPair,
               titled' = [titled EXCEPT ![n] = job[c].cur], open' = open \cup {n},
               NEW j \in Job, Become(c, j), j.pc = "raise", Station(c, j)
        PROVE  Inv'
    <2>1. /\ job' \in [Process -> Job] /\ job'[c] = j
          /\ \A b \in Process \ {c} : job'[b] = job[b]
      BY <1>6, BecomeType DEF Inv, TypeOK
    <2>2. /\ titled' \in [Issue -> Pair \cup {NoPair}] /\ titled'[n] = job[c].cur
          /\ \A m \in Issue \ {n} : titled'[m] = titled[m]
      BY <1>2, <1>6 DEF Inv, TypeOK
    <2>3. TypeOK'
      BY <1>4, <1>6, <2>1, <2>2 DEF Inv, TypeOK
    <2>4. Stations'
      BY <1>6, <2>1 DEF Inv, Stations, Station
    <2>5. WriterWorks'
      BY <1>2, <1>4, <2>1 DEF Inv, WriterWorks, Process
    <2>6. \A b \in Collector : job'[b].pc # "create"
      <3> SUFFICES ASSUME NEW b \in Collector, b # c PROVE job'[b].pc # "create"
        BY <1>6, <2>1
      <3>1. job'[b] = job[b]
        BY <2>1 DEF Process
      <3>2. job[b].pc = "idle"
        BY <1>2 DEF Inv, WriterWorks
      <3>3. QED
        BY <3>1, <3>2
    <2>7. CreateFresh'
      BY <2>6 DEF CreateFresh, Fresh
    <2>8. OneIssuePerPair'
      <3> SUFFICES ASSUME NEW k \in open', NEW m \in open', titled'[k] = titled'[m],
                          titled'[k] \notin blind
                   PROVE  k = m
        BY <1>4 DEF OneIssuePerPair
      <3>1. open \subseteq Issue
        BY DEF Inv, TypeOK
      <3>2. CASE k # n /\ m # n
        BY <1>6, <2>2, <3>1, <3>2 DEF Inv, OneIssuePerPair
      <3>3. CASE k = n \/ m = n
        <4>1. titled'[k] = job[c].cur /\ job[c].cur \notin blind
          BY <2>2, <3>3
        <4>2. \A i \in open : titled[i] # job[c].cur
          BY <1>1, <1>2, <4>1 DEF Inv, CreateFresh, Fresh, IssuesOf
        <4>3. QED
          BY <1>6, <2>2, <3>1, <3>3, <4>1, <4>2
      <3>4. QED
        BY <3>2, <3>3
    <2>9. QED
      BY <2>3, <2>4, <2>5, <2>7, <2>8 DEF Inv
  <1>7. ASSUME NEW n \in Issue
        PROVE  made(n) \in Job /\ made(n).pc = "raise" /\ Station(c, made(n))
    BY <1>1, GoOn
  <1>8. ASSUME Become(c, bare), UNCHANGED <<open, titled>> PROVE Inv'
    <2> HIDE DEF bare
    <2>1. QED
      BY <1>2, <1>3, <1>4, <1>5, <1>8, Move
  <1>9. ASSUME NEW n \in Issue, titled[n] = NoPair,
               titled' = [titled EXCEPT ![n] = job[c].cur], open' = open \cup {n},
               Become(c, made(n)) \/ Become(c, bare)
        PROVE  Inv'
    <2> HIDE DEF bare, made
    <2>1. QED
      BY <1>3, <1>6, <1>7, <1>9
  <1>10. QED
    BY <1>8, <1>9 DEF CreateIssue

\* The commit publishes the rows and frees the lock.
LEMMA CommitInv == ASSUME Inv, NEW c \in Process, Commit(c) PROVE Inv'
  <1>1. job[c] \in Job /\ job[c].rows \in Table /\ c \in Collector
    BY DEF Commit, Inv, TypeOK, Stations, Station, Job
  <1>2. writer = c
    BY <1>1 DEF Commit, Inv, WriterWorks
  <1>3. Station(c, IdleJob)
    BY IdleType DEF Station
  <1>4. QED
    BY <1>1, <1>2, <1>3, IdleType, Move DEF Commit, Inv, TypeOK

-----------------------------------------------------------------------------
(* close, the environment *)

\* The operator reads an open row.
LEMMA StartCloseInv ==
    ASSUME Inv, NEW o \in Process, NEW p \in Pair, NEW t \in Time, StartClose(o, p, t)
    PROVE  Inv'
  <1> DEFINE j == [IdleJob EXCEPT !.pc = "close", !.cur = p, !.seen = t,
                                  !.issue = table[p][t].issue]
  <1>1. table \in Table /\ o \in Operator
    BY DEF StartClose, Inv, TypeOK
  <1>2. table[p][t].issue \in Issue \cup {NoIssue}
    BY <1>1 DEF Table, Row
  <1>3. j \in Job /\ j.pc = "close" /\ j.cur = p /\ j.seen = t
    BY <1>2, IdleType DEF Job
  <1>4. Station(o, j) /\ o \notin Collector
    BY <1>1, <1>3, EscalationConstants DEF Station
  <1> HIDE DEF j
  <1>5. QED
    BY <1>1, <1>3, <1>4, Move DEF StartClose, j, Inv, TypeOK

\* The operator's UPDATE.
LEMMA WriteCloseInv == ASSUME Inv, NEW o \in Process, WriteClose(o) PROVE Inv'
  <1>1. /\ job[o] \in Job /\ job[o].pc = "close" /\ o \in Operator
        /\ job[o].cur \in Pair /\ job[o].seen \in Time /\ table \in Table
    BY DEF WriteClose, Inv, TypeOK, Stations, Station
  <1>2. table[job[o].cur][job[o].seen].resolved \in {"absent", "no", "green", "close"}
    BY <1>1 DEF Table, Row
  <1>3. table' \in Table
    BY <1>1, <1>2, ResolveType DEF WriteClose
  <1> DEFINE j == IF job[o].issue = NoIssue THEN IdleJob ELSE [job[o] EXCEPT !.pc = "shut"]
  <1>4. j \in Job /\ j.pc \in {"idle", "shut"}
    BY <1>1, IdleType DEF Job
  <1>5. Station(o, j) /\ o \notin Collector
    BY <1>1, <1>4, EscalationConstants DEF Station
  <1> HIDE DEF j
  <1>6. QED
    BY <1>3, <1>4, <1>5, Move DEF WriteClose, j, Inv, TypeOK

\* The operator shuts the issue of the row it has closed.
LEMMA ShutIssueInv == ASSUME Inv, NEW o \in Process, ShutIssue(o) PROVE Inv'
  <1>1. Station(o, IdleJob)
    BY IdleType DEF Station
  <1>2. open' \subseteq open
    BY DEF ShutIssue, GhClose
  <1>3. QED
    BY <1>1, <1>2, IdleType, Move DEF ShutIssue, Inv, TypeOK

\* A process dies anywhere, and its transaction with it.
LEMMA CrashInv == ASSUME Inv, NEW a \in Process, Crash(a) PROVE Inv'
  <1>1. Station(a, IdleJob)
    BY IdleType DEF Station
  <1>2. QED
    BY <1>1, IdleType, Move DEF Crash, Inv, TypeOK

\* A receipt comes in, time passes, the index is deleted.
LEMMA EnvironmentInv ==
    ASSUME Inv,
           TimePasses \/ DropIndex \/ \E p \in Pair, v \in Verdict : Arrives(p, v)
    PROVE  Inv'
  <1>1. CASE TimePasses
    <2>1. clock' \in Time
      BY <1>1, EscalationConstants DEF TimePasses, Inv, TypeOK, Time
    <2>2. TypeOK'
      BY <1>1, <2>1 DEF TimePasses, Inv, TypeOK
    <2>3. QED
      BY <1>1, <2>2, Outside DEF TimePasses
  <1>2. CASE DropIndex
    <2>1. Empty \in Table
      BY DEF Empty, Table, NoRow, Row
    <2>2. TypeOK'
      BY <1>2, <2>1 DEF DropIndex, Inv, TypeOK
    <2>3. QED
      BY <1>2, <2>2, Outside DEF DropIndex
  <1>3. ASSUME NEW p \in Pair, NEW v \in Verdict, Arrives(p, v) PROVE Inv'
    <2>1. receipt' \in [Pair -> [Time -> Verdict \cup {"none"}]]
      BY <1>3 DEF Arrives, Inv, TypeOK
    <2>2. TypeOK'
      BY <1>3, <2>1 DEF Arrives, Inv, TypeOK
    <2>3. QED
      BY <1>3, <2>2, Outside DEF Arrives
  <1>4. QED
    BY <1>1, <1>2, <1>3

\* At the start the index is empty and there is no issue.
LEMMA InitInv == Init => Inv
  <1> SUFFICES ASSUME Init PROVE Inv
    OBVIOUS
  <1>1. Empty \in Table
    BY DEF Empty, Table, NoRow, Row
  <1>2. TypeOK
    BY <1>1, IdleType, EscalationConstants DEF Init, TypeOK, Time
  <1>3. Stations
    BY IdleType DEF Init, Stations, Station
  <1>4. QED
    BY <1>2, <1>3, IdleType
       DEF Init, Inv, WriterWorks, CreateFresh, Fresh, OneIssuePerPair, Process

-----------------------------------------------------------------------------
(* Theorems *)

\* Every step of the collectors, the operators and the environment keeps the invariant.
THEOREM Inductive == Inv /\ [Next]_vars => Inv'
  <1> SUFFICES ASSUME Inv, [Next]_vars PROVE Inv'
    OBVIOUS
  <1>1. ASSUME NEW a \in Process, Progress(a) PROVE Inv'
    BY <1>1, ClearRowInv, ClearEndInv, FindIssueInv, CreateIssueInv, CommitInv,
       WriteCloseInv, ShutIssueInv, RaiseRowInv DEF Progress
  <1>2. ASSUME NEW a \in Process,
               \/ StartReconcile(a) \/ Crash(a)
               \/ \E p \in Pair, t \in Time : StartClose(a, p, t)
        PROVE  Inv'
    BY <1>2, StartReconcileInv, CrashInv, StartCloseInv
  <1>3. CASE UNCHANGED vars
    <2>1. TypeOK'
      BY <1>3 DEF vars, Inv, TypeOK
    <2>2. QED
      BY <1>3, <2>1, Outside DEF vars
  <1>4. QED
    BY <1>1, <1>2, <1>3, EnvironmentInv DEF Next

\* The invariant of the escalations holds in every state.
THEOREM Invariant == Spec => []Inv
  BY InitInv, Inductive, PTL DEF Spec

\* Every variable keeps its type.
THEOREM TypeCorrect == Spec => []TypeOK
  <1>1. Inv => TypeOK
    BY DEF Inv
  <1>2. QED
    BY <1>1, Invariant, PTL

\* However many collectors and operators run, wherever they die and whichever gh calls
\* fail, a pair has one open issue, unless a search for it has failed (find_issue).
THEOREM OneIssue == Spec => []OneIssuePerPair
  <1>1. Inv => OneIssuePerPair
    BY DEF Inv
  <1>2. QED
    BY <1>1, Invariant, PTL

-----------------------------------------------------------------------------
(* What a reconcile writes *)

\* Between its start and its commit a reconcile has dealt with every pair that is not
\* in "left": it has an open row exactly if it was found red.
Dealt(j) ==
    /\ j.pc \in {"clear", "raise", "find", "create"} =>
          \A p \in j.left : j.last[p] # NoTime
    /\ j.pc = "clear" => \A p \in Pair \ j.left : j.last[p] = NoTime
    /\ j.pc \in {"raise", "find", "create"} =>
          \A p \in Pair \ j.left :
              (\E t \in Time : OpenRow(j.rows, p, t)) <=> j.last[p] # NoTime

AllDealt == \A a \in Process : Dealt(job[a])

\* It is enough to look at the process that moves.
LEMMA DealtStep ==
    ASSUME Inv, AllDealt, NEW a \in Process, NEW j \in Job, Become(a, j), Dealt(j)
    PROVE  AllDealt'
  <1>1. job'[a] = j /\ \A b \in Process \ {a} : job'[b] = job[b]
    BY BecomeType DEF Inv, TypeOK
  <1>2. QED
    BY <1>1 DEF AllDealt, Dealt, OpenRow

\* Naming the issue of a row opens and resolves none.
LEMMA NamingKeepsOpen ==
    ASSUME NEW j \in Job, j.cur \in Pair, j.first[j.cur] \in Time,
           NEW n \in Issue, NEW p \in Pair, NEW t \in Time
    PROVE  OpenRow(WithIssue(j, n), p, t) <=> OpenRow(j.rows, p, t)
  <1>1. j.rows \in Table /\ j.rows[j.cur][j.first[j.cur]] \in Row
    BY DEF Job, Table
  <1> DEFINE q == j.cur
             u == j.first[j.cur]
  <1>2. WithIssue(j, n)[p][t] =
           IF p = q /\ t = u THEN [j.rows[q][u] EXCEPT !.issue = n] ELSE j.rows[p][t]
    BY <1>1 DEF WithIssue, Table
  <1>3. [j.rows[q][u] EXCEPT !.issue = n].resolved = j.rows[q][u].resolved
    BY <1>1 DEF Row
  <1>4. QED
    BY <1>2, <1>3 DEF OpenRow

\* A reconcile starts with every red pair still to be dealt with.
LEMMA StartDeals ==
    ASSUME Inv, AllDealt, NEW c \in Process, StartReconcile(c) PROVE AllDealt'
  <1>1. PICK last, first \in [Pair -> Time \cup {NoTime}] :
           /\ \A p \in Pair : Red(p) <=> last[p] # NoTime
           /\ Become(c, [IdleJob EXCEPT !.pc = "clear", !.rows = table, !.last = last,
                                        !.first = first, !.left = {p \in Pair : Red(p)}])
    BY DEF StartReconcile
  <1> DEFINE j == [IdleJob EXCEPT !.pc = "clear", !.rows = table, !.last = last,
                                  !.first = first, !.left = {p \in Pair : Red(p)}]
  <1>2. /\ j \in Job /\ j.pc = "clear" /\ j.last = last
        /\ j.left = {p \in Pair : Red(p)}
    BY IdleType DEF Job, Inv, TypeOK
  <1>3. Dealt(j)
    BY <1>1, <1>2 DEF Dealt
  <1> HIDE DEF j
  <1>4. QED
    BY <1>1, <1>2, <1>3, DealtStep DEF j

\* Clearing rows leaves every red pair to be dealt with.
LEMMA ClearDeals ==
    ASSUME Inv, AllDealt, NEW c \in Process, ClearRow(c) \/ ClearEnd(c) PROVE AllDealt'
  <1>1. /\ job[c] \in Job /\ job[c].pc = "clear"
        /\ \A p \in job[c].left : job[c].last[p] # NoTime
        /\ \A p \in Pair \ job[c].left : job[c].last[p] = NoTime
    BY DEF ClearRow, ClearEnd, Inv, TypeOK, AllDealt, Dealt
  <1>2. CASE ClearRow(c)
    <2>1. PICK p \in Pair, t \in Time :
             Become(c, [job[c] EXCEPT !.rows[p][t].resolved = "green"])
      BY <1>2 DEF ClearRow
    <2> DEFINE j == [job[c] EXCEPT !.rows[p][t].resolved = "green"]
    <2>2. [job[c].rows EXCEPT ![p][t].resolved = "green"] \in Table
      BY <1>1, ResolveType DEF Job
    <2>3. /\ j \in Job /\ j.pc = "clear" /\ j.last = job[c].last
          /\ j.left = job[c].left
      BY <1>1, <2>2 DEF Job
    <2>4. Dealt(j)
      BY <1>1, <2>3 DEF Dealt
    <2> HIDE DEF j
    <2>5. QED
      BY <2>1, <2>3, <2>4, DealtStep DEF j
  <1>3. CASE ClearEnd(c)
    <2> DEFINE j == [job[c] EXCEPT !.pc = "raise"]
    <2>1. /\ j \in Job /\ j.pc = "raise" /\ j.last = job[c].last
          /\ j.left = job[c].left /\ j.rows = job[c].rows
      BY <1>1 DEF Job
    <2>2. Dealt(j)
      BY <1>1, <1>3, <2>1 DEF Dealt, ClearEnd
    <2> HIDE DEF j
    <2>3. QED
      BY <1>3, <2>1, <2>2, DealtStep DEF j, ClearEnd
  <1>4. QED
    BY <1>2, <1>3

\* A red pair leaves the list when its row is there.
LEMMA RaiseDeals ==
    ASSUME Inv, AllDealt, NEW c \in Process, NEW p \in Pair, RaiseRow(c, p)
    PROVE  AllDealt'
  <1>1. PICK n \in Issue \cup {NoIssue} :
           Become(c, [job[c] EXCEPT
               !.rows = UpsertRow(c, p, n), !.left = @ \ {p}, !.cur = p,
               !.pc   = IF p \in Tracked /\ n = NoIssue THEN "find" ELSE "raise"])
    BY DEF RaiseRow
  <1> DEFINE j == [job[c] EXCEPT
               !.rows = UpsertRow(c, p, n), !.left = @ \ {p}, !.cur = p,
               !.pc   = IF p \in Tracked /\ n = NoIssue THEN "find" ELSE "raise"]
  <1>2. /\ job[c] \in Job /\ p \in job[c].left /\ job[c].first[p] \in Time
        /\ \A q \in job[c].left : job[c].last[q] # NoTime
        /\ \A q \in Pair \ job[c].left :
              (\E t \in Time : OpenRow(job[c].rows, q, t)) <=> job[c].last[q] # NoTime
    BY DEF RaiseRow, Inv, TypeOK, Stations, Station, AllDealt, Dealt
  <1>3. UpsertRow(c, p, n) \in Table
    BY <1>2, UpsertType
  <1>4. /\ j \in Job /\ j.pc \in {"find", "raise"} /\ j.last = job[c].last
        /\ j.left = job[c].left \ {p} /\ j.rows = UpsertRow(c, p, n)
    BY <1>2, <1>3 DEF Job
  <1>5. job[c].rows \in Table
    BY <1>2 DEF Job
  <1>6. OpenRow(j.rows, p, job[c].first[p])
    BY <1>2, <1>4, <1>5 DEF OpenRow, UpsertRow, Table
  <1>7. \A q \in Pair \ {p}, t \in Time : OpenRow(j.rows, q, t) <=> OpenRow(job[c].rows, q, t)
    BY <1>2, <1>4, <1>5 DEF OpenRow, UpsertRow, Table
  <1> HIDE DEF j
  <1>8. Dealt(j)
    BY <1>2, <1>4, <1>6, <1>7 DEF Dealt
  <1>9. QED
    BY <1>1, <1>4, <1>8, DealtStep DEF j

\* Finding or opening the issue keeps the row.
LEMMA IssueDeals ==
    ASSUME Inv, AllDealt, NEW c \in Process, FindIssue(c) \/ CreateIssue(c)
    PROVE  AllDealt'
  <1>1. job[c].pc \in {"find", "create"}
    BY DEF FindIssue, CreateIssue
  <1>2. /\ job[c] \in Job /\ job[c].cur \in Pair /\ job[c].first[job[c].cur] \in Time
    BY <1>1, InHand
  <1>3. /\ \A q \in job[c].left : job[c].last[q] # NoTime
        /\ \A q \in Pair \ job[c].left :
              (\E t \in Time : OpenRow(job[c].rows, q, t)) <=> job[c].last[q] # NoTime
    BY <1>1 DEF AllDealt, Dealt
  <1>4. ASSUME NEW n \in Issue,
               Become(c, [job[c] EXCEPT !.pc = "raise", !.rows = WithIssue(job[c], n)])
        PROVE  AllDealt'
    <2> DEFINE j == [job[c] EXCEPT !.pc = "raise", !.rows = WithIssue(job[c], n)]
    <2>1. WithIssue(job[c], n) \in Table
      BY <1>2, WithIssueType
    <2>2. /\ j \in Job /\ j.pc = "raise" /\ j.last = job[c].last
          /\ j.left = job[c].left /\ j.rows = WithIssue(job[c], n)
      BY <1>2, <2>1 DEF Job
    <2>3. \A q \in Pair, t \in Time : OpenRow(j.rows, q, t) <=> OpenRow(job[c].rows, q, t)
      BY <1>2, <2>2, NamingKeepsOpen
    <2> HIDE DEF j
    <2>4. Dealt(j)
      BY <1>3, <2>2, <2>3 DEF Dealt
    <2>5. QED
      BY <1>4, <2>2, <2>4, DealtStep DEF j
  <1>5. ASSUME NEW s \in {"raise", "create"}, Become(c, [job[c] EXCEPT !.pc = s])
        PROVE  AllDealt'
    <2> DEFINE j == [job[c] EXCEPT !.pc = s]
    <2>1. /\ j \in Job /\ j.pc = s /\ j.last = job[c].last
          /\ j.left = job[c].left /\ j.rows = job[c].rows
      BY <1>2 DEF Job
    <2> HIDE DEF j
    <2>2. Dealt(j)
      BY <1>3, <2>1 DEF Dealt
    <2>3. QED
      BY <1>5, <2>1, <2>2, DealtStep DEF j
  <1>6. CASE FindIssue(c)
    <2>1. IssuesOf(job[c].cur) \subseteq Issue
      BY DEF IssuesOf, Inv, TypeOK
    <2>2. QED
      BY <1>4, <1>5, <1>6, <2>1 DEF FindIssue
  <1>7. CASE CreateIssue(c)
    BY <1>4, <1>5, <1>7 DEF CreateIssue
  <1>8. QED
    BY <1>6, <1>7

\* A process that goes idle, or that closes, has no reconcile to answer for.
LEMMA OthersDeal ==
    ASSUME Inv, AllDealt, NEW a \in Process,
           \/ Commit(a) \/ WriteClose(a) \/ ShutIssue(a) \/ Crash(a)
           \/ \E p \in Pair, t \in Time : StartClose(a, p, t)
    PROVE  AllDealt'
  <1>1. ASSUME Become(a, IdleJob) PROVE AllDealt'
    BY <1>1, IdleType, DealtStep DEF Dealt
  <1>2. CASE Commit(a) \/ ShutIssue(a) \/ Crash(a)
    BY <1>1, <1>2 DEF Commit, ShutIssue, Crash
  <1>3. CASE WriteClose(a)
    <2> DEFINE j == [job[a] EXCEPT !.pc = "shut"]
    <2>1. j \in Job /\ j.pc = "shut"
      BY DEF Inv, TypeOK, Job
    <2>2. Dealt(j)
      BY <2>1 DEF Dealt
    <2>3. QED
      BY <1>1, <1>3, <2>1, <2>2, DealtStep DEF WriteClose
  <1>4. ASSUME NEW p \in Pair, NEW t \in Time, StartClose(a, p, t) PROVE AllDealt'
    <2> DEFINE j == [IdleJob EXCEPT !.pc = "close", !.cur = p, !.seen = t,
                                    !.issue = table[p][t].issue]
    <2>1. table[p][t].issue \in Issue \cup {NoIssue}
      BY DEF Inv, TypeOK, Table, Row
    <2>2. j \in Job /\ j.pc = "close"
      BY <2>1, IdleType DEF Job
    <2>3. Dealt(j)
      BY <2>2 DEF Dealt
    <2> HIDE DEF j
    <2>4. QED
      BY <1>4, <2>2, <2>3, DealtStep DEF StartClose, j
  <1>5. QED
    BY <1>2, <1>3, <1>4

\* In every state, the rows a reconcile holds agree with what it has dealt with.
THEOREM DealtInvariant == Spec => []AllDealt
  <1>1. Init => AllDealt
    BY IdleType DEF Init, AllDealt, Dealt
  <1>2. Inv /\ AllDealt /\ [Next]_vars => AllDealt'
    <2> SUFFICES ASSUME Inv, AllDealt, [Next]_vars PROVE AllDealt'
      OBVIOUS
    <2>1. ASSUME NEW a \in Process, Progress(a) PROVE AllDealt'
      BY <2>1, ClearDeals, IssueDeals, OthersDeal, RaiseDeals DEF Progress
    <2>2. ASSUME NEW a \in Process,
                 \/ StartReconcile(a) \/ Crash(a)
                 \/ \E p \in Pair, t \in Time : StartClose(a, p, t)
          PROVE  AllDealt'
      BY <2>2, StartDeals, OthersDeal
    <2>3. ASSUME UNCHANGED job PROVE AllDealt'
      BY <2>3 DEF AllDealt, Dealt, OpenRow
    <2>4. QED
      BY <2>1, <2>2, <2>3 DEF Next, TimePasses, DropIndex, Arrives, vars
  <1>3. QED
    BY <1>1, <1>2, Invariant, PTL DEF Spec

\* The rows a reconcile commits are open for exactly the pairs it found red, whatever
\* rows the index held before and whoever resolved them (reconcile).
THEOREM CommitsAgree == Spec => CommitAgrees
  <1>1. AllDealt /\ Inv /\ [Next]_vars =>
           [\A c \in Collector :
              Commit(c) => \A p \in Pair :
                  (\E t \in Time : OpenRow(table', p, t)) <=> job[c].last[p] # NoTime]_vars
    BY DEF AllDealt, Dealt, Commit, Process
  <1>2. QED
    BY <1>1, Invariant, DealtInvariant, PTL DEF Spec, CommitAgrees
=============================================================================
