----------------------------- MODULE Escalations -----------------------------
(***************************************************************************)
(* The escalations of collectors/escalations.py: rows of the index that    *)
(* follow the receipts of each (project, cadence) pair, and the GitHub     *)
(* issues that follow the rows.                                            *)
(*                                                                         *)
(*   Collector   collect.run_all, which runs reconcile inside one SQLite   *)
(*               transaction and commits it at the end                     *)
(*   Operator    the dashboard's "close", escalations.close                *)
(*                                                                         *)
(* A gh call takes effect at once, whether or not the transaction around   *)
(* it is ever committed; it may fail, or succeed without an answer.        *)
(***************************************************************************)
EXTENDS Integers

CONSTANTS
    Pair,        \* (project, cadence) pairs
    Tracked,     \* those whose project asks for issues and names a repository
    StaleAfter,  \* twice the schedule's longest gap, or NoLimit
    AgesAfter,   \* amber_ages_to_red_after_days, or NoLimit
    Collector, Operator,
    Issue,       \* issue numbers (bounds how many can be opened)
    Flaky,       \* whether gh calls may fail
    Drops,       \* whether the index may be dropped
    CrashProne,  \* processes that may die between two steps
    MaxTime,     \* bound of the clock
    NoIssue, NoPair, Nobody

Time    == 0 .. MaxTime
NoTime  == -1
NoLimit == -1
Process == Collector \cup Operator
Verdict == {"green", "amber", "red"}

ASSUME EscalationConstants ==
    /\ Tracked \subseteq Pair /\ NoPair \notin Pair
    /\ StaleAfter \in [Pair -> Nat \cup {NoLimit}]
    /\ AgesAfter \in [Pair -> Nat \cup {NoLimit}]
    /\ Collector \cap Operator = {} /\ Nobody \notin Process
    /\ NoIssue \notin Issue
    /\ Flaky \in BOOLEAN /\ Drops \in BOOLEAN
    /\ CrashProne \subseteq Process
    /\ MaxTime \in Nat

VARIABLES
    clock,
    receipt, \* the verdict of the receipt each pair has for a time, or "none"
    table,   \* the committed rows, one for each pair and first_seen
    writer,  \* who holds SQLite's write lock
    open,    \* the open issues
    titled,  \* the pair each issue's title names
    job,     \* what each process is doing
    blind    \* pairs for which a search for their issue has failed

vars == <<clock, receipt, table, writer, open, titled, job, blind>>

Row == [run      : Time \cup {NoTime},     \* the receipt it was last written for
        issue    : Issue \cup {NoIssue},
        resolved : {"absent", "no", "green", "close"}]

NoRow == [run |-> NoTime, issue |-> NoIssue, resolved |-> "absent"]
Table == [Pair -> [Time -> Row]]

Job == [pc    : {"idle", "clear", "raise", "find", "create", "close", "shut"},
        rows  : Table,                          \* the uncommitted rows
        last  : [Pair -> Time \cup {NoTime}],   \* the tip of each red pair's history
        first : [Pair -> Time \cup {NoTime}],   \* where its streak starts
        left  : SUBSET Pair,                    \* red pairs to be looked at
        cur   : Pair \cup {NoPair},
        seen  : Time \cup {NoTime},             \* first_seen of the row to close
        issue : Issue \cup {NoIssue}]           \* its issue, as read

Empty == [p \in Pair |-> [t \in Time |-> NoRow]]

IdleJob == [pc |-> "idle", rows |-> Empty, last |-> [p \in Pair |-> NoTime],
            first |-> [p \in Pair |-> NoTime], left |-> {}, cur |-> NoPair,
            seen |-> NoTime, issue |-> NoIssue]

Init ==
    /\ clock   = 0
    /\ receipt = [p \in Pair |-> [t \in Time |-> "none"]]
    /\ table   = Empty
    /\ writer  = Nobody
    /\ open    = {}
    /\ titled  = [n \in Issue |-> NoPair]
    /\ job     = [a \in Process |-> IdleJob]
    /\ blind   = {}

-----------------------------------------------------------------------------
(* brief.analyze_pair, as far as reconcile asks it *)

Heard(p) == {t \in Time : receipt[p][t] # "none"}
IsLatest(p, t) == t \in Heard(p) /\ \A u \in Heard(p) : u <= t

\* t is where the unbroken run of verdicts in V at the tip of the history starts.
StartsRun(p, t, V) ==
    /\ t \in Heard(p)
    /\ \A u \in Heard(p) : u >= t => receipt[p][u] \in V
    /\ \A s \in Heard(p) : s < t =>
          \E u \in Heard(p) : s <= u /\ u < t /\ receipt[p][u] \notin V

Stale(p, t) == StaleAfter[p] # NoLimit /\ clock - t > StaleAfter[p]

Aged(p) ==
    /\ AgesAfter[p] # NoLimit
    /\ \E s \in Time : StartsRun(p, s, {"amber"}) /\ clock - s > AgesAfter[p]

\* Effectively red: a red tip, or an amber one that has aged, and not stale.
Red(p) ==
    \E t \in Time :
        /\ IsLatest(p, t)
        /\ ~Stale(p, t)
        /\ receipt[p][t] = "red" \/ Aged(p)

Green(p) == \E t \in Time : IsLatest(p, t) /\ receipt[p][t] = "green"

-----------------------------------------------------------------------------
(* Helpers *)

Become(a, j) == job' = [job EXCEPT ![a] = j]
OpenRow(rows, p, t) == rows[p][t].resolved = "no"
IssuesOf(p) == {n \in open : titled[n] = p}

\* The rows with the issue of one of them changed.
WithIssue(j, n) == [j.rows EXCEPT ![j.cur][j.first[j.cur]].issue = n]

\* gh issue close: the issue is shut, or the call fails and nobody is told.
GhClose(n) ==
    \/ open' = open \ {n}
    \/ Flaky /\ n # NoIssue /\ UNCHANGED open

-----------------------------------------------------------------------------
(* reconcile *)

StartReconcile(c) ==
    /\ c \in Collector
    /\ job[c].pc = "idle"
    /\ writer = Nobody
    /\ writer' = c
    /\ \E last, first \in [Pair -> Time \cup {NoTime}] :
        /\ \A p \in Pair :
              IF Red(p) THEN /\ last[p] # NoTime /\ IsLatest(p, last[p])
                             /\ first[p] # NoTime
                             /\ StartsRun(p, first[p], {"amber", "red"})
              ELSE last[p] = NoTime /\ first[p] = NoTime
        /\ Become(c, [IdleJob EXCEPT !.pc = "clear", !.rows = table, !.last = last,
                                     !.first = first, !.left = {p \in Pair : Red(p)}])
    /\ UNCHANGED <<clock, receipt, table, open, titled, blind>>

\* (mutant: the row is resolved and its issue forgotten)
ClearRowOnly(c) ==
    /\ job[c].pc = "clear"
    /\ \E p \in Pair \ job[c].left, t \in Time :
        /\ OpenRow(job[c].rows, p, t)
        /\ Become(c, [job[c] EXCEPT !.rows[p][t].resolved = "green"])
    /\ UNCHANGED <<clock, receipt, table, writer, open, titled, blind>>

\* An open row of a pair that is not red is resolved, and its issue closed.
ClearRow(c) ==
    /\ job[c].pc = "clear"
    /\ \E p \in Pair \ job[c].left, t \in Time :
        /\ OpenRow(job[c].rows, p, t)
        /\ Become(c, [job[c] EXCEPT !.rows[p][t].resolved = "green"])
        /\ IF p \in Tracked THEN GhClose(job[c].rows[p][t].issue) ELSE UNCHANGED open
    /\ UNCHANGED <<clock, receipt, table, writer, titled, blind>>

ClearEnd(c) ==
    /\ job[c].pc = "clear"
    /\ \A p \in Pair \ job[c].left, t \in Time : ~OpenRow(job[c].rows, p, t)
    /\ Become(c, [job[c] EXCEPT !.pc = "raise"])
    /\ UNCHANGED <<clock, receipt, table, writer, open, titled, blind>>

\* (mutant: the upsert does not reset "resolved")
UpsertRowKeeps(c, p, n) ==
    LET j == job[c]
        r == j.rows[p][j.first[p]] IN
    [j.rows EXCEPT ![p][j.first[p]] =
        [run |-> j.last[p], issue |-> n,
         resolved |-> IF r.resolved = "absent" THEN "no" ELSE r.resolved]]

UpsertRow(c, p, n) ==
    LET j == job[c] IN
    [j.rows EXCEPT ![p][j.first[p]] = [run |-> j.last[p], issue |-> n, resolved |-> "no"]]

\* A red pair's row is written, with the issue of an open row of the pair (of any,
\* where a green run between two reconciles has left two); without one, and if the
\* project wants one, an issue is looked for.
RaiseRow(c, p) ==
    /\ job[c].pc = "raise"
    /\ p \in job[c].left
    /\ \E n \in Issue \cup {NoIssue} :
        /\ IF \E t \in Time : OpenRow(job[c].rows, p, t)
           THEN \E t \in Time : OpenRow(job[c].rows, p, t) /\ n = job[c].rows[p][t].issue
           ELSE n = NoIssue
        /\ Become(c, [job[c] EXCEPT
               !.rows = UpsertRow(c, p, n), !.left = @ \ {p}, !.cur = p,
               !.pc   = IF p \in Tracked /\ n = NoIssue THEN "find" ELSE "raise"])
    /\ UNCHANGED <<clock, receipt, table, writer, open, titled, blind>>

\* (mutant: the search looks at closed issues only)
FindIssueMisses(c) ==
    /\ job[c].pc = "find"
    /\ Become(c, [job[c] EXCEPT !.pc = "create"])
    /\ UNCHANGED <<clock, receipt, table, writer, open, titled, blind>>

\* (mutant: no issue is made when none is found)
FindIssueGivesUp(c) ==
    /\ job[c].pc = "find"
    /\ \/ \E n \in IssuesOf(job[c].cur) :
            Become(c, [job[c] EXCEPT !.pc = "raise", !.rows = WithIssue(job[c], n)])
       \/ /\ IssuesOf(job[c].cur) = {}
          /\ Become(c, [job[c] EXCEPT !.pc = "raise"])
    /\ UNCHANGED <<clock, receipt, table, writer, open, titled, blind>>

\* gh issue list by title: an open issue of the pair, none, or a failure that
\* reads like none.
FindIssue(c) ==
    /\ job[c].pc = "find"
    /\ \/ /\ \E n \in IssuesOf(job[c].cur) :
                Become(c, [job[c] EXCEPT !.pc = "raise", !.rows = WithIssue(job[c], n)])
          /\ UNCHANGED blind
       \/ /\ IssuesOf(job[c].cur) = {}
          /\ Become(c, [job[c] EXCEPT !.pc = "create"])
          /\ UNCHANGED blind
       \/ /\ Flaky
          /\ Become(c, [job[c] EXCEPT !.pc = "create"])
          /\ blind' = blind \cup {job[c].cur}
    /\ UNCHANGED <<clock, receipt, table, writer, open, titled>>

\* gh issue create: an issue and its number, an issue without an answer, or nothing.
CreateIssue(c) ==
    /\ job[c].pc = "create"
    /\ \/ \E n \in Issue :
            /\ titled[n] = NoPair
            /\ titled' = [titled EXCEPT ![n] = job[c].cur]
            /\ open'   = open \cup {n}
            /\ \/ Become(c, [job[c] EXCEPT !.pc = "raise", !.rows = WithIssue(job[c], n)])
               \/ Flaky /\ Become(c, [job[c] EXCEPT !.pc = "raise"])
       \/ /\ Flaky
          /\ Become(c, [job[c] EXCEPT !.pc = "raise"])
          /\ UNCHANGED <<open, titled>>
    /\ UNCHANGED <<clock, receipt, table, writer, blind>>

Commit(c) ==
    /\ job[c].pc = "raise"
    /\ job[c].left = {}
    /\ table'  = job[c].rows
    /\ writer' = Nobody
    /\ Become(c, IdleJob)
    /\ UNCHANGED <<clock, receipt, open, titled, blind>>

-----------------------------------------------------------------------------
(* close *)

StartClose(o, p, t) ==
    /\ o \in Operator
    /\ job[o].pc = "idle"
    /\ OpenRow(table, p, t)
    /\ Become(o, [IdleJob EXCEPT !.pc = "close", !.cur = p, !.seen = t,
                                 !.issue = table[p][t].issue])
    /\ UNCHANGED <<clock, receipt, table, writer, open, titled, blind>>

\* (mutant: what the row is resolved by is not recorded)
WriteCloseBare(o) ==
    LET j == job[o] IN
    /\ j.pc = "close"
    /\ writer = Nobody
    /\ table' = [table EXCEPT ![j.cur][j.seen].resolved = "resolved"]
    /\ Become(o, IF j.issue = NoIssue THEN IdleJob ELSE [j EXCEPT !.pc = "shut"])
    /\ UNCHANGED <<clock, receipt, writer, open, titled, blind>>

\* The UPDATE waits for the write lock; it names the row by its id alone.
WriteClose(o) ==
    LET j == job[o] IN
    /\ j.pc = "close"
    /\ writer = Nobody
    /\ table' = [table EXCEPT ![j.cur][j.seen].resolved =
                    IF @ = "absent" THEN @ ELSE "close"]
    /\ Become(o, IF j.issue = NoIssue THEN IdleJob ELSE [j EXCEPT !.pc = "shut"])
    /\ UNCHANGED <<clock, receipt, writer, open, titled, blind>>

ShutIssue(o) ==
    /\ job[o].pc = "shut"
    /\ GhClose(job[o].issue)
    /\ Become(o, IdleJob)
    /\ UNCHANGED <<clock, receipt, table, writer, titled, blind>>

-----------------------------------------------------------------------------
(* The environment *)

Arrives(p, v) ==
    /\ receipt[p][clock] = "none"
    /\ receipt' = [receipt EXCEPT ![p][clock] = v]
    /\ UNCHANGED <<clock, table, writer, open, titled, job, blind>>

TimePasses ==
    /\ clock < MaxTime
    /\ clock' = clock + 1
    /\ UNCHANGED <<receipt, table, writer, open, titled, job, blind>>

\* The index is a cache: somebody deletes the file and it is built again.
DropIndex ==
    /\ Drops
    /\ writer = Nobody
    /\ table' = Empty
    /\ UNCHANGED <<clock, receipt, writer, open, titled, job, blind>>

\* A process dies; SQLite rolls its transaction back.
Crash(a) ==
    /\ a \in CrashProne
    /\ job[a].pc # "idle"
    /\ Become(a, IdleJob)
    /\ writer' = IF writer = a THEN Nobody ELSE writer
    /\ UNCHANGED <<clock, receipt, table, open, titled, blind>>

-----------------------------------------------------------------------------

Progress(a) ==
    \/ ClearRow(a) \/ ClearEnd(a) \/ FindIssue(a) \/ CreateIssue(a) \/ Commit(a)
    \/ WriteClose(a) \/ ShutIssue(a)
    \/ \E p \in Pair : RaiseRow(a, p)

Next ==
    \/ TimePasses \/ DropIndex
    \/ \E p \in Pair, v \in Verdict : Arrives(p, v)
    \/ \E a \in Process : \/ StartReconcile(a) \/ Progress(a) \/ Crash(a)
                          \/ \E p \in Pair, t \in Time : StartClose(a, p, t)

Spec == Init /\ [][Next]_vars

\* A collect that has started runs on, and collects keep being started.
Fairness ==
    \A c \in Collector : WF_vars(Progress(c)) /\ WF_vars(StartReconcile(c))

FairSpec == Spec /\ Fairness

-----------------------------------------------------------------------------
(* Properties *)

TypeOK ==
    /\ clock   \in Time
    /\ receipt \in [Pair -> [Time -> Verdict \cup {"none"}]]
    /\ table   \in Table
    /\ writer  \in Process \cup {Nobody}
    /\ open    \in SUBSET Issue
    /\ titled  \in [Issue -> Pair \cup {NoPair}]
    /\ job     \in [Process -> Job]
    /\ blind   \in SUBSET Pair

\* "One issue per cadence and project" (SPEC 13), through crashes, rolled-back rows,
\* lost answers, failed closes, /close in between and a dropped index.  A search that
\* fails reads like "no such issue" and is the one way to a second issue.
OneIssuePerPair ==
    \A n, m \in open : titled[n] = titled[m] /\ titled[n] \notin blind => n = m

\* When a reconcile commits, the pairs with an open row are those it has found red,
\* however many rows a pair has and whoever resolved them before.
CommitAgrees ==
    [][\A c \in Collector :
          Commit(c) => \A p \in Pair :
              (\E t \in Time : OpenRow(table', p, t)) <=> job[c].last[p] # NoTime]_vars

\* "Escalations resolve only through /close or a green run.  Nothing expires quietly"
\* (SPEC 13): a row resolved as "cleared by green run" has a green run after its start.
ClearedByGreen ==
    \A p \in Pair, t \in Time :
        table[p][t].resolved = "green"
            => \E u \in Time : u > t /\ receipt[p][u] = "green"

\* A pair that stays red gets an open row, and one that is tracked an open issue that
\* the row names.
RedIsRaised ==
    \A p \in Pair :
        Red(p) ~> \/ ~Red(p)
                  \/ \E t \in Time : /\ OpenRow(table, p, t)
                                     /\ p \in Tracked => table[p][t].issue \in IssuesOf(p)

\* A pair that is green, and stays it, has no open row and no open issue in the end.
GreenIsCleared ==
    \A p \in Pair :
        Green(p) ~> \/ ~Green(p)
                    \/ IssuesOf(p) = {} /\ \A t \in Time : ~OpenRow(table, p, t)
=============================================================================
