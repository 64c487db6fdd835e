------------------------------- MODULE Telemetry -------------------------------
(***************************************************************************)
(* C2 (collectors/telemetry.py) and its retention (collectors/retention.py,*)
(* aggregate_telemetry and prune_spool): data points are appended to the   *)
(* spool, every collection recomputes the daily rows from the whole spool, *)
(* and old daily rows collapse into a row per month.  A row's columns are  *)
(* one number here.                                                        *)
(***************************************************************************)
EXTENDS Integers, FiniteSets, FiniteSetsExt, Functions

CONSTANTS
    Day,        \* days, as consecutive numbers
    MonthOf,    \* the month of a day
    KeepDaily,  \* days a daily row is kept (two years)
    Collector,
    MaxPoints   \* bound: data points of one day

VARIABLES
    today,
    spool,     \* spool[d]: the points of day d that telemetry.jsonl holds
    received,  \* received[d]: the points of day d ever received (history)
    daily,     \* telemetry_day rows of one day each: day -> total
    monthly,   \* telemetry_day rows of one month each: month -> total
    draining   \* draining[c]: the totals a collector has computed and not yet written

vars == <<today, spool, received, daily, monthly, draining>>

Month == {MonthOf[d] : d \in Day}
NoRows == <<>>

TypeOK ==
    /\ today \in Day
    /\ spool \in [Day -> 0 .. MaxPoints] /\ received \in [Day -> 0 .. MaxPoints]
    /\ DOMAIN daily \subseteq Day /\ DOMAIN monthly \subseteq Month
    /\ \A c \in Collector : DOMAIN draining[c] \subseteq Day

Init ==
    /\ today = Min(Day)
    /\ spool = [d \in Day |-> 0]
    /\ received = spool
    /\ daily = NoRows
    /\ monthly = NoRows
    /\ draining = [c \in Collector |-> NoRows]

\* (row by row, the new value replaces the old)
Upsert(table, new) ==
    [k \in DOMAIN table \cup DOMAIN new |-> IF k \in DOMAIN new THEN new[k] ELSE table[k]]

\* The receiver appends a point of today.
append_spool ==
    /\ received[today] < MaxPoints
    /\ spool' = [spool EXCEPT ![today] = @ + 1]
    /\ received' = [received EXCEPT ![today] = @ + 1]
    /\ UNCHANGED <<today, daily, monthly, draining>>

NextDay ==
    /\ today + 1 \in Day
    /\ today' = today + 1
    /\ UNCHANGED <<spool, received, daily, monthly, draining>>

\* rollup: the days the spool has points of.
ReadSpool(c) ==
    /\ draining[c] = NoRows
    /\ draining' = [draining EXCEPT ![c] = Restrict(spool, {d \in Day : spool[d] > 0})]
    /\ UNCHANGED <<today, spool, received, daily, monthly>>

\* (mutant: the totals are added to what the rows hold)
WriteRowsAdding(c) ==
    /\ draining[c] # NoRows
    /\ daily' = [d \in DOMAIN daily \cup DOMAIN draining[c] |->
                   (IF d \in DOMAIN daily THEN daily[d] ELSE 0)
                     + (IF d \in DOMAIN draining[c] THEN draining[c][d] ELSE 0)]
    /\ draining' = [draining EXCEPT ![c] = NoRows]
    /\ UNCHANGED <<today, spool, received, monthly>>

WriteRows(c) ==
    /\ draining[c] # NoRows
    /\ daily' = Upsert(daily, draining[c])
    /\ draining' = [draining EXCEPT ![c] = NoRows]
    /\ UNCHANGED <<today, spool, received, monthly>>

Old == {d \in DOMAIN daily : d < today - KeepDaily}

SumOver(D) == MapThenSumSet(LAMBDA d : daily[d], D)

\* The old days of a month become the month's row, replacing the one that was there.
aggregate_telemetry ==
    /\ Old # {}
    /\ monthly' = Upsert(monthly, [m \in {MonthOf[d] : d \in Old} |->
                     SumOver({d \in Old : MonthOf[d] = m})])
    /\ daily' = Restrict(daily, DOMAIN daily \ Old)
    /\ UNCHANGED <<today, spool, received, draining>>

\* The spool file has not been written to for a week: it is deleted, drained or not.
prune_spool ==
    /\ spool # [d \in Day |-> 0]
    /\ spool[today] = 0
    /\ spool' = [d \in Day |-> 0]
    /\ UNCHANGED <<today, received, daily, monthly, draining>>

Next == \/ append_spool \/ NextDay \/ aggregate_telemetry \/ prune_spool
        \/ \E c \in Collector : ReadSpool(c) \/ WriteRows(c)

-----------------------------------------------------------------------------
(* Properties *)

\* However drains overlap and repeat, and whatever was pruned or collapsed meanwhile, no row
\* claims more than was received for its day or its month.
NeverOvercounted ==
    /\ \A d \in DOMAIN daily : daily[d] <= received[d]
    /\ \A m \in DOMAIN monthly :
         monthly[m] <= MapThenSumSet(LAMBDA d : received[d], {d \in Day : MonthOf[d] = m})

==============================================================================
