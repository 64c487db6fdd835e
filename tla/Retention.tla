------------------------------- MODULE Retention -------------------------------
(***************************************************************************)
(* What the weekly retention pass (collectors/retention.py) leaves of the  *)
(* configuration snapshots and of the git and github states.  A table is a *)
(* function from the numbers of its rows, in the order they were taken, to *)
(* the rows [group, taken, hash]; moments are half days, counted from      *)
(* 2025-01-01 (a Wednesday).  The years have no 29th of February.          *)
(***************************************************************************)
EXTENDS Integers, FiniteSetsExt, Functions

Day(taken) == taken \div 2
Year(day) == day \div 365

\* Weeks begin on Mondays and are numbered by the year their Thursday lies in.
Week(day) == (day + 2) \div 7
Thursday(day) == 7 * Week(day) + 1
IsoWeek(day) == (Thursday(day) % 365) \div 7 + 1

_cut(now, days) == now - 2 * days

\* (mutant: the label is the month)
MonthLabel(taken) == <<Year(Day(taken)), (Day(taken) % 365) \div 31>>

\* The calendar year of the stamp, with the number of its ISO week.
WeekLabel(taken) == <<Year(Day(taken)), IsoWeek(Day(taken))>>

Earlier(rows, i) == {j \in DOMAIN rows : j < i /\ rows[j].group = rows[i].group}

\* The row does not repeat its predecessor.
Changed(rows, i) == Earlier(rows, i) = {} \/ rows[Max(Earlier(rows, i))].hash # rows[i].hash

\* Beyond 90 days: the first row of a week, and every row whose hash is not its predecessor's.
prune_config_snapshots(rows, now) ==
    Restrict(rows, {i \in DOMAIN rows :
        \/ rows[i].taken >= _cut(now, 90)
        \/ Changed(rows, i)
        \/ \A j \in Earlier(rows, i) : WeekLabel(rows[j].taken) # WeekLabel(rows[i].taken)})

SameDay(r, s) == r.group = s.group /\ Day(r.taken) = Day(s.taken)

\* Beyond 30 days: the last row of a day, of those that are beyond.
_prune_last_of_day(rows, now) ==
    Restrict(rows, {i \in DOMAIN rows :
        \/ rows[i].taken >= _cut(now, 30)
        \/ \A j \in DOMAIN rows : j > i /\ SameDay(rows[j], rows[i]) => rows[j].taken >= _cut(now, 30)})

-----------------------------------------------------------------------------
(* Properties *)

\* "Plus every snapshot whose hash differs from its predecessor": the rows at which a group's
\* configuration changed are the same before and after, so that its history, without
\* repetitions, is what it was.
ChangesKept(rows, now) ==
    LET left == prune_config_snapshots(rows, now)
    IN  {i \in DOMAIN left : Changed(left, i)} = {i \in DOMAIN rows : Changed(rows, i)}

\* "One per week": every week that had a snapshot of a group still has one, but for a week whose
\* number a row of another week of that calendar year had before.
WeeklyKept(rows, now) ==
    LET left == prune_config_snapshots(rows, now)
        At(i) == Day(rows[i].taken)
    IN  \A i \in DOMAIN rows :
          \/ \E j \in Earlier(rows, i) : /\ Week(At(j)) # Week(At(i))
                                         /\ Year(At(j)) = Year(At(i)) /\ IsoWeek(At(j)) = IsoWeek(At(i))
          \/ \E k \in DOMAIN left : left[k].group = rows[i].group /\ Week(At(k)) = Week(At(i))

\* It does not matter how often the pass runs: what a late one leaves does not depend on the
\* ones before it, although each judges a table the others have thinned out.
PruneConverges(rows, sooner, later) ==
    /\ prune_config_snapshots(prune_config_snapshots(rows, sooner), later)
         = prune_config_snapshots(rows, later)
    /\ _prune_last_of_day(_prune_last_of_day(rows, sooner), later) = _prune_last_of_day(rows, later)

\* "Daily last-of-day": of a day that lies wholly beyond the cutoff a group keeps one row, its
\* last, even where an earlier pass cut through the day.
DayEndKept(rows, sooner, later) ==
    LET left == _prune_last_of_day(_prune_last_of_day(rows, sooner), later)
        OfDay(table, i) == {j \in DOMAIN table : SameDay(table[j], rows[i])}
    IN  \A i \in DOMAIN rows :
          2 * Day(rows[i].taken) + 1 < _cut(later, 30) => OfDay(left, i) = {Max(OfDay(rows, i))}
================================================================================
