------------------------------ MODULE Schedule ------------------------------
(* When a loop is due: cron expressions (collectors/validate.py), the operator's *)
(* presets and "every N days" intervals (collectors/scheduler.py), and the two *)
(* limits derived from a cron, the tier floor and the staleness threshold. *)
(* Time is in minutes from 2025-01-01 00:00, the epoch of Cron._gaps, a       *)
(* Wednesday; the years reached (2025-2027) have 365 days. A negative time    *)
(* is before the epoch.                                                       *)
EXTENDS Integers, Sequences, FiniteSetsExt

CONSTANT None                    \* no setting, no match, no valid expression

Hour == 60
Day == 24 * Hour

\* ------------------------------------------------------------------ calendar
MonthStarts == <<0, 31, 59, 90, 120, 151, 181, 212, 243, 273, 304, 334, 365>>

Calendar ==
  [y \in 0..364 |->
     LET m == CHOOSE i \in 1..12 : MonthStarts[i] <= y /\ y < MonthStarts[i + 1]
     IN  [month |-> m, dom |-> (y - MonthStarts[m]) + 1]]

WeekDay(d) == (3 + d) % 7                        \* cron's numbering: Sunday is 0

\* --------------------------------------------------------------------- crons
\* One cron field is a set of parts: `*`, `a`, `a-b`, each with an optional step.
Star(step) == [star |-> TRUE, a |-> 0, b |-> 0, step |-> step]
Span(a, b, step) == [star |-> FALSE, a |-> a, b |-> b, step |-> step]

PartRange(part, lo, hi) == IF part.star THEN lo..hi ELSE part.a..part.b

ValidPart(part, lo, hi) ==
  part.step > 0 /\ PartRange(part, lo, hi) # {} /\ PartRange(part, lo, hi) \subseteq lo..hi

_expand_field(parts, lo, hi) ==
  UNION {{v \in PartRange(p, lo, hi) : (v - Min(PartRange(p, lo, hi))) % p.step = 0} : p \in parts}

\* The text is compared with "*": `*/2` is a restriction.
Restricted(parts) == parts # {Star(1)}

parse(f) ==
  IF \/ \E p \in f.minute : ~ValidPart(p, 0, 59)
     \/ \E p \in f.hour : ~ValidPart(p, 0, 23)
     \/ \E p \in f.dom : ~ValidPart(p, 1, 31)
     \/ \E p \in f.month : ~ValidPart(p, 1, 12)
     \/ \E p \in f.dow : ~ValidPart(p, 0, 7)
  THEN None
  ELSE [minute |-> _expand_field(f.minute, 0, 59), hour |-> _expand_field(f.hour, 0, 23),
        dom |-> _expand_field(f.dom, 1, 31), month |-> _expand_field(f.month, 1, 12),
        dow |-> {v % 7 : v \in _expand_field(f.dow, 0, 7)},
        dom_restricted |-> Restricted(f.dom), dow_restricted |-> Restricted(f.dow)]

DayMatches(c, d) ==
  LET date == Calendar[d % 365] IN
  /\ date.month \in c.month
  /\ IF c.dom_restricted /\ c.dow_restricted
     THEN date.dom \in c.dom \/ WeekDay(d) \in c.dow
     ELSE /\ c.dom_restricted => date.dom \in c.dom
          /\ c.dow_restricted => WeekDay(d) \in c.dow

\* Every minute in lo..hi the cron matches: what the minute-by-minute scans find.
Matches(c, lo, hi) ==
  {t \in {d * Day + h * Hour + m :
            d \in {e \in (lo \div Day)..(hi \div Day) : DayMatches(c, e)},
            h \in c.hour, m \in c.minute} : lo <= t /\ t <= hi}

CronPrevious(c, now, horizon) ==
  LET hits == Matches(c, now - horizon * Day, now) IN IF hits = {} THEN None ELSE Max(hits)

CronNext(c, now, horizon) ==
  LET hits == Matches(c, now + 1, now + 1 + horizon * Day)
  IN  IF hits = {} THEN None ELSE Min(hits)

_gaps(c, window) ==
  LET hits == Matches(c, 0, window * Day - 1)
      Earlier(t) == {u \in hits : u < t}
  IN  {t - Max(Earlier(t)) : t \in {u \in hits : Earlier(u) # {}}}

min_interval_minutes(c, window) ==
  IF _gaps(c, window) = {} THEN window * Day ELSE Min(_gaps(c, window))

max_interval_minutes(c, window) ==
  IF _gaps(c, window) = {} THEN window * Day ELSE Max(_gaps(c, window))

\* ----------------------------------------------------- what depends on a cron
Window == 40
Horizon == 45
TierFloor == [cloud |-> 60, local |-> 1, session |-> 1]

\* The schedule part of validate._validate_cadence.
ValidSchedule(tier, f) ==
  LET c == parse(f) IN
  /\ c # None
  /\ c.minute \cap {0, 30} = {}
  /\ min_interval_minutes(c, Window) >= TierFloor[tier]

stale_after_minutes(c) == 2 * max_interval_minutes(c, Window)

\* ----------------------------------------------------- windows and their slots
\* `setting` is the project's autorun_window, or the fleet's when it has none;
\* a setting without start_hour, or none at all, leaves the default 08:xx-11:xx.
autorun_window(project, defaults) ==
  LET w == IF project # None THEN project ELSE defaults IN
  IF w = None \/ w.start_hour = None
  THEN [start |-> 8, span |-> 4, minute |-> None]
  ELSE [start |-> w.start_hour % 24, span |-> Max({1, Min({24, w.span_hours})}),
        minute |-> IF w.start_minute = None THEN None ELSE w.start_minute % 60]

\* `hash` is the checksum of "project:loop", by the four parts the code reads.
_slot(hash, window) ==
  [minute |-> IF window.minute # None THEN window.minute
              ELSE IF hash.minute \in {0, 30} THEN hash.minute + 7 ELSE hash.minute,
   hour |-> (window.start + (hash.hour % window.span)) % 24,
   dow |-> (hash.dow % 5) + 1,
   dom |-> (hash.dom % 28) + 1]

\* preset_cron: the expression each preset stands for.
preset_cron(preset, slot) ==
  [minute |-> {Span(slot.minute, slot.minute, 1)}, hour |-> {Span(slot.hour, slot.hour, 1)},
   dom |-> IF preset.name = "monthly" THEN {Span(slot.dom, slot.dom, 1)} ELSE {Star(1)},
   month |-> {Star(1)},
   dow |-> CASE preset.name = "weekdays" -> {Span(1, 5, 1)}
             [] preset.name = "weekly" -> {Span(slot.dow, slot.dow, 1)}
             [] OTHER               -> {Star(1)}]

\* ------------------------------------------------------- "every N days" tokens
Anchor == -1827 * Day                            \* 2020-01-01

\* (mutant) The whole steps are rounded up.
BoundsRoundedUp(n, hour, minute, now) ==
  LET base == Anchor + hour * Hour + minute
      previous == base + (((now - base) + n * Day - 1) \div (n * Day)) * n * Day
  IN  [previous |-> previous, next |-> previous + n * Day]

_interval_bounds(n, hour, minute, now) ==
  LET base == Anchor + hour * Hour + minute
      previous == base + ((now - base) \div (n * Day)) * n * Day
  IN  [previous |-> previous, next |-> previous + n * Day]

\* A schedule is a parsed cron or an interval token.
Every(n, slot) == [every |-> n, hour |-> slot.hour, minute |-> slot.minute]
IsInterval(s) == "every" \in DOMAIN s

previous_fire(s, now) ==
  IF IsInterval(s) THEN _interval_bounds(s.every, s.hour, s.minute, now).previous
  ELSE CronPrevious(s, now, Horizon)

next_fire(s, now) ==
  IF IsInterval(s) THEN _interval_bounds(s.every, s.hour, s.minute, now).next
  ELSE CronNext(s, now, Horizon)

\* A preset counts only while the project runs unattended; "every-<N>d" is the
\* name "every" with its days.
effective_schedule(preset, autorun, slot, default) ==
  IF preset = None \/ ~autorun THEN parse(default)
  ELSE IF preset.name = "every" THEN Every(preset.days, slot)
  ELSE parse(preset_cron(preset, slot))

\* ---------------------------------------------------------------- properties
\* The days a preset may leave between two runs.
Longest(preset) ==
  CASE preset.name = "daily" -> 1 [] preset.name = "weekdays" -> 3
    [] preset.name = "weekly" -> 7 [] preset.name = "monthly" -> 31
    [] OTHER -> preset.days

\* A preset never loses an occurrence: at every moment of the year the scheduler
\* finds the last one within its 45-day horizon, the next one is the promised
\* number of days away at most, and no occurrence lies between the two.
PresetNeverLost(preset, slot, now) ==
  LET s == effective_schedule(preset, TRUE, slot, None)
      prev == previous_fire(s, now)
      next == next_fire(s, now)
  IN  /\ prev # None /\ next # None
      /\ prev <= now /\ now < next
      /\ next - prev <= Longest(preset) * Day
      /\ next = IF IsInterval(s) THEN prev + s.every * Day ELSE next_fire(s, prev)

\* The slots of a window: the minute is never :00 or :30 unless the operator
\* pinned it, the hour lies within the window, past midnight too, and the
\* day exists in every week and every month.
SlotInWindow(hash, project, defaults) ==
  LET w == autorun_window(project, defaults)
      s == _slot(hash, w)
  IN  /\ w.minute = None => s.minute \in 0..59 \ {0, 30}
      /\ w.minute # None => s.minute = w.minute
      /\ s.hour \in {(w.start + i) % 24 : i \in 0..(w.span - 1)}
      /\ s.dow \in 1..5 /\ s.dom \in 1..28

\* A loop whose run answers every occurrence before the next one is never shown
\* as stale. `now` is within the run of the last occurrence, so the newest
\* receipt is that of the one before. For the crons that restrict neither the
\* day of the month nor the month.
OnTimeNeverStale(f, now) ==
  LET c == parse(f)
      last == CronPrevious(c, now, 120)
      before == CronPrevious(c, last - 1, 120)
  IN  now - before <= stale_after_minutes(c)

\* The tier floor the validator measures over its forty days holds on every
\* later day: no two fires of an accepted cloud cron are less than an hour apart.
\* For the crons that do not restrict the month.
FloorHolds(tier, f, now) ==
  ValidSchedule(tier, f) =>
    LET next == CronNext(parse(f), now, 120)
        after == CronNext(parse(f), next, 120)
    IN  next # None /\ after # None /\ after - next >= TierFloor[tier]

=============================================================================
