---------------------------- MODULE ScheduleProofs ----------------------------
(***************************************************************************)
(* Proofs about Schedule, for every preset, slot, setting, cron and moment. *)
(* A day that matches is found within so many days of any other: a week    *)
(* where only the day of the week counts, 31 days where a day up to the    *)
(* 28th does, 92 for any day of the month.  So the scans of CronPrevious   *)
(* and CronNext never come back empty, and what they find is the last hit, *)
(* or the first.  What the forty measured days say of the gaps holds of    *)
(* every other day: a cron of any date repeats every week, and two minutes *)
(* of an hour would be seen on a day of the forty, so a cron that passes   *)
(* the cloud's floor has one, and fires hours apart.                       *)
(***************************************************************************)
EXTENDS Components, WellFoundedInduction, TLAPS

-----------------------------------------------------------------------------
(* The calendar *)

\* The months' first days, and how many days each has.
LEMMA Months ==
    /\ \A m \in 1 .. 13 : Cron!MonthStarts[m] \in Nat
    /\ \A m \in 1 .. 12 : /\ Cron!MonthStarts[m] + 28 <= Cron!MonthStarts[m + 1]
                          /\ Cron!MonthStarts[m + 1] <= Cron!MonthStarts[m] + 31
    /\ \A m \in 1 .. 11 : \/ Cron!MonthStarts[m + 1] = Cron!MonthStarts[m] + 31
                          \/ Cron!MonthStarts[m + 2] = Cron!MonthStarts[m + 1] + 31
    /\ Cron!MonthStarts[1] = 0 /\ Cron!MonthStarts[2] = 31 /\ Cron!MonthStarts[12] = 334 /\ Cron!MonthStarts[13] = 365
  BY DEF Cron!MonthStarts

\* A later month starts later.
LEMMA MonthsAscend ==
    \A i, j \in 1 .. 13 : i <= j => Cron!MonthStarts[i] <= Cron!MonthStarts[j]
  BY DEF Cron!MonthStarts

\* Every day of the year is in a month.
LEMMA InAMonth ==
    \A y \in 0 .. 364 : \E m \in 1 .. 12 : Cron!MonthStarts[m] <= y /\ y < Cron!MonthStarts[m + 1]
  BY DEF Cron!MonthStarts

\* The date of a day, once its month is known.
LEMMA DateIs ==
    ASSUME NEW y \in 0 .. 364, NEW m \in 1 .. 12,
           Cron!MonthStarts[m] <= y, y < Cron!MonthStarts[m + 1]
    PROVE  Cron!Calendar[y] = [month |-> m, dom |-> (y - Cron!MonthStarts[m]) + 1]
  <1>1. \A i \in 1 .. 12 : Cron!MonthStarts[i] <= y /\ y < Cron!MonthStarts[i + 1] => i = m
    <2> SUFFICES ASSUME NEW i \in 1 .. 12, Cron!MonthStarts[i] <= y, y < Cron!MonthStarts[i + 1], i # m
                 PROVE  FALSE
      OBVIOUS
    <2>1. CASE i < m
      <3>1. Cron!MonthStarts[i + 1] <= Cron!MonthStarts[m]
        BY <2>1, MonthsAscend
      <3>2. QED
        BY <3>1, Months
    <2>2. CASE m < i
      <3>1. Cron!MonthStarts[m + 1] <= Cron!MonthStarts[i]
        BY <2>2, MonthsAscend
      <3>2. QED
        BY <3>1, Months
    <2>3. QED
      BY <2>1, <2>2
  <1>2. (CHOOSE i \in 1 .. 12 : Cron!MonthStarts[i] <= y /\ y < Cron!MonthStarts[i + 1]) = m
    BY <1>1
  <1>3. QED
    BY <1>2 DEF Cron!Calendar

Dom(d) == Cron!Calendar[d % 365].dom

\* The month m begins on the day a of the year and has a v-th.
Has(m, v, a) ==
    /\ m \in 1 .. 12 /\ v \in 1 .. 31 /\ a \in Nat /\ a = Cron!MonthStarts[m]
    /\ Cron!MonthStarts[m + 1] \in Nat /\ a + v <= Cron!MonthStarts[m + 1]

\* The month has a v-th where v is at most its length.
LEMMA HasOne ==
    ASSUME NEW m \in 1 .. 12, NEW v \in 1 .. 31, v <= 28 \/ Cron!MonthStarts[m + 1] = Cron!MonthStarts[m] + 31
    PROVE  Has(m, v, Cron!MonthStarts[m])
  BY Months DEF Has

\* The v-th of a month that has it.
LEMMA DateOf ==
    ASSUME NEW m, NEW v, NEW a, Has(m, v, a), NEW d \in Int, d % 365 = a + v - 1
    PROVE  Dom(d) = v
  <1>1. PICK b \in Nat : b = Cron!MonthStarts[m + 1] /\ b <= 365
    <2>1. Cron!MonthStarts[m + 1] <= Cron!MonthStarts[13]
      BY MonthsAscend DEF Has
    <2>2. QED
      BY <2>1, Months DEF Has
  <1>2. PICK y \in 0 .. 364 : y = d % 365
    OBVIOUS
  <1>3. a <= y /\ y < b
    BY <1>1, <1>2 DEF Has
  <1>4. Cron!Calendar[y] = [month |-> m, dom |-> (y - Cron!MonthStarts[m]) + 1]
    BY <1>1, <1>3, DateIs DEF Has
  <1>5. Cron!Calendar[y].dom = (y - a) + 1
    BY <1>1, <1>4 DEF Has
  <1>6. QED
    BY <1>1, <1>2, <1>5 DEF Dom, Has

\* k days after the day d it is the v-th.
In(d, k, v) == Dom(d + k) = v

\* The v-th of the month m comes in k days.
LEMMA ComesIn ==
    ASSUME NEW m, NEW v, NEW a, Has(m, v, a), NEW d \in Int, NEW k \in Int,
           k = a + v - 1 - (d % 365) \/ k = a + v - 1 + 365 - (d % 365)
    PROVE  In(d, k, v)
  <1>1. Cron!MonthStarts[m + 1] <= 365
    <2>1. Cron!MonthStarts[m + 1] <= Cron!MonthStarts[13]
      BY MonthsAscend DEF Has
    <2>2. QED
      BY <2>1, Months
  <1>2. PICK y \in 0 .. 364 : y = a + v - 1
    <2>1. a \in Nat /\ v \in 1 .. 31 /\ a + v <= 365
      BY <1>1 DEF Has
    <2>2. a + v - 1 \in 0 .. 364
      BY <2>1
    <2>3. QED
      BY <2>2
  <1>3. k = y - (d % 365) \/ k = y + 365 - (d % 365)
    BY <1>2 DEF Has
  <1>4. (d + k) % 365 = y
    <2>1. CASE k = y - (d % 365)
      BY <2>1
    <2>2. CASE k = y + 365 - (d % 365)
      BY <2>2
    <2>3. QED
      BY <1>3, <2>1, <2>2
  <1>5. PICK e \in Int : e = d + k /\ e % 365 = a + v - 1
    BY <1>2, <1>4
  <1>6. Dom(e) = v
    BY <1>5, DateOf
  <1>7. QED
    BY <1>5, <1>6 DEF In

\* The day of the year is in a month, and the month is not too long.
LEMMA Today ==
    ASSUME NEW d \in Int
    PROVE  \E r \in 0 .. 364, m \in 1 .. 12, a, b \in Nat :
             /\ r = d % 365 /\ a = Cron!MonthStarts[m] /\ b = Cron!MonthStarts[m + 1]
             /\ a <= r /\ r < b /\ a + 28 <= b /\ b <= a + 31
  <1>1. PICK r \in 0 .. 364 : r = d % 365
    OBVIOUS
  <1>2. PICK m \in 1 .. 12 : Cron!MonthStarts[m] <= r /\ r < Cron!MonthStarts[m + 1]
    BY InAMonth
  <1>3. PICK a, b \in Nat : /\ a = Cron!MonthStarts[m] /\ b = Cron!MonthStarts[m + 1]
                            /\ a + 28 <= b /\ b <= a + 31
    BY Months
  <1>4. QED
    BY <1>1, <1>2, <1>3

\* The v-th of a month comes within 31 days where every month has it.
LEMMA DayComes ==
    ASSUME NEW d \in Int, NEW v \in 1 .. 28
    PROVE  \E k \in 1 .. 31 : In(d, k, v)
  <1>1. PICK r \in 0 .. 364, m \in 1 .. 12, a, b \in Nat :
          /\ r = d % 365 /\ a = Cron!MonthStarts[m] /\ b = Cron!MonthStarts[m + 1]
          /\ a <= r /\ r < b /\ a + 28 <= b /\ b <= a + 31
    BY Today
  <1>2. v \in 1 .. 31 /\ v <= 28
    OBVIOUS
  <1>3. CASE r < a + v - 1
    <2>1. PICK k \in 1 .. 31 : k = a + v - 1 - r
      BY <1>1, <1>3
    <2>2. Has(m, v, a)
      BY <1>1, <1>2, HasOne
    <2>3. In(d, k, v)
      BY <1>1, <2>1, <2>2, ComesIn
    <2>4. QED
      BY <2>3
  <1>4. CASE a + v - 1 <= r /\ m # 12
    <2>1. PICK k \in 1 .. 31 : k = b + v - 1 - r
      BY <1>1, <1>4
    <2>2. Has(m + 1, v, b)
      <3>1. PICK n \in 1 .. 12 : n = m + 1
        BY <1>4
      <3>2. QED
        BY <1>1, <1>2, <3>1, HasOne
    <2>3. In(d, k, v)
      BY <1>1, <2>1, <2>2, ComesIn
    <2>4. QED
      BY <2>3
  <1>5. CASE a + v - 1 <= r /\ m = 12
    <2>1. a = 334
      BY <1>1, <1>5, Months
    <2>2. PICK k \in 1 .. 31 : k = 0 + v - 1 + 365 - r
      BY <1>1, <1>5, <2>1
    <2>3. Has(1, v, 0)
      BY <1>2, HasOne, Months
    <2>4. In(d, k, v)
      BY <1>1, <2>2, <2>3, ComesIn
    <2>5. QED
      BY <2>4
  <1>6. QED
    BY <1>3, <1>4, <1>5, <1>1

\* The v-th of a month comes within a quarter, whichever months have it.
LEMMA AnyDayComes ==
    ASSUME NEW d \in Int, NEW v \in 1 .. 31
    PROVE  \E k \in 1 .. 92 : In(d, k, v)
  <1>1. PICK r \in 0 .. 364, m \in 1 .. 12, a, b \in Nat :
          /\ r = d % 365 /\ a = Cron!MonthStarts[m] /\ b = Cron!MonthStarts[m + 1]
          /\ a <= r /\ r < b /\ a + 28 <= b /\ b <= a + 31
    BY Today
  <1>2. CASE m \in 1 .. 10
    <2>1. PICK n \in 2 .. 12 : /\ n = m + 1 \/ n = m + 2
                               /\ Cron!MonthStarts[n + 1] = Cron!MonthStarts[n] + 31
      BY <1>2, Months
    <2>2. PICK c \in Nat : c = Cron!MonthStarts[n] /\ b <= c /\ c <= b + 31
      <3>1. CASE n = m + 1
        BY <1>1, <3>1
      <3>2. CASE n = m + 2
        <4>1. PICK l \in 1 .. 12 : l = m + 1 /\ l + 1 = m + 2
          BY <1>2
        <4>2. /\ Cron!MonthStarts[l] + 28 <= Cron!MonthStarts[l + 1]
              /\ Cron!MonthStarts[l + 1] <= Cron!MonthStarts[l] + 31
              /\ Cron!MonthStarts[l + 1] \in Nat
          BY Months
        <4>3. QED
          BY <1>1, <3>2, <4>1, <4>2
      <3>3. QED
        BY <2>1, <3>1, <3>2
    <2>3. PICK k \in 1 .. 92 : k = c + v - 1 - r
      BY <1>1, <2>2
    <2>4. Has(n, v, c)
      BY <2>1, <2>2, HasOne
    <2>5. In(d, k, v)
      BY <1>1, <2>3, <2>4, ComesIn
    <2>6. QED
      BY <2>5
  <1>3. CASE m \in 11 .. 12
    <2>1. a >= 303
      BY <1>1, <1>3 DEF Cron!MonthStarts
    <2>2. PICK k \in 1 .. 92 : k = 0 + v - 1 + 365 - r
      BY <1>1, <2>1
    <2>3. Has(1, v, 0)
      BY HasOne, Months
    <2>4. In(d, k, v)
      BY <1>1, <2>2, <2>3, ComesIn
    <2>5. QED
      BY <2>4
  <1>4. QED
    BY <1>2, <1>3

-----------------------------------------------------------------------------
(* Least and greatest *)

\* A set of numbers has a least one.
LEMMA Least ==
    ASSUME NEW S, \A x \in S : x \in Nat, NEW y \in S
    PROVE  \E x \in S : \A z \in S : x <= z
  <1>1. S \subseteq Nat /\ S # {}
    OBVIOUS
  <1>2. PICK x \in S : \A z \in S : <<z, x>> \notin OpToRel(<, Nat)
    BY <1>1, WFMin, NatLessThanWellFounded, Zenon
  <1>3. \A z \in S : ~(z < x)
    BY <1>1, <1>2, Zenon DEF OpToRel
  <1>4. QED
    BY <1>3

Bounded(S, a, b) == \A x \in S : x \in Int /\ a <= x /\ x <= b

\* So has a set of integers above a, and it is what Min chooses.
LEMMA MinIs ==
    ASSUME NEW S, NEW a \in Int, NEW b \in Int, Bounded(S, a, b), S # {}
    PROVE  Cron!Min(S) \in S /\ \A z \in S : Cron!Min(S) <= z
  <1> DEFINE T == {x - a : x \in S}
  <1>1. \A t \in T : t \in Nat
    BY DEF Bounded
  <1>2. PICK y \in T : TRUE
    OBVIOUS
  <1>3. PICK t \in T : \A z \in T : t <= z
    BY <1>1, <1>2, Least
  <1>4. PICK x \in S : t = x - a
    OBVIOUS
  <1>5. \A z \in S : x <= z
    <2> SUFFICES ASSUME NEW z \in S PROVE x <= z
      OBVIOUS
    <2>1. t <= z - a
      BY <1>3
    <2>2. QED
      BY <1>4, <2>1 DEF Bounded
  <1>6. \E m \in S : \A z \in S : m <= z
    BY <1>5
  <1>7. QED
    BY <1>6, Zenon DEF Cron!Min

\* Likewise what Max chooses.
LEMMA MaxIs ==
    ASSUME NEW S, NEW a \in Int, NEW b \in Int, Bounded(S, a, b), S # {}
    PROVE  Cron!Max(S) \in S /\ \A z \in S : z <= Cron!Max(S)
  <1> DEFINE T == {b - x : x \in S}
  <1>1. \A t \in T : t \in Nat
    BY DEF Bounded
  <1>2. PICK y \in T : TRUE
    OBVIOUS
  <1>3. PICK t \in T : \A z \in T : t <= z
    BY <1>1, <1>2, Least
  <1>4. PICK x \in S : t = b - x
    OBVIOUS
  <1>5. \A z \in S : x >= z
    <2> SUFFICES ASSUME NEW z \in S PROVE x >= z
      OBVIOUS
    <2>1. t <= b - z
      BY <1>3
    <2>2. QED
      BY <1>4, <2>1 DEF Bounded
  <1>6. \E m \in S : \A z \in S : m >= z
    BY <1>5
  <1>7. Cron!Max(S) \in S /\ \A z \in S : Cron!Max(S) >= z
    BY <1>6, Zenon DEF Cron!Max
  <1>8. QED
    BY <1>7 DEF Bounded

-----------------------------------------------------------------------------
(* Hits *)

\* What parse gives of the time of day.
Timed(c) == /\ c.hour \subseteq 0 .. 23 /\ c.hour # {}
            /\ c.minute \subseteq 0 .. 59 /\ c.minute # {}

\* The cron fires at the minute t.
Hit(c, t) == \E d \in Int, h \in c.hour, m \in c.minute : Cron!DayMatches(c, d) /\ t = d * 1440 + h * 60 + m

\* A matching day has its hits.
LEMMA HitAt ==
    ASSUME NEW c, NEW d \in Int, Cron!DayMatches(c, d), NEW h \in c.hour, NEW m \in c.minute,
           NEW t, t = d * 1440 + h * 60 + m
    PROVE  Hit(c, t)
  BY DEF Hit

\* The minute of a day is of that day.
LEMMA DayOf ==
    ASSUME NEW d \in Int, NEW h \in 0 .. 23, NEW m \in 0 .. 59, NEW a \in Int, NEW b \in Int,
           a <= d * 1440 + h * 60 + m, d * 1440 + h * 60 + m <= b
    PROVE  d \in (a \div 1440) .. (b \div 1440)
  OBVIOUS

\* The scan of an interval finds the hits in it.
LEMMA MatchesAre ==
    ASSUME NEW c, Timed(c), NEW a \in Int, NEW b \in Int, NEW t
    PROVE  t \in Cron!Matches(c, a, b) <=> Hit(c, t) /\ a <= t /\ t <= b
  <1> DEFINE Days == {e \in (a \div 1440) .. (b \div 1440) : Cron!DayMatches(c, e)}
  <1>1. Cron!Matches(c, a, b) = {u \in {d * 1440 + h * 60 + m : d \in Days, h \in c.hour, m \in c.minute} :
                                   a <= u /\ u <= b}
    BY DEF Cron!Matches, Cron!Day, Cron!Hour
  <1>2. ASSUME t \in Cron!Matches(c, a, b)
        PROVE  Hit(c, t) /\ a <= t /\ t <= b
    <2>1. PICK d \in Days, h \in c.hour, m \in c.minute : t = d * 1440 + h * 60 + m
      BY <1>1, <1>2
    <2>2. d \in Int /\ Cron!DayMatches(c, d)
      OBVIOUS
    <2>3. QED
      BY <1>1, <1>2, <2>1, <2>2 DEF Hit
  <1>3. ASSUME Hit(c, t), a <= t, t <= b
        PROVE  t \in Cron!Matches(c, a, b)
    <2>1. PICK d \in Int, h \in c.hour, m \in c.minute : Cron!DayMatches(c, d) /\ t = d * 1440 + h * 60 + m
      BY <1>3 DEF Hit
    <2>2. h \in 0 .. 23 /\ m \in 0 .. 59
      BY DEF Timed
    <2>3. d \in (a \div 1440) .. (b \div 1440)
      BY <1>3, <2>1, <2>2, DayOf
    <2>4. d \in Days
      BY <2>1, <2>3
    <2>5. QED
      BY <1>1, <1>3, <2>1, <2>4
  <1>4. QED
    BY <1>2, <1>3

\* A hit is a minute.
LEMMA HitInt == ASSUME NEW c, Timed(c), NEW t, Hit(c, t) PROVE t \in Int
  BY DEF Hit, Timed

\* The last hit up to a moment, and the first one after it.
Last(c, now, t) == t \in Int /\ Hit(c, t) /\ t <= now /\ \A u \in Int : Hit(c, u) /\ u <= now => u <= t
First(c, now, t) == t \in Int /\ Hit(c, t) /\ now < t /\ \A u \in Int : Hit(c, u) /\ now < u => t <= u

\* The scans find the last hit, and the next one, where the horizon reaches one.
LEMMA PreviousIs ==
    ASSUME NEW c, Timed(c), NEW now \in Int, NEW n \in Nat,
           NEW u \in Int, Hit(c, u), now - n * 1440 <= u, u <= now
    PROVE  Last(c, now, Cron!CronPrevious(c, now, n))
  <1>0. PICK a \in Int : a = now - n * 1440
    OBVIOUS
  <1>1. PICK S : S = Cron!Matches(c, a, now)
    OBVIOUS
  <1>2. u \in S
    BY <1>0, <1>1, MatchesAre
  <1>3. Bounded(S, a, now)
    BY <1>0, <1>1, MatchesAre, HitInt DEF Bounded
  <1>4. Cron!CronPrevious(c, now, n) = Cron!Max(S)
    BY <1>0, <1>1, <1>2 DEF Cron!CronPrevious, Cron!Day, Cron!Hour
  <1>5. PICK t : t = Cron!Max(S) /\ t \in S /\ \A z \in S : z <= t
    BY <1>2, <1>3, MaxIs
  <1>6. t \in Int /\ Hit(c, t) /\ a <= t /\ t <= now
    BY <1>0, <1>1, <1>5, <1>3, MatchesAre DEF Bounded
  <1>7. ASSUME NEW w \in Int, Hit(c, w), w <= now
        PROVE  w <= t
    <2>1. CASE a <= w
      <3>1. w \in S
        BY <1>0, <1>1, <1>7, <2>1, MatchesAre
      <3>2. QED
        BY <1>5, <3>1
    <2>2. CASE w < a
      BY <1>0, <1>6, <2>2
    <2>3. QED
      BY <2>1, <2>2
  <1>8. QED
    BY <1>4, <1>5, <1>6, <1>7 DEF Last

\* Where a hit lies within the horizon ahead, the next one found is the first.
LEMMA NextIs ==
    ASSUME NEW c, Timed(c), NEW now \in Int, NEW n \in Nat,
           NEW u \in Int, Hit(c, u), now < u, u <= now + 1 + n * 1440
    PROVE  First(c, now, Cron!CronNext(c, now, n))
  <1>0. PICK a \in Int, b \in Int : a = now + 1 /\ b = now + 1 + n * 1440
    OBVIOUS
  <1>1. PICK S : S = Cron!Matches(c, a, b)
    OBVIOUS
  <1>2. u \in S
    BY <1>0, <1>1, MatchesAre
  <1>3. Bounded(S, a, b)
    BY <1>0, <1>1, MatchesAre, HitInt DEF Bounded
  <1>4. Cron!CronNext(c, now, n) = Cron!Min(S)
    BY <1>0, <1>1, <1>2 DEF Cron!CronNext, Cron!Day, Cron!Hour
  <1>5. PICK t : t = Cron!Min(S) /\ t \in S /\ \A z \in S : t <= z
    BY <1>2, <1>3, MinIs
  <1>6. t \in Int /\ Hit(c, t) /\ a <= t /\ t <= b
    BY <1>0, <1>1, <1>5, <1>3, MatchesAre DEF Bounded
  <1>7. ASSUME NEW w \in Int, Hit(c, w), now < w
        PROVE  t <= w
    <2>1. CASE w <= b
      <3>1. w \in S
        BY <1>0, <1>1, <1>7, <2>1, MatchesAre
      <3>2. QED
        BY <1>5, <3>1
    <2>2. CASE b < w
      BY <1>0, <1>6, <2>2
    <2>3. QED
      BY <2>1, <2>2
  <1>8. QED
    BY <1>0, <1>1, <1>4, <1>5, <1>6, <1>7 DEF First

\* A matching day within every n.
Come(c, n) == \A d \in Int : \E k \in 1 .. n : Cron!DayMatches(c, d + k)

After(c, t, n) == \E u \in Int : Hit(c, u) /\ t < u /\ u <= t + n * 1440
Before(c, t, n) == \E u \in Int : Hit(c, u) /\ t - n * 1440 < u /\ u <= t

\* Then a hit is at most n days from every moment, both ways.
LEMMA HitWithin ==
    ASSUME NEW c, Timed(c), NEW n \in Nat, Come(c, n), NEW t \in Int
    PROVE  After(c, t, n) /\ Before(c, t, n)
  <1>0. PICK h \in 0 .. 23, m \in 0 .. 59 : h \in c.hour /\ m \in c.minute
    BY DEF Timed
  <1>1. PICK x \in 0 .. 1439 : x = h * 60 + m
    OBVIOUS
  <1>2. PICK e \in Int : e * 1440 + x <= t /\ t < (e + 1) * 1440 + x
    <2>1. ((t - x) \div 1440) \in Int
      OBVIOUS
    <2>2. ((t - x) \div 1440) * 1440 + x <= t /\ t < (((t - x) \div 1440) + 1) * 1440 + x
      OBVIOUS
    <2>3. QED
      BY <2>1, <2>2
  <1>3. \A d \in Int : Cron!DayMatches(c, d) => Hit(c, d * 1440 + x)
    <2> SUFFICES ASSUME NEW d \in Int, Cron!DayMatches(c, d) PROVE Hit(c, d * 1440 + x)
      OBVIOUS
    <2>1. d * 1440 + x = d * 1440 + h * 60 + m
      BY <1>1
    <2>2. QED
      BY <1>0, <2>1, HitAt
  <1>4. \E u \in Int : Hit(c, u) /\ t < u /\ u <= t + n * 1440
    <2>1. PICK k \in 1 .. n : Cron!DayMatches(c, e + k)
      BY DEF Come
    <2>2. Hit(c, (e + k) * 1440 + x)
      BY <1>3, <2>1
    <2>3. t < (e + k) * 1440 + x /\ (e + k) * 1440 + x <= t + n * 1440 /\ (e + k) * 1440 + x \in Int
      BY <1>2
    <2>4. QED
      BY <2>2, <2>3
  <1>5. \E u \in Int : Hit(c, u) /\ t - n * 1440 < u /\ u <= t
    <2>0. PICK d \in Int : d = e - n
      OBVIOUS
    <2>1. PICK k \in 1 .. n : Cron!DayMatches(c, d + k)
      BY DEF Come
    <2>2. Hit(c, (d + k) * 1440 + x)
      BY <1>3, <2>1
    <2>3. (d + k) * 1440 + x <= t /\ t - n * 1440 < (d + k) * 1440 + x
          /\ (d + k) * 1440 + x \in Int
      BY <1>2, <2>0
    <2>4. QED
      BY <2>2, <2>3
  <1>6. QED
    BY <1>4, <1>5 DEF After, Before

\* What the scans find then.
LEMMA Found ==
    ASSUME NEW c, Timed(c), NEW n \in Nat, Come(c, n), NEW now \in Int, NEW horizon \in Nat, n <= horizon
    PROVE  /\ Last(c, now, Cron!CronPrevious(c, now, horizon))
           /\ First(c, now, Cron!CronNext(c, now, horizon))
  <1>0. After(c, now, n) /\ Before(c, now, n)
    BY HitWithin
  <1>1. PICK u \in Int : Hit(c, u) /\ now < u /\ u <= now + n * 1440
    BY <1>0 DEF After
  <1>2. PICK w \in Int : Hit(c, w) /\ now - n * 1440 < w /\ w <= now
    BY <1>0 DEF Before
  <1>3. u <= now + 1 + horizon * 1440 /\ now - horizon * 1440 <= w
    BY <1>1, <1>2
  <1>4. QED
    BY <1>1, <1>2, <1>3, PreviousIs, NextIs

\* No two neighbouring hits are more than n days apart.
LEMMA GapAtMost ==
    ASSUME NEW c, Timed(c), NEW n \in Nat, Come(c, n), NEW now \in Int, NEW p, NEW q,
           Last(c, now, p), First(c, now, q)
    PROVE  q - p <= n * 1440 /\ First(c, p, q)
  <1>1. p \in Int /\ q \in Int /\ p <= now /\ now < q
    BY DEF Last, First
  <1>2. PICK u \in Int : Hit(c, u) /\ p < u /\ u <= p + n * 1440
    BY <1>1, HitWithin DEF After
  <1>3. ~(u <= now)
    BY <1>1, <1>2 DEF Last
  <1>4. q <= u
    BY <1>1, <1>2, <1>3 DEF First
  <1>5. ASSUME NEW w \in Int, Hit(c, w), p < w
        PROVE  q <= w
    <2>1. ~(w <= now)
      BY <1>1, <1>5 DEF Last
    <2>2. QED
      BY <1>1, <1>5, <2>1 DEF First
  <1>6. QED
    BY <1>1, <1>2, <1>4, <1>5 DEF First

-----------------------------------------------------------------------------
(* Fields *)

\* The least of a range.
LEMMA MinRange == ASSUME NEW a \in Int, NEW b \in Int, a <= b PROVE Cron!Min(a .. b) = a
  <1>1. PICK S : S = a .. b
    OBVIOUS
  <1>2. Bounded(S, a, b) /\ a \in S
    BY <1>1 DEF Bounded
  <1>3. Cron!Min(S) \in S /\ \A z \in S : Cron!Min(S) <= z
    BY <1>2, MinIs
  <1>4. Cron!Min(S) \in Int /\ a <= Cron!Min(S) /\ Cron!Min(S) <= a
    BY <1>2, <1>3 DEF Bounded
  <1>5. QED
    BY <1>1, <1>4

\* A range without a step is itself, and * is the whole field.
LEMMA SpanIs ==
    ASSUME NEW a \in Int, NEW b \in Int, a <= b, NEW lo \in Int, NEW hi \in Int, lo <= a, b <= hi
    PROVE  /\ Cron!ValidPart(Cron!Span(a, b, 1), lo, hi)
           /\ Cron!_expand_field({Cron!Span(a, b, 1)}, lo, hi) = a .. b
  <1>1. PICK x : x = Cron!Span(a, b, 1)
    OBVIOUS
  <1>2. Cron!PartRange(x, lo, hi) = a .. b /\ x.step = 1
    BY <1>1 DEF Cron!Span, Cron!PartRange
  <1>3. Cron!ValidPart(x, lo, hi)
    <2>1. a .. b \subseteq lo .. hi /\ a \in a .. b /\ 1 > 0
      OBVIOUS
    <2>2. QED
      BY <1>2, <2>1 DEF Cron!ValidPart
  <1>4. \A v \in a .. b : (v - a) % 1 = 0
    OBVIOUS
  <1>5. {v \in Cron!PartRange(x, lo, hi) : (v - Cron!Min(Cron!PartRange(x, lo, hi))) % x.step = 0} = a .. b
    BY <1>2, <1>4, MinRange
  <1>6. Cron!_expand_field({x}, lo, hi) = a .. b
    BY <1>5 DEF Cron!_expand_field
  <1>7. QED
    BY <1>1, <1>3, <1>6

\* A star without a step expands to all the values of its field.
LEMMA StarIs ==
    ASSUME NEW lo \in Int, NEW hi \in Int, lo <= hi
    PROVE  /\ Cron!ValidPart(Cron!Star(1), lo, hi)
           /\ Cron!_expand_field({Cron!Star(1)}, lo, hi) = lo .. hi
  <1>1. PICK x : x = Cron!Star(1)
    OBVIOUS
  <1>2. Cron!PartRange(x, lo, hi) = lo .. hi /\ x.step = 1
    BY <1>1 DEF Cron!Star, Cron!PartRange
  <1>3. Cron!ValidPart(x, lo, hi)
    BY <1>2 DEF Cron!ValidPart
  <1>4. \A v \in lo .. hi : (v - lo) % 1 = 0
    OBVIOUS
  <1>5. {v \in Cron!PartRange(x, lo, hi) : (v - Cron!Min(Cron!PartRange(x, lo, hi))) % x.step = 0} = lo .. hi
    BY <1>2, <1>4, MinRange
  <1>6. Cron!_expand_field({x}, lo, hi) = lo .. hi
    BY <1>5 DEF Cron!_expand_field
  <1>7. QED
    BY <1>1, <1>3, <1>6

\* A field that parses has values, all of them in its limits.
LEMMA FieldIs ==
    ASSUME NEW parts, parts # {}, parts \subseteq CronPart, NEW lo \in Int, NEW hi \in Int,
           \A x \in parts : Cron!ValidPart(x, lo, hi)
    PROVE  Cron!_expand_field(parts, lo, hi) # {} /\ Cron!_expand_field(parts, lo, hi) \subseteq lo .. hi
  <1> DEFINE Vals(x) == {v \in Cron!PartRange(x, lo, hi) : (v - Cron!Min(Cron!PartRange(x, lo, hi))) % x.step = 0}
  <1>1. Cron!_expand_field(parts, lo, hi) = UNION {Vals(x) : x \in parts}
    BY DEF Cron!_expand_field
  <1>2. \A x \in parts : Vals(x) \subseteq lo .. hi
    BY DEF Cron!ValidPart
  <1>3. PICK x \in parts : TRUE
    OBVIOUS
  <1>4. PICK S : S = Cron!PartRange(x, lo, hi)
    OBVIOUS
  <1>5. S \subseteq lo .. hi /\ S # {} /\ x.step \in Nat /\ x.step > 0
    BY <1>4 DEF Cron!ValidPart, CronPart
  <1>6. Bounded(S, lo, hi)
    BY <1>5 DEF Bounded
  <1>7. Cron!Min(S) \in S
    BY <1>5, <1>6, MinIs
  <1>8. (Cron!Min(S) - Cron!Min(S)) % x.step = 0
    <2>1. PICK y \in Int : y = Cron!Min(S)
      BY <1>6, <1>7 DEF Bounded
    <2>2. PICK n \in Nat : n = x.step /\ n > 0
      BY <1>5
    <2>3. y - y = 0 /\ 0 % n = 0
      BY <2>2
    <2>4. QED
      BY <2>1, <2>2, <2>3
  <1>9. Cron!Min(S) \in Vals(x)
    BY <1>4, <1>7, <1>8
  <1>10. QED
    BY <1>1, <1>2, <1>9

-----------------------------------------------------------------------------
(* Expressions *)

\* The fields parse accepts, and what it makes of them.
Valid(f) ==
    /\ \A x \in f.minute : Cron!ValidPart(x, 0, 59)
    /\ \A x \in f.hour : Cron!ValidPart(x, 0, 23)
    /\ \A x \in f.dom : Cron!ValidPart(x, 1, 31)
    /\ \A x \in f.month : Cron!ValidPart(x, 1, 12)
    /\ \A x \in f.dow : Cron!ValidPart(x, 0, 7)

Parsed(c, f) ==
    /\ DOMAIN c = {"minute", "hour", "dom", "month", "dow", "dom_restricted", "dow_restricted"}
    /\ c.minute = Cron!_expand_field(f.minute, 0, 59)
    /\ c.hour = Cron!_expand_field(f.hour, 0, 23)
    /\ c.dom = Cron!_expand_field(f.dom, 1, 31)
    /\ c.month = Cron!_expand_field(f.month, 1, 12)
    /\ c.dow = {v % 7 : v \in Cron!_expand_field(f.dow, 0, 7)}
    /\ c.dom_restricted <=> f.dom # {Cron!Star(1)}
    /\ c.dow_restricted <=> f.dow # {Cron!Star(1)}

\* What parsing a valid expression gives, field by field.
LEMMA ParseIs == ASSUME NEW f, Valid(f) PROVE Parsed(Cron!parse(f), f)
  <1>1. Cron!parse(f) =
          [minute |-> Cron!_expand_field(f.minute, 0, 59), hour |-> Cron!_expand_field(f.hour, 0, 23),
           dom |-> Cron!_expand_field(f.dom, 1, 31), month |-> Cron!_expand_field(f.month, 1, 12),
           dow |-> {v % 7 : v \in Cron!_expand_field(f.dow, 0, 7)},
           dom_restricted |-> Cron!Restricted(f.dom), dow_restricted |-> Cron!Restricted(f.dow)]
    BY DEF Valid, Cron!parse
  <1>2. PICK c : c = Cron!parse(f)
    OBVIOUS
  <1>3. /\ DOMAIN c = {"minute", "hour", "dom", "month", "dow", "dom_restricted", "dow_restricted"}
        /\ c.minute = Cron!_expand_field(f.minute, 0, 59)
        /\ c.hour = Cron!_expand_field(f.hour, 0, 23)
        /\ c.dom = Cron!_expand_field(f.dom, 1, 31)
        /\ c.month = Cron!_expand_field(f.month, 1, 12)
        /\ c.dow = {v % 7 : v \in Cron!_expand_field(f.dow, 0, 7)}
    BY <1>1, <1>2
  <1>4. c.dom_restricted <=> f.dom # {Cron!Star(1)}
    <2>1. c.dom_restricted = Cron!Restricted(f.dom)
      BY <1>1, <1>2
    <2>2. QED
      BY <2>1, Zenon DEF Cron!Restricted
  <1>5. c.dow_restricted <=> f.dow # {Cron!Star(1)}
    <2>1. c.dow_restricted = Cron!Restricted(f.dow)
      BY <1>1, <1>2
    <2>2. QED
      BY <2>1, Zenon DEF Cron!Restricted
  <1>6. QED
    BY <1>2, <1>3, <1>4, <1>5, Zenon DEF Parsed

\* Only valid expressions parse.
LEMMA ParsedValid == ASSUME NEW f, Cron!parse(f) # None PROVE Valid(f)
  BY DEF Cron!parse, Valid

\* The times of day an expression that parses names.
LEMMA ParsedTimed ==
    ASSUME NEW f, Expression(f), Valid(f), NEW c, Parsed(c, f)
    PROVE  Timed(c) /\ c.dow # {} /\ c.dow \subseteq 0 .. 6 /\ c.dom # {} /\ c.dom \subseteq 1 .. 31
  <1>1. \A k \in {"minute", "hour", "dom", "month", "dow"} : f[k] # {} /\ f[k] \subseteq CronPart
    BY DEF Expression
  <1>2. c.minute # {} /\ c.minute \subseteq 0 .. 59
    BY <1>1, FieldIs DEF Parsed, Valid
  <1>3. c.hour # {} /\ c.hour \subseteq 0 .. 23
    BY <1>1, FieldIs DEF Parsed, Valid
  <1>4. c.dom # {} /\ c.dom \subseteq 1 .. 31
    BY <1>1, FieldIs DEF Parsed, Valid
  <1>5. c.dow # {} /\ c.dow \subseteq 0 .. 6
    <2>1. PICK S : S = Cron!_expand_field(f.dow, 0, 7)
      OBVIOUS
    <2>2. S # {} /\ S \subseteq 0 .. 7
      BY <1>1, <2>1, FieldIs DEF Valid
    <2>3. c.dow = {v % 7 : v \in S}
      BY <2>1 DEF Parsed
    <2>4. \A v \in S : v % 7 \in 0 .. 6
      BY <2>2
    <2>5. QED
      BY <2>2, <2>3, <2>4
  <1>6. QED
    BY <1>2, <1>3, <1>4, <1>5 DEF Timed

\* Every day is in some month.
LEMMA MonthIn == ASSUME NEW d \in Int PROVE Cron!Calendar[d % 365].month \in 1 .. 12
  <1>1. PICK r \in 0 .. 364, m \in 1 .. 12, a, b \in Nat :
          /\ r = d % 365 /\ a = Cron!MonthStarts[m] /\ b = Cron!MonthStarts[m + 1]
          /\ a <= r /\ r < b /\ a + 28 <= b /\ b <= a + 31
    BY Today
  <1>2. Cron!Calendar[r] = [month |-> m, dom |-> (r - Cron!MonthStarts[m]) + 1]
    BY <1>1, DateIs
  <1>3. QED
    BY <1>1, <1>2

\* An expression that does not restrict the month fires on the days its other fields name.
LEMMA AnyMonth ==
    ASSUME NEW f, f.month = {Cron!Star(1)}, NEW c, Parsed(c, f), NEW d \in Int
    PROVE  Cron!DayMatches(c, d) <=>
             IF c.dom_restricted /\ c.dow_restricted
             THEN Dom(d) \in c.dom \/ Cron!WeekDay(d) \in c.dow
             ELSE /\ c.dom_restricted => Dom(d) \in c.dom
                  /\ c.dow_restricted => Cron!WeekDay(d) \in c.dow
  <1>1. c.month = 1 .. 12
    <2>1. Cron!_expand_field({Cron!Star(1)}, 1, 12) = 1 .. 12
      <3>1. 1 \in Int /\ 12 \in Int /\ 1 <= 12
        OBVIOUS
      <3>2. QED
        BY <3>1, StarIs, Zenon
    <2>2. QED
      BY <2>1 DEF Parsed
  <1>2. Cron!Calendar[d % 365].month \in c.month
    BY <1>1, MonthIn
  <1>3. QED
    BY <1>2 DEF Cron!DayMatches, Dom

-----------------------------------------------------------------------------
(* Presets *)

SlotType == [minute : 0 .. 59, hour : 0 .. 23, dow : 1 .. 5, dom : 1 .. 28]
Named == {"daily", "weekdays", "weekly", "monthly"}
All == {Cron!Star(1)}
Only(a, b) == {Cron!Span(a, b, 1)}

\* A range is not *.
LEMMA OnlyNotAll == \A a, b : Only(a, b) # All
  <1> SUFFICES ASSUME NEW a, NEW b PROVE Cron!Span(a, b, 1) # Cron!Star(1)
    BY DEF Only, All
  <1>1. Cron!Span(a, b, 1).star = FALSE /\ Cron!Star(1).star = TRUE
    BY DEF Cron!Span, Cron!Star
  <1>2. QED
    BY <1>1

\* The fields of a preset's expression.
LEMMA PresetFields ==
    ASSUME NEW preset, preset.name \in Named, NEW slot \in SlotType, NEW f, f = Cron!preset_cron(preset, slot)
    PROVE  /\ f.minute = Only(slot.minute, slot.minute) /\ f.hour = Only(slot.hour, slot.hour) /\ f.month = All
           /\ f.dom = IF preset.name = "monthly" THEN Only(slot.dom, slot.dom) ELSE All
           /\ preset.name \in {"daily", "monthly"} => f.dow = All
           /\ preset.name = "weekdays" => f.dow = Only(1, 5)
           /\ preset.name = "weekly" => f.dow = Only(slot.dow, slot.dow)
  BY DEF Cron!preset_cron, Only, All, Named

OnlyParses(a, b, lo, hi) ==
    /\ \A x \in Only(a, b) : Cron!ValidPart(x, lo, hi)
    /\ Cron!_expand_field(Only(a, b), lo, hi) = a .. b
AllParses(lo, hi) ==
    /\ \A x \in All : Cron!ValidPart(x, lo, hi)
    /\ Cron!_expand_field(All, lo, hi) = lo .. hi

\* The part written for a slot stands for the values from the one to the other.
LEMMA OnlyIs ==
    ASSUME NEW a \in Int, NEW b \in Int, a <= b, NEW lo \in Int, NEW hi \in Int, lo <= a, b <= hi
    PROVE  OnlyParses(a, b, lo, hi)
  BY SpanIs, Zenon DEF Only, OnlyParses

\* And the star written beside it for all of them.
LEMMA AllIs ==
    ASSUME NEW lo \in Int, NEW hi \in Int, lo <= hi
    PROVE  AllParses(lo, hi)
  BY StarIs, Zenon DEF All, AllParses

\* Every preset's expression parses.
LEMMA PresetParses ==
    ASSUME NEW preset, preset.name \in Named, NEW slot \in SlotType, NEW f, f = Cron!preset_cron(preset, slot)
    PROVE  /\ OnlyParses(slot.minute, slot.minute, 0, 59)
           /\ OnlyParses(slot.hour, slot.hour, 0, 23)
           /\ OnlyParses(slot.dom, slot.dom, 1, 31)
           /\ OnlyParses(slot.dow, slot.dow, 0, 7)
           /\ OnlyParses(1, 5, 0, 7)
           /\ Valid(f)
  <1>1. PICK m \in 0 .. 59, h \in 0 .. 23, w \in 1 .. 5, v \in 1 .. 28 :
          m = slot.minute /\ h = slot.hour /\ w = slot.dow /\ v = slot.dom
    BY DEF SlotType
  <1>2. OnlyParses(m, m, 0, 59)
    BY OnlyIs
  <1>3. OnlyParses(h, h, 0, 23)
    BY OnlyIs
  <1>4. OnlyParses(v, v, 1, 31)
    BY OnlyIs
  <1>5. OnlyParses(w, w, 0, 7)
    BY OnlyIs
  <1>6. OnlyParses(1, 5, 0, 7)
    BY OnlyIs
  <1>7. AllParses(1, 31) /\ AllParses(1, 12) /\ AllParses(0, 7)
    BY AllIs
  <1>8. Valid(f)
    <2>1. \A x \in f.minute : Cron!ValidPart(x, 0, 59)
      BY <1>1, <1>2, PresetFields DEF OnlyParses
    <2>2. \A x \in f.hour : Cron!ValidPart(x, 0, 23)
      BY <1>1, <1>3, PresetFields DEF OnlyParses
    <2>3. \A x \in f.dom : Cron!ValidPart(x, 1, 31)
      BY <1>1, <1>4, <1>7, PresetFields DEF OnlyParses, AllParses
    <2>4. \A x \in f.month : Cron!ValidPart(x, 1, 12)
      BY <1>7, PresetFields DEF AllParses
    <2>5. \A x \in f.dow : Cron!ValidPart(x, 0, 7)
      BY <1>1, <1>5, <1>6, <1>7, PresetFields DEF OnlyParses, AllParses, Named
    <2>6. QED
      BY <2>1, <2>2, <2>3, <2>4, <2>5, Zenon DEF Valid
  <1>9. QED
    BY <1>1, <1>2, <1>3, <1>4, <1>5, <1>6, <1>8

\* What a preset's cron fires on, and how long one waits for it at most.
LEMMA PresetComes ==
    ASSUME NEW preset, preset.name \in Named, NEW slot \in SlotType,
           NEW c, Parsed(c, Cron!preset_cron(preset, slot))
    PROVE  Timed(c) /\ Come(c, Cron!Longest(preset)) /\ Cron!Longest(preset) \in 1 .. 31
  <1>1. PICK f : f = Cron!preset_cron(preset, slot)
    OBVIOUS
  <1>2. PICK m \in 0 .. 59, h \in 0 .. 23, w \in 1 .. 5, v \in 1 .. 28 :
          m = slot.minute /\ h = slot.hour /\ w = slot.dow /\ v = slot.dom
    BY DEF SlotType
  <1>3. c.minute = m .. m /\ c.hour = h .. h
    <2>1. f.minute = Only(m, m) /\ f.hour = Only(h, h)
      BY <1>1, <1>2, PresetFields
    <2>2. OnlyParses(m, m, 0, 59) /\ OnlyParses(h, h, 0, 23)
      BY <1>1, <1>2, PresetParses
    <2>3. QED
      BY <1>1, <2>1, <2>2 DEF Parsed, OnlyParses
  <1>4. Timed(c)
    BY <1>3 DEF Timed
  <1>5. \A d \in Int : Cron!DayMatches(c, d) <=>
             IF c.dom_restricted /\ c.dow_restricted
             THEN Dom(d) \in c.dom \/ Cron!WeekDay(d) \in c.dow
             ELSE /\ c.dom_restricted => Dom(d) \in c.dom
                  /\ c.dow_restricted => Cron!WeekDay(d) \in c.dow
    BY <1>1, PresetFields, AnyMonth DEF All
  <1>6. CASE preset.name = "daily"
    <2>1. ~c.dom_restricted /\ ~c.dow_restricted
      BY <1>1, <1>6, PresetFields DEF Parsed, All
    <2>2. Cron!Longest(preset) = 1
      BY <1>6 DEF Cron!Longest
    <2>3. \A d \in Int : Cron!DayMatches(c, d)
      BY <1>5, <2>1
    <2>4. Come(c, 1)
      BY <2>3 DEF Come
    <2>5. QED
      BY <1>4, <2>2, <2>4
  <1>7. CASE preset.name = "weekdays"
    <2>1. ~c.dom_restricted /\ c.dow_restricted
      BY <1>1, <1>7, PresetFields, OnlyNotAll DEF Parsed, All
    <2>2. c.dow = {x % 7 : x \in 1 .. 5}
      BY <1>1, <1>7, PresetFields, PresetParses DEF Parsed, OnlyParses
    <2>3. Cron!Longest(preset) = 3
      BY <1>7 DEF Cron!Longest
    <2>4. \A d \in Int : (3 + d) % 7 \in 1 .. 5 => Cron!DayMatches(c, d)
      <3> SUFFICES ASSUME NEW d \in Int, (3 + d) % 7 \in 1 .. 5 PROVE Cron!WeekDay(d) \in c.dow
        BY <1>5, <2>1
      <3>1. PICK x \in 1 .. 5 : x = (3 + d) % 7 /\ x % 7 = x
        OBVIOUS
      <3>2. QED
        BY <2>2, <3>1 DEF Cron!WeekDay
    <2>5. \A d \in Int : \E k \in 1 .. 3 : (3 + (d + k)) % 7 \in 1 .. 5
      OBVIOUS
    <2>6. Come(c, 3)
      BY <2>4, <2>5 DEF Come
    <2>7. QED
      BY <1>4, <2>3, <2>6
  <1>8. CASE preset.name = "weekly"
    <2>1. ~c.dom_restricted /\ c.dow_restricted
      BY <1>1, <1>8, PresetFields, OnlyNotAll DEF Parsed, All
    <2>2. c.dow = {x % 7 : x \in w .. w}
      BY <1>1, <1>2, <1>8, PresetFields, PresetParses DEF Parsed, OnlyParses
    <2>3. Cron!Longest(preset) = 7
      BY <1>8 DEF Cron!Longest
    <2>4. \A d \in Int : (3 + d) % 7 = w => Cron!DayMatches(c, d)
      <3> SUFFICES ASSUME NEW d \in Int, (3 + d) % 7 = w PROVE Cron!WeekDay(d) \in c.dow
        BY <1>5, <2>1
      <3>1. w % 7 = w /\ w \in w .. w
        OBVIOUS
      <3>2. QED
        BY <2>2, <3>1 DEF Cron!WeekDay
    <2>5. \A d \in Int : \E k \in 1 .. 7 : (3 + (d + k)) % 7 = w
      OBVIOUS
    <2>6. Come(c, 7)
      BY <2>4, <2>5 DEF Come
    <2>7. QED
      BY <1>4, <2>3, <2>6
  <1>9. CASE preset.name = "monthly"
    <2>1. c.dom_restricted /\ ~c.dow_restricted
      BY <1>1, <1>9, PresetFields, OnlyNotAll DEF Parsed, All
    <2>2. c.dom = v .. v
      BY <1>1, <1>2, <1>9, PresetFields, PresetParses DEF Parsed, OnlyParses
    <2>3. Cron!Longest(preset) = 31
      BY <1>9 DEF Cron!Longest
    <2>4. \A d \in Int : Dom(d) = v => Cron!DayMatches(c, d)
      BY <1>5, <2>1, <2>2
    <2>5. \A d \in Int : \E k \in 1 .. 31 : Dom(d + k) = v
      BY DayComes DEF In
    <2>6. Come(c, 31)
      BY <2>4, <2>5 DEF Come
    <2>7. QED
      BY <1>4, <2>3, <2>6
  <1>10. QED
    BY <1>6, <1>7, <1>8, <1>9 DEF Named

-----------------------------------------------------------------------------
(* Gaps *)

\* The elements of S before t, and the distances between neighbours of S.
Until(S, t) == {u \in S : u < t}
Distances(S) == {t - Cron!Max(Until(S, t)) : t \in {u \in S : Until(S, u) # {}}}

\* The neighbour of q is p, or lies between the two.
Near(S, p, q) == \E m \in S : m < q /\ p <= m /\ q - m \in Distances(S)

\* In a bounded set, every element but the least has a distance to the one before.
LEMMA DistanceIs ==
    ASSUME NEW S, NEW a \in Int, NEW b \in Int, Bounded(S, a, b), NEW p \in S, NEW q \in S, p < q
    PROVE  Near(S, p, q)
  <1>1. PICK B : B = Until(S, q)
    OBVIOUS
  <1>2. Bounded(B, a, b) /\ p \in B
    BY <1>1 DEF Bounded, Until
  <1>3. PICK m : m = Cron!Max(B) /\ m \in B /\ p <= m
    BY <1>2, MaxIs
  <1>4. q - m \in Distances(S)
    <2>1. q \in {u \in S : Until(S, u) # {}}
      BY <1>1, <1>2
    <2>2. q - m = q - Cron!Max(Until(S, q))
      BY <1>1, <1>3
    <2>3. QED
      BY <2>1, <2>2, Zenon DEF Distances
  <1>5. m \in S /\ m < q
    BY <1>1, <1>3 DEF Until
  <1>6. QED
    BY <1>3, <1>4, <1>5, Zenon DEF Near

\* The distances are bounded too.
LEMMA DistancesBounded ==
    ASSUME NEW S, NEW a \in Int, NEW b \in Int, Bounded(S, a, b)
    PROVE  Bounded(Distances(S), 0, b - a)
  <1> SUFFICES ASSUME NEW t \in S, Until(S, t) # {}
               PROVE  t - Cron!Max(Until(S, t)) \in 0 .. b - a
    BY DEF Distances, Bounded
  <1>1. PICK B : B = Until(S, t)
    OBVIOUS
  <1>2. Bounded(B, a, b) /\ B # {}
    BY <1>1 DEF Bounded, Until
  <1>3. PICK m : m = Cron!Max(B) /\ m \in B
    BY <1>2, MaxIs
  <1>4. m \in Int /\ a <= m /\ m < t /\ t \in Int /\ t <= b
    BY <1>1, <1>2, <1>3 DEF Bounded, Until
  <1>5. t - m \in 0 .. b - a
    BY <1>4
  <1>6. QED
    BY <1>1, <1>3, <1>5

\* The forty days' hits.
Scan(c) == Cron!Matches(c, 0, 57599)

\* The hits of the forty days, and the gaps the limits are computed from.
LEMMA ScanIs == ASSUME NEW c, Timed(c)
                PROVE  /\ \A t : t \in Scan(c) <=> Hit(c, t) /\ 0 <= t /\ t <= 57599
                       /\ Bounded(Scan(c), 0, 57599)
                       /\ Cron!_gaps(c, Cron!Window) = Distances(Scan(c))
  <1>1. \A t : t \in Scan(c) <=> Hit(c, t) /\ 0 <= t /\ t <= 57599
    BY MatchesAre DEF Scan
  <1>2. Bounded(Scan(c), 0, 57599)
    BY <1>1, HitInt DEF Bounded
  <1>3. Cron!Window * Cron!Day - 1 = 57599
    BY DEF Cron!Day, Cron!Hour, Cron!Window
  <1>4. Scan(c) = Cron!Matches(c, 0, Cron!Window * Cron!Day - 1)
    BY <1>3 DEF Scan
  <1>5. Cron!_gaps(c, Cron!Window) = Distances(Scan(c))
    BY <1>4, Zenon DEF Cron!_gaps, Distances, Until
  <1>6. QED
    BY <1>1, <1>2, <1>5

\* Where a hit has an earlier one there is a gap before it, no longer than to that one, and the
\* least gap and the greatest one bound it.
Gap(c, p, q) ==
    \E g \in Int :
      /\ g <= q - p
      /\ First(c, p, q) => g = q - p
      /\ Cron!min_interval_minutes(c, Cron!Window) \in Int
      /\ Cron!max_interval_minutes(c, Cron!Window) \in Int
      /\ Cron!min_interval_minutes(c, Cron!Window) <= g
      /\ g <= Cron!max_interval_minutes(c, Cron!Window)

\* Of two hits within the forty days: some measured gap is no longer than their distance, and
\* the distance of two neighbours is one of the measured gaps.
LEMMA GapIs ==
    ASSUME NEW c, Timed(c), NEW p \in Int, NEW q \in Int, Hit(c, p), Hit(c, q), 0 <= p, p < q, q < 57600
    PROVE  Gap(c, p, q)
  <1>1. PICK S, Gs : S = Scan(c) /\ Gs = Distances(S)
    OBVIOUS
  <1>2. /\ \A t : t \in S <=> Hit(c, t) /\ 0 <= t /\ t <= 57599
        /\ Bounded(S, 0, 57599) /\ Cron!_gaps(c, Cron!Window) = Gs
    BY <1>1, ScanIs
  <1>3. p \in S /\ q \in S
    BY <1>2
  <1>4. PICK m \in S : m < q /\ p <= m /\ q - m \in Gs
    <2>1. PICK a \in Int, b \in Int : Bounded(S, a, b)
      BY <1>2
    <2>2. Near(S, p, q)
      BY <1>3, <2>1, DistanceIs
    <2>3. QED
      BY <1>1, <2>2 DEF Near
  <1>5. m \in Int /\ Hit(c, m)
    BY <1>2 DEF Bounded
  <1>6. PICK g \in Int : g = q - m
    BY <1>5
  <1>7. First(c, p, q) => g = q - p
    <2>1. First(c, p, q) => ~(p < m)
      BY <1>4, <1>5 DEF First
    <2>2. QED
      BY <1>4, <1>5, <1>6, <2>1
  <1>8. PICK n \in Int : Bounded(Gs, 0, n)
    BY <1>1, <1>2, DistancesBounded
  <1>9. Cron!Min(Gs) <= g /\ g <= Cron!Max(Gs) /\ Cron!Min(Gs) \in Int /\ Cron!Max(Gs) \in Int
    <2>1. Cron!Min(Gs) \in Gs /\ Cron!Max(Gs) \in Gs /\ Cron!Min(Gs) <= g /\ g <= Cron!Max(Gs)
      BY <1>4, <1>6, <1>8, MinIs, MaxIs
    <2>2. QED
      BY <1>8, <2>1 DEF Bounded
  <1>10. /\ Cron!min_interval_minutes(c, Cron!Window) = Cron!Min(Gs)
         /\ Cron!max_interval_minutes(c, Cron!Window) = Cron!Max(Gs)
    <2>1. Gs # {}
      BY <1>4
    <2>2. QED
      BY <1>2, <2>1 DEF Cron!min_interval_minutes, Cron!max_interval_minutes
  <1>11. QED
    BY <1>4, <1>5, <1>6, <1>7, <1>9, <1>10 DEF Gap

-----------------------------------------------------------------------------
(* The properties *)

\* "Every n days" is counted from an anchor.
Whole(x, n) == (x \div n) * n

\* The last multiple of n and the next one enclose x.
LEMMA Multiple ==
    ASSUME NEW x \in Int, NEW n \in Nat \ {0}
    PROVE  Whole(x, n) \in Int /\ Whole(x, n) <= x /\ x < Whole(x, n) + n
  <1>1. (x \div n) \in Int /\ (x \div n) * n <= x /\ x < (x \div n) * n + n
    OBVIOUS
  <1>2. (x \div n) * n \in Int
    BY <1>1
  <1>3. QED
    BY <1>1, <1>2 DEF Whole

\* "Every n days" never loses an occurrence.
LEMMA IntervalNeverLost ==
    ASSUME NEW preset, preset # None, preset.name = "every", NEW n \in Nat \ {0}, preset.days = n,
           NEW slot \in SlotType, NEW now \in Int, None \notin Int
    PROVE  Cron!PresetNeverLost(preset, slot, now)
  <1>1. PICK h \in 0 .. 23, m \in 0 .. 59 : h = slot.hour /\ m = slot.minute
    BY DEF SlotType
  <1>2. PICK s : s = Cron!Every(n, slot)
    OBVIOUS
  <1>3. Cron!effective_schedule(preset, TRUE, slot, None) = s
    BY <1>2 DEF Cron!effective_schedule
  <1>4. Cron!IsInterval(s) /\ s.every = n /\ s.hour = h /\ s.minute = m
    BY <1>1, <1>2 DEF Cron!IsInterval, Cron!Every
  <1>5. Cron!Day = 1440 /\ Cron!Hour = 60 /\ Cron!Anchor \in Int
    BY DEF Cron!Day, Cron!Hour, Cron!Anchor
  <1>6. PICK base \in Int, step \in Nat \ {0} : base = Cron!Anchor + h * Cron!Hour + m /\ step = n * Cron!Day
    BY <1>5
  <1>7. PICK x \in Int, y \in Int, p \in Int, q \in Int :
          /\ x = now - base /\ y = Whole(x, step) /\ p = base + y /\ q = p + step
          /\ y <= x /\ x < y + step
    <2>1. PICK x \in Int : x = now - base
      OBVIOUS
    <2>2. Whole(x, step) \in Int /\ Whole(x, step) <= x /\ x < Whole(x, step) + step
      BY Multiple
    <2>3. QED
      BY <2>1, <2>2
  <1>8. p <= now /\ now < q
    BY <1>7
  <1>9. Cron!_interval_bounds(n, h, m, now) = [previous |-> p, next |-> q]
    <2>1. PICK b, r : b = Cron!Anchor + h * Cron!Hour + m /\ r = n * Cron!Day
      OBVIOUS
    <2>2. PICK k : k = (now - b) \div r
      OBVIOUS
    <2>3. Cron!_interval_bounds(n, h, m, now) =
            [previous |-> b + k * n * Cron!Day, next |-> b + k * n * Cron!Day + n * Cron!Day]
      BY <2>1, <2>2, Zenon DEF Cron!_interval_bounds
    <2>4. k \in Int /\ y = k * step
      <3>1. k = (x \div step)
        BY <1>6, <1>7, <2>1, <2>2
      <3>2. QED
        BY <1>7, <3>1 DEF Whole
    <2>5. k * n * 1440 = k * (n * 1440)
      BY <2>4
    <2>6. b + k * n * Cron!Day = p /\ b + k * n * Cron!Day + n * Cron!Day = q
      BY <1>5, <1>6, <1>7, <2>1, <2>4, <2>5
    <2>7. QED
      BY <2>3, <2>6
  <1>10. Cron!previous_fire(s, now) = p /\ Cron!next_fire(s, now) = q
    BY <1>4, <1>9 DEF Cron!previous_fire, Cron!next_fire
  <1>11. Cron!Longest(preset) = n
    BY DEF Cron!Longest
  <1>12. p # None /\ q # None /\ q - p <= Cron!Longest(preset) * Cron!Day /\ q = p + s.every * Cron!Day
    BY <1>4, <1>6, <1>7, <1>11
  <1>13. QED
    BY <1>3, <1>4, <1>8, <1>10, <1>12, Zenon DEF Cron!PresetNeverLost

\* A named preset's occurrences are hits of its expression.
LEMMA NamedNeverLost ==
    ASSUME NEW preset, preset # None, preset.name \in Named, NEW slot \in SlotType, NEW now \in Int, None \notin Int
    PROVE  Cron!PresetNeverLost(preset, slot, now)
  <1>1. PICK c : c = Cron!parse(Cron!preset_cron(preset, slot))
    OBVIOUS
  <1>2. PICK n \in 1 .. 31 : n = Cron!Longest(preset) /\ Timed(c) /\ Come(c, n) /\ ~Cron!IsInterval(c)
    <2>1. Parsed(c, Cron!preset_cron(preset, slot))
      BY <1>1, PresetParses, ParseIs
    <2>2. ~Cron!IsInterval(c)
      BY <2>1 DEF Parsed, Cron!IsInterval
    <2>3. QED
      BY <2>1, <2>2, PresetComes
  <1>3. Cron!effective_schedule(preset, TRUE, slot, None) = c
    BY <1>1 DEF Cron!effective_schedule, Named
  <1>4. \A t \in Int : Last(c, t, Cron!previous_fire(c, t)) /\ First(c, t, Cron!next_fire(c, t))
    <2> SUFFICES ASSUME NEW t \in Int
                 PROVE  Last(c, t, Cron!previous_fire(c, t)) /\ First(c, t, Cron!next_fire(c, t))
      OBVIOUS
    <2>1. PICK l \in Nat : l = Cron!Horizon /\ n <= l
      BY DEF Cron!Horizon
    <2>2. Last(c, t, Cron!CronPrevious(c, t, l)) /\ First(c, t, Cron!CronNext(c, t, l))
      BY <1>2, <2>1, Found
    <2>3. QED
      BY <1>2, <2>1, <2>2 DEF Cron!previous_fire, Cron!next_fire
  <1>5. PICK p, q : p = Cron!previous_fire(c, now) /\ q = Cron!next_fire(c, now)
    OBVIOUS
  <1>6. p \in Int /\ q \in Int /\ p <= now /\ now < q
    BY <1>4, <1>5 DEF Last, First
  <1>7. q - p <= n * 1440 /\ First(c, p, q)
    BY <1>2, <1>4, <1>5, GapAtMost
  <1>8. q = Cron!next_fire(c, p)
    <2>1. PICK u : u = Cron!next_fire(c, p) /\ First(c, p, u)
      BY <1>4, <1>6
    <2>2. u <= q /\ q <= u
      BY <1>7, <2>1 DEF First
    <2>3. QED
      BY <1>6, <2>1, <2>2 DEF First
  <1>9. p # None /\ q # None /\ q - p <= Cron!Longest(preset) * Cron!Day
    <2>1. Cron!Day = 1440
      BY DEF Cron!Day, Cron!Hour
    <2>2. QED
      BY <1>2, <1>6, <1>7, <2>1
  <1>10. QED
    BY <1>2, <1>3, <1>5, <1>6, <1>8, <1>9, Zenon DEF Cron!PresetNeverLost

\* An operator's window, cleaned.
LEMMA WindowIs ==
    ASSUME NEW project \in {None} \cup Setting, NEW defaults \in {None} \cup Setting, None \notin Int,
           NEW w, w = Cron!autorun_window(project, defaults)
    PROVE  w.start \in Int /\ w.span \in 1 .. 24 /\ w.minute \in {None} \cup 0 .. 59
  <1>1. PICK x : x = (IF project # None THEN project ELSE defaults)
    OBVIOUS
  <1>2. w = IF x = None \/ x.start_hour = None
              THEN [start |-> 8, span |-> 4, minute |-> None]
              ELSE [start |-> x.start_hour % 24, span |-> Cron!Max({1, Cron!Min({24, x.span_hours})}),
                    minute |-> IF x.start_minute = None THEN None ELSE x.start_minute % 60]
    BY <1>1, Zenon DEF Cron!autorun_window
  <1>3. CASE x = None \/ x.start_hour = None
    <2>1. w = [start |-> 8, span |-> 4, minute |-> None]
      BY <1>2, <1>3, Zenon
    <2>2. QED
      BY <2>1
  <1>4. CASE x # None /\ x.start_hour # None
    <2>1. x \in Setting
      BY <1>1, <1>4
    <2>2. x.start_hour \in Int /\ x.span_hours \in Int /\ x.start_minute \in {None} \cup Int
      BY <1>4, <2>1 DEF Setting
    <2>3. PICK n \in Int : n = Cron!Min({24, x.span_hours}) /\ n <= 24
      <3>1. PICK y \in Int : y = x.span_hours
        BY <2>2
      <3>2. PICK a \in Int, b \in Int : Bounded({24, y}, a, b)
        <4>1. CASE y <= 24
          BY <4>1 DEF Bounded
        <4>2. CASE 24 < y
          BY <4>2 DEF Bounded
        <4>3. QED
          BY <4>1, <4>2
      <3>3. PICK m : m = Cron!Min({24, y}) /\ m \in {24, y} /\ \A z \in {24, y} : m <= z
        BY <3>2, MinIs
      <3>4. QED
        BY <3>1, <3>3
    <2>4. Cron!Max({1, n}) \in 1 .. 24
      <3>1. PICK a \in Int, b \in Int : Bounded({1, n}, a, b)
        <4>1. CASE n <= 1
          BY <4>1 DEF Bounded
        <4>2. CASE 1 < n
          BY <4>2 DEF Bounded
        <4>3. QED
          BY <4>1, <4>2
      <3>2. PICK m : m = Cron!Max({1, n}) /\ m \in {1, n} /\ \A z \in {1, n} : z <= m
        BY <3>1, MaxIs
      <3>3. QED
        BY <2>3, <3>2
    <2>5. w.start = x.start_hour % 24 /\ w.span = Cron!Max({1, n})
      BY <1>2, <1>4, <2>3
    <2>6. w.minute = IF x.start_minute = None THEN None ELSE x.start_minute % 60
      BY <1>2, <1>4
    <2>7. QED
      BY <2>2, <2>4, <2>5, <2>6
  <1>5. QED
    BY <1>3, <1>4

\* The slot of a loop lies in the window.
LEMMA SlotLies ==
    ASSUME NEW hash \in [minute : 0 .. 59, hour : Nat, dow : Nat, dom : Nat],
           NEW project \in {None} \cup Setting, NEW defaults \in {None} \cup Setting, None \notin Int
    PROVE  Cron!SlotInWindow(hash, project, defaults)
  <1>1. PICK w : w = Cron!autorun_window(project, defaults)
    OBVIOUS
  <1>2. PICK a \in Int, n \in 1 .. 24 : a = w.start /\ n = w.span /\ w.minute \in {None} \cup 0 .. 59
    BY <1>1, WindowIs
  <1>3. PICK hm \in 0 .. 59, hh \in Nat, hw \in Nat, hd \in Nat :
          hm = hash.minute /\ hh = hash.hour /\ hw = hash.dow /\ hd = hash.dom
    OBVIOUS
  <1>4. PICK s : s = Cron!_slot(hash, w)
    OBVIOUS
  <1>5. /\ s.minute = IF w.minute # None THEN w.minute
                      ELSE IF hm \in {0, 30} THEN hm + 7 ELSE hm
        /\ s.hour = (a + (hh % n)) % 24 /\ s.dow = (hw % 5) + 1 /\ s.dom = (hd % 28) + 1
    BY <1>2, <1>3, <1>4 DEF Cron!_slot
  <1>6. w.minute = None => s.minute \in 0 .. 59 \ {0, 30}
    BY <1>5
  <1>7. w.minute # None => s.minute = w.minute
    BY <1>5
  <1>8. s.hour \in {(w.start + i) % 24 : i \in 0 .. (w.span - 1)}
    <2>1. PICK i \in 0 .. (n - 1) : i = hh % n
      OBVIOUS
    <2>2. s.hour = (a + i) % 24
      BY <1>5, <2>1
    <2>3. QED
      BY <1>2, <2>2
  <1>9. s.dow \in 1 .. 5 /\ s.dom \in 1 .. 28
    BY <1>5
  <1>10. QED
    BY <1>1, <1>4, <1>6, <1>7, <1>8, <1>9, Zenon DEF Cron!SlotInWindow

\* A week later the same hits.
LEMMA WeeksRepeat ==
    ASSUME NEW f, AnyDate(f), NEW c, Parsed(c, f), Timed(c), NEW t \in Int, Hit(c, t), NEW k \in Int
    PROVE  Hit(c, t + k * 10080)
  <1>1. \A d \in Int : Cron!DayMatches(c, d) <=> (c.dow_restricted => Cron!WeekDay(d) \in c.dow)
    <2>1. ~c.dom_restricted
      BY DEF AnyDate, Parsed
    <2>2. QED
      BY <2>1, AnyMonth DEF AnyDate
  <1>2. PICK d \in Int, h \in c.hour, m \in c.minute : Cron!DayMatches(c, d) /\ t = d * 1440 + h * 60 + m
    BY DEF Hit
  <1>3. h \in Int /\ m \in Int
    BY DEF Timed
  <1>4. PICK e \in Int : e = d + k * 7
    OBVIOUS
  <1>5. Cron!WeekDay(e) = Cron!WeekDay(d)
    <2>1. (3 + e) % 7 = (3 + d) % 7
      BY <1>4
    <2>2. QED
      BY <2>1 DEF Cron!WeekDay
  <1>6. Cron!DayMatches(c, e)
    BY <1>1, <1>2, <1>5
  <1>7. t + k * 10080 = e * 1440 + h * 60 + m
    BY <1>2, <1>3, <1>4
  <1>8. QED
    BY <1>6, <1>7, HitAt

\* So every gap of a weekly cron is among those of the forty days.
LEMMA WeeklyGap ==
    ASSUME NEW f, AnyDate(f), NEW c, Parsed(c, f), Timed(c), NEW p \in Int, NEW q \in Int,
           Hit(c, p), First(c, p, q), q - p <= 10080
    PROVE  /\ q - p <= Cron!max_interval_minutes(c, Cron!Window)
           /\ Cron!max_interval_minutes(c, Cron!Window) \in Int
  <1>1. PICK k \in Int : 0 <= p + k * 10080 /\ p + k * 10080 < 10080
    <2>1. PICK k \in Int : k = -(p \div 10080)
      OBVIOUS
    <2>2. 0 <= p + k * 10080 /\ p + k * 10080 < 10080
      BY <2>1
    <2>3. QED
      BY <2>2
  <1>2. PICK x \in Int, y \in Int : x = p + k * 10080 /\ y = q + k * 10080
    OBVIOUS
  <1>3. Hit(c, q) /\ p < q
    BY DEF First
  <1>4. Hit(c, x) /\ Hit(c, y)
    BY <1>2, <1>3, WeeksRepeat
  <1>5. First(c, x, y)
    <2> SUFFICES ASSUME NEW u \in Int, Hit(c, u), x < u PROVE y <= u
      BY <1>2, <1>3, <1>4 DEF First
    <2>1. PICK j \in Int : j = -k
      OBVIOUS
    <2>2. PICK w \in Int : w = u + j * 10080
      OBVIOUS
    <2>3. Hit(c, w)
      BY <2>2, WeeksRepeat
    <2>4. p < w
      BY <1>2, <2>1, <2>2
    <2>5. q <= w
      BY <2>3, <2>4 DEF First
    <2>6. QED
      BY <1>2, <2>1, <2>2, <2>5
  <1>6. 0 <= x /\ x < y /\ y < 57600 /\ y - x = q - p
    BY <1>1, <1>2, <1>3
  <1>7. PICK g \in Int : /\ g = y - x /\ g <= Cron!max_interval_minutes(c, Cron!Window)
                        /\ Cron!max_interval_minutes(c, Cron!Window) \in Int
    <2>1. Gap(c, x, y)
      BY <1>4, <1>6, GapIs
    <2>2. QED
      BY <1>5, <1>6, <2>1 DEF Gap
  <1>8. QED
    BY <1>6, <1>7

\* A loop that answers in time is never stale.
LEMMA NeverStale ==
    ASSUME NEW f, Expression(f), AnyDate(f), Cron!parse(f) # None, NEW now \in Int
    PROVE  Cron!OnTimeNeverStale(f, now)
  <1>1. PICK c : c = Cron!parse(f)
    OBVIOUS
  <1>2. Parsed(c, f) /\ Timed(c) /\ c.dow # {} /\ c.dow \subseteq 0 .. 6
    BY <1>1, ParseIs, ParsedValid, ParsedTimed
  <1>3. Come(c, 7)
    <2>1. \A d \in Int : Cron!DayMatches(c, d) <=> (c.dow_restricted => Cron!WeekDay(d) \in c.dow)
      <3>1. ~c.dom_restricted
        BY <1>2 DEF AnyDate, Parsed
      <3>2. QED
        BY <1>2, <3>1, AnyMonth DEF AnyDate
    <2>2. PICK w \in 0 .. 6 : w \in c.dow
      BY <1>2
    <2>3. \A d \in Int : \E k \in 1 .. 7 : (3 + (d + k)) % 7 = w
      OBVIOUS
    <2>4. QED
      BY <2>1, <2>2, <2>3 DEF Come, Cron!WeekDay
  <1>4. \A t \in Int : Last(c, t, Cron!CronPrevious(c, t, 120)) /\ First(c, t, Cron!CronNext(c, t, 120))
    <2> SUFFICES ASSUME NEW t \in Int
                 PROVE  Last(c, t, Cron!CronPrevious(c, t, 120)) /\ First(c, t, Cron!CronNext(c, t, 120))
      OBVIOUS
    <2>1. PICK n \in Nat, l \in Nat : n = 7 /\ l = 120 /\ n <= l
      OBVIOUS
    <2>2. QED
      BY <1>2, <1>3, <2>1, Found
  <1>5. PICK last : last = Cron!CronPrevious(c, now, 120) /\ Last(c, now, last)
    BY <1>4
  <1>6. PICK next : First(c, now, next)
    BY <1>4
  <1>7. last \in Int /\ next \in Int /\ now < next /\ Hit(c, last)
    BY <1>5, <1>6 DEF Last, First
  <1>8. PICK i \in Int : i = last - 1
    BY <1>7
  <1>9. PICK prior : prior = Cron!CronPrevious(c, i, 120) /\ Last(c, i, prior)
    BY <1>4
  <1>10. First(c, i, last)
    BY <1>7, <1>8 DEF First
  <1>11. next - last <= 7 * 1440 /\ First(c, last, next)
    BY <1>2, <1>3, <1>5, <1>6, GapAtMost
  <1>12. last - prior <= 7 * 1440 /\ First(c, prior, last)
    BY <1>2, <1>3, <1>9, <1>10, GapAtMost
  <1>13. prior \in Int /\ Hit(c, prior)
    BY <1>9 DEF Last
  <1>14. /\ next - last <= Cron!max_interval_minutes(c, Cron!Window)
         /\ Cron!max_interval_minutes(c, Cron!Window) \in Int
    BY <1>2, <1>7, <1>11, WeeklyGap
  <1>15. last - prior <= Cron!max_interval_minutes(c, Cron!Window)
    BY <1>2, <1>7, <1>12, <1>13, WeeklyGap
  <1>16. now - prior <= Cron!stale_after_minutes(c)
    BY <1>7, <1>13, <1>14, <1>15 DEF Cron!stale_after_minutes
  <1>17. QED
    BY <1>1, <1>5, <1>8, <1>9, <1>16 DEF Cron!OnTimeNeverStale

\* A minute that fires in an hour that fires is less than an hour from another such minute.
LEMMA OneMinute ==
    ASSUME NEW c, Timed(c), NEW d \in 0 .. 39, Cron!DayMatches(c, d),
           Cron!min_interval_minutes(c, Cron!Window) >= 60
    PROVE  \A m, n \in c.minute : m = n
  <1> SUFFICES ASSUME NEW m \in c.minute, NEW n \in c.minute, m < n PROVE FALSE
    BY DEF Timed
  <1>1. PICK h \in c.hour : h \in 0 .. 23
    BY DEF Timed
  <1>2. m \in 0 .. 59 /\ n \in 0 .. 59
    BY DEF Timed
  <1>3. PICK p \in Int, q \in Int : p = d * 1440 + h * 60 + m /\ q = d * 1440 + h * 60 + n
    BY <1>1, <1>2
  <1>4. Hit(c, p) /\ Hit(c, q)
    BY <1>3, HitAt
  <1>5. 0 <= p /\ p < q /\ q < 57600 /\ q - p < 60
    BY <1>1, <1>2, <1>3
  <1>6. PICK g \in Int : /\ g <= q - p /\ Cron!min_interval_minutes(c, Cron!Window) <= g
                        /\ Cron!min_interval_minutes(c, Cron!Window) \in Int
    <2>1. Gap(c, p, q)
      BY <1>4, <1>5, GapIs
    <2>2. QED
      BY <2>1 DEF Gap
  <1>7. QED
    BY <1>5, <1>6

\* Every expression of any month fires within a quarter, and within the forty days.
LEMMA AlwaysComes ==
    ASSUME NEW f, Expression(f), f.month = All, NEW c, Parsed(c, f), Valid(f)
    PROVE  Come(c, 92) /\ \E d \in 0 .. 39 : Cron!DayMatches(c, d)
  <1>1. \A d \in Int : Cron!DayMatches(c, d) <=>
             IF c.dom_restricted /\ c.dow_restricted
             THEN Dom(d) \in c.dom \/ Cron!WeekDay(d) \in c.dow
             ELSE /\ c.dom_restricted => Dom(d) \in c.dom
                  /\ c.dow_restricted => Cron!WeekDay(d) \in c.dow
    BY AnyMonth DEF All
  <1>2. c.dow # {} /\ c.dow \subseteq 0 .. 6 /\ c.dom # {} /\ c.dom \subseteq 1 .. 31
    BY ParsedTimed
  <1>3. CASE c.dom_restricted
    <2>1. PICK v \in 1 .. 31 : v \in c.dom
      BY <1>2
    <2>2. \A d \in Int : Dom(d) = v => Cron!DayMatches(c, d)
      BY <1>1, <1>3, <2>1
    <2>3. \A d \in Int : \E k \in 1 .. 92 : Dom(d + k) = v
      BY AnyDayComes DEF In
    <2>4. \E d \in 0 .. 39 : Dom(d) = v
      <3>1. PICK d \in 0 .. 39 : d = v - 1 /\ d % 365 = 0 + v - 1
        OBVIOUS
      <3>2. Has(1, v, 0)
        BY HasOne, Months
      <3>3. Dom(d) = v
        BY <3>1, <3>2, DateOf
      <3>4. QED
        BY <3>3
    <2>5. QED
      BY <2>2, <2>3, <2>4 DEF Come
  <1>4. CASE ~c.dom_restricted
    <2>1. PICK w \in 0 .. 6 : w \in c.dow
      BY <1>2
    <2>2. \A d \in Int : (3 + d) % 7 = w => Cron!DayMatches(c, d)
      BY <1>1, <1>4, <2>1 DEF Cron!WeekDay
    <2>3. \A d \in Int : \E k \in 1 .. 92 : (3 + (d + k)) % 7 = w
      <3>1. \A d \in Int : \E k \in 1 .. 7 : (3 + (d + k)) % 7 = w
        OBVIOUS
      <3>2. QED
        BY <3>1
    <2>4. \E d \in 0 .. 39 : (3 + d) % 7 = w
      OBVIOUS
    <2>5. QED
      BY <2>2, <2>3, <2>4 DEF Come
  <1>5. QED
    BY <1>3, <1>4

\* An accepted cron keeps its tier's floor on every later day.
LEMMA FloorAlways ==
    ASSUME NEW f, Expression(f), f.month = All, NEW tier \in {"cloud", "local", "session"},
           NEW now \in Int, None \notin Int
    PROVE  Cron!FloorHolds(tier, f, now)
  <1> SUFFICES ASSUME Cron!ValidSchedule(tier, f) PROVE Cron!FloorHolds(tier, f, now)
    BY DEF Cron!FloorHolds
  <1>1. PICK c : c = Cron!parse(f)
    OBVIOUS
  <1>2. Cron!parse(f) # None /\ Cron!min_interval_minutes(c, Cron!Window) >= Cron!TierFloor[tier]
    BY <1>1 DEF Cron!ValidSchedule
  <1>3. Valid(f) /\ Parsed(c, f) /\ Timed(c)
    BY <1>1, <1>2, ParseIs, ParsedValid, ParsedTimed
  <1>4. Come(c, 92) /\ \E d \in 0 .. 39 : Cron!DayMatches(c, d)
    BY <1>3, AlwaysComes
  <1>5. \A t \in Int : First(c, t, Cron!CronNext(c, t, 120))
    <2> SUFFICES ASSUME NEW t \in Int PROVE First(c, t, Cron!CronNext(c, t, 120))
      OBVIOUS
    <2>1. PICK n \in Nat, l \in Nat : n = 92 /\ l = 120 /\ n <= l
      OBVIOUS
    <2>2. QED
      BY <1>3, <1>4, <2>1, Found
  <1>6. PICK p : p = Cron!CronNext(c, now, 120) /\ First(c, now, p)
    BY <1>5
  <1>7. p \in Int /\ Hit(c, p)
    BY <1>6 DEF First
  <1>8. PICK q : q = Cron!CronNext(c, p, 120) /\ First(c, p, q)
    BY <1>5, <1>7
  <1>9. q \in Int /\ Hit(c, q) /\ p < q
    BY <1>8 DEF First
  <1>10. q - p >= Cron!TierFloor[tier]
    <2>1. CASE tier = "cloud"
      <3>1. Cron!TierFloor[tier] = 60
        BY <2>1 DEF Cron!TierFloor
      <3>2. \A m, n \in c.minute : m = n
        BY <1>2, <1>3, <1>4, <3>1, OneMinute
      <3>3. PICK m \in c.minute : m \in 0 .. 59
        BY <1>3 DEF Timed
      <3>4. \A t \in Int : Hit(c, t) => t % 60 = m
        <4> SUFFICES ASSUME NEW t \in Int, Hit(c, t) PROVE t % 60 = m
          OBVIOUS
        <4>1. PICK d \in Int, h \in c.hour : t = d * 1440 + h * 60 + m
          BY <3>2 DEF Hit
        <4>2. h \in 0 .. 23
          BY <1>3 DEF Timed
        <4>3. QED
          BY <3>3, <4>1, <4>2
      <3>5. p % 60 = m /\ q % 60 = m
        BY <1>7, <1>9, <3>4
      <3>6. q - p >= 60
        BY <1>7, <1>9, <3>3, <3>5
      <3>7. QED
        BY <3>1, <3>6
    <2>2. CASE tier # "cloud"
      <3>1. Cron!TierFloor[tier] = 1
        BY <2>2 DEF Cron!TierFloor
      <3>2. QED
        BY <1>7, <1>9, <3>1
    <2>3. QED
      BY <2>1, <2>2
  <1>11. p # None /\ q # None
    BY <1>7, <1>9
  <1>12. QED
    BY <1>1, <1>6, <1>8, <1>10, <1>11, Zenon DEF Cron!FloorHolds

-----------------------------------------------------------------------------
(* The theorem *)

\* An algorithm is only ever computed on an input of its topic.
Picked == input # None => input \in Inputs(topic)

\* For every preset, slot and moment the scheduler finds the last occurrence and the next one, no
\* further apart than the preset says; the slot a loop is hashed to lies in the operator's window; a
\* loop of a weekly cron that answers each occurrence is never called stale; and the floor validate
\* measures over forty days holds between all later occurrences (scheduler.py, validate.py).
THEOREM SchedulesAreSound == Spec => []SchedulesSound
  <1>1. Init => Picked
    BY DEF Init, Picked
  <1>2. Picked /\ [Next]_vars => Picked'
    <2> SUFFICES ASSUME Picked, [Next]_vars PROVE Picked'
      OBVIOUS
    <2>1. Compute \/ UNCHANGED pure
      BY DEF Next, Pure, Registry, Promotion, Sessions, Telemetry, Secrets, vars
    <2>2. QED
      BY <2>1 DEF Picked, Compute, pure
  <1>3. Picked => SchedulesSound
    <2> SUFFICES ASSUME Picked PROVE SchedulesSound
      OBVIOUS
    <2>1. \A t : On(t) => input \in Inputs(t)
      BY DEF On, Picked
    <2>2. None \notin Int
      BY Planned
    <2>3. On("preset") => Cron!PresetNeverLost(input[1], input[2], input[3])
      <3> SUFFICES ASSUME On("preset") PROVE Cron!PresetNeverLost(input[1], input[2], input[3])
        OBVIOUS
      <3>1. PICK x, y, z : x = input[1] /\ y = input[2] /\ z = input[3]
        OBVIOUS
      <3>2. /\ x # None /\ y \in SlotType /\ z \in Int
            /\ \/ x \in [name : Named, days : Int]
               \/ x \in [name : {"every"}, days : Nat \ {0}]
        BY <2>1, <3>1, Planned, Zenon DEF SlotType, Named
      <3>3. CASE x \in [name : Named, days : Int]
        BY <2>2, <3>1, <3>2, <3>3, NamedNeverLost
      <3>4. CASE x \in [name : {"every"}, days : Nat \ {0}]
        BY <2>2, <3>1, <3>2, <3>4, IntervalNeverLost
      <3>5. QED
        BY <3>2, <3>3, <3>4
    <2>4. On("slot") => Cron!SlotInWindow(input[1], input[2], input[3])
      <3>1. On("slot") => /\ input[1] \in [minute : 0 .. 59, hour : Nat, dow : Nat, dom : Nat]
                          /\ input[2] \in {None} \cup Setting /\ input[3] \in {None} \cup Setting
        BY <2>1, Planned
      <3>2. QED
        BY <2>2, <3>1, SlotLies
    <2>5. On("stale") => Cron!OnTimeNeverStale(input[1], input[2])
      <3>1. On("stale") => /\ Expression(input[1]) /\ AnyDate(input[1]) /\ Cron!parse(input[1]) # None
                           /\ input[2] \in Int
        BY <2>1, Planned, Zenon
      <3>2. QED
        BY <3>1, NeverStale
    <2>6. On("floor") => Cron!FloorHolds(input[1], input[2], input[3])
      <3>1. On("floor") => /\ input[1] \in {"cloud", "local", "session"} /\ input[3] \in Int
                           /\ Expression(input[2]) /\ input[2].month = All
        BY <2>1, Planned, Zenon DEF All
      <3>2. QED
        BY <2>2, <3>1, FloorAlways
    <2>7. QED
      BY <2>3, <2>4, <2>5, <2>6, Zenon DEF SchedulesSound
  <1>4. QED
    BY <1>1, <1>2, <1>3, PTL DEF Spec
================================================================================
