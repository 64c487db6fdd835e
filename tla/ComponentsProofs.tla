--------------------------- MODULE ComponentsProofs ---------------------------
(***************************************************************************)
(* Proofs about Components, for any projects, loops, skills, sessions,     *)
(* collectors, days, hosts and keys, and any inputs of the algorithms that *)
(* the assumptions of Components admit.  Each part has an inductive        *)
(* invariant that its own steps keep; the last section puts them together. *)
(***************************************************************************)
EXTENDS Components, FiniteSetTheorems, SequenceTheorems, WellFoundedInduction, TLAPS

-----------------------------------------------------------------------------
(* Sums over finite sets *)

\* Some element: the one the community modules' folds take first.
Any(s) == CHOOSE x \in s : TRUE
\* g adds F over the subsets of S, by recursion.
Adds(F, S, g) == g = [s \in SUBSET S |-> IF s = {} THEN 0 ELSE F[Any(s)] + g[s \ {Any(s)}]]
\* The sum of F over S.
Sum(F, S) == (CHOOSE g : Adds(F, S, g))[S]

\* A fold of the community modules that adds is Sum.
LEMMA SameSum == ASSUME NEW F, NEW S PROVE L!MapThenSumSet(LAMBDA x : F[x], S) = Sum(F, S)
  BY DEF L!MapThenSumSet, L!MapThenFoldSet, Sum, Adds, Any

\* The telemetry's own sum over days is the Sum of the daily rows.
LEMMA SameSum2 == ASSUME NEW S PROVE L!SumOver(S) = Sum(daily, S)
  BY DEF L!SumOver, L!MapThenSumSet, L!MapThenFoldSet, Sum, Adds, Any

\* Of some subsets of a finite set, one is minimal.
LEMMA Minimal ==
    ASSUME NEW S, IsFiniteSet(S), NEW C \in SUBSET SUBSET S, C # {}
    PROVE  \E s \in C : \A t \in C : t \subseteq s => t = s
  <1>1. C \subseteq FiniteSubsetsOf(S)
    <2>1. \A t \in SUBSET S : IsFiniteSet(t)
      BY FS_Subset
    <2>2. QED
      BY <2>1 DEF FiniteSubsetsOf
  <1>2. IsWellFoundedOn(StrictSubsetOrdering(S), FiniteSubsetsOf(S))
    BY FS_StrictSubsetOrderingWellFounded, Zenon
  <1>3. PICK s \in C : \A t \in C : <<t, s>> \notin StrictSubsetOrdering(S)
    BY <1>1, <1>2, WFMin, Zenon
  <1>4. \A t \in C : t \subseteq s => t = s
    BY <1>3 DEF StrictSubsetOrdering
  <1>5. QED
    BY <1>4

\* A set that has an element has the one chosen.
LEMMA AnyIn == ASSUME NEW s, s # {} PROVE Any(s) \in s
  BY DEF Any

\* The recursive function that adds the elements of S is determined by S.
LEMMA AddsOnce ==
    ASSUME NEW F, NEW S, IsFiniteSet(S), NEW T \in SUBSET S, NEW g, NEW h,
           Adds(F, S, g), Adds(F, T, h)
    PROVE  \A s \in SUBSET T : g[s] = h[s]
  <1> DEFINE C == {s \in SUBSET T : g[s] # h[s]}
  <1>1. CASE C = {}
    BY <1>1
  <1>2. CASE C # {}
    <2>1. C \in SUBSET SUBSET S
      OBVIOUS
    <2> HIDE DEF C
    <2>2. PICK s \in C : \A t \in C : t \subseteq s => t = s
      BY <1>2, <2>1, Minimal
    <2>3. s \in SUBSET T /\ g[s] # h[s]
      BY DEF C
    <2>4. /\ g[s] = IF s = {} THEN 0 ELSE F[Any(s)] + g[s \ {Any(s)}]
          /\ h[s] = IF s = {} THEN 0 ELSE F[Any(s)] + h[s \ {Any(s)}]
      BY <2>3, Zenon DEF Adds
    <2>5. s # {}
      BY <2>3, <2>4
    <2>6. s \ {Any(s)} \notin C
      BY <2>2, <2>5, AnyIn
    <2>7. g[s \ {Any(s)}] = h[s \ {Any(s)}]
      BY <2>6, <2>3 DEF C
    <2>8. QED
      BY <2>3, <2>4, <2>5, <2>7
  <1>3. QED
    BY <1>1, <1>2

\* There is such a function: the definition of Sum by recursion on the subsets is sound.
LEMMA AddsSome ==
    ASSUME NEW F, NEW S, IsFiniteSet(S)
    PROVE  \E g : Adds(F, S, g)
  <1> DEFINE C == {s \in SUBSET S : ~ \E g : Adds(F, s, g)}
  <1>1. CASE C = {}
    BY <1>1
  <1>2. CASE C # {}
    <2>1. C \in SUBSET SUBSET S
      OBVIOUS
    <2> HIDE DEF C
    <2>2. PICK s \in C : \A t \in C : t \subseteq s => t = s
      BY <1>2, <2>1, Minimal
    <2>3. s \in SUBSET S /\ ~ \E g : Adds(F, s, g)
      BY DEF C
    <2> DEFINE J(t) == CHOOSE g : Adds(F, t, g)
               h == [t \in SUBSET s |-> IF t = {} THEN 0 ELSE F[Any(t)] + J(t \ {Any(t)})[t \ {Any(t)}]]
    <2>4. \A t \in SUBSET s : t # s => Adds(F, t, J(t))
      <3> TAKE t \in SUBSET s
      <3> HAVE t # s
      <3>1. t \notin C
        BY <2>2
      <3>2. \E g : Adds(F, t, g)
        BY <3>1, <2>3 DEF C
      <3>3. QED
        BY <3>2
    <2>5a. s # {}
      <3>1. Adds(F, {}, [t \in {{}} |-> 0])
        BY DEF Adds
      <3>2. QED
        BY <3>1, <2>3
    <2>5. \A t \in SUBSET s : t # s => h[t] = J(t)[t]
      <3> TAKE t \in SUBSET s
      <3> HAVE t # s
      <3>1. CASE t = {}
        <4>1. Adds(F, t, J(t))
          BY <2>4, <3>1, <2>5a
        <4> HIDE DEF J
        <4>2. J(t)[t] = 0
          BY <4>1, <3>1 DEF Adds
        <4>3. QED
          BY <4>2, <3>1
      <3>2. CASE t # {}
        <4> DEFINE u == t \ {Any(t)}
        <4>1. u \in SUBSET t /\ u # t /\ u \in SUBSET s /\ u # s
          BY <3>2, AnyIn
        <4>2. Adds(F, t, J(t)) /\ Adds(F, u, J(u))
          BY <2>4, <4>1
        <4>3. IsFiniteSet(t)
          BY FS_Subset, <2>3
        <4> HIDE DEF J
        <4>4. J(t)[u] = J(u)[u]
          BY <4>1, <4>2, <4>3, AddsOnce
        <4>5. J(t)[t] = F[Any(t)] + J(t)[u]
          BY <4>2, <3>2, Zenon DEF Adds
        <4>6. h[t] = F[Any(t)] + J(u)[u]
          BY <3>2
        <4>7. QED
          BY <4>4, <4>5, <4>6
      <3>3. QED
        BY <3>1, <3>2
    <2>6. \A t \in SUBSET s : t # {} => h[t] = F[Any(t)] + h[t \ {Any(t)}]
      <3> TAKE t \in SUBSET s
      <3> HAVE t # {}
      <3> DEFINE u == t \ {Any(t)}
      <3>1. u \in SUBSET s /\ u # s
        BY AnyIn
      <3>2. h[u] = J(u)[u]
        BY <2>5, <3>1
      <3> HIDE DEF J
      <3>3. h[t] = F[Any(t)] + J(u)[u]
        OBVIOUS
      <3> HIDE DEF h, u
      <3>4. QED
        BY <3>2, <3>3 DEF u
    <2>7. h[{}] = 0
      OBVIOUS
    <2>8. h = [t \in SUBSET s |-> h[t]]
      OBVIOUS
    <2> HIDE DEF h
    <2>9. h = [t \in SUBSET s |-> IF t = {} THEN 0 ELSE F[Any(t)] + h[t \ {Any(t)}]]
      BY <2>6, <2>7, <2>8
    <2>10. Adds(F, s, h)
      BY <2>9 DEF Adds
    <2>11. QED
      BY <2>10, <2>3
  <1>3. QED
    BY <1>1, <1>2

\* The equation of Sum: the element chosen is added to the sum of the others.
LEMMA SumStep ==
    ASSUME NEW F, NEW S, IsFiniteSet(S)
    PROVE  Sum(F, S) = IF S = {} THEN 0 ELSE F[Any(S)] + Sum(F, S \ {Any(S)})
  <1> DEFINE J(t) == CHOOSE g : Adds(F, t, g)
  <1>1. \A t \in SUBSET S : Adds(F, t, J(t))
    <2> TAKE t \in SUBSET S
    <2>1. IsFiniteSet(t)
      BY FS_Subset
    <2>2. QED
      BY <2>1, AddsSome
  <1> DEFINE u == S \ {Any(S)}
  <1>2. Adds(F, S, J(S)) /\ Adds(F, u, J(u)) /\ u \in SUBSET S
    BY <1>1
  <1>3. Sum(F, S) = J(S)[S] /\ Sum(F, u) = J(u)[u]
    BY DEF Sum
  <1> HIDE DEF J, u
  <1>4. J(S)[u] = J(u)[u]
    BY <1>2, AddsOnce
  <1>5. J(S)[S] = IF S = {} THEN 0 ELSE F[Any(S)] + J(S)[u]
    BY <1>2, Zenon DEF Adds, u
  <1>6. QED
    BY <1>3, <1>4, <1>5 DEF u

\* A sum of naturals is a natural.
LEMMA SumNat ==
    ASSUME NEW F, NEW S, IsFiniteSet(S), \A x \in S : F[x] \in Nat
    PROVE  Sum(F, S) \in Nat
  <1> DEFINE C == {s \in SUBSET S : Sum(F, s) \notin Nat}
  <1>1. CASE C = {}
    BY <1>1
  <1>2. CASE C # {}
    <2>1. C \in SUBSET SUBSET S
      OBVIOUS
    <2> HIDE DEF C
    <2>2. PICK s \in C : \A t \in C : t \subseteq s => t = s
      BY <1>2, <2>1, Minimal
    <2>3. s \in SUBSET S /\ Sum(F, s) \notin Nat /\ IsFiniteSet(s)
      BY FS_Subset DEF C
    <2>4. Sum(F, s) = IF s = {} THEN 0 ELSE F[Any(s)] + Sum(F, s \ {Any(s)})
      BY <2>3, SumStep
    <2>5. s # {} /\ Any(s) \in s
      BY <2>3, <2>4, AnyIn
    <2>6. s \ {Any(s)} \notin C
      BY <2>2, <2>5
    <2>7. QED
      BY <2>3, <2>4, <2>5, <2>6 DEF C
  <1>3. QED
    BY <1>1, <1>2

\* The order in which a set is summed up does not matter.
LEMMA SumWithout ==
    ASSUME NEW F, NEW S, IsFiniteSet(S), \A x \in S : F[x] \in Nat
    PROVE  \A x \in S : Sum(F, S) = F[x] + Sum(F, S \ {x})
  <1> DEFINE C == {s \in SUBSET S : \E x \in s : Sum(F, s) # F[x] + Sum(F, s \ {x})}
  <1>1. CASE C = {}
    BY <1>1
  <1>2. CASE C # {}
    <2>1. C \in SUBSET SUBSET S
      OBVIOUS
    <2> HIDE DEF C
    <2>2. PICK s \in C : \A t \in C : t \subseteq s => t = s
      BY <1>2, <2>1, Minimal
    <2>3. PICK x \in s : s \in SUBSET S /\ Sum(F, s) # F[x] + Sum(F, s \ {x})
      BY DEF C
    <2>4. \A t \in SUBSET s : IsFiniteSet(t) /\ Sum(F, t) \in Nat
      BY <2>3, FS_Subset, SumNat
    <2> DEFINE y == Any(s)
    <2>5. y \in s
      BY <2>3, AnyIn
    <2>6. Sum(F, s) = F[y] + Sum(F, s \ {y})
      BY <2>3, <2>4, SumStep
    <2> HIDE DEF y
    <2>7. y # x
      BY <2>3, <2>6
    <2>8. s \ {y} \notin C /\ s \ {x} \notin C
      BY <2>2, <2>3, <2>5
    <2>9. Sum(F, s \ {y}) = F[x] + Sum(F, (s \ {y}) \ {x})
      BY <2>3, <2>7, <2>8 DEF C
    <2>10. Sum(F, s \ {x}) = F[y] + Sum(F, (s \ {x}) \ {y})
      BY <2>3, <2>5, <2>7, <2>8 DEF C
    <2>11. (s \ {y}) \ {x} = (s \ {x}) \ {y}
      OBVIOUS
    <2>12. Sum(F, (s \ {x}) \ {y}) \in Nat /\ F[x] \in Nat /\ F[y] \in Nat
      BY <2>3, <2>4, <2>5
    <2> DEFINE rest == Sum(F, (s \ {x}) \ {y})
    <2> HIDE DEF rest
    <2>13. Sum(F, s) = F[y] + (F[x] + rest) /\ Sum(F, s \ {x}) = F[y] + rest
      BY <2>6, <2>9, <2>10, <2>11 DEF rest
    <2>14. rest \in Nat
      BY <2>12 DEF rest
    <2>15. Sum(F, s) = F[x] + Sum(F, s \ {x})
      BY <2>12, <2>13, <2>14
    <2>16. QED
      BY <2>3, <2>15
  <1>3. QED
    BY <1>1, <1>2

\* A sum over more, of no less, is no less.
LEMMA SumMono ==
    ASSUME NEW F, NEW J, NEW T, IsFiniteSet(T), NEW S \in SUBSET T,
           \A x \in S : F[x] \in Nat /\ F[x] <= J[x], \A x \in T : J[x] \in Nat
    PROVE  Sum(F, S) <= Sum(J, T)
  <1> DEFINE C == {t \in SUBSET T : ~(Sum(F, t \cap S) <= Sum(J, t))}
  <1>1. CASE C = {}
    <2>1. T \cap S = S
      OBVIOUS
    <2>2. QED
      BY <1>1, <2>1
  <1>2. CASE C # {}
    <2>1. C \in SUBSET SUBSET T
      OBVIOUS
    <2> HIDE DEF C
    <2>2. PICK t \in C : \A u \in C : u \subseteq t => u = t
      BY <1>2, <2>1, Minimal
    <2>3. t \in SUBSET T /\ ~(Sum(F, t \cap S) <= Sum(J, t))
      BY DEF C
    <2>4. \A u \in SUBSET T : IsFiniteSet(u) /\ Sum(J, u) \in Nat
      BY FS_Subset, SumNat
    <2>5. \A u \in SUBSET S : Sum(F, u) \in Nat /\ IsFiniteSet(u)
      BY FS_Subset, SumNat
    <2>6. t # {}
      <3>1. Sum(F, {}) = 0 /\ Sum(J, {}) = 0
        BY SumStep, FS_EmptySet
      <3>2. QED
        BY <2>3, <3>1
    <2> DEFINE x == Any(t)  u == t \ {Any(t)}
    <2>7. x \in t
      BY <2>6, AnyIn
    <2>8. Sum(J, t) = J[x] + Sum(J, u)
      BY <2>3, <2>4, <2>6, SumStep
    <2>9. u \notin C /\ u \in SUBSET T
      BY <2>2, <2>3, <2>7
    <2>u. u = t \ {x}
      OBVIOUS
    <2> HIDE DEF x, u
    <2>10. Sum(F, u \cap S) <= Sum(J, u)
      BY <2>9 DEF C
    <2>11. CASE x \in S
      <3>1. (t \cap S) \ {x} = u \cap S /\ t \cap S \in SUBSET S /\ u \cap S \in SUBSET S /\ x \in t \cap S
        BY <2>7, <2>11, <2>u
      <3>2. Sum(F, t \cap S) = F[x] + Sum(F, (t \cap S) \ {x})
        BY <2>5, <3>1, SumWithout
      <3>3. F[x] \in Nat /\ J[x] \in Nat /\ F[x] <= J[x] /\ Sum(F, u \cap S) \in Nat /\ Sum(J, u) \in Nat
        BY <2>3, <2>4, <2>5, <2>7, <2>9, <2>11, <3>1
      <3>4. Sum(F, t \cap S) = F[x] + Sum(F, u \cap S)
        BY <3>1, <3>2
      <3>5. Sum(F, t \cap S) <= Sum(J, t)
        BY <2>8, <2>10, <3>3, <3>4
      <3>6. QED
        BY <2>3, <3>5
    <2>12. CASE x \notin S
      <3>1. t \cap S = u \cap S /\ u \cap S \in SUBSET S
        BY <2>12, <2>u
      <3>2. J[x] \in Nat /\ Sum(F, u \cap S) \in Nat /\ Sum(J, u) \in Nat
        BY <2>3, <2>4, <2>5, <2>7, <2>9, <3>1
      <3>3. Sum(F, u \cap S) <= Sum(J, t)
        BY <2>8, <2>10, <3>2
      <3>4. QED
        BY <2>3, <3>1, <3>3
    <2>13. QED
      BY <2>11, <2>12
  <1>3. QED
    BY <1>1, <1>2

\* No summand exceeds the sum.
LEMMA SumOfOne ==
    ASSUME NEW F, NEW S, IsFiniteSet(S), \A x \in S : F[x] \in Nat
    PROVE  \A x \in S : F[x] <= Sum(F, S)
  <1> TAKE x \in S
  <1>1. Sum(F, S) = F[x] + Sum(F, S \ {x})
    BY SumWithout
  <1>2. Sum(F, S \ {x}) \in Nat /\ F[x] \in Nat
    BY FS_Subset, SumNat
  <1>3. QED
    BY <1>1, <1>2

\* A set of numbers has a least one.
LEMMA Least ==
    ASSUME NEW S \in SUBSET Nat, S # {}
    PROVE  \E x \in S : \A y \in S : x <= y
  <1>1. PICK x \in S : \A y \in S : <<y, x>> \notin OpToRel(<, Nat)
    BY WFMin, NatLessThanWellFounded, Zenon
  <1>2. \A y \in S : ~(y < x)
    BY <1>1, Zenon DEF OpToRel
  <1>3. \A y \in S : x <= y
    BY <1>2
  <1>4. QED
    BY <1>3

-----------------------------------------------------------------------------
(* Telemetry *)

\* The days of a month.
DaysOf(m) == {d \in Dates : MonthOf[d] = m}

\* A row of a day that was received.
Earned(row, d) == row \in Nat /\ row <= received[d]

\* A row that counts no more than was received, in the spool, under way in a drain, in the daily
\* and in the monthly table.
TelemetryInv ==
    /\ L!TypeOK
    /\ DOMAIN draining = Collector
    /\ \A d \in Dates : spool[d] <= received[d]
    /\ \A c \in Collector : \A d \in DOMAIN draining[c] : Earned(draining[c][d], d)
    /\ \A d \in DOMAIN daily : Earned(daily[d], d)
    /\ \A m \in DOMAIN monthly : monthly[m] <= Sum(received, DaysOf(m))
    /\ \A m \in DOMAIN monthly : monthly[m] \in Nat

\* The invariant gives the property: totals that add up to less than was received.
LEMMA TelemetryEarned == TelemetryInv => TotalsEarned
  <1> SUFFICES ASSUME TelemetryInv PROVE L!NeverOvercounted
    BY DEF TelemetryInv, TotalsEarned
  <1>1. \A m : L!MapThenSumSet(LAMBDA d : received[d], {d \in Dates : MonthOf[d] = m}) = Sum(received, DaysOf(m))
    BY SameSum DEF DaysOf
  <1>2. QED
    BY <1>1 DEF TelemetryInv, L!NeverOvercounted, Earned

\* The empty tables satisfy the invariant.
LEMMA TelemetryStarts == L!Init => TelemetryInv
  <1>1. L!Min(Dates) \in Dates
    BY Least, Calendar DEF L!Min
  <1>2. MaxPoints \in Nat
    BY Bounds
  <1>3. QED
    BY <1>1, <1>2 DEF L!Init, TelemetryInv, L!TypeOK, L!NoRows, Earned

\* More received, more allowed.
LEMMA ReceivedGrows ==
    ASSUME TelemetryInv, L!TypeOK', \A d \in Dates : received[d] <= received'[d]
    PROVE  \A m : Sum(received, DaysOf(m)) \in Nat /\ Sum(received', DaysOf(m)) \in Nat
                    /\ Sum(received, DaysOf(m)) <= Sum(received', DaysOf(m))
  <1> TAKE m
  <1>1. IsFiniteSet(DaysOf(m)) /\ DaysOf(m) \subseteq Dates
    BY FS_Subset, Calendar DEF DaysOf
  <1>2. \A d \in DaysOf(m) : received[d] \in Nat /\ received'[d] \in Nat /\ received[d] <= received'[d]
    BY <1>1, Bounds DEF TelemetryInv, L!TypeOK
  <1>3. QED
    BY <1>1, <1>2, SumMono, SumNat

\* Every step of the telemetry keeps the invariant: points, days, drains, collapses and prunes.
LEMMA TelemetryStep ==
    ASSUME TelemetryInv, L!Next PROVE TelemetryInv'
  <1> USE DEF TelemetryInv, L!TypeOK, Earned
  <1>0. MaxPoints \in Nat /\ Dates \subseteq Nat
    BY Bounds, Calendar
  <1>1. CASE L!append_spool
    <2>a. /\ today \in Dates /\ received[today] \in 0 .. MaxPoints - 1 /\ spool[today] \in 0 .. MaxPoints - 1
          /\ spool' = [spool EXCEPT ![today] = @ + 1] /\ received' = [received EXCEPT ![today] = @ + 1]
          /\ UNCHANGED <<today, daily, monthly, draining>>
      BY <1>0, <1>1 DEF L!append_spool
    <2>b. spool' \in [Dates -> 0 .. MaxPoints] /\ received' \in [Dates -> 0 .. MaxPoints]
      BY <1>0, <2>a
    <2>1. L!TypeOK' /\ \A d \in Dates : received[d] <= received'[d]
      BY <1>0, <2>a, <2>b DEF L!Month
    <2>2. \A m \in DOMAIN monthly' : monthly'[m] <= Sum(received', DaysOf(m))
      <3> TAKE m \in DOMAIN monthly'
      <3>1. monthly'[m] \in Nat /\ monthly'[m] <= Sum(received, DaysOf(m))
        BY <2>a
      <3>2. Sum(received, DaysOf(m)) \in Nat /\ Sum(received', DaysOf(m)) \in Nat
              /\ Sum(received, DaysOf(m)) <= Sum(received', DaysOf(m))
        BY <2>1, ReceivedGrows
      <3>3. QED
        BY <3>1, <3>2
    <2>3. \A d \in Dates : spool'[d] <= received'[d]
      BY <1>0, <2>a
    <2>4. \A d \in Dates : received[d] \in Nat /\ received'[d] \in Nat /\ received[d] <= received'[d]
      BY <1>0, <2>1, <2>b
    <2>5. \A d \in Dates : \A row : Earned(row, d) => Earned(row, d)'
      BY <2>4
    <2>6. QED
      BY <2>a, <2>1, <2>2, <2>3, <2>5
  <1>2. CASE L!NextDay
    BY <1>2 DEF L!NextDay
  <1>3. CASE L!aggregate_telemetry
    <2>1. L!Old \subseteq DOMAIN daily
      BY DEF L!Old
    <2> DEFINE At(m) == {d \in L!Old : MonthOf[d] = m}
    <2>2. \A m : L!SumOver(At(m)) \in Nat /\ L!SumOver(At(m)) <= Sum(received, DaysOf(m))
      <3> TAKE m
      <3>1. L!SumOver(At(m)) = Sum(daily, At(m))
        BY SameSum2
      <3>2. At(m) \in SUBSET DaysOf(m) /\ IsFiniteSet(DaysOf(m)) /\ IsFiniteSet(At(m))
        BY <2>1, FS_Subset, Calendar DEF DaysOf
      <3>3. \A d \in At(m) : daily[d] \in Nat /\ daily[d] <= received[d]
        BY <2>1
      <3>4. \A d \in DaysOf(m) : received[d] \in Nat
        BY <1>0 DEF DaysOf
      <3>5. QED
        BY <3>1, <3>2, <3>3, <3>4, SumMono, SumNat
    <2> HIDE DEF At
    <2>3. monthly' = L!Upsert(monthly, [m \in {MonthOf[d] : d \in L!Old} |-> L!SumOver(At(m))])
      BY <1>3 DEF L!aggregate_telemetry, At
    <2>4. /\ DOMAIN monthly' \subseteq L!Month
          /\ \A m \in DOMAIN monthly' : monthly'[m] \in Nat /\ monthly'[m] <= Sum(received, DaysOf(m))
      BY <2>1, <2>2, <2>3 DEF L!Upsert, L!Month
    <2>5. daily' = L!Restrict(daily, DOMAIN daily \ L!Old) /\ received' = received
            /\ UNCHANGED <<today, spool, draining>>
      BY <1>3 DEF L!aggregate_telemetry
    <2>6. DOMAIN daily' \subseteq DOMAIN daily /\ \A d \in DOMAIN daily' : daily'[d] = daily[d]
      BY <2>5 DEF L!Restrict
    <2>7. QED
      BY <2>4, <2>5, <2>6 DEF L!Month
  <1>4. CASE L!prune_spool
    BY <1>0, <1>4 DEF L!prune_spool
  <1>5. ASSUME NEW c \in Collector, L!ReadSpool(c) PROVE TelemetryInv'
    <2> DEFINE totals == [d \in {x \in Dates : spool[x] > 0} |-> spool[d]]
    <2>0. draining' = [draining EXCEPT ![c] = totals]
      BY <1>5 DEF L!ReadSpool, L!Restrict
    <2>t. /\ DOMAIN totals \subseteq Dates
          /\ \A d \in DOMAIN totals : Earned(totals[d], d)
      BY <1>0
    <2> HIDE DEF totals
    <2>1. \A b \in Collector : draining'[b] = draining[b] \/ draining'[b] = totals
      BY <2>0
    <2>2. \A b \in Collector : DOMAIN draining'[b] \subseteq Dates
                                /\ \A d \in DOMAIN draining'[b] : Earned(draining'[b][d], d)
      BY <1>5, <2>1, <2>t DEF L!ReadSpool
    <2>3. DOMAIN draining' = Collector /\ UNCHANGED <<today, spool, received, daily, monthly>>
      BY <1>5 DEF L!ReadSpool
    <2>4. QED
      BY <2>2, <2>3 DEF L!Month
  <1>6. ASSUME NEW c \in Collector, L!WriteRows(c) PROVE TelemetryInv'
    <2>1. /\ DOMAIN daily' \subseteq Dates
          /\ \A d \in DOMAIN daily' : Earned(daily'[d], d)
      BY <1>6 DEF L!WriteRows, L!Upsert
    <2>2. \A b \in Collector : draining'[b] = draining[b] \/ draining'[b] = <<>>
      BY <1>6 DEF L!WriteRows, L!NoRows
    <2>3. DOMAIN draining' = Collector /\ UNCHANGED <<today, spool, received, monthly>>
      BY <1>6 DEF L!WriteRows
    <2>4. QED
      BY <2>1, <2>2, <2>3 DEF L!Month
  <1>7. QED
    BY <1>1, <1>2, <1>3, <1>4, <1>5, <1>6 DEF L!Next

-----------------------------------------------------------------------------
(* Secrets *)

\* The value a worktree's .env should have, written out.
Resolved(k, p, h) ==
    IF store[<<"project", p>>][k] > 0 THEN <<<<"project", p>>, store[<<"project", p>>][k]>>
    ELSE IF store[<<"host", h>>][k] > 0 THEN <<<<"host", h>>, store[<<"host", h>>][k]>>
    ELSE IF store[<<"default", 0>>][k] > 0 THEN <<<<"default", 0>>, store[<<"default", 0>>][k]>>
    ELSE E!Missing

\* The worktree's .env has the value that resolution finds, for each key the project asks for.
Current(w) ==
    \A k \in Projects[w[2]].keys : Resolved(k, w[2], w[1]) # E!Missing =>
        k \in DOMAIN env[w[1]][w[2]] /\ env[w[1]][w[2]][k] = Resolved(k, w[2], w[1])

\* The running command has still to push to the worktree.
Due(w) == w[1] = pushes.host /\ w[2] \in pushes.left

\* A worktree is current, or its push is due, or it is among the stale.
SecretsInv ==
    /\ E!TypeOK
    /\ pushes \in [host : Host \cup {0}, left : SUBSET E!Project]
    /\ \A p \in pushes.left : <<pushes.host, p>> \in E!Worktrees
    /\ DOMAIN env = Host /\ \A h \in Host : DOMAIN env[h] = E!Project
    /\ \A w \in E!Worktrees \ stale : Current(w) \/ Due(w)

\* What is missing differs from every value found somewhere.
LEMMA Missed == \A x, v : <<x, v>> # E!Missing
  BY DEF E!Missing

\* The first of three.
LEMMA FirstOfThree ==
    ASSUME NEW a, NEW b, NEW c, NEW k
    PROVE  E!FirstOf(<<a, b, c>>, k, {}) =
             IF store[a][k] > 0 THEN <<a, store[a][k]>>
             ELSE IF store[b][k] > 0 THEN <<b, store[b][k]>>
             ELSE IF store[c][k] > 0 THEN <<c, store[c][k]>> ELSE E!Missing
  <1> DEFINE order == <<a, b, c>>
             found == {i \in 1 .. 3 : store[order[i]][k] > 0}
  <1>1. DOMAIN order = 1 .. 3 /\ order[1] = a /\ order[2] = b /\ order[3] = c
    OBVIOUS
  <1>2. E!FirstOf(order, k, {}) =
          IF found = {} THEN E!Missing ELSE <<order[E!Min(found)], store[order[E!Min(found)]][k]>>
    BY <1>1 DEF E!FirstOf
  <1>3. /\ 1 \in found <=> store[a][k] > 0
        /\ 2 \in found <=> store[b][k] > 0
        /\ 3 \in found <=> store[c][k] > 0
        /\ \A i \in found : i \in {1, 2, 3}
    BY <1>1
  <1> HIDE DEF order, found
  <1>4. found # {} => E!Min(found) \in found /\ \A i \in found : E!Min(found) <= i
    <2>1. found \in SUBSET Nat
      BY <1>3
    <2>2. QED
      BY <2>1, Least DEF E!Min
  <1>5. CASE store[a][k] > 0
    <2>1. E!Min(found) = 1 /\ found # {}
      BY <1>3, <1>4, <1>5
    <2>2. QED
      BY <1>1, <1>2, <1>5, <2>1 DEF order
  <1>6. CASE ~(store[a][k] > 0) /\ store[b][k] > 0
    <2>1. E!Min(found) = 2 /\ found # {}
      BY <1>3, <1>4, <1>6
    <2>2. QED
      BY <1>1, <1>2, <1>6, <2>1 DEF order
  <1>7. CASE ~(store[a][k] > 0) /\ ~(store[b][k] > 0) /\ store[c][k] > 0
    <2>1. E!Min(found) = 3 /\ found # {}
      BY <1>3, <1>4, <1>7
    <2>2. QED
      BY <1>1, <1>2, <1>7, <2>1 DEF order
  <1>8. CASE ~(store[a][k] > 0) /\ ~(store[b][k] > 0) /\ ~(store[c][k] > 0)
    <2>1. found = {}
      BY <1>3, <1>8
    <2>2. QED
      BY <1>2, <1>8, <2>1 DEF order
  <1>9. QED
    BY <1>5, <1>6, <1>7, <1>8

\* The resolution of secrets.py looks at the project, then the host, then the default.
LEMMA ResolvedRight ==
    ASSUME NEW k, NEW p \in E!Project, NEW h \in Host
    PROVE  E!resolve_key(k, p, h, {}) = Resolved(k, p, h)
  <1>1. p # 0 /\ h # 0
    BY Places DEF E!Project
  <1>2. E!scoped_name(p, 0) = <<"project", p>> /\ E!scoped_name(0, h) = <<"host", h>>
          /\ E!scoped_name(0, 0) = <<"default", 0>>
    BY <1>1 DEF E!scoped_name
  <1>3. QED
    BY <1>2, FirstOfThree DEF E!resolve_key, Resolved

\* The invariant gives the property: what is neither due nor stale is current.
LEMMA SecretsCurrent == SecretsInv => EnvsCurrent
  <1> SUFFICES ASSUME SecretsInv, pushes.left = {}, NEW w \in E!Worktrees \ stale,
                      NEW k \in Projects[w[2]].keys
               PROVE  LET Holds(x) == store[x][k] > 0
                          own == <<"project", w[2]>>
                          host == <<"host", w[1]>>
                          all == <<"default", 0>>
                          Reads(x) == k \in DOMAIN env[w[1]][w[2]] /\ env[w[1]][w[2]][k] = <<x, store[x][k]>>
                      IN  /\ Holds(own) => Reads(own)
                          /\ ~Holds(own) /\ Holds(host) => Reads(host)
                          /\ ~Holds(own) /\ ~Holds(host) /\ Holds(all) => Reads(all)
    BY Zenon DEF EnvsCurrent, SecretsInv, E!EnvCurrent
  <1>1. Current(w)
    BY DEF SecretsInv, Due
  <1>2. Resolved(k, w[2], w[1]) # E!Missing =>
            k \in DOMAIN env[w[1]][w[2]] /\ env[w[1]][w[2]][k] = Resolved(k, w[2], w[1])
    BY <1>1 DEF Current
  <1>3. QED
    BY <1>2, Missed DEF Resolved

\* There are finitely many places and keys.
LEMMA PlaceFinite == IsFiniteSet(E!Place \X Key)
  <1>1. IsFiniteSet({<<"host", h>> : h \in Host})
    <2> DEFINE T == {<<"host", h>> : h \in Host}
               f == [h \in Host |-> <<"host", h>>]
    <2>1. f \in Surjection(Host, T)
      BY DEF Surjection
    <2>2. QED
      BY <2>1, FS_Surjection, Places
  <1>2. IsFiniteSet({<<"project", p>> : p \in E!Project})
    <2> DEFINE T == {<<"project", p>> : p \in E!Project}
               f == [p \in E!Project |-> <<"project", p>>]
    <2>1. f \in Surjection(E!Project, T)
      BY DEF Surjection
    <2>2. IsFiniteSet(E!Project)
      BY FS_Interval, Places DEF E!Project
    <2>3. QED
      BY <2>1, <2>2, FS_Surjection
  <1>3. IsFiniteSet({<<"default", 0>>})
    BY FS_Singleton
  <1>4. IsFiniteSet(E!Place)
    BY <1>1, <1>2, <1>3, FS_Union DEF E!Place
  <1>5. QED
    BY <1>4, FS_Product, Places

\* No place and key has been rotated more often than there were rotations.
LEMMA RotationsBound ==
    ASSUME E!TypeOK, NEW x \in E!Place, NEW k \in Key
    PROVE  store[x][k] <= E!Rotations /\ E!Rotations \in Nat
  <1> DEFINE S == E!Place \X Key
             F == [e \in S |-> store[e[1]][e[2]]]
             Counts(g) == g = [s \in SUBSET S |->
                 IF s = {} THEN 0 ELSE store[Any(s)[1]][Any(s)[2]] + g[s \ {Any(s)}]]
             c == CHOOSE g : Counts(g)
             a == CHOOSE g : Adds(F, S, g)
  <1>1. IsFiniteSet(S)
    BY PlaceFinite
  <1>2. E!Rotations = c[S]
    BY DEF E!Rotations, E!MapThenSumSet, E!MapThenFoldSet, Any
  <1>3. \A g : Counts(g) <=> Adds(F, S, g)
    <2> TAKE g
    <2>1. \A s \in SUBSET S : s # {} => F[Any(s)] = store[Any(s)[1]][Any(s)[2]]
      BY AnyIn
    <2> HIDE DEF F, S
    <2>2. [s \in SUBSET S |-> IF s = {} THEN 0 ELSE store[Any(s)[1]][Any(s)[2]] + g[s \ {Any(s)}]]
            = [s \in SUBSET S |-> IF s = {} THEN 0 ELSE F[Any(s)] + g[s \ {Any(s)}]]
      BY <2>1
    <2>3. QED
      BY <2>2 DEF Adds
  <1>4. \A e \in S : F[e] \in Nat
    BY Bounds DEF E!TypeOK
  <1>5. F[<<x, k>>] = store[x][k] /\ <<x, k>> \in S
    OBVIOUS
  <1> HIDE DEF F, S, Counts
  <1>6. \E g : Adds(F, S, g)
    BY <1>1, AddsSome
  <1>7. Adds(F, S, c) /\ Adds(F, S, a)
    BY <1>3, <1>6
  <1> HIDE DEF c
  <1>8. c[S] = a[S]
    <2> HIDE DEF a
    <2>1. QED
      BY <1>1, <1>7, AddsOnce
  <1>9. a[S] = Sum(F, S)
    BY DEF Sum
  <1>10. F[<<x, k>>] <= Sum(F, S) /\ Sum(F, S) \in Nat
    BY <1>1, <1>4, <1>5, SumOfOne, SumNat
  <1>11. QED
    BY <1>2, <1>5, <1>8, <1>9, <1>10

\* The first .env files satisfy the invariant.
LEMMA SecretsStart == E!Init => SecretsInv
  <1> SUFFICES ASSUME E!Init PROVE SecretsInv
    OBVIOUS
  <1>1. E!TypeOK
    BY Bounds DEF E!Init, E!TypeOK, E!Resting
  <1>2. \A w \in E!Worktrees \ stale : Current(w)
    <2> SUFFICES ASSUME NEW w \in E!Worktrees, NEW k \in Projects[w[2]].keys
                 PROVE  Resolved(k, w[2], w[1]) = E!Missing
      BY DEF Current
    <2>1. w[1] \in Host /\ w[2] \in E!Project /\ k \in Key
      BY Places DEF E!Worktrees, E!Project
    <2>2. \A x \in E!Place : store[x][k] = 0
      BY <2>1 DEF E!Init
    <2>3. <<"project", w[2]>> \in E!Place /\ <<"host", w[1]>> \in E!Place /\ <<"default", 0>> \in E!Place
      BY <2>1 DEF E!Place
    <2>4. QED
      BY <2>2, <2>3 DEF Resolved
  <1>3. QED
    BY <1>1, <1>2 DEF E!Init, E!Resting, SecretsInv

\* Every step of the secrets keeps the invariant: rotations, pushes, unreadable places, deaths.
LEMMA SecretsStep ==
    ASSUME SecretsInv, E!Next PROVE SecretsInv'
  <1>0. MaxRotations \in Nat /\ MaxFaults \in Nat
    BY Bounds
  <1>a. pushes.left # {} => /\ E!Min(pushes.left) \in pushes.left
                            /\ <<pushes.host, E!Min(pushes.left)>> \in E!Worktrees
                            /\ pushes.host \in Host /\ E!Min(pushes.left) \in E!Project
    <2> SUFFICES ASSUME pushes.left # {} PROVE E!Min(pushes.left) \in pushes.left
      BY DEF SecretsInv, E!Worktrees
    <2>1. pushes.left \in SUBSET Nat
      BY Places DEF SecretsInv, E!Project
    <2>2. QED
      BY <2>1, Least DEF E!Min
  <1>b. \A w \in E!Worktrees : w[1] \in Host /\ w[2] \in E!Project /\ w = <<w[1], w[2]>>
    BY DEF E!Worktrees
  <1>1. CASE E!PushOne
    <2>0. PICK h \in Host, p \in E!Project : h = pushes.host /\ p = E!Min(pushes.left)
      BY <1>1, <1>a DEF E!PushOne
    <2>1. p \in pushes.left /\ <<h, p>> \in E!Worktrees
      BY <1>1, <1>a, <2>0 DEF E!PushOne
    <2> DEFINE good == [k \in {x \in Projects[p].keys : E!resolve_key(x, p, h, {}) # E!Missing} |->
                           E!resolve_key(k, p, h, {})]
    <2>2. env' = [env EXCEPT ![h][p] = good]
      <3>1. E!WriteEnv(h, p, {})
        BY <1>1, <2>0 DEF E!PushOne
      <3>2. QED
        BY <3>1 DEF E!WriteEnv
    <2>3. /\ stale' = stale \ {<<h, p>>} /\ pushes' = [pushes EXCEPT !.left = @ \ {p}]
          /\ UNCHANGED <<store, faults>>
      BY <1>1, <2>0 DEF E!PushOne
    <2>g. DOMAIN good \subseteq Projects[p].keys
            /\ \A k \in Projects[p].keys : Resolved(k, p, h) # E!Missing =>
                  k \in DOMAIN good /\ good[k] = Resolved(k, p, h)
      <3>1. \A k : E!resolve_key(k, p, h, {}) = Resolved(k, p, h)
        BY ResolvedRight
      <3>2. QED
        BY <3>1
    <2> HIDE DEF good
    <2>4. \A g \in Host, q \in E!Project : env'[g][q] = IF g = h /\ q = p THEN good ELSE env[g][q]
      BY <2>1, <2>2 DEF SecretsInv
    <2>5. \A k, q, g : Resolved(k, q, g)' = Resolved(k, q, g)
      BY <2>3 DEF Resolved
    <2>6. Current(<<h, p>>)'
      BY <2>1, <2>4, <2>5, <2>g DEF Current
    <2>7. \A w \in E!Worktrees : w # <<h, p>> => (Current(w) => Current(w)')
      BY <1>b, <2>4, <2>5 DEF Current
    <2>8. \A w \in E!Worktrees : w # <<h, p>> => (Due(w) => Due(w)')
      BY <1>b, <2>0, <2>3 DEF Due, SecretsInv
    <2>9. pushes' \in [host : Host \cup {0}, left : SUBSET E!Project] /\ pushes'.left \subseteq pushes.left
            /\ pushes'.host = pushes.host
      BY <2>3 DEF SecretsInv
    <2>10. DOMAIN env' = Host /\ \A g \in Host : DOMAIN env'[g] = E!Project
      BY <2>1, <2>2 DEF SecretsInv
    <2>11. E!TypeOK'
      <3>1. \A g \in Host, q \in E!Project : DOMAIN env'[g][q] \subseteq Projects[q].keys
        BY <2>4, <2>g DEF SecretsInv, E!TypeOK
      <3>2. QED
        BY <2>3, <2>9, <3>1 DEF SecretsInv, E!TypeOK
    <2>12. \A w \in E!Worktrees \ stale' : Current(w)' \/ Due(w)'
      <3> TAKE w \in E!Worktrees \ stale'
      <3>1. CASE w = <<h, p>>
        BY <2>6, <3>1
      <3>2. CASE w # <<h, p>>
        BY <2>3, <2>7, <2>8, <3>2 DEF SecretsInv
      <3>3. QED
        BY <3>1, <3>2
    <2>13. QED
      BY <2>9, <2>10, <2>11, <2>12 DEF SecretsInv
  <1>2. CASE E!PushUnread
    <2> DEFINE p == E!Min(pushes.left)  h == pushes.host
    <2>1. p \in pushes.left /\ <<h, p>> \in E!Worktrees /\ h \in Host /\ p \in E!Project
      BY <1>2, <1>a DEF E!PushUnread
    <2>2. PICK x \in E!Place : E!WriteEnv(h, p, {x})
      BY <1>2 DEF E!PushUnread
    <2> DEFINE bad == [k \in {y \in Projects[p].keys : E!resolve_key(y, p, h, {x}) # E!Missing} |->
                          E!resolve_key(k, p, h, {x})]
    <2>3. env' = [env EXCEPT ![h][p] = bad]
      BY <2>2 DEF E!WriteEnv
    <2>4. DOMAIN bad \subseteq Projects[p].keys
      OBVIOUS
    <2>5. /\ stale' = stale \cup {<<h, p>>} /\ pushes' = [pushes EXCEPT !.left = @ \ {p}]
          /\ store' = store /\ faults' = faults + 1 /\ faults < MaxFaults
      BY <1>2 DEF E!PushUnread
    <2> HIDE DEF p, h, bad
    <2>6. \A g \in Host, q \in E!Project : env'[g][q] = IF g = h /\ q = p THEN bad ELSE env[g][q]
      BY <2>1, <2>3 DEF SecretsInv
    <2>7. \A k, q, g : Resolved(k, q, g)' = Resolved(k, q, g)
      BY <2>5 DEF Resolved
    <2>8. \A w \in E!Worktrees : w # <<h, p>> => (Current(w) => Current(w)')
      BY <1>b, <2>6, <2>7 DEF Current
    <2>9. \A w \in E!Worktrees : w # <<h, p>> => (Due(w) => Due(w)')
      BY <1>b, <2>5 DEF Due, SecretsInv, h
    <2>10. pushes' \in [host : Host \cup {0}, left : SUBSET E!Project] /\ pushes'.left \subseteq pushes.left
            /\ pushes'.host = pushes.host
      BY <2>5 DEF SecretsInv
    <2>11. DOMAIN env' = Host /\ \A g \in Host : DOMAIN env'[g] = E!Project
      BY <2>1, <2>3 DEF SecretsInv
    <2>12. E!TypeOK'
      <3>1. \A g \in Host, q \in E!Project : DOMAIN env'[g][q] \subseteq Projects[q].keys
        BY <2>4, <2>6 DEF SecretsInv, E!TypeOK
      <3>2. faults' \in 0 .. MaxFaults
        BY <1>0, <2>5 DEF SecretsInv, E!TypeOK
      <3>3. QED
        BY <2>1, <2>5, <2>10, <3>1, <3>2 DEF SecretsInv, E!TypeOK
    <2>13. QED
      BY <2>5, <2>8, <2>9, <2>10, <2>11, <2>12 DEF SecretsInv
  <1>3. CASE E!Die
    <2>1. /\ pushes' = E!Resting /\ stale' = stale \cup {<<pushes.host, p>> : p \in pushes.left}
          /\ faults' = faults + 1 /\ faults < MaxFaults /\ UNCHANGED <<store, env>>
      BY <1>3 DEF E!Die
    <2>2. \A w : Current(w)' = Current(w)
      BY <2>1 DEF Current, Resolved
    <2>3. \A w \in E!Worktrees \ stale' : ~Due(w)
      BY <1>b, <2>1 DEF Due
    <2>4. E!TypeOK'
      BY <1>0, <2>1 DEF E!TypeOK, E!Resting, SecretsInv
    <2>5. QED
      BY <2>1, <2>2, <2>3, <2>4 DEF SecretsInv, E!Resting
  <1>4. ASSUME NEW h \in Host, E!push_all(h) PROVE SecretsInv'
    <2>1. /\ pushes.left = {} /\ pushes' = [host |-> h, left |-> E!Here(h, E!Project)]
          /\ UNCHANGED <<store, env, faults, stale>>
      BY <1>4 DEF E!push_all
    <2>2. \A w : Current(w)' = Current(w)
      BY <2>1 DEF Current, Resolved
    <2>3. \A w : ~Due(w)
      BY <2>1 DEF Due
    <2>4. E!Here(h, E!Project) \subseteq E!Project /\ \A p \in E!Here(h, E!Project) : <<h, p>> \in E!Worktrees
      BY DEF E!Here
    <2>5. QED
      BY <2>1, <2>2, <2>3, <2>4 DEF SecretsInv, E!TypeOK
  <1>5. ASSUME NEW h \in Host, NEW k \in Key, NEW project \in E!Project \cup {0}, NEW host \in Host \cup {0},
               E!rotate(h, k, project, host)
        PROVE  SecretsInv'
    <2> DEFINE x == E!scoped_name(project, host)
               targets == (IF project # 0 THEN {project} ELSE E!Declaring(k)) \cap E!Declaring(k)
    <2>1. /\ pushes.left = {} /\ E!Rotations < MaxRotations
          /\ store' = [store EXCEPT ![x][k] = @ + 1]
          /\ pushes' = [host |-> h, left |-> E!Here(h, targets)]
          /\ stale' = stale \cup {w \in E!Worktrees : w[1] # h /\ w[2] \in E!Declaring(k)}
          /\ UNCHANGED <<env, faults>>
      BY <1>5 DEF E!rotate
    <2>2. x \in E!Place /\ (project # 0 => x = <<"project", project>>)
      BY DEF E!scoped_name, E!Place
    <2>3. targets \subseteq E!Project /\ targets \subseteq E!Declaring(k)
            /\ \A p \in E!Here(h, targets) : p \in targets /\ <<h, p>> \in E!Worktrees
      BY DEF E!Here, E!Declaring
    <2>3a. project = 0 => targets = E!Declaring(k)
      OBVIOUS
    <2>3b. project # 0 /\ project \in E!Declaring(k) => project \in targets
      OBVIOUS
    <2> HIDE DEF x, targets
    <2>4. E!TypeOK'
      <3>1. store[x][k] \in 0 .. MaxRotations /\ store[x][k] + 1 <= MaxRotations
        BY <1>0, <2>1, <2>2, RotationsBound DEF SecretsInv, E!TypeOK
      <3>2. store' \in [E!Place -> [Key -> 0 .. MaxRotations]]
        BY <1>0, <2>1, <2>2, <3>1 DEF SecretsInv, E!TypeOK
      <3>3. QED
        BY <2>1, <2>3, <3>2 DEF SecretsInv, E!TypeOK, E!Here
    <2>5. \A y \in E!Place, j \in Key : y # x \/ j # k => store'[y][j] = store[y][j]
      BY <2>1, <2>2 DEF SecretsInv, E!TypeOK
    <2>6. \A w \in E!Worktrees \ stale' : Current(w)' \/ Due(w)'
      <3> SUFFICES ASSUME NEW w \in E!Worktrees \ stale' PROVE Current(w)' \/ Due(w)'
        OBVIOUS
      <3>1. w \in E!Worktrees \ stale /\ Current(w)
        BY <2>1 DEF SecretsInv, Due
      <3>2. w[1] \in Host /\ w[2] \in E!Project /\ Projects[w[2]].keys \subseteq Key
        BY <1>b, Places DEF E!Project
      <3> DEFINE own == <<"project", w[2]>>  on == <<"host", w[1]>>  all == <<"default", 0>>
      <3>3. own \in E!Place /\ on \in E!Place /\ all \in E!Place
        BY <3>2 DEF E!Place
      <3>4. ASSUME \A j \in Projects[w[2]].keys : j # k \/ x \notin {own, on, all}
            PROVE  Current(w)'
        <4>1. \A j \in Projects[w[2]].keys : \A y \in {own, on, all} : store'[y][j] = store[y][j]
          BY <2>5, <3>2, <3>3, <3>4
        <4>2. \A j \in Projects[w[2]].keys : Resolved(j, w[2], w[1])' = Resolved(j, w[2], w[1])
          BY <4>1 DEF Resolved
        <4>3. QED
          BY <2>1, <3>1, <4>2 DEF Current
      <3>5. CASE w[2] \notin E!Declaring(k)
        BY <3>2, <3>4, <3>5 DEF E!Declaring
      <3>6. CASE w[2] \in E!Declaring(k) /\ project # 0 /\ w[2] # project
        BY <2>2, <3>4, <3>6
      <3>7. CASE w[2] \in E!Declaring(k) /\ (project = 0 \/ w[2] = project)
        <4>1. w[1] = h
          BY <2>1, <3>7
        <4>2. w[2] \in targets
          BY <2>3a, <2>3b, <3>7
        <4>3. Projects[w[2]].keys # {} /\ <<h, w[2]>> \in E!Worktrees
          BY <1>b, <3>7, <4>1 DEF E!Declaring
        <4>4. w[2] \in E!Here(h, targets)
          BY <4>2, <4>3 DEF E!Here
        <4>5. QED
          BY <2>1, <4>1, <4>4 DEF Due
      <3>8. QED
        BY <3>5, <3>6, <3>7
    <2>7. pushes' \in [host : Host \cup {0}, left : SUBSET E!Project]
            /\ \A p \in pushes'.left : <<pushes'.host, p>> \in E!Worktrees
      BY <2>1, <2>3
    <2>8. QED
      BY <2>1, <2>4, <2>6, <2>7 DEF SecretsInv
  <1>6. QED
    BY <1>1, <1>2, <1>3, <1>4, <1>5 DEF E!Next

-----------------------------------------------------------------------------
(* Transcripts *)

\* The collector holds lines of the session that it has not committed.
Reading(c, s) == walk[c].at = s /\ walk[c].chunk # <<>>

\* The passes that may still put rows of session s for line i: they come to s yet, or stand
\* there and have not read past i.
PassDue(p, s, i) == p.at \in 1 .. s /\ ~(p.at = s /\ p.chunk # <<>> /\ p.from >= i)
DueTo(s, i) == {c \in Collector : PassDue(walk[c], s, i)}
\* Some collector holds the line.
Holding(s, i) == \E c \in Collector : Reading(c, s) /\ walk[c].from < i

Pass == [at : 0 .. Len(Session) + 1, from : Nat, chunk : Seq(W!RecordKinds)]
Line == 1 .. MaxRecords

\* A pass stands at a session, before the first or behind the last, and holds lines only at one.
WalkTyped ==
    /\ W!TypeOK
    /\ walk \in [Collector -> Pass]
    /\ \A c \in Collector : walk[c].at \notin W!Sessions => walk[c].chunk = <<>>
    /\ \A s \in W!Sessions : partial[s] => Len(file[s]) < MaxRecords

\* What a pass read is there, and what lies before it has been taken.
Fits(p, lines, made) ==
    /\ p.from + Len(p.chunk) <= Len(lines)
    /\ \A j \in 1 .. Len(p.chunk) : p.chunk[j] = lines[p.from + j]
    /\ \A i \in 1 .. p.from : lines[i] = "extract" => made[i] >= 1

\* What the collectors hold.
ReadsFit ==
    \A c \in Collector, s \in W!Sessions : Reading(c, s) => Fits(walk[c], file[s], extracted[s])

\* Behind the lines there are no rows, and nothing goes past a line that cannot be decoded.
LinesFit ==
    \A s \in W!Sessions :
        /\ offset[s] <= Len(file[s])
        /\ \A i \in Line : i > Len(file[s]) => extracted[s][i] = 0
        /\ \A i \in 1 .. Len(file[s]) : file[s][i] \in {"unknown", "separator"} =>
              /\ offset[s] < i
              /\ \A j \in i .. MaxRecords : extracted[s][j] = 0
              /\ \A c \in Collector : Reading(c, s) => walk[c].from < i

\* A line has as many rows as overlaps allow, one less where some pass is yet to take it.
AllCounted ==
    \A s \in W!Sessions, i \in Line :
        /\ extracted[s][i] <= 1 + overlaps
        /\ offset[s] < i => extracted[s][i] <= overlaps
        /\ offset[s] < i \/ Holding(s, i) =>
             extracted[s][i] + Cardinality(DueTo(s, i)) <= 1 + overlaps

\* The invariant of the transcripts.
TranscriptsInv == WalkTyped /\ ReadsFit /\ LinesFit /\ W!NothingSkipped /\ AllCounted

\* The invariant gives the property.
LEMMA TranscriptsRight == TranscriptsInv => TranscriptsSound
  <1> SUFFICES ASSUME TranscriptsInv PROVE W!ExtractedOnce /\ W!NeverPastABadLine
    BY DEF TranscriptsInv, TranscriptsSound, WalkTyped
  <1>1. W!ExtractedOnce
    BY DEF TranscriptsInv, AllCounted, Line, W!ExtractedOnce
  <1>2. W!NeverPastABadLine
    BY DEF TranscriptsInv, LinesFit, W!NeverPastABadLine
  <1>3. QED
    BY <1>1, <1>2

\* The bounds of the instance are numbers, and the collectors are finitely many.
LEMMA SizesFit ==
    /\ MaxRecords \in Nat /\ MaxOverlaps \in Nat
    /\ Len(Session) \in Nat /\ IsFiniteSet(Collector)
  BY Bounds, Fixed

\* A bounded sequence is a sequence, of bounded length.
LEMMA Bounded ==
    ASSUME NEW T, NEW n \in Nat
    PROVE  \A q : q \in W!BoundedSeq(T, n) <=> q \in Seq(T) /\ Len(q) <= n
  <1> TAKE q
  <1>1. ASSUME NEW m \in 0 .. n, q \in [1 .. m -> T] PROVE q \in Seq(T) /\ Len(q) <= n
    <2>1. q \in Seq(T) /\ Len(q) = m
      BY <1>1
    <2>2. QED
      BY <2>1
  <1>2. ASSUME q \in Seq(T), Len(q) <= n PROVE q \in [1 .. Len(q) -> T] /\ Len(q) \in 0 .. n
    BY <1>2
  <1>3. q \in W!BoundedSeq(T, n) <=> \E m \in 0 .. n : q \in [1 .. m -> T]
    BY Zenon DEF W!BoundedSeq, W!SeqOf
  <1>4. QED
    BY <1>1, <1>2, <1>3

\* Before the first line and the first pass the invariant holds.
LEMMA TranscriptsStart == W!Init => TranscriptsInv
  <1> SUFFICES ASSUME W!Init PROVE TranscriptsInv
    OBVIOUS
  <1> USE SizesFit DEF W!Init, W!Resting
  <1>1. <<>> \in W!BoundedSeq(W!RecordKinds, MaxRecords)
    <2>1. <<>> \in Seq(W!RecordKinds) /\ Len(<<>>) <= MaxRecords
      OBVIOUS
    <2>2. QED
      BY <2>1, Bounded
  <1>2. WalkTyped
    <2>1. file \in [W!Sessions -> W!BoundedSeq(W!RecordKinds, MaxRecords)]
      BY <1>1
    <2>2. walk \in [Collector -> Pass] /\ \A c \in Collector : walk[c].chunk = <<>> /\ walk[c].at = 0
      BY DEF Pass
    <2>3. QED
      BY <2>1, <2>2 DEF WalkTyped, W!TypeOK
  <1>3. \A s \in W!Sessions, i \in Line : DueTo(s, i) = {} /\ ~Holding(s, i)
    BY DEF DueTo, PassDue, Holding, Reading
  <1>4. AllCounted
    <2>1. \A s \in W!Sessions, i \in Line : extracted[s][i] = 0 /\ Cardinality(DueTo(s, i)) = 0
      BY <1>3, FS_EmptySet DEF Line
    <2>2. QED
      BY <2>1 DEF AllCounted
  <1>5. ReadsFit /\ LinesFit /\ W!NothingSkipped
    BY DEF ReadsFit, LinesFit, W!NothingSkipped, Reading, Line
  <1>6. QED
    BY <1>2, <1>4, <1>5 DEF TranscriptsInv

\* What a pass consumes of a chunk is part of it and ends before the first separator
\* (transcripts.py stops at a line it cannot decode).
LEMMA ConsumedFits ==
    ASSUME NEW q \in Seq(W!RecordKinds)
    PROVE  /\ W!Consumed(q) \in 0 .. Len(q)
           /\ \A j \in 1 .. Len(q) : q[j] = "separator" => W!Consumed(q) < j
  <1> DEFINE cuts == {i \in DOMAIN q : q[i] = "separator"}
  <1>1. W!Consumed(q) = IF cuts = {} THEN Len(q) ELSE W!Min(cuts) - 1
    BY DEF W!Consumed
  <1>2. cuts \subseteq 1 .. Len(q) /\ cuts \in SUBSET Nat
    OBVIOUS
  <1>3. cuts # {} => W!Min(cuts) \in cuts /\ \A i \in cuts : W!Min(cuts) <= i
    BY <1>2, Least DEF W!Min
  <1>4. \A j \in 1 .. Len(q) : q[j] = "separator" => j \in cuts
    OBVIOUS
  <1> HIDE DEF cuts
  <1>5. CASE cuts = {}
    BY <1>1, <1>4, <1>5
  <1>6. CASE cuts # {}
    <2>1. W!Min(cuts) \in 1 .. Len(q) /\ W!Consumed(q) = W!Min(cuts) - 1
      BY <1>1, <1>2, <1>3, <1>6
    <2>2. \A j \in 1 .. Len(q) : q[j] = "separator" => W!Min(cuts) <= j
      BY <1>3, <1>4, <1>6
    <2>3. QED
      BY <2>1, <2>2
  <1>7. QED
    BY <1>5, <1>6

\* Finitely many passes are due to a line.
LEMMA DueFinite == \A s, i : IsFiniteSet(DueTo(s, i)) /\ Cardinality(DueTo(s, i)) \in Nat
  BY SizesFit, FS_Subset, FS_CardinalityType DEF DueTo

\* Nothing is counted, and nobody more is due.
LEMMA CountedKept ==
    ASSUME TranscriptsInv, UNCHANGED <<extracted, offset, overlaps>>,
           \A s \in W!Sessions, i \in Line :
              /\ DueTo(s, i)' \subseteq DueTo(s, i)
              /\ Holding(s, i)' => Holding(s, i) \/ offset[s] < i
    PROVE  AllCounted'
  <1> SUFFICES ASSUME NEW s \in W!Sessions, NEW i \in Line
               PROVE  /\ extracted[s][i] <= 1 + overlaps
                      /\ offset[s] < i => extracted[s][i] <= overlaps
                      /\ offset[s] < i \/ Holding(s, i)' =>
                           extracted[s][i] + Cardinality(DueTo(s, i)') <= 1 + overlaps
    BY DEF AllCounted
  <1>1. Cardinality(DueTo(s, i)') <= Cardinality(DueTo(s, i)) /\ Cardinality(DueTo(s, i)') \in Nat
          /\ Cardinality(DueTo(s, i)) \in Nat
    BY DueFinite, FS_Subset, FS_CardinalityType
  <1>2. extracted[s][i] \in Nat /\ overlaps \in Nat
    BY SizesFit DEF TranscriptsInv, WalkTyped, W!TypeOK, Line
  <1>3. /\ extracted[s][i] <= 1 + overlaps
        /\ offset[s] < i => extracted[s][i] <= overlaps
        /\ offset[s] < i \/ Holding(s, i) => extracted[s][i] + Cardinality(DueTo(s, i)) <= 1 + overlaps
    BY DEF TranscriptsInv, AllCounted
  <1>4. QED
    BY <1>1, <1>2, <1>3

\* A pass goes on or ends.
LEMMA WalkKept ==
    ASSUME TranscriptsInv, NEW c \in Collector, NEW v \in Pass, v.chunk = <<>>,
           walk' = [walk EXCEPT ![c] = v],
           \A s \in W!Sessions, i \in Line : PassDue(v, s, i) => PassDue(walk[c], s, i),
           UNCHANGED <<file, partial, offset, extracted, overlaps>>,
           oversized' \in [W!Sessions -> BOOLEAN]
    PROVE  TranscriptsInv'
  <1>1. \A d \in Collector : walk'[d] = IF d = c THEN v ELSE walk[d]
    BY DEF TranscriptsInv, WalkTyped
  <1>2. walk' \in [Collector -> Pass]
    BY <1>1 DEF TranscriptsInv, WalkTyped
  <1>3. WalkTyped'
    <2>1. W!TypeOK'
      BY <1>2 DEF TranscriptsInv, WalkTyped, W!TypeOK, Pass
    <2>2. QED
      BY <1>1, <1>2, <2>1 DEF TranscriptsInv, WalkTyped
  <1>4. \A d \in Collector, s \in W!Sessions : Reading(d, s)' => Reading(d, s) /\ walk'[d] = walk[d]
    BY <1>1 DEF Reading
  <1>5. ReadsFit'
    BY <1>4 DEF TranscriptsInv, ReadsFit
  <1>6. LinesFit'
    BY <1>4 DEF TranscriptsInv, LinesFit
  <1>7. \A s \in W!Sessions, i \in Line : DueTo(s, i)' \subseteq DueTo(s, i) /\ (Holding(s, i)' => Holding(s, i))
    BY <1>1, <1>4 DEF DueTo, Holding
  <1>8. AllCounted'
    BY <1>7, CountedKept
  <1>9. W!NothingSkipped'
    BY DEF TranscriptsInv, W!NothingSkipped
  <1>10. QED
    BY <1>3, <1>5, <1>6, <1>8, <1>9 DEF TranscriptsInv

\* The place after the present one.
LEMMA OnwardFits ==
    ASSUME TranscriptsInv, NEW c \in Collector, W!Walking(c), W!Onward(c)
    PROVE  \E v \in Pass : /\ walk' = [walk EXCEPT ![c] = v] /\ v.chunk = <<>>
                           /\ \A s \in W!Sessions, i \in Line :
                                PassDue(v, s, i) => PassDue(walk[c], s, i) /\ s # walk[c].at
  <1> DEFINE v == IF walk[c].at = Len(Session) THEN W!Resting
                  ELSE [at |-> walk[c].at + 1, from |-> 0, chunk |-> <<>>]
  <1>1. walk[c].at \in 1 .. Len(Session) /\ Len(Session) \in Nat
    BY SizesFit DEF W!Walking, W!Sessions
  <1>2. v \in Pass /\ v.chunk = <<>>
    BY <1>1 DEF Pass, W!Resting
  <1>3. v.at = 0 \/ v.at = walk[c].at + 1
    BY DEF W!Resting
  <1>4. walk' = [walk EXCEPT ![c] = v]
    BY DEF W!Onward
  <1> HIDE DEF v
  <1>5. \A s \in W!Sessions, i \in Line : PassDue(v, s, i) => PassDue(walk[c], s, i) /\ s # walk[c].at
    BY <1>1, <1>3 DEF PassDue, W!Sessions
  <1>6. QED
    BY <1>2, <1>4, <1>5

\* A collector that starts a pass keeps the invariant, overlapping or not.
LEMMA StartKeeps ==
    ASSUME TranscriptsInv, NEW c \in Collector, W!Start(c) PROVE TranscriptsInv'
  <1> DEFINE v == [walk[c] EXCEPT !.at = 1]
             overlap == \E d \in Collector \ {c} : W!Walking(d)
  <1>1. /\ walk[c].at = 0 /\ walk' = [walk EXCEPT ![c] = v]
        /\ overlap => overlaps < MaxOverlaps
        /\ overlaps' = IF overlap THEN overlaps + 1 ELSE overlaps
        /\ UNCHANGED <<file, partial, offset, oversized, extracted>>
    BY DEF W!Start
  <1>2. walk[c] \in Pass /\ walk[c].chunk = <<>>
    BY <1>1, SizesFit DEF TranscriptsInv, WalkTyped, W!Sessions
  <1>3. v \in Pass /\ v.chunk = <<>> /\ v.at = 1
    BY <1>2, SizesFit DEF Pass
  <1> HIDE DEF v
  <1>4. \A d \in Collector : walk'[d] = IF d = c THEN v ELSE walk[d]
    BY <1>1 DEF TranscriptsInv, WalkTyped
  <1>5. WalkTyped'
    <2>1. walk' \in [Collector -> Pass]
      BY <1>1, <1>3 DEF TranscriptsInv, WalkTyped
    <2>2. overlaps' \in 0 .. MaxOverlaps
      BY <1>1, SizesFit DEF TranscriptsInv, WalkTyped, W!TypeOK
    <2>3. W!TypeOK'
      BY <1>1, <2>1, <2>2 DEF TranscriptsInv, WalkTyped, W!TypeOK, Pass
    <2>4. QED
      BY <1>1, <1>3, <1>4, <2>1, <2>3 DEF TranscriptsInv, WalkTyped
  <1>6. \A d \in Collector, s \in W!Sessions : Reading(d, s)' <=> Reading(d, s) /\ walk'[d] = walk[d]
    BY <1>2, <1>3, <1>4 DEF Reading
  <1>7. ReadsFit'
    BY <1>1, <1>6 DEF TranscriptsInv, ReadsFit
  <1>8. LinesFit'
    BY <1>1, <1>6 DEF TranscriptsInv, LinesFit
  <1>9. AllCounted'
    <2> SUFFICES ASSUME NEW s \in W!Sessions, NEW i \in Line
                 PROVE  /\ extracted[s][i] <= 1 + overlaps'
                        /\ offset[s] < i => extracted[s][i] <= overlaps'
                        /\ offset[s] < i \/ Holding(s, i)' =>
                             extracted[s][i] + Cardinality(DueTo(s, i)') <= 1 + overlaps'
      BY <1>1 DEF AllCounted
    <2>1. extracted[s][i] \in Nat /\ overlaps \in Nat
      BY SizesFit DEF TranscriptsInv, WalkTyped, W!TypeOK, Line
    <2>2. /\ extracted[s][i] <= 1 + overlaps
          /\ offset[s] < i => extracted[s][i] <= overlaps
          /\ offset[s] < i \/ Holding(s, i) => extracted[s][i] + Cardinality(DueTo(s, i)) <= 1 + overlaps
      BY DEF TranscriptsInv, AllCounted
    <2>3. Holding(s, i)' => \E d \in Collector \ {c} : Reading(d, s) /\ walk[d].from < i
      BY <1>3, <1>4, <1>6 DEF Holding, Reading
    <2>4. Holding(s, i)' => Holding(s, i) /\ overlap
      BY <2>3 DEF Holding, Reading, W!Walking
    <2>5. DueTo(s, i)' \subseteq DueTo(s, i) \cup {c}
      BY <1>4 DEF DueTo
    <2>6. IsFiniteSet(DueTo(s, i)) /\ Cardinality(DueTo(s, i)) \in Nat
      BY DueFinite
    <2>7. IsFiniteSet(DueTo(s, i) \cup {c}) /\ Cardinality(DueTo(s, i) \cup {c}) <= Cardinality(DueTo(s, i)) + 1
            /\ Cardinality(DueTo(s, i) \cup {c}) \in Nat
      <3>1. /\ IsFiniteSet(DueTo(s, i) \cup {c})
            /\ Cardinality(DueTo(s, i) \cup {c}) =
                 IF c \in DueTo(s, i) THEN Cardinality(DueTo(s, i)) ELSE Cardinality(DueTo(s, i)) + 1
        BY <2>6, FS_AddElement
      <3>2. QED
        BY <2>6, <3>1
    <2>8. Cardinality(DueTo(s, i)') <= Cardinality(DueTo(s, i)) + 1 /\ Cardinality(DueTo(s, i)') \in Nat
            /\ IsFiniteSet(DueTo(s, i)')
      BY <2>5, <2>6, <2>7, FS_Subset, FS_CardinalityType
    <2>9. CASE overlap
      BY <1>1, <2>1, <2>2, <2>4, <2>6, <2>8, <2>9
    <2>10. CASE ~overlap
      <3>1. DueTo(s, i)' \subseteq {c}
        BY <1>4, <2>10 DEF DueTo, PassDue, W!Walking, W!Sessions
      <3>2. IsFiniteSet({c}) /\ Cardinality({c}) = 1
        BY FS_Singleton
      <3>3. Cardinality(DueTo(s, i)') <= 1
        BY <3>1, <3>2, FS_Subset
      <3>4. QED
        BY <1>1, <2>1, <2>2, <2>4, <2>8, <2>10, <3>3
    <2>11. QED
      BY <2>9, <2>10
  <1>10. W!NothingSkipped'
    BY <1>1 DEF TranscriptsInv, W!NothingSkipped
  <1>11. QED
    BY <1>5, <1>7, <1>8, <1>9, <1>10 DEF TranscriptsInv

\* What is left of a sequence.
LEMMA Remains ==
    ASSUME NEW T, NEW q \in Seq(T), NEW o \in 0 .. Len(q)
    PROVE  /\ SubSeq(q, o + 1, Len(q)) \in Seq(T)
           /\ Len(SubSeq(q, o + 1, Len(q))) = Len(q) - o
           /\ \A j \in 1 .. Len(q) - o : SubSeq(q, o + 1, Len(q))[j] = q[o + j]
  <1>1. o + 1 \in 1 .. Len(q) + 1 /\ Len(q) \in Nat
    OBVIOUS
  <1>2. /\ SubSeq(q, o + 1, Len(q)) \in Seq(T)
        /\ Len(SubSeq(q, o + 1, Len(q))) = IF o + 1 <= Len(q) THEN Len(q) - (o + 1) + 1 ELSE 0
        /\ \A j \in 1 .. Len(q) - (o + 1) + 1 : SubSeq(q, o + 1, Len(q))[j] = q[(o + 1) + j - 1]
    BY <1>1, SubSeqProperties
  <1>3. QED
    BY <1>1, <1>2

\* A tail read keeps the invariant.
LEMMA ReadKeeps ==
    ASSUME TranscriptsInv, NEW c \in Collector, W!ReadTail(c) PROVE TranscriptsInv'
  <1> USE SizesFit
  <1>1. PICK s \in W!Sessions : s = walk[c].at /\ walk[c].chunk = <<>>
    BY DEF W!ReadTail, W!Walking
  <1>2. /\ file[s] \in Seq(W!RecordKinds) /\ Len(file[s]) <= MaxRecords
        /\ offset[s] \in Nat /\ offset[s] <= Len(file[s])
    BY Bounded DEF TranscriptsInv, WalkTyped, W!TypeOK, LinesFit
  <1> DEFINE q == SubSeq(file[s], offset[s] + 1, Len(file[s]))
             v == [[walk[c] EXCEPT !.from = offset[s]] EXCEPT !.chunk = q]
  <1>3. /\ q \in Seq(W!RecordKinds) /\ Len(q) = Len(file[s]) - offset[s]
        /\ \A j \in 1 .. Len(q) : q[j] = file[s][offset[s] + j]
    <2>1. offset[s] \in 0 .. Len(file[s])
      BY <1>2
    <2>2. QED
      BY <1>2, <2>1, Remains
  <1>4. /\ q # <<>> /\ UNCHANGED <<file, partial, offset, oversized, extracted, overlaps>>
        /\ walk' = [walk EXCEPT ![c].from = offset[s], ![c].chunk = q]
    BY <1>1 DEF W!ReadTail
  <1> HIDE DEF q
  <1>5. walk[c] \in Pass
    BY DEF TranscriptsInv, WalkTyped
  <1>6. walk' = [walk EXCEPT ![c] = v]
    BY <1>4, <1>5 DEF Pass, TranscriptsInv, WalkTyped
  <1>7. v \in Pass /\ v.at = s /\ v.from = offset[s] /\ v.chunk = q
    BY <1>1, <1>2, <1>3, <1>5 DEF Pass
  <1> HIDE DEF v
  <1>8. \A d \in Collector : walk'[d] = IF d = c THEN v ELSE walk[d]
    BY <1>6 DEF TranscriptsInv, WalkTyped
  <1>9. WalkTyped'
    <2>1. walk' \in [Collector -> Pass]
      BY <1>7, <1>6 DEF TranscriptsInv, WalkTyped
    <2>2. W!TypeOK'
      BY <1>4, <2>1 DEF TranscriptsInv, WalkTyped, W!TypeOK, Pass
    <2>3. QED
      BY <1>4, <1>7, <1>8, <2>1, <2>2 DEF TranscriptsInv, WalkTyped
  <1>10. \A d \in Collector, r \in W!Sessions : Reading(d, r)' =>
            (Reading(d, r) /\ walk'[d] = walk[d]) \/ (d = c /\ r = s)
    BY <1>7, <1>8 DEF Reading
  <1>11. ReadsFit'
    <2>1. \A i \in 1 .. offset[s] : file[s][i] = "extract" => extracted[s][i] >= 1
      BY <1>2 DEF TranscriptsInv, W!NothingSkipped
    <2>2. Fits(v, file[s], extracted[s])
      BY <1>2, <1>3, <1>7, <2>1 DEF Fits
    <2>3. QED
      BY <1>4, <1>8, <1>10, <2>2 DEF TranscriptsInv, ReadsFit
  <1>12. LinesFit'
    <2>1. walk'[c].from = offset[s]
      BY <1>7, <1>8
    <2>2. QED
      BY <1>4, <1>10, <2>1 DEF TranscriptsInv, LinesFit
  <1>13. \A r \in W!Sessions, i \in Line :
            /\ DueTo(r, i)' \subseteq DueTo(r, i)
            /\ Holding(r, i)' => Holding(r, i) \/ offset[r] < i
    <2>1. \A r, i : PassDue(v, r, i) => PassDue(walk[c], r, i)
      BY <1>1, <1>7 DEF PassDue
    <2>2. walk'[c].from = offset[s]
      BY <1>7, <1>8
    <2>3. QED
      BY <1>8, <1>10, <2>1, <2>2 DEF DueTo, Holding
  <1>14. AllCounted'
    BY <1>4, <1>13, CountedKept
  <1>15. W!NothingSkipped'
    BY <1>4 DEF TranscriptsInv, W!NothingSkipped
  <1>16. QED
    BY <1>9, <1>11, <1>12, <1>14, <1>15 DEF TranscriptsInv

\* An agent that appends a line, or half of one, keeps the invariant.
LEMMA LinesWritten ==
    ASSUME TranscriptsInv, W!WriteStep PROVE TranscriptsInv'
  <1> USE SizesFit
  <1>1. ASSUME NEW s \in W!Sessions, W!WriteHalf(s) PROVE TranscriptsInv'
    <2>1. /\ Len(file[s]) < MaxRecords /\ partial' = [partial EXCEPT ![s] = TRUE]
          /\ UNCHANGED <<file, offset, oversized, extracted, walk, overlaps>>
      BY <1>1 DEF W!WriteHalf
    <2>2. WalkTyped'
      BY <2>1 DEF TranscriptsInv, WalkTyped, W!TypeOK
    <2>3. ReadsFit' /\ LinesFit' /\ W!NothingSkipped'
      BY <2>1 DEF TranscriptsInv, ReadsFit, Reading, LinesFit, W!NothingSkipped
    <2>4. AllCounted'
      BY <2>1, CountedKept DEF DueTo, Holding, Reading
    <2>5. QED
      BY <2>2, <2>3, <2>4 DEF TranscriptsInv
  <1>2. ASSUME NEW s \in W!Sessions, NEW k \in W!RecordKinds, W!FinishLine(s, k) PROVE TranscriptsInv'
    <2>1. /\ partial[s] /\ partial' = [partial EXCEPT ![s] = FALSE]
          /\ file' = [file EXCEPT ![s] = Append(@, k)]
          /\ UNCHANGED <<offset, oversized, extracted, walk, overlaps>>
      BY <1>2 DEF W!FinishLine
    <2>2. \A r \in W!Sessions : file[r] \in Seq(W!RecordKinds) /\ Len(file[r]) <= MaxRecords
      BY Bounded DEF TranscriptsInv, WalkTyped, W!TypeOK
    <2>3. Len(file[s]) < MaxRecords
      BY <2>1 DEF TranscriptsInv, WalkTyped
    <2>4. /\ file'[s] = Append(file[s], k)
          /\ \A r \in W!Sessions : r # s => file'[r] = file[r]
      BY <2>1 DEF TranscriptsInv, WalkTyped, W!TypeOK
    <2>5. /\ file'[s] \in Seq(W!RecordKinds) /\ Len(file'[s]) = Len(file[s]) + 1
          /\ \A i \in 1 .. Len(file[s]) : file'[s][i] = file[s][i]
      BY <2>2, <2>4
    <2>6. \A r \in W!Sessions : /\ Len(file'[r]) >= Len(file[r]) /\ Len(file'[r]) \in Nat /\ Len(file[r]) \in Nat
                                /\ \A i \in 1 .. Len(file[r]) : file'[r][i] = file[r][i]
                                /\ Len(file'[r]) <= Len(file[r]) + 1
                                /\ file'[r] \in Seq(W!RecordKinds) /\ Len(file'[r]) <= MaxRecords
      <3> TAKE r \in W!Sessions
      <3>1. CASE r = s
        BY <2>2, <2>3, <2>5, <3>1
      <3>2. CASE r # s
        BY <2>2, <2>4, <3>2
      <3>3. QED
        BY <3>1, <3>2
    <2>7. WalkTyped'
      <3>1. file' \in [W!Sessions -> W!BoundedSeq(W!RecordKinds, MaxRecords)]
        <4>1. \A r \in W!Sessions : file'[r] \in W!BoundedSeq(W!RecordKinds, MaxRecords)
          BY <2>6, Bounded
        <4>2. QED
          BY <2>1, <4>1 DEF TranscriptsInv, WalkTyped, W!TypeOK
      <3>2. \A r \in W!Sessions : partial'[r] => Len(file'[r]) < MaxRecords
        BY <2>1, <2>4 DEF TranscriptsInv, WalkTyped, W!TypeOK
      <3>3. QED
        BY <2>1, <3>1, <3>2 DEF TranscriptsInv, WalkTyped, W!TypeOK
    <2>8. \A d \in Collector, r \in W!Sessions : Reading(d, r)' = Reading(d, r)
      BY <2>1 DEF Reading
    <2>9. \A d \in Collector : walk[d].from \in Nat /\ Len(walk[d].chunk) \in Nat /\ walk'[d] = walk[d]
      BY <2>1 DEF TranscriptsInv, WalkTyped, Pass
    <2>10. ReadsFit'
      <3>1. ASSUME NEW d \in Collector, NEW r \in W!Sessions, Reading(d, r)
            PROVE  Fits(walk[d], file'[r], extracted[r])
        <4>1. Fits(walk[d], file[r], extracted[r])
          BY <3>1 DEF TranscriptsInv, ReadsFit
        <4>2. walk[d].from \in Nat /\ Len(walk[d].chunk) \in Nat
          BY <2>9
        <4>3. Len(file[r]) \in Nat /\ Len(file'[r]) \in Nat /\ Len(file[r]) <= Len(file'[r])
                /\ \A i \in 1 .. Len(file[r]) : file'[r][i] = file[r][i]
          BY <2>6
        <4>4. PICK f \in Nat, n \in Nat, m \in Nat :
                f = walk[d].from /\ n = Len(walk[d].chunk) /\ m = Len(file[r])
          BY <4>2, <4>3
        <4>5. f + n <= m
          BY <4>1, <4>4 DEF Fits
        <4>6. /\ \A j \in 1 .. n : f + j \in 1 .. m
              /\ \A i \in 1 .. f : i \in 1 .. m
          BY <4>5
        <4>7. \A j \in 1 .. n : walk[d].chunk[j] = file'[r][f + j]
          BY <4>1, <4>3, <4>4, <4>6 DEF Fits
        <4>8. \A i \in 1 .. f : file'[r][i] = "extract" => extracted[r][i] >= 1
          BY <4>1, <4>3, <4>4, <4>6 DEF Fits
        <4>9. f + n <= Len(file'[r])
          BY <4>3, <4>4, <4>5
        <4>10. QED
          BY <4>4, <4>7, <4>8, <4>9 DEF Fits
      <3>2. QED
        BY <2>1, <2>8, <3>1 DEF ReadsFit
    <2>11. \A r \in W!Sessions : offset[r] \in Nat /\ offset[r] <= Len(file[r])
      BY DEF TranscriptsInv, LinesFit, WalkTyped, W!TypeOK
    <2>12. LinesFit'
      <3> SUFFICES ASSUME NEW r \in W!Sessions
                   PROVE  /\ offset[r] <= Len(file'[r])
                          /\ \A i \in Line : i > Len(file'[r]) => extracted[r][i] = 0
                          /\ \A i \in 1 .. Len(file'[r]) : file'[r][i] \in {"unknown", "separator"} =>
                                /\ offset[r] < i
                                /\ \A j \in i .. MaxRecords : extracted[r][j] = 0
                                /\ \A d \in Collector : Reading(d, r) => walk[d].from < i
        BY <2>1, <2>8, <2>9 DEF LinesFit
      <3>1. offset[r] <= Len(file'[r])
        BY <2>6, <2>11
      <3>2. \A i \in Line : i > Len(file[r]) => extracted[r][i] = 0
        BY DEF TranscriptsInv, LinesFit
      <3>3. \A i \in Line : i > Len(file'[r]) => extracted[r][i] = 0
        BY <2>6, <3>2 DEF Line
      <3>4. ASSUME NEW i \in 1 .. Len(file'[r]), file'[r][i] \in {"unknown", "separator"}
            PROVE  /\ offset[r] < i
                   /\ \A j \in i .. MaxRecords : extracted[r][j] = 0
                   /\ \A d \in Collector : Reading(d, r) => walk[d].from < i
        <4>1. CASE i <= Len(file[r])
          <5>1. i \in 1 .. Len(file[r]) /\ file[r][i] \in {"unknown", "separator"}
            BY <2>6, <3>4, <4>1
          <5>2. QED
            BY <5>1 DEF TranscriptsInv, LinesFit
        <4>2. CASE i > Len(file[r])
          <5>1. \A d \in Collector : Reading(d, r) => walk[d].from + Len(walk[d].chunk) <= Len(file[r])
            BY DEF TranscriptsInv, ReadsFit, Fits
          <5>2. \A d \in Collector : Reading(d, r) => walk[d].from < i
            BY <2>6, <2>9, <4>2, <5>1
          <5>3. \A j \in i .. MaxRecords : j \in Line /\ j > Len(file[r])
            BY <2>6, <4>2 DEF Line
          <5>4. QED
            BY <2>6, <2>11, <3>2, <4>2, <5>2, <5>3
        <4>3. QED
          BY <2>6, <4>1, <4>2
      <3>5. QED
        BY <3>1, <3>3, <3>4
    <2>13. W!NothingSkipped'
      <3>1. \A r \in W!Sessions : \A i \in 1 .. offset[r] : i \in 1 .. Len(file[r]) /\ file'[r][i] = file[r][i]
        BY <2>6, <2>11
      <3>2. QED
        BY <2>1, <3>1 DEF TranscriptsInv, W!NothingSkipped
    <2>14. AllCounted'
      BY <2>1, CountedKept DEF DueTo, Holding, Reading
    <2>15. QED
      BY <2>7, <2>10, <2>12, <2>13, <2>14 DEF TranscriptsInv
  <1>3. QED
    BY <1>1, <1>2 DEF W!WriteStep

\* The rows and the offset a pass commits keep the invariant: the lines it consumed are due to
\* one pass fewer.
LEMMA CommitKeeps ==
    ASSUME TranscriptsInv, NEW c \in Collector, W!Commit(c) PROVE TranscriptsInv'
  <1> USE SizesFit
  <1>1. PICK s \in W!Sessions, q \in Seq(W!RecordKinds), f \in Nat :
          /\ s = walk[c].at /\ q = walk[c].chunk /\ f = walk[c].from
          /\ Reading(c, s) /\ q # <<>> /\ W!Walking(c) /\ ~W!Halts(q)
    BY DEF TranscriptsInv, WalkTyped, Pass, W!Commit, W!Walking, Reading
  <1> DEFINE K == W!Consumed(q)
  <1>2. /\ K \in 0 .. Len(q)
        /\ \A j \in 1 .. Len(q) : q[j] = "separator" => K < j
        /\ \A j \in 1 .. Len(q) : q[j] = "unknown" => K < j
    BY <1>1, ConsumedFits DEF W!Halts
  <1>3. /\ W!InsertRows(s, f, q) /\ offset' = [offset EXCEPT ![s] = f + K]
        /\ oversized' = [oversized EXCEPT ![s] = FALSE]
        /\ W!Onward(c) /\ UNCHANGED <<file, partial, overlaps>>
    BY <1>1 DEF W!Commit
  <1> HIDE DEF K
  <1>4. PICK v \in Pass : /\ walk' = [walk EXCEPT ![c] = v] /\ v.chunk = <<>>
                          /\ \A r \in W!Sessions, i \in Line :
                                PassDue(v, r, i) => PassDue(walk[c], r, i) /\ r # s
    BY <1>1, <1>3, OnwardFits
  <1>5. \A d \in Collector : walk'[d] = IF d = c THEN v ELSE walk[d]
    BY <1>4 DEF TranscriptsInv, WalkTyped
  <1>6. /\ file[s] \in Seq(W!RecordKinds) /\ Len(file[s]) \in Nat /\ Len(file[s]) <= MaxRecords
        /\ f + Len(q) <= Len(file[s]) /\ Len(q) \in Nat
        /\ \A j \in 1 .. Len(q) : q[j] = file[s][f + j]
        /\ \A i \in 1 .. f : file[s][i] = "extract" => extracted[s][i] >= 1
    <2>1. file[s] \in Seq(W!RecordKinds) /\ Len(file[s]) <= MaxRecords
      BY Bounded DEF TranscriptsInv, WalkTyped, W!TypeOK
    <2>2. Fits(walk[c], file[s], extracted[s])
      BY <1>1 DEF TranscriptsInv, ReadsFit
    <2>3. /\ f + Len(q) <= Len(file[s])
          /\ \A j \in 1 .. Len(q) : q[j] = file[s][f + j]
          /\ \A i \in 1 .. f : file[s][i] = "extract" => extracted[s][i] >= 1
      BY <1>1, <2>2, Zenon DEF Fits
    <2>4. QED
      BY <1>1, <2>1, <2>3
  <1>7. /\ \A r \in W!Sessions : offset'[r] = IF r = s THEN f + K ELSE offset[r]
        /\ f + K \in 0 .. MaxRecords /\ f + K <= Len(file[s])
    <2>0. PICK n \in Nat, m \in Nat : n = Len(q) /\ m = Len(file[s])
      BY <1>6
    <2>1. f + K \in 0 .. MaxRecords /\ f + K <= Len(file[s])
      <3>1. f + n <= m /\ m <= MaxRecords /\ K \in 0 .. n
        BY <1>2, <1>6, <2>0
      <3>2. QED
        BY <2>0, <3>1
    <2>2. QED
      BY <1>3, <2>1 DEF TranscriptsInv, WalkTyped, W!TypeOK
  \* The rows that are added.
  <1> DEFINE New(i) == IF i - f \in 1 .. K /\ q[i - f] = "extract" THEN 1 ELSE 0
  <1>8. /\ \A r \in W!Sessions, i \in Line :
              extracted'[r][i] = IF r = s THEN extracted[s][i] + New(i) ELSE extracted[r][i]
        /\ extracted' \in [W!Sessions -> [1 .. MaxRecords -> Nat]]
    <2>1. extracted \in [W!Sessions -> [1 .. MaxRecords -> Nat]]
      BY DEF TranscriptsInv, WalkTyped, W!TypeOK
    <2>2. extracted' = [extracted EXCEPT ![s] = [i \in DOMAIN extracted[s] |-> extracted[s][i] + New(i)]]
      BY <1>3 DEF W!InsertRows, K
    <2>3. \A i : New(i) \in Nat
      OBVIOUS
    <2> HIDE DEF New
    <2>4. [i \in DOMAIN extracted[s] |-> extracted[s][i] + New(i)] \in [1 .. MaxRecords -> Nat]
      BY <2>1, <2>3
    <2>5. QED
      BY <2>1, <2>2, <2>4 DEF Line
  <1>9. \A i \in Line : /\ New(i) \in {0, 1}
                        /\ i <= f => New(i) = 0
                        /\ i > f + K => New(i) = 0
                        /\ i \in f + 1 .. f + K /\ file[s][i] = "extract" => New(i) = 1
    <2> TAKE i \in Line
    <2>1. i \in f + 1 .. f + K => i - f \in 1 .. K /\ i - f \in 1 .. Len(q) /\ f + (i - f) = i
      BY <1>2, <1>6 DEF Line
    <2>2. i \in f + 1 .. f + K => q[i - f] = file[s][i]
      BY <1>6, <2>1
    <2>3. i <= f \/ i > f + K => i - f \notin 1 .. K
      BY <1>2, <1>6 DEF Line
    <2>4. QED
      BY <2>1, <2>2, <2>3
  <1> HIDE DEF New
  <1>10. \A d \in Collector, r \in W!Sessions : Reading(d, r)' => Reading(d, r) /\ walk'[d] = walk[d] /\ d # c
    BY <1>4, <1>5 DEF Reading
  <1>11. \A r \in W!Sessions, i \in Line : /\ extracted[r][i] \in Nat /\ extracted'[r][i] \in Nat
                                           /\ extracted[r][i] <= extracted'[r][i]
    <2> TAKE r \in W!Sessions, i \in Line
    <2>1. extracted[r][i] \in Nat /\ New(i) \in {0, 1}
      BY <1>9 DEF TranscriptsInv, WalkTyped, W!TypeOK, Line
    <2>2. extracted'[r][i] = IF r = s THEN extracted[s][i] + New(i) ELSE extracted[r][i]
      BY <1>8
    <2>3. QED
      BY <2>1, <2>2
  <1>12. WalkTyped'
    <2>1. walk' \in [Collector -> Pass]
      BY <1>4 DEF TranscriptsInv, WalkTyped
    <2>2. offset' \in [W!Sessions -> 0 .. MaxRecords] /\ oversized' \in [W!Sessions -> BOOLEAN]
      BY <1>3, <1>7 DEF TranscriptsInv, WalkTyped, W!TypeOK
    <2>3. W!TypeOK'
      BY <1>3, <1>8, <2>1, <2>2 DEF TranscriptsInv, WalkTyped, W!TypeOK, Pass
    <2>4. QED
      BY <1>3, <1>4, <1>5, <2>1, <2>3 DEF TranscriptsInv, WalkTyped
  <1>13. \A r \in W!Sessions : Len(file[r]) \in Nat /\ Len(file[r]) <= MaxRecords
    BY Bounded DEF TranscriptsInv, WalkTyped, W!TypeOK
  <1>14. ReadsFit'
    <2>1. ASSUME NEW d \in Collector, NEW r \in W!Sessions, Reading(d, r)
          PROVE  Fits(walk[d], file[r], extracted'[r])
      <3>1. Fits(walk[d], file[r], extracted[r])
        BY <2>1 DEF TranscriptsInv, ReadsFit
      <3>2. PICK g \in Nat, n \in Nat : g = walk[d].from /\ n = Len(walk[d].chunk)
        BY DEF TranscriptsInv, WalkTyped, Pass
      <3>3. g <= MaxRecords
        <4>1. g + n <= Len(file[r])
          BY <3>1, <3>2 DEF Fits
        <4>2. QED
          BY <1>13, <3>2, <4>1
      <3>4. \A i \in 1 .. g : i \in Line
        BY <3>3 DEF Line
      <3>5. \A i \in 1 .. g : file[r][i] = "extract" => extracted'[r][i] >= 1
        <4>1. \A i \in 1 .. g : file[r][i] = "extract" => extracted[r][i] >= 1
          BY <3>1, <3>2, Zenon DEF Fits
        <4>2. \A i \in 1 .. g : extracted[r][i] >= 1 => extracted'[r][i] >= 1
          BY <1>11, <3>4
        <4>3. QED
          BY <4>1, <4>2
      <3>6. \A i \in 1 .. walk[d].from : file[r][i] = "extract" => extracted'[r][i] >= 1
        BY <3>2, <3>5
      <3>7. QED
        BY <3>1, <3>6, Zenon DEF Fits
    <2>2. QED
      BY <1>3, <1>10, <2>1 DEF ReadsFit
  <1>15. LinesFit'
    <2>1. ASSUME NEW r \in W!Sessions
          PROVE  /\ offset'[r] <= Len(file[r])
                 /\ \A i \in Line : i > Len(file[r]) => extracted'[r][i] = 0
                 /\ \A i \in 1 .. Len(file[r]) : file[r][i] \in {"unknown", "separator"} =>
                      /\ offset'[r] < i
                      /\ \A j \in i .. MaxRecords : extracted'[r][j] = 0
                      /\ \A d \in Collector : Reading(d, r) => walk[d].from < i
      <3>1. /\ offset[r] <= Len(file[r])
            /\ \A i \in Line : i > Len(file[r]) => extracted[r][i] = 0
            /\ \A i \in 1 .. Len(file[r]) : file[r][i] \in {"unknown", "separator"} =>
                 /\ offset[r] < i
                 /\ \A j \in i .. MaxRecords : extracted[r][j] = 0
                 /\ \A d \in Collector : Reading(d, r) => walk[d].from < i
        BY DEF TranscriptsInv, LinesFit
      <3>2. CASE r # s
        <4>1. offset'[r] = offset[r] /\ \A i \in Line : extracted'[r][i] = extracted[r][i]
          BY <1>7, <1>8, <3>2
        <4>2. \A i \in 1 .. Len(file[r]) : \A j \in i .. MaxRecords : j \in Line
          BY <1>13 DEF Line
        <4>3. QED
          BY <3>1, <4>1, <4>2
      <3>3. CASE r = s
        <4>1. \A i \in Line : i > Len(file[s]) => extracted'[s][i] = 0
          <5> TAKE i \in Line
          <5> HAVE i > Len(file[s])
          <5>1. i > f + K /\ i \in Nat
            BY <1>6, <1>7 DEF Line
          <5>2. New(i) = 0 /\ extracted[s][i] = 0
            BY <1>9, <3>1, <3>3, <5>1
          <5>3. QED
            BY <1>8, <5>2
        <4>2. ASSUME NEW i \in 1 .. Len(file[s]), file[s][i] \in {"unknown", "separator"}
              PROVE  f + K < i
          <5>1. f < i
            <6>1. Reading(c, r) /\ walk[c].from = f
              BY <1>1, <3>3
            <6>2. \A d \in Collector : Reading(d, r) => walk[d].from < i
              BY <3>1, <3>3, <4>2
            <6>3. QED
              BY <6>1, <6>2
          <5>2. CASE i > f + Len(q)
            <6>1. PICK n \in Nat : n = Len(q)
              BY <1>6
            <6>2. K <= n /\ i > f + n /\ K \in Int /\ i \in Int
              BY <1>2, <1>6, <5>2, <6>1
            <6>3. QED
              BY <6>2
          <5>3. CASE i <= f + Len(q)
            <6>1. i - f \in 1 .. Len(q) /\ f + (i - f) = i
              BY <1>6, <5>1, <5>3
            <6>2. q[i - f] \in {"unknown", "separator"}
              BY <1>6, <4>2, <6>1
            <6>3. K < i - f
              BY <1>2, <6>1, <6>2
            <6>4. QED
              BY <1>2, <1>6, <6>3
          <5>4. QED
            BY <1>2, <1>6, <5>2, <5>3
        <4>3. ASSUME NEW i \in 1 .. Len(file[s]), file[s][i] \in {"unknown", "separator"},
                     NEW j \in i .. MaxRecords
              PROVE  extracted'[s][j] = 0
          <5>1. j \in Line /\ j > f + K
            BY <1>2, <1>6, <4>2, <4>3 DEF Line
          <5>2. extracted[s][j] = 0
            BY <3>1, <3>3, <4>3
          <5>3. QED
            BY <1>8, <1>9, <5>1, <5>2
        <4>4. QED
          BY <1>7, <3>1, <3>3, <4>1, <4>2, <4>3
      <3>4. QED
        BY <3>2, <3>3
    <2>2. \A d \in Collector, r \in W!Sessions : Reading(d, r)' => Reading(d, r) /\ walk'[d].from = walk[d].from
      BY <1>10
    <2>3. QED
      BY <1>3, <2>1, <2>2 DEF LinesFit
  <1>16. W!NothingSkipped'
    <2> SUFFICES ASSUME NEW r \in W!Sessions, NEW i \in 1 .. offset'[r], i <= Len(file[r]),
                        file[r][i] = "extract"
                 PROVE  extracted'[r][i] >= 1
      BY <1>3 DEF W!NothingSkipped
    <2>0. i \in Line
      BY <1>13 DEF Line
    <2>1. CASE r # s
      <3>1. i \in 1 .. offset[r]
        BY <1>7, <2>1
      <3>2. extracted[r][i] >= 1
        BY <3>1 DEF TranscriptsInv, W!NothingSkipped
      <3>3. QED
        BY <1>11, <2>0, <3>2
    <2>2. CASE r = s
      <3>1. i \in 1 .. f \/ i \in f + 1 .. f + K
        BY <1>2, <1>6, <1>7, <2>2
      <3>2. CASE i \in 1 .. f
        BY <1>6, <1>11, <2>0, <2>2, <3>2
      <3>3. CASE i \in f + 1 .. f + K
        <4>1. New(i) = 1 /\ extracted[s][i] \in Nat
          BY <1>9, <1>11, <2>0, <2>2, <3>3
        <4>2. QED
          BY <1>8, <2>0, <2>2, <4>1
      <3>4. QED
        BY <3>1, <3>2, <3>3
    <2>3. QED
      BY <2>1, <2>2
  <1>17. AllCounted'
    <2> SUFFICES ASSUME NEW r \in W!Sessions, NEW i \in Line
                 PROVE  /\ extracted'[r][i] <= 1 + overlaps
                        /\ offset'[r] < i => extracted'[r][i] <= overlaps
                        /\ offset'[r] < i \/ Holding(r, i)' =>
                             extracted'[r][i] + Cardinality(DueTo(r, i)') <= 1 + overlaps
      BY <1>3 DEF AllCounted
    <2>1. /\ extracted[r][i] <= 1 + overlaps
          /\ offset[r] < i => extracted[r][i] <= overlaps
          /\ offset[r] < i \/ Holding(r, i) => extracted[r][i] + Cardinality(DueTo(r, i)) <= 1 + overlaps
      BY DEF TranscriptsInv, AllCounted
    <2>2. Holding(r, i)' => Holding(r, i)
      BY <1>10 DEF Holding
    <2>3. DueTo(r, i)' \subseteq DueTo(r, i) /\ (r = s => c \notin DueTo(r, i)')
      BY <1>4, <1>5 DEF DueTo
    <2>4. /\ IsFiniteSet(DueTo(r, i)) /\ Cardinality(DueTo(r, i)) \in Nat
          /\ Cardinality(DueTo(r, i)') \in Nat /\ Cardinality(DueTo(r, i)') <= Cardinality(DueTo(r, i))
      BY <2>3, DueFinite, FS_Subset, FS_CardinalityType
    <2>5. overlaps \in Nat /\ extracted[r][i] \in Nat
      BY <1>11 DEF TranscriptsInv, WalkTyped, W!TypeOK
    <2>6. CASE r # s
      <3>1. offset'[r] = offset[r] /\ extracted'[r][i] = extracted[r][i]
        BY <1>7, <1>8, <2>6
      <3>2. QED
        BY <2>1, <2>2, <2>4, <2>5, <3>1
    <2>7. CASE r = s /\ i <= f
      <3>1. extracted'[r][i] = extracted[r][i]
        BY <1>8, <1>9, <2>5, <2>7
      <3>2. ~(offset'[r] < i)
        BY <1>2, <1>6, <1>7, <2>7 DEF Line
      <3>3. QED
        BY <2>1, <2>2, <2>4, <2>5, <3>1, <3>2
    <2>8. CASE r = s /\ i > f
      <3>1. Holding(r, i)
        BY <1>1, <2>8 DEF Holding
      <3>2. c \in DueTo(r, i)
        BY <1>1, <2>8 DEF DueTo, PassDue, Line, W!Sessions
      <3>3. DueTo(r, i)' \subseteq DueTo(r, i) \ {c}
        BY <2>3, <2>8
      <3>4. IsFiniteSet(DueTo(r, i) \ {c}) /\ Cardinality(DueTo(r, i) \ {c}) = Cardinality(DueTo(r, i)) - 1
        BY <2>4, <3>2, FS_RemoveElement
      <3>5. Cardinality(DueTo(r, i)') <= Cardinality(DueTo(r, i)) - 1
        BY <3>3, <3>4, FS_Subset
      <3>6. extracted'[r][i] = extracted[r][i] + New(i) /\ New(i) \in {0, 1}
        BY <1>8, <1>9, <2>8
      <3>7. offset'[r] < i => New(i) = 0
        BY <1>7, <1>9, <2>8
      <3>8. QED
        BY <2>1, <2>4, <2>5, <3>1, <3>5, <3>6, <3>7
    <2>9. QED
      BY <2>6, <2>7, <2>8 DEF Line
  <1>18. QED
    BY <1>12, <1>14, <1>15, <1>16, <1>17 DEF TranscriptsInv

\* Every step of the agents and the collectors keeps the invariant.
LEMMA TranscriptsStep ==
    ASSUME TranscriptsInv, W!Next PROVE TranscriptsInv'
  <1>1. ASSUME NEW c \in Collector, W!SkipOversized(c) \/ W!NothingNew(c) PROVE TranscriptsInv'
    <2>1. W!Walking(c) /\ W!Onward(c) /\ UNCHANGED <<file, partial, offset, extracted, overlaps>>
            /\ oversized' \in [W!Sessions -> BOOLEAN]
      BY <1>1 DEF W!SkipOversized, W!NothingNew, TranscriptsInv, WalkTyped, W!TypeOK
    <2>2. QED
      BY <2>1, OnwardFits, WalkKept
  <1>2. ASSUME NEW c \in Collector, W!Abandon(c) PROVE TranscriptsInv'
    <2>1. walk' = [walk EXCEPT ![c] = W!Resting] /\ UNCHANGED <<file, partial, offset, oversized, extracted, overlaps>>
      BY <1>2 DEF W!Abandon
    <2>2. W!Resting \in Pass /\ W!Resting.chunk = <<>> /\ W!Resting.at = 0
      BY SizesFit DEF W!Resting, Pass
    <2>3. \A s, i : ~PassDue(W!Resting, s, i)
      BY <2>2 DEF PassDue
    <2>4. oversized' \in [W!Sessions -> BOOLEAN]
      BY <2>1 DEF TranscriptsInv, WalkTyped, W!TypeOK
    <2>5. QED
      BY <2>1, <2>2, <2>3, <2>4, WalkKept
  <1>3. QED
    BY <1>1, <1>2, StartKeeps, ReadKeeps, CommitKeeps, LinesWritten DEF W!Next, W!WalkStep, W!Halt

-----------------------------------------------------------------------------
(* Registry *)

\* What the edits have left to write.
Opts == {<<>>, <<"tier">>, <<"try-schedule">>, <<"tier", "try-schedule">>}
Wires == {<<"wire">> \o o : o \in Opts}
Applications == {<<"apply">> \o o : o \in Wires}
Promptings == {<<"prompt">> \o o : o \in Wires}
Creations == {<<"create">> \o o : o \in Promptings}
Removals == {<<"unwire", "unapply", "unschedule", "untier">>, <<"unapply", "unschedule", "untier">>,
             <<"unschedule", "untier">>, <<"untier">>}
Authorings == {<<"author-spec", "author-prompt">>, <<"author-prompt">>}
Plans == Opts \cup Wires \cup Applications \cup Promptings \cup Creations \cup Removals \cup Authorings

\* The write that comes next.
StageOf(t) == IF t = <<>> THEN "quiet" ELSE Head(t)
Stage == StageOf(steps)

\* The stages that may follow another.
After(w) ==
    CASE w = "create" -> {"prompt"}
      [] w = "prompt" -> {"wire"}
      [] w = "apply" -> {"wire"}
      [] w \in {"wire", "tier", "try-schedule"} -> {"tier", "try-schedule", "quiet"}
      [] w = "unwire" -> {"unapply"}
      [] w = "unapply" -> {"unschedule"}
      [] w = "unschedule" -> {"untier"}
      [] w \in {"untier", "author-prompt"} -> {"quiet"}
      [] w = "author-spec" -> {"author-prompt"}
      [] OTHER -> {}

\* The writes an edit is made of.
Writes == {"create", "prompt", "apply", "wire", "tier", "try-schedule", "unwire", "unapply",
           "unschedule", "untier", "author-spec", "author-prompt"}

\* A step put before a sequence of steps.
LEMMA OneMore ==
    ASSUME NEW T, NEW w \in T, NEW o \in Seq(T)
    PROVE  /\ <<w>> \o o \in Seq(T) /\ <<w>> \o o # <<>>
           /\ Head(<<w>> \o o) = w /\ Tail(<<w>> \o o) = o
  OBVIOUS

\* The plans by their first step.
LEMMA PlanShapes ==
    /\ Opts \subseteq Seq(Writes) /\ Wires \subseteq Seq(Writes) /\ Promptings \subseteq Seq(Writes)
    /\ \A t \in Wires : t # <<>> /\ Head(t) = "wire" /\ Tail(t) \in Opts
    /\ \A t \in Applications : t # <<>> /\ Head(t) = "apply" /\ Tail(t) \in Wires
    /\ \A t \in Promptings : t # <<>> /\ Head(t) = "prompt" /\ Tail(t) \in Wires
    /\ \A t \in Creations : t # <<>> /\ Head(t) = "create" /\ Tail(t) \in Promptings
  <1> DEFINE More(w, S) == {<<w>> \o o : o \in S}
  <1>1. \A w \in Writes, S \in SUBSET Seq(Writes) :
          /\ More(w, S) \subseteq Seq(Writes)
          /\ \A t \in More(w, S) : t # <<>> /\ Head(t) = w /\ Tail(t) \in S
    <2> TAKE w \in Writes, S \in SUBSET Seq(Writes)
    <2>1. \A o \in S : /\ <<w>> \o o \in Seq(Writes) /\ <<w>> \o o # <<>>
                       /\ Head(<<w>> \o o) = w /\ Tail(<<w>> \o o) = o
      BY OneMore
    <2>2. QED
      BY <2>1
  <1>2. Opts \in SUBSET Seq(Writes)
    BY DEF Opts, Writes
  <1>3. Wires = More("wire", Opts) /\ Applications = More("apply", Wires)
          /\ Promptings = More("prompt", Wires) /\ Creations = More("create", Promptings)
    BY DEF Wires, Applications, Promptings, Creations
  <1>4. {"wire", "apply", "prompt", "create"} \subseteq Writes
    BY DEF Writes
  <1> HIDE DEF More
  <1>5. Wires \in SUBSET Seq(Writes) /\ \A t \in Wires : t # <<>> /\ Head(t) = "wire" /\ Tail(t) \in Opts
    BY <1>1, <1>2, <1>3, <1>4
  <1>6. Promptings \in SUBSET Seq(Writes)
          /\ \A t \in Promptings : t # <<>> /\ Head(t) = "prompt" /\ Tail(t) \in Wires
    BY <1>1, <1>3, <1>4, <1>5
  <1>7. /\ \A t \in Applications : t # <<>> /\ Head(t) = "apply" /\ Tail(t) \in Wires
        /\ \A t \in Creations : t # <<>> /\ Head(t) = "create" /\ Tail(t) \in Promptings
    BY <1>1, <1>3, <1>4, <1>5, <1>6
  <1>8. QED
    BY <1>2, <1>5, <1>6, <1>7

\* A plan that is not at its end goes on with a plan.
LEMMA PlanSteps ==
    ASSUME NEW t \in Plans, t # <<>>
    PROVE  Head(t) \in Writes /\ Tail(t) \in Plans /\ StageOf(Tail(t)) \in After(Head(t))
  <1> USE DEF StageOf, After, Writes
  <1>0. \A o \in Opts : o = <<>> \/ Head(o) \in {"tier", "try-schedule"}
    BY DEF Opts
  <1>1. CASE t \in Opts
    <2>1. Head(t) \in {"tier", "try-schedule"} /\ Tail(t) \in Opts
      <3>1. CASE t = <<"tier">>
        BY <3>1 DEF Opts
      <3>2. CASE t = <<"try-schedule">>
        BY <3>2 DEF Opts
      <3>3. CASE t = <<"tier", "try-schedule">>
        <4>1. Tail(t) = <<"try-schedule">>
          BY <3>3
        <4>2. QED
          BY <3>3, <4>1 DEF Opts
      <3>4. QED
        BY <1>1, <3>1, <3>2, <3>3 DEF Opts
    <2>2. QED
      BY <1>0, <2>1 DEF Plans
  <1>2. CASE t \in Wires
    BY <1>0, <1>2, PlanShapes DEF Plans
  <1>3. CASE t \in Applications
    BY <1>3, PlanShapes DEF Plans
  <1>4. CASE t \in Promptings
    BY <1>4, PlanShapes DEF Plans
  <1>5. CASE t \in Creations
    BY <1>5, PlanShapes DEF Plans
  <1>6. CASE t \in Removals
    <2>1. CASE t = <<"unwire", "unapply", "unschedule", "untier">>
      <3>1. Tail(t) = <<"unapply", "unschedule", "untier">> /\ Head(t) = "unwire"
        BY <2>1
      <3>2. <<"unapply", "unschedule", "untier">> # <<>> /\ Head(<<"unapply", "unschedule", "untier">>) = "unapply"
        OBVIOUS
      <3>3. QED
        BY <3>1, <3>2 DEF Plans, Removals
    <2>2. CASE t = <<"unapply", "unschedule", "untier">>
      <3>1. Tail(t) = <<"unschedule", "untier">> /\ Head(t) = "unapply"
        BY <2>2
      <3>2. <<"unschedule", "untier">> # <<>> /\ Head(<<"unschedule", "untier">>) = "unschedule"
        OBVIOUS
      <3>3. QED
        BY <3>1, <3>2 DEF Plans, Removals
    <2>3. CASE t = <<"unschedule", "untier">>
      <3>1. Tail(t) = <<"untier">> /\ Head(t) = "unschedule"
        BY <2>3
      <3>2. <<"untier">> # <<>> /\ Head(<<"untier">>) = "untier"
        OBVIOUS
      <3>3. QED
        BY <3>1, <3>2 DEF Plans, Removals
    <2>4. CASE t = <<"untier">>
      <3>1. Tail(t) = <<>> /\ Head(t) = "untier"
        BY <2>4
      <3>2. QED
        BY <3>1 DEF Plans, Opts
    <2>5. QED
      BY <1>6, <2>1, <2>2, <2>3, <2>4 DEF Removals
  <1>7. CASE t \in Authorings
    <2>1. CASE t = <<"author-spec", "author-prompt">>
      <3>1. Tail(t) = <<"author-prompt">> /\ Head(t) = "author-spec"
        BY <2>1
      <3>2. <<"author-prompt">> # <<>> /\ Head(<<"author-prompt">>) = "author-prompt"
        OBVIOUS
      <3>3. QED
        BY <3>1, <3>2 DEF Plans, Authorings
    <2>2. CASE t = <<"author-prompt">>
      <3>1. Tail(t) = <<>> /\ Head(t) = "author-prompt"
        BY <2>2
      <3>2. QED
        BY <3>1 DEF Plans, Opts
    <2>3. QED
      BY <1>7, <2>1, <2>2 DEF Authorings
  <1>8. QED
    BY <1>1, <1>2, <1>3, <1>4, <1>5, <1>6, <1>7 DEF Plans

\* The edits begin with plans.
LEMMA PlansBegin ==
    ASSUME NEW o \in Opts
    PROVE  /\ <<"apply", "wire">> \o o \in Plans /\ StageOf(<<"apply", "wire">> \o o) = "apply"
           /\ <<"create", "prompt", "wire">> \o o \in Plans
           /\ StageOf(<<"create", "prompt", "wire">> \o o) = "create"
  <1>1. o \in Seq(Writes)
    BY PlanShapes
  <1>2. <<"apply", "wire">> \o o = <<"apply">> \o (<<"wire">> \o o)
    BY <1>1 DEF Writes
  <1>3. <<"create", "prompt", "wire">> \o o = <<"create">> \o (<<"prompt">> \o (<<"wire">> \o o))
    BY <1>1 DEF Writes
  <1>4. <<"wire">> \o o \in Wires
    BY DEF Wires
  <1>5. <<"apply", "wire">> \o o \in Applications
    BY <1>2, <1>4 DEF Applications
  <1>6. <<"create", "prompt", "wire">> \o o \in Creations
    BY <1>3, <1>4 DEF Promptings, Creations
  <1>7. QED
    BY <1>5, <1>6, PlanShapes DEF Plans, StageOf

\* The other plans the edits begin with.
LEMMA OtherPlansBegin ==
    /\ G!Nothing \in Plans /\ StageOf(G!Nothing) = "quiet" /\ G!Nothing \in Opts
    /\ \A t, s \in BOOLEAN : G!Options(t, s) \in Opts
    /\ <<"unwire", "unapply", "unschedule", "untier">> \in Plans
    /\ StageOf(<<"unwire", "unapply", "unschedule", "untier">>) = "unwire"
    /\ <<"author-spec", "author-prompt">> \in Plans
    /\ StageOf(<<"author-spec", "author-prompt">>) = "author-spec"
  <1>1. \A t, s \in BOOLEAN : G!Options(t, s) \in Opts
    <2> TAKE t \in BOOLEAN, s \in BOOLEAN
    <2>2. <<"tier">> \in Seq(Writes) /\ <<"try-schedule">> \in Seq(Writes) /\ <<>> \in Seq(Writes)
      BY DEF Writes
    <2>1. <<"tier">> \o <<"try-schedule">> = <<"tier", "try-schedule">>
      <3> DEFINE x == <<"tier">> \o <<"try-schedule">>
      <3>1. Len(<<"tier">>) = 1 /\ Len(<<"try-schedule">>) = 1 /\ <<"tier">>[1] = "tier"
              /\ <<"try-schedule">>[1] = "try-schedule"
        OBVIOUS
      <3>2. x \in Seq(Writes) /\ Len(x) = 2 /\ x[1] = "tier" /\ x[2] = "try-schedule"
        BY <2>2, <3>1, ConcatProperties
      <3> HIDE DEF x
      <3>3. x = <<"tier", "try-schedule">>
        BY <3>2
      <3>4. QED
        BY <3>3 DEF x
    <2>2a. <<"tier">> \o <<>> = <<"tier">> /\ <<>> \o <<"try-schedule">> = <<"try-schedule">> /\ <<>> \o <<>> = <<>>
      BY <2>2, ConcatEmptySeq
    <2>3. QED
      BY <2>1, <2>2a DEF G!Options, Opts
  <1>2. QED
    BY <1>1 DEF G!Nothing, StageOf, Plans, Opts, Removals, Authorings

\* A project's stanza.
RegRec == [listed : BOOLEAN, cadences : SUBSET Loop, schedules : SUBSET Loop, tiers : SUBSET Loop,
           autorun : BOOLEAN]

\* A project and a loop: what the files say of them, as far as an edit under way has come.
PairFit(p, l, r, named, made, stage, pair, broken) ==
    LET on == l \in r.cadences
        ours(S) == stage \in S /\ pair = <<p, l>>
        spoilt == <<p, l>> \in broken
    IN  /\ on => l \in made /\ ~(stage \in {"create", "prompt"} /\ pair[2] = l)
        /\ l \in r.tiers => on \/ spoilt \/ ours({"unapply", "unschedule", "untier"})
        /\ l \in r.schedules => on \/ spoilt \/ ours({"unapply", "unschedule"})
        /\ \/ spoilt \/ ours({"prompt", "wire", "unapply"})
           \/ (p \in named => on) /\ (on => p \in named \/ l = Starter)
        /\ ours({"prompt", "wire", "tier", "try-schedule"}) => p \in named
        /\ ours({"tier", "try-schedule"}) => on
        /\ ours({"unapply", "unschedule", "untier"}) => ~on

\* The files on every pair of a project and a loop.
PairsFit ==
    \A p \in G!Listed, l \in Loop :
        PairFit(p, l, reg[p], applies[l], cadence, Stage, editing, torn)

\* What an edit under way has left to write, and of which pair.
EditFit ==
    /\ steps \in Plans
    /\ Stage = "quiet" => steps = <<>> /\ editing = <<>>
    /\ Stage # "quiet" => /\ steps # <<>> /\ Stage = Head(steps) /\ Stage \in Writes
                          /\ editing \in Repo \X Loop
                          /\ Stage \notin {"author-spec", "author-prompt"} => editing[1] \in G!Listed

\* A cadence file has its prompt, except where an edit is between the two or died there.
LoopsFit ==
    /\ Starter \in cadence
    /\ Stage = "create" => editing[2] \notin cadence
    /\ Stage = "apply" => editing[2] \in cadence
    /\ \A l \in cadence : l \in prompt \/ l \in halfMade \/ (Stage = "prompt" /\ editing[2] = l)

\* The invariant of the registry.
RegistryInv == G!TypeOK /\ EditFit /\ LoopsFit /\ PairsFit

\* What is claimed of the registry.
RegistryGood == G!TypeOK /\ G!ValidBetweenEdits /\ G!WiredIsRunnable /\ G!AppliesAgree

\* The invariant gives the three properties of the files.
LEMMA RegistryRight == RegistryInv => RegistryGood
  <1> SUFFICES ASSUME RegistryInv PROVE RegistryGood
    OBVIOUS
  <1> USE DEF RegistryInv
  <1>0. G!Quiet => Stage = "quiet"
    BY DEF G!Quiet, G!Nothing, Stage, StageOf
  <1>1. G!ValidBetweenEdits
    <2> SUFFICES ASSUME G!Quiet
                 PROVE  /\ G!validate \subseteq {<<"override", x[1], x[2]>> : x \in torn}
                                                 \cup {<<"no prompt", l>> : l \in halfMade}
                        /\ \A p \in G!Listed : \A l \in reg[p].tiers \ reg[p].cadences : <<p, l>> \in torn
      BY DEF G!ValidBetweenEdits
    <2>1. \A p \in G!Listed, l \in Loop :
            /\ l \in reg[p].tiers \ reg[p].cadences => <<p, l>> \in torn
            /\ l \in reg[p].schedules \ reg[p].cadences => <<p, l>> \in torn
      BY <1>0 DEF PairsFit, PairFit
    <2>2. \A p \in G!Listed : reg[p].tiers \subseteq Loop
      BY DEF G!TypeOK, G!Listed
    <2>3. \A m \in cadence : applies[m] \subseteq G!Listed
      BY DEF G!TypeOK
    <2>4. \A l \in cadence \ prompt : l \in halfMade
      BY <1>0 DEF LoopsFit
    <2>5. \A y \in G!Listed \X Loop : y[2] \in reg[y[1]].schedules \ reg[y[1]].cadences =>
             y \in torn /\ <<"override", y[1], y[2]>> \in {<<"override", x[1], x[2]>> : x \in torn}
      <3> TAKE y \in G!Listed \X Loop
      <3>1. y = <<y[1], y[2]>> /\ y[1] \in G!Listed /\ y[2] \in Loop
        OBVIOUS
      <3>2. QED
        BY <2>1, <3>1
    <2>6. QED
      BY <2>1, <2>2, <2>3, <2>4, <2>5 DEF G!validate
  <1>2. G!WiredIsRunnable
    <2>1. \A p \in G!Listed : reg[p].cadences \subseteq Loop
      BY DEF G!TypeOK, G!Listed
    <2>2. \A p \in G!Listed, l \in Loop : l \in reg[p].cadences =>
             l \in cadence /\ ~(Stage \in {"create", "prompt"} /\ editing[2] = l)
      BY DEF PairsFit, PairFit
    <2>3. QED
      BY <2>1, <2>2 DEF LoopsFit, G!WiredIsRunnable
  <1>3. G!AppliesAgree
    BY <1>0 DEF PairsFit, PairFit, G!AppliesAgree
  <1>4. QED
    BY <1>1, <1>2, <1>3 DEF RegistryGood

\* The founders' registry satisfies the invariant.
LEMMA RegistryStarts == G!Init => RegistryInv
  <1> SUFFICES ASSUME G!Init PROVE RegistryInv
    OBVIOUS
  <1>1. steps = <<>> /\ editing = <<>> /\ Stage = "quiet" /\ steps \in Plans
    BY OtherPlansBegin DEF G!Init, G!Nothing, Stage, StageOf
  <1>2. \A p \in Repo : /\ p \in Founders => reg[p] = [listed |-> TRUE, cadences |-> {Starter},
                               schedules |-> {}, tiers |-> {}, autorun |-> FALSE]
                        /\ p \notin Founders => reg[p] = G!Unlisted
    BY DEF G!Init, G!Unlisted
  <1>3. G!Listed = Founders
    BY <1>2, Wired DEF G!Listed, G!Unlisted
  <1>4. reg \in [Repo -> RegRec]
    <2>1. \A p \in Repo : reg[p] \in RegRec
      <3>1. {Starter} \in SUBSET Loop /\ {} \in SUBSET Loop
        BY Wired
      <3>2. [listed |-> TRUE, cadences |-> {Starter}, schedules |-> {}, tiers |-> {}, autorun |-> FALSE] \in RegRec
        BY <3>1 DEF RegRec
      <3>3. G!Unlisted \in RegRec
        BY <3>1 DEF RegRec, G!Unlisted
      <3>4. QED
        BY <1>2, <3>2, <3>3
    <2> DEFINE R0(p) == IF p \in Founders
                THEN [G!Unlisted EXCEPT !.listed = TRUE, !.cadences = {Starter}] ELSE G!Unlisted
    <2>a. reg = [p \in Repo |-> R0(p)]
      BY DEF G!Init
    <2> HIDE DEF R0
    <2>2. reg = [p \in Repo |-> reg[p]]
      BY <2>a
    <2>3. QED
      BY <2>1, <2>2
  <1>5. G!TypeOK
    <2>1. applies \in [Loop -> SUBSET G!Listed] /\ \A l \in Loop \ cadence : applies[l] = {}
      BY <1>3 DEF G!Init
    <2>2. cadence \subseteq Loop /\ prompt \subseteq Loop /\ library \subseteq Loop
            /\ torn \subseteq Repo \X Loop /\ halfMade \subseteq Loop
      BY Wired DEF G!Init
    <2>3. \A p \in Repo \ G!Listed : reg[p] = G!Unlisted
      BY <1>2, <1>3
    <2>4. QED
      BY <1>4, <2>1, <2>2, <2>3, Zenon DEF G!TypeOK, RegRec
  <1>6. PairsFit
    <2>1. \A p \in Founders : /\ reg[p].cadences = {Starter}
                             /\ reg[p].schedules = {} /\ reg[p].tiers = {}
      BY <1>2, Wired
    <2>2. /\ \A l \in Loop : applies[l] = IF l = Starter THEN Founders ELSE {}
          /\ cadence = {Starter} /\ torn = {}
      BY DEF G!Init
    <2>3. QED
      BY <1>1, <1>3, <2>1, <2>2 DEF PairsFit, PairFit
  <1>7. QED
    BY <1>1, <1>5, <1>6 DEF RegistryInv, EditFit, LoopsFit, G!Init

\* What a stanza of the registry is.
LEMMA RegTypes ==
    ASSUME G!TypeOK
    PROVE  /\ reg \in [Repo -> RegRec]
           /\ \A p \in G!Listed : reg[p] \in RegRec /\ reg[p].listed = TRUE
           /\ G!Listed \subseteq Repo
  BY DEF G!TypeOK, RegRec, G!Listed

\* One stanza of the registry is written.
LEMMA StanzaWritten ==
    ASSUME RegistryInv, NEW p \in G!Listed, NEW r \in RegRec, r.listed = TRUE,
           reg' = [reg EXCEPT ![p] = r], UNCHANGED <<applies, cadence, prompt, library>>,
           torn' \subseteq Repo \X Loop, halfMade' \subseteq Loop
    PROVE  /\ G!TypeOK' /\ G!Listed' = G!Listed
           /\ \A q \in G!Listed : reg'[q] = IF q = p THEN r ELSE reg[q]
  <1> USE DEF RegistryInv
  <1>1. reg \in [Repo -> RegRec] /\ p \in Repo
    BY RegTypes DEF G!Listed
  <1>2. \A q \in Repo : reg'[q] = IF q = p THEN r ELSE reg[q]
    BY <1>1
  <1>3. G!Listed' = G!Listed
    BY <1>2 DEF G!Listed
  <1>4. reg' \in [Repo -> RegRec]
    BY <1>1
  <1>5. \A q \in Repo \ G!Listed : reg'[q] = G!Unlisted
    BY <1>2 DEF G!TypeOK, G!Listed
  <1>6. G!TypeOK'
    BY <1>3, <1>4, <1>5 DEF G!TypeOK, RegRec
  <1>7. QED
    BY <1>2, <1>3, <1>6 DEF G!Listed

\* One cadence file is written.
LEMMA CadenceWritten ==
    ASSUME RegistryInv, NEW l \in Loop, NEW A \in SUBSET G!Listed,
           applies' = [applies EXCEPT ![l] = A], cadence' = cadence \cup {l},
           UNCHANGED <<reg, prompt, library, torn, halfMade>>
    PROVE  /\ G!TypeOK' /\ G!Listed' = G!Listed
           /\ \A m \in Loop : applies'[m] = IF m = l THEN A ELSE applies[m]
  <1> USE DEF RegistryInv
  <1>1. G!Listed' = G!Listed
    BY DEF G!Listed
  <1>2. applies \in [Loop -> SUBSET G!Listed]
    BY DEF G!TypeOK
  <1>3. \A m \in Loop : applies'[m] = IF m = l THEN A ELSE applies[m]
    BY <1>2
  <1>4. applies' \in [Loop -> SUBSET G!Listed]
    BY <1>2
  <1>5. G!TypeOK'
    BY <1>1, <1>3, <1>4 DEF G!TypeOK
  <1>6. QED
    BY <1>1, <1>3, <1>5

\* An edit that begins, before its first write, keeps the invariant.
LEMMA BeginKeeps ==
    ASSUME RegistryInv, NEW p \in Repo, NEW l \in Loop, NEW t \in Plans, t # <<>>,
           G!Begin(p, l, t), StageOf(t) \in {"create", "apply", "unwire", "author-spec"},
           StageOf(t) # "author-spec" => p \in G!Listed,
           StageOf(t) = "create" => l \notin cadence, StageOf(t) = "apply" => l \in cadence
    PROVE  RegistryInv'
  <1> USE DEF RegistryInv
  <1>1. /\ steps = <<>> /\ steps' = t /\ editing' = <<p, l>>
        /\ UNCHANGED <<reg, applies, cadence, prompt, library, torn, halfMade>>
    BY DEF G!Begin, G!Quiet, G!Nothing, G!files
  <1>2. Stage = "quiet" /\ Stage' = StageOf(t) /\ Stage' = Head(t)
    BY <1>1 DEF Stage, StageOf
  <1>3. G!TypeOK' /\ G!Listed' = G!Listed
    BY <1>1 DEF G!TypeOK, G!Listed
  <1>4. Stage' \in {"create", "apply", "unwire", "author-spec"}
    BY <1>2
  <1>5. EditFit'
    BY <1>1, <1>2, <1>3, <1>4 DEF EditFit, Writes
  <1>6. LoopsFit'
    BY <1>1, <1>2, <1>4 DEF LoopsFit
  <1>7. PairsFit'
    <2> SUFFICES ASSUME NEW q \in G!Listed, NEW m \in Loop
                 PROVE  PairFit(q, m, reg[q], applies[m], cadence, Stage', editing', torn)
      BY <1>1, <1>3 DEF PairsFit
    <2>1. PairFit(q, m, reg[q], applies[m], cadence, Stage, editing, torn)
      BY DEF PairsFit
    <2>2. editing'[2] = l
      BY <1>1
    <2>3. QED
      BY <1>2, <1>4, <2>1, <2>2 DEF PairFit
  <1>8. QED
    BY <1>3, <1>5, <1>6, <1>7

\* Where the edit under way stands before and after a write.
LEMMA WriteMoves ==
    ASSUME RegistryInv, G!Write
    PROVE  \E w \in Writes, p \in Repo, l \in Loop, n \in After(Stage) :
             /\ Stage = w /\ w = Head(steps) /\ editing = <<p, l>> /\ Stage' = n
             /\ steps' = Tail(steps) /\ editing' = IF n = "quiet" THEN <<>> ELSE <<p, l>>
             /\ w \notin {"author-spec", "author-prompt"} => p \in G!Listed
             /\ G!Listed' = G!Listed => EditFit'
  <1> USE DEF RegistryInv
  <1>1. steps # <<>> /\ steps' = Tail(steps)
          /\ editing' = IF Tail(steps) = <<>> THEN <<>> ELSE editing
    BY Zenon DEF G!Write, G!Quiet, G!Nothing
  <1>2. steps \in Plans /\ Stage = Head(steps)
    BY <1>1 DEF EditFit, Stage, StageOf
  <1>3. Stage \in Writes /\ Tail(steps) \in Plans /\ StageOf(Tail(steps)) \in After(Stage)
    BY <1>1, <1>2, PlanSteps
  <1>4. PICK p \in Repo, l \in Loop :
          editing = <<p, l>> /\ (Stage \notin {"author-spec", "author-prompt"} => p \in G!Listed)
    <2>1. Stage # "quiet"
      BY <1>3 DEF Writes
    <2>2. editing \in Repo \X Loop /\ (Stage \notin {"author-spec", "author-prompt"} => editing[1] \in G!Listed)
      BY <2>1 DEF EditFit
    <2>3. QED
      BY <2>2
  <1>5. Stage' = StageOf(Tail(steps))
    BY <1>1 DEF Stage
  <1>6. Stage' \in {"prompt", "wire", "tier", "try-schedule", "unapply", "unschedule", "untier",
                    "author-prompt", "quiet"}
          /\ (Stage' = "author-prompt" => Stage = "author-spec")
          /\ (Stage \in {"author-spec", "author-prompt"} => Stage' \in {"author-prompt", "quiet"})
    BY <1>3, <1>5 DEF After, Writes
  <1>7. Tail(steps) = <<>> <=> Stage' = "quiet"
    <2>1. Tail(steps) = <<>> => Stage' = "quiet"
      BY <1>5 DEF StageOf
    <2>2. Tail(steps) # <<>> => Stage' \in Writes
      BY <1>3, <1>5, PlanSteps DEF StageOf
    <2>3. QED
      BY <2>1, <2>2 DEF Writes
  <1>8. editing' = IF Stage' = "quiet" THEN <<>> ELSE <<p, l>>
    BY <1>1, <1>4, <1>7
  <1>9. ASSUME G!Listed' = G!Listed PROVE EditFit'
    <2>1. Stage' # "quiet" => Stage' = Head(steps') /\ Stage' \in Writes
      BY <1>1, <1>5, <1>6, <1>7 DEF StageOf, Writes
    <2>2. editing' # <<>> => editing' \in Repo \X Loop /\ editing'[1] = p
      BY <1>8
    <2>3. Stage' # "quiet" => editing' \in Repo \X Loop /\ editing'[1] = p
      BY <1>8
    <2>4. QED
      BY <1>1, <1>3, <1>4, <1>6, <1>7, <1>8, <1>9, <2>1, <2>3 DEF EditFit
  <1>10. QED
    BY <1>1, <1>2, <1>3, <1>4, <1>5, <1>8, <1>9

\* What a write of the registry makes of the project's stanza.
Rewritten(w, r, l) ==
    CASE w = "wire"       -> [r EXCEPT !.cadences = @ \cup {l}]
      [] w = "unwire"     -> [r EXCEPT !.cadences = @ \ {l}]
      [] w = "tier"       -> [r EXCEPT !.tiers = @ \cup {l}]
      [] w = "untier"     -> [r EXCEPT !.tiers = @ \ {l}]
      [] w = "unschedule" -> [r EXCEPT !.schedules = @ \ {l}]
      [] OTHER -> IF r.autorun THEN [r EXCEPT !.schedules = @ \cup {l}] ELSE r

\* The writes that rewrite the registry.
RegistryWrites == {"wire", "unwire", "tier", "untier", "unschedule", "try-schedule"}

\* What a rewritten stanza lists.
LEMMA RewrittenFacts ==
    ASSUME NEW w \in RegistryWrites, NEW r \in RegRec, NEW l \in Loop
    PROVE  /\ Rewritten(w, r, l) \in RegRec /\ Rewritten(w, r, l).listed = r.listed
           /\ \A m \in Loop :
                /\ m \in Rewritten(w, r, l).cadences <=>
                      (m \in r.cadences /\ ~(w = "unwire" /\ m = l)) \/ (w = "wire" /\ m = l)
                /\ m \in Rewritten(w, r, l).tiers <=>
                      (m \in r.tiers /\ ~(w = "untier" /\ m = l)) \/ (w = "tier" /\ m = l)
                /\ m \in Rewritten(w, r, l).schedules <=>
                      \/ m \in r.schedules /\ ~(w = "unschedule" /\ m = l)
                      \/ w = "try-schedule" /\ r.autorun /\ m = l
  <1>1. CASE w = "wire"
    BY <1>1 DEF Rewritten, RegRec
  <1>2. CASE w = "unwire"
    BY <1>2 DEF Rewritten, RegRec
  <1>3. CASE w = "tier"
    BY <1>3 DEF Rewritten, RegRec
  <1>4. CASE w = "untier"
    BY <1>4 DEF Rewritten, RegRec
  <1>5. CASE w = "unschedule"
    BY <1>5 DEF Rewritten, RegRec
  <1>6. CASE w = "try-schedule"
    BY <1>6 DEF Rewritten, RegRec
  <1>7. QED
    BY <1>1, <1>2, <1>3, <1>4, <1>5, <1>6 DEF RegistryWrites

\* A write of the registry by the engine rewrites the one stanza.
LEMMA WriteRegistryIs ==
    ASSUME RegistryInv, NEW w \in RegistryWrites, NEW p \in G!Listed, NEW l \in Loop,
           G!WriteRegistry(w, p, l)
    PROVE  reg' = [reg EXCEPT ![p] = Rewritten(w, reg[p], l)]
  <1>0. reg \in [Repo -> RegRec] /\ p \in Repo
    BY RegTypes DEF RegistryInv, G!Listed
  <1>1. CASE w = "wire"
    BY <1>0, <1>1 DEF Rewritten, G!WriteRegistry
  <1>2. CASE w = "unwire"
    BY <1>0, <1>2 DEF Rewritten, G!WriteRegistry
  <1>3. CASE w = "tier"
    BY <1>0, <1>3 DEF Rewritten, G!WriteRegistry
  <1>4. CASE w = "untier"
    BY <1>0, <1>4 DEF Rewritten, G!WriteRegistry
  <1>5. CASE w = "unschedule"
    BY <1>0, <1>5 DEF Rewritten, G!WriteRegistry
  <1>6. CASE w = "try-schedule"
    <2>1. CASE reg[p].autorun
      BY <1>0, <1>6, <2>1 DEF Rewritten, G!WriteRegistry
    <2>2. CASE ~reg[p].autorun
      <3>1. reg' = reg /\ Rewritten(w, reg[p], l) = reg[p]
        BY <1>6, <2>2 DEF Rewritten, G!WriteRegistry
      <3>2. QED
        BY <1>0, <3>1
    <2>3. QED
      BY <2>1, <2>2
  <1>7. QED
    BY <1>1, <1>2, <1>3, <1>4, <1>5, <1>6 DEF RegistryWrites

\* Every write of an edit under way keeps the invariant.
LEMMA WriteKeeps == RegistryInv /\ G!Write => RegistryInv'
  <1> SUFFICES ASSUME RegistryInv, G!Write PROVE RegistryInv'
    OBVIOUS
  <1>1. PICK w \in Writes, p \in Repo, l \in Loop, n \in After(Stage) :
             /\ Stage = w /\ w = Head(steps) /\ editing = <<p, l>> /\ Stage' = n
             /\ steps' = Tail(steps) /\ editing' = IF n = "quiet" THEN <<>> ELSE <<p, l>>
             /\ w \notin {"author-spec", "author-prompt"} => p \in G!Listed
             /\ G!Listed' = G!Listed => EditFit'
    BY WriteMoves
  <1>2. /\ torn' = IF w = "wire" THEN torn \ {<<p, l>>} ELSE torn
        /\ halfMade' = IF w \in {"prompt", "author-prompt"} THEN halfMade \ {l} ELSE halfMade
    BY <1>1, Zenon DEF G!Write
  <1>3. \/ w \in RegistryWrites /\ G!WriteRegistry(w, p, l)
        \/ w \in {"create", "apply"} /\ G!WriteCadence(w, p, l)
        \/ w = "unapply" /\ l \in cadence /\ G!WriteCadence(w, p, l)
        \/ w = "unapply" /\ l \notin cadence /\ UNCHANGED G!files
        \/ w = "author-spec" /\ G!WriteSpec(l)
        \/ w \in {"prompt", "author-prompt"} /\ G!WritePrompt(l)
    BY <1>1 DEF G!Write, RegistryWrites
  <1>4. /\ torn' \subseteq Repo \X Loop /\ halfMade' \subseteq Loop
    BY <1>2 DEF RegistryInv, G!TypeOK
  <1>5. \A q \in G!Listed, m \in Loop : PairFit(q, m, reg[q], applies[m], cadence, w, <<p, l>>, torn)
    BY <1>1 DEF RegistryInv, PairsFit
  <1>6. \A q \in G!Listed, m \in Loop : q \in applies[m] => m \in cadence
    BY DEF RegistryInv, G!TypeOK
  <1>7. LoopsFit
    BY DEF RegistryInv
  <1>8. SUFFICES G!TypeOK' /\ G!Listed' = G!Listed /\ LoopsFit'
                  /\ \A q \in G!Listed, m \in Loop :
                        PairFit(q, m, reg'[q], applies'[m], cadence', n, editing', torn')
    BY <1>1 DEF RegistryInv, PairsFit
  <1>9. CASE w \in RegistryWrites /\ G!WriteRegistry(w, p, l)
    <2>0. p \in G!Listed /\ UNCHANGED <<applies, cadence, prompt, library>>
      BY <1>1, <1>9 DEF RegistryWrites, G!WriteRegistry
    <2> DEFINE r == Rewritten(w, reg[p], l)
    <2>1. reg[p] \in RegRec /\ reg[p].listed = TRUE
      BY <2>0, RegTypes DEF RegistryInv
    <2>2. r \in RegRec /\ r.listed = TRUE
      BY <1>9, <2>1, RewrittenFacts
    <2>3. reg' = [reg EXCEPT ![p] = r]
      BY <1>9, <2>0, WriteRegistryIs
    <2>4. \A m \in Loop :
            /\ m \in r.cadences <=>
                  (m \in reg[p].cadences /\ ~(w = "unwire" /\ m = l)) \/ (w = "wire" /\ m = l)
            /\ m \in r.tiers <=>
                  (m \in reg[p].tiers /\ ~(w = "untier" /\ m = l)) \/ (w = "tier" /\ m = l)
            /\ m \in r.schedules <=>
                  \/ m \in reg[p].schedules /\ ~(w = "unschedule" /\ m = l)
                  \/ w = "try-schedule" /\ reg[p].autorun /\ m = l
      BY <1>9, <2>1, RewrittenFacts
    <2>5. PICK s \in RegRec : s = r
      BY <2>2
    <2>6. reg' = [reg EXCEPT ![p] = s] /\ s.listed = TRUE
      BY <2>2, <2>3, <2>5
    <2>7. \A m \in Loop :
            /\ m \in s.cadences <=>
                  (m \in reg[p].cadences /\ ~(w = "unwire" /\ m = l)) \/ (w = "wire" /\ m = l)
            /\ m \in s.tiers <=>
                  (m \in reg[p].tiers /\ ~(w = "untier" /\ m = l)) \/ (w = "tier" /\ m = l)
            /\ m \in s.schedules <=>
                  \/ m \in reg[p].schedules /\ ~(w = "unschedule" /\ m = l)
                  \/ w = "try-schedule" /\ reg[p].autorun /\ m = l
      BY <2>4, <2>5
    <2> HIDE DEF r
    <2>8. /\ G!TypeOK' /\ G!Listed' = G!Listed
          /\ \A q \in G!Listed : reg'[q] = IF q = p THEN s ELSE reg[q]
      BY <1>4, <2>0, <2>6, StanzaWritten
    <2>9. n \notin {"create", "prompt", "apply"} /\ w \notin {"create", "prompt", "apply"}
            /\ (w \in {"wire", "tier", "try-schedule"} => n \in {"tier", "try-schedule", "quiet"})
            /\ (w = "unwire" => n = "unapply") /\ (w = "unschedule" => n = "untier")
            /\ (w = "untier" => n = "quiet")
      <3>1. n \in After(w)
        BY <1>1
      <3>2. CASE w \in {"wire", "tier", "try-schedule"}
        BY <3>1, <3>2 DEF After
      <3>3. CASE w = "unwire"
        BY <3>1, <3>3 DEF After
      <3>4. CASE w = "unschedule"
        BY <3>1, <3>4 DEF After
      <3>5. CASE w = "untier"
        BY <3>1, <3>5 DEF After
      <3>6. QED
        BY <1>9, <3>2, <3>3, <3>4, <3>5 DEF RegistryWrites
    <2>10. LoopsFit'
      BY <1>1, <1>2, <1>7, <1>9, <2>0, <2>9 DEF LoopsFit, RegistryWrites
    <2>11. ASSUME NEW q \in G!Listed, NEW m \in Loop
           PROVE  PairFit(q, m, reg'[q], applies'[m], cadence', n, editing', torn')
      <3>1. PairFit(q, m, reg[q], applies[m], cadence, w, <<p, l>>, torn)
        BY <1>5
      <3>2. CASE q = p /\ m = l
        <4>1. reg'[q] = s
          BY <2>8, <3>2
        <4>2. q \in applies[m] => m \in cadence
          BY <1>6
        <4>3. n # "quiet" => editing' = <<q, m>>
          BY <1>1, <3>2
        <4>4. CASE w = "wire"
          BY <1>2, <2>0, <2>7, <2>9, <3>1, <3>2, <4>1, <4>2, <4>3, <4>4 DEF PairFit
        <4>5. CASE w \in {"tier", "try-schedule"}
          BY <1>2, <2>0, <2>7, <2>9, <3>1, <3>2, <4>1, <4>2, <4>3, <4>5 DEF PairFit
        <4>6. CASE w = "unwire"
          BY <1>2, <2>0, <2>7, <2>9, <3>1, <3>2, <4>1, <4>2, <4>3, <4>6 DEF PairFit
        <4>7. CASE w = "unschedule"
          BY <1>2, <2>0, <2>7, <2>9, <3>1, <3>2, <4>1, <4>2, <4>3, <4>7 DEF PairFit
        <4>8. CASE w = "untier"
          BY <1>2, <2>0, <2>7, <2>9, <3>1, <3>2, <4>1, <4>2, <4>3, <4>8 DEF PairFit
        <4>9. QED
          BY <1>9, <4>4, <4>5, <4>6, <4>7, <4>8 DEF RegistryWrites
      <3>3. CASE ~(q = p /\ m = l)
        <4>1. /\ m \in reg'[q].cadences <=> m \in reg[q].cadences
              /\ m \in reg'[q].tiers <=> m \in reg[q].tiers
              /\ m \in reg'[q].schedules <=> m \in reg[q].schedules
          BY <2>7, <2>8, <3>3
        <4>2. <<q, m>> # <<p, l>> /\ <<q, m>> # editing'
          BY <1>1, <3>3
        <4>3. <<q, m>> \in torn' <=> <<q, m>> \in torn
          BY <1>2, <4>2
        <4>4. QED
          BY <2>0, <2>9, <3>1, <4>1, <4>2, <4>3 DEF PairFit
      <3>4. QED
        BY <3>2, <3>3
    <2>12. QED
      BY <2>8, <2>10, <2>11
  <1>10. CASE w \in {"create", "apply", "unapply"} /\ G!WriteCadence(w, p, l)
                /\ (w = "unapply" => l \in cadence)
    <2>0. p \in G!Listed /\ UNCHANGED <<reg, prompt, library, torn, halfMade>>
      BY <1>1, <1>2, <1>10 DEF G!WriteCadence
    <2>a. applies[l] \in SUBSET G!Listed
      BY DEF RegistryInv, G!TypeOK
    <2>1. PICK A \in SUBSET G!Listed : A = IF w = "unapply" THEN applies[l] \ {p} ELSE applies[l] \cup {p}
      BY <2>0, <2>a
    <2>2. applies' = [applies EXCEPT ![l] = A] /\ cadence' = cadence \cup {l}
      BY <1>10, <2>1 DEF G!WriteCadence
    <2>3. /\ G!TypeOK' /\ G!Listed' = G!Listed
          /\ \A m \in Loop : applies'[m] = IF m = l THEN A ELSE applies[m]
      BY <2>0, <2>2, CadenceWritten
    <2>4. (w = "create" => n = "prompt") /\ (w = "apply" => n = "wire") /\ (w = "unapply" => n = "unschedule")
      BY <1>1, <1>10 DEF After
    <2>5. LoopsFit'
      BY <1>1, <1>7, <1>10, <2>0, <2>2, <2>4 DEF LoopsFit
    <2>6. ASSUME NEW q \in G!Listed, NEW m \in Loop
           PROVE  PairFit(q, m, reg'[q], applies'[m], cadence', n, editing', torn')
      <3>1. PairFit(q, m, reg[q], applies[m], cadence, w, <<p, l>>, torn)
        BY <1>5
      <3>2. <<p, l>>[2] = l /\ editing' = <<p, l>>
        BY <1>1, <1>10, <2>4
      <3>3. q \in applies'[m] <=> IF q = p /\ m = l THEN w # "unapply" ELSE q \in applies[m]
        BY <2>1, <2>3
      <3>4. (<<q, m>> = <<p, l>>) <=> (q = p /\ m = l)
        OBVIOUS
      <3>5. CASE w = "create"
        BY <2>0, <2>2, <2>4, <3>1, <3>2, <3>3, <3>4, <3>5 DEF PairFit
      <3>6. CASE w = "apply"
        BY <2>0, <2>2, <2>4, <3>1, <3>2, <3>3, <3>4, <3>6 DEF PairFit
      <3>7. CASE w = "unapply"
        BY <2>0, <2>2, <2>4, <3>1, <3>2, <3>3, <3>4, <3>7 DEF PairFit
      <3>8. QED
        BY <1>10, <3>5, <3>6, <3>7
    <2>7. QED
      BY <2>3, <2>5, <2>6
  <1>11. CASE w = "unapply" /\ l \notin cadence /\ UNCHANGED G!files
    <2>0. p \in G!Listed /\ UNCHANGED <<reg, applies, cadence, prompt, library, torn, halfMade>>
      BY <1>1, <1>2, <1>11 DEF G!files
    <2>1. G!TypeOK' /\ G!Listed' = G!Listed
      BY <2>0 DEF RegistryInv, G!TypeOK, G!Listed
    <2>2. n = "unschedule"
      BY <1>1, <1>11 DEF After
    <2>3. LoopsFit'
      BY <1>1, <1>7, <1>11, <2>0, <2>2 DEF LoopsFit
    <2>4. applies[l] = {}
      BY <1>11 DEF RegistryInv, G!TypeOK
    <2>5. ASSUME NEW q \in G!Listed, NEW m \in Loop
           PROVE  PairFit(q, m, reg'[q], applies'[m], cadence', n, editing', torn')
      <3>1. PairFit(q, m, reg[q], applies[m], cadence, w, <<p, l>>, torn)
        BY <1>5
      <3>2. editing' = <<p, l>> /\ ((<<q, m>> = <<p, l>>) <=> (q = p /\ m = l))
        BY <1>1, <2>2
      <3>3. QED
        BY <1>11, <2>0, <2>2, <2>4, <3>1, <3>2 DEF PairFit
    <2>6. QED
      BY <2>1, <2>3, <2>5
  <1>12. CASE w = "author-spec" /\ G!WriteSpec(l)
    <2>0. library' = library \cup {l} /\ UNCHANGED <<reg, applies, cadence, prompt, torn, halfMade>>
      BY <1>1, <1>2, <1>12 DEF G!WriteSpec
    <2>1. G!TypeOK' /\ G!Listed' = G!Listed
      BY <2>0 DEF RegistryInv, G!TypeOK, G!Listed
    <2>2. n = "author-prompt"
      BY <1>1, <1>12 DEF After
    <2>3. LoopsFit'
      BY <1>1, <1>7, <1>12, <2>0, <2>2 DEF LoopsFit
    <2>5. ASSUME NEW q \in G!Listed, NEW m \in Loop
           PROVE  PairFit(q, m, reg'[q], applies'[m], cadence', n, editing', torn')
      <3>1. PairFit(q, m, reg[q], applies[m], cadence, w, <<p, l>>, torn)
        BY <1>5
      <3>3. QED
        BY <1>12, <2>0, <2>2, <3>1 DEF PairFit
    <2>6. QED
      BY <2>1, <2>3, <2>5
  <1>13. CASE w \in {"prompt", "author-prompt"} /\ G!WritePrompt(l)
    <2>0. /\ prompt' = prompt \cup {l} /\ halfMade' = halfMade \ {l}
          /\ UNCHANGED <<reg, applies, cadence, library, torn>>
      BY <1>1, <1>2, <1>13 DEF G!WritePrompt
    <2>1. G!TypeOK' /\ G!Listed' = G!Listed
      BY <2>0 DEF RegistryInv, G!TypeOK, G!Listed
    <2>2. (w = "prompt" => n = "wire") /\ (w = "author-prompt" => n = "quiet")
      BY <1>1, <1>13 DEF After
    <2>3. LoopsFit'
      <3>1. editing[2] = l
        BY <1>1
      <3>2. QED
        BY <1>1, <1>7, <1>13, <2>0, <2>2, <3>1 DEF LoopsFit
    <2>5. ASSUME NEW q \in G!Listed, NEW m \in Loop
           PROVE  PairFit(q, m, reg'[q], applies'[m], cadence', n, editing', torn')
      <3>1. PairFit(q, m, reg[q], applies[m], cadence, w, <<p, l>>, torn)
        BY <1>5
      <3>2. n # "quiet" => editing' = <<p, l>>
        BY <1>1
      <3>3. CASE w = "prompt"
        BY <2>0, <2>2, <3>1, <3>2, <3>3 DEF PairFit
      <3>4. CASE w = "author-prompt"
        BY <2>0, <2>2, <3>1, <3>4 DEF PairFit
      <3>5. QED
        BY <1>13, <3>3, <3>4
    <2>6. QED
      BY <2>1, <2>3, <2>5
  <1>14. QED
    BY <1>3, <1>9, <1>10, <1>11, <1>12, <1>13

\* One form of the settings page changes the overrides of a loop, or autorun: the stanza's
\* cadences stay, and an override of a loop that is not wired spoils the pair.
LEMMA FormKeeps ==
    ASSUME RegistryInv, G!Quiet, NEW p \in G!Listed, NEW l \in Loop, NEW r \in RegRec,
           r.listed = TRUE, r.cadences = reg[p].cadences,
           reg' = [reg EXCEPT ![p] = r],
           UNCHANGED <<applies, cadence, prompt, library, steps, editing, halfMade>>,
           torn \subseteq torn', torn' \subseteq torn \cup {<<p, l>>},
           \A m \in Loop : \/ m = l /\ m \in r.cadences
                           \/ m = l /\ <<p, l>> \in torn'
                           \/ /\ m \in r.tiers => m \in reg[p].tiers
                              /\ m \in r.schedules => m \in reg[p].schedules,
           torn' # torn => l \notin r.cadences
    PROVE  RegistryInv'
  <1>1. torn' \subseteq Repo \X Loop /\ halfMade' \subseteq Loop
    <2>1. <<p, l>> \in Repo \X Loop
      BY RegTypes DEF RegistryInv
    <2>2. QED
      BY <2>1 DEF RegistryInv, G!TypeOK
  <1>2. /\ G!TypeOK' /\ G!Listed' = G!Listed
        /\ \A q \in G!Listed : reg'[q] = IF q = p THEN r ELSE reg[q]
    BY <1>1, StanzaWritten
  <1>3. Stage' = Stage /\ Stage = "quiet"
    BY DEF Stage, StageOf, G!Quiet, G!Nothing
  <1>4. EditFit' /\ LoopsFit'
    BY <1>2, <1>3 DEF RegistryInv, EditFit, LoopsFit
  <1>5. ASSUME NEW q \in G!Listed, NEW m \in Loop
        PROVE  PairFit(q, m, reg'[q], applies'[m], cadence', Stage', editing', torn')
    <2>1. PairFit(q, m, reg[q], applies[m], cadence, Stage, editing, torn)
      BY DEF RegistryInv, PairsFit
    <2>2. CASE q = p
      <3>1. reg'[q] = r
        BY <1>2, <2>2
      <3>2. QED
        BY <1>3, <2>1, <2>2, <3>1 DEF PairFit
    <2>3. CASE q # p
      BY <1>2, <1>3, <2>1, <2>3 DEF PairFit
    <2>4. QED
      BY <2>2, <2>3
  <1>6. PairsFit'
    BY <1>2, <1>5 DEF PairsFit
  <1>7. QED
    BY <1>2, <1>4, <1>6 DEF RegistryInv

\* The forms of the settings page, each of one write, keep the invariant.
LEMMA FormsKeep ==
    ASSUME RegistryInv, NEW p, NEW l \in Loop, NEW v \in BOOLEAN,
           \/ G!SetLoopSchedule(p, l) \/ G!SetLoopTier(p, l) \/ G!SetProjectAutorun(p, v)
    PROVE  RegistryInv'
  <1>1. G!Quiet /\ p \in G!Listed /\ UNCHANGED <<applies, cadence, prompt, library, steps, editing, halfMade>>
    BY DEF G!SetLoopSchedule, G!SetLoopTier, G!SetProjectAutorun
  <1>2. reg \in [Repo -> RegRec] /\ reg[p] \in RegRec /\ reg[p].listed = TRUE /\ p \in Repo
    BY <1>1, RegTypes DEF RegistryInv
  <1>3. CASE G!SetLoopSchedule(p, l)
    <2>1. CASE /\ reg' = [reg EXCEPT ![p].schedules = @ \cup {l}]
               /\ torn' = IF l \in reg[p].cadences THEN torn ELSE torn \cup {<<p, l>>}
      <3>1. PICK r \in RegRec : r = [reg[p] EXCEPT !.schedules = @ \cup {l}]
        BY <1>2 DEF RegRec
      <3>2. r.listed = TRUE /\ r.cadences = reg[p].cadences /\ r.tiers = reg[p].tiers
              /\ r.schedules = reg[p].schedules \cup {l}
        BY <1>2, <3>1 DEF RegRec
      <3>3. reg' = [reg EXCEPT ![p] = r]
        BY <1>2, <2>1, <3>1
      <3>4. torn \subseteq torn' /\ torn' \subseteq torn \cup {<<p, l>>} /\ (torn' # torn => l \notin r.cadences)
              /\ (l \in r.cadences \/ <<p, l>> \in torn')
        BY <2>1, <3>2
      <3>5. \A m \in Loop : \/ m = l /\ m \in r.cadences
                            \/ m = l /\ <<p, l>> \in torn'
                            \/ /\ m \in r.tiers => m \in reg[p].tiers
                               /\ m \in r.schedules => m \in reg[p].schedules
        BY <3>2, <3>4
      <3>6. QED
        BY <1>1, <3>2, <3>3, <3>4, <3>5, FormKeeps
    <2>2. CASE reg' = [reg EXCEPT ![p].schedules = @ \ {l}] /\ UNCHANGED torn
      <3>1. PICK r \in RegRec : r = [reg[p] EXCEPT !.schedules = @ \ {l}]
        BY <1>2 DEF RegRec
      <3>2. r.listed = TRUE /\ r.cadences = reg[p].cadences /\ r.tiers = reg[p].tiers
              /\ r.schedules = reg[p].schedules \ {l}
        BY <1>2, <3>1 DEF RegRec
      <3>3. reg' = [reg EXCEPT ![p] = r]
        BY <1>2, <2>2, <3>1
      <3>5. QED
        BY <1>1, <2>2, <3>2, <3>3, FormKeeps
    <2>3. QED
      BY <1>3, <2>1, <2>2 DEF G!SetLoopSchedule
  <1>4. CASE G!SetLoopTier(p, l)
    <2>1. CASE /\ reg' = [reg EXCEPT ![p].tiers = @ \cup {l}]
               /\ torn' = IF l \in reg[p].cadences THEN torn ELSE torn \cup {<<p, l>>}
      <3>1. PICK r \in RegRec : r = [reg[p] EXCEPT !.tiers = @ \cup {l}]
        BY <1>2 DEF RegRec
      <3>2. r.listed = TRUE /\ r.cadences = reg[p].cadences /\ r.schedules = reg[p].schedules
              /\ r.tiers = reg[p].tiers \cup {l}
        BY <1>2, <3>1 DEF RegRec
      <3>3. reg' = [reg EXCEPT ![p] = r]
        BY <1>2, <2>1, <3>1
      <3>4. torn \subseteq torn' /\ torn' \subseteq torn \cup {<<p, l>>} /\ (torn' # torn => l \notin r.cadences)
              /\ (l \in r.cadences \/ <<p, l>> \in torn')
        BY <2>1, <3>2
      <3>5. \A m \in Loop : \/ m = l /\ m \in r.cadences
                            \/ m = l /\ <<p, l>> \in torn'
                            \/ /\ m \in r.tiers => m \in reg[p].tiers
                               /\ m \in r.schedules => m \in reg[p].schedules
        BY <3>2, <3>4
      <3>6. QED
        BY <1>1, <3>2, <3>3, <3>4, <3>5, FormKeeps
    <2>2. CASE reg' = [reg EXCEPT ![p].tiers = @ \ {l}] /\ UNCHANGED torn
      <3>1. PICK r \in RegRec : r = [reg[p] EXCEPT !.tiers = @ \ {l}]
        BY <1>2 DEF RegRec
      <3>2. r.listed = TRUE /\ r.cadences = reg[p].cadences /\ r.schedules = reg[p].schedules
              /\ r.tiers = reg[p].tiers \ {l}
        BY <1>2, <3>1 DEF RegRec
      <3>3. reg' = [reg EXCEPT ![p] = r]
        BY <1>2, <2>2, <3>1
      <3>5. QED
        BY <1>1, <2>2, <3>2, <3>3, FormKeeps
    <2>3. QED
      BY <1>4, <2>1, <2>2 DEF G!SetLoopTier
  <1>5. CASE G!SetProjectAutorun(p, v)
    <2>1. PICK r \in RegRec : r = [reg[p] EXCEPT !.autorun = v]
      BY <1>2 DEF RegRec
    <2>2. r.listed = TRUE /\ r.cadences = reg[p].cadences /\ r.schedules = reg[p].schedules
            /\ r.tiers = reg[p].tiers
      BY <1>2, <2>1 DEF RegRec
    <2>3. reg' = [reg EXCEPT ![p] = r] /\ torn' = torn
      BY <1>2, <1>5, <2>1 DEF G!SetProjectAutorun
    <2>4. QED
      BY <1>1, <2>2, <2>3, FormKeeps
  <1>6. QED
    BY <1>3, <1>4, <1>5

\* A project that is registered keeps the invariant.
LEMMA RegisterKeeps ==
    ASSUME RegistryInv, NEW p \in Repo, G!RegisterProject(p)
    PROVE  RegistryInv'
  <1> USE DEF RegistryInv
  <1>1. /\ G!Quiet /\ p \notin G!Listed
        /\ reg' = [reg EXCEPT ![p].listed = TRUE, ![p].cadences = {Starter}]
        /\ UNCHANGED <<applies, cadence, prompt, library, steps, editing, deaths, torn, halfMade>>
    BY DEF G!RegisterProject
  <1>2. reg \in [Repo -> RegRec] /\ reg[p] = G!Unlisted
    BY <1>1, RegTypes DEF G!TypeOK
  <1>3. PICK r \in RegRec : r = [reg[p] EXCEPT !.listed = TRUE, !.cadences = {Starter}]
    BY <1>2, Wired DEF RegRec
  <1>4. r.listed = TRUE /\ r.cadences = {Starter} /\ r.tiers = {} /\ r.schedules = {}
    BY <1>2, <1>3 DEF G!Unlisted
  <1>5. \A q \in Repo : reg'[q] = IF q = p THEN r ELSE reg[q]
    BY <1>1, <1>2, <1>3
  <1>6. G!Listed' = G!Listed \cup {p}
    BY <1>4, <1>5 DEF G!Listed
  <1>7. reg' \in [Repo -> RegRec]
    <2>1. reg' = [q \in Repo |-> reg'[q]]
      BY <1>1, <1>2
    <2>2. \A q \in Repo : reg'[q] \in RegRec
      BY <1>2, <1>5
    <2>3. QED
      BY <2>1, <2>2
  <1>8. \A q \in Repo \ G!Listed' : reg'[q] = G!Unlisted
    BY <1>5, <1>6 DEF G!TypeOK
  <1>8a. applies' \in [Loop -> SUBSET G!Listed']
    <2>1. applies \in [Loop -> SUBSET G!Listed]
      BY DEF G!TypeOK
    <2>2. \A S : S \in SUBSET G!Listed => S \in SUBSET G!Listed'
      BY <1>6
    <2>3. QED
      BY <1>1, <2>1, <2>2
  <1>9. G!TypeOK'
    BY <1>1, <1>7, <1>8, <1>8a DEF G!TypeOK, RegRec
  <1>10. Stage' = Stage /\ Stage = "quiet"
    BY <1>1 DEF Stage, StageOf, G!Quiet, G!Nothing
  <1>11. EditFit' /\ LoopsFit'
    BY <1>1, <1>6, <1>10 DEF EditFit, LoopsFit
  <1>12. ASSUME NEW q \in G!Listed', NEW m \in Loop
         PROVE  PairFit(q, m, reg'[q], applies'[m], cadence', Stage', editing', torn')
    <2>1. CASE q = p
      <3>1. reg'[q] = r
        BY <1>5, <2>1
      <3>2. q \notin applies[m]
        BY <1>1, <2>1 DEF G!TypeOK
      <3>3. Starter \in cadence
        BY DEF LoopsFit
      <3>4. PairFit(q, m, r, applies[m], cadence, "quiet", editing, torn)
        BY <1>4, <3>2, <3>3 DEF PairFit
      <3>5. Stage' = "quiet" /\ UNCHANGED <<applies, cadence, editing, torn>>
        BY <1>1, <1>10
      <3>6. QED
        BY <3>1, <3>4, <3>5
    <2>2. CASE q # p
      <3>1. q \in G!Listed /\ reg'[q] = reg[q]
        BY <1>5, <1>6, <2>2 DEF G!Listed
      <3>2. PairFit(q, m, reg[q], applies[m], cadence, Stage, editing, torn)
        BY <3>1 DEF PairsFit
      <3>3. QED
        BY <1>1, <1>10, <3>1, <3>2
    <2>3. QED
      BY <2>1, <2>2
  <1>13. PairsFit'
    BY <1>12 DEF PairsFit
  <1>14. QED
    BY <1>9, <1>11, <1>13

\* A loop copied from the library keeps the invariant.
LEMMA LibraryKeeps ==
    ASSUME RegistryInv, NEW l \in Loop, G!AddToLibrary(l)
    PROVE  RegistryInv'
  <1> USE DEF RegistryInv
  <1>1. /\ library' = library \cup {l}
        /\ UNCHANGED <<reg, applies, cadence, prompt, steps, editing, deaths, torn, halfMade>>
    BY DEF G!AddToLibrary
  <1>2. G!TypeOK' /\ G!Listed' = G!Listed
    BY <1>1 DEF G!TypeOK, G!Listed
  <1>3. Stage' = Stage
    BY <1>1 DEF Stage
  <1>4. EditFit' /\ LoopsFit' /\ PairsFit'
    BY <1>1, <1>2, <1>3 DEF EditFit, LoopsFit, PairsFit
  <1>5. QED
    BY <1>2, <1>4

\* The first step of enabling a loop keeps the invariant, whatever files the loop has.
LEMMA EnableKeeps ==
    ASSUME RegistryInv, NEW p, NEW l \in Loop, NEW o \in Opts, G!Enable(p, l, o)
    PROVE  RegistryInv'
  <1>1. p \in G!Listed /\ p \in Repo
    BY RegTypes DEF RegistryInv, G!Enable
  <1>2. \A w : w \o o = w \o o
    OBVIOUS
  <1>3. CASE l \in cadence /\ G!Begin(p, l, <<"apply", "wire">> \o o)
    <2>1. PICK t \in Plans : t = <<"apply", "wire">> \o o /\ StageOf(t) = "apply"
      BY PlansBegin
    <2>2. t # <<>>
      BY <2>1 DEF StageOf
    <2>3. G!Begin(p, l, t)
      BY <1>3, <2>1
    <2>4. QED
      BY <1>1, <1>3, <2>1, <2>2, <2>3, BeginKeeps
  <1>4. CASE l \notin cadence /\ G!Begin(p, l, <<"create", "prompt", "wire">> \o o)
    <2>1. PICK t \in Plans : t = <<"create", "prompt", "wire">> \o o /\ StageOf(t) = "create"
      BY PlansBegin
    <2>2. t # <<>>
      BY <2>1 DEF StageOf
    <2>3. G!Begin(p, l, t)
      BY <1>4, <2>1
    <2>4. QED
      BY <1>1, <1>4, <2>1, <2>2, <2>3, BeginKeeps
  <1>5. QED
    BY <1>3, <1>4 DEF G!Enable

\* The first step of disabling and of authoring a loop keeps the invariant.
LEMMA OtherEditsKeep ==
    ASSUME RegistryInv, NEW p \in Repo, NEW l \in Loop, G!Disable(p, l) \/ G!Author(p, l)
    PROVE  RegistryInv'
  <1>1. CASE G!Disable(p, l)
    <2>1. PICK t \in Plans : t = <<"unwire", "unapply", "unschedule", "untier">> /\ StageOf(t) = "unwire"
      BY OtherPlansBegin
    <2>2. t # <<>>
      BY <2>1 DEF StageOf
    <2>3. G!Begin(p, l, t) /\ p \in G!Listed
      BY <1>1, <2>1 DEF G!Disable
    <2>4. QED
      BY <2>1, <2>2, <2>3, BeginKeeps
  <1>2. CASE G!Author(p, l)
    <2>1. PICK t \in Plans : t = <<"author-spec", "author-prompt">> /\ StageOf(t) = "author-spec"
      BY OtherPlansBegin
    <2>2. t # <<>>
      BY <2>1 DEF StageOf
    <2>3. G!Begin(p, l, t)
      BY <1>2, <2>1 DEF G!Author
    <2>4. QED
      BY <2>1, <2>2, <2>3, BeginKeeps
  <1>3. QED
    BY <1>1, <1>2

\* A plan is a sequence of writes.
LEMMA PlansAreSequences == Plans \subseteq Seq(Writes)
  <1>1. /\ Opts \subseteq Seq(Writes) /\ Wires \subseteq Seq(Writes) /\ Promptings \subseteq Seq(Writes)
    BY PlanShapes
  <1>2. {"apply", "create"} \subseteq Writes
    BY DEF Writes
  <1>3. Applications \subseteq Seq(Writes)
    <2>1. \A o \in Wires : <<"apply">> \o o \in Seq(Writes)
      BY <1>1, <1>2, OneMore
    <2>2. QED
      BY <2>1 DEF Applications
  <1>4. Creations \subseteq Seq(Writes)
    <2>1. \A o \in Promptings : <<"create">> \o o \in Seq(Writes)
      BY <1>1, <1>2, OneMore
    <2>2. QED
      BY <2>1 DEF Creations
  <1>5. Removals \subseteq Seq(Writes) /\ Authorings \subseteq Seq(Writes)
    BY DEF Removals, Authorings, Writes
  <1>6. QED
    BY <1>1, <1>3, <1>4, <1>5 DEF Plans

\* An edit that dies between two writes keeps the invariant: it leaves a pair torn.
LEMMA DeathKeeps ==
    ASSUME RegistryInv, G!Die
    PROVE  RegistryInv'
  <1> USE DEF RegistryInv
  <1>1. /\ steps # <<>> /\ steps' = <<>> /\ editing' = <<>> /\ torn' = torn \cup {editing}
        /\ halfMade' = IF "prompt" \in {steps[i] : i \in DOMAIN steps} /\ editing[2] \in cadence
                         THEN halfMade \cup {editing[2]} ELSE halfMade
        /\ UNCHANGED <<reg, applies, cadence, prompt, library>>
    BY DEF G!Die, G!Quiet, G!Nothing, G!files
  <1>2. Stage # "quiet" /\ Stage = Head(steps) /\ editing \in Repo \X Loop
    <2>1. steps \in Plans /\ Stage = Head(steps)
      BY <1>1 DEF EditFit, Stage, StageOf
    <2>2. Stage \in Writes
      BY <1>1, <2>1, PlanSteps
    <2>3. QED
      BY <2>1, <2>2 DEF EditFit, Writes
  <1>3. PICK p \in Repo, l \in Loop : editing = <<p, l>>
    BY <1>2
  <1>4. editing[2] = l
    BY <1>3
  <1>5. Stage' = "quiet" /\ steps' \in Plans
    BY <1>1, OtherPlansBegin DEF Stage, StageOf, G!Nothing
  <1>6. Stage = "prompt" => "prompt" \in {steps[i] : i \in DOMAIN steps}
    <2>1. steps \in Seq(Writes)
      BY PlansAreSequences DEF EditFit
    <2>2. 1 \in DOMAIN steps /\ Head(steps) = steps[1]
      BY <1>1, <2>1
    <2>3. QED
      BY <1>2, <2>2
  <1>7. torn' \subseteq Repo \X Loop /\ halfMade' \subseteq Loop /\ halfMade \subseteq halfMade'
    BY <1>1, <1>2, <1>4 DEF G!TypeOK
  <1>8. G!TypeOK' /\ G!Listed' = G!Listed
    BY <1>1, <1>7 DEF G!TypeOK, G!Listed
  <1>9. EditFit'
    BY <1>1, <1>5 DEF EditFit
  <1>10. LoopsFit'
    BY <1>1, <1>4, <1>5, <1>6, <1>7 DEF LoopsFit
  <1>11. ASSUME NEW q \in G!Listed, NEW m \in Loop
         PROVE  PairFit(q, m, reg[q], applies[m], cadence, Stage', editing', torn')
    <2>1. PairFit(q, m, reg[q], applies[m], cadence, Stage, editing, torn)
      BY DEF PairsFit
    <2>2. editing = <<q, m>> => <<q, m>> \in torn'
      BY <1>1
    <2>3. <<q, m>> \in torn => <<q, m>> \in torn'
      BY <1>1
    <2>4. editing # <<q, m>> => ~(<<q, m>> \in torn' /\ <<q, m>> \notin torn)
      BY <1>1
    <2>5. QED
      BY <1>5, <2>1, <2>2, <2>3, <2>4 DEF PairFit
  <1>12. PairsFit'
    BY <1>1, <1>8, <1>11 DEF PairsFit
  <1>13. QED
    BY <1>8, <1>9, <1>10, <1>12

\* Every step of the edits keeps the invariant.
LEMMA RegistryStep == RegistryInv /\ G!Next => RegistryInv'
  <1> SUFFICES ASSUME RegistryInv, G!Next PROVE RegistryInv'
    OBVIOUS
  <1>1. CASE \E p \in Repo, l \in Loop : G!Enable(p, l, <<>>)
    <2>1. <<>> \in Opts
      BY DEF Opts
    <2>2. QED
      BY <1>1, <2>1, EnableKeeps
  <1>2. CASE \E p \in Repo, l \in Loop : G!Disable(p, l) \/ G!Author(p, l)
    BY <1>2, OtherEditsKeep
  <1>3. CASE \E p \in Tuned, l \in Loop : \E t, s \in BOOLEAN : G!Enable(p, l, G!Options(t, s))
    <2>1. PICK p \in Tuned, l \in Loop, t \in BOOLEAN, s \in BOOLEAN : G!Enable(p, l, G!Options(t, s))
      BY <1>3
    <2>2. PICK o \in Opts : o = G!Options(t, s)
      BY OtherPlansBegin
    <2>3. G!Enable(p, l, o)
      BY <2>1, <2>2
    <2>4. QED
      BY <2>3, EnableKeeps
  <1>4. CASE \E p \in Tuned, l \in Loop : G!SetLoopSchedule(p, l) \/ G!SetLoopTier(p, l)
    <2>1. TRUE \in BOOLEAN
      OBVIOUS
    <2>2. QED
      BY <1>4, <2>1, FormsKeep
  <1>5. CASE \E p \in Tuned, v \in BOOLEAN : G!SetProjectAutorun(p, v)
    <2>1. Starter \in Loop
      BY Wired
    <2>2. QED
      BY <1>5, <2>1, FormsKeep
  <1>6. CASE \E p \in Repo : G!RegisterProject(p)
    BY <1>6, RegisterKeeps
  <1>7. CASE \E l \in Loop : G!AddToLibrary(l)
    BY <1>7, LibraryKeeps
  <1>8. CASE G!Write \/ G!Die
    BY <1>8, WriteKeeps, DeathKeeps
  <1>9. QED
    BY <1>1, <1>2, <1>3, <1>4, <1>5, <1>6, <1>7, <1>8 DEF G!Next

-----------------------------------------------------------------------------
(* Promotion *)

Idle == P!Idle
Doing(step) == promoting.at = step

\* Nothing died yet, so nothing was left half done.
Unbroken ==
    lost = 0 => /\ promoting.at \in {"idle", "cleared", "moved"} =>
                     version["pin"] = version["plugin"] /\ version["marketplace"] = version["plugin"]
                /\ promoting.at = "marketplace" => version["marketplace"] = version["plugin"]

\* The version in hand is the plugin's.
InHand == promoting.at \in {"plugin", "marketplace"} => promoting.to = version["plugin"]

\* The invariant of the promotion.
PromotionInv == P!TypeOK /\ P!PinNeverAhead /\ P!SkillNeverLost /\ InHand /\ Unbroken

\* With the skills, the pin and the marketplace at one version the invariant holds.
LEMMA PromotionStarts == P!Init => PromotionInv
  BY Bounds DEF P!Init, PromotionInv, P!TypeOK, P!PinNeverAhead, P!SkillNeverLost, InHand, Unbroken,
      P!Files, P!Idle

\* Every step of a promotion, and its death, keep the invariant.
LEMMA PromotionStep ==
    ASSUME PromotionInv, P!Next PROVE PromotionInv'
  <1> USE Bounds DEF PromotionInv, P!TypeOK, P!PinNeverAhead, P!SkillNeverLost, InHand, Unbroken, P!Files, P!Idle, P!At
  <1>1. ASSUME NEW s \in Skill, P!Begin(s) PROVE PromotionInv'
    BY <1>1 DEF P!Begin
  <1>2. ASSUME NEW s \in Skill, P!Rewrite(s) PROVE PromotionInv'
    BY <1>2 DEF P!Rewrite
  <1>3. CASE P!Move
    BY <1>3 DEF P!Move
  <1>4. CASE P!BumpPlugin
    <2>1. PICK s \in Skill, t \in 0 .. MaxVersion :
            promoting = [at |-> "moved", skill |-> s, to |-> t]
      BY <1>4 DEF P!BumpPlugin
    <2>2. version["plugin"] + 1 \in 0 .. MaxVersion
      BY <1>4 DEF P!BumpPlugin
    <2>3. promoting' = [at |-> "plugin", skill |-> s, to |-> version["plugin"] + 1]
      BY <1>4, <2>1 DEF P!BumpPlugin
    <2>4. P!TypeOK'
      BY <1>4, <2>2, <2>3 DEF P!BumpPlugin
    <2>5. QED
      BY <1>4, <2>1, <2>2, <2>3, <2>4 DEF P!BumpPlugin
  <1>5. CASE P!BumpMarketplace
    BY <1>5 DEF P!BumpMarketplace
  <1>6. CASE P!BumpPin
    BY <1>6 DEF P!BumpPin
  <1>7. CASE P!Die
    BY <1>7 DEF P!Die
  <1>8. QED
    BY <1>1, <1>2, <1>3, <1>4, <1>5, <1>6, <1>7 DEF P!Next

-----------------------------------------------------------------------------
(* Tables of rows, for the retention *)

\* Of the values of a function into the subsets of its domain, one is minimal.
LEMMA MinimalValue ==
    ASSUME NEW S, IsFiniteSet(S), S # {}, NEW F \in [S -> SUBSET S]
    PROVE  \E x \in S : \A y \in S : F[y] \subseteq F[x] => F[y] = F[x]
  <1> DEFINE C == {F[x] : x \in S}
  <1>1. C \in SUBSET SUBSET S /\ C # {}
    OBVIOUS
  <1>2. \A x \in S : F[x] \in C
    OBVIOUS
  <1>3. \A s \in C : \E x \in S : s = F[x]
    OBVIOUS
  <1> HIDE DEF C
  <1>4. PICK s \in C : \A t \in C : t \subseteq s => t = s
    BY <1>1, Minimal
  <1>5. QED
    BY <1>2, <1>3, <1>4

\* A finite set of numbers has a greatest one.
Numbers(S) == S \subseteq Nat

\* The greatest of a finite set of numbers, for sets the provers see as any other.
LEMMA GreatestOf ==
    ASSUME NEW S, Numbers(S), IsFiniteSet(S), S # {}
    PROVE  R!Max(S) \in S /\ \A y \in S : y <= R!Max(S)
  <1> DEFINE F == [x \in S |-> {y \in S : y > x}]
  <1>1. F \in [S -> SUBSET S]
    OBVIOUS
  <1>2. \A x, y \in S : y \in F[x] <=> y > x
    OBVIOUS
  <1> HIDE DEF F
  <1>3. PICK x \in S : \A y \in S : F[y] \subseteq F[x] => F[y] = F[x]
    BY <1>1, MinimalValue
  <1>4. ASSUME NEW y \in S, y > x PROVE FALSE
    <2>0. \A z \in S : z \in Nat
      BY DEF Numbers
    <2>1. y \in F[x] /\ y \notin F[y]
      BY <1>2, <1>4, <2>0
    <2>2. F[y] \subseteq F[x]
      <3>1. \A z \in S : z > y => z > x
        BY <1>4, <2>0
      <3>2. F[y] \subseteq S
        BY <1>1
      <3>3. QED
        BY <1>2, <3>1, <3>2
    <2>3. QED
      BY <1>3, <2>1, <2>2
  <1>5. \A y \in S : y <= x
    BY <1>4 DEF Numbers
  <1>6. QED
    BY <1>5 DEF R!Max, Numbers

\* The greatest of a finite set of numbers.
LEMMA Greatest ==
    ASSUME NEW S \in SUBSET Nat, IsFiniteSet(S), S # {}
    PROVE  R!Max(S) \in S /\ \A y \in S : y <= R!Max(S)
  BY GreatestOf, Zenon DEF Numbers

\* A table of rows, numbered in the order they were taken.
Table(rows) == /\ DOMAIN rows \subseteq Nat /\ IsFiniteSet(DOMAIN rows)
               /\ \A i \in DOMAIN rows : rows[i].taken \in Int

\* The rows that are left are a table, and come in the same order.
LEMMA Restricted ==
    ASSUME NEW rows, Table(rows), NEW D \in SUBSET DOMAIN rows
    PROVE  /\ DOMAIN R!Restrict(rows, D) = D /\ \A i \in D : R!Restrict(rows, D)[i] = rows[i]
           /\ Table(R!Restrict(rows, D))
           /\ \A i \in D : R!Earlier(R!Restrict(rows, D), i) = R!Earlier(rows, i) \cap D
  <1> DEFINE t == R!Restrict(rows, D)
  <1>1. DOMAIN t = D /\ \A i \in D : t[i] = rows[i]
    BY DEF R!Restrict
  <1> HIDE DEF t
  <1>2. IsFiniteSet(D)
    BY FS_Subset DEF Table
  <1>3. Table(t)
    BY <1>1, <1>2 DEF Table
  <1>4. \A i \in D : R!Earlier(t, i) = R!Earlier(rows, i) \cap D
    BY <1>1 DEF R!Earlier
  <1>5. QED
    BY <1>1, <1>3, <1>4 DEF t

\* The row before a row of its group is the last of the earlier ones.
LEMMA LastBefore ==
    ASSUME NEW rows, Table(rows), NEW i \in DOMAIN rows, R!Earlier(rows, i) # {}
    PROVE  LET m == R!Max(R!Earlier(rows, i))
           IN  m \in DOMAIN rows /\ m < i /\ rows[m].group = rows[i].group
                 /\ \A j \in R!Earlier(rows, i) : j <= m
  <1> DEFINE S == R!Earlier(rows, i)
  <1>1. S \in SUBSET DOMAIN rows /\ S \in SUBSET Nat /\ IsFiniteSet(S)
    BY FS_Subset DEF Table, R!Earlier
  <1>2. R!Max(S) \in S /\ \A y \in S : y <= R!Max(S)
    BY <1>1, Greatest
  <1>3. QED
    BY <1>2 DEF R!Earlier

\* From a row to a later one of its group the hash stays, where none between them differs from
\* its predecessor.
LEMMA Constant ==
    ASSUME NEW rows, Table(rows), NEW a \in DOMAIN rows, NEW b \in DOMAIN rows,
           a \in R!Earlier(rows, b),
           \A j \in DOMAIN rows : a < j /\ j <= b /\ rows[j].group = rows[a].group => ~R!Changed(rows, j)
    PROVE  rows[b].hash = rows[a].hash
  <1> DEFINE S == {j \in DOMAIN rows : /\ a < j /\ j <= b /\ rows[j].group = rows[a].group
                                       /\ rows[j].hash # rows[a].hash}
  <1>0. DOMAIN rows \subseteq Nat
    BY DEF Table
  <1>1. SUFFICES ASSUME S # {} PROVE FALSE
    BY <1>0 DEF R!Earlier
  <1>2. PICK x \in S : \A y \in S : x <= y
    BY <1>0, <1>1, Least
  <1>3. ~R!Changed(rows, x) /\ a \in R!Earlier(rows, x)
    BY <1>0 DEF R!Earlier
  <1>4. PICK m : m = R!Max(R!Earlier(rows, x))
    OBVIOUS
  <1>5. m \in DOMAIN rows /\ m < x /\ rows[m].group = rows[x].group /\ a <= m
    BY <1>3, <1>4, LastBefore
  <1>6. rows[m].hash = rows[x].hash
    BY <1>3, <1>4 DEF R!Changed
  <1>7. m # a
    BY <1>6
  <1>8. m \in S
    BY <1>0, <1>5, <1>6, <1>7
  <1>9. QED
    BY <1>0, <1>2, <1>5, <1>8

\* Where all rows that differ from their predecessor are left, these are still those that do.
LEMMA SameChanges ==
    ASSUME NEW rows, Table(rows), NEW D \in SUBSET DOMAIN rows,
           \A i \in DOMAIN rows : R!Changed(rows, i) => i \in D
    PROVE  \A i \in D : R!Changed(R!Restrict(rows, D), i) <=> R!Changed(rows, i)
  <1> TAKE i \in D
  <1>0. PICK t : t = R!Restrict(rows, D)
    OBVIOUS
  <1>1. /\ DOMAIN t = D /\ (\A j \in D : t[j] = rows[j]) /\ Table(t)
        /\ R!Earlier(t, i) = R!Earlier(rows, i) \cap D
    BY <1>0, Restricted
  <1>2. DOMAIN rows \subseteq Nat
    BY DEF Table
  <1>3. CASE R!Earlier(rows, i) = {}
    BY <1>0, <1>1, <1>3 DEF R!Changed
  <1>4. CASE R!Earlier(rows, i) # {}
    <2>1. R!Earlier(t, i) # {}
      <3>1. R!Earlier(rows, i) \in SUBSET Nat
        BY <1>2 DEF R!Earlier
      <3>2. PICK k \in R!Earlier(rows, i) : \A y \in R!Earlier(rows, i) : k <= y
        BY <1>4, <3>1, Least
      <3>3. R!Earlier(rows, k) = {}
        BY <1>2, <3>2 DEF R!Earlier
      <3>4. k \in D
        BY <3>2, <3>3 DEF R!Changed, R!Earlier
      <3>5. QED
        BY <1>1, <3>2, <3>4
    <2>2. PICK m, n : m = R!Max(R!Earlier(rows, i)) /\ n = R!Max(R!Earlier(t, i))
      OBVIOUS
    <2>3. /\ m \in DOMAIN rows /\ m < i /\ rows[m].group = rows[i].group
          /\ \A j \in R!Earlier(rows, i) : j <= m
      BY <1>4, <2>2, LastBefore
    <2>4. /\ n \in D /\ n < i /\ t[n].group = t[i].group
          /\ \A j \in R!Earlier(t, i) : j <= n
      BY <1>1, <2>1, <2>2, LastBefore
    <2>5. n \in R!Earlier(rows, i) /\ n <= m /\ rows[n].group = rows[m].group
      BY <1>1, <2>3, <2>4 DEF R!Earlier
    <2>6. rows[n].hash = rows[m].hash
      <3>1. CASE n = m
        BY <3>1
      <3>2. CASE n # m
        <4>1. n \in DOMAIN rows /\ n \in R!Earlier(rows, m)
          BY <1>2, <2>3, <2>4, <2>5, <3>2 DEF R!Earlier
        <4>2. ASSUME NEW j \in DOMAIN rows, n < j, j <= m, rows[j].group = rows[n].group, R!Changed(rows, j)
              PROVE  FALSE
          <5>1. j \in D
            BY <4>2
          <5>2. j \in R!Earlier(rows, i)
            BY <1>2, <2>3, <2>5, <4>2 DEF R!Earlier
          <5>3. j <= n
            BY <1>1, <2>4, <5>1, <5>2
          <5>4. QED
            BY <1>2, <2>4, <4>1, <4>2, <5>3
        <4>3. QED
          BY <2>3, <4>1, <4>2, Constant
      <3>3. QED
        BY <3>1, <3>2
    <2>7. t[n] = rows[n] /\ t[i] = rows[i]
      BY <1>1, <2>4
    <2>8. QED
      BY <1>0, <1>4, <2>1, <2>2, <2>6, <2>7 DEF R!Changed
  <1>5. QED
    BY <1>3, <1>4

-----------------------------------------------------------------------------
(* What the pruning of the snapshots leaves *)

\* The first row of its group with its week's label.
FirstOfWeek(rows, i) == \A j \in R!Earlier(rows, i) : R!WeekLabel(rows[j].taken) # R!WeekLabel(rows[i].taken)

\* The rows of snapshots that are kept.
KeptSnapshots(rows, now) ==
    {i \in DOMAIN rows : \/ rows[i].taken >= R!_cut(now, 90)
                         \/ R!Changed(rows, i) \/ FirstOfWeek(rows, i)}

\* What prune_config_snapshots leaves (retention.py).
LEMMA SnapshotsLeft ==
    ASSUME NEW rows, NEW now
    PROVE  R!prune_config_snapshots(rows, now) = R!Restrict(rows, KeptSnapshots(rows, now))
  BY DEF R!prune_config_snapshots, KeptSnapshots, FirstOfWeek

\* No row at which a configuration changed is deleted.
LEMMA ChangesAreKept ==
    ASSUME NEW rows, Table(rows), NEW now
    PROVE  R!ChangesKept(rows, now)
  <1> DEFINE D == KeptSnapshots(rows, now)
  <1>1. D \in SUBSET DOMAIN rows /\ \A i \in DOMAIN rows : R!Changed(rows, i) => i \in D
    BY DEF KeptSnapshots
  <1> HIDE DEF D
  <1>2. PICK t : t = R!Restrict(rows, D)
    OBVIOUS
  <1>3. DOMAIN t = D /\ \A i \in D : R!Changed(t, i) <=> R!Changed(rows, i)
    BY <1>1, <1>2, SameChanges, Restricted
  <1>4. R!prune_config_snapshots(rows, now) = t
    BY <1>2, SnapshotsLeft DEF D
  <1>5. {i \in DOMAIN t : R!Changed(t, i)} = {i \in DOMAIN rows : R!Changed(rows, i)}
    BY <1>1, <1>3
  <1>6. QED
    BY <1>4, <1>5 DEF R!ChangesKept

\* The first row of a group with some label.
LEMMA FirstWithLabel ==
    ASSUME NEW rows, Table(rows), NEW i \in DOMAIN rows
    PROVE  \E k \in DOMAIN rows :
             /\ k <= i /\ rows[k].group = rows[i].group
             /\ R!WeekLabel(rows[k].taken) = R!WeekLabel(rows[i].taken)
             /\ FirstOfWeek(rows, k)
  <1> DEFINE S == {j \in DOMAIN rows : /\ j <= i /\ rows[j].group = rows[i].group
                                       /\ R!WeekLabel(rows[j].taken) = R!WeekLabel(rows[i].taken)}
  <1>0. DOMAIN rows \subseteq Nat
    BY DEF Table
  <1>1. i \in S
    BY <1>0
  <1>2. PICK k \in S : \A y \in S : k <= y
    BY <1>0, <1>1, Least
  <1>3. FirstOfWeek(rows, k)
    BY <1>0, <1>2 DEF FirstOfWeek, R!Earlier
  <1>4. QED
    BY <1>3

\* Every week that had a row keeps one, but for a week whose label another had before it.
LEMMA WeeksAreKept ==
    ASSUME NEW rows, Table(rows), NEW now
    PROVE  R!WeeklyKept(rows, now)
  <1> DEFINE D == KeptSnapshots(rows, now)
             At(i) == R!Day(rows[i].taken)
  <1>0. DOMAIN rows \subseteq Nat
    BY DEF Table
  <1>1. D \in SUBSET DOMAIN rows /\ \A i \in DOMAIN rows : FirstOfWeek(rows, i) => i \in D
    BY DEF KeptSnapshots
  <1> HIDE DEF D
  <1>2. PICK t : t = R!Restrict(rows, D)
    OBVIOUS
  <1>3. DOMAIN t = D /\ \A i \in D : t[i] = rows[i]
    BY <1>1, <1>2, Restricted
  <1>4. R!prune_config_snapshots(rows, now) = t
    BY <1>2, SnapshotsLeft DEF D
  <1>5. ASSUME NEW i \in DOMAIN rows
        PROVE  \/ \E j \in R!Earlier(rows, i) : /\ R!Week(At(j)) # R!Week(At(i))
                     /\ R!Year(At(j)) = R!Year(At(i)) /\ R!IsoWeek(At(j)) = R!IsoWeek(At(i))
               \/ \E k \in DOMAIN t : t[k].group = rows[i].group /\ R!Week(At(k)) = R!Week(At(i))
    <2>1. PICK k \in DOMAIN rows :
             /\ k <= i /\ rows[k].group = rows[i].group
             /\ R!WeekLabel(rows[k].taken) = R!WeekLabel(rows[i].taken)
             /\ FirstOfWeek(rows, k)
      BY FirstWithLabel
    <2>2. R!Year(At(k)) = R!Year(At(i)) /\ R!IsoWeek(At(k)) = R!IsoWeek(At(i))
      BY <2>1 DEF R!WeekLabel
    <2> HIDE DEF At
    <2>3. CASE R!Week(At(k)) = R!Week(At(i))
      BY <1>1, <1>3, <2>1, <2>3
    <2>4. CASE R!Week(At(k)) # R!Week(At(i))
      <3>1. k # i
        BY <2>4
      <3>2. k \in R!Earlier(rows, i)
        BY <1>0, <2>1, <3>1 DEF R!Earlier
      <3>3. QED
        BY <2>2, <2>4, <3>2
    <2>5. QED
      BY <2>3, <2>4
  <1>6. QED
    BY <1>4, <1>5 DEF R!WeeklyKept

\* Pruning the snapshots now and then later leaves what pruning them later leaves.
LEMMA SnapshotsConverge ==
    ASSUME NEW rows, Table(rows), NEW sooner \in Int, NEW later \in Int, sooner <= later
    PROVE  R!prune_config_snapshots(R!prune_config_snapshots(rows, sooner), later)
             = R!prune_config_snapshots(rows, later)
  <1> DEFINE D == KeptSnapshots(rows, sooner)
             B == KeptSnapshots(rows, later)
  <1>0. DOMAIN rows \subseteq Nat /\ \A i \in DOMAIN rows : rows[i].taken \in Int
    BY DEF Table
  <1>1. /\ D \in SUBSET DOMAIN rows
        /\ \A i \in DOMAIN rows : /\ R!Changed(rows, i) => i \in D
                                  /\ FirstOfWeek(rows, i) => i \in D
                                  /\ i \in B <=> \/ rows[i].taken >= R!_cut(later, 90)
                                                 \/ R!Changed(rows, i) \/ FirstOfWeek(rows, i)
        /\ B \subseteq DOMAIN rows
    BY DEF KeptSnapshots
  <1>2. B \subseteq D
    <2>1. R!_cut(later, 90) >= R!_cut(sooner, 90) /\ R!_cut(later, 90) \in Int /\ R!_cut(sooner, 90) \in Int
      BY DEF R!_cut
    <2>2. QED
      BY <1>0, <2>1 DEF KeptSnapshots
  <1> HIDE DEF D, B
  <1>3. PICK t : t = R!Restrict(rows, D)
    OBVIOUS
  <1>4. DOMAIN t = D /\ (\A i \in D : t[i] = rows[i]) /\ (\A i \in D : R!Earlier(t, i) = R!Earlier(rows, i) \cap D)
    BY <1>1, <1>3, Restricted
  <1>5. \A i \in D : R!Changed(t, i) <=> R!Changed(rows, i)
    BY <1>1, <1>3, SameChanges
  <1>6. \A i \in D : FirstOfWeek(t, i) <=> FirstOfWeek(rows, i)
    <2> TAKE i \in D
    <2>1. FirstOfWeek(rows, i) => FirstOfWeek(t, i)
      BY <1>4 DEF FirstOfWeek
    <2>2. ASSUME FirstOfWeek(t, i), NEW j \in R!Earlier(rows, i),
                 R!WeekLabel(rows[j].taken) = R!WeekLabel(rows[i].taken)
          PROVE  FALSE
      <3>1. j \in DOMAIN rows /\ j < i /\ rows[j].group = rows[i].group /\ i \in DOMAIN rows
        BY <1>1 DEF R!Earlier
      <3>2. PICK k \in DOMAIN rows :
               /\ k <= j /\ rows[k].group = rows[j].group
               /\ R!WeekLabel(rows[k].taken) = R!WeekLabel(rows[j].taken)
               /\ FirstOfWeek(rows, k)
        BY <3>1, FirstWithLabel
      <3>3. k \in D /\ k \in R!Earlier(rows, i)
        BY <1>0, <1>1, <3>1, <3>2 DEF R!Earlier
      <3>4. QED
        BY <1>4, <2>2, <3>2, <3>3 DEF FirstOfWeek
    <2>3. QED
      BY <2>1, <2>2 DEF FirstOfWeek
  <1>7. KeptSnapshots(t, later) = B
    <2>1. \A i \in D : i \in KeptSnapshots(t, later) <=> i \in B
      BY <1>1, <1>4, <1>5, <1>6 DEF KeptSnapshots
    <2>2. KeptSnapshots(t, later) \subseteq D
      BY <1>4 DEF KeptSnapshots
    <2>3. QED
      BY <1>2, <2>1, <2>2
  <1>8. R!Restrict(t, B) = R!Restrict(rows, B)
    BY <1>2, <1>4 DEF R!Restrict
  <1>9. R!prune_config_snapshots(rows, sooner) = t /\ R!prune_config_snapshots(rows, later) = R!Restrict(rows, B)
    BY <1>3, SnapshotsLeft DEF D, B
  <1>10. R!prune_config_snapshots(t, later) = R!Restrict(t, B)
    BY <1>7, SnapshotsLeft
  <1>11. QED
    BY <1>8, <1>9, <1>10

-----------------------------------------------------------------------------
(* What the pruning of the states leaves *)

\* The last row of its day, but for rows that are recent.
LastOfDay(rows, i, now) ==
    \A j \in DOMAIN rows : j > i /\ R!SameDay(rows[j], rows[i]) => rows[j].taken >= R!_cut(now, 30)

\* The rows of states that are kept.
KeptStates(rows, now) ==
    {i \in DOMAIN rows : rows[i].taken >= R!_cut(now, 30) \/ LastOfDay(rows, i, now)}

\* What _prune_last_of_day leaves (retention.py).
LEMMA StatesLeft ==
    ASSUME NEW rows, NEW now
    PROVE  R!_prune_last_of_day(rows, now) = R!Restrict(rows, KeptStates(rows, now))
  BY DEF R!_prune_last_of_day, KeptStates, LastOfDay

\* Pruning the states now and then later leaves what pruning them later leaves.
LEMMA StatesConverge ==
    ASSUME NEW rows, Table(rows), NEW sooner \in Int, NEW later \in Int, sooner <= later
    PROVE  R!_prune_last_of_day(R!_prune_last_of_day(rows, sooner), later)
             = R!_prune_last_of_day(rows, later)
  <1> DEFINE D == KeptStates(rows, sooner)
             B == KeptStates(rows, later)
  <1>0. DOMAIN rows \subseteq Nat /\ IsFiniteSet(DOMAIN rows) /\ \A i \in DOMAIN rows : rows[i].taken \in Int
    BY DEF Table
  <1>1. PICK x \in Int, y \in Int : x = R!_cut(sooner, 30) /\ y = R!_cut(later, 30) /\ x <= y
    BY DEF R!_cut
  <1>2. /\ \A i \in DOMAIN rows : i \in D <=> \/ rows[i].taken >= x
                \/ \A j \in DOMAIN rows : j > i /\ R!SameDay(rows[j], rows[i]) => rows[j].taken >= x
        /\ \A i \in DOMAIN rows : i \in B <=> \/ rows[i].taken >= y
                \/ \A j \in DOMAIN rows : j > i /\ R!SameDay(rows[j], rows[i]) => rows[j].taken >= y
        /\ D \in SUBSET DOMAIN rows /\ B \subseteq DOMAIN rows
    BY <1>1 DEF KeptStates, LastOfDay
  <1> HIDE DEF D, B
  <1>3. B \subseteq D
    <2> SUFFICES ASSUME NEW i \in DOMAIN rows, i \in B PROVE i \in D
      BY <1>2
    <2>1. rows[i].taken >= y \/ \A j \in DOMAIN rows : j > i /\ R!SameDay(rows[j], rows[i]) => rows[j].taken >= y
      BY <1>2
    <2>2. QED
      BY <1>0, <1>1, <1>2, <2>1
  <1>4. PICK t : t = R!Restrict(rows, D)
    OBVIOUS
  <1>5. DOMAIN t = D /\ \A i \in D : t[i] = rows[i]
    BY <1>2, <1>4, Restricted
  <1>6. \A i \in D : LastOfDay(t, i, later) <=> LastOfDay(rows, i, later)
    <2> TAKE i \in D
    <2>1. LastOfDay(rows, i, later) => LastOfDay(t, i, later)
      BY <1>2, <1>5 DEF LastOfDay
    <2>2. ASSUME LastOfDay(t, i, later),
                 NEW j \in DOMAIN rows, j > i, R!SameDay(rows[j], rows[i]), ~(rows[j].taken >= y)
          PROVE  FALSE
      <3> DEFINE S == {k \in DOMAIN rows : k > i /\ R!SameDay(rows[k], rows[i]) /\ ~(rows[k].taken >= y)}
      <3>1. S \in SUBSET DOMAIN rows /\ S \in SUBSET Nat /\ S # {}
        BY <1>0, <2>2
      <3>2. IsFiniteSet(S)
        BY <1>0, <3>1, FS_Subset
      <3>3. PICK m : m = R!Max(S)
        OBVIOUS
      <3> HIDE DEF S
      <3>4. m \in S /\ \A k \in S : k <= m
        BY <3>1, <3>2, <3>3, Greatest
      <3>5. m \in DOMAIN rows /\ m > i /\ R!SameDay(rows[m], rows[i]) /\ ~(rows[m].taken >= y)
        BY <3>4 DEF S
      <3>6. m \in D
        <4>1. ASSUME NEW k \in DOMAIN rows, k > m, R!SameDay(rows[k], rows[m]) PROVE rows[k].taken >= x
          <5>1. k > i /\ R!SameDay(rows[k], rows[i])
            BY <1>0, <1>2, <3>5, <4>1 DEF R!SameDay
          <5>2. k \notin S
            BY <1>0, <3>4, <3>5, <4>1
          <5>3. rows[k].taken >= y /\ rows[k].taken \in Int
            BY <1>0, <5>1, <5>2 DEF S
          <5>4. QED
            BY <1>1, <5>3
        <4>2. QED
          BY <1>2, <3>5, <4>1
      <3>7. R!SameDay(t[m], t[i]) /\ t[m] = rows[m]
        BY <1>5, <3>5, <3>6
      <3>8. t[m].taken >= y
        BY <1>1, <1>5, <2>2, <3>5, <3>6, <3>7 DEF LastOfDay
      <3>9. QED
        BY <3>5, <3>7, <3>8
    <2>3. QED
      BY <1>1, <2>1, <2>2 DEF LastOfDay
  <1>7. KeptStates(t, later) = B
    <2>1. \A i \in D : i \in KeptStates(t, later) <=> rows[i].taken >= y \/ LastOfDay(rows, i, later)
      BY <1>1, <1>5, <1>6 DEF KeptStates
    <2>2. \A i \in D : i \in B <=> rows[i].taken >= y \/ LastOfDay(rows, i, later)
      BY <1>1, <1>2 DEF LastOfDay
    <2>3. KeptStates(t, later) \subseteq D
      BY <1>5 DEF KeptStates
    <2>4. QED
      BY <1>3, <2>1, <2>2, <2>3
  <1>8. R!Restrict(t, B) = R!Restrict(rows, B)
    BY <1>3, <1>5 DEF R!Restrict
  <1>9. R!_prune_last_of_day(rows, sooner) = t /\ R!_prune_last_of_day(rows, later) = R!Restrict(rows, B)
    BY <1>4, StatesLeft DEF D, B
  <1>10. R!_prune_last_of_day(t, later) = R!Restrict(t, B)
    BY <1>7, StatesLeft
  <1>11. QED
    BY <1>8, <1>9, <1>10

\* The last row of each day stays, however often the states are pruned.
LEMMA DayEndsAreKept ==
    ASSUME NEW rows, Table(rows), NEW sooner \in Int, NEW later \in Int, sooner <= later
    PROVE  R!DayEndKept(rows, sooner, later)
  <1>0. DOMAIN rows \subseteq Nat /\ IsFiniteSet(DOMAIN rows) /\ \A i \in DOMAIN rows : rows[i].taken \in Int
    BY DEF Table
  <1>1. PICK y \in Int : y = R!_cut(later, 30)
    BY DEF R!_cut
  <1>2. PICK B : B = KeptStates(rows, later)
    OBVIOUS
  <1>3. /\ \A i \in DOMAIN rows : i \in B <=> \/ rows[i].taken >= y
                \/ \A j \in DOMAIN rows : j > i /\ R!SameDay(rows[j], rows[i]) => rows[j].taken >= y
        /\ B \in SUBSET DOMAIN rows
    BY <1>1, <1>2 DEF KeptStates, LastOfDay
  <1>4. PICK t : t = R!Restrict(rows, B)
    OBVIOUS
  <1>5. DOMAIN t = B /\ \A i \in B : t[i] = rows[i]
    BY <1>3, <1>4, Restricted
  <1>6. R!_prune_last_of_day(R!_prune_last_of_day(rows, sooner), later) = t
    BY <1>2, <1>4, StatesConverge, StatesLeft
  <1>7. ASSUME NEW i \in DOMAIN rows, 2 * R!Day(rows[i].taken) + 1 < y
        PROVE  {j \in DOMAIN t : R!SameDay(t[j], rows[i])}
                 = {R!Max({j \in DOMAIN rows : R!SameDay(rows[j], rows[i])})}
    <2> DEFINE S == {j \in DOMAIN rows : R!SameDay(rows[j], rows[i])}
    <2>1. S \in SUBSET DOMAIN rows /\ S \in SUBSET Nat /\ i \in S
      BY <1>0 DEF R!SameDay
    <2>2. IsFiniteSet(S)
      BY <1>0, <2>1, FS_Subset
    <2>3. PICK m : m = R!Max(S)
      OBVIOUS
    <2> HIDE DEF S
    <2>4. m \in S /\ \A k \in S : k <= m
      BY <2>1, <2>2, <2>3, Greatest
    <2>5. \A k \in S : k \in DOMAIN rows /\ k \in Nat /\ ~(rows[k].taken >= y) /\ R!SameDay(rows[k], rows[i])
      <3> TAKE k \in S
      <3>1. k \in DOMAIN rows /\ k \in Nat /\ R!SameDay(rows[k], rows[i]) /\ rows[k].taken \in Int
        BY <1>0 DEF S
      <3>2. PICK d \in Int, a \in Int : d = R!Day(rows[i].taken) /\ a = rows[k].taken /\ a \div 2 = d
        BY <1>0, <3>1 DEF R!SameDay, R!Day
      <3>3. a <= 2 * d + 1
        BY <3>2
      <3>4. a < y
        BY <1>7, <3>2, <3>3
      <3>5. QED
        BY <3>1, <3>2, <3>4
    <2>6. \A j, k \in S : R!SameDay(rows[j], rows[k])
      BY <2>5 DEF R!SameDay
    <2>7. m \in B
      <3>1. ASSUME NEW j \in DOMAIN rows, j > m, R!SameDay(rows[j], rows[m]) PROVE FALSE
        <4>1. j \in S
          BY <2>4, <2>5, <3>1 DEF S, R!SameDay
        <4>2. QED
          BY <2>4, <2>5, <3>1, <4>1
      <3>2. QED
        BY <1>3, <2>4, <2>5, <3>1
    <2>8. \A k \in S : k \in B => k = m
      <3> SUFFICES ASSUME NEW k \in S, k \in B, k # m PROVE FALSE
        OBVIOUS
      <3>1. m > k /\ R!SameDay(rows[m], rows[k]) /\ m \in DOMAIN rows /\ ~(rows[m].taken >= y)
        BY <2>4, <2>5, <2>6
      <3>2. QED
        BY <1>3, <2>5, <3>1
    <2>9. {j \in DOMAIN t : R!SameDay(t[j], rows[i])} = {m}
      <3>1. \A j \in B : R!SameDay(t[j], rows[i]) <=> j \in S
        BY <1>3, <1>5 DEF S
      <3>2. QED
        BY <1>5, <2>4, <2>7, <2>8, <3>1
    <2>10. QED
      BY <2>3, <2>9 DEF S
  <1>8. QED
    BY <1>1, <1>6, <1>7 DEF R!DayEndKept

-----------------------------------------------------------------------------
(* The advice about a repository *)

\* What makes a repository red.
Red(g, h) ==
    \/ H!Count(g, h, "failing_checks") > 0 \/ H!Count(g, h, "security_alerts") > 0
    \/ H!Count(g, h, "largest_blob_mb") >= 50 \/ H!Count(g, h, "force_pushes_7d") > 0

Strewn(g, h) == \/ H!Count(g, h, "dirty_files") > 50 \/ H!Count(g, h, "unmerged_agent_branches") > 0
                \/ H!Count(g, h, "orphan_worktrees") > 0

Untidy(g, h) == Strewn(g, h) \/ H!Count(g, h, "stale_branches") >= 3

\* What makes it amber.
Amber(g, h) ==
    \/ H!Count(g, h, "oldest_pr_days") > 7
    \/ H!DependabotAlone(g, h)
    \/ H!Count(g, h, "behind") > 0
    \/ H!Count(g, h, "behind") = 0 /\ H!Count(g, h, "ahead") >= 10
    \/ Untidy(g, h)

Clutter(g, h) ==
    (IF H!Count(g, h, "dirty_files") > 50 THEN {"dirty_files"} ELSE {})
      \cup {c \in {"unmerged_agent_branches", "stale_branches", "orphan_worktrees"} : H!Count(g, h, c) > 0}

Big(g, h) == H!Count(g, h, "largest_blob_mb") >= 50
Forced(g, h) == H!Count(g, h, "force_pushes_7d") > 0

\* The advice there is to give.
Found(g, h) ==
    H!Advice("red", H!Count(g, h, "failing_checks") > 0, {"failing_checks"})
      \cup H!Advice("red", H!Count(g, h, "security_alerts") > 0, {"security_alerts", "dependabot_open"})
      \cup H!Advice("red", Big(g, h) /\ Forced(g, h), {"largest_blob_mb", "force_pushes_7d"})
      \cup H!Advice("red", Big(g, h) /\ ~Forced(g, h), {"largest_blob_mb"})
      \cup H!Advice("red", Forced(g, h) /\ ~Big(g, h), {"force_pushes_7d"})
      \cup H!Advice("amber", H!Count(g, h, "oldest_pr_days") > 7, {"oldest_pr_days", "open_prs", "agent_prs"})
      \cup H!Advice("amber", H!DependabotAlone(g, h), {"dependabot_open"})
      \cup H!Advice("amber", H!Count(g, h, "behind") > 0, {"behind", "ahead"})
      \cup H!Advice("amber", H!Count(g, h, "behind") = 0 /\ H!Count(g, h, "ahead") >= 10, {"ahead"})
      \cup H!Advice("amber", Clutter(g, h) \ {"stale_branches"} # {}
                               \/ H!Count(g, h, "stale_branches") >= 3, Clutter(g, h))

\* The advice is what was found, or that all is well (repo_health.py).
LEMMA Suggested ==
    ASSUME NEW g, NEW h
    PROVE  H!suggestions(g, h) = IF Found(g, h) # {} THEN Found(g, h)
             ELSE H!Advice("info", TRUE, IF H!Count(g, h, "ahead") > 0 THEN {"ahead"} ELSE {})
  BY DEF H!suggestions, Found, Big, Forced, Clutter, H!BLOB_RED_MB, H!DIRTY_AMBER, H!OLD_PR_AMBER_DAYS,
         H!AHEAD_AMBER, H!STALE_BRANCH_AMBER

\* Each piece of advice, by its condition.
LEMMA Spoken ==
    ASSUME NEW g, NEW h, NEW s
    PROVE  s \in Found(g, h) <=>
             \/ H!Count(g, h, "failing_checks") > 0 /\ s = [level |-> "red", cols |-> {"failing_checks"}]
             \/ H!Count(g, h, "security_alerts") > 0
                  /\ s = [level |-> "red", cols |-> {"security_alerts", "dependabot_open"}]
             \/ Big(g, h) /\ Forced(g, h) /\ s = [level |-> "red", cols |-> {"largest_blob_mb", "force_pushes_7d"}]
             \/ Big(g, h) /\ ~Forced(g, h) /\ s = [level |-> "red", cols |-> {"largest_blob_mb"}]
             \/ Forced(g, h) /\ ~Big(g, h) /\ s = [level |-> "red", cols |-> {"force_pushes_7d"}]
             \/ H!Count(g, h, "oldest_pr_days") > 7
                  /\ s = [level |-> "amber", cols |-> {"oldest_pr_days", "open_prs", "agent_prs"}]
             \/ H!DependabotAlone(g, h) /\ s = [level |-> "amber", cols |-> {"dependabot_open"}]
             \/ H!Count(g, h, "behind") > 0 /\ s = [level |-> "amber", cols |-> {"behind", "ahead"}]
             \/ H!Count(g, h, "behind") = 0 /\ H!Count(g, h, "ahead") >= 10
                  /\ s = [level |-> "amber", cols |-> {"ahead"}]
             \/ Untidy(g, h) /\ s = [level |-> "amber", cols |-> Clutter(g, h)]
  <1>1. (Clutter(g, h) \ {"stale_branches"} # {} \/ H!Count(g, h, "stale_branches") >= 3) <=> Untidy(g, h)
    BY DEF Clutter, Untidy, Strewn
  <1>2. QED
    BY <1>1 DEF Found, H!Advice

\* The level of the advice, by the counters.
LEMMA LevelOfAdvice ==
    ASSUME NEW g, NEW h
    PROVE  H!level_of(H!suggestions(g, h)) =
             IF Red(g, h) THEN "red" ELSE IF Amber(g, h) THEN "amber" ELSE "green"
  <1> DEFINE F == Found(g, h)
             all == H!suggestions(g, h)
  <1>0. /\ \A cols : [level |-> "red", cols |-> cols].level = "red"
        /\ \A cols : [level |-> "amber", cols |-> cols].level = "amber"
        /\ \A cols : [level |-> "info", cols |-> cols].level = "info"
    OBVIOUS
  <1>1. (\E s \in F : s.level = "red") <=> Red(g, h)
    <2>1. ASSUME NEW s \in F, s.level = "red" PROVE Red(g, h)
      <3>1. "red" # "amber"
        OBVIOUS
      <3>2. QED
        BY <1>0, <2>1, <3>1, Spoken DEF Red, Big, Forced
    <2>2. ASSUME NEW cols, [level |-> "red", cols |-> cols] \in F PROVE \E s \in F : s.level = "red"
      BY <1>0, <2>2
    <2>3. ASSUME Red(g, h) PROVE \E cols : [level |-> "red", cols |-> cols] \in F
      <3>1. CASE H!Count(g, h, "failing_checks") > 0
        BY <3>1, Spoken
      <3>2. CASE H!Count(g, h, "security_alerts") > 0
        BY <3>2, Spoken
      <3>3. CASE Big(g, h) /\ Forced(g, h)
        BY <3>3, Spoken
      <3>4. CASE Big(g, h) /\ ~Forced(g, h)
        BY <3>4, Spoken
      <3>5. CASE ~Big(g, h) /\ Forced(g, h)
        BY <3>5, Spoken
      <3>6. QED
        BY <2>3, <3>1, <3>2, <3>3, <3>4, <3>5 DEF Red, Big, Forced
    <2>4. QED
      BY <2>1, <2>2, <2>3
  <1>2. (\E s \in F : s.level = "amber") <=> Amber(g, h)
    <2>1. ASSUME NEW s \in F, s.level = "amber" PROVE Amber(g, h)
      <3>1. "red" # "amber"
        OBVIOUS
      <3>2. QED
        BY <1>0, <2>1, <3>1, Spoken DEF Amber
    <2>2. ASSUME NEW cols, [level |-> "amber", cols |-> cols] \in F PROVE \E s \in F : s.level = "amber"
      BY <1>0, <2>2
    <2>3. ASSUME Amber(g, h) PROVE \E cols : [level |-> "amber", cols |-> cols] \in F
      <3>1. CASE H!Count(g, h, "oldest_pr_days") > 7
        BY <3>1, Spoken
      <3>2. CASE H!DependabotAlone(g, h)
        BY <3>2, Spoken
      <3>3. CASE H!Count(g, h, "behind") > 0
        BY <3>3, Spoken
      <3>4. CASE H!Count(g, h, "behind") = 0 /\ H!Count(g, h, "ahead") >= 10
        BY <3>4, Spoken
      <3>5. CASE Untidy(g, h)
        BY <3>5, Spoken
      <3>6. QED
        BY <2>3, <3>1, <3>2, <3>3, <3>4, <3>5 DEF Amber
    <2>4. QED
      BY <2>1, <2>2, <2>3
  <1>3. ASSUME F = {}, NEW s \in all PROVE s.level = "info"
    <2>1. all = H!Advice("info", TRUE, IF H!Count(g, h, "ahead") > 0 THEN {"ahead"} ELSE {})
      BY <1>3, Suggested
    <2>2. s = [level |-> "info", cols |-> IF H!Count(g, h, "ahead") > 0 THEN {"ahead"} ELSE {}]
      BY <1>3, <2>1 DEF H!Advice
    <2>3. QED
      BY <1>0, <2>2
  <1>4. F # {} => all = F
    BY Suggested
  <1> HIDE DEF F, all
  <1>5. /\ (\E s \in all : s.level = "red") <=> Red(g, h)
        /\ (\E s \in all : s.level = "amber") <=> Amber(g, h)
    <2>1. CASE F = {}
      BY <1>1, <1>2, <1>3, <2>1
    <2>2. CASE F # {}
      BY <1>1, <1>2, <1>4, <2>2
    <2>3. QED
      BY <2>1, <2>2
  <1>6. QED
    BY <1>5 DEF H!level_of, all

\* The counters that have a warning.
Warnings == {"largest_blob_mb", "dirty_files", "oldest_pr_days", "force_pushes_7d", "failing_checks",
             "security_alerts", "behind", "stale_branches", "unmerged_agent_branches",
             "orphan_worktrees", "dependabot_open"}

\* The chips that are not information, by their counters.
LEMMA Shown ==
    ASSUME NEW g, NEW h, NEW c \in H!signals(g, h)
    PROVE  /\ c.level = "red" => Red(g, h) \/ H!Count(g, h, "largest_blob_mb") > 49
           /\ c.level = "amber" => \/ c.col = "dirty_files" /\ H!Count(g, h, "dirty_files") > 50
                                   \/ c.col = "oldest_pr_days" /\ H!Count(g, h, "oldest_pr_days") > 7
                                   \/ c.col \in {"behind", "stale_branches", "unmerged_agent_branches",
                                                 "orphan_worktrees", "dependabot_open"}
                                        /\ H!Count(g, h, c.col) > 0
           /\ c.level = "red" => \/ c.col = "largest_blob_mb" /\ H!Count(g, h, "largest_blob_mb") > 49
                                 \/ c.col \in {"force_pushes_7d", "failing_checks", "security_alerts"}
                                      /\ H!Count(g, h, c.col) > 0
           /\ c.level \in {"red", "amber", "info"}
  <1>1. c \in H!Chips /\ H!Count(g, h, c.col) > c.above
    BY DEF H!signals
  <1>2. \/ c = H!Chip("red", "largest_blob_mb", 49)
        \/ c = H!Chip("amber", "dirty_files", 50)
        \/ c = H!Chip("amber", "oldest_pr_days", 7)
        \/ \E x \in {"force_pushes_7d", "failing_checks", "security_alerts"} : c = H!Chip("red", x, 0)
        \/ \E x \in {"behind", "stale_branches", "unmerged_agent_branches",
                     "orphan_worktrees", "dependabot_open"} : c = H!Chip("amber", x, 0)
        \/ \E x \in {"dirty_files", "ahead", "open_prs", "issues_open"} : c = H!Chip("info", x, 0)
    BY <1>1 DEF H!Chips, H!BLOB_RED_MB, H!DIRTY_AMBER, H!OLD_PR_AMBER_DAYS
  <1>3. \A l, x, a : /\ H!Chip(l, x, a).level = l /\ H!Chip(l, x, a).col = x /\ H!Chip(l, x, a).above = a
    BY DEF H!Chip
  <1>4. QED
    BY <1>1, <1>2, <1>3 DEF Red

\* A counter that has a red chip is a signal.
LEMMA RedIsShown ==
    ASSUME NEW g, NEW h, Red(g, h), H!Count(g, h, "largest_blob_mb") \in Nat
    PROVE  \E c \in H!signals(g, h) : c.level = "red"
  <1>1. \A l, x, a : /\ H!Chip(l, x, a).level = l /\ H!Chip(l, x, a).col = x /\ H!Chip(l, x, a).above = a
    BY DEF H!Chip
  <1>2. ASSUME NEW x, NEW a, H!Chip("red", x, a) \in H!Chips, H!Count(g, h, x) > a
        PROVE  \E c \in H!signals(g, h) : c.level = "red"
    <2>1. H!Chip("red", x, a) # H!Chip("info", "dirty_files", 0)
      BY <1>1
    <2>2. H!Chip("red", x, a) \in H!signals(g, h)
      BY <1>1, <1>2, <2>1 DEF H!signals
    <2>3. QED
      BY <1>1, <2>2
  <1>3. /\ H!Chip("red", "largest_blob_mb", 49) \in H!Chips
        /\ \A x \in {"force_pushes_7d", "failing_checks", "security_alerts"} : H!Chip("red", x, 0) \in H!Chips
    BY DEF H!Chips, H!BLOB_RED_MB
  <1>4. CASE H!Count(g, h, "largest_blob_mb") >= 50
    <2>1. H!Count(g, h, "largest_blob_mb") > 49
      BY <1>4
    <2>2. QED
      BY <1>2, <1>3, <2>1
  <1>5. CASE \E x \in {"force_pushes_7d", "failing_checks", "security_alerts"} : H!Count(g, h, x) > 0
    BY <1>2, <1>3, <1>5
  <1>6. QED
    BY <1>4, <1>5 DEF Red

\* The advice speaks of every counter that shows a warning, at the level of the worst.
LEMMA AdviceCovers ==
    ASSUME NEW g, NEW h, \A col \in H!GitCols \cup H!HubCols : H!Count(g, h, col) \in Nat
    PROVE  H!AdviceComplete(g, h)
  <1> DEFINE spoken == UNION {s.cols : s \in H!suggestions(g, h)}
             routine == IF H!_n(g, "stale_branches") < 3 THEN {"stale_branches"} ELSE {}
  <1>1. \A col \in Warnings \cup {"ahead"} : H!Count(g, h, col) \in Nat
    BY DEF Warnings, H!GitCols, H!HubCols
  <1>2. H!Count(g, h, "largest_blob_mb") > 49 => Red(g, h)
    BY <1>1 DEF Warnings, Red
  <1>3. (\E c \in H!signals(g, h) : c.level = "red") <=> Red(g, h)
    BY <1>1, <1>2, Shown, RedIsShown DEF Warnings
  <1>4. (H!level_of(H!signals(g, h)) = "red") <=> (H!level_of(H!suggestions(g, h)) = "red")
    <2>1. (H!level_of(H!signals(g, h)) = "red") <=> Red(g, h)
      BY <1>3 DEF H!level_of
    <2>2. QED
      BY <2>1, LevelOfAdvice
  <1>5. ASSUME NEW s \in Found(g, h), NEW col \in s.cols PROVE col \in spoken
    <2>1. s \in H!suggestions(g, h)
      BY <1>5, Suggested
    <2>2. QED
      BY <1>5, <2>1
  <1> HIDE DEF spoken
  <1>6. H!_n(g, "stale_branches") = H!Count(g, h, "stale_branches")
    BY DEF H!Count, H!GitCols
  <1>7. /\ H!Count(g, h, "largest_blob_mb") > 49 => "largest_blob_mb" \in spoken
        /\ H!Count(g, h, "force_pushes_7d") > 0 => "force_pushes_7d" \in spoken
    <2>1. H!Count(g, h, "largest_blob_mb") > 49 => Big(g, h)
      BY <1>1 DEF Warnings, Big
    <2>2. Big(g, h) => "largest_blob_mb" \in spoken
      <3>1. CASE Big(g, h) /\ Forced(g, h)
        <4>1. [level |-> "red", cols |-> {"largest_blob_mb", "force_pushes_7d"}] \in Found(g, h)
          BY <3>1, Spoken
        <4>2. QED
          BY <1>5, <4>1
      <3>2. CASE Big(g, h) /\ ~Forced(g, h)
        <4>1. [level |-> "red", cols |-> {"largest_blob_mb"}] \in Found(g, h)
          BY <3>2, Spoken
        <4>2. QED
          BY <1>5, <4>1
      <3>3. QED
        BY <3>1, <3>2
    <2>3. Forced(g, h) => "force_pushes_7d" \in spoken
      <3>1. CASE Big(g, h) /\ Forced(g, h)
        <4>1. [level |-> "red", cols |-> {"largest_blob_mb", "force_pushes_7d"}] \in Found(g, h)
          BY <3>1, Spoken
        <4>2. QED
          BY <1>5, <4>1
      <3>2. CASE Forced(g, h) /\ ~Big(g, h)
        <4>1. [level |-> "red", cols |-> {"force_pushes_7d"}] \in Found(g, h)
          BY <3>2, Spoken
        <4>2. QED
          BY <1>5, <4>1
      <3>3. QED
        BY <3>1, <3>2
    <2>4. QED
      BY <2>1, <2>2, <2>3 DEF Forced
  <1>8. /\ H!Count(g, h, "failing_checks") > 0 => "failing_checks" \in spoken
        /\ H!Count(g, h, "oldest_pr_days") > 7 => "oldest_pr_days" \in spoken
        /\ H!Count(g, h, "behind") > 0 => "behind" \in spoken
    <2>1. H!Count(g, h, "failing_checks") > 0 => [level |-> "red", cols |-> {"failing_checks"}] \in Found(g, h)
      BY Spoken
    <2>2. H!Count(g, h, "oldest_pr_days") > 7
            => [level |-> "amber", cols |-> {"oldest_pr_days", "open_prs", "agent_prs"}] \in Found(g, h)
      BY Spoken
    <2>3. H!Count(g, h, "behind") > 0 => [level |-> "amber", cols |-> {"behind", "ahead"}] \in Found(g, h)
      BY Spoken
    <2>4. QED
      BY <1>5, <2>1, <2>2, <2>3
  <1>9. /\ H!Count(g, h, "security_alerts") > 0 => {"security_alerts", "dependabot_open"} \subseteq spoken
        /\ H!Count(g, h, "dependabot_open") > 0 => "dependabot_open" \in spoken
    <2>1. H!Count(g, h, "security_alerts") > 0
            => [level |-> "red", cols |-> {"security_alerts", "dependabot_open"}] \in Found(g, h)
      BY Spoken
    <2>2. H!DependabotAlone(g, h) => [level |-> "amber", cols |-> {"dependabot_open"}] \in Found(g, h)
      BY Spoken
    <2>3. H!Count(g, h, "security_alerts") > 0 => {"security_alerts", "dependabot_open"} \subseteq spoken
      BY <1>5, <2>1
    <2>4. H!DependabotAlone(g, h) => "dependabot_open" \in spoken
      BY <1>5, <2>2
    <2>5. H!Count(g, h, "dependabot_open") > 0
            => H!DependabotAlone(g, h) \/ H!Count(g, h, "security_alerts") > 0
      BY <1>1 DEF H!DependabotAlone, Warnings
    <2>6. QED
      BY <2>3, <2>4, <2>5
  <1>10. Untidy(g, h) => Clutter(g, h) \subseteq spoken
    <2>1. Untidy(g, h) => [level |-> "amber", cols |-> Clutter(g, h)] \in Found(g, h)
      BY Spoken
    <2>2. QED
      BY <1>5, <2>1
  <1>11. /\ H!Count(g, h, "dirty_files") > 50 => "dirty_files" \in spoken
         /\ H!Count(g, h, "unmerged_agent_branches") > 0 => "unmerged_agent_branches" \in spoken
         /\ H!Count(g, h, "orphan_worktrees") > 0 => "orphan_worktrees" \in spoken
         /\ H!Count(g, h, "stale_branches") > 0 => "stale_branches" \in spoken \cup routine
    <2>1. H!Count(g, h, "stale_branches") > 0 /\ H!Count(g, h, "stale_branches") >= 3
            => "stale_branches" \in spoken
      BY <1>10 DEF Untidy, Clutter
    <2>2. ~(H!Count(g, h, "stale_branches") >= 3) => "stale_branches" \in routine
      BY <1>1, <1>6 DEF Warnings
    <2>3. QED
      BY <1>10, <2>1, <2>2 DEF Untidy, Strewn, Clutter
  <1>12. \A c \in H!signals(g, h) : c.level # "info" => c.col \in spoken \cup routine
    <2> SUFFICES ASSUME NEW c \in H!signals(g, h), c.level # "info" PROVE c.col \in spoken \cup routine
      OBVIOUS
    <2>1. c.level \in {"red", "amber"}
      BY Shown
    <2> HIDE DEF routine
    <2>2. CASE c.level = "red"
      BY <1>7, <1>8, <1>9, <2>2, Shown
    <2>3. CASE c.level = "amber"
      BY <1>8, <1>9, <1>11, <2>3, Shown
    <2>4. QED
      BY <2>1, <2>2, <2>3
  <1>13. QED
    BY <1>4, <1>12, Zenon DEF H!AdviceComplete, spoken, H!STALE_BRANCH_AMBER

-----------------------------------------------------------------------------
(* A failing command *)

\* The same, or zero.
Lower(a, b) == a = b \/ a = 0

\* Counters that are the same or zero give no worse a level.
LEMMA LowerIsNoWorse ==
    ASSUME NEW g, NEW h, NEW g0, NEW h0,
           \A col \in Warnings : Lower(H!Count(g, h, col), H!Count(g0, h0, col)),
           \/ /\ H!Count(g, h, "behind") = H!Count(g0, h0, "behind")
              /\ H!Count(g, h, "ahead") = H!Count(g0, h0, "ahead")
           \/ H!Count(g, h, "behind") = 0 /\ H!Count(g, h, "ahead") = 0,
           H!Count(g0, h0, "security_alerts") \in Nat
    PROVE  H!Rank(H!level_of(H!suggestions(g, h))) <= H!Rank(H!level_of(H!suggestions(g0, h0)))
  <1>1. Red(g, h) => Red(g0, h0)
    BY DEF Red, Lower, Warnings
  <1>2. Amber(g, h) => Amber(g0, h0) \/ Red(g0, h0)
    BY DEF Red, Amber, Untidy, Strewn, Lower, Warnings, H!DependabotAlone
  <1>3. H!Rank("green") = 0 /\ H!Rank("amber") = 1 /\ H!Rank("red") = 2
    BY DEF H!Rank
  <1>4. QED
    BY <1>1, <1>2, <1>3, LevelOfAdvice

\* F adds the failed checks of the pull requests of the subsets of S.
AddsFailed(S, F) == F = [s \in SUBSET S |-> IF s = {} THEN 0 ELSE Any(s).failed + F[s \ {Any(s)}]]

\* Without pull requests no check fails.
LEMMA NoneFailed == H!MapThenSumSet(LAMBDA p : p.failed, {}) = 0
  <1>1. H!MapThenSumSet(LAMBDA p : p.failed, {}) = (CHOOSE F : AddsFailed({}, F))[{}]
    BY DEF H!MapThenSumSet, H!MapThenFoldSet, AddsFailed, Any
  <1>2. AddsFailed({}, [s \in SUBSET {} |-> 0])
    <2>1. \A s \in SUBSET {} : s = {}
      OBVIOUS
    <2>2. QED
      BY <2>1 DEF AddsFailed
  <1>3. PICK F : F = CHOOSE f : AddsFailed({}, f)
    OBVIOUS
  <1>4. AddsFailed({}, F)
    BY <1>2, <1>3
  <1>5. F[{}] = 0
    BY <1>4 DEF AddsFailed
  <1>6. QED
    BY <1>1, <1>3, <1>5

\* A command that fails leaves its counters at zero or absent, so the level is no worse.
LEMMA FailuresLower ==
    ASSUME NEW x \in Inputs("repository")
    PROVE  H!FailureNeverAlarms(x[1], x[2], x[3])
  <1>1. PICK repo, hub, f : repo = x[1] /\ hub = x[2] /\ f = x[3]
    OBVIOUS
  <1>2. SUFFICES ASSUME "local" \notin f
                 PROVE  H!Rank(H!level_of(H!suggestions(H!collect(repo, f), H!compute(H!gather(hub, f)))))
                          <= H!Rank(H!level_of(H!suggestions(H!collect(repo, {}), H!compute(H!gather(hub, {})))))
    BY <1>1, Zenon DEF H!FailureNeverAlarms
  <1>3. PICK g, h, g0, h0 : /\ g = H!collect(repo, f) /\ h = H!compute(H!gather(hub, f))
                            /\ g0 = H!collect(repo, {}) /\ h0 = H!compute(H!gather(hub, {}))
    OBVIOUS
  <1>4. None \notin {g, h, g0, h0} /\ hub.scanning \in Nat
    BY <1>1, <1>3, Measured
  <1>5. H!_unmerged_agent_branches(repo, f) = H!_unmerged_agent_branches(repo, {})
    BY <1>2 DEF H!_unmerged_agent_branches
  <1>6. /\ Lower(g.behind, g0.behind) /\ Lower(g.dirty_files, g0.dirty_files)
        /\ Lower(g.orphan_worktrees, g0.orphan_worktrees) /\ Lower(g.stale_branches, g0.stale_branches)
        /\ Lower(g.unmerged_agent_branches, g0.unmerged_agent_branches)
        /\ g.largest_blob_mb = g0.largest_blob_mb \/ g.largest_blob_mb = None
        /\ g.force_pushes_7d = g0.force_pushes_7d
        /\ (g.behind = g0.behind /\ g.ahead = g0.ahead) \/ (g.behind = 0 /\ g.ahead = 0)
    BY <1>3, <1>5 DEF H!collect, H!Read, Lower
  <1>7. /\ Lower(h.security_alerts, h0.security_alerts) /\ Lower(h.dependabot_open, h0.dependabot_open)
        /\ h0.security_alerts = hub.scanning
    BY <1>3 DEF H!compute, H!gather, H!Read, Lower
  <1>8. Lower(h.failing_checks, h0.failing_checks) /\ Lower(h.oldest_pr_days, h0.oldest_pr_days)
    <2>1. CASE "prs" \in f
      <3>1. H!gather(hub, f).prs = {}
        BY <2>1 DEF H!gather
      <3>2. PICK raw : raw = H!gather(hub, f) /\ raw.prs = {}
        BY <3>1
      <3>3. h.failing_checks = 0
        BY <1>3, <3>2, NoneFailed DEF H!compute
      <3>4. h.oldest_pr_days = H!Max({0} \cup {p.age : p \in {}})
        BY <1>3, <3>2 DEF H!compute
      <3>5. {0} \cup {p.age : p \in {}} = {0}
        OBVIOUS
      <3>6. h.oldest_pr_days = 0
        BY <3>4, <3>5 DEF H!Max
      <3>7. QED
        BY <3>3, <3>6 DEF Lower
    <2>2. CASE "prs" \notin f
      <3>1. H!gather(hub, f).prs = H!gather(hub, {}).prs
        BY <2>2 DEF H!gather
      <3>2. PICK raw, raw0 : raw = H!gather(hub, f) /\ raw0 = H!gather(hub, {}) /\ raw.prs = raw0.prs
        BY <3>1
      <3>3. h.failing_checks = h0.failing_checks /\ h.oldest_pr_days = h0.oldest_pr_days
        BY <1>3, <3>2 DEF H!compute
      <3>4. QED
        BY <3>3 DEF Lower
    <2>3. QED
      BY <2>1, <2>2
  <1>9. /\ \A col \in H!GitCols : /\ H!Count(g, h, col) = IF g[col] = None THEN 0 ELSE g[col]
                                  /\ H!Count(g0, h0, col) = IF g0[col] = None THEN 0 ELSE g0[col]
        /\ \A col \in H!HubCols : /\ H!Count(g, h, col) = IF h[col] = None THEN 0 ELSE h[col]
                                  /\ H!Count(g0, h0, col) = IF h0[col] = None THEN 0 ELSE h0[col]
    BY <1>4 DEF H!Count, H!_n, H!GitCols, H!HubCols
  <1>10. \A col \in Warnings : Lower(H!Count(g, h, col), H!Count(g0, h0, col))
    BY <1>6, <1>7, <1>8, <1>9 DEF Warnings, Lower, H!GitCols, H!HubCols
  <1>11. \/ /\ H!Count(g, h, "behind") = H!Count(g0, h0, "behind")
            /\ H!Count(g, h, "ahead") = H!Count(g0, h0, "ahead")
         \/ H!Count(g, h, "behind") = 0 /\ H!Count(g, h, "ahead") = 0
    BY <1>6, <1>9 DEF H!GitCols
  <1>12. H!Count(g0, h0, "security_alerts") \in Nat
    BY <1>4, <1>7, <1>9 DEF H!HubCols
  <1>13. QED
    BY <1>3, <1>10, <1>11, <1>12, LowerIsNoWorse

-----------------------------------------------------------------------------
(* The components together: a step is of one part and leaves the others what they were *)

\* Outside its part a component stands still.
LEMMA OnePart ==
    ASSUME [Next]_vars
    PROVE  /\ Compute \/ UNCHANGED pure
           /\ G!Next \/ UNCHANGED registry
           /\ P!Next \/ UNCHANGED promotion
           /\ W!Next \/ UNCHANGED sessions
           /\ L!Next \/ UNCHANGED telemetry
           /\ E!Next \/ UNCHANGED secrets
  BY Zenon DEF Next, Pure, Registry, Promotion, Sessions, Telemetry, Secrets, vars

\* The registry's invariant is about the registry's variables.
LEMMA RegistryStays == ASSUME RegistryInv, UNCHANGED registry PROVE RegistryInv'
  <1>1. UNCHANGED <<reg, applies, cadence, prompt, library, steps, editing, torn, halfMade>>
    BY DEF registry
  <1>2. G!Listed' = G!Listed /\ Stage' = Stage
    BY <1>1 DEF G!Listed, Stage
  <1>3. G!TypeOK'
    BY <1>1, <1>2 DEF RegistryInv, G!TypeOK
  <1>4. EditFit' /\ LoopsFit' /\ PairsFit'
    BY <1>1, <1>2 DEF RegistryInv, EditFit, LoopsFit, PairsFit
  <1>5. QED
    BY <1>3, <1>4 DEF RegistryInv

\* The promotion's invariant is about the promotion's variables.
LEMMA PromotionStays == ASSUME PromotionInv, UNCHANGED promotion PROVE PromotionInv'
  BY DEF promotion, PromotionInv, P!TypeOK, P!PinNeverAhead, P!SkillNeverLost, InHand, Unbroken, P!Files, P!Idle,
         P!At, Idle, Doing

\* The transcripts' invariant is about the transcripts' variables.
LEMMA TranscriptsStay == ASSUME TranscriptsInv, UNCHANGED sessions PROVE TranscriptsInv'
  <1>1. UNCHANGED <<file, partial, offset, oversized, extracted, walk, overlaps>>
    BY DEF sessions
  <1>2. \A c, s : Reading(c, s)' <=> Reading(c, s)
    BY <1>1 DEF Reading
  <1>3. \A s, i : DueTo(s, i)' = DueTo(s, i) /\ (Holding(s, i)' <=> Holding(s, i))
    BY <1>1, <1>2 DEF DueTo, Holding
  <1>4. WalkTyped'
    BY <1>1 DEF TranscriptsInv, WalkTyped, W!TypeOK
  <1>5. ReadsFit' /\ LinesFit' /\ W!NothingSkipped'
    BY <1>1, <1>2 DEF TranscriptsInv, ReadsFit, LinesFit, W!NothingSkipped
  <1>6. AllCounted'
    BY <1>1, <1>3 DEF TranscriptsInv, AllCounted
  <1>7. QED
    BY <1>4, <1>5, <1>6 DEF TranscriptsInv

\* The telemetry's invariant is about the telemetry's variables.
LEMMA TelemetryStays == ASSUME TelemetryInv, UNCHANGED telemetry PROVE TelemetryInv'
  <1>1. UNCHANGED <<today, spool, received, daily, monthly, draining>>
    BY DEF telemetry
  <1>2. \A r, d : Earned(r, d)' <=> Earned(r, d)
    BY <1>1 DEF Earned
  <1>3. QED
    BY <1>1, <1>2 DEF TelemetryInv, L!TypeOK

\* The secrets' invariant is about the secrets' variables.
LEMMA SecretsStay == ASSUME SecretsInv, UNCHANGED secrets PROVE SecretsInv'
  <1>1. UNCHANGED <<store, env, pushes, faults, stale>>
    BY DEF secrets
  <1>2. E!TypeOK'
    BY <1>1 DEF SecretsInv, E!TypeOK
  <1>3. \A w \in E!Worktrees : Current(w)' <=> Current(w)
    BY <1>1 DEF Current, Resolved, E!FirstOf
  <1>4. \A w \in E!Worktrees : Due(w)' <=> Due(w)
    BY <1>1 DEF Due
  <1>5. QED
    BY <1>1, <1>2, <1>3, <1>4 DEF SecretsInv

\* An input that has been picked is one of its topic.
Picked == input = None \/ input \in Inputs(topic)

\* An algorithm is only ever computed on an input of its topic.
LEMMA PickedStep == Picked /\ (Compute \/ UNCHANGED pure) => Picked'
  BY DEF Picked, Compute, pure

\* Whatever is collected of a repository, the advice speaks of every counter that has a warning
\* chip, and a git or gh command that fails makes no repository look worse (repo_health.py,
\* git_state.py, github_state.py).
THEOREM AdviceIsSound == Spec => []AdviceSound
  <1>1. Init => Picked
    BY DEF Init, Picked
  <1>2. Picked /\ [Next]_vars => Picked'
    BY OnePart, PickedStep
  <1>3. Picked => AdviceSound
    <2> SUFFICES ASSUME Picked PROVE AdviceSound
      OBVIOUS
    <2>1. On("advice") => H!AdviceComplete(input[1], input[2])
      <3>1. On("advice") => input \in Inputs("advice")
        BY DEF Picked, On
      <3>2. QED
        BY <3>1, Measured, AdviceCovers
    <2>2. On("repository") => H!FailureNeverAlarms(input[1], input[2], input[3])
      <3>1. On("repository") => input \in Inputs("repository")
        BY DEF Picked, On
      <3>2. QED
        BY <3>1, FailuresLower
    <2>3. QED
      BY <2>1, <2>2 DEF AdviceSound
  <1>4. QED
    BY <1>1, <1>2, <1>3, PTL DEF Spec

\* retention.py deletes no row at which a configuration changed, leaves each week
\* (but for one whose label another week had before it) and each day its row, and does not depend
\* on how often it has run before.
THEOREM RetentionIsSound == Spec => []RetentionSound
  <1>1. Init => Picked
    BY DEF Init, Picked
  <1>2. Picked /\ [Next]_vars => Picked'
    BY OnePart, PickedStep
  <1>3. Picked => RetentionSound
    <2> SUFFICES ASSUME Picked PROVE RetentionSound
      OBVIOUS
    <2>1. On("snapshots") \/ On("states") => input \in Inputs("snapshots") \cup Inputs("states")
      BY DEF Picked, On
    <2>2. SUFFICES ASSUME input \in Inputs("snapshots") \cup Inputs("states")
                   PROVE  /\ R!ChangesKept(input[1], input[2][1]) /\ R!WeeklyKept(input[1], input[2][2])
                          /\ R!PruneConverges(input[1], input[2][1], input[2][2])
                          /\ R!DayEndKept(input[1], input[2][1], input[2][2])
      BY <2>1 DEF RetentionSound
    <2>3. PICK rows, a, b : rows = input[1] /\ a = input[2][1] /\ b = input[2][2]
      OBVIOUS
    <2>4. a \in Int /\ b \in Int /\ a <= b
      BY <2>2, <2>3, Numbered
    <2>5. Table(rows)
      <3>1. /\ DOMAIN rows \subseteq Nat /\ IsFiniteSet(DOMAIN rows)
            /\ \A i \in DOMAIN rows : rows[i].taken \in Int
        BY <2>2, <2>3, Numbered
      <3>2. QED
        BY <3>1 DEF Table
    <2>6. R!ChangesKept(rows, a) /\ R!WeeklyKept(rows, b)
      BY <2>5, ChangesAreKept, WeeksAreKept
    <2>7. R!PruneConverges(rows, a, b)
      BY <2>4, <2>5, SnapshotsConverge, StatesConverge DEF R!PruneConverges
    <2>8. R!DayEndKept(rows, a, b)
      BY <2>4, <2>5, DayEndsAreKept
    <2>9. QED
      BY <2>3, <2>6, <2>7, <2>8
  <1>4. QED
    BY <1>1, <1>2, <1>3, PTL DEF Spec

\* Whatever edits of loops.py and discover.py follow each other, and wherever one dies: the files
\* agree between edits, but for the pairs a dead edit or a stale form left, and a wired loop has
\* its cadence file and its prompt at every moment.  A promotion (promote.py) that dies between
\* its steps loses no skill, and pins no version that the marketplace and the plugin lack.
THEOREM RegistryIsSound == Spec => []RegistrySound
  <1>1. Init => RegistryInv /\ PromotionInv
    BY RegistryStarts, PromotionStarts DEF Init
  <1>2. RegistryInv /\ PromotionInv /\ [Next]_vars => (RegistryInv /\ PromotionInv)'
    <2> SUFFICES ASSUME RegistryInv, PromotionInv, [Next]_vars PROVE RegistryInv' /\ PromotionInv'
      OBVIOUS
    <2>1. RegistryInv'
      BY OnePart, RegistryStep, RegistryStays
    <2>2. PromotionInv'
      BY OnePart, PromotionStep, PromotionStays
    <2>3. QED
      BY <2>1, <2>2
  <1>3. RegistryInv /\ PromotionInv => RegistrySound
    BY RegistryRight DEF RegistrySound, RegistryGood, PromotionInv
  <1>4. QED
    BY <1>1, <1>2, <1>3, PTL DEF Spec

\* Collectors of transcripts.py that overlap, stop half way and meet half-written, oversized or
\* unreadable lines leave no line behind the offset out, extract each once but for what an overlap
\* repeats, and never go past a line that cannot be read.
THEOREM TranscriptsAreSound == Spec => []TranscriptsSound
  <1>1. Init => TranscriptsInv
    BY TranscriptsStart DEF Init
  <1>2. TranscriptsInv /\ [Next]_vars => TranscriptsInv'
    BY OnePart, TranscriptsStep, TranscriptsStay
  <1>3. QED
    BY <1>1, <1>2, TranscriptsRight, PTL DEF Spec

\* However the drains of two collectors interleave, no day's and no month's row of the telemetry
\* totals exceeds the points that were received.
THEOREM TotalsAreEarned == Spec => []TotalsEarned
  <1>1. Init => TelemetryInv
    BY TelemetryStarts DEF Init
  <1>2. TelemetryInv /\ [Next]_vars => TelemetryInv'
    BY OnePart, TelemetryStep, TelemetryStays
  <1>3. QED
    BY <1>1, <1>2, TelemetryEarned, PTL DEF Spec

\* After any sequence of rotations, pushes and faults (secrets.py), a worktree's .env holds for each
\* key the value resolution finds, except where a push failed or has not come to the worktree.
THEOREM EnvsAreCurrent == Spec => []EnvsCurrent
  <1>1. Init => SecretsInv
    BY SecretsStart DEF Init
  <1>2. SecretsInv /\ [Next]_vars => SecretsInv'
    BY OnePart, SecretsStep, SecretsStay
  <1>3. QED
    BY <1>1, <1>2, SecretsCurrent, PTL DEF Spec
================================================================================
