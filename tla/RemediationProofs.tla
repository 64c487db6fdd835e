--------------------------- MODULE RemediationProofs ---------------------------
(***************************************************************************)
(* Proofs about Remediation, for any registry, any number of scans that    *)
(* overlap and die, and whatever runs end and decisions settle meanwhile.  *)
(***************************************************************************)
EXTENDS Remediation, FiniteSetTheorems, WellFoundedInduction, TLAPS

\* What is asked of the constants.
Limits == MaxRuns \in Nat /\ MaxTime \in Nat /\ \A q \in Pair : MaxAttempts(q) \in Nat

-----------------------------------------------------------------------------
(* Sets, and how many they hold *)

\* A subset is no larger.
LEMMA CardSub ==
    ASSUME NEW S, NEW T, IsFiniteSet(T), S \subseteq T
    PROVE  /\ IsFiniteSet(S) /\ Cardinality(S) <= Cardinality(T)
           /\ Cardinality(S) \in Nat /\ Cardinality(T) \in Nat
  BY FS_Subset, FS_CardinalityType

\* One more member, one more at most.
LEMMA CardAdd ==
    ASSUME NEW S, NEW T, NEW x, IsFiniteSet(T), S \subseteq T \cup {x}
    PROVE  /\ IsFiniteSet(S) /\ Cardinality(S) <= Cardinality(T) + 1
           /\ Cardinality(S) \in Nat /\ Cardinality(T) \in Nat
  <1>0. Cardinality(T) \in Nat
    BY FS_CardinalityType
  <1>1. IsFiniteSet(T \cup {x}) /\ Cardinality(T \cup {x}) <= Cardinality(T) + 1
    BY <1>0, FS_AddElement
  <1>2. IsFiniteSet(S) /\ Cardinality(S) <= Cardinality(T \cup {x})
        /\ Cardinality(S) \in Nat /\ Cardinality(T \cup {x}) \in Nat
    BY <1>1, CardSub
  <1>3. QED
    BY <1>0, <1>1, <1>2

\* One member less.
LEMMA CardDrop ==
    ASSUME NEW S, NEW T, NEW x \in T, IsFiniteSet(T), S \subseteq T \ {x}
    PROVE  /\ Cardinality(S) + 1 <= Cardinality(T)
           /\ Cardinality(S) \in Nat /\ Cardinality(T) \in Nat
  <1>1. IsFiniteSet(T \ {x}) /\ Cardinality(T \ {x}) = Cardinality(T) - 1
    BY FS_RemoveElement
  <1>2. Cardinality(S) <= Cardinality(T \ {x})
        /\ Cardinality(S) \in Nat /\ Cardinality(T \ {x}) \in Nat
    BY <1>1, CardSub
  <1>3. Cardinality(T) \in Nat
    BY FS_CardinalityType
  <1>4. QED
    BY <1>1, <1>2, <1>3

\* One member for another.
LEMMA CardSwap ==
    ASSUME NEW S, NEW T, NEW x, NEW y, IsFiniteSet(T), S \subseteq (T \ {x}) \cup {y},
           y \in S => x \in T
    PROVE  Cardinality(S) <= Cardinality(T) /\ Cardinality(S) \in Nat
  <1>1. CASE y \notin S
    BY <1>1, CardSub
  <1>2. CASE x \in T
    <2>1. IsFiniteSet(T \ {x}) /\ Cardinality(T \ {x}) + 1 <= Cardinality(T)
          /\ Cardinality(T \ {x}) \in Nat /\ Cardinality(T) \in Nat
      BY <1>2, CardDrop, CardSub
    <2>2. Cardinality(S) <= Cardinality(T \ {x}) + 1 /\ Cardinality(S) \in Nat
      BY <2>1, CardAdd
    <2>3. QED
      BY <2>1, <2>2
  <1>3. QED
    BY <1>1, <1>2

\* Only the empty set has no members.
LEMMA NoneLeft ==
    ASSUME NEW S, IsFiniteSet(S)
    PROVE  S = {} <=> Cardinality(S) = 0
  BY FS_EmptySet

\* A set of positions that is not empty has a last one.
LEMMA Latest ==
    ASSUME NEW S, NEW n \in Nat, S \subseteq 1 .. n, S # {}
    PROVE  Max(S) \in S /\ \A y \in S : Max(S) >= y
  <1> DEFINE T == {n - x : x \in S}
  <1>1. T \in SUBSET Nat /\ T # {}
    <2>1. \A x \in S : n - x \in Nat
      OBVIOUS
    <2>2. QED
      BY <2>1
  <1>2. PICK m \in T : \A y \in T : <<y, m>> \notin OpToRel(<, Nat)
    BY <1>1, WFMin, NatLessThanWellFounded, Zenon
  <1>3. \A y \in T : ~(y < m)
    BY <1>1, <1>2, Zenon DEF OpToRel
  <1>4. PICK x \in S : m = n - x
    OBVIOUS
  <1>5. \A y \in S : ~(n - y < n - x)
    BY <1>3, <1>4
  <1>6. \A y \in S : x >= y
    BY <1>5
  <1>7. QED
    BY <1>6 DEF Max

-----------------------------------------------------------------------------
(* What is typed *)

Receipt == [verdict : Verdicts, ended : 0 .. MaxTime]

Plans == UNION {[D -> Step] : D \in SUBSET Pair}

Typed ==
    /\ now \in 0 .. MaxTime
    /\ runs \in [Pair -> Seq(Receipt)]
    /\ \A q \in Pair : /\ Len(runs[q]) <= MaxRuns
                       /\ \A i \in DOMAIN runs[q] : runs[q][i].ended <= now
    /\ decs \subseteq Decision /\ IsFiniteSet(decs)
    /\ \A d \in decs : d.created <= now
    /\ tried \in [Pair -> Nat]
    /\ todo \in [Scanner -> Plans]

\* A receipt of a pair has an end within the bound.
LEMMA Ended ==
    ASSUME Typed, NEW q \in Pair, NEW i \in DOMAIN runs[q]
    PROVE  runs[q][i] \in Receipt /\ runs[q][i].ended \in 0 .. MaxTime
  <1>1. runs[q] \in Seq(Receipt)
    BY DEF Typed
  <1>2. runs[q][i] \in Receipt
    BY <1>1
  <1>3. QED
    BY <1>2 DEF Receipt

\* A plan maps pairs to steps.
LEMMA PlansFunction ==
    ASSUME NEW w \in Plans
    PROVE  /\ DOMAIN w \subseteq Pair /\ w = [x \in DOMAIN w |-> w[x]]
           /\ \A q \in DOMAIN w : w[q] \in Step
  BY DEF Plans

\* The empty plan is one.
LEMMA NothingPlanned == <<>> \in Plans /\ DOMAIN <<>> = {}
  BY DEF Plans

\* What a scanner's plan holds of a pair.
Doomed(s, q, action) == q \in DOMAIN todo[s] /\ todo[s][q].action = action

\* Dropping a pair leaves the rest of the plan as it was.
LEMMA DropPlan ==
    ASSUME Typed, NEW s \in Scanner, NEW q \in Pair, Drop(s, q)
    PROVE  /\ todo' \in [Scanner -> Plans]
           /\ DOMAIN todo'[s] = DOMAIN todo[s] \ {q}
           /\ \A p \in DOMAIN todo'[s] : todo'[s][p] = todo[s][p]
           /\ \A t \in Scanner : t # s => todo'[t] = todo[t]
  <1> DEFINE D == DOMAIN todo[s] \ {q}
             w == Restrict(todo[s], D)
  <1>0. todo \in [Scanner -> Plans] /\ todo[s] \in Plans
    BY DEF Typed
  <1>1. w = [x \in D |-> todo[s][x]]
    BY Zenon DEF Restrict
  <1>2. D \subseteq Pair /\ D \subseteq DOMAIN todo[s] /\ \A x \in D : todo[s][x] \in Step
    BY <1>0, PlansFunction
  <1>3. w \in [D -> Step]
    BY <1>1, <1>2
  <1>4. w \in Plans /\ DOMAIN w = D /\ \A p \in D : w[p] = todo[s][p]
    BY <1>1, <1>2, <1>3 DEF Plans
  <1>5. todo' = [todo EXCEPT ![s] = w]
    BY DEF Drop
  <1> HIDE DEF w
  <1>6. QED
    BY <1>0, <1>4, <1>5

-----------------------------------------------------------------------------
(* What an enqueue and a settlement leave of the queue *)

\* A decision is added as it is, but for the number of its copy.
LEMMA AddedOne ==
    ASSUME NEW D, IsFiniteSet(D), NEW d
    PROVE  \E n \in Nat : Added(d, D) = D \cup {[d EXCEPT !.copy = n]}
  <1>1. IsFiniteSet(Alike(d, D))
    BY FS_Subset DEF Alike
  <1>2. Cardinality(Alike(d, D)) + 1 \in Nat
    BY <1>1, FS_CardinalityType
  <1>3. QED
    BY <1>2 DEF Added

\* What enqueue adds to the queue.
LEMMA EnqueueAdds ==
    ASSUME Typed, NEW kind \in {"fix", "note"}, NEW q \in Pair, NEW run \in 0 .. MaxRuns,
           Enqueue(kind, q, run)
    PROVE  \E e \in Decision :
             /\ decs' = decs \cup {e}
             /\ e.kind = kind /\ e.pair = q /\ e.run = run
             /\ e.status = "pending" /\ e.created = now
  <1> DEFINE d == [copy |-> 0, kind |-> kind, pair |-> q, run |-> run,
                   status |-> "pending", created |-> now]
  <1>1. PICK n \in Nat : decs' = decs \cup {[d EXCEPT !.copy = n]}
    BY AddedOne DEF Enqueue, Typed
  <1> DEFINE e == [d EXCEPT !.copy = n]
  <1>2. /\ e.kind = kind /\ e.pair = q /\ e.run = run
        /\ e.status = "pending" /\ e.created = now
    OBVIOUS
  <1>3. e \in Decision
    BY DEF Decision, Typed
  <1>4. QED
    BY <1>1, <1>2, <1>3

\* What settling a decision puts in its place.
LEMMA SettleSwaps ==
    ASSUME Typed, NEW d \in decs, NEW status \in {"applied", "superseded"}, Settle(d, status)
    PROVE  \E e \in Decision :
             /\ decs' = (decs \ {d}) \cup {e}
             /\ e.kind = d.kind /\ e.pair = d.pair /\ e.run = d.run
             /\ e.created = d.created /\ d.status = "pending"
  <1>0. d \in Decision /\ IsFiniteSet(decs \ {d})
    BY FS_Subset DEF Typed
  <1> DEFINE c == [d EXCEPT !.status = status]
  <1>1. PICK n \in Nat : decs' = (decs \ {d}) \cup {[c EXCEPT !.copy = n]}
    BY <1>0, AddedOne DEF Settle
  <1> DEFINE e == [c EXCEPT !.copy = n]
  <1>2. e.kind = d.kind /\ e.pair = d.pair /\ e.run = d.run /\ e.created = d.created
    BY <1>0 DEF Decision
  <1>3. e \in Decision
    BY <1>0 DEF Decision
  <1>4. QED
    BY <1>1, <1>2, <1>3 DEF Settle

-----------------------------------------------------------------------------
(* The last green run *)

\* The last green run lies in the past.
LEMMA GreenKnown ==
    ASSUME Typed, Limits, NEW q \in Pair
    PROVE  LastGreenEnded(q) \in Int /\ LastGreenEnded(q) <= now
  <1> DEFINE S == {i \in DOMAIN runs[q] : runs[q][i].verdict = "green"}
  <1>1. now \in Int /\ 0 <= now
    BY DEF Typed, Limits
  <1>2. runs[q] \in Seq(Receipt)
    BY DEF Typed
  <1>3. CASE S = {}
    BY <1>1, <1>3 DEF LastGreenEnded
  <1>4. CASE S # {}
    <2>1. S \subseteq 1 .. Len(runs[q]) /\ Len(runs[q]) \in Nat
      BY <1>2
    <2>2. Max(S) \in S
      BY <1>4, <2>1, Latest
    <2>3. LastGreenEnded(q) = runs[q][Max(S)].ended
      BY <1>4 DEF LastGreenEnded
    <2> HIDE DEF S
    <2>4. Max(S) \in DOMAIN runs[q]
      BY <2>2 DEF S
    <2>5. runs[q][Max(S)] \in Receipt /\ runs[q][Max(S)].ended <= now
      BY <1>2, <2>4 DEF Typed
    <2>6. QED
      BY <2>3, <2>5 DEF Receipt, Limits
  <1>5. QED
    BY <1>3, <1>4

\* A run that ends moves the last green run of its pair forward, if at all.
LEMMA GreenLater ==
    ASSUME Typed, Limits, NEW p \in Pair, NEW v \in Verdicts, RunEnds(p, v), NEW q \in Pair
    PROVE  LastGreenEnded(q)' >= LastGreenEnded(q) /\ LastGreenEnded(q)' \in Int
  <1>0. LastGreenEnded(q) \in Int /\ LastGreenEnded(q) <= now /\ now \in Nat
    BY GreenKnown DEF Typed, Limits
  <1>1. PICK t \in {now, now + 1} :
            /\ t <= MaxTime /\ now' = t
            /\ runs' = [runs EXCEPT ![p] = Append(@, [verdict |-> v, ended |-> t])]
    BY DEF RunEnds
  <1>2. runs \in [Pair -> Seq(Receipt)] /\ t \in Nat /\ t >= now
    BY <1>0, <1>1 DEF Typed
  <1>3. CASE q # p
    <2>1. runs'[q] = runs[q]
      BY <1>1, <1>2, <1>3
    <2>2. LastGreenEnded(q)' = LastGreenEnded(q)
      BY <2>1 DEF LastGreenEnded
    <2>3. QED
      BY <1>0, <2>2
  <1>4. CASE q = p
    <2> DEFINE r == [verdict |-> v, ended |-> t]
               n == Len(runs[q])
               S == {i \in DOMAIN runs[q] : runs[q][i].verdict = "green"}
               T == {i \in DOMAIN Append(runs[q], r) : Append(runs[q], r)[i].verdict = "green"}
    <2>1. runs[q] \in Seq(Receipt) /\ n \in Nat /\ r \in Receipt /\ r.ended = t
      <3>1. t \in 0 .. MaxTime
        BY <1>1, <1>2 DEF Limits
      <3>2. runs[q] \in Seq(Receipt)
        BY <1>2
      <3>3. QED
        BY <3>1, <3>2 DEF Receipt
    <2>2. /\ DOMAIN Append(runs[q], r) = 1 .. n + 1 /\ DOMAIN runs[q] = 1 .. n
          /\ Append(runs[q], r)[n + 1] = r
          /\ \A i \in 1 .. n : Append(runs[q], r)[i] = runs[q][i]
      BY <2>1
    <2>3. runs'[q] = Append(runs[q], r)
      BY <1>1, <1>2, <1>4
    <2>4. LastGreenEnded(q)' = IF T = {} THEN -1 ELSE Append(runs[q], r)[Max(T)].ended
      BY <2>3 DEF LastGreenEnded
    <2>5. LastGreenEnded(q) = IF S = {} THEN -1 ELSE runs[q][Max(S)].ended
      BY DEF LastGreenEnded
    <2>a. (v = "green" => n + 1 \in T) /\ (v # "green" => T = S) /\ S \subseteq 1 .. n
          /\ T \subseteq 1 .. n + 1
      BY <2>1, <2>2
    <2> HIDE DEF S, T, r
    <2>6. CASE v = "green"
      <3>1. n + 1 \in T /\ T \subseteq 1 .. n + 1 /\ n + 1 \in Nat
        BY <2>1, <2>a, <2>6
      <3>2. Max(T) \in 1 .. n + 1 /\ Max(T) >= n + 1
        <4> HIDE DEF n
        <4>1. Max(T) \in T /\ \A y \in T : Max(T) >= y
          BY <3>1, Latest
        <4>2. QED
          BY <3>1, <4>1
      <3>3. Max(T) = n + 1
        <4> HIDE DEF n
        <4>1. QED
          BY <2>1, <3>2
      <3>4. Append(runs[q], r)[Max(T)].ended = t /\ T # {}
        BY <2>1, <2>2, <3>1, <3>3
      <3>5. LastGreenEnded(q)' = t
        BY <2>4, <3>4
      <3>6. QED
        BY <1>0, <1>2, <3>5
    <2>7. CASE v # "green"
      <3>1. T = S
        BY <2>a, <2>7
      <3>2. CASE S = {}
        BY <1>0, <2>4, <2>5, <3>1, <3>2
      <3>3. CASE S # {}
        <4>1. S \subseteq 1 .. n
          BY <2>a
        <4>2. Max(S) \in S
          BY <2>1, <3>3, <4>1, Latest
        <4>3. Append(runs[q], r)[Max(S)] = runs[q][Max(S)]
          BY <2>2, <4>1, <4>2
        <4>4. LastGreenEnded(q)' = LastGreenEnded(q)
          BY <2>4, <2>5, <3>1, <3>3, <4>3
        <4>5. QED
          BY <1>0, <4>4
      <3>4. QED
        BY <3>2, <3>3
    <2>8. QED
      BY <2>6, <2>7
  <1>5. QED
    BY <1>3, <1>4

-----------------------------------------------------------------------------
(* The invariant.  What a scanner still carries of its plan counts as well: *)
(* every dispatch was planned below the limit, beside at most one of every  *)
(* other scanner.                                                           *)

Dispatching(q) == {s \in Scanner : Doomed(s, q, "dispatch")}

Filing(q, run) == {s \in Scanner : Doomed(s, q, "file-note") /\ todo[s][q].run = run}

Carried ==
    \A q \in Pair : Cardinality(AttemptsSince(q)) + Cardinality(Dispatching(q))
                      <= MaxAttempts(q) - 1 + Cardinality(Scanner)

Told ==
    \A q \in Pair, run \in 0 .. MaxRuns :
        Cardinality(Notes(q, run)) + Cardinality(Filing(q, run)) <= Cardinality(Scanner)

\* Until the attempts are spent, no fix is in the queue that was not counted.
Counted ==
    \A q \in Pair : \/ tried[q] = MaxAttempts(q)
                    \/ tried[q] < MaxAttempts(q) /\ Cardinality(FixDecisions(q)) <= tried[q]

Spent(q) == tried[q] = MaxAttempts(q)

Earned ==
    \A q \in Pair :
        /\ \A s \in Scanner : Doomed(s, q, "capped") \/ Doomed(s, q, "file-note") => Spent(q)
        /\ \A run \in 0 .. MaxRuns : Notes(q, run) # {} => Spent(q)

Inv == Typed /\ Carried /\ Told /\ Counted /\ Earned

\* All these sets are finite.
LEMMA Counts ==
    ASSUME Typed, Limits, NEW q \in Pair
    PROVE  /\ IsFiniteSet(FixDecisions(q)) /\ IsFiniteSet(AttemptsSince(q))
           /\ AttemptsSince(q) \subseteq FixDecisions(q) /\ FixDecisions(q) \subseteq decs
           /\ IsFiniteSet(Dispatching(q)) /\ Dispatching(q) \subseteq Scanner
           /\ \A run \in 0 .. MaxRuns :
                /\ IsFiniteSet(Notes(q, run)) /\ IsFiniteSet(Filing(q, run))
                /\ Cardinality(Notes(q, run)) \in Nat /\ Cardinality(Filing(q, run)) \in Nat
                /\ Filing(q, run) \subseteq Scanner
           /\ Cardinality(FixDecisions(q)) \in Nat /\ Cardinality(AttemptsSince(q)) \in Nat
           /\ Cardinality(Dispatching(q)) \in Nat
           /\ Cardinality(Scanner) \in Nat /\ Cardinality(Scanner) >= 1
           /\ tried[q] \in Nat /\ MaxAttempts(q) \in Nat
  <1>1. IsFiniteSet(decs) /\ IsFiniteSet(Scanner)
    BY ScannerAssumption DEF Typed
  <1>2. FixDecisions(q) \subseteq decs /\ AttemptsSince(q) \subseteq FixDecisions(q)
        /\ Dispatching(q) \subseteq Scanner
    BY DEF FixDecisions, AttemptsSince, Dispatching
  <1>3. \A run \in 0 .. MaxRuns : Notes(q, run) \subseteq decs /\ Filing(q, run) \subseteq Scanner
    BY DEF Notes, Filing
  <1>4. IsFiniteSet(FixDecisions(q)) /\ Cardinality(FixDecisions(q)) \in Nat
    BY <1>1, <1>2, CardSub
  <1>5. IsFiniteSet(AttemptsSince(q)) /\ Cardinality(AttemptsSince(q)) \in Nat
    BY <1>4, <1>2, CardSub
  <1>6. IsFiniteSet(Dispatching(q)) /\ Cardinality(Dispatching(q)) \in Nat
    BY <1>1, <1>2, CardSub
  <1>7. ASSUME NEW run \in 0 .. MaxRuns
        PROVE  /\ IsFiniteSet(Notes(q, run)) /\ IsFiniteSet(Filing(q, run))
               /\ Cardinality(Notes(q, run)) \in Nat /\ Cardinality(Filing(q, run)) \in Nat
    BY <1>1, <1>3, CardSub
  <1>8. Cardinality(Scanner) \in Nat /\ Cardinality(Scanner) # 0
    BY <1>1, ScannerAssumption, FS_CardinalityType, NoneLeft
  <1>9. QED
    BY <1>2, <1>3, <1>4, <1>5, <1>6, <1>7, <1>8 DEF Typed, Limits

-----------------------------------------------------------------------------
(* Steps that plan nothing: plans shrink, and the queue holds no more than it did *)

PlansShrink ==
    \A s \in Scanner, q \in Pair :
        q \in DOMAIN todo'[s] => q \in DOMAIN todo[s] /\ todo'[s][q] = todo[s][q]

\* A step that adds no attempt, fix or note and plans nothing keeps the invariant.
LEMMA Eased ==
    ASSUME Limits, Inv, Typed', tried' = tried, PlansShrink,
           \A q \in Pair : /\ Cardinality(AttemptsSince(q)') <= Cardinality(AttemptsSince(q))
                           /\ Cardinality(FixDecisions(q)') <= Cardinality(FixDecisions(q))
                           /\ \A run \in 0 .. MaxRuns :
                                Cardinality(Notes(q, run)') <= Cardinality(Notes(q, run))
    PROVE  Inv'
  <1>0. Typed /\ Carried /\ Told /\ Counted /\ Earned
    BY DEF Inv
  <1>1. ASSUME NEW q \in Pair
        PROVE  /\ Cardinality(Dispatching(q)') <= Cardinality(Dispatching(q))
               /\ Cardinality(Dispatching(q)') \in Nat
    <2>1. Dispatching(q)' \subseteq Dispatching(q)
      BY DEF Dispatching, Doomed, PlansShrink
    <2>2. QED
      BY <1>0, <2>1, Counts, CardSub
  <1>2. ASSUME NEW q \in Pair, NEW run \in 0 .. MaxRuns
        PROVE  /\ Cardinality(Filing(q, run)') <= Cardinality(Filing(q, run))
               /\ Cardinality(Filing(q, run)') \in Nat
    <2>1. Filing(q, run)' \subseteq Filing(q, run)
      BY DEF Filing, Doomed, PlansShrink
    <2>2. QED
      BY <1>0, <2>1, Counts, CardSub
  <1>3. \A q \in Pair : MaxAttempts(q)' = MaxAttempts(q)
    BY DEF MaxAttempts, Cadence
  <1>4. ASSUME NEW q \in Pair
        PROVE  /\ Cardinality(AttemptsSince(q)') \in Nat
               /\ Cardinality(FixDecisions(q)') \in Nat
               /\ \A run \in 0 .. MaxRuns : /\ IsFiniteSet(Notes(q, run)')
                                            /\ Cardinality(Notes(q, run)') \in Nat
    <2>1. IsFiniteSet(decs')
      BY DEF Typed
    <2>2. FixDecisions(q)' \subseteq decs' /\ AttemptsSince(q)' \subseteq decs'
          /\ \A run \in 0 .. MaxRuns : Notes(q, run)' \subseteq decs'
      BY DEF FixDecisions, AttemptsSince, Notes
    <2>3. QED
      BY <2>1, <2>2, CardSub
  <1>5. ASSUME NEW q \in Pair
        PROVE  Cardinality(AttemptsSince(q)') + Cardinality(Dispatching(q)')
                 <= MaxAttempts(q) - 1 + Cardinality(Scanner)
    <2>1. Cardinality(AttemptsSince(q)) + Cardinality(Dispatching(q))
            <= MaxAttempts(q) - 1 + Cardinality(Scanner)
      BY <1>0 DEF Carried
    <2>2. QED
      BY <1>0, <1>1, <1>4, <2>1, Counts
  <1>6. ASSUME NEW q \in Pair, NEW run \in 0 .. MaxRuns
        PROVE  Cardinality(Notes(q, run)') + Cardinality(Filing(q, run)') <= Cardinality(Scanner)
    <2>1. Cardinality(Notes(q, run)) + Cardinality(Filing(q, run)) <= Cardinality(Scanner)
      BY <1>0 DEF Told
    <2>2. QED
      BY <1>0, <1>2, <1>4, <2>1, Counts
  <1>7. ASSUME NEW q \in Pair
        PROVE  \/ tried[q] = MaxAttempts(q)
               \/ tried[q] < MaxAttempts(q) /\ Cardinality(FixDecisions(q)') <= tried[q]
    <2>1. \/ tried[q] = MaxAttempts(q)
          \/ tried[q] < MaxAttempts(q) /\ Cardinality(FixDecisions(q)) <= tried[q]
      BY <1>0 DEF Counted
    <2>2. QED
      BY <1>0, <1>4, <2>1, Counts
  <1>8. ASSUME NEW q \in Pair, NEW run \in 0 .. MaxRuns, Notes(q, run)' # {}
        PROVE  Notes(q, run) # {}
    <2>1. Cardinality(Notes(q, run)') # 0
      BY <1>4, <1>8, NoneLeft
    <2>2. Cardinality(Notes(q, run)) # 0
      BY <1>0, <1>4, <2>1, Counts
    <2>3. QED
      BY <1>0, <2>2, Counts, NoneLeft
  <1>9. Carried' /\ Told'
    BY <1>3, <1>5, <1>6 DEF Carried, Told
  <1>10. Counted'
    BY <1>3, <1>7 DEF Counted
  <1>11. Earned'
    BY <1>0, <1>3, <1>8 DEF Earned, Spent, Doomed, PlansShrink
  <1>12. QED
    BY <1>9, <1>10, <1>11 DEF Inv

\* The queue is left alone, and no green run is forgotten.
LEMMA SameQueue ==
    ASSUME Limits, Inv, Typed', tried' = tried, PlansShrink, decs' = decs,
           \A q \in Pair : /\ LastGreenEnded(q)' \in Int
                           /\ LastGreenEnded(q)' >= LastGreenEnded(q)
    PROVE  Inv'
  <1>0. Typed
    BY DEF Inv
  <1>1. ASSUME NEW q \in Pair
        PROVE  /\ FixDecisions(q)' = FixDecisions(q)
               /\ \A run \in 0 .. MaxRuns : Notes(q, run)' = Notes(q, run)
    BY DEF FixDecisions, Notes
  <1>2. ASSUME NEW q \in Pair PROVE AttemptsSince(q)' \subseteq AttemptsSince(q)
    <2>1. LastGreenEnded(q) \in Int
      BY <1>0, GreenKnown
    <2>2. \A d \in FixDecisions(q) : d.created \in Int
      BY <1>0 DEF Typed, FixDecisions, Decision, Limits
    <2>3. QED
      BY <1>1, <2>1, <2>2 DEF AttemptsSince
  <1>3. ASSUME NEW q \in Pair
        PROVE  /\ Cardinality(AttemptsSince(q)') <= Cardinality(AttemptsSince(q))
               /\ Cardinality(FixDecisions(q)') <= Cardinality(FixDecisions(q))
               /\ \A run \in 0 .. MaxRuns :
                    Cardinality(Notes(q, run)') <= Cardinality(Notes(q, run))
    BY <1>0, <1>1, <1>2, Counts, CardSub
  <1>4. QED
    BY <1>3, Eased

\* Time passes: nothing is counted by the clock alone.
LEMMA TickInv ==
    ASSUME Limits, Inv, Tick
    PROVE  Inv'
  <1>0. Typed
    BY DEF Inv
  <1>1. now' = now + 1 /\ now' \in 0 .. MaxTime /\ UNCHANGED <<runs, decs, todo, tried>>
    BY <1>0 DEF Tick, Typed, Limits
  <1>2. \A q \in Pair : \A i \in DOMAIN runs[q] : runs[q][i].ended \in Nat
    BY <1>0, Ended
  <1>3. \A d \in decs : d.created \in Nat
    BY <1>0 DEF Typed, Decision
  <1>4. now \in Nat
    BY <1>0 DEF Typed
  <1>5. Typed'
    BY <1>0, <1>1, <1>2, <1>3, <1>4 DEF Typed
  <1>6. \A q \in Pair : LastGreenEnded(q)' = LastGreenEnded(q) /\ LastGreenEnded(q) \in Int
    BY <1>0, <1>1, GreenKnown DEF LastGreenEnded
  <1>7. PlansShrink
    BY <1>1 DEF PlansShrink
  <1>8. QED
    BY <1>1, <1>5, <1>6, <1>7, SameQueue

\* A run ends: a green one begins a new streak, any other adds nothing that is counted.
LEMMA RunEndsInv ==
    ASSUME Limits, Inv, NEW p \in Pair, NEW v \in Verdicts, RunEnds(p, v)
    PROVE  Inv'
  <1>0. Typed
    BY DEF Inv
  <1>1. PICK t \in {now, now + 1} :
            /\ t <= MaxTime /\ now' = t
            /\ runs' = [runs EXCEPT ![p] = Append(@, [verdict |-> v, ended |-> t])]
    BY DEF RunEnds
  <1>2. /\ UNCHANGED <<decs, todo, tried>> /\ Len(runs[p]) < MaxRuns
        /\ runs \in [Pair -> Seq(Receipt)] /\ now \in Nat /\ t >= now /\ t \in 0 .. MaxTime
    BY <1>0, <1>1 DEF RunEnds, Typed, Limits
  <1> DEFINE r == [verdict |-> v, ended |-> t]
  <1>3. r \in Receipt /\ r.ended = t
    BY <1>2 DEF Receipt
  <1> HIDE DEF r
  <1>4. runs' \in [Pair -> Seq(Receipt)]
    BY <1>1, <1>2, <1>3 DEF r
  <1>5. ASSUME NEW q \in Pair
        PROVE  /\ Len(runs'[q]) <= MaxRuns
               /\ \A i \in DOMAIN runs'[q] : runs'[q][i].ended <= now'
    <2>1. /\ Len(runs[q]) <= MaxRuns
          /\ \A i \in DOMAIN runs[q] : runs[q][i].ended <= now /\ runs[q][i].ended \in Nat
      BY <1>0, Ended DEF Typed
    <2>2. CASE q # p
      <3>1. runs'[q] = runs[q]
        BY <1>1, <1>2, <2>2
      <3>2. QED
        BY <1>1, <1>2, <2>1, <3>1
    <2>3. CASE q = p
      <3>1. runs'[q] = Append(runs[q], r) /\ runs[q] \in Seq(Receipt)
        BY <1>1, <1>2, <2>3 DEF r
      <3>2. /\ Len(runs'[q]) = Len(runs[q]) + 1
            /\ DOMAIN runs'[q] = 1 .. Len(runs[q]) + 1 /\ DOMAIN runs[q] = 1 .. Len(runs[q])
            /\ runs'[q][Len(runs[q]) + 1] = r
            /\ \A i \in 1 .. Len(runs[q]) : runs'[q][i] = runs[q][i]
        BY <1>3, <3>1
      <3>3. Len(runs[q]) \in Nat
        BY <3>1
      <3>4. QED
        BY <1>1, <1>2, <1>3, <2>1, <2>3, <3>2, <3>3 DEF Limits
    <2>4. QED
      BY <2>2, <2>3
  <1>6. \A d \in decs : d.created <= now'
    BY <1>0, <1>1, <1>2 DEF Typed, Decision, Limits
  <1>7. Typed'
    BY <1>0, <1>1, <1>2, <1>4, <1>5, <1>6 DEF Typed
  <1>8. \A q \in Pair : LastGreenEnded(q)' >= LastGreenEnded(q) /\ LastGreenEnded(q)' \in Int
    BY <1>0, GreenLater
  <1>9. PlansShrink
    BY <1>2 DEF PlansShrink
  <1>10. QED
    BY <1>2, <1>7, <1>8, <1>9, SameQueue

\* A decision that settles leaves one of its kind behind, and no live one where none was.
LEMMA SettleInv ==
    ASSUME Limits, Inv, NEW d \in decs, NEW status \in {"applied", "superseded"},
           Settle(d, status)
    PROVE  Inv'
  <1>0. Typed
    BY DEF Inv
  <1>1. PICK e \in Decision :
          /\ decs' = (decs \ {d}) \cup {e}
          /\ e.kind = d.kind /\ e.pair = d.pair /\ e.run = d.run
          /\ e.created = d.created /\ d.status = "pending"
    BY <1>0, SettleSwaps
  <1>2. UNCHANGED <<now, runs, todo, tried>>
    BY DEF Settle
  <1>3. IsFiniteSet(decs')
    <2>1. IsFiniteSet(decs \ {d})
      BY <1>0, FS_Subset DEF Typed
    <2>2. QED
      BY <1>1, <2>1, FS_AddElement
  <1>4. Typed'
    BY <1>0, <1>1, <1>2, <1>3 DEF Typed
  <1>5. ASSUME NEW q \in Pair
        PROVE  /\ Cardinality(AttemptsSince(q)') <= Cardinality(AttemptsSince(q))
               /\ Cardinality(FixDecisions(q)') <= Cardinality(FixDecisions(q))
    <2>1. LastGreenEnded(q)' = LastGreenEnded(q)
      BY <1>2 DEF LastGreenEnded
    <2>2. /\ FixDecisions(q)' \subseteq (FixDecisions(q) \ {d}) \cup {e}
          /\ (e \in FixDecisions(q)' => d \in FixDecisions(q))
      BY <1>1 DEF FixDecisions
    <2>3. /\ AttemptsSince(q)' \subseteq (AttemptsSince(q) \ {d}) \cup {e}
          /\ (e \in AttemptsSince(q)' => d \in AttemptsSince(q))
      BY <1>1, <2>1, <2>2 DEF AttemptsSince
    <2>4. QED
      BY <1>0, <2>2, <2>3, Counts, CardSwap
  <1>6. ASSUME NEW q \in Pair, NEW run \in 0 .. MaxRuns
        PROVE  Cardinality(Notes(q, run)') <= Cardinality(Notes(q, run))
    <2>1. /\ Notes(q, run)' \subseteq (Notes(q, run) \ {d}) \cup {e}
          /\ (e \in Notes(q, run)' => d \in Notes(q, run))
      BY <1>1 DEF Notes
    <2>2. QED
      BY <1>0, <2>1, Counts, CardSwap
  <1>7. PlansShrink
    BY <1>2 DEF PlansShrink
  <1>8. QED
    BY <1>2, <1>4, <1>5, <1>6, <1>7, Eased

\* gc takes a decision away.
LEMMA PruneInv ==
    ASSUME Limits, Inv, NEW d \in decs, Prune(d)
    PROVE  Inv'
  <1>0. Typed
    BY DEF Inv
  <1>1. decs' = decs \ {d} /\ UNCHANGED <<now, runs, todo, tried>>
    BY DEF Prune
  <1>2. Typed'
    BY <1>0, <1>1, FS_Subset DEF Typed
  <1>3. ASSUME NEW q \in Pair
        PROVE  /\ Cardinality(AttemptsSince(q)') <= Cardinality(AttemptsSince(q))
               /\ Cardinality(FixDecisions(q)') <= Cardinality(FixDecisions(q))
               /\ \A run \in 0 .. MaxRuns :
                    Cardinality(Notes(q, run)') <= Cardinality(Notes(q, run))
    <2>1. LastGreenEnded(q)' = LastGreenEnded(q)
      BY <1>1 DEF LastGreenEnded
    <2>2. FixDecisions(q)' \subseteq FixDecisions(q)
          /\ \A run \in 0 .. MaxRuns : Notes(q, run)' \subseteq Notes(q, run)
      BY <1>1 DEF FixDecisions, Notes
    <2>3. AttemptsSince(q)' \subseteq AttemptsSince(q)
      BY <2>1, <2>2 DEF AttemptsSince
    <2>4. QED
      BY <1>0, <2>2, <2>3, Counts, CardSub
  <1>4. PlansShrink
    BY <1>1 DEF PlansShrink
  <1>5. QED
    BY <1>1, <1>2, <1>3, <1>4, Eased

-----------------------------------------------------------------------------
(* The steps of a scan *)

\* A scanner goes on, finds nothing to do, or dies: less is planned, nothing else is touched.
LEMMA ShrinkInv ==
    ASSUME Limits, Inv, todo' \in [Scanner -> Plans], PlansShrink,
           UNCHANGED <<now, runs, decs, tried>>
    PROVE  Inv'
  <1>0. Typed
    BY DEF Inv
  <1>1. Typed'
    BY <1>0 DEF Typed
  <1>2. \A q \in Pair : LastGreenEnded(q)' = LastGreenEnded(q) /\ LastGreenEnded(q) \in Int
    BY <1>0, GreenKnown DEF LastGreenEnded
  <1>3. QED
    BY <1>1, <1>2, SameQueue

\* Dropping a pair only shrinks the plan.
LEMMA DropShrinks ==
    ASSUME Typed, NEW s \in Scanner, NEW q \in Pair, Drop(s, q)
    PROVE  todo' \in [Scanner -> Plans] /\ PlansShrink
  <1>1. /\ todo' \in [Scanner -> Plans]
        /\ DOMAIN todo'[s] = DOMAIN todo[s] \ {q}
        /\ \A p \in DOMAIN todo'[s] : todo'[s][p] = todo[s][p]
        /\ \A t \in Scanner : t # s => todo'[t] = todo[t]
    BY DropPlan
  <1>2. QED
    BY <1>1 DEF PlansShrink

\* A scan dies with its plan.
LEMMA DieInv ==
    ASSUME Limits, Inv, NEW s \in Scanner, Die(s)
    PROVE  Inv'
  <1>1. todo \in [Scanner -> Plans]
    BY DEF Inv, Typed
  <1>2. todo' = [todo EXCEPT ![s] = <<>>] /\ UNCHANGED <<now, runs, decs, tried>>
    BY DEF Die
  <1>3. todo' \in [Scanner -> Plans]
    BY <1>1, <1>2, NothingPlanned
  <1>4. DOMAIN todo'[s] = {} /\ \A t \in Scanner : t # s => todo'[t] = todo[t]
    BY <1>1, <1>2, NothingPlanned
  <1>5. PlansShrink
    BY <1>4 DEF PlansShrink
  <1>6. QED
    BY <1>2, <1>3, <1>5, ShrinkInv

\* A pair with a fix pending is skipped.
LEMMA SkipPendingInv ==
    ASSUME Limits, Inv, NEW s \in Scanner, NEW q \in Pair, SkipPending(s, q)
    PROVE  Inv'
  <1>1. Typed /\ Drop(s, q) /\ UNCHANGED <<now, runs, decs, tried>>
    BY DEF Inv, SkipPending
  <1>2. QED
    BY <1>1, DropShrinks, ShrinkInv

\* What a scan plans for a pair fits what it has just read of the queue.
LEMMA PlanTyped ==
    ASSUME Typed, Limits
    PROVE  /\ PlanNow \in Plans
           /\ \A q \in DOMAIN PlanNow :
                /\ q \in Pair /\ PlanNow[q].action # "file-note"
                /\ PlanNow[q].action = "dispatch" =>
                     Cardinality(AttemptsSince(q)) < MaxAttempts(q)
                /\ PlanNow[q].action = "capped" =>
                     Cardinality(AttemptsSince(q)) >= MaxAttempts(q)
  <1> DEFINE D == {c \in Candidates : IsRed(c)}
  <1>1. PlanNow = [q \in D |-> PlanFor(q)] /\ D \subseteq Pair
    BY DEF PlanNow, Candidates
  <1>2. ASSUME NEW q \in Pair
        PROVE  /\ PlanFor(q) \in Step /\ PlanFor(q).action # "file-note"
               /\ PlanFor(q).action = "dispatch" =>
                    Cardinality(AttemptsSince(q)) < MaxAttempts(q)
               /\ PlanFor(q).action = "capped" =>
                    Cardinality(AttemptsSince(q)) >= MaxAttempts(q)
    <2>1. Len(runs[q]) \in 0 .. MaxRuns
      BY DEF Typed, Limits
    <2>2. Cardinality(AttemptsSince(q)) \in Nat /\ MaxAttempts(q) \in Nat
      BY Counts
    <2>3. QED
      BY <2>1, <2>2 DEF PlanFor, Step
  <1> HIDE DEF D
  <1>3. PlanNow \in [D -> Step]
    BY <1>1, <1>2
  <1>4. QED
    BY <1>1, <1>2, <1>3 DEF Plans

\* A scan plans, from what the receipts and the queue say at that moment.
LEMMA PlanInv ==
    ASSUME Limits, Inv, NEW s \in Scanner, Plan(s)
    PROVE  Inv'
  <1>0. Typed /\ Carried /\ Told /\ Counted /\ Earned
    BY DEF Inv
  <1>1. /\ DOMAIN todo[s] = {} /\ todo' = [todo EXCEPT ![s] = PlanNow]
        /\ UNCHANGED <<now, runs, decs, tried>>
    BY DEF Plan
  <1>2. todo \in [Scanner -> Plans] /\ PlanNow \in Plans
    BY <1>0, PlanTyped DEF Typed
  <1>3. /\ todo' \in [Scanner -> Plans] /\ todo'[s] = PlanNow
        /\ \A t \in Scanner : t # s => todo'[t] = todo[t]
    BY <1>1, <1>2
  <1>4. Typed'
    BY <1>0, <1>1, <1>3 DEF Typed
  <1>5. ASSUME NEW q \in Pair
        PROVE  /\ AttemptsSince(q)' = AttemptsSince(q) /\ FixDecisions(q)' = FixDecisions(q)
               /\ MaxAttempts(q)' = MaxAttempts(q)
               /\ \A run \in 0 .. MaxRuns : Notes(q, run)' = Notes(q, run)
    BY <1>1 DEF AttemptsSince, FixDecisions, LastGreenEnded, Notes, MaxAttempts, Cadence
  <1>6. ASSUME NEW q \in Pair
        PROVE  Cardinality(AttemptsSince(q)) + Cardinality(Dispatching(q)')
                 <= MaxAttempts(q) - 1 + Cardinality(Scanner)
    <2>0. Cardinality(AttemptsSince(q)) + Cardinality(Dispatching(q))
            <= MaxAttempts(q) - 1 + Cardinality(Scanner)
      BY <1>0 DEF Carried
    <2>1. Dispatching(q)' \subseteq Scanner
      BY DEF Dispatching
    <2>2. CASE Doomed(s, q, "dispatch")'
      <3>1. Cardinality(AttemptsSince(q)) < MaxAttempts(q)
        BY <1>0, <1>3, <2>2, PlanTyped DEF Doomed
      <3>2. Cardinality(Dispatching(q)') <= Cardinality(Scanner)
            /\ Cardinality(Dispatching(q)') \in Nat
        BY <2>1, ScannerAssumption, CardSub
      <3>3. QED
        BY <1>0, <3>1, <3>2, Counts
    <2>3. CASE ~Doomed(s, q, "dispatch")'
      <3>1. Dispatching(q)' \subseteq Dispatching(q)
        BY <1>3, <2>3 DEF Dispatching, Doomed
      <3>2. Cardinality(Dispatching(q)') <= Cardinality(Dispatching(q))
            /\ Cardinality(Dispatching(q)') \in Nat
        BY <1>0, <3>1, Counts, CardSub
      <3>3. QED
        BY <1>0, <2>0, <3>2, Counts
    <2>4. QED
      BY <2>2, <2>3
  <1>7. ASSUME NEW q \in Pair, NEW run \in 0 .. MaxRuns
        PROVE  Cardinality(Notes(q, run)) + Cardinality(Filing(q, run)') <= Cardinality(Scanner)
    <2>1. ~Doomed(s, q, "file-note")'
      BY <1>0, <1>3, PlanTyped DEF Doomed
    <2>2. Filing(q, run)' \subseteq Filing(q, run)
      BY <1>3, <2>1 DEF Filing, Doomed
    <2>3. Cardinality(Filing(q, run)') <= Cardinality(Filing(q, run))
          /\ Cardinality(Filing(q, run)') \in Nat
      BY <1>0, <2>2, Counts, CardSub
    <2>4. Cardinality(Notes(q, run)) + Cardinality(Filing(q, run)) <= Cardinality(Scanner)
      BY <1>0 DEF Told
    <2>5. QED
      BY <1>0, <2>3, <2>4, Counts
  <1>8. Carried' /\ Told'
    BY <1>5, <1>6, <1>7 DEF Carried, Told
  <1>9. Counted'
    BY <1>0, <1>1, <1>5 DEF Counted
  <1>10. ASSUME NEW q \in Pair, NEW t \in Scanner,
                Doomed(t, q, "capped")' \/ Doomed(t, q, "file-note")'
         PROVE  Spent(q)
    <2>1. CASE t # s
      BY <1>0, <1>3, <1>10, <2>1 DEF Earned, Doomed
    <2>2. CASE t = s
      <3>1. Cardinality(AttemptsSince(q)) >= MaxAttempts(q)
        BY <1>0, <1>3, <1>10, <2>2, PlanTyped DEF Doomed
      <3>2. Cardinality(AttemptsSince(q)) <= Cardinality(FixDecisions(q))
        BY <1>0, Counts, CardSub
      <3>3. \/ tried[q] = MaxAttempts(q)
            \/ tried[q] < MaxAttempts(q) /\ Cardinality(FixDecisions(q)) <= tried[q]
        BY <1>0 DEF Counted
      <3>4. tried[q] = MaxAttempts(q)
        BY <1>0, <3>1, <3>2, <3>3, Counts
      <3>5. QED
        BY <3>4 DEF Spent
    <2>3. QED
      BY <2>1, <2>2
  <1>11. Earned'
    <2>1. \A q \in Pair : Spent(q)' <=> Spent(q)
      BY <1>1, <1>5 DEF Spent
    <2>2. QED
      BY <1>0, <1>5, <1>10, <2>1 DEF Earned
  <1>12. QED
    BY <1>4, <1>8, <1>9, <1>11 DEF Inv

\* A fix that is enqueued was counted among what the scan carries.
LEMMA DispatchInv ==
    ASSUME Limits, Inv, NEW s \in Scanner, NEW p \in Pair, Dispatch(s, p)
    PROVE  Inv'
  <1>0. Typed /\ Carried /\ Told /\ Counted /\ Earned
    BY DEF Inv
  <1>1. /\ Drop(s, p) /\ Doomed(s, p, "dispatch") /\ Enqueue("fix", p, 0)
        /\ tried' = [tried EXCEPT ![p] = IF @ < MaxAttempts(p) THEN @ + 1 ELSE @]
        /\ UNCHANGED <<now, runs>>
    BY DEF Dispatch, Doing, Doomed
  <1>2. PICK e \in Decision : /\ decs' = decs \cup {e} /\ e.kind = "fix" /\ e.pair = p
                              /\ e.created = now /\ e.status = "pending"
    <2>1. 0 \in 0 .. MaxRuns
      BY DEF Limits
    <2>2. QED
      BY <1>0, <1>1, <2>1, EnqueueAdds
  <1>3. /\ todo' \in [Scanner -> Plans] /\ PlansShrink
        /\ DOMAIN todo'[s] = DOMAIN todo[s] \ {p}
    BY <1>0, <1>1, DropPlan, DropShrinks
  <1>4. /\ tried \in [Pair -> Nat] /\ now \in Nat /\ IsFiniteSet(decs)
    BY <1>0 DEF Typed
  <1>5. tried' \in [Pair -> Nat]
    BY <1>1, <1>4
  <1>6. Typed'
    <2>1. IsFiniteSet(decs')
      BY <1>2, <1>4, FS_AddElement
    <2>2. \A d \in decs' : d.created <= now
      BY <1>0, <1>2, <1>4 DEF Typed
    <2>3. QED
      BY <1>0, <1>1, <1>2, <1>3, <1>5, <2>1, <2>2 DEF Typed
  <1>7. ASSUME NEW q \in Pair
        PROVE  /\ LastGreenEnded(q)' = LastGreenEnded(q) /\ MaxAttempts(q)' = MaxAttempts(q)
               /\ \A run \in 0 .. MaxRuns : Notes(q, run)' = Notes(q, run)
    BY <1>1, <1>2 DEF LastGreenEnded, MaxAttempts, Cadence, Notes
  <1>8. ASSUME NEW q \in Pair
        PROVE  /\ Cardinality(AttemptsSince(q)') + Cardinality(Dispatching(q)')
                    <= MaxAttempts(q) - 1 + Cardinality(Scanner)
               /\ \/ tried'[q] = MaxAttempts(q)
                  \/ tried'[q] < MaxAttempts(q) /\ Cardinality(FixDecisions(q)') <= tried'[q]
               /\ Spent(q) => Spent(q)'
    <2>0. /\ Cardinality(AttemptsSince(q)) + Cardinality(Dispatching(q))
               <= MaxAttempts(q) - 1 + Cardinality(Scanner)
          /\ \/ tried[q] = MaxAttempts(q)
             \/ tried[q] < MaxAttempts(q) /\ Cardinality(FixDecisions(q)) <= tried[q]
      BY <1>0 DEF Carried, Counted
    <2>1. CASE q # p
      <3>1. FixDecisions(q)' = FixDecisions(q)
        BY <1>2, <2>1 DEF FixDecisions
      <3>2. AttemptsSince(q)' = AttemptsSince(q)
        BY <1>7, <3>1 DEF AttemptsSince
      <3>3. Dispatching(q)' \subseteq Dispatching(q)
        BY <1>3 DEF Dispatching, Doomed, PlansShrink
      <3>4. Cardinality(Dispatching(q)') <= Cardinality(Dispatching(q))
            /\ Cardinality(Dispatching(q)') \in Nat
        BY <1>0, <3>3, Counts, CardSub
      <3>5. tried'[q] = tried[q]
        BY <1>1, <1>4, <2>1
      <3>6. QED
        BY <1>0, <1>7, <2>0, <3>1, <3>2, <3>4, <3>5, Counts DEF Spent
    <2>2. CASE q = p
      <3>1. FixDecisions(q)' \subseteq FixDecisions(q) \cup {e}
        BY <1>2 DEF FixDecisions
      <3>2. AttemptsSince(q)' \subseteq AttemptsSince(q) \cup {e}
        BY <1>7, <3>1 DEF AttemptsSince
      <3>3. s \in Dispatching(q)
        BY <1>1, <2>2 DEF Dispatching
      <3>4. Dispatching(q)' \subseteq Dispatching(q) \ {s}
        BY <1>3, <2>2 DEF Dispatching, Doomed, PlansShrink
      <3>5. Cardinality(Dispatching(q)') + 1 <= Cardinality(Dispatching(q))
            /\ Cardinality(Dispatching(q)') \in Nat
        BY <1>0, <3>3, <3>4, Counts, CardDrop
      <3>6. /\ Cardinality(AttemptsSince(q)') <= Cardinality(AttemptsSince(q)) + 1
            /\ Cardinality(FixDecisions(q)') <= Cardinality(FixDecisions(q)) + 1
            /\ Cardinality(AttemptsSince(q)') \in Nat /\ Cardinality(FixDecisions(q)') \in Nat
        BY <1>0, <3>1, <3>2, Counts, CardAdd
      <3>7. tried'[q] = IF tried[q] < MaxAttempts(q) THEN tried[q] + 1 ELSE tried[q]
        BY <1>1, <1>4, <2>2
      <3>8. Cardinality(AttemptsSince(q)') + Cardinality(Dispatching(q)')
              <= MaxAttempts(q) - 1 + Cardinality(Scanner)
        BY <1>0, <2>0, <3>5, <3>6, Counts
      <3>9. \/ tried'[q] = MaxAttempts(q)
            \/ tried'[q] < MaxAttempts(q) /\ Cardinality(FixDecisions(q)') <= tried'[q]
        BY <1>0, <2>0, <3>6, <3>7, Counts
      <3>10. Spent(q) => Spent(q)'
        BY <1>0, <1>7, <3>7, Counts DEF Spent
      <3>11. QED
        BY <3>8, <3>9, <3>10
    <2>3. QED
      BY <2>1, <2>2
  <1>9. Carried' /\ Counted'
    BY <1>7, <1>8 DEF Carried, Counted
  <1>10. ASSUME NEW q \in Pair, NEW run \in 0 .. MaxRuns
         PROVE  Cardinality(Notes(q, run)) + Cardinality(Filing(q, run)') <= Cardinality(Scanner)
    <2>1. Filing(q, run)' \subseteq Filing(q, run)
      BY <1>3 DEF Filing, Doomed, PlansShrink
    <2>2. Cardinality(Filing(q, run)') <= Cardinality(Filing(q, run))
          /\ Cardinality(Filing(q, run)') \in Nat
      BY <1>0, <2>1, Counts, CardSub
    <2>3. Cardinality(Notes(q, run)) + Cardinality(Filing(q, run)) <= Cardinality(Scanner)
      BY <1>0 DEF Told
    <2>4. QED
      BY <1>0, <2>2, <2>3, Counts
  <1>11. Told'
    BY <1>7, <1>10 DEF Told
  <1>12. Earned'
    BY <1>0, <1>3, <1>7, <1>8 DEF Earned, Doomed, PlansShrink
  <1>13. QED
    BY <1>6, <1>9, <1>11, <1>12 DEF Inv

\* A scan is about to file a note only when it has seen none about this run.
LEMMA CheckNoteInv ==
    ASSUME Limits, Inv, NEW s \in Scanner, NEW p \in Pair, CheckNote(s, p)
    PROVE  Inv'
  <1>0. Typed /\ Carried /\ Told /\ Counted /\ Earned
    BY DEF Inv
  <1>1. Doomed(s, p, "capped") /\ UNCHANGED <<now, runs, decs, tried>>
    BY DEF CheckNote, Doing, Doomed
  <1>2. CASE CappedNoteExists(p, todo[s][p].run)
    <2>1. Drop(s, p)
      BY <1>2 DEF CheckNote
    <2>2. QED
      BY <1>0, <1>1, <2>1, DropShrinks, ShrinkInv
  <1>3. CASE ~CappedNoteExists(p, todo[s][p].run)
    <2> DEFINE a == [todo[s][p] EXCEPT !.action = "file-note"]
               w == [todo[s] EXCEPT ![p] = a]
    <2>1. todo \in [Scanner -> Plans] /\ todo[s] \in Plans /\ p \in DOMAIN todo[s]
      BY <1>0, <1>1 DEF Typed, Doomed
    <2>2. todo[s][p] \in Step
      BY <2>1, PlansFunction
    <2>3. a \in Step /\ a.action = "file-note" /\ a.run = todo[s][p].run
      BY <2>2 DEF Step
    <2>6. todo' = [todo EXCEPT ![s] = w]
      BY <1>3 DEF CheckNote
    <2> HIDE DEF a
    <2>4. /\ DOMAIN w = DOMAIN todo[s] /\ w[p] = a
          /\ \A q \in DOMAIN w : q # p => w[q] = todo[s][q]
      BY <2>1, PlansFunction
    <2>5. w \in Plans
      <3>1. w \in [DOMAIN todo[s] -> Step] /\ DOMAIN todo[s] \in SUBSET Pair
        BY <2>1, <2>3, PlansFunction
      <3>2. QED
        BY <3>1 DEF Plans
    <2> HIDE DEF w
    <2>7. /\ todo' \in [Scanner -> Plans] /\ todo'[s] = w
          /\ \A t \in Scanner : t # s => todo'[t] = todo[t]
      BY <2>1, <2>5, <2>6
    <2>8. Typed'
      BY <1>0, <1>1, <2>7 DEF Typed
    <2>9. ASSUME NEW q \in Pair
          PROVE  /\ AttemptsSince(q)' = AttemptsSince(q) /\ FixDecisions(q)' = FixDecisions(q)
                 /\ MaxAttempts(q)' = MaxAttempts(q) /\ (Spent(q)' <=> Spent(q))
                 /\ \A run \in 0 .. MaxRuns : Notes(q, run)' = Notes(q, run)
      BY <1>1 DEF AttemptsSince, FixDecisions, LastGreenEnded, Notes, MaxAttempts, Cadence, Spent
    <2>10. ASSUME NEW q \in Pair
           PROVE  Cardinality(AttemptsSince(q)) + Cardinality(Dispatching(q)')
                    <= MaxAttempts(q) - 1 + Cardinality(Scanner)
      <3>1. Dispatching(q)' \subseteq Dispatching(q)
        BY <2>3, <2>4, <2>7 DEF Dispatching, Doomed
      <3>2. Cardinality(Dispatching(q)') <= Cardinality(Dispatching(q))
            /\ Cardinality(Dispatching(q)') \in Nat
        BY <1>0, <3>1, Counts, CardSub
      <3>3. Cardinality(AttemptsSince(q)) + Cardinality(Dispatching(q))
              <= MaxAttempts(q) - 1 + Cardinality(Scanner)
        BY <1>0 DEF Carried
      <3>4. QED
        BY <1>0, <3>2, <3>3, Counts
    <2>11. ASSUME NEW q \in Pair, NEW run \in 0 .. MaxRuns
           PROVE  Cardinality(Notes(q, run)) + Cardinality(Filing(q, run)') <= Cardinality(Scanner)
      <3>1. CASE q = p /\ run = todo[s][p].run
        <4>1. Notes(q, run) = {}
          BY <1>3, <3>1 DEF CappedNoteExists, Notes
        <4>2. Filing(q, run)' \subseteq Scanner
          BY DEF Filing
        <4>3. Cardinality(Filing(q, run)') <= Cardinality(Scanner)
              /\ Cardinality(Filing(q, run)') \in Nat
          BY <4>2, ScannerAssumption, CardSub
        <4>4. Cardinality(Notes(q, run)) = 0
          BY <4>1, FS_EmptySet
        <4>5. QED
          BY <1>0, <4>3, <4>4, Counts
      <3>2. CASE ~(q = p /\ run = todo[s][p].run)
        <4>1. Filing(q, run)' \subseteq Filing(q, run)
          BY <2>3, <2>4, <2>7, <3>2 DEF Filing, Doomed
        <4>2. Cardinality(Filing(q, run)') <= Cardinality(Filing(q, run))
              /\ Cardinality(Filing(q, run)') \in Nat
          BY <1>0, <4>1, Counts, CardSub
        <4>3. Cardinality(Notes(q, run)) + Cardinality(Filing(q, run)) <= Cardinality(Scanner)
          BY <1>0 DEF Told
        <4>4. QED
          BY <1>0, <4>2, <4>3, Counts
      <3>3. QED
        BY <3>1, <3>2
    <2>12. Carried' /\ Told'
      BY <2>9, <2>10, <2>11 DEF Carried, Told
    <2>13. Counted'
      BY <1>0, <1>1, <2>9 DEF Counted
    <2>14. ASSUME NEW q \in Pair, NEW t \in Scanner,
                  Doomed(t, q, "capped")' \/ Doomed(t, q, "file-note")'
           PROVE  Doomed(t, q, "capped") \/ Doomed(t, q, "file-note")
      BY <1>1, <2>1, <2>4, <2>7, <2>14 DEF Doomed
    <2>15. Earned'
      BY <1>0, <2>9, <2>14 DEF Earned
    <2>16. QED
      BY <2>8, <2>12, <2>13, <2>15 DEF Inv
  <1>4. QED
    BY <1>2, <1>3

\* A note that is filed was counted among what the scan carries.
LEMMA FileNoteInv ==
    ASSUME Limits, Inv, NEW s \in Scanner, NEW p \in Pair, FileNote(s, p)
    PROVE  Inv'
  <1>0. Typed /\ Carried /\ Told /\ Counted /\ Earned
    BY DEF Inv
  <1> DEFINE r == todo[s][p].run
  <1>1. /\ Drop(s, p) /\ Doomed(s, p, "file-note") /\ Enqueue("note", p, r)
        /\ UNCHANGED <<now, runs, tried>>
    BY DEF FileNote, Doing, Doomed
  <1>2. r \in 0 .. MaxRuns
    <2>1. todo[s] \in Plans /\ p \in DOMAIN todo[s]
      BY <1>0, <1>1 DEF Typed, Doomed
    <2>2. todo[s][p] \in Step
      BY <2>1, PlansFunction
    <2>3. QED
      BY <2>2 DEF Step
  <1>3. PICK e \in Decision : /\ decs' = decs \cup {e} /\ e.kind = "note" /\ e.pair = p
                              /\ e.run = r /\ e.created = now
    <2> HIDE DEF r
    <2>1. QED
      BY <1>0, <1>1, <1>2, EnqueueAdds
  <1>4. /\ todo' \in [Scanner -> Plans] /\ PlansShrink
        /\ DOMAIN todo'[s] = DOMAIN todo[s] \ {p}
    BY <1>0, <1>1, DropPlan, DropShrinks
  <1>5. Typed'
    <2>1. IsFiniteSet(decs') /\ now \in Nat
      BY <1>0, <1>3, FS_AddElement DEF Typed
    <2>2. \A d \in decs' : d.created <= now
      BY <1>0, <1>3, <2>1 DEF Typed
    <2>3. QED
      BY <1>0, <1>1, <1>3, <1>4, <2>1, <2>2 DEF Typed
  <1>6. ASSUME NEW q \in Pair
        PROVE  /\ AttemptsSince(q)' = AttemptsSince(q) /\ FixDecisions(q)' = FixDecisions(q)
               /\ MaxAttempts(q)' = MaxAttempts(q) /\ (Spent(q)' <=> Spent(q))
    BY <1>1, <1>3 DEF AttemptsSince, FixDecisions, LastGreenEnded, MaxAttempts, Cadence, Spent
  <1>7. ASSUME NEW q \in Pair
        PROVE  Cardinality(AttemptsSince(q)) + Cardinality(Dispatching(q)')
                 <= MaxAttempts(q) - 1 + Cardinality(Scanner)
    <2>1. Dispatching(q)' \subseteq Dispatching(q)
      BY <1>4 DEF Dispatching, Doomed, PlansShrink
    <2>2. Cardinality(Dispatching(q)') <= Cardinality(Dispatching(q))
          /\ Cardinality(Dispatching(q)') \in Nat
      BY <1>0, <2>1, Counts, CardSub
    <2>3. Cardinality(AttemptsSince(q)) + Cardinality(Dispatching(q))
            <= MaxAttempts(q) - 1 + Cardinality(Scanner)
      BY <1>0 DEF Carried
    <2>4. QED
      BY <1>0, <2>2, <2>3, Counts
  <1>8. ASSUME NEW q \in Pair, NEW run \in 0 .. MaxRuns
        PROVE  Cardinality(Notes(q, run)') + Cardinality(Filing(q, run)') <= Cardinality(Scanner)
    <2>0. Cardinality(Notes(q, run)) + Cardinality(Filing(q, run)) <= Cardinality(Scanner)
      BY <1>0 DEF Told
    <2>1. CASE q = p /\ run = r
      <3>1. Notes(q, run)' \subseteq Notes(q, run) \cup {e}
        BY <1>3 DEF Notes
      <3>2. s \in Filing(q, run)
        BY <1>1, <2>1 DEF Filing
      <3>3. Filing(q, run)' \subseteq Filing(q, run) \ {s}
        BY <1>4, <2>1 DEF Filing, Doomed, PlansShrink
      <3>4. Cardinality(Notes(q, run)') <= Cardinality(Notes(q, run)) + 1
            /\ Cardinality(Notes(q, run)') \in Nat
        BY <1>0, <3>1, Counts, CardAdd
      <3>5. Cardinality(Filing(q, run)') + 1 <= Cardinality(Filing(q, run))
            /\ Cardinality(Filing(q, run)') \in Nat
        BY <1>0, <3>2, <3>3, Counts, CardDrop
      <3>6. QED
        BY <1>0, <2>0, <3>4, <3>5, Counts
    <2>2. CASE ~(q = p /\ run = r)
      <3>1. Notes(q, run)' = Notes(q, run)
        BY <1>3, <2>2 DEF Notes
      <3>2. Filing(q, run)' \subseteq Filing(q, run)
        BY <1>4 DEF Filing, Doomed, PlansShrink
      <3>3. Cardinality(Filing(q, run)') <= Cardinality(Filing(q, run))
            /\ Cardinality(Filing(q, run)') \in Nat
        BY <1>0, <3>2, Counts, CardSub
      <3>4. QED
        BY <1>0, <2>0, <3>1, <3>3, Counts
    <2>3. QED
      BY <2>1, <2>2
  <1>9. Carried' /\ Told'
    BY <1>6, <1>7, <1>8 DEF Carried, Told
  <1>10. Counted'
    BY <1>0, <1>1, <1>6 DEF Counted
  <1>11. ASSUME NEW q \in Pair, NEW run \in 0 .. MaxRuns, Notes(q, run)' # {}
         PROVE  Spent(q)
    <2>1. CASE q = p
      BY <1>0, <1>1, <2>1 DEF Earned
    <2>2. CASE q # p
      <3>1. Notes(q, run)' = Notes(q, run)
        BY <1>3, <2>2 DEF Notes
      <3>2. QED
        BY <1>0, <1>11, <3>1 DEF Earned
    <2>3. QED
      BY <2>1, <2>2
  <1>12. Earned'
    BY <1>0, <1>4, <1>6, <1>11 DEF Earned, Doomed, PlansShrink
  <1>13. QED
    BY <1>5, <1>9, <1>10, <1>12 DEF Inv

-----------------------------------------------------------------------------
(* The specification *)

\* The invariant holds at first.
LEMMA InitInv ==
    ASSUME Limits, Init
    PROVE  Inv
  <1>0. now = 0 /\ decs = {} /\ IsFiniteSet({}) /\ Cardinality({}) = 0
    BY FS_EmptySet DEF Init
  <1>1. Typed
    <2>1. \A q \in Pair : runs[q] = <<>>
      BY DEF Init
    <2>2. runs \in [Pair -> Seq(Receipt)] /\ tried \in [Pair -> Nat]
      BY DEF Init
    <2>3. todo \in [Scanner -> Plans]
      BY NothingPlanned DEF Init
    <2>4. QED
      BY <1>0, <2>1, <2>2, <2>3 DEF Typed, Limits
  <1>2. ASSUME NEW q \in Pair
        PROVE  /\ AttemptsSince(q) = {} /\ FixDecisions(q) = {} /\ Dispatching(q) = {}
               /\ \A run \in 0 .. MaxRuns : Notes(q, run) = {} /\ Filing(q, run) = {}
    <2>1. FixDecisions(q) = {} /\ \A run \in 0 .. MaxRuns : Notes(q, run) = {}
      BY <1>0 DEF FixDecisions, Notes
    <2>2. \A s \in Scanner : DOMAIN todo[s] = {}
      BY NothingPlanned DEF Init
    <2>3. QED
      BY <2>1, <2>2 DEF AttemptsSince, Dispatching, Filing, Doomed
  <1>3. ASSUME NEW q \in Pair
        PROVE  tried[q] = 0 /\ MaxAttempts(q) \in Nat /\ Cardinality(Scanner) \in Nat
               /\ Cardinality(Scanner) >= 1
    BY <1>1, Counts DEF Init
  <1>4. ASSUME NEW q \in Pair
        PROVE  /\ Cardinality(AttemptsSince(q)) = 0 /\ Cardinality(FixDecisions(q)) = 0
               /\ Cardinality(Dispatching(q)) = 0
               /\ \A run \in 0 .. MaxRuns : /\ Cardinality(Notes(q, run)) = 0
                                            /\ Cardinality(Filing(q, run)) = 0
    BY <1>0, <1>2
  <1>5. Carried /\ Told /\ Counted
    BY <1>3, <1>4 DEF Carried, Told, Counted
  <1>6. Earned
    <2>1. \A s \in Scanner : DOMAIN todo[s] = {}
      BY NothingPlanned DEF Init
    <2>2. QED
      BY <1>2, <2>1 DEF Earned, Doomed
  <1>7. QED
    BY <1>1, <1>5, <1>6 DEF Inv

\* Every step keeps it.
LEMMA StepInv ==
    ASSUME Limits, Inv, [Next]_vars
    PROVE  Inv'
  <1>1. CASE ScanStep
    <2>1. PICK s \in Scanner :
            \/ Plan(s) \/ Die(s)
            \/ \E q \in Pair : Dispatch(s, q) \/ CheckNote(s, q) \/ FileNote(s, q) \/ SkipPending(s, q)
      BY <1>1 DEF ScanStep
    <2>2. CASE Plan(s)
      BY <2>2, PlanInv
    <2>3. CASE Die(s)
      BY <2>3, DieInv
    <2>4. ASSUME NEW q \in Pair, Dispatch(s, q) PROVE Inv'
      BY <2>4, DispatchInv
    <2>5. ASSUME NEW q \in Pair, CheckNote(s, q) PROVE Inv'
      BY <2>5, CheckNoteInv
    <2>6. ASSUME NEW q \in Pair, FileNote(s, q) PROVE Inv'
      BY <2>6, FileNoteInv
    <2>7. ASSUME NEW q \in Pair, SkipPending(s, q) PROVE Inv'
      BY <2>7, SkipPendingInv
    <2>8. QED
      BY <2>1, <2>2, <2>3, <2>4, <2>5, <2>6, <2>7
  <1>2. CASE WorldStep
    <2>1. CASE Tick
      BY <2>1, TickInv
    <2>2. ASSUME NEW q \in Pair, NEW v \in Verdicts, RunEnds(q, v) PROVE Inv'
      BY <2>2, RunEndsInv
    <2>3. ASSUME NEW d \in Chosen, Apply(d) PROVE Inv'
      BY <2>3, SettleInv DEF Apply, Chosen
    <2>4. ASSUME NEW d \in Chosen, Dismiss(d) PROVE Inv'
      BY <2>4, SettleInv DEF Dismiss, Chosen
    <2>5. ASSUME NEW d \in Chosen, Prune(d) PROVE Inv'
      BY <2>5, PruneInv DEF Chosen
    <2>6. QED
      BY <1>2, <2>1, <2>2, <2>3, <2>4, <2>5 DEF WorldStep
  <1>3. CASE UNCHANGED vars
    <2>1. UNCHANGED <<now, runs, decs, todo, tried>>
      BY <1>3 DEF vars
    <2>2. todo' \in [Scanner -> Plans] /\ PlansShrink
      BY <2>1 DEF Inv, Typed, PlansShrink
    <2>3. QED
      BY <2>1, <2>2, ShrinkInv
  <1>4. QED
    BY <1>1, <1>2, <1>3 DEF Next

\* The invariant says what the runs check.
LEMMA InvSays ==
    ASSUME Limits, Inv
    PROVE  RemediationBounded
  <1>0. Typed /\ Carried /\ Told /\ Earned
    BY DEF Inv
  <1>1. TypeOK
    <2>0. /\ now \in 0 .. MaxTime /\ decs \subseteq Decision /\ IsFiniteSet(decs)
          /\ (\A d \in decs : d.created <= now) /\ tried \in [Pair -> Nat]
      BY <1>0 DEF Typed
    <2>1. \A s \in Scanner : todo[s] \in Plans
      BY <1>0 DEF Typed
    <2>2. \A s \in Scanner : /\ DOMAIN todo[s] \subseteq Pair
                             /\ \A q \in DOMAIN todo[s] : todo[s][q] \in Step
      BY <2>1, PlansFunction
    <2>3. \A q \in Pair : runs[q] \in Seq([verdict : Verdicts, ended : 0 .. MaxTime])
      BY <1>0 DEF Typed, Receipt
    <2>4. QED
      BY <2>0, <2>2, <2>3, Zenon DEF TypeOK
  <1>2. ASSUME NEW q \in Pair
        PROVE  Cardinality(AttemptsSince(q)) < MaxAttempts(q) + Cardinality(Scanner)
    BY <1>0, Counts DEF Carried
  <1>3. \A q \in Pair :
          AttemptsSince(q) = {d \in decs : /\ d.kind = "fix" /\ d.pair = q
                                           /\ d.status \in {"pending", "applied"}
                                           /\ d.created >= LastGreenEnded(q)}
    BY DEF AttemptsSince, FixDecisions
  <1>4. AttemptsBounded
    BY <1>2, <1>3 DEF AttemptsBounded
  <1>5. \A run \in 1 .. MaxRuns : run \in 0 .. MaxRuns
    BY DEF Limits
  <1>6. ASSUME NEW q \in Pair, NEW run \in 0 .. MaxRuns
        PROVE  Cardinality(Notes(q, run)) <= Cardinality(Scanner)
    <2>1. Cardinality(Notes(q, run)) + Cardinality(Filing(q, run)) <= Cardinality(Scanner)
      BY <1>0 DEF Told
    <2>2. QED
      BY <1>0, <2>1, Counts
  <1>7. NotesBounded
    BY <1>5, <1>6 DEF NotesBounded
  <1>8. NoteEarned
    BY <1>0, <1>5 DEF NoteEarned, Earned, Spent
  <1>9. QED
    BY <1>1, <1>4, <1>7, <1>8 DEF RemediationBounded

\* The invariant of the remediation holds in every state.
THEOREM Invariant ==
    ASSUME Limits
    PROVE  Spec => []Inv
  <1>1. Init => Inv
    BY InitInv
  <1>2. Inv /\ [Next]_vars => Inv'
    BY StepInv
  <1>3. QED
    BY <1>1, <1>2, PTL DEF Spec

\* However many scans overlap or die and whatever the operator dismisses: the fixes of a red
\* streak exceed max_attempts by at most one for every scan beside the first, the notes about a
\* red run are at most one per scan, and no note claims attempts that were not made
\* (remediate.py, plan and scan).
THEOREM Bounded ==
    ASSUME Limits
    PROVE  Spec => []RemediationBounded
  <1>1. Inv => RemediationBounded
    BY InvSays
  <1>2. QED
    BY <1>1, Invariant, PTL

\* A collector that scans alone keeps what remediate.py's docstring promises to the letter: at
\* most max_attempts fixes per red streak, and one note about a red run.
THEOREM AloneExact ==
    ASSUME Limits, NEW s, Scanner = {s}
    PROVE  Spec => [](\A q \in Pair :
                        /\ Cardinality(AttemptsSince(q)) <= MaxAttempts(q)
                        /\ \A run \in 0 .. MaxRuns : Cardinality(Notes(q, run)) <= 1)
  <1>1. Cardinality(Scanner) = 1
    BY FS_Singleton
  <1>2. ASSUME Inv
        PROVE  \A q \in Pair : /\ Cardinality(AttemptsSince(q)) <= MaxAttempts(q)
                               /\ \A run \in 0 .. MaxRuns : Cardinality(Notes(q, run)) <= 1
    <2>0. Typed /\ Carried /\ Told
      BY <1>2 DEF Inv
    <2>1. ASSUME NEW q \in Pair
          PROVE  Cardinality(AttemptsSince(q)) <= MaxAttempts(q)
      BY <1>1, <2>0, Counts DEF Carried
    <2>2. ASSUME NEW q \in Pair, NEW run \in 0 .. MaxRuns
          PROVE  Cardinality(Notes(q, run)) <= 1
      <3>1. Cardinality(Notes(q, run)) + Cardinality(Filing(q, run)) <= Cardinality(Scanner)
        BY <2>0 DEF Told
      <3>2. QED
        BY <1>1, <2>0, <3>1, Counts
    <2>3. QED
      BY <2>1, <2>2
  <1>3. QED
    BY <1>2, Invariant, PTL
==============================================================================
