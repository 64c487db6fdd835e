------------------------------ MODULE Verdicts ------------------------------
(* From a run's metrics to what the operator reads: the validator's check of a *)
(* cadence's verdict rules (collectors/validate.py), the receipt built from    *)
(* the run's partial and the second opinion on a red (collectors/              *)
(* build_receipt.py), the state of a pair on the board (collectors/brief.py)   *)
(* and its trends (collectors/insights.py). Times are in days; a Boolean is    *)
(* the 0 or 1 Python compares it as.                                           *)
EXTENDS Integers, Sequences, FiniteSets
LOCAL INSTANCE SequencesExt
LOCAL INSTANCE FiniteSetsExt

CONSTANT None                    \* an absent partial, cadence file, limit or severity

Raised == <<>>
Truth(b) == IF b THEN 1 ELSE 0

\* --------------------------------------------------------- verdict expressions
\* Nodes: Name, Const, Not, BoolOp and Compare, the ones the interpreter takes.
Name(id) == [node |-> "name", id |-> id]
Const(value) == [node |-> "const", value |-> value]
Negation(operand) == [node |-> "not", operand |-> operand]
BoolOp(op, values) == [node |-> op, values |-> values]
Compare(op, left, right) == [node |-> "compare", op |-> op, left |-> left, right |-> right]

_apply_cmp(op, a, b) ==
  CASE op = "<" -> a < b [] op = "<=" -> a <= b [] op = ">" -> a > b
    [] op = ">=" -> a >= b [] op = "==" -> a = b [] OTHER -> a # b

\* The value of a node, or Raised when it names what the metrics do not hold. Both
\* operands of "and" and "or" are evaluated.
RECURSIVE _interp(_, _)
_interp(n, env) ==
  CASE n.node = "name"  -> IF n.id \in DOMAIN env THEN <<env[n.id]>> ELSE Raised
    [] n.node = "const" -> <<n.value>>
    [] n.node = "not"   -> LET v == _interp(n.operand, env)
                           IN  IF v = Raised THEN Raised ELSE <<Truth(v[1] = 0)>>
    [] n.node = "compare" ->
         LET l == _interp(n.left, env)
             r == _interp(n.right, env)
         IN  IF Raised \in {l, r} THEN Raised ELSE <<Truth(_apply_cmp(n.op, l[1], r[1]))>>
    [] OTHER ->
         LET vals == {_interp(n.values[i], env) : i \in DOMAIN n.values}
         IN  IF Raised \in vals THEN Raised
             ELSE IF n.node = "and" THEN <<Truth(<<0>> \notin vals)>>
             ELSE <<Truth(vals # {<<0>>})>>

\* The identifiers the validator finds in the text of an expression.
RECURSIVE Identifiers(_)
Identifiers(n) ==
  CASE n.node = "name"    -> {n.id}
    [] n.node = "const"   -> {}
    [] n.node = "not"     -> Identifiers(n.operand) \union {"not"}
    [] n.node = "compare" -> Identifiers(n.left) \union Identifiers(n.right)
    [] OTHER              -> {n.node} \union UNION {Identifiers(n.values[i]) : i \in DOMAIN n.values}

Keywords == {"and", "or", "not", "True", "False", "true", "false", "None"}
Otherwise == [node |-> "otherwise"]

\* The end of validate._validate_cadence: no rule names an undeclared metric.
ValidRules(rules, metrics) ==
  \A level \in {"green", "amber"} :
    rules[level] # Otherwise => Identifiers(rules[level]) \ Keywords \subseteq metrics

compute_verdict(rules, metrics) ==
  LET Holds(level) == IF rules[level] = Otherwise THEN <<1>> ELSE _interp(rules[level], metrics)
      green == Holds("green")
      amber == Holds("amber")
  IN  IF green = Raised THEN "raised"
      ELSE IF green[1] # 0 THEN "green"
      ELSE IF amber = Raised THEN "raised"
      ELSE IF amber[1] # 0 THEN "amber" ELSE "red"

\* ------------------------------------------------------- the second opinion
\* (mutant) A verifier that fails is taken for one that disagrees.
VerifierTrusted(answer) == answer \in {"confirmed", "confirmed-in-envelope"}

\* What the verifier's command came to: "error" (not started, timed out, or a
\* non-zero exit), "garbage", the Boolean it wrote, or a record holding the
\* Boolean one level down, as the CLI's JSON envelope does.
default_verifier(answer) == answer \notin {"denied", "denied-in-envelope"}

apply_verifier(receipt, enabled, answer) ==
  IF receipt.status # "ok" \/ receipt.verdict # "red" \/ ~enabled \/ default_verifier(answer)
  THEN receipt
  ELSE [receipt EXCEPT !.verdict = "amber", !.notes = TRUE]

\* ------------------------------------------------------------- the receipt
\* A partial: the metrics the run reported and whether it wrote a next action.
\* A rule that raises ends the emission without a receipt.
build(cadence, partial, answer) ==
  LET reported == partial # None
      matches == reported /\ DOMAIN partial.metrics = cadence.metrics
      ok == matches /\ partial.next_action
      verdict == IF ok THEN compute_verdict(cadence.rules, partial.metrics) ELSE "red"
  IN  IF verdict = "raised" THEN None
      ELSE apply_verifier([status |-> IF ok THEN "ok" ELSE "failed", verdict |-> verdict,
                           escalated |-> ~ok, notes |-> ~ok],
                          cadence.verify, answer)

\* ------------------------------------------------------------- the board
\* A history is a sequence of receipts, oldest first: verdict, status and the
\* day it ended. The brief drops receipts of runs that did no work.
load_receipts(all) ==
  SortSeq(SelectSeq(all, LAMBDA r : r.status \notin {"locked", "skipped"}),
          LAMBDA a, b : a.ended < b.ended)

\* The start of the run of equal values at the end of a sequence.
StreakStart(history, Same(_)) ==
  CHOOSE i \in DOMAIN history :
    /\ \A j \in i..Len(history) : Same(history[j])
    /\ i = 1 \/ ~Same(history[i - 1])

amber_run_start(history) ==
  history[StreakStart(history, LAMBDA r : r.verdict = "amber")]

State(effective, severity, needs_you) ==
  [effective |-> effective, severity |-> severity, needs_you |-> needs_you]

AmberState(days, limit) ==
  IF limit = None THEN State("amber", "A", FALSE)
  ELSE IF days > limit THEN State("red", "R", TRUE)
  ELSE State("amber", "A", days = limit)

\* `cad` is None for a loop without a cadence file; stale_after is twice its
\* longest gap (Schedule), limit its amber_ages_to_red_after_days.
analyze_pair(history, cad, now) ==
  LET latest == history[Len(history)]
      threshold == IF cad = None THEN None ELSE cad.stale_after
  IN  IF history = <<>>
      THEN IF threshold = None THEN State("none", None, FALSE) ELSE State("stale", "R", TRUE)
      ELSE IF threshold # None /\ now - latest.ended > threshold
      THEN State("stale", "R", TRUE)
      ELSE IF latest.verdict = "red" \/ latest.status \in {"failed", "timeout"}
      THEN State("red", "R", TRUE)
      ELSE IF latest.verdict = "amber"
      THEN AmberState(now - amber_run_start(history).ended, IF cad = None THEN None ELSE cad.limit)
      ELSE State("green", None, FALSE)

\* ------------------------------------------------------------------ trends
Ordinal == [green |-> 0, amber |-> 1, red |-> 2]
_ord(r) == Ordinal[r.verdict]

\* The places where the verdict changes.
transitions(history) == {i \in 2..Len(history) : _ord(history[i]) # _ord(history[i - 1])}

current_streak(history) ==
  LET tip == _ord(history[Len(history)])
      start == StreakStart(history, LAMBDA r : _ord(r) = tip)
  IN  [ord |-> tip, length |-> (Len(history) - start) + 1, since |-> history[start].ended]

\* The least-squares slope as a fraction: rise over run, run 0 for a single day.
slope_per_day(history) ==
  LET n == Len(history)
      Sum(F(_)) == FoldLeft(LAMBDA acc, r : acc + F(r), 0, history)
      x == Sum(LAMBDA r : r.ended)
      y == Sum(_ord)
  IN  [rise |-> n * Sum(LAMBDA r : r.ended * _ord(r)) - x * y,
       run |-> n * Sum(LAMBDA r : r.ended * r.ended) - x * x]

_window(history, now, days) == SelectSeq(history, LAMBDA r : r.ended >= now - days)

\* The signals of a pair, by type and severity; thresholds as in the code, the
\* slope above 0.01 a day, four runs for chronic, three changes for flapping.
analyze_history(history, now, window, horizon) ==
  LET win == _window(history, now, window)
      streak == current_streak(win)
      changes == transitions(win)
      last == Max(changes)
      slope == slope_per_day(win)
      rising == 100 * slope.rise > slope.run
      falling == 100 * slope.rise < -slope.run
      worse == changes # {} /\ _ord(win[last]) > _ord(win[last - 1])
      Bad(ord) == IF ord = 2 THEN "R" ELSE "A"
  IN  IF Len(win) < 2 THEN {}
      ELSE {s \in {[type |-> "regression", severity |-> Bad(streak.ord), on |-> worse],
                   [type |-> "chronic", severity |-> Bad(streak.ord),
                    on |-> streak.ord >= 1 /\ streak.length >= 4],
                   [type |-> "degrading", severity |-> "A",
                    on |-> rising /\ streak.ord < 2 /\ ~worse],
                   [type |-> "projected", severity |-> "A",
                    on |-> /\ rising /\ streak.ord < 2
                           /\ (2 - streak.ord) * slope.run <= horizon * slope.rise],
                   [type |-> "flapping", severity |-> "A", on |-> Cardinality(changes) >= 3],
                   [type |-> "recovering", severity |-> "info",
                    on |-> /\ falling /\ streak.ord = 0
                           /\ \E i \in 1..(Len(win) - 1) : _ord(win[i]) >= 1]} : s.on}

\* ---------------------------------------------------------------- properties
\* What the validator accepts the receipt builder evaluates: no rule of an
\* accepted cadence raises on a run that reports the declared metrics, whatever
\* their values, so a validated loop never ends without a receipt.
RulesNeverRaise(rules, metrics, values) ==
  ValidRules(rules, metrics) =>
    \A env \in [metrics -> values] : compute_verdict(rules, env) # "raised"

\* A receipt that is not red is earned: the run reported exactly the declared
\* metrics and a next action, and either its rules gave that verdict, or they
\* gave red and a working second opinion denied it, in a loop that asked for one,
\* and only as far as amber. A failed run is red, escalated, and not up for a
\* second opinion.
VerdictEarned(cadence, partial, answer) ==
  LET receipt == build(cadence, partial, answer) IN
  receipt # None =>
  /\ receipt.verdict # "red" =>
       /\ partial # None
       /\ DOMAIN partial.metrics = cadence.metrics /\ partial.next_action
       /\ \/ receipt.verdict = compute_verdict(cadence.rules, partial.metrics)
          \/ /\ compute_verdict(cadence.rules, partial.metrics) = "red"
             /\ receipt.verdict = "amber" /\ receipt.notes
             /\ cadence.verify /\ answer \in {"denied", "denied-in-envelope"}
  /\ receipt.status = "failed" => receipt.verdict = "red" /\ receipt.escalated

Rank(state) ==
  CASE state.severity = "R" -> 3 [] state.severity = "A" /\ state.needs_you -> 2
    [] state.severity = "A" -> 1 [] OTHER -> 0

\* Without a new receipt a pair's place on the board only gets worse: an amber
\* that ages to red, and a green or an amber nobody refreshes, never come off
\* the operator's list by waiting.
OnlyWorsens(all, cad, now, later) ==
  LET history == load_receipts(all) IN
  now <= later => Rank(analyze_pair(history, cad, now)) <= Rank(analyze_pair(history, cad, later))

\* The trends and the board read one history alike: the amber run the board ages
\* is the streak the trends count, a loop that regressed or is stuck is not also
\* reported as recovering, none of the three is said of a loop the board shows in
\* another state, and a rising slope needs a run that was worse than an earlier one.
TrendsAgree(all, now, window, horizon) ==
  LET history == load_receipts(all)
      win == _window(history, now, window)
      types == {s.type : s \in analyze_history(history, now, window, horizon)}
      tip == analyze_pair(win, None, now).effective
  IN  Len(win) >= 2 =>
        /\ tip = "amber" => current_streak(win).since = amber_run_start(win).ended
        /\ types \cap {"regression", "chronic"} # {} => tip # "green" /\ "recovering" \notin types
        /\ "recovering" \in types => tip = "green" /\ types \cap {"degrading", "projected"} = {}
        /\ types \cap {"degrading", "projected"} # {} =>
             tip # "red" /\ \E i, j \in DOMAIN win : i < j /\ _ord(win[i]) < _ord(win[j])
=============================================================================
