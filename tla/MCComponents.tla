----------------------------- MODULE MCComponents -----------------------------
(* Components for TLC: the pure modules over MCAlgorithms' inputs; one registered project and   *)
(* one to register, a committed loop and one made from its template; one transcript and two    *)
(* collectors; three days of two months; two keys, two hosts and two projects.                 *)
EXTENDS MCAlgorithms

CONSTANTS p1, p2, docs, review, c1, c2

OneSession == <<"a">>
ThreeDays == 1 .. 3
TwoMonths == <<1, 1, 2>>
TwoProjects == <<[keys |-> {"api", "db"}, hosts |-> {1, 2}], [keys |-> {"api"}, hosts |-> {1}]>>

\* Verdicts: validated rules do not raise, a red is downgraded only by a verifier that answers,
\* time only makes a board row worse, the trends agree with the receipts they are made of, and a
\* run is deferred by the quota guard for a measured reason, and never while the board is red.
VerdictsSound == RulesNeverRaise /\ VerdictEarned /\ OnlyWorsens /\ TrendsAgree /\ GuardEarned

\* Configuration: a deny survives every layer, a measurement wins over the merge, silence is not
\* drift, an import is loaded once, two hosts differ exactly where the diff says, and an edit of
\* the registry's text changes what it says and nothing else.
ConfigSound == DenySurvives /\ MeasurementWins /\ NoFalseDrift /\ MemoryOnce /\ DiffExact /\ EditIsExact
==============================================================================
