----------------------------- MODULE MCScheduler -----------------------------
(* Instances of Scheduler for TLC: loops numbered in registry order. *)
EXTENDS Scheduler

CONSTANTS tick, web

OneLoop     == <<"docs">>
FourKeys    == <<"docs", "replay", "deps", "triage">>
FourMixed   == <<{1}, {1, 4}, {1}, {1}>>
FourMinutes == <<1, 1, 1, 1>>
FourFree    == <<NoLimit, NoLimit, NoLimit, NoLimit>>
Once        == <<{1}>>
TwiceClose  == <<{1, 2}>>
Minute      == <<1>>
NoBudget    == <<NoLimit>>
OneMinute   == <<1>>
=============================================================================
