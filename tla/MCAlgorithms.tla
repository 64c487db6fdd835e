---------------------------- MODULE MCAlgorithms ----------------------------
(* The pure algorithms over bounded inputs: the first step picks what is       *)
(* computed, the second one input of it, and each invariant states what the    *)
(* algorithm promises of that input.                                           *)
EXTENDS Components, TLC
LOCAL INSTANCE SequencesExt

V == INSTANCE Verdicts
C == INSTANCE ConfigResolve
T == INSTANCE RegistryText
Q == INSTANCE Quota

\* ---------------------------------------------------------------- schedules
Moments ==                       \* month ends, the year's end, and midnights
  {d * Cron!Day + t : d \in {90, 119, 150, 364, 365, 424}, t \in {0, 1, 8 * 60 + 37, 23 * 60 + 59}}
Slots == [minute : {1, 59}, hour : {0, 8, 23}, dow : {1, 5}, dom : {1, 28}]
Presets == [name : {"daily", "weekdays", "weekly", "monthly"}, days : {0}]
             \union [name : {"every"}, days : {1, 2, 7, 30}]
PresetCases == Presets \X Slots \X Moments

Hashes == [minute : {0, 29, 30, 53, 59}, hour : {0, 5, 23}, dow : 0..4, dom : {0, 27}]
Settings == [start_hour : {None, 0, 22, 24}, span_hours : {0, 1, 3, 30}, start_minute : {None, 0, 75}]
SlotCases == Hashes \X ({None} \union Settings) \X ({None} \union [start_hour : {7}, span_hours : {1}, start_minute : {30}])

Fields(minute, hour, dom, month, dow) ==
  [minute |-> minute, hour |-> hour, dom |-> dom, month |-> month, dow |-> dow]
At(v) == {Cron!Span(v, v, 1)}
Every == {Cron!Star(1)}
Weekly ==                        \* neither day of month nor month restricted
  {Fields(m, h, Every, Every, w) :
     m \in {At(17), At(17) \union At(47)}, h \in {At(0), At(23), At(3) \union At(9), {Cron!Span(8, 20, 6)}},
     w \in {Every, At(0), At(7), At(1) \union At(4), {Cron!Span(1, 5, 1)}, {Cron!Star(3)}}}
Monthly == {Fields(At(17), h, d, Every, Every) : h \in {At(5), At(0) \union At(23)},
                                             d \in {At(1), At(31), At(15) \union At(16), {Cron!Star(10)}}}
Frequent == {Fields(m, {Cron!Span(9, 11, 1)}, Every, Every, Every) : m \in {At(17), At(17) \union At(47), {Cron!Span(1, 59, 20)}}}
Occurrences(fs) ==               \* a moment within the run of an occurrence
  UNION {{<<f, Cron!CronPrevious(Cron!parse(f), d * Cron!Day, 60) + r>> : d \in {180, 184, 365, 424}, r \in {0, 45}} : f \in fs}
FloorCases == {"cloud", "local"} \X (Weekly \union Monthly \union Frequent) \X {150 * Cron!Day, 424 * Cron!Day + 1439}

\* ----------------------------------------------------------------- verdicts
Metrics == {"errors", "stale"}
Comparisons == {V!Compare(op, V!Name(n), V!Const(1)) : op \in {"<", ">=", "==", "!="}, n \in Metrics \union {"eror"}}
Simple == Comparisons \union {V!Name("stale"), V!Negation(V!Name("stale"))}
Rules == {V!Otherwise} \union Simple
           \union {V!BoolOp(op, <<a, b>>) : op \in {"and", "or"}, a \in Simple, b \in {V!Name("stale"), V!Compare("<=", V!Name("errors"), V!Const(2))}}
RuleSets == [green : Rules, amber : {V!Otherwise} \union Simple]

Cadences == [metrics : {Metrics}, verify : BOOLEAN,
             rules : [green : {V!Compare("<", V!Name("errors"), V!Const(1)), V!Name("eror")},
                      amber : {V!Name("stale"), V!Otherwise}]]
Partials == {None} \union [metrics : UNION {[m -> 0..2] : m \in {Metrics, {"errors"}, {}}}, next_action : BOOLEAN]
Answers == {"error", "garbage", "confirmed", "denied", "confirmed-in-envelope", "denied-in-envelope"}

Receipt(v, status, day) == [verdict |-> v, status |-> status, ended |-> day]
Histories ==                     \* up to five runs, two of them days apart
  UNION {{[i \in 1..n |-> Receipt(v[i], IF i = skipped THEN "skipped" ELSE "ok", days[i])] :
            v \in [1..n -> {"green", "amber", "red"}], skipped \in {0, 2},
            days \in {<<1, 2, 3, 4, 5>>, <<4, 1, 9, 9, 20>>}} : n \in 0..5}
Boards == {None} \union [stale_after : {None, 2, 14}, limit : {None, 0, 3}]
BoardCases == {h \in Histories : Len(h) <= 3} \X Boards \X {4, 9, 20, 21} \X {9, 20, 23, 34, 40}
TrendCases == Histories \X {20, 26} \X {20, 30}

\* ------------------------------------------------------------------- config
Managed == {<<>>, "model" :> C!Scalar("opus"), "permissions.deny" :> C!List(<<"deploy">>)}
Local == {<<>>, "model" :> C!Scalar("haiku") @@ "permissions.allow" :> C!List(<<"lint", "deploy">>)}
User == {<<>>, "model" :> C!Scalar("sonnet") @@ "permissions.deny" :> C!List(<<"lint", "deploy">>)}
Files ==
  [layers : {[n \in ToSet(C!LAYER_ORDER) |->
                CASE n = "managed" -> m [] n = "local" -> l [] n = "user" -> u [] OTHER -> <<>>] :
               m \in Managed, l \in Local, u \in User},
   skills : {{[name |-> "deploy", opts_out |-> FALSE], [name |-> "lint", opts_out |-> o]} : o \in BOOLEAN},
   overrides_off : {{}, {"lint"}}, plugins : {{"memo"}},
   mcp : {[user |-> {"db"}, json |-> {"db", "web"}, off |-> off, all |-> all,
           on_json |-> {"web"}, off_json |-> {}] : off \in {{}, {"web"}}, all \in BOOLEAN},
   imports : {"CLAUDE.md" :> <<"rules.md">> @@ "rules.md" :> <<"CLAUDE.md">>}, memory : {<<"CLAUDE.md">>}]
Environments == {[hard |-> None, soft |-> None], [hard |-> "opus", soft |-> None], [hard |-> None, soft |-> "haiku"]}
Probes == {None} \union
  [model : {None, "opus"}, permission_mode : {None, "plan"}, plugins : {None, {}},
   skills : {None, "deploy" :> FALSE, "deploy" :> TRUE @@ "lint" :> FALSE}, mcp : {None, {"db"}}]
ConfigCases == Files \X Environments \X Probes

MemoryFiles == {"CLAUDE.md", "a.md", "b.md"}
MemoryCases ==
  [MemoryFiles -> {<<>>, <<"a.md">>, <<"b.md", "a.md">>, <<"CLAUDE.md", "gone.md">>}]
    \X {<<"CLAUDE.md">>, <<"b.md", "CLAUDE.md", "gone.md">>, <<"a.md", "a.md">>}

Snapshot(h, skill, plugin) ==
  [project |-> "p", host |-> h, keys |-> <<>>,
   components |-> (IF skill = None THEN {} ELSE {C!Component("skill", "deploy", skill)})
                    \union (IF plugin THEN {C!Component("plugin", "memo", None)} ELSE {})]
Snapshots == {Snapshot(h, s, p) : h \in {"mbp", "vps"}, s \in {None, TRUE, FALSE}, p \in BOOLEAN}
SnapshotCases == UNION {[1..n -> Snapshots] : n \in 1..3}

\* ----------------------------------------------------------- registry texts
If(b, lines) == IF b THEN lines ELSE <<>>
Fleet(autorun, window) ==
  <<T!Header(0, "defaults"), T!Line(2, "marketplace_pin", <<"1">>)>>
    \o If(autorun, <<T!Line(2, "autorun", <<"false">>)>>)
    \o If(window, <<T!Header(2, "autorun_window"), T!Line(4, "start_hour", <<"7">>)>>) \o <<T!Blank>>
Item(p, pre, autorun, keys, window, post) ==
  <<T!Slug(p)>> \o pre
    \o If(autorun, <<T!Line(4, "autorun", <<"true">>)>>)
    \o If(keys # <<>>, <<T!Header(4, "schedules")>> \o [i \in DOMAIN keys |-> T!Line(6, keys[i], <<"daily">>)])
    \o post
    \o <<T!Line(4, "cadences", <<"a", "b">>)>>
    \o If(window, <<T!Header(4, "autorun_window"), T!Line(6, "start_hour", <<"2">>), T!Line(6, "span_hours", <<"3">>)>>)
Texts ==
  {Fleet(fa, w) \o <<T!Header(0, "projects")>>
     \o Item("p1", pre, a, keys, w, post) \o <<T!Blank, T!Comment(2)>> \o Item("p2", <<>>, ~a, <<"b">>, fa, <<>>)
     \o tail :
     fa \in BOOLEAN, w \in BOOLEAN, a \in BOOLEAN, keys \in {<<>>, <<"a">>, <<"b", "a">>},
     pre \in {<<>>, <<T!Line(4, "marketplace_pin", <<"2">>)>>}, post \in {<<>>, <<T!Blank, T!Comment(4)>>},
     tail \in {<<>>, <<T!Blank, T!Header(0, "hosts"), T!Line(2, "mini", <<"linux">>)>>}}
Edits == [op : {"autorun"}, p : {"p1", "p2"}, key : {None}, value : {"true", "false"}]
           \union [op : {"entry", "drop"}, p : {"p1", "p2"}, key : {"a", "b"}, value : {"weekly"}]
           \union [op : {"window"}, p : {"p1", "p2"}, key : {None}, value : {"16"}]
           \union [op : {"fleet", "append"}, p : {None}, key : {None}, value : {"16"}]
           \union [op : {"pin"}, p : {"p1", "p2", "defaults"}, key : {None}, value : {"3"}]
           \union [op : {"enable", "disable"}, p : {"p1", "p2"}, key : {"a", "c"}, value : {None}]

\* ------------------------------------------------------------------ retention
Row(g, t, h) == [group |-> g, taken |-> t, hash |-> h]
Ascending(s) == \A i \in 1..(Len(s) - 1) : s[i] <= s[i + 1]
Tables(moments, groups, hashes) ==
  {[i \in 1..4 |-> Row(g[i], t[i], h[i])] :
     t \in {s \in [1..4 -> moments] : Ascending(s)}, g \in groups, h \in [1..4 -> hashes]}
Groups == {<<1, 1, 1, 1>>, <<1, 2, 1, 1>>}
SnapshotTables ==                \* about the turn of a year; cutoffs between and behind them
  Tables({2 * d : d \in {0, 1, 5, 358, 362, 365, 370}}, Groups, {1, 2}) \X {<<2 * 93, 2 * 460>>, <<2 * 453, 2 * 456>>}
StateTables == Tables(0..4, Groups \union {<<1, 1, 2, 2>>}, {1}) \X ({61, 62, 63} \X {64, 70})

\* --------------------------------------------------------------- repositories
Branch(age, agent, unmerged) == [age |-> age, agent |-> agent, unmerged |-> unmerged]
Branches == {Branch(0, FALSE, {"local", "origin"}), Branch(40, TRUE, {"origin"}), Branch(31, FALSE, {}),
             Branch(31, TRUE, {}), Branch(30, FALSE, {}), Branch(99, FALSE, {})}
Repos == [branches : {{}, {Branch(40, TRUE, {"origin"})}, Branches}, refs : {{"local", "origin"}, {"local"}},
          behind : {0, 2}, ahead : {0, 12}, dirty : {3, 51}, orphans : {0}, blobs : {{0, 12}, {50}},
          reflog : {<<[rewinds |-> TRUE], [rewinds |-> FALSE]>>}]
PullRequest(agent, age, failed) == [agent |-> agent, age |-> age, failed |-> failed]
Hubs == [prs : {{}, {PullRequest(TRUE, 8, 0), PullRequest(FALSE, 1, 2)}}, issues : {1},
         dependabot : {0, 2}, scanning : {0, 1}]
SnapshotFailures == Repos \X Hubs \X (SUBSET {"counts", "local", "merged", "prs", "dependabot", "scanning"}
                                        \union {H!GitReads, H!HubReads, H!GitReads \union H!HubReads})

GitRows == [behind : {0, 1}, ahead : {0, 9, 10}, dirty_files : {0, 51}, orphan_worktrees : {0, 1},
            stale_branches : {0, 2, 3}, unmerged_agent_branches : {0, 1}, largest_blob_mb : {None, 49, 50},
            force_pushes_7d : {0, 1}]
HubRows == [open_prs : {1}, agent_prs : {0}, oldest_pr_days : {7, 8}, failing_checks : {0, 1},
            security_alerts : {0, 1}, dependabot_open : {0, 1}, issues_open : {0}]
AdviceCases == ({None} \union GitRows) \X ({None} \union HubRows)

\* ---------------------------------------------------------------------- quota
Said(at, size, tokens, stamped) == [at |-> at, size |-> size, tokens |-> tokens, stamped |-> stamped]
Transcripts(hours) == UNION {{[i \in 1..n |-> Said(at[i], size[i], tokens[i], n # 2 \/ i # 1)] :
                             at \in {s \in [1..n -> hours] : Ascending(s)}, size \in [1..n -> {1, 3}],
                             tokens \in {[i \in 1..n |-> 6], [i \in 1..n |-> 5 * i]}} : n \in 0..3}
QuotaCases == {<<a, b>> : a \in Transcripts({0, 4, 5}), b \in {<<>>, <<Said(4, 1, 3, TRUE)>>}}
                \X {3, 9} \X {<<10, None>>, <<None, 10>>, <<12, 20>>} \X {<<5, 9>>, <<5, 10>>}
                \X {<<>>, <<Receipt("green", "failed", 1)>>, <<Receipt("red", "ok", 4), Receipt("green", "ok", 1)>>}
                \X BOOLEAN

\* -------------------------------------------------------------------- the run
AllTopics == {"preset", "slot", "stale", "floor", "rules", "receipt", "board", "trend",
              "config", "memory", "fleet", "text", "snapshots", "states", "repository", "advice", "quota"}

BoundedInputs(t) ==
  CASE t = "preset" -> PresetCases [] t = "slot" -> SlotCases
    [] t = "stale" -> Occurrences(Weekly) [] t = "floor" -> FloorCases
    [] t = "rules" -> RuleSets [] t = "receipt" -> Cadences \X Partials \X Answers
    [] t = "board" -> BoardCases [] t = "trend" -> TrendCases
    [] t = "config" -> ConfigCases [] t = "memory" -> MemoryCases
    [] t = "fleet" -> SnapshotCases [] t = "text" -> Texts \X Edits
    [] t = "snapshots" -> SnapshotTables [] t = "states" -> StateTables
    [] t = "repository" -> SnapshotFailures [] t = "advice" -> AdviceCases
    [] t = "quota" -> QuotaCases

RulesNeverRaise == On("rules") => V!RulesNeverRaise(input, Metrics, 0..2)
VerdictEarned == On("receipt") => V!VerdictEarned(input[1], input[2], input[3])
OnlyWorsens == On("board") => V!OnlyWorsens(input[1], input[2], input[3], input[4])
TrendsAgree == On("trend") => V!TrendsAgree(input[1], 21, input[2], input[3])
DenySurvives == On("config") => C!DenySurvives(input[1], input[2], input[3])
MeasurementWins == On("config") => C!MeasurementWins(input[1], input[2], input[3])
NoFalseDrift == On("config") => C!NoFalseDrift(input[1], input[2], input[3])
MemoryOnce == On("memory") => C!MemoryOnce(input[1], input[2])
DiffExact == On("fleet") => C!DiffExact(input, "p")
GuardEarned == On("quota") =>
  Q!GuardEarned(input[1], input[2], input[3], input[4][1], input[4][2], input[5], input[6],
                V!analyze_pair(V!load_receipts(input[5]), None, 10).effective = "red")
EditIsExact == On("text") => T!EditIsExact(input[1], input[2])
=============================================================================
