-------------------------------- MODULE Health --------------------------------
(***************************************************************************)
(* What the dashboard says about a repository: the snapshots of git and    *)
(* GitHub (collectors/git_state.py, github_state.py), where every command  *)
(* may fail by itself, and the chips and the advice made of their counters *)
(* (collectors/repo_health.py).                                            *)
(***************************************************************************)
EXTENDS Integers, Sequences, FiniteSetsExt

CONSTANT None

DIRTY_AMBER == 50
BLOB_RED_MB == 50
OLD_PR_AMBER_DAYS == 7
STALE_BRANCH_AMBER == 3
AHEAD_AMBER == 10
STALE_BRANCH_DAYS == 30

-----------------------------------------------------------------------------
(* Reading git.  A repository has branches [age, agent, unmerged], unmerged naming the bases  *)
(* ("local" or "origin") that do not hold it, and the refs of its default branch it knows.    *)

GitReads == {"counts", "status", "worktrees", "branches", "local", "merged", "blobs"}

_stale_branches(repo) == Cardinality({b \in repo.branches : b.age > STALE_BRANCH_DAYS})

\* The local default branch is the base, or origin's where that one does not answer.
_unmerged_agent_branches(repo, failing) ==
    LET base == IF "local" \in repo.refs \ failing THEN "local" ELSE "origin"
    IN  IF base \in repo.refs
          THEN Cardinality({b \in repo.branches : b.agent /\ base \in b.unmerged}) ELSE 0

\* git has no placeholder %gt and prints it as it stands, so no entry has a number for a time.
Timed(entry) == FALSE

_force_pushes_7d(repo) ==
    LET entries == SelectSeq(repo.reflog, Timed)
    IN  Cardinality({i \in 1 .. (Len(entries) - 1) : entries[i].rewinds})

\* (mutant: a command that failed counts as one problem rather than none)
ReadAlarmed(command, failing, value) == IF command \in failing THEN 1 ELSE value

Read(command, failing, value) == IF command \in failing THEN 0 ELSE value

collect(repo, failing) ==
    LET count(value) == IF "origin" \in repo.refs THEN Read("counts", failing, value) ELSE 0
    IN  [behind |-> count(repo.behind), ahead |-> count(repo.ahead),
         dirty_files |-> Read("status", failing, repo.dirty),
         orphan_worktrees |-> Read("worktrees", failing, repo.orphans),
         stale_branches |-> Read("branches", failing, _stale_branches(repo)),
         unmerged_agent_branches |-> Read("merged", failing, _unmerged_agent_branches(repo, failing)),
         largest_blob_mb |-> IF "blobs" \in failing THEN None ELSE Max(repo.blobs),
         force_pushes_7d |-> _force_pushes_7d(repo)]

-----------------------------------------------------------------------------
(* Reading GitHub: pull requests [agent, age, failed] with failed of their checks failing *)

HubReads == {"prs", "issues", "dependabot", "scanning"}

gather(hub, failing) ==
    [prs |-> IF "prs" \in failing THEN {} ELSE hub.prs,
     issues_open |-> Read("issues", failing, hub.issues),
     dependabot_open |-> Read("dependabot", failing, hub.dependabot),
     security_alerts |-> Read("scanning", failing, hub.scanning)]

compute(raw) ==
    [open_prs |-> Cardinality(raw.prs),
     agent_prs |-> Cardinality({p \in raw.prs : p.agent}),
     oldest_pr_days |-> Max({0} \union {p.age : p \in raw.prs}),
     failing_checks |-> MapThenSumSet(LAMBDA p : p.failed, raw.prs),
     security_alerts |-> raw.security_alerts,
     dependabot_open |-> raw.dependabot_open,
     issues_open |-> raw.issues_open]

-----------------------------------------------------------------------------
(* Chips and advice; a row is None where nothing has been collected *)

_n(row, col) == IF row = None THEN 0 ELSE IF row[col] = None THEN 0 ELSE row[col]

GitCols == {"behind", "ahead", "dirty_files", "orphan_worktrees", "stale_branches",
            "unmerged_agent_branches", "largest_blob_mb", "force_pushes_7d"}
HubCols == {"open_prs", "agent_prs", "oldest_pr_days", "failing_checks", "security_alerts",
            "dependabot_open", "issues_open"}
Count(g, h, col) == IF col \in GitCols THEN _n(g, col) ELSE _n(h, col)

Chip(level, col, above) == [level |-> level, col |-> col, above |-> above]
Chips ==
    {Chip("red", "largest_blob_mb", BLOB_RED_MB - 1), Chip("amber", "dirty_files", DIRTY_AMBER),
     Chip("amber", "oldest_pr_days", OLD_PR_AMBER_DAYS)}
      \union {Chip("red", c, 0) : c \in {"force_pushes_7d", "failing_checks", "security_alerts"}}
      \union {Chip("amber", c, 0) : c \in {"behind", "stale_branches", "unmerged_agent_branches",
                                           "orphan_worktrees", "dependabot_open"}}
      \union {Chip("info", c, 0) : c \in {"dirty_files", "ahead", "open_prs", "issues_open"}}

signals(g, h) ==
    {c \in Chips : /\ Count(g, h, c.col) > c.above
                   /\ c = Chip("info", "dirty_files", 0) => _n(g, "dirty_files") <= DIRTY_AMBER}

\* One piece of advice, where its condition holds, and the counters it speaks of.
Advice(level, cond, cols) == IF cond THEN {[level |-> level, cols |-> cols]} ELSE {}

DependabotAlone(g, h) == Count(g, h, "dependabot_open") > 0 /\ Count(g, h, "security_alerts") = 0

suggestions(g, h) ==
    LET n(col) == Count(g, h, col)
        big == n("largest_blob_mb") >= BLOB_RED_MB
        forced == n("force_pushes_7d") > 0
        clutter == (IF n("dirty_files") > DIRTY_AMBER THEN {"dirty_files"} ELSE {})
                     \union {c \in {"unmerged_agent_branches", "stale_branches", "orphan_worktrees"} : n(c) > 0}
        found == Advice("red", n("failing_checks") > 0, {"failing_checks"})
                   \union Advice("red", n("security_alerts") > 0, {"security_alerts", "dependabot_open"})
                   \union Advice("red", big /\ forced, {"largest_blob_mb", "force_pushes_7d"})
                   \union Advice("red", big /\ ~forced, {"largest_blob_mb"})
                   \union Advice("red", forced /\ ~big, {"force_pushes_7d"})
                   \union Advice("amber", n("oldest_pr_days") > OLD_PR_AMBER_DAYS,
                                 {"oldest_pr_days", "open_prs", "agent_prs"})
                   \union Advice("amber", DependabotAlone(g, h), {"dependabot_open"})
                   \union Advice("amber", n("behind") > 0, {"behind", "ahead"})
                   \union Advice("amber", n("behind") = 0 /\ n("ahead") >= AHEAD_AMBER, {"ahead"})
                   \union Advice("amber",
                                 clutter \ {"stale_branches"} # {} \/ n("stale_branches") >= STALE_BRANCH_AMBER,
                                 clutter)
    IN  IF found # {} THEN found
        ELSE Advice("info", TRUE, IF n("ahead") > 0 THEN {"ahead"} ELSE {})

level_of(said) ==
    IF \E s \in said : s.level = "red" THEN "red"
    ELSE IF \E s \in said : s.level = "amber" THEN "amber" ELSE "green"

Rank(level) == CASE level = "green" -> 0 [] level = "amber" -> 1 [] level = "red" -> 2

-----------------------------------------------------------------------------
(* Properties *)

\* The advice folds related counters, and loses none: whatever has a red or amber chip is spoken
\* of in a piece of advice, except one or two stale branches that nothing else makes worth
\* tidying; and chips and advice agree on whether the repository is red.
AdviceComplete(g, h) ==
    LET spoken == UNION {s.cols : s \in suggestions(g, h)}
        routine == IF _n(g, "stale_branches") < STALE_BRANCH_AMBER THEN {"stale_branches"} ELSE {}
    IN  /\ {c.col : c \in {c \in signals(g, h) : c.level # "info"}} \subseteq spoken \union routine
        /\ (level_of(signals(g, h)) = "red") <=> (level_of(suggestions(g, h)) = "red")

\* "Every field degrades to a safe default": commands that fail never make a repository look
\* worse than it is.  The lookup of the local default branch is the exception: without it the
\* agent branches are held against origin's, which may lack what was merged and not pushed.
FailureNeverAlarms(repo, hub, failing) ==
    LET level(f) == level_of(suggestions(collect(repo, f), compute(gather(hub, f))))
    IN  "local" \notin failing => Rank(level(failing)) <= Rank(level({}))
==============================================================================
