-------------------------------- MODULE Quota --------------------------------
(***************************************************************************)
(* The quota guard: how much of the plan's window has been billed, read    *)
(* from the tails of the session transcripts (collectors/quota_probe.py),  *)
(* kept by the collector (runstate.py, quota.py) and asked before a run is *)
(* dispatched (dispatch.py).  Usage is in tenths of a percent.             *)
(***************************************************************************)
EXTENDS Integers, Sequences, FiniteSets
LOCAL INSTANCE FiniteSetsExt
LOCAL INSTANCE TLC

CONSTANT None

WINDOW_HOURS == 5
DEFER_BELOW_HEADROOM == 150

-----------------------------------------------------------------------------
(* A transcript is a sequence of lines [at, size, tokens, stamped] in the order they were     *)
(* written, at being the hour; its modification time is that of its last line.                *)

\* Where a line begins, in bytes.
Offset(lines, i) == MapThenSumSet(LAMBDA j : lines[j].size, 1 .. (i - 1))

\* The lines left when the first one is dropped of a file that is read from size - cap on.
_tail(lines, cap) ==
    LET size == Offset(lines, Len(lines) + 1)
    IN  {i \in DOMAIN lines : size <= cap \/ Offset(lines, i) > size - cap}

window_usage(files, cap, now) ==
    LET since == now - WINDOW_HOURS
        opened == {f \in DOMAIN files : files[f] # <<>> /\ files[f][Len(files[f])].at >= since}
        counted == {r \in UNION {{f} \X _tail(files[f], cap) : f \in opened} :
                      LET line == files[r[1]][r[2]] IN line.stamped /\ line.at >= since}
    IN  MapThenSumSet(LAMBDA r : files[r[1]][r[2]].tokens, counted)

\* No reading without a limit; where the second decimal is a five, the code may round either way.
probe(files, cap, limit, now) ==
    IF limit = None THEN None
    ELSE Min({1000, (2000 * window_usage(files, cap, now) + limit) \div (2 * limit)})

-----------------------------------------------------------------------------
(* The table quota is a function from the hour a reading was taken to its pct_used *)

collect_quota(quota, fetched, now) ==
    IF fetched = None THEN quota ELSE (now :> fetched) @@ quota

latest(quota) == quota[Max(DOMAIN quota)]

low(quota) == DOMAIN quota # {} /\ 1000 - latest(quota) < DEFER_BELOW_HEADROOM

\* rows are the pair's runs in the index, escalated says whether a row of it is unresolved.
_is_red(rows, escalated) ==
    LET runs == {i \in DOMAIN rows : rows[i].status \notin {"locked", "skipped"}}
        last == CHOOSE i \in runs : \A j \in runs : rows[j].ended <= rows[i].ended
    IN  \/ escalated
        \/ runs # {} /\ (rows[last].verdict = "red" \/ rows[last].status \in {"failed", "timeout"})

\* For a loop that applies to a known project; any other raises first.
dispatch(quota, rows, escalated) ==
    IF low(quota) /\ ~_is_red(rows, escalated) THEN "deferred" ELSE "enqueued"

-----------------------------------------------------------------------------
(* Properties *)

Written(files, t) == [f \in DOMAIN files |-> SelectSeq(files[f], LAMBDA line : line.at <= t)]

\* What two collects leave in the table, at hours first and second, with their limits.
Readings(files, cap, limits, first, second) ==
    collect_quota(
        collect_quota(<<>>, probe(Written(files, first), cap, limits[1], first), first),
        probe(Written(files, second), cap, limits[2], second), second)

\* What the window before t billed, whatever the tails show of it.
Billed(files, t) ==
    LET lines == {r \in (DOMAIN files) \X (1 .. 3) : r[2] \in DOMAIN files[r[1]]}
        Line(r) == files[r[1]][r[2]]
    IN  MapThenSumSet(LAMBDA r : Line(r).tokens,
            {r \in lines : Line(r).stamped /\ Line(r).at \in (t - WINDOW_HOURS) .. t})

\* "A wrong quota number is worse than none": a run is deferred only if the window before the
\* newest reading really had billed more than 85% of the plan, and never while the board shows
\* the loop red; and where no file outgrew the cap, such a window does defer it.
GuardEarned(files, cap, limits, first, second, rows, escalated, red) ==
    LET quota == Readings(files, cap, limits, first, second)
        t == Max(DOMAIN quota)
        limit == IF t = second THEN limits[2] ELSE limits[1]
        uncut == \A f \in DOMAIN files : Offset(files[f], Len(files[f]) + 1) <= cap
        deferred == dispatch(quota, rows, escalated) = "deferred"
    IN  /\ deferred => DOMAIN quota # {} /\ 100 * Billed(files, t) > 85 * limit /\ ~red
        /\ DOMAIN quota # {} /\ uncut /\ 1000 * Billed(files, t) >= 851 * limit /\ ~red /\ ~escalated
             => deferred
==============================================================================
