\* gh fails, processes die, the index is dropped, the operator closes.
SPECIFICATION Spec
CONSTANTS
    Pair = {docs}   Tracked = {docs}
    StaleAfter <- OneDay
    AgesAfter <- Zero
    Collector = {c1, c2}   Operator = {op}
    Issue = {1, 2}
    Flaky = TRUE   Drops = TRUE
    CrashProne = {c1, op}
    MaxTime = 2
    NoIssue = NoIssue   NoPair = NoPair   Nobody = Nobody
INVARIANTS TypeOK OneIssuePerPair
 
CHECK_DEADLOCK FALSE
