\* A red pair whose loop stops running, or turns amber.
SPECIFICATION Spec
CONSTANTS
    Pair = {docs}   Tracked = {docs}
    StaleAfter <- OneDay
    AgesAfter <- Zero
    Collector = {c1}   Operator = {}
    Issue = {1}
    Flaky = FALSE   Drops = FALSE
    CrashProne = {}
    MaxTime = 2
    NoIssue = NoIssue   NoPair = NoPair   Nobody = Nobody
INVARIANTS ClearedByGreen
CHECK_DEADLOCK FALSE
