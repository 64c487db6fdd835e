\* The scheduler alone, nothing dies: what is due is fired, once, reported and cleaned up.
\* The first loop lacks its prompt file, the third its checkout, the fourth is dispatched.
SPECIFICATION FairSpec
CONSTANTS
    tick = tick   web = web
    Loop = {1, 2, 3, 4}
    KeyOf <- FourKeys
    FiresAt <- FourMixed
    Timeout <- FourMinutes
    Budget <- FourFree
    Writes = {2}   OpensPr = {2}   Autorun = {1, 2, 3}   Hooked = {2}   Absent = {3}   Broken = {1}
    Ticker = {tick}   Web = {}
    Run = {1, 2, 3}
    Grace = 1
    CrashProne = {}
    MaxTime = 4
    MaxRequests = 0
    NoLoop = NoLoop   NoRun = NoRun
INVARIANTS TypeOK FiredOnce RunsWatched ApprovalOnce
PROPERTIES OccurrencesServed  FinishedIsReaped
