\* A tick that may die and the dashboard launch one loop; its runs have a budget.
SPECIFICATION Spec
CONSTANTS
    tick = tick   web = web
    Loop = {1}
    KeyOf <- OneLoop
    FiresAt <- Once
    Timeout <- Minute
    Budget <- OneMinute
    Writes = {1}   OpensPr = {}   Autorun = {1}   Hooked = {}   Absent = {}   Broken = {}
    Ticker = {tick}   Web = {web}
    Run = {1, 2}
    Grace = 1
    CrashProne = {tick}
    MaxTime = 3
    MaxRequests = 1
    NoLoop = NoLoop   NoRun = NoRun
INVARIANTS SharedOnlyAfterStop TreeRemovedOnlyAfterStop StoppedIsOver
