\* A budget stop releases the lock of a run whose agent works on.
SPECIFICATION Spec
CONSTANTS
    tick = tick   web = web
    Loop = {1}
    KeyOf <- OneLoop
    FiresAt <- TwiceClose
    Timeout <- Minute
    Budget <- OneMinute
    Writes = {}   OpensPr = {}   Autorun = {1}   Hooked = {1}   Absent = {}   Broken = {}
    Ticker = {tick}   Web = {}
    Run = {1, 2}
    Grace = 2
    CrashProne = {}
    MaxTime = 3
    MaxRequests = 0
    NoLoop = NoLoop   NoRun = NoRun
INVARIANTS OneAgentPerLock
