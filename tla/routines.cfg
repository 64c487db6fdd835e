SPECIFICATION FairSpec
CONSTANTS
    c1 = c1
    c2 = c2
    q = q
    Run <- ThreeRuns
    DayOf <- TwoDays
    Collector <- Two
    MaxDrops = 1
    Loops <- TwoLoops
    Occurrences <- Fires
    MaxTime = 4
    MaxOthers = 1
    MaxFaults = 1
    Pair = {q}
    Scanner <- Two
    KeepDays = 0
    MaxRuns = 2
    MaxDay = 1
    MaxSpoiled = 1
INVARIANTS  CloudRunsOnce NotifiedOnce
 
CHECK_DEADLOCK FALSE
