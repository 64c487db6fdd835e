SPECIFICATION Spec
CONSTANTS
    None = None
    Topics <- AllTopics
    Inputs <- BoundedInputs
    p1 = p1
    p2 = p2
    docs = docs
    review = review
    c1 = c1
    c2 = c2
    Repo = {p1, p2}
    Loop = {docs, review}
    Catalog = {review}
    Starter = docs
    Founders = {p1}
    Tuned = {p1}
    MaxDeaths = 1
    Skill = {docs, review}
    MaxVersion = 4
    MaxLosses = 2
    Session <- OneSession
    Collector = {c1, c2}
    ReadCap = 2
    MaxRecords = 3
    MaxOverlaps = 1
    Dates <- ThreeDays
    MonthOf <- TwoMonths
    KeepDaily = 0
    MaxPoints = 2
    Key = {"api", "db"}
    Host = {1, 2}
    Projects <- TwoProjects
    MaxRotations = 3
    MaxFaults = 1
INVARIANTS
    SchedulesSound  AdviceSound  RegistrySound
    RetentionSound TranscriptsSound TotalsEarned EnvsCurrent
CHECK_DEADLOCK FALSE
