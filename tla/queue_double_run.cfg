\* dispatch-run launches while a session drain holds the decision.
SPECIFICATION Spec
CONSTANTS
    app = app   other = other   s1 = s1   s2 = s2
    Decision = {1, 2}
    Project = {app}
    KindOf <- SettingThenMessage
    ProjectOf <- SameProject
    ExpiresOf <- NoneExpires
    Session = {s1}   Supervisor = {}   Operator = {op}
    Collector = {}   Producer = {cli}
    SessionProject <- Sessions
    CrashProne = {}
    MaxActive = 2
    RetentionDays = 1
    MaxDay = 0
    NoDecision = NoDecision
INVARIANTS EffectAtMostOnce
