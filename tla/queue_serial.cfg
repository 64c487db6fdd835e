\* One process at a time, none dies: the decision lifecycle is implemented.
SPECIFICATION Spec
CONSTANTS
    app = app   other = other   s1 = s1   s2 = s2
    Decision = {1, 2}
    Project = {app}
    KindOf <- SettingThenMessage
    ProjectOf <- SameProject
    ExpiresOf <- SecondExpires
    Session = {s1}   Supervisor = {sup}   Operator = {op}
    Collector = {gc}   Producer = {cli}
    SessionProject <- Sessions
    CrashProne = {}
    MaxActive = 1
    RetentionDays = 1
    MaxDay = 2
    NoDecision = NoDecision
INVARIANTS EffectAtMostOnce
PROPERTIES ImplementsLifecycle
