\* Two sessions, a supervisor drain, an operator, a producer and gc: any two of them at a time
\* interleave on a push to approve and a setting that expires, and any of them may die.
SPECIFICATION Spec
CONSTANTS
    app = app   other = other   s1 = s1   s2 = s2
    Decision = {1, 2}
    Project = {app}
    KindOf <- PushThenSetting
    ProjectOf <- SameProject
    ExpiresOf <- SecondExpires
    Session = {s1, s2}   Supervisor = {sup}   Operator = {op}
    Collector = {gc}   Producer = {cli}
    SessionProject <- Sessions
    CrashProne = {s1, s2, sup, op, gc, cli}
    MaxActive = 2
    RetentionDays = 1
    MaxDay = 1
    NoDecision = NoDecision
INVARIANTS TypeOK ManualNeedsOperator AppliedTookEffect
PROPERTIES PendingNeverDeleted NeverReoffered
CHECK_DEADLOCK FALSE
