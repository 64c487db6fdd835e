\* Drains and collects keep being started and none dies: the queue empties, and the rows and
\* issues follow what the pairs report.
SPECIFICATION DeliverySpec
CONSTANTS
    app = app   other = other   s1 = s1   s2 = s2
    Decision = {1, 2}
    Project = {app, other}
    KindOf <- MessageThenPin
    ProjectOf <- TwoProjects
    ExpiresOf <- SecondExpires
    Session = {s1}   Supervisor = {sup}   Operator = {op}
    Collector = {}   Producer = {cli}
    SessionProject <- Sessions
    CrashProne = {}
    MaxActive = 4
    RetentionDays = 1
    MaxDay = 1
    NoDecision = NoDecision
    docs = docs   c1 = c1
    NoIssue = NoIssue   NoPair = NoPair   Nobody = Nobody
INVARIANTS DeliveredOrHeld
PROPERTIES  MessagesArrive RedIsRaised GreenIsCleared
CHECK_DEADLOCK FALSE
