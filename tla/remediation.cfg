SPECIFICATION Spec
CONSTANTS
    Projects <- MCProjects
    DefaultAuto <- MCDefaultAuto
    Meta <- MCMeta
    Scanner = {s1, s2}
    RetentionDays = 1
    MaxRuns = 2
    MaxTime = 1
    MaxDismissed = 1
 
PROPERTIES StuckRedHandedOver
CHECK_DEADLOCK FALSE
