\* One framework that is upgraded, deleted and created again while it is collected.
CONSTANTS
    f1 = f1  f2 = f2  f3 = f3  m1 = m1
    None = None
    Frameworks = {f1}
    ParentsOf <- MCFamily
    DataDeployment = {}
    Marks = {}
    MaxTasks = 0
    MaxTotalTaskNumber = 0
    MaxVersion = 3
    MaxOps = 4
    MaxCrashes = 1
    MaxFailures = 0
    MaxPulled = 1
SPECIFICATION FairSpec
\* Users may stop asking for anything.
CHECK_DEADLOCK FALSE
INVARIANTS ReusedStatusCurrent
PROPERTIES OnlyCompletedCollected CompletedCollected
