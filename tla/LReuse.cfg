\* One framework that is deleted and created again with the version it had.
CONSTANTS
    f1 = f1  f2 = f2  f3 = f3  m1 = m1
    None = None
    Frameworks = {f1}
    ParentsOf <- MCFamily
    DataDeployment = {}
    Marks = {}
    MaxTasks = 0
    MaxTotalTaskNumber = 0
    MaxVersion = 1
    MaxOps = 3
    MaxCrashes = 0
    MaxFailures = 0
    MaxPulled = 1
SPECIFICATION Spec
\* Users may stop asking for anything.
CHECK_DEADLOCK FALSE
INVARIANTS ReusedStatusImmutable
