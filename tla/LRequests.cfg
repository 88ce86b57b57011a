\* Three generations, perhaps in a circle; calls, restarts and a failed write.
CONSTANTS
    f1 = f1  f2 = f2  f3 = f3  m1 = m1
    None = None
    Frameworks = {f1, f2, f3}
    ParentsOf <- MCCycle
    DataDeployment = {}
    Marks = {m1}
    MaxTasks = 1
    MaxTotalTaskNumber = 2
    MaxVersion = 1
    MaxOps = 5
    MaxCrashes = 2
    MaxFailures = 1
    MaxPulled = 0
SPECIFICATION Spec
\* Users may stop asking for anything.
CHECK_DEADLOCK FALSE
INVARIANTS TypeOK RequestsConsistent TotalExact StopReachesChildren
PROPERTIES RecoveredWithoutOrphans
