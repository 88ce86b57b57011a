\* One task, the faults of the environment, a retry, and a user who
\* removes, adds or migrates the task.
CONSTANTS
    r1 = r1  r2 = r2  c1 = c1  c2 = c2  c3 = c3  h1 = h1  h2 = h2
    None = None
    Roles = {r1}
    Containers = {c1, c2}
    Hosts = {h1}
    HostOf <- MCOneHost
    PortsOf <- MCSamePorts
    MaxTasks = 1
    MaxRequests = 2
    MaxLost = 0
    LostBound = 1
    MaxRetried = 1
    Gang = FALSE
    AntiAffinity = FALSE
    SamePort = FALSE
    Fancy = TRUE
    MaxRetryCount = 1
    MinFailed = None
    MinSucceeded = None
    MaxExceed = 1
    Numbers <- MCNoneOrOne
    Exits = {"UNKNOWN"}
    Faults = {"associate", "start", "expire", "unreachable", "incomplete"}
    MaxQueue = 1
    MaxCrashes = 0
    MaxUserOps = 1
SPECIFICATION Spec
SYMMETRY MCSymmetry
\* The AM stops, and its last events may never come.
CHECK_DEADLOCK FALSE
INVARIANTS TypeOK StatusesWellFormed TasksDriven ReleasedNotLive NoForgottenRequest IndexesExact
