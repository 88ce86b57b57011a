\* Gang allocation of two tasks, with expiring containers and a restart.
CONSTANTS
    r1 = r1  r2 = r2  c1 = c1  c2 = c2  c3 = c3  h1 = h1  h2 = h2
    None = None
    Roles = {r1}
    Containers = {c1, c2}
    Hosts = {h1}
    HostOf <- MCOneHost
    PortsOf <- MCSamePorts
    MaxTasks = 2
    MaxRequests = 2
    MaxLost = 0
    LostBound = 2
    MaxRetried = 0
    Gang = TRUE
    AntiAffinity = FALSE
    SamePort = FALSE
    Fancy = TRUE
    MaxRetryCount = 0
    MinFailed = None
    MinSucceeded = None
    MaxExceed = 1
    Numbers <- MCTwoEach
    Exits = {"SUCCEEDED"}
    Faults = {"expire", "reinitialize"}
    MaxQueue = 2
    MaxCrashes = 1
    MaxUserOps = 0
SPECIFICATION Spec
SYMMETRY MCSymmetry
\* The AM stops, and its last events may never come.
CHECK_DEADLOCK FALSE
INVARIANTS GangDriven
PROPERTIES GangLaunch CompletionPersists
