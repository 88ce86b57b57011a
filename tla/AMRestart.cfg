\* One task and a restart: what the dead attempt left behind, and how an AM ends.
CONSTANTS
    r1 = r1  r2 = r2  c1 = c1  c2 = c2  c3 = c3  h1 = h1  h2 = h2
    None = None
    Roles = {r1}
    Containers = {c1, c2}
    Hosts = {h1}
    HostOf <- MCOneHost
    PortsOf <- MCSamePorts
    MaxTasks = 1
    MaxRequests = 2
    MaxLost = 0
    LostBound = 2
    MaxRetried = 0
    Gang = FALSE
    AntiAffinity = FALSE
    SamePort = FALSE
    Fancy = FALSE
    MaxRetryCount = 0
    MinFailed = None
    MinSucceeded = None
    MaxExceed = 1
    Numbers <- MCOneEach
    Exits = {"SUCCEEDED"}
    Faults = {"reinitialize"}
    MaxQueue = 1
    MaxCrashes = 1
    MaxUserOps = 0
SPECIFICATION FairSpec
\* The AM stops, and its last events may never come.
CHECK_DEADLOCK FALSE
INVARIANTS ChangedExact
PROPERTIES ImplementsStatusManager OrphansReleased StopsWhenUndisturbed
