\* Antiaffinity and the same ports for two tasks that are retried, while a request
\* may not be set up: c1 and c3 are on one host, c3 has other ports.
CONSTANTS
    r1 = r1  r2 = r2  c1 = c1  c2 = c2  c3 = c3  h1 = h1  h2 = h2
    None = None
    Roles = {r1}
    Containers = {c1, c2, c3}
    Hosts = {h1, h2}
    HostOf <- MCTwoHosts
    PortsOf <- MCTwoPorts
    MaxTasks = 2
    MaxRequests = 3
    MaxLost = 0
    LostBound = 1
    MaxRetried = 0
    Gang = FALSE
    AntiAffinity = TRUE
    SamePort = TRUE
    Fancy = TRUE
    MaxRetryCount = 0
    MinFailed = None
    MinSucceeded = None
    MaxExceed = 1
    Numbers <- MCTwoEach
    Exits = {"TRANSIENT_NORMAL"}
    Faults = {"setup"}
    MaxQueue = 1
    MaxCrashes = 0
    MaxUserOps = 0
SPECIFICATION Spec
VIEW MCMemory
\* The AM stops, and its last events may never come.
CHECK_DEADLOCK FALSE
INVARIANTS AntiAffinityEnsured SamePortsEnsured HostIndexSound TasksDriven
