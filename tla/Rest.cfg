\* Four requests on two users and one job; one failure or restart.
CONSTANTS
    Requests = {r1, r2, r3, r4}
    Users = {u1, u2}
    Admins = {u1}
    Keys = {k1, k2}
    FirstKey = k1
    Jobs = {j}
    Clusters = {default, vc, unknown}
    Queues = {default, vc}
    Default = default
    Parts = {config, script}
    MaxFaults = 1
    None = None
SPECIFICATION Spec
SYMMETRY MCSymmetry
\* Every request is served once.
CHECK_DEADLOCK FALSE
INVARIANTS TypeOK ContextCurrent
PROPERTY PasswordFollows
