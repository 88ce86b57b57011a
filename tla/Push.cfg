\* Two pushes of one version; a restart, a lost request or a task left alone.
CONSTANTS
    p1 = p1  p2 = p2  a = a  b = b
    None = None  Torn = Torn
    Pushes = {p1, p2}
    Files = {a, b}
    Listed <- MCListed
    Blocks <- MCBlocks
    MaxTry = 2
    MaxFaults = 1
SPECIFICATION Spec
\* Every push ends.
CHECK_DEADLOCK FALSE
INVARIANTS PublishedWhole LostOnlyWhenCut AcknowledgedKept
