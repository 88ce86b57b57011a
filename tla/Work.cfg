\* A project that is begun or cloned, edited, pushed and pulled in versions.
CONSTANTS
    v1 = v1  v2 = v2  v3 = v3  f = f  g = g
    None = None  ErrorText = ErrorText
    Versions = {v1, v2, v3}
    Files = {f, g}
    OnHub = {v1, v2}
    Listing <- MCListing
    MaxRevision = 3
    MaxCommands = 3
    MaxFaults = 1
SPECIFICATION Spec
\* A command that was killed may leave no legal project.
CHECK_DEADLOCK FALSE
INVARIANTS WorkKept PulledWhole
