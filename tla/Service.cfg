\* Two versions of one framework, three changes of its request, one crash, one fault.
CONSTANTS
    Versions = {1, 2}
    Policy <- MCPolicy
    MaxApps = 6
    MaxRequests = 3
    MaxCrashes = 1
    MaxFaults = 1
    None = None
    Never = Never
SPECIFICATION Spec
INVARIANTS TypeOK OneApplication RetriesCounted
PROPERTY EventuallySatisfied
