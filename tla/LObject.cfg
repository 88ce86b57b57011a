\* Two writers and a reader; three payloads of one or two parts.
CONSTANTS
    w1 = w1  w2 = w2  p1 = p1
    None = None  Corrupt = Corrupt  Torn = Torn
    Writers = {w1, w2}
    Readers = {p1}
    MaxParts = 2
    MaxVersion = 3
    MaxFailures = 1
SPECIFICATION FairSpec
INVARIANTS LatestComplete
PROPERTIES ImplementsAtomicObject ReadsEnd
