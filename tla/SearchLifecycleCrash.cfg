\* One search that no user moves: do crashes use up its budget?
SPECIFICATION Spec
CONSTANTS
    Searches = {s1}
    Workers = {w1, w2}
    NoWorker = NoWorker
    NoSearch = NoSearch
    MaxAttempts = 3
    UserMoves = {}
    MaxFaults = 2
SYMMETRY Symmetry
INVARIANTS
    CrashesAreFree
