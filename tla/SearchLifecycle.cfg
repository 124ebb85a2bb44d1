\* Two searches, two workers, every move of the user, a budget of two attempts
\* and two faults, under fairness.
SPECIFICATION FairSpec
CONSTANTS
    Searches = {s1, s2}
    Workers = {w1, w2}
    NoWorker = NoWorker
    NoSearch = NoSearch
    MaxAttempts = 2
    UserMoves = {"PENDING", "RUNNING", "COMPLETE", "FAILED", "CANCELLED"}
    MaxFaults = 2
INVARIANTS
    FailuresWithinBudget
    NoSearchIsStuck
PROPERTIES
    NewestClaimSettles
    TerminalIsFinal
    EverySearchEnds
