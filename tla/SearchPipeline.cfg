\* Two workers, three runs, two faults: a lost lease and a crash or a failure.
SPECIFICATION Spec
CONSTANTS
    Workers = {w1, w2}
    NoWorker = NoWorker
    Results = {{"match", "claim"}, {"claim", "unknown"}}
    MaxEvidence = 1
    MaxRuns = 3
    MaxFaults = 2
SYMMETRY WorkerSymmetry
CHECK_DEADLOCK FALSE
INVARIANTS
    StagesRestOnEachOther
    EvidenceIsReal
    UndisturbedRunHeals
