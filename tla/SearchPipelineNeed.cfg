\* One worker that runs twice is enough to qualify on a need nobody sees any more.
SPECIFICATION Spec
CONSTANTS
    Workers = {w1}
    NoWorker = NoWorker
    Results = {{"match"}, {"claim"}}
    MaxEvidence = 1
    MaxRuns = 2
    MaxFaults = 1
CHECK_DEADLOCK FALSE
INVARIANT QualifiedOnALiveNeed
