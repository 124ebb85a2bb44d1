\* One row: is an attempt charged only when Meta failed?
SPECIFICATION Spec
CONSTANTS
    e1 = e1
    e2 = e2
    w1 = w1
    w2 = w2
    Events <- OneEvent
    Unsupported <- NoneUnsupported
    Workers <- TwoWorkers
    NoWorker = NoWorker
    NoEvent = NoEvent
    MaxAttempts = 2
    BatchLimit = 1
    MaxFaults = 1
CHECK_DEADLOCK FALSE
PROPERTIES
    AttemptsOnlyForMetaFailures
