\* Two rows, one of them with an unknown event name, two workers that claim up
\* to two rows at a time, a budget of two attempts and two faults, under
\* fairness.
SPECIFICATION FairSpec
CONSTANTS
    e1 = e1
    e2 = e2
    w1 = w1
    w2 = w2
    Events <- TwoEvents
    Unsupported <- SecondUnsupported
    Workers <- TwoWorkers
    NoWorker = NoWorker
    NoEvent = NoEvent
    MaxAttempts = 2
    BatchLimit = 2
    MaxFaults = 2
CHECK_DEADLOCK FALSE
INVARIANTS
    DeliveryIsReal
    FreshSnapshot
    BudgetRespected
PROPERTIES
    LiveLeaseHonoured
    TerminalIsFinal
    AttemptsCountFailures
    ImplementsDelivery
    EventuallySettled
