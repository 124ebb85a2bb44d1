\* Two attempts: the first is dismissed and resumed.
SPECIFICATION CheckoutSpec
CONSTANTS
    MaxStarts = 2
    None = None
CHECK_DEADLOCK FALSE
INVARIANTS
    ResumeKeepsOrder
