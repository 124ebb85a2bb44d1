\* Is every draft that is handed over as ok really in order?
SPECIFICATION DraftsSpec
CONSTANTS
    None = None
    ResearchSignals <- Researched
    PoolLimit = 8
    HasSubject <- ByMail
    TraitsOf <- TraitsIn
    NumbersIn <- NumbersOf
    Messages <- MailsWritten
    maxAttempts = 2
    MaxReply = 2
    Subjects <- SubjectsWritten
    EditedBodies = {"sound", "asks twice"}
    People = {"ana", ""}
    MaxMoves = 3
CHECK_DEADLOCK FALSE
INVARIANTS
    FailuresAreVisible
