\* Fifteen components that share no state, one after the other.
SPECIFICATION PlatformSpec
CONSTANTS
    None = None
    Parts = {"intake", "payments", "gate", "records", "access", "deploy", "reconcile",
             "opportunities", "totals", "prospects", "followups", "outreach", "proposals",
             "checkout", "research", "searches"}
    r1 = r1
    r2 = r2
    r3 = r3
    r4 = r4
    r5 = r5
    key = key
    k1 = k1
    k2 = k2
    p1 = p1
    \* OrderIntake
    Requests = {r1, r2, r3, r4, r5}
    Keys = {key}
    NoKey = NoKey
    KeyOf <- KeyIn
    ContentOf <- Wants
    Malformed = {r5}
    NoAnswer = NoAnswer
    MaxFaults = 2
    \* PaymentIntegrity
    Orders = {o1, o2}
    Payments = {p1, p2}
    Terms = {t1, t2}
    Sessions = {s1, s2, s3}
    NoPayment = NoPayment
    \* RateLimit
    Posts = {1, 2, 3}
    IpOf <- AddressOf
    EmailOf <- MailOf
    Unparsable = {2}
    ProcessOf <- ReplicaOf
    Production = TRUE
    IpPolicy <- IpGate
    EmailPolicy <- EmailGate
    TicksPerSecond = 2
    MaxClock = 2
    \* WebhookRecords
    WebhookBodies <- BodiesSent
    Redactions = {"nightly", "byhand"}
    Configured <- RetentionOf
    DefaultRetention = 1
    MinRetention = 1
    MaxRetention = 2
    BatchSize = 1
    MaxBatches = 2
    MaxToday = 2
    MaxStored = 2
    MaxRejections = 1
    \* AccessGrants
    Customers = {"c1", "c2"}
    Rungs = 2
    FunnelOrders = {"lower", "upper"}
    BuyerOf <- BuyerIn
    ProductOf <- RungOf
    Assets = {"book"}
    Manifest <- ManifestIn
    AccessTokenTtl = 1
    DownloadGrantTtl = 1
    MaxNow = 1
    MaxTokens = 1
    MaxLinks = 1
    \* IndexDeploy
    INDEX_TARGETS <- IndexTargets
    OrderIdKey = "order_key"
    Runs = {1, 2}
    Found <- CatalogsMet
    \* Reconciliation
    DUPLICATE_DIMENSIONS <- MetaEventDimensions
    TableOf <- MetaEventTable
    RecordTypeOf <- MetaEventRecord
    ValuesOf <- RawValues
    Scans = {1, 2}
    WindowOf <- WindowIn
    MaxRowsPerGroup = 2
    MaxGroups = 1
    MaxRecords = 3
    MaxTick = 1
    MaxTriage = 1
    \* Opportunities
    Prospects = {p1}
    Clients = {k1, k2}
    Days = {0, 31}
    MaxSignals = 2
    MaxRuns = 2
    MaxQueries = 3
    Findings <- FindingsMet
    ScoreInputs <- InputsMet
    Ages <- AgesMet
    \* FollowUps
    Leads = {p1}
    ChannelsOf <- ChannelsIn
    FOLLOW_UP_SPACING_DAYS <- Spacing
    DaySteps = {2, 3}
    MaxDay = 7
    MaxTrail = 3
    \* OutreachDrafts
    ResearchSignals <- Researched
    PoolLimit = 8
    HasSubject <- ByMail
    TraitsOf <- TraitsIn
    NumbersIn <- NumbersOf
    Messages <- MessagesWritten
    maxAttempts = 2
    MaxReply = 2
    Subjects <- SubjectsWritten
    EditedBodies = {"sound", "asks twice"}
    People = {"ana", ""}
    MaxMoves = 3
    \* Proposals
    Agreed <- AgreedPrice
    TemplateRange <- ScopeRange
    Texts <- TextsWritten
    Edits <- TextsEdited
    Signers = {"ana", ""}
    maxProposalAttempts = 2
    MaxInstant = 2
    MaxVersions = 3
    \* Checkout
    MaxStarts = 3
    \* ResearchCall
    Observations = {"companySummary", "visibleProblems.0"}
    SourceDocuments <- DocumentsGiven
    TooShort = {"a"}
    ClaimSet <- ClaimsMade
    MaxAttempts = 3
    \* SearchIntake
    Users = {"u1", "u2"}
    Callers = {k1, k2}
    SearchKeys = {key}
    MaxProfiles = 2
    MaxEdits = 1
    MaxCalls = 2
SYMMETRY CallerSymmetry
CHECK_DEADLOCK FALSE
INVARIANTS
    SameKeySameOrder
    AnswerFitsRequest
    ConflictIsReal
    OrphansAreBounded
    PaymentsMatchOrders
    OneCapture
    GateHolds
    RetentionHolds
    AccessHolds
    DeploymentHolds
    ReconciliationHolds
    ScoringHolds
    FollowUpsHold
    OutreachHolds
    ProposalsHold
    CheckoutHolds
    ResearchHolds
    SearchIntakeHolds
PROPERTIES
    CaptureIsFinal
    RedactionIsFinal
