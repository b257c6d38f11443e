SPECIFICATION Spec
CONSTANTS
    Runs = {r1, r2}
    NoRun = NoRun
    NoSlice = NoSlice
    Chunks = {1}
    MaxAttempts = 1
    MaxRetries = 0
    Operators = {o1}
    ChunkCap = 1
    Orders = {1, 2}
    Deliveries = {d1, d2}
    Nobody = Nobody
    NoOrder = NoOrder
    Term <- Terms
    TrialEnds = 2
    LastDay = 3
    Senders = {s1, s2}
    NoSender = NoSender
    MaxSends = 2
    Requests = {1, 2, 3}
    Key <- Keys
    NoRequestId = NoRequestId
    Sessions = {j1, j2, j3}
    NoSession = NoSession
    Watched = j1
    Limit = 1
    Attempts = {a1, a2, a3}
    ForAgent = {a1, a2}
    Callbacks = {c1, c2}
    NoAttempt = NoAttempt
    Lifetime = 2
    LastTick = 4
    Episodes = {1, 2}
    Operations = {1, 2}
    Workers = {1, 2}
    NoWorker = NoWorker
    MaxLosses = 2
INVARIANTS
    TypeOK
    NoContactAfterStop
    VerdictCoversAllSlices
    EndedExecutionFreesJob
    AlertVerdictsAreTrue
    LatestClaimStands
    NoSecondMail
    SessionsCapped
    OneAgentConsent
    CompletedMeansImported
PROPERTIES
    ImplementsPilotLedger
    ImplementsPaidTime
    PaymentsSettle
    AlertsSettle
    AnswersStand
    AllowanceReturns
    RevocationReaches
    UsedWhileValid
    VerdictsStand
    PauseReachesWorkers
\* a service may have nothing left to do
CHECK_DEADLOCK FALSE
