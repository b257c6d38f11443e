SPECIFICATION Spec
CONSTANTS
    Workers = {w1, w2}
    NoWorker = NoWorker
    Accounts = {acct}
    Rows = {x, y}
    Conn = conn
    Scopes = {acct, conn}
SYMMETRY SyncSymmetry
INVARIANTS
    TypeOK
    TokensUnique
    SuccessMeansWritten
PROPERTIES
    RegressionOnlyInTheGap
    WorkersDoNotReconnect
