SPECIFICATION FairSpec
CONSTANTS
    Workers = {w1}
    NoWorker = NoWorker
    Accounts = {acct1, acct2}
    Rows = {x}
    Conn = conn
    Scopes = {acct1, acct2, conn}
INVARIANTS
    SuccessMeansWritten
PROPERTIES
    OrphansAreFreed
