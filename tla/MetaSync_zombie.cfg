SPECIFICATION Spec
CONSTANTS
    Workers = {w1, w2}
    NoWorker = NoWorker
    Accounts = {acct}
    Rows = {x}
    Conn = conn
    Scopes = {acct, conn}
PROPERTY ZombieNeverWrites
