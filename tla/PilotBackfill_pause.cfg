SPECIFICATION PilotSpec
CONSTANTS
    Runs = {r1}
    NoRun = NoRun
    NoSlice = NoSlice
    Chunks = {1}
    MaxAttempts = 1
    MaxRetries = 0
    Operators = {o1}
    ChunkCap = 1
INVARIANTS
    InFlightSliceFinishes
CHECK_DEADLOCK FALSE
