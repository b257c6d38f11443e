SPECIFICATION FairSpec
CONSTANTS
    Runs = {r1, r2}
    NoRun = NoRun
    NoChunk = NoChunk
    Chunks = {1}
    MaxAttempts = 1
    MaxRetries = 0
PROPERTY LoopAlwaysConverges
\* a terminal job whose runs have ended is the end of the story
CHECK_DEADLOCK FALSE
