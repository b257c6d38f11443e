SPECIFICATION Spec
CONSTANTS
    Runs = {r1}
    NoRun = NoRun
    NoChunk = NoChunk
    Chunks = {1, 2}
    MaxAttempts = 1
    MaxRetries = 0
INVARIANT PartialSliceMakesPartialJob
\* a terminal job whose runs have ended is the end of the story
CHECK_DEADLOCK FALSE
