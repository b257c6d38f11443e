SPECIFICATION Spec
CONSTANTS
    Runs = {r1, r2}
    NoRun = NoRun
    NoChunk = NoChunk
    Chunks = {1, 2}
    MaxAttempts = 2
    MaxRetries = 1
INVARIANT PartialJobLeavesNothingQueued
\* a terminal job whose runs have ended is the end of the story
CHECK_DEADLOCK FALSE
