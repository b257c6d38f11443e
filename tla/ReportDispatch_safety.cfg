SPECIFICATION Spec
CONSTANTS
    Sweeps = {s1, s2, s3}
    NoSweep = NoSweep
    Destinations = {x, y}
    LastDay = 2
SYMMETRY DispatchSymmetry
INVARIANTS
    TypeOK
    AtMostOnce
    RetryableMeansUndelivered
    SentOncePerOccurrence
PROPERTIES
    ImplementsBriefLedger
\* every sweep ends and the last day never does
CHECK_DEADLOCK FALSE
