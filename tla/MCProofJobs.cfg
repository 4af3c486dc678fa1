SPECIFICATION MCSpec
CONSTANTS
    j1 = j1
    j2 = j2
    new = new
    Jobs = {j1, j2}
    Circuits = {"age-proof"}
    Mine = j1
    New = new
    Concurrency = 2
    MaxAttempts = 2
    MaxStalled = 1
    MaxCrashes = 2
    MaxWatched = 1
    None = None
CHECK_DEADLOCK FALSE
INVARIANTS
    TypeOK
    OwnProof
    CompletedInTheRow
PROPERTIES
    JobsEnd
    PageSeesTheEnd
