SPECIFICATION Spec
SYMMETRY Symmetry
CONSTANTS
    s1 = s1
    s2 = s2
    s3 = s3
    Sessions = {s1, s2, s3}
    h1 = h1
    h2 = h2
    Hooks = {h1, h2}
    q1 = q1
    q2 = q2
    Polls = {q1, q2}
    MaxWebhooks = 2
    None = None
INVARIANTS
    TypeOK
    ApprovedBeforeIssued
    
    WaitingIsPolled
