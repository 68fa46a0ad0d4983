CONSTANTS
    w1 = w1  w2 = w2  m1 = m1  m2 = m2  n1 = n1  n2 = n2
    Nothing = Nothing
    Subscribers <- Everyone
    RetryDelays <- OneTick
    Workers = {w1, w2}
    Messages = {m1}
    Endpoints = {n1, n2}
    MaxAttempts = 2
    Lease = 1
    PromptHandlers = FALSE
    MaxReplays = 1
    MaxCrashes = 1
SPECIFICATION Spec
INVARIANTS ClaimExclusive AttemptsAccounted CompletedWasReceived
PROPERTIES ImplementsQueue
SYMMETRY Symmetry
CHECK_DEADLOCK FALSE
