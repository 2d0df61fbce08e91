\* One packet that Opus refuses.
CONSTANTS
    Sessions = {s1}
    Timeout = 1
    Results <- AnyResult
    SizeOf = 256
    MaxTime = 1
    MaxHeard = 1
SPECIFICATION Spec
INVARIANT
    FailureThrows
CHECK_DEADLOCK FALSE
