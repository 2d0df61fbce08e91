\* Two speakers, four packets with every gap from none to beyond the limit of 1.
CONSTANTS
    Sessions = {s1, s2}
    Timeout = 1
    Results <- AnyResult
    SizeOf = 256
    MaxTime = 4
    MaxHeard = 4
SYMMETRY AnySpeaker
SPECIFICATION Spec
INVARIANTS
    TypeOK
    DecoderRemembersSpurt
    IdleDropped
CHECK_DEADLOCK FALSE
